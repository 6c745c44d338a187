--------------------------- MODULE Devices_proofs ---------------------------
(***************************************************************************)
(* Proofs about devices and what they may do.  DeviceClaims, for every set *)
(* of tokens, organizations and operators and any number of faults: a      *)
(* device is active only for its owner, the fence and the account explain  *)
(* each other, and a device moves at most once.  ProductServices with its  *)
(* ServiceCatalog, for every catalogue of services and any number of runs, *)
(* requests, jobs, updates and calls: the catalogue, the product and its   *)
(* grants agree, a run keeps to its quantity, and a job does to a device   *)
(* what its preview showed.  The two share nothing.                        *)
(***************************************************************************)
EXTENDS DeviceClaims, ProductServices, FiniteSetTheorems, SequenceTheorems, TLAPS

-----------------------------------------------------------------------------
(* Claims and transfers.                                                   *)

\* The steps of an operator request that run under the row locks.
UnderLock == {"reserve", "write", "release", "cancel"}

\* A claim was made with an issued token, so that no later issue of the token
\* changes the organization it is bound to.
ClaimedWasIssued == \A t \in Tokens : claim[t] # "none" => t \in issued

\* What an operator request knows for as long as it holds the rows.  Between
\* the reservation and the commit its fence stands and nothing is active: the
\* requests on their way carry another generation or none.
OperatorKnows(o) ==
  /\ pc[o] # "idle" => tok[o] \in Tokens
  /\ pc[o] \in {"idle", "observed", "reserve"} => expected[o] = None
  /\ pc[o] \in UnderLock => lock[tok[o]] = o /\ claim[tok[o]] = "resolved"
  /\ pc[o] = "reserve" =>
       target[o] # home[tok[o]] /\ Movable(tok[o], home[tok[o]], target[o])
  /\ pc[o] = "write" =>
       \/ expected[o] = None /\ target[o] = home[tok[o]]
       \/ target[o] # home[tok[o]] /\ Movable(tok[o], home[tok[o]], target[o])
          /\ expected[o] = Generation(o) /\ fence = Generation(o) /\ active = None
  /\ pc[o] = "release" => expected[o] = Generation(o) /\ target[o] # home[tok[o]]
  /\ pc[o] = "cancel" => expected[o] \in Reservations /\ expected[o][1] = tok[o]

\* A request that names a generation names the committed one, and its owner.  One
\* that names none was made by the owner, unless the device has moved since.
RequestIsKnown(r) ==
  \/ r.org = home[r.device] /\ r.generation \in {None, stored[r.device]}
  \/ r.generation = None /\ stored[r.device] # None

\* What every step keeps: the properties, and what they rest on.
ClaimInv ==
  /\ TypeOK /\ TransferKeepsFence /\ FenceIsDerivable /\ ActivatedWhereOwned
  /\ ClaimedWasIssued
  /\ \A o \in Operators : OperatorKnows(o)
  /\ \A r \in requests : RequestIsKnown(r)

\* No row is claimed, nothing is fenced and nobody is at work.
LEMMA ClaimInit == Init => ClaimInv
<1> SUFFICES ASSUME Init PROVE ClaimInv
  OBVIOUS
<1>1. TypeOK
  BY ClaimsAssumption DEF Init, TypeOK
<1>2. TransferKeepsFence /\ FenceIsDerivable /\ ActivatedWhereOwned /\ ClaimedWasIssued
  BY DEF Init, TransferKeepsFence, FenceIsDerivable, ActivatedWhereOwned, ClaimedWasIssued
<1>3. \A o \in Operators : OperatorKnows(o)
  BY DEF Init, OperatorKnows, UnderLock
<1>4. requests = {}
  BY DEF Init
<1>q. QED BY <1>1, <1>2, <1>3, <1>4 DEF ClaimInv

\* A reservation is no sentinel, and its parts are what it was made of.
LEMMA GenerationIsReservation ==
  ASSUME TypeOK, NEW o \in Operators, tok[o] \in Tokens, claim[tok[o]] # "none",
         target[o] # home[tok[o]]
  PROVE  /\ Generation(o) \in Reservations /\ Generation(o) # None
         /\ Generation(o)[1] = tok[o] /\ Generation(o)[2] = home[tok[o]]
         /\ Generation(o)[3] = target[o] /\ home[tok[o]] \in Orgs
<1>1. home[tok[o]] \in Orgs /\ target[o] \in Orgs
  BY DEF TypeOK
<1>q. QED BY <1>1, ClaimsAssumption DEF Generation, Reservations

\* The steps on tokens and devices: each needs the row of its token free, or
\* unclaimed, and so leaves alone what an operator request relies on.
LEMMA RowSteps ==
  ASSUME ClaimInv, NEW t \in Tokens,
         \/ \E org \in Orgs \cup {NoOrg}, p \in BOOLEAN : CreateDeviceClaimToken(t, org, p)
         \/ RevokeDeviceClaimToken(t)
         \/ \E org \in Orgs : ResolveDeviceClaimToken(t, org)
         \/ ResolveEndUserDeviceClaimToken(t) \/ DeleteDevice(t)
         \/ UpdateDeviceAsUser(t) \/ ProvisionDevice(t) \/ IndependentActivation(t)
         \/ UnprovisionDevice(t) \/ Unbind(t)
  PROVE  ClaimInv'
<1> USE ClaimsAssumption DEF ClaimInv
<1>1. ASSUME NEW org \in Orgs \cup {NoOrg}, NEW p \in BOOLEAN, CreateDeviceClaimToken(t, org, p)
      PROVE  ClaimInv'
  <2> USE <1>1 DEF CreateDeviceClaimToken, accountVars, videoVars, remoteVars, operatorVars
  <2>1. TypeOK'
    BY DEF TypeOK
  <2>2. claim[t] = "none"
    BY DEF ClaimedWasIssued
  <2>3. TransferKeepsFence' /\ FenceIsDerivable'
    BY <2>2 DEF TransferKeepsFence, FenceIsDerivable, Committed, Cancelable, Movable,
       Overtaken, Present, TypeOK
  <2>4. ActivatedWhereOwned' /\ ClaimedWasIssued'
    BY DEF ActivatedWhereOwned, ClaimedWasIssued
  <2>5. ASSUME NEW o \in Operators PROVE OperatorKnows(o)'
    <3>1. ASSUME tok[o] \in Tokens \ {t}
          PROVE  Movable(tok[o], home[tok[o]], target[o])' <=> Movable(tok[o], home[tok[o]], target[o])
      <4>1. bound'[tok[o]] = bound[tok[o]] /\ (tok[o] \in product' <=> tok[o] \in product)
        BY <3>1 DEF TypeOK
      <4> QED BY <4>1 DEF Movable, Present, TargetAllowed
    <3>2. pc[o] \in UnderLock => tok[o] \in Tokens \ {t}
      BY <2>2 DEF OperatorKnows, UnderLock
    <3> QED BY <3>1, <3>2 DEF OperatorKnows, Generation, UnderLock
  <2>6. \A r \in requests' : RequestIsKnown(r)'
    BY DEF RequestIsKnown
  <2>q. QED BY <2>1, <2>3, <2>4, <2>5, <2>6
<1>2. CASE RevokeDeviceClaimToken(t)
  <2> USE <1>2 DEF RevokeDeviceClaimToken, Call, accountVars, videoVars, remoteVars, operatorVars
  <2>1. TypeOK'
    BY DEF TypeOK
  <2>3. TransferKeepsFence' /\ FenceIsDerivable'
    BY DEF TransferKeepsFence, FenceIsDerivable, Committed, Cancelable, Movable,
       Overtaken, Present
  <2>4. ActivatedWhereOwned' /\ ClaimedWasIssued'
    BY DEF ActivatedWhereOwned, ClaimedWasIssued
  <2>5. \A o \in Operators : OperatorKnows(o)'
    BY DEF OperatorKnows, Generation, Movable, Present, UnderLock, Free
  <2>6. \A r \in requests' : RequestIsKnown(r)'
    BY DEF RequestIsKnown
  <2>q. QED BY <2>1, <2>3, <2>4, <2>5, <2>6
<1>3. ASSUME NEW org \in Orgs, Resolvable(t, org), ClaimDevice(t, org),
             UNCHANGED <<tokenVars, disabled, gone, provisioned, stored, videoVars,
                         operatorVars, lock, faults>>
      PROVE  ClaimInv'
  <2> USE <1>3 DEF ClaimDevice, tokenVars, videoVars, remoteVars, operatorVars
  <2>0. claim[t] = "none" /\ t \in issued /\ home[t] = NoOrg
    BY DEF Resolvable, TypeOK
  <2>1. TypeOK'
    BY DEF TypeOK
  <2>3. TransferKeepsFence' /\ FenceIsDerivable'
    BY <2>0 DEF TransferKeepsFence, FenceIsDerivable, Committed, Cancelable, Movable,
       Overtaken, Present, TypeOK
  <2>4. ActivatedWhereOwned' /\ ClaimedWasIssued'
    BY <2>0 DEF ActivatedWhereOwned, ClaimedWasIssued, TypeOK, Activations
  <2>5. \A o \in Operators : OperatorKnows(o)'
    BY <2>0 DEF OperatorKnows, Generation, Movable, Present, UnderLock, TypeOK
  <2>6. \A r \in requests' : RequestIsKnown(r)'
    BY <2>0 DEF RequestIsKnown, TypeOK, Requests
  <2>q. QED BY <2>1, <2>3, <2>4, <2>5, <2>6
<1>4. CASE ResolveEndUserDeviceClaimToken(t)
  BY <1>4, <1>3 DEF ResolveEndUserDeviceClaimToken, TypeOK
<1>5. CASE DeleteDevice(t) \/ UpdateDeviceAsUser(t)
  <2> USE <1>5 DEF DeleteDevice, Call, UpdateDeviceAsUser, MergedGeneration, tokenVars, videoVars, remoteVars, operatorVars
  <2>0. stored' = stored
    BY DEF TypeOK
  <2>1. TypeOK'
    BY <2>0 DEF TypeOK
  <2>3. TransferKeepsFence' /\ FenceIsDerivable'
    BY <2>0 DEF TransferKeepsFence, FenceIsDerivable, Committed, Cancelable, Movable,
       Overtaken, Present
  <2>4. ActivatedWhereOwned' /\ ClaimedWasIssued'
    BY DEF ActivatedWhereOwned, ClaimedWasIssued
  <2>5. \A o \in Operators : OperatorKnows(o)'
    BY <2>0 DEF OperatorKnows, Generation, Movable, Present
  <2>6. \A r \in requests' : RequestIsKnown(r)'
    BY <2>0 DEF RequestIsKnown
  <2>q. QED BY <2>1, <2>3, <2>4, <2>5, <2>6
<1>6. CASE ProvisionDevice(t) \/ IndependentActivation(t)
  <2> USE <1>6 DEF ProvisionDevice, IndependentActivation, Call, tokenVars, accountVars, operatorVars
  <2>1. TypeOK'
    BY DEF TypeOK, Requests, Present
  <2>2. FenceIsDerivable'
    <3>1. CASE ProvisionDevice(t)
      BY <3>1 DEF FenceIsDerivable, Committed, Cancelable, Movable, Overtaken, Present
    <3>2. CASE IndependentActivation(t)
      BY <3>2 DEF FenceIsDerivable, Committed, Cancelable, Movable, Overtaken, Present
    <3> QED BY <3>1, <3>2
  <2>3. TransferKeepsFence' /\ FenceIsDerivable'
    BY <2>2 DEF TransferKeepsFence, Committed
  <2>4. ActivatedWhereOwned' /\ ClaimedWasIssued'
    BY DEF ActivatedWhereOwned, ClaimedWasIssued
  <2>5. \A o \in Operators : OperatorKnows(o)'
    BY DEF OperatorKnows, Generation, Movable, Present, UnderLock, Free, TypeOK
  <2>6. \A r \in requests' : RequestIsKnown(r)'
    BY DEF RequestIsKnown
  <2>q. QED BY <2>1, <2>3, <2>4, <2>5, <2>6
<1>7. CASE UnprovisionDevice(t)
  <2> USE <1>7 DEF UnprovisionDevice, Call, tokenVars, operatorVars
  <2>1. TypeOK'
    BY DEF TypeOK
  <2>2. stored[t] = None
    BY DEF TransferKeepsFence, Committed
  <2>3. TransferKeepsFence'
    BY <2>2 DEF TransferKeepsFence, Committed
  <2>4. FenceIsDerivable'
    BY DEF FenceIsDerivable, Committed, Cancelable, Movable, Overtaken, Present
  <2>5. ActivatedWhereOwned' /\ ClaimedWasIssued'
    BY DEF ActivatedWhereOwned, ClaimedWasIssued
  <2>6. \A o \in Operators : OperatorKnows(o)'
    BY DEF OperatorKnows, Generation, Movable, Present, UnderLock, Free
  <2>7. \A r \in requests' : RequestIsKnown(r)'
    BY DEF RequestIsKnown
  <2>q. QED BY <2>1, <2>3, <2>4, <2>5, <2>6, <2>7
<1>8. CASE Unbind(t)
  <2> USE <1>8 DEF Unbind, tokenVars, accountVars, operatorVars
  <2>1. TypeOK'
    BY DEF TypeOK
  <2>2. TransferKeepsFence' /\ FenceIsDerivable'
    BY DEF TransferKeepsFence, FenceIsDerivable, Committed, Cancelable, Movable, Overtaken, Present
  <2>3. ActivatedWhereOwned' /\ ClaimedWasIssued'
    BY DEF ActivatedWhereOwned, ClaimedWasIssued
  <2>4. \A o \in Operators : OperatorKnows(o)'
    BY DEF OperatorKnows, Generation, Movable, Present
  <2>5. \A r \in requests' : RequestIsKnown(r)'
    BY DEF RequestIsKnown
  <2>q. QED BY <2>1, <2>2, <2>3, <2>4, <2>5
<1>q. QED BY <1>1, <1>2, <1>3, <1>4, <1>5, <1>6, <1>7, <1>8 DEF ResolveDeviceClaimToken

\* Video Cloud activates only what the owner asked for, and never a device whose
\* transfer waits for its commit.
LEMMA ActivateStep ==
  ASSUME ClaimInv, NEW r \in requests, Activate(r)
  PROVE  ClaimInv'
<1> USE ClaimsAssumption DEF ClaimInv, Activate, tokenVars, accountVars, operatorVars
<1>0. r \in Requests
  BY DEF TypeOK
<1>1. TypeOK'
  BY <1>0 DEF TypeOK, Requests, Activations
<1>2. TransferKeepsFence' /\ FenceIsDerivable' /\ ClaimedWasIssued'
  BY DEF TransferKeepsFence, FenceIsDerivable, Committed, Cancelable, Movable,
       Overtaken, Present, ClaimedWasIssued
<1>3. Accepts(r) => r.org = home[r.device]
  BY <1>0 DEF Accepts, RequestIsKnown, TransferKeepsFence, Committed, Requests
<1>4. ActivatedWhereOwned'
  BY <1>3 DEF ActivatedWhereOwned
<1>5. ASSUME NEW o \in Operators, pc[o] = "write", target[o] # home[tok[o]] PROVE ~Accepts(r)
  <2>1. fence = Generation(o) /\ claim[tok[o]] = "resolved" /\ tok[o] \in Tokens
        /\ target[o] # home[tok[o]]
    BY <1>5 DEF OperatorKnows, UnderLock
  <2>2. fence # None /\ fence[1] = tok[o]
    BY <2>1, GenerationIsReservation
  <2>3. r.device \in Tokens /\ (r.generation # None => r.generation = stored[r.device])
    BY <1>0 DEF RequestIsKnown, Requests
  <2>4. r.generation = fence => claim[fence[1]] = "moved"
    BY <2>2, <2>3 DEF TransferKeepsFence, Committed
  <2>q. QED BY <2>1, <2>2, <2>4 DEF Accepts
<1>6. \A o \in Operators : OperatorKnows(o)'
  BY <1>5 DEF OperatorKnows, Generation, Movable, Present
<1>7. \A s \in requests' : RequestIsKnown(s)'
  BY DEF RequestIsKnown
<1>q. QED BY <1>1, <1>2, <1>4, <1>6, <1>7

\* The step is of request o: the others, and the rows they hold, stay as they are.
OthersStay(o) ==
  \A p \in Operators \ {o} :
    /\ pc'[p] = pc[p] /\ tok'[p] = tok[p] /\ target'[p] = target[p]
    /\ expected'[p] = expected[p]
    /\ pc[p] \in UnderLock => lock'[tok[p]] = lock[tok[p]]

\* The request of an operator, or its lock, changes nothing a request at Video
\* Cloud or another operator relies on.
LEMMA OperatorOnly ==
  ASSUME ClaimInv, TypeOK', NEW o \in Operators,
         UNCHANGED <<tokenVars, accountVars, videoVars>>,
         OperatorKnows(o)',
         OthersStay(o)
  PROVE  ClaimInv'
<1> USE DEF ClaimInv, tokenVars, accountVars, videoVars, remoteVars
<1>1. TransferKeepsFence' /\ FenceIsDerivable' /\ ActivatedWhereOwned' /\ ClaimedWasIssued'
  BY DEF TransferKeepsFence, FenceIsDerivable, Committed, Cancelable, Movable,
       Overtaken, Present, ActivatedWhereOwned, ClaimedWasIssued
<1>2. ASSUME NEW p \in Operators PROVE OperatorKnows(p)'
  BY DEF OperatorKnows, Generation, Movable, Present, UnderLock, OthersStay
<1>3. \A r \in requests' : RequestIsKnown(r)'
  BY DEF RequestIsKnown
<1>q. QED BY <1>1, <1>2, <1>3

\* Two requests under the locks hold the rows of different tokens.
LEMMA LocksExclude ==
  ASSUME ClaimInv, NEW o \in Operators, NEW p \in Operators, o # p,
         pc[o] \in UnderLock, pc[p] \in UnderLock
  PROVE  tok[o] # tok[p]
BY DEF ClaimInv, OperatorKnows

\* Looking at a claim or at a fence locks nothing.
LEMMA LookSteps ==
  ASSUME ClaimInv, NEW o \in Operators, NEW t \in Tokens,
         InspectTransferFence(o, t) \/ \E org \in Orgs : ObserveClaim(o, t, org)
  PROVE  ClaimInv'
<1> USE ClaimsAssumption DEF ClaimInv, Goto
<1>1. CASE InspectTransferFence(o, t)
  <2> USE <1>1 DEF InspectTransferFence
  <2>1. TypeOK'
    BY DEF TypeOK, tokenVars, accountVars, videoVars, remoteVars
  <2>2. OperatorKnows(o)'
    BY DEF OperatorKnows, UnderLock, TypeOK
  <2>3. OthersStay(o)
    BY DEF OthersStay, TypeOK
  <2>q. QED BY <2>1, <2>2, <2>3, OperatorOnly
<1>2. ASSUME NEW org \in Orgs, ObserveClaim(o, t, org) PROVE ClaimInv'
  <2> USE <1>2 DEF ObserveClaim
  <2>1. TypeOK'
    BY DEF TypeOK, tokenVars, accountVars, videoVars, remoteVars
  <2>2. OperatorKnows(o)'
    BY DEF OperatorKnows, UnderLock, TypeOK
  <2>3. OthersStay(o)
    BY DEF OthersStay, TypeOK
  <2>q. QED BY <2>1, <2>2, <2>3, OperatorOnly
<1>q. QED BY <1>1, <1>2

\* The request ends and its rows are free again, with the account and Video Cloud
\* as they were.
LEMMA LeaveStep ==
  ASSUME ClaimInv, NEW o \in Operators, pc[o] # "idle", Leave(o),
         \/ pc[o] \in UnderLock /\ Drop(o)
         \/ lock' = lock,
         UNCHANGED <<tokenVars, accountVars, videoVars>>, faults' \in 0..MaxFaults
  PROVE  ClaimInv'
<1> USE ClaimsAssumption DEF ClaimInv, Leave, Goto, Drop
<1>0. tok[o] \in Tokens
  BY DEF OperatorKnows
<1>1. TypeOK'
  BY <1>0 DEF TypeOK, tokenVars, accountVars, videoVars, remoteVars
<1>2. OperatorKnows(o)'
  BY DEF OperatorKnows, UnderLock, TypeOK
<1>3. ASSUME NEW p \in Operators \ {o}, pc[p] \in UnderLock PROVE lock'[tok[p]] = lock[tok[p]]
  <2>1. tok[p] \in Tokens
    BY <1>3 DEF OperatorKnows, UnderLock
  <2>2. CASE lock' = lock
    BY <2>2
  <2>3. CASE pc[o] \in UnderLock /\ Drop(o)
    BY <1>0, <1>3, <2>1, <2>3, LocksExclude DEF TypeOK
  <2>q. QED BY <2>2, <2>3
<1>4. OthersStay(o)
  BY <1>3 DEF OthersStay, TypeOK
<1>q. QED BY <1>1, <1>2, <1>4, OperatorOnly

\* The locks are taken on a free row, after everything was read again.
LEMMA TakeSteps ==
  ASSUME ClaimInv, NEW o \in Operators, LockClaim(o) \/ CancelTransferFence(o)
  PROVE  ClaimInv'
<1> USE ClaimsAssumption DEF ClaimInv
<1>0. tok[o] \in Tokens /\ Free(tok[o])
  BY DEF OperatorKnows, LockClaim, CancelTransferFence
<1>1. ASSUME NEW p \in Operators, pc[p] \in UnderLock PROVE tok[p] \in Tokens \ {tok[o]}
  BY <1>0, <1>1 DEF OperatorKnows, Free, UnderLock
<1>2. CASE LockClaim(o) /\ Movable(tok[o], seen[o], target[o])
  <2> USE <1>2 DEF LockClaim, Take, Goto
  <2>1. TypeOK'
    BY <1>0 DEF TypeOK, tokenVars, accountVars, videoVars, remoteVars
  <2>2. OperatorKnows(o)'
    BY <1>0 DEF OperatorKnows, UnderLock, TypeOK, Movable, Present, tokenVars, accountVars
  <2>3. OthersStay(o)
    BY <1>0, <1>1 DEF OthersStay, TypeOK
  <2>q. QED BY <2>1, <2>2, <2>3, OperatorOnly
<1>3. CASE CancelTransferFence(o) /\ MayCancel(o)
  <2> USE <1>3 DEF CancelTransferFence, Take, Goto
  <2>1. TypeOK'
    BY <1>0 DEF TypeOK, tokenVars, accountVars, videoVars, remoteVars
  <2>2. OperatorKnows(o)'
    BY <1>0 DEF OperatorKnows, UnderLock, TypeOK, MayCancel, Cancelable, accountVars
  <2>3. OthersStay(o)
    BY <1>0, <1>1 DEF OthersStay, TypeOK
  <2>q. QED BY <2>1, <2>2, <2>3, OperatorOnly
<1>q. QED BY <1>2, <1>3, LeaveStep DEF LockClaim, CancelTransferFence, TypeOK

\* A reservation for a transfer that could be made now.
Open(g) ==
  /\ g \in Reservations /\ g[2] = home[g[1]] /\ stored[g[1]] = None
  /\ Movable(g[1], home[g[1]], g[3])

\* Under the locks of a claim that has not moved, its own fence may come or go:
\* no committed transfer and no other request relies on it.
LEMMA FenceSteps ==
  ASSUME ClaimInv, TypeOK', NEW o \in Operators, pc[o] \in UnderLock,
         UNCHANGED <<tokenVars, accountVars, requests, withdrawals, active>>,
         fence' # fence =>
           /\ fence = None \/ fence[1] = tok[o]
           /\ fence' = None \/ (fence'[1] = tok[o] /\ Open(fence')),
         OperatorKnows(o)', OthersStay(o)
  PROVE  ClaimInv'
<1> USE DEF ClaimInv, tokenVars, accountVars
<1>0. tok[o] \in Tokens /\ claim[tok[o]] = "resolved"
  BY DEF OperatorKnows, UnderLock
<1>1. stored[tok[o]] = None
  BY <1>0 DEF TransferKeepsFence, Committed
<1>2. TransferKeepsFence'
  BY <1>0 DEF TransferKeepsFence, Committed
<1>3. FenceIsDerivable'
  <2>1. CASE fence' = fence
    BY <2>1 DEF FenceIsDerivable, Committed, Cancelable, Movable, Overtaken, Present
  <2>2. CASE fence' = None
    BY <2>2 DEF FenceIsDerivable
  <2>3. CASE fence' # None /\ Open(fence')
    <3>1. PICK g \in Reservations : fence' = g /\ Open(g)
      BY <2>3 DEF Open
    <3>2. /\ g \in Tokens \X Orgs \X Orgs /\ g[2] # g[3] /\ g[2] = home[g[1]] /\ stored[g[1]] = None
          /\ Movable(g[1], home[g[1]], g[3])
      BY <3>1 DEF Open, Reservations
    <3>3. g = <<g[1], home[g[1]], g[3]>>
      BY <3>2
    <3>4. Movable(g[1], home[g[1]], g[3])'
      BY <3>2 DEF Movable, Present
    <3>5. Cancelable(g[1])'
      BY <2>3, <3>1, <3>2, <3>3 DEF Cancelable, Movable, Present
    <3> QED BY <3>1, <3>2, <3>4, <3>5 DEF FenceIsDerivable, Movable, Present
  <2> QED BY <2>1, <2>2, <2>3
<1>4. ActivatedWhereOwned' /\ ClaimedWasIssued'
  BY DEF ActivatedWhereOwned, ClaimedWasIssued
<1>5. ASSUME NEW p \in Operators PROVE OperatorKnows(p)'
  <2> SUFFICES ASSUME p # o PROVE OperatorKnows(p)'
    OBVIOUS
  <2>1. ASSUME pc[p] = "write", target[p] # home[tok[p]] PROVE fence' = fence
    <3>1. fence = Generation(p) /\ tok[p] \in Tokens /\ claim[tok[p]] = "resolved"
      BY <2>1 DEF OperatorKnows, UnderLock
    <3>2. fence # None /\ fence[1] = tok[p]
      BY <2>1, <3>1, GenerationIsReservation
    <3>3. tok[p] # tok[o]
      BY <2>1, LocksExclude DEF UnderLock
    <3>q. QED BY <3>2, <3>3
  <2>q. QED BY <2>1 DEF OperatorKnows, Generation, Movable, Present, UnderLock, OthersStay
<1>6. \A r \in requests' : RequestIsKnown(r)'
  BY DEF RequestIsKnown
<1>q. QED BY <1>2, <1>3, <1>4, <1>5, <1>6

\* A request that ends under its locks, whatever became of its own fence.
LEMMA LeaveFenceStep ==
  ASSUME ClaimInv, NEW o \in Operators, pc[o] \in UnderLock, Leave(o), Drop(o),
         UNCHANGED <<tokenVars, accountVars, requests, withdrawals, active, calls>>,
         faults' \in 0..MaxFaults, fence' \in Reservations \cup {None},
         fence' # fence =>
           /\ fence = None \/ fence[1] = tok[o]
           /\ fence' = None \/ (fence'[1] = tok[o] /\ Open(fence'))
  PROVE  ClaimInv'
<1> USE ClaimsAssumption DEF Leave, Goto, Drop
<1>0. tok[o] \in Tokens /\ TypeOK
  BY DEF OperatorKnows, ClaimInv, UnderLock
<1>1. TypeOK'
  BY <1>0 DEF TypeOK, tokenVars, accountVars
<1>2. OperatorKnows(o)'
  BY <1>0 DEF OperatorKnows, UnderLock, TypeOK
<1>3. ASSUME NEW p \in Operators \ {o}, pc[p] \in UnderLock PROVE lock'[tok[p]] = lock[tok[p]]
  <2>1. tok[p] \in Tokens /\ tok[p] # tok[o]
    BY <1>3, LocksExclude DEF OperatorKnows, UnderLock, ClaimInv
  <2>q. QED BY <1>0, <2>1 DEF TypeOK
<1>4. OthersStay(o)
  BY <1>0, <1>3 DEF OthersStay, TypeOK
<1>q. QED BY <1>1, <1>2, <1>4, FenceSteps

\* A fault is counted within its bound.
LEMMA FaultType == ASSUME TypeOK, Fault PROVE faults' \in 0..MaxFaults
BY ClaimsAssumption DEF TypeOK, Fault

\* The reservation at Video Cloud, with its answer received, refused or lost.
LEMMA ReserveSteps ==
  ASSUME ClaimInv, NEW o \in Operators, ReserveTransferFence(o) \/ ReserveFails(o)
  PROVE  ClaimInv'
<1> USE ClaimsAssumption DEF ClaimInv
<1>0. /\ pc[o] = "reserve" /\ pc[o] \in UnderLock /\ tok[o] \in Tokens
      /\ claim[tok[o]] = "resolved" /\ lock[tok[o]] = o
      /\ target[o] # home[tok[o]] /\ Movable(tok[o], home[tok[o]], target[o])
  BY DEF ReserveTransferFence, ReserveFails, OperatorKnows, UnderLock
<1>1. /\ Generation(o) \in Reservations /\ Generation(o) # None
      /\ Generation(o)[1] = tok[o] /\ Generation(o)[2] = home[tok[o]]
      /\ Generation(o)[3] = target[o] /\ Open(Generation(o))
  <2>1. stored[tok[o]] = None
    BY <1>0 DEF TransferKeepsFence, Committed
  <2> QED BY <1>0, <2>1, GenerationIsReservation DEF Open
<1>2. Reservable(Generation(o)) => active = None /\ (fence = None \/ fence = Generation(o))
  BY DEF Reservable
<1>3. CASE ReserveTransferFence(o) /\ Reservable(Generation(o))
  <2> USE <1>3 DEF ReserveTransferFence, Goto
  <2>1. TypeOK'
    BY <1>1 DEF TypeOK, tokenVars, accountVars
  <2>2. OperatorKnows(o)'
    BY <1>0, <1>1, <1>2 DEF OperatorKnows, Generation, Movable, Present, UnderLock, TypeOK,
       tokenVars, accountVars
  <2>3. OthersStay(o)
    BY DEF OthersStay, TypeOK
  <2>q. QED BY <1>0, <1>1, <1>2, <2>1, <2>2, <2>3, FenceSteps
<1>4. CASE ReserveTransferFence(o) /\ ~Reservable(Generation(o))
  BY <1>0, <1>4, LeaveFenceStep DEF ReserveTransferFence, TypeOK
<1>5. CASE ReserveFails(o)
  <2>1. faults' \in 0..MaxFaults
    BY <1>5, FaultType DEF ReserveFails
  <2>2. fence' = fence \/ (Reservable(Generation(o)) /\ fence' = Generation(o))
    BY <1>5 DEF ReserveFails
  <2>3. fence \in Reservations \cup {None}
    BY DEF TypeOK
  <2>q. QED BY <1>0, <1>1, <1>2, <1>5, <2>1, <2>2, <2>3, LeaveFenceStep DEF ReserveFails
<1>q. QED BY <1>3, <1>4, <1>5

\* The release of a fence that was not committed, and its cancellation.
LEMMA ForgetSteps ==
  ASSUME ClaimInv, NEW o \in Operators, ReleaseTransferFence(o) \/ CancelAtVideoCloud(o)
  PROVE  ClaimInv'
<1> USE DEF ClaimInv
<1>0. /\ pc[o] \in UnderLock /\ tok[o] \in Tokens /\ claim[tok[o]] = "resolved"
      /\ pc[o] = "release" => expected[o] = Generation(o) /\ target[o] # home[tok[o]]
      /\ pc[o] = "cancel" => expected[o][1] = tok[o]
      /\ pc[o] \in {"release", "cancel"}
  BY DEF ReleaseTransferFence, CancelAtVideoCloud, OperatorKnows, UnderLock
<1>1. expected[o][1] = tok[o]
  BY <1>0, GenerationIsReservation
<1>2. fence' = fence \/ (fence[1] = tok[o] /\ fence' = None)
  BY <1>1 DEF ReleaseTransferFence, CancelAtVideoCloud, Forgotten
<1>3. faults' \in 0..MaxFaults /\ fence' \in Reservations \cup {None}
  BY <1>2, FaultType DEF ReleaseTransferFence, CancelAtVideoCloud, TypeOK
<1>q. QED BY <1>0, <1>2, <1>3, LeaveFenceStep DEF ReleaseTransferFence, CancelAtVideoCloud

\* A failing write keeps the fence for the deferred release; a crash leaves it.
LEMMA FailSteps ==
  ASSUME ClaimInv, NEW o \in Operators, WriteFails(o) \/ OperatorCrash(o)
  PROVE  ClaimInv'
<1> USE DEF ClaimInv
<1>0. pc[o] \in UnderLock /\ faults' \in 0..MaxFaults
  BY FaultType DEF WriteFails, OperatorCrash, UnderLock, TypeOK
<1>1. CASE WriteFails(o) /\ expected[o] # None
  <2> USE <1>1 DEF WriteFails, Goto
  <2>1. TypeOK'
    BY <1>0 DEF TypeOK, tokenVars, accountVars, videoVars, remoteVars
  <2>2. OperatorKnows(o)'
    BY DEF OperatorKnows, Generation, Movable, Present, UnderLock, TypeOK, accountVars
  <2>3. OthersStay(o)
    BY DEF OthersStay, TypeOK
  <2>q. QED BY <2>1, <2>2, <2>3, OperatorOnly
<1>2. CASE WriteFails(o) /\ expected[o] = None
  BY <1>0, <1>2, LeaveStep DEF WriteFails
<1>3. CASE OperatorCrash(o)
  BY <1>0, <1>3, LeaveStep DEF OperatorCrash
<1>q. QED BY <1>1, <1>2, <1>3

\* The commit: the claim moves, and what moved with it is behind its fence.
LEMMA ApplyStep ==
  ASSUME ClaimInv, NEW o \in Operators, pc[o] = "write", ApplyTransfer(o), Leave(o), Drop(o),
         UNCHANGED <<product, issued, revoked, videoVars>>, faults' \in 0..MaxFaults
  PROVE  ClaimInv'
<1> DEFINE t == tok[o]
<1> USE ClaimsAssumption DEF ClaimInv, ApplyTransfer, Leave, Goto, Drop, videoVars, remoteVars
<1>0. t \in Tokens /\ claim[t] = "resolved" /\ lock[t] = o /\ pc[o] \in UnderLock
  BY DEF OperatorKnows, UnderLock
<1>1. /\ home[t] \in Orgs /\ target[o] \in Orgs /\ stored[t] = None
      /\ home[t] = NoOrg <=> claim[t] = "none"
  BY <1>0 DEF TypeOK, TransferKeepsFence, Committed
<1>2. \/ target[o] = home[t]
      \/ /\ target[o] # home[t] /\ fence = Generation(o) /\ active = None
         /\ Generation(o) \in Reservations /\ Generation(o) # None
         /\ fence[1] = t /\ fence[3] = target[o]
  BY <1>0, GenerationIsReservation DEF OperatorKnows
<1>3. TypeOK'
  <2>1. /\ claim' = [claim EXCEPT ![t] = "moved"] /\ home' = [home EXCEPT ![t] = target[o]]
        /\ bound' = [bound EXCEPT ![t] = target[o]]
        /\ stored' \in [Tokens -> Reservations \cup {None}]
        /\ disabled' = disabled /\ provisioned' = provisioned /\ gone' = gone
    BY <1>2 DEF TypeOK
  <2>2. /\ bound' \in [Tokens -> Orgs \cup {NoOrg}] /\ home' \in [Tokens -> Orgs \cup {NoOrg}]
        /\ claim' \in [Tokens -> {"none", "resolved", "moved"}]
        /\ \A s \in Tokens : home'[s] = NoOrg <=> claim'[s] = "none"
    BY <1>0, <1>1, <2>1 DEF TypeOK
  <2>q. QED BY <1>0, <2>1, <2>2 DEF TypeOK
<1>4. \A s \in Tokens \ {t} : claim'[s] = claim[s] /\ home'[s] = home[s]
                              /\ bound'[s] = bound[s] /\ stored'[s] = stored[s]
  BY DEF TypeOK
<1>5. claim'[t] = "moved" /\ home'[t] = target[o] /\ bound'[t] = target[o]
  BY <1>0 DEF TypeOK
<1>6. CASE target[o] = home[t]
  <2>1. stored' = stored /\ home'[t] = home[t]
    BY <1>5, <1>6
  <2>2. TransferKeepsFence' /\ FenceIsDerivable'
    BY <1>0, <1>1, <1>4, <1>5, <2>1 DEF TransferKeepsFence, FenceIsDerivable, Committed, Cancelable, Movable,
       Overtaken, Present, TypeOK
  <2>3. home' = home
    BY <1>6 DEF TypeOK
  <2>4. ActivatedWhereOwned' /\ ClaimedWasIssued'
    BY <1>0, <1>4, <2>3 DEF ActivatedWhereOwned, ClaimedWasIssued
  <2>5. \A r \in requests' : RequestIsKnown(r)'
    BY <2>1, <2>3 DEF RequestIsKnown
  <2>q. QED
    <3>1. ASSUME NEW p \in Operators PROVE OperatorKnows(p)'
      <4>1. CASE p = o
        BY <4>1 DEF OperatorKnows, UnderLock, TypeOK
      <4>2. CASE p # o /\ pc[p] \in UnderLock
        <5>1. tok[p] \in Tokens /\ tok[p] # t
          BY <1>0, <4>2, LocksExclude DEF OperatorKnows, UnderLock
        <5>q. QED BY <1>0, <1>4, <2>3, <4>2, <5>1 DEF OperatorKnows, Generation, Movable, Present, UnderLock, TypeOK
      <4>3. CASE p # o /\ pc[p] \notin UnderLock
        BY <4>3 DEF OperatorKnows, UnderLock, TypeOK
      <4>q. QED BY <4>1, <4>2, <4>3
    <3>q. QED BY <1>3, <2>2, <2>4, <2>5, <3>1
<1>7. CASE target[o] # home[t]
  <2>1. stored'[t] = fence
    BY <1>0, <1>2, <1>7 DEF TypeOK
  <2>2. \A s \in Tokens \ {t} : stored[s] = None
    BY <1>2, <1>7 DEF TransferKeepsFence, Committed
  <2>3. ASSUME NEW s \in Tokens, s = t PROVE Committed(s)' /\ s \notin gone'
    BY <1>2, <1>5, <1>7, <2>1, <2>3 DEF Committed, OperatorKnows, Movable, Present
  <2>4. TransferKeepsFence' /\ FenceIsDerivable'
    BY <1>0, <1>2, <1>4, <1>7, <2>2, <2>3 DEF TransferKeepsFence, FenceIsDerivable
  <2>5. ActivatedWhereOwned' /\ ClaimedWasIssued'
    BY <1>0, <1>2, <1>4, <1>7 DEF ActivatedWhereOwned, ClaimedWasIssued
  <2>6. ASSUME NEW r \in requests PROVE RequestIsKnown(r)'
    <3>1. r.device \in Tokens /\ RequestIsKnown(r)
      BY DEF TypeOK, Requests
    <3>2. CASE r.device = t
      BY <1>1, <1>2, <1>7, <2>1, <3>1, <3>2 DEF RequestIsKnown
    <3>3. CASE r.device # t
      BY <1>4, <3>1, <3>3 DEF RequestIsKnown
    <3>q. QED BY <3>2, <3>3
  <2>7. ASSUME NEW p \in Operators PROVE OperatorKnows(p)'
    <3>1. CASE p = o
      BY <3>1 DEF OperatorKnows, UnderLock, TypeOK
    <3>2. CASE p # o /\ pc[p] \in UnderLock
      <4>1. tok[p] \in Tokens /\ tok[p] # t
        BY <1>0, <3>2, LocksExclude DEF OperatorKnows, UnderLock
      <4>q. QED BY <1>0, <1>4, <3>2, <4>1 DEF OperatorKnows, Generation, Movable, Present, UnderLock, TypeOK
    <3>3. CASE p # o /\ pc[p] \notin UnderLock
      BY <3>3 DEF OperatorKnows, UnderLock, TypeOK
    <3>q. QED BY <3>1, <3>2, <3>3
  <2>q. QED BY <1>3, <2>4, <2>5, <2>6, <2>7
<1>q. QED BY <1>6, <1>7

\* The commit, answered or not, and obeyed or not.
LEMMA CommitSteps ==
  ASSUME ClaimInv, NEW o \in Operators, CommitTransfer(o) \/ CommitFails(o)
  PROVE  ClaimInv'
<1>1. pc[o] = "write" /\ pc[o] \in UnderLock /\ Leave(o) /\ Drop(o)
      /\ UNCHANGED <<product, issued, revoked, videoVars>> /\ faults' \in 0..MaxFaults
  BY FaultType DEF CommitTransfer, CommitFails, AfterCommit, UnderLock, ClaimInv, TypeOK
<1>2. CASE ApplyTransfer(o)
  BY <1>1, <1>2, ApplyStep
<1>3. CASE UNCHANGED <<accountVars, bound>>
  BY <1>1, <1>3, LeaveStep DEF tokenVars
<1>q. QED BY <1>2, <1>3 DEF CommitTransfer, CommitFails

\* One step of anybody.
LEMMA ClaimStep == ClaimInv /\ [Next]_vars => ClaimInv'
<1> SUFFICES ASSUME ClaimInv, [Next]_vars PROVE ClaimInv'
  OBVIOUS
<1>1. CASE UNCHANGED vars
  <2> USE <1>1 DEF vars, tokenVars, accountVars, videoVars, remoteVars, operatorVars, ClaimInv
  <2>1. TypeOK'
    BY DEF TypeOK
  <2>2. TransferKeepsFence'
    BY DEF TransferKeepsFence, Committed
  <2>3. FenceIsDerivable'
    BY DEF FenceIsDerivable, Committed, Cancelable, Movable,
       Overtaken, Present
  <2>4. ActivatedWhereOwned' /\ ClaimedWasIssued'
    BY DEF ActivatedWhereOwned, ClaimedWasIssued
  <2>5. (\A o \in Operators : OperatorKnows(o)') /\ \A r \in requests' : RequestIsKnown(r)'
    BY DEF OperatorKnows, Generation, Movable, Present, RequestIsKnown
  <2>q. QED BY <2>1, <2>2, <2>3, <2>4, <2>5
<1>2. CASE Next
  BY <1>2, RowSteps, ActivateStep, LookSteps, TakeSteps, ReserveSteps, ForgetSteps, FailSteps,
     CommitSteps DEF Next
<1>q. QED BY <1>1, <1>2

\* What ClaimInv says holds at every moment.
LEMMA ClaimsHold == Spec => []ClaimInv
BY ClaimInit, ClaimStep, PTL DEF Spec

\* Whatever is lost, retried, cancelled or unprovisioned, a device active at Video
\* Cloud is active for the organization of its claim: for every number of operators,
\* tokens and faults (overrideDeviceClaim, ActivateDevice's generation).
THEOREM ActiveForItsOwner == Spec => []ActivatedWhereOwned
BY ClaimsHold, PTL DEF ClaimInv

\* A committed transfer keeps its fence and its device, and a fence without a transfer
\* is one a retry confirms and an operator can cancel, unless the token was revoked,
\* the device provisioned or unprovisioned, or the claim overridden within its
\* organization since (overrideDeviceClaim, ReconcileDeviceTransferFence,
\* UnprovisionDevice).
THEOREM FencesAreSound == Spec => []FenceIsSound
<1>1. ClaimInv => FenceIsSound
  BY DEF ClaimInv, FenceIsSound
<1>q. QED BY <1>1, ClaimsHold, PTL

\* Only the commit of a transfer changes the organization of a claimed device, once,
\* never after a provision or an unprovision, and into a brand cloud only with a
\* product of that cloud: what the request saw under the locks still holds.
THEOREM ClaimedDevicesStay == Spec => DevicesStay
<1>1. ASSUME ClaimInv, [Next]_vars, NEW t \in Tokens, home[t] # NoOrg, home'[t] # home[t]
      PROVE  /\ claim[t] = "resolved" /\ claim'[t] = "moved" /\ t \notin provisioned \cup gone
             /\ home'[t] \in BrandClouds => t \in product /\ home'[t] = Maker
  <2> USE ClaimsAssumption DEF tokenVars, accountVars
  <2>1. \E o \in Operators : pc[o] = "write" /\ ApplyTransfer(o)
    <3>1. ASSUME NEW s \in Tokens, NEW org \in Orgs \cup {NoOrg}, Resolvable(s, org), ClaimDevice(s, org)
          PROVE  FALSE
      BY <1>1, <3>1 DEF Resolvable, ClaimDevice, ClaimInv, TypeOK
    <3>q. QED BY <1>1, <3>1 DEF Next, vars, CreateDeviceClaimToken, RevokeDeviceClaimToken,
        ResolveDeviceClaimToken, ResolveEndUserDeviceClaimToken, DeleteDevice, UpdateDeviceAsUser,
        ProvisionDevice, UnprovisionDevice, IndependentActivation, Activate, Unbind, ObserveClaim, InspectTransferFence,
        LockClaim, ReserveTransferFence, ReserveFails, WriteFails, CommitTransfer, CommitFails,
        ReleaseTransferFence, OperatorCrash, CancelTransferFence, CancelAtVideoCloud, ClaimInv, TypeOK
  <2>2. PICK o \in Operators : pc[o] = "write" /\ ApplyTransfer(o)
    BY <2>1
  <2>3. tok[o] = t /\ target[o] # home[t]
    BY <1>1, <2>2 DEF ApplyTransfer, ClaimInv, TypeOK
  <2>q. QED BY <1>1, <2>2, <2>3 DEF ApplyTransfer, ClaimInv, OperatorKnows, UnderLock, TypeOK,
       Movable, TargetAllowed, Present
<1>2. ClaimInv /\ [Next]_vars =>
        [\A t \in Tokens : home[t] # NoOrg /\ home'[t] # home[t] =>
           /\ claim[t] = "resolved" /\ claim'[t] = "moved" /\ t \notin provisioned \cup gone
           /\ home'[t] \in BrandClouds => t \in product /\ home'[t] = Maker]_vars
  BY <1>1
<1>q. QED BY <1>2, ClaimsHold, PTL DEF Spec, DevicesStay

-----------------------------------------------------------------------------
(* Services, products and entitlements: the inductive invariant.           *)

\* Only a registration adds a manifest, and the first of a service publishes it.
Registered == \A m \in manifest : service[m.service].published # 0

\* The catalogue.
CatalogInv == CatalogTypeOK /\ CatalogIsSound /\ Registered

\* While the catalogue has the revision of the listing, nothing can be selected
\* that was not listed: what becomes selectable moves the revision.
ListingHolds ==
  /\ listed.revision <= revision
  /\ listed.revision = revision => Selectable \subseteq listed.options

\* What the row of a request says of the issuer.  A request that was heard of, or
\* has a certificate, was admitted; one that is over has the issuer's evidence.
RequestIsSound(q) ==
  /\ reservation[q].status = "none" =>
       q \notin heard /\ certificate[q] = "none" /\ ~reservation[q].admitted
  /\ reservation[q].status = "reserved" => reservation[q].admitted
  /\ reservation[q].status = "issued" => reservation[q].admitted /\ certificate[q] = "issued"
  /\ reservation[q].status = "not_issued" => certificate[q] = "fenced"
  /\ q \in heard /\ certificate[q] = "none" => reservation[q].admitted
  /\ certificate[q] = "issued" => reservation[q].admitted
  /\ reservation[q].run # NoRun => run[reservation[q].run].status # "none"

\* The requests that may have, or may still get, a certificate of a run.
Places(r) == Of(r, {"reserved", "cancel_requested", "issued"}) \cap Admitted

\* The factory: every run has places for what it counts and what is pending.
FactoryInv ==
  /\ FactoryTypeOK
  /\ \A q \in Enrollments : RequestIsSound(q)
  /\ \A r \in Runs : /\ Cardinality(Places(r)) <= Quantity
                     /\ run[r].status # "none" => run[r].pin \in 1..Latest

\* The product.
ProductInv == ProductTypeOK /\ ProductMatchesGrant /\ ListingHolds

\* A snapshot belongs to one operation, and one that succeeded is in force or was.
DeviceInv ==
  /\ DeviceTypeOK
  /\ operation["provision"] # "absent" => baseline \in 1..Latest
  /\ \A m, n \in 1..Len(snapshots) : snapshots[m].op = snapshots[n].op => m = n
  /\ \A o \in Jobs \cup Updates : operation[o] # "absent" =>
       \E n \in 1..Len(snapshots) : snapshots[n].op = o
  /\ \A n \in 1..Len(snapshots) : operation[snapshots[n].op] = "succeeded" => n <= inForce

\* The jobs.  That two active jobs are the same is what their number comes from.
JobInv ==
  /\ JobTypeOK /\ CompletedIsApplied
  /\ \A j, k \in Jobs : job[j].status = "active" /\ job[k].status = "active" => j = k

\* The invariant: each part is inductive together with those before it.
ServicesInv == CatalogInv /\ ProductInv /\ FactoryInv /\ DeviceInv /\ JobInv

-----------------------------------------------------------------------------
(* The catalogue.                                                          *)

\* A manifest offers codes, none of which requires itself.
LEMMA ManifestShape ==
  ASSUME NEW m \in Manifests
  PROVE  /\ m.service \in Services /\ m.version \in Versions /\ m.version # 0
         /\ m.options \in Contents[m.service] /\ DOMAIN m.options \subseteq Codes
         /\ \A c \in DOMAIN m.options : m.options[c] \in SUBSET Codes
         /\ m = [service |-> m.service, version |-> m.version, options |-> m.options]
<1>1. PICK s \in Services : m \in [service : {s}, version : Versions, options : Contents[s]]
  BY DEF Manifests
<1>2. m.service = s /\ m.version \in Versions /\ m.options \in Contents[s]
  BY <1>1
<1>3. ValidatePlatformServiceRegistration(s, m.options) /\ m.version # 0
  BY <1>2, CatalogAssumption
<1> QED BY <1>1, <1>2, <1>3 DEF ValidatePlatformServiceRegistration

\* What is published is well formed.
LEMMA OffersBound ==
  ASSUME CatalogTypeOK
  PROVE  Offers \subseteq Bound
<1> SUFFICES ASSUME NEW m \in Published PROVE Options(m) \subseteq Bound
  BY DEF Offers
<1>1. m \in Manifests
  BY DEF Published, CatalogTypeOK
<1> QED BY <1>1, ManifestShape DEF Options, Bound

\* The same requirements have the same closure.
LEMMA ClosureOfRequirements ==
  ASSUME NEW A, NEW B, Requirements(A) = Requirements(B)
  PROVE  Closure(A) = Closure(B)
BY DEF Closure

\* Options of two versions of a manifest with the same contents differ in the
\* version only.
LEMMA SameRequirements ==
  ASSUME NEW others, NEW m, NEW n, m.options = n.options
  PROVE  Requirements(others \cup Options(m)) = Requirements(others \cup Options(n))
<1> DEFINE Of1(X, c) == UNION {o.requires : o \in {p \in X : p.code = c}}
<1>1. ASSUME NEW c, NEW a, NEW b, a.options = b.options
      PROVE  Of1(others \cup Options(a), c) \subseteq Of1(others \cup Options(b), c)
  <2> SUFFICES ASSUME NEW o \in others \cup Options(a), o.code = c
               PROVE  o.requires \subseteq Of1(others \cup Options(b), c)
    OBVIOUS
  <2>1. CASE o \in others
    BY <2>1
  <2>2. CASE o \in Options(a)
    <3>1. PICK d \in DOMAIN a.options : o = [code |-> d, requires |-> a.options[d], service |-> a.service, version |-> a.version]
      BY <2>2 DEF Options
    <3> DEFINE x == [code |-> d, requires |-> b.options[d], service |-> b.service, version |-> b.version]
    <3>2. x \in Options(b) /\ x.code = c /\ x.requires = o.requires
      BY <3>1, <1>1 DEF Options
    <3> QED BY <3>2
  <2> QED BY <2>1, <2>2
<1>2. \A c : Of1(others \cup Options(m), c) = Of1(others \cup Options(n), c)
  BY <1>1
<1> QED BY <1>2 DEF Requirements

\* The codes of a manifest's options are the codes of the manifest.
LEMMA CodesOfOptions ==
  ASSUME NEW m
  PROVE  CodesOf(Options(m)) = DOMAIN m.options
<1>1. ASSUME NEW x \in Options(m) PROVE x.code \in DOMAIN m.options
  BY DEF Options
<1>2. ASSUME NEW c \in DOMAIN m.options PROVE c \in CodesOf(Options(m))
  <2> DEFINE x == [code |-> c, requires |-> m.options[c], service |-> m.service, version |-> m.version]
  <2>1. x \in Options(m) /\ x.code = c
    BY DEF Options
  <2> QED BY <2>1 DEF CodesOf
<1> QED BY <1>1, <1>2 DEF CodesOf

\* validateManifestDependencies is enough: what was valid next to the other
\* services leaves a sound catalogue.
LEMMA NewOffers ==
  ASSUME CatalogIsSound, NEW s, NEW m, m.service = s,
         ValidateManifestDependencies(s, m.options),
         Offers' = {o \in Offers : o.service # s} \cup Options(m)
  PROVE  CatalogIsSound'
<1> DEFINE others == {o \in Offers : o.service # s}
           zero == [service |-> s, version |-> 0, options |-> m.options]
           all == others \cup Options(zero)
<1>1. /\ DOMAIN m.options \cap CodesOf(others) = {}
      /\ \A o \in all : o.requires \subseteq CodesOf(all)
      /\ Acyclic(all)
  BY DEF ValidateManifestDependencies
<1>2. Requirements(Offers') = Requirements(all)
  BY SameRequirements
<1>3. Acyclic(Offers')
  BY <1>1, <1>2, ClosureOfRequirements DEF Acyclic
<1>4. CodesOf(Options(m)) = DOMAIN m.options /\ CodesOf(Options(zero)) = DOMAIN m.options
  <2>1. zero.options = m.options
    OBVIOUS
  <2> QED BY <2>1, CodesOfOptions
<1>5. CodesOf(Offers') = CodesOf(all)
  <2>1. CodesOf(Offers') = CodesOf(others) \cup CodesOf(Options(m))
    BY DEF CodesOf
  <2>2. CodesOf(all) = CodesOf(others) \cup CodesOf(Options(zero))
    BY DEF CodesOf
  <2> QED BY <2>1, <2>2, <1>4
<1>6. ASSUME NEW o \in Offers' PROVE o.requires \subseteq CodesOf(Offers')
  <2>1. CASE o \in others
    BY <2>1, <1>1, <1>5
  <2>2. CASE o \in Options(m)
    <3>1. PICK d \in DOMAIN m.options : o = [code |-> d, requires |-> m.options[d], service |-> m.service, version |-> m.version]
      BY <2>2 DEF Options
    <3> DEFINE x == [code |-> d, requires |-> zero.options[d], service |-> zero.service, version |-> zero.version]
    <3>2. x \in Options(zero) /\ x.requires = o.requires
      BY <3>1 DEF Options
    <3> QED BY <3>2, <1>1, <1>5
  <2> QED BY <2>1, <2>2
<1>7. ASSUME NEW o \in Offers', NEW p \in Offers', o.code = p.code PROVE o = p
  <2>1. CASE o \in others /\ p \in others
    BY <2>1, <1>7 DEF CatalogIsSound
  <2>2. CASE o \in Options(m) /\ p \in Options(m)
    BY <2>2, <1>7 DEF Options
  <2>3. \A x \in others : x.code \in CodesOf(others)
    BY DEF CodesOf
  <2>4. \A x \in Options(m) : x.code \in DOMAIN m.options
    BY DEF Options
  <2> QED BY <2>1, <2>2, <2>3, <2>4, <1>1, <1>7
<1> QED BY <1>3, <1>6, <1>7 DEF CatalogIsSound, Acyclic

\* The known services start with one option each, which requires "mqtt" at most.
LEMMA CatalogInitially ==
  ASSUME NEW start \in Starts, CatalogInit(start.known)
  PROVE  CatalogInv
<1> DEFINE known == start.known
<1>1. "mqtt" \in known /\ known \subseteq Services /\ First \in Versions /\ First # 0 /\ First \in Nat
  BY CatalogAssumption DEF First
<1>2. PICK small :
        /\ manifest = {[service |-> s, version |-> First, options |-> small[s]] : s \in known}
        /\ \A s \in known : small[s] \in Contents[s] /\ DOMAIN small[s] = {s} /\ small[s][s] \subseteq {"mqtt"}
  <2> DEFINE Small(s) == CHOOSE m \in Contents[s] : DOMAIN m = {s} /\ m[s] \subseteq {"mqtt"}
             f == [s \in known |-> Small(s)]
  <2>1. ASSUME NEW s \in known
        PROVE  Small(s) \in Contents[s] /\ DOMAIN Small(s) = {s} /\ Small(s)[s] \subseteq {"mqtt"}
    <3>1. \E m \in Contents[s] : DOMAIN m = {s} /\ m[s] \subseteq {"mqtt"}
      BY CatalogAssumption
    <3> QED BY <3>1
  <2>2. manifest = {[service |-> s, version |-> First, options |-> Small(s)] : s \in known}
    BY DEF CatalogInit
  <2> HIDE DEF Small
  <2>3. \A s \in known : f[s] = Small(s)
    OBVIOUS
  <2> HIDE DEF f
  <2> WITNESS f
  <2>4. manifest = {[service |-> s, version |-> First, options |-> f[s]] : s \in known}
    BY <2>2, <2>3
  <2> QED BY <2>1, <2>3, <2>4
<1> DEFINE Row(s) == [service |-> s, version |-> First, options |-> small[s]]
<1>3. manifest = {Row(s) : s \in known}
  BY <1>2
<1>4. ASSUME NEW s \in known
      PROVE  /\ Row(s) \in Manifests /\ Row(s).service = s /\ Row(s).version = First
             /\ Row(s).options = small[s] /\ s \in Codes
  <2>1. Row(s) \in [service : {s}, version : Versions, options : Contents[s]]
    BY <1>1, <1>2
  <2>2. s \in Services
    BY <1>1
  <2>3. Row(s) \in Manifests
    BY <2>1, <2>2 DEF Manifests
  <2> QED BY <2>3, <1>2, ManifestShape
<1> HIDE DEF Row
<1>5. CatalogTypeOK
  <2>1. revision \in Nat /\ workload \in [Services -> SUBSET Codes]
    <3>1. ASSUME NEW s \in Services PROVE AllCodes(s) \subseteq Codes
      BY CatalogAssumption DEF AllCodes, ValidatePlatformServiceRegistration
    <3> QED BY <3>1 DEF CatalogInit
  <2>2. /\ service \in [Services -> [published : Versions \cup {0}, status : Statuses]]
        /\ instance \in InstanceRows
    BY <1>1 DEF CatalogInit, Statuses, InstanceRows
  <2>3. ASSUME NEW s \in Services
        PROVE  /\ service[s].published # 0 => s \in known /\ service[s].published = First
               /\ instance[s].version # 0 => s \in known /\ instance[s].version = First
    BY <1>1 DEF CatalogInit
  <2>4. /\ manifest \subseteq Manifests
        /\ \A m, n \in manifest : m.service = n.service /\ m.version = n.version => m = n
    BY <1>3, <1>4
  <2>5. ASSUME NEW s \in known PROVE \E m \in manifest : m.service = s /\ m.version = First
    BY <1>3, <1>4
  <2> QED BY <2>1, <2>2, <2>3, <2>4, <2>5 DEF CatalogTypeOK
<1>6. Registered
  <2>1. ASSUME NEW s \in known PROVE service[s].published # 0
    BY <1>1 DEF CatalogInit
  <2> QED BY <2>1, <1>3, <1>4 DEF Registered
<1>7. Published = manifest
  <2>1. ASSUME NEW s \in known PROVE service[s].published = First
    BY <1>1 DEF CatalogInit
  <2> QED BY <2>1, <1>3, <1>4 DEF Published
<1> DEFINE Opt(s) == [code |-> s, requires |-> small[s][s], service |-> s, version |-> First]
<1>8. Offers = {Opt(s) : s \in known}
  <2>1. ASSUME NEW s \in known PROVE Options(Row(s)) = {Opt(s)}
    BY <1>2, <1>4 DEF Options
  <2> QED BY <2>1, <1>3, <1>7 DEF Offers
<1>9. ASSUME NEW s \in known
      PROVE  Opt(s) \in Offers /\ Opt(s).code = s /\ Opt(s).requires \subseteq {"mqtt"}
             /\ Opt("mqtt").requires = {}
  <2>1. small["mqtt"]["mqtt"] = {}
    <3>1. small["mqtt"] \in Contents["mqtt"] /\ "mqtt" \in DOMAIN small["mqtt"] /\ "mqtt" \in Services
      BY <1>1, <1>2
    <3> QED BY <3>1, CatalogAssumption DEF ValidatePlatformServiceRegistration
  <2> QED BY <2>1, <1>2, <1>8
<1> HIDE DEF Opt
<1>10. CodesOf(Offers) = known
  <2>1. ASSUME NEW o \in Offers PROVE o.code \in known
    BY <1>8, <1>9
  <2>2. ASSUME NEW s \in known PROVE \E o \in Offers : o.code = s
    BY <1>9
  <2> QED BY <2>1, <2>2 DEF CodesOf
<1>11. Acyclic(Offers)
  <2> DEFINE direct == Requirements(Offers)
  <2>1. ASSUME NEW c \in Codes PROVE direct[c] \subseteq {"mqtt"}
    BY <1>8, <1>9 DEF Requirements
  <2>2. "mqtt" \in Codes /\ direct["mqtt"] = {}
    <3>1. "mqtt" \in Codes
      BY <1>1, <1>4
    <3>2. ASSUME NEW o \in Offers, o.code = "mqtt" PROVE o.requires = {}
      BY <3>2, <1>8, <1>9
    <3> QED BY <3>1, <3>2 DEF Requirements
  <2> SUFFICES ASSUME NEW c \in Codes PROVE c \notin Closure(Offers)[c]
    BY DEF Acyclic
  <2>3. Closure(Offers)[c] = {d \in Codes : \A S \in {T \in SUBSET Codes : \A e \in T : direct[e] \subseteq T} :
                                 direct[c] \subseteq S => d \in S}
    BY DEF Closure
  <2>4. CASE c = "mqtt"
    <3>1. {} \in {T \in SUBSET Codes : \A e \in T : direct[e] \subseteq T}
      OBVIOUS
    <3> QED BY <3>1, <2>2, <2>3, <2>4
  <2>5. CASE c # "mqtt"
    <3>1. {"mqtt"} \in {T \in SUBSET Codes : \A e \in T : direct[e] \subseteq T}
      BY <2>2
    <3> QED BY <3>1, <2>1, <2>3, <2>5
  <2> QED BY <2>4, <2>5
<1>12. CatalogIsSound
  <2>1. \A o, p \in Offers : o.code = p.code => o = p
    BY <1>8, <1>9
  <2>2. \A o \in Offers : o.requires \subseteq CodesOf(Offers)
    BY <1>1, <1>8, <1>9, <1>10
  <2> QED BY <2>1, <2>2, <1>11 DEF CatalogIsSound
<1> QED BY <1>5, <1>6, <1>12 DEF CatalogInv

\* The published version of a service is registered once.
LEMMA PublishedManifest ==
  ASSUME CatalogTypeOK, NEW s \in Services, service[s].published # 0
  PROVE  \E m \in manifest : /\ m.service = s /\ m.version = service[s].published
                             /\ \A n \in Published : n.service = s => n = m
BY DEF CatalogTypeOK, Published

\* Steps that publish nothing leave the offers alone.
LEMMA OffersStay ==
  ASSUME CatalogTypeOK, Published' = Published
  PROVE  Offers' = Offers
BY DEF Offers, Options

\* The same published options are as sound as before.
LEMMA SoundnessStays ==
  ASSUME CatalogIsSound, Offers' = Offers
  PROVE  CatalogIsSound'
BY DEF CatalogIsSound, CodesOf, Acyclic, Closure, Requirements

\* Two flags of a row change and its version stays.
LEMMA InstanceType ==
  ASSUME instance \in InstanceRows, NEW s \in Services, NEW rdy \in BOOLEAN, NEW liv \in BOOLEAN,
         instance' = [instance EXCEPT ![s].ready = rdy, ![s].live = liv]
  PROVE  instance' \in InstanceRows /\ \A t \in Services : instance'[t].version = instance[t].version
BY DEF InstanceRows

\* An instance that changes keeps the version of a manifest.
LEMMA InstanceSteps ==
  ASSUME CatalogInv, UNCHANGED <<manifest, service>>, revision' \in Nat,
         workload' \in [Services -> SUBSET Codes], instance' \in InstanceRows,
         \A t \in Services : instance'[t].version = instance[t].version
  PROVE  CatalogInv' /\ Offers' = Offers
<1> USE DEF CatalogInv
<1>2. CatalogTypeOK'
  BY DEF CatalogTypeOK
<1>3. Published' = Published
  BY DEF Published
<1> QED BY <1>2, <1>3, OffersStay, SoundnessStays DEF Registered

\* An approval changes nothing in the catalogue.
LEMMA ApproveStep ==
  ASSUME CatalogInv, NEW s \in Services, approvePlatformServiceWorkload(s)
  PROVE  CatalogInv' /\ Offers' = Offers
<1> USE DEF CatalogInv
<1>1. PICK m \in Contents[s] : ApprovePlatformServiceWorkload(s, DOMAIN m)
  BY DEF approvePlatformServiceWorkload
<1>2. DOMAIN m \subseteq Codes
  BY CatalogAssumption DEF ValidatePlatformServiceRegistration
<1>3. CatalogTypeOK'
  BY <1>1, <1>2 DEF ApprovePlatformServiceWorkload, CatalogTypeOK
<1>4. Published' = Published
  BY <1>1 DEF ApprovePlatformServiceWorkload, Published
<1> QED BY <1>1, <1>3, <1>4, OffersStay, SoundnessStays DEF ApprovePlatformServiceWorkload, Registered

\* The status of a service decides what can be selected, never what is published.
LEMMA StatusStep ==
  ASSUME CatalogInv, NEW s \in Services, setPlatformServiceStatus(s)
  PROVE  CatalogInv' /\ Offers' = Offers
<1> USE DEF CatalogInv
<1>1. PICK status \in Statuses : SetPlatformServiceStatus(s, status)
  BY DEF setPlatformServiceStatus
<1>2. /\ service' \in [Services -> [published : Versions \cup {0}, status : Statuses]]
      /\ \A t \in Services : service'[t].published = service[t].published
  BY <1>1 DEF SetPlatformServiceStatus, CatalogTypeOK
<1>3. CatalogTypeOK' /\ manifest' = manifest
  BY <1>1, <1>2 DEF SetPlatformServiceStatus, BumpCatalogRevision, CatalogTypeOK
<1>4. \A m \in manifest : m.service \in Services
  BY ManifestShape DEF CatalogTypeOK
<1>5. Published' = Published
  BY <1>2, <1>3, <1>4 DEF Published
<1> QED BY <1>2, <1>3, <1>4, <1>5, OffersStay, SoundnessStays DEF Registered

\* Instances come and go without a change of what is published.
LEMMA PlainInstanceSteps ==
  ASSUME CatalogInv, NEW s \in Services,
         \/ revokePlatformServiceWorkload(s) \/ heartbeatPlatformService(s)
         \/ deregisterPlatformService(s) \/ LeaseExpires(s)
  PROVE  CatalogInv' /\ Offers' = Offers
<1>0. revision \in Nat /\ workload \in [Services -> SUBSET Codes] /\ instance[s].ready \in BOOLEAN
      /\ instance \in InstanceRows
  BY DEF CatalogInv, CatalogTypeOK, InstanceRows
<1>1. CASE revokePlatformServiceWorkload(s)
  <2>1. /\ UNCHANGED <<manifest, service>> /\ revision' \in Nat /\ workload' \in [Services -> SUBSET Codes]
        /\ instance' = [instance EXCEPT ![s].ready = FALSE, ![s].live = FALSE]
    BY <1>0, <1>1 DEF revokePlatformServiceWorkload, RevokePlatformServiceWorkload, Down, BumpCatalogRevision
  <2> QED BY <1>0, <2>1, InstanceType, InstanceSteps
<1>2. CASE heartbeatPlatformService(s)
  <2>1. PICK ready \in BOOLEAN : HeartbeatPlatformServiceInstance(s, ready)
    BY <1>2 DEF heartbeatPlatformService
  <2>2. /\ UNCHANGED <<manifest, service>> /\ revision' \in Nat /\ workload' \in [Services -> SUBSET Codes]
        /\ instance' = [instance EXCEPT ![s].ready = ready, ![s].live = TRUE]
    BY <1>0, <2>1 DEF HeartbeatPlatformServiceInstance, BumpIf
  <2> QED BY <1>0, <2>2, InstanceType, InstanceSteps
<1>3. CASE deregisterPlatformService(s)
  <2>1. /\ UNCHANGED <<manifest, service>> /\ revision' \in Nat /\ workload' \in [Services -> SUBSET Codes]
        /\ instance' = [instance EXCEPT ![s].ready = FALSE, ![s].live = FALSE]
    BY <1>0, <1>3 DEF deregisterPlatformService, DeregisterPlatformServiceInstance, Down, BumpCatalogRevision
  <2> QED BY <1>0, <2>1, InstanceType, InstanceSteps
<1>4. CASE LeaseExpires(s)
  <2>1. /\ UNCHANGED <<manifest, service>> /\ revision' \in Nat /\ workload' \in [Services -> SUBSET Codes]
        /\ instance' = [instance EXCEPT ![s].live = FALSE]
    BY <1>0, <1>4 DEF LeaseExpires
  <2>2. instance' = [instance EXCEPT ![s].ready = instance[s].ready, ![s].live = FALSE]
    BY <1>0, <2>1 DEF InstanceRows
  <2> QED BY <1>0, <2>1, <2>2, InstanceType, InstanceSteps
<1> QED BY <1>1, <1>2, <1>3, <1>4

\* When one manifest of a service becomes the published one, its options take the
\* place of the service's former ones.
LEMMA PublishedChanges ==
  ASSUME CatalogTypeOK, NEW s \in Services, NEW m \in manifest', manifest' \subseteq Manifests,
         m.service = s, service'[s].published = m.version,
         \A a, b \in manifest' : a.service = b.service /\ a.version = b.version => a = b,
         \A t \in Services \ {s} : service'[t].published = service[t].published,
         manifest \subseteq manifest', \A n \in manifest' \ manifest : n.service = s
  PROVE  Offers' = {o \in Offers : o.service # s} \cup Options(m)
<1>1. \A n \in manifest' : n.service \in Services
  BY ManifestShape
<1>2. Published' = {n \in Published : n.service # s} \cup {m}
  BY <1>1 DEF Published
<1>3. \A n : \A o \in Options(n) : o.service = n.service
  BY DEF Options
<1>4. Offers' = UNION {Options(n) : n \in Published'}
  BY DEF Offers, Options
<1>5. {o \in Offers : o.service # s} = UNION {Options(n) : n \in {k \in Published : k.service # s}}
  BY <1>3 DEF Offers
<1> QED BY <1>2, <1>4, <1>5

\* A registration adds a manifest, or finds it.  The first one of a service is
\* published; a later one is another version than the published one.
LEMMA RegisterStep ==
  ASSUME CatalogInv, NEW s \in Services, NEW v \in Versions, NEW m \in Contents[s],
         NEW ready \in BOOLEAN, RegisterPlatformServiceInstance(s, v, m, ready)
  PROVE  /\ CatalogInv'
         /\ service[s].published # 0 => Offers' = Offers /\ service' = service
<1> DEFINE new == [service |-> s, version |-> v, options |-> m]
           created == service[s].published = 0
<1> USE DEF CatalogInv
<1>1. /\ new \in Manifests /\ new.service = s /\ new.version = v /\ new.options = m /\ v # 0
  <2>1. new \in [service : {s}, version : Versions, options : Contents[s]]
    OBVIOUS
  <2>2. new \in Manifests
    BY <2>1 DEF Manifests
  <2> QED BY <2>2, CatalogAssumption
<1>2. /\ \/ new \in manifest /\ manifest' = manifest
         \/ /\ \A n \in manifest : <<n.service, n.version>> # <<s, v>>
            /\ ValidateManifestDependencies(s, m)
            /\ manifest' = manifest \cup {new}
      /\ revision' \in Nat /\ workload' = workload
      /\ created => service' = [service EXCEPT ![s] =
           [published |-> v, status |-> IF s = "mqtt" THEN "active" ELSE "suspended"]]
      /\ ~created => service' = service
      /\ instance' = [instance EXCEPT ![s] = [version |-> v, ready |-> ready, live |-> TRUE]]
  <2>1. revision \in Nat
    BY DEF CatalogTypeOK
  <2> QED BY <2>1 DEF RegisterPlatformServiceInstance, BumpIf
<1> HIDE DEF new
<1>3. /\ manifest' \subseteq Manifests /\ manifest \subseteq manifest' /\ new \in manifest'
      /\ \A n \in manifest' \ manifest : n = new
      /\ \A a, b \in manifest' : a.service = b.service /\ a.version = b.version => a = b
  BY <1>1, <1>2 DEF CatalogTypeOK
<1>4. /\ instance' \in InstanceRows /\ instance'[s].version = v
      /\ \A t \in Services \ {s} : instance'[t].version = instance[t].version
  <2>1. instance \in InstanceRows
    BY DEF CatalogTypeOK
  <2>2. instance' = [instance EXCEPT ![s] = [version |-> v, ready |-> ready, live |-> TRUE]]
    BY <1>2
  <2> HIDE DEF CatalogInv
  <2> QED BY <2>1, <2>2 DEF InstanceRows
<1>5. /\ service' \in [Services -> [published : Versions \cup {0}, status : Statuses]]
      /\ service'[s].published = IF created THEN v ELSE service[s].published
      /\ \A t \in Services \ {s} : service'[t].published = service[t].published
  <2>1. service \in [Services -> [published : Versions \cup {0}, status : Statuses]]
    BY DEF CatalogTypeOK
  <2> HIDE DEF CatalogInv
  <2> QED BY <1>2, <2>1 DEF Statuses
<1>6. CatalogTypeOK'
  <2>1. /\ revision' \in Nat /\ workload' \in [Services -> SUBSET Codes]
    BY <1>2 DEF CatalogTypeOK
  <2>2. ASSUME NEW t \in Services
        PROVE  /\ service'[t].published # 0 =>
                    \E n \in manifest' : n.service = t /\ n.version = service'[t].published
               /\ instance'[t].version # 0 =>
                    \E n \in manifest' : n.service = t /\ n.version = instance'[t].version
    <3>1. /\ service[t].published # 0 =>
                    \E n \in manifest : n.service = t /\ n.version = service[t].published
          /\ instance[t].version # 0 =>
                    \E n \in manifest : n.service = t /\ n.version = instance[t].version
      BY DEF CatalogTypeOK
    <3> HIDE DEF CatalogInv
    <3>2. CASE t = s
      BY <3>1, <3>2, <1>1, <1>3, <1>4, <1>5
    <3>3. CASE t # s
      BY <3>1, <3>3, <1>3, <1>4, <1>5
    <3> QED BY <3>2, <3>3
  <2> HIDE DEF CatalogInv
  <2> QED BY <2>1, <2>2, <1>3, <1>4, <1>5 DEF CatalogTypeOK
<1>7. \A n \in manifest' : n.service \in Services
  BY <1>3, ManifestShape
<1>8. Registered'
  BY <1>1, <1>3, <1>5, <1>7 DEF Registered
<1>9. CASE ~created
  <2>1. PICK p \in manifest : p.service = s /\ p.version = service[s].published
    BY <1>9 DEF CatalogTypeOK
  <2>2. \A n \in manifest' \ manifest : n.service = s /\ n.version # service[s].published
    BY <1>1, <1>2, <2>1
  <2>3. Published' = Published
    BY <1>2, <1>3, <1>9, <2>2 DEF Published
  <2> QED BY <1>2, <1>6, <1>8, <1>9, <2>3, OffersStay, SoundnessStays
<1>10. CASE created
  <2>1. \A n \in manifest : n.service # s
    BY <1>10 DEF Registered
  <2>2. ValidateManifestDependencies(s, new.options)
    BY <1>1, <1>2, <2>1
  <2>3. Offers' = {o \in Offers : o.service # s} \cup Options(new)
    BY <1>1, <1>3, <1>5, <1>10, PublishedChanges
  <2>4. CatalogIsSound'
    BY <1>1, <2>2, <2>3, NewOffers
  <2> QED BY <1>6, <1>8, <1>10, <2>4
<1> QED BY <1>9, <1>10

\* Publishing a version checks it again next to what the others publish now.
LEMMA PublishStep ==
  ASSUME CatalogInv, NEW s \in Services, NEW v \in Versions, PublishPlatformServiceManifest(s, v)
  PROVE  CatalogInv'
<1> USE DEF CatalogInv
<1>1. PICK m \in manifest : m.service = s /\ m.version = v /\ ValidateManifestDependencies(s, m.options)
  BY DEF PublishPlatformServiceManifest
<1>2. /\ service' = [service EXCEPT ![s].published = v] /\ revision' \in Nat
      /\ UNCHANGED <<workload, manifest, instance>> /\ v # 0
  <2>1. revision \in Nat
    BY DEF CatalogTypeOK
  <2> QED BY <2>1, CatalogAssumption DEF PublishPlatformServiceManifest, BumpCatalogRevision
<1>3. /\ service' \in [Services -> [published : Versions \cup {0}, status : Statuses]]
      /\ service'[s].published = v
      /\ \A t \in Services \ {s} : service'[t].published = service[t].published
  <2>1. service \in [Services -> [published : Versions \cup {0}, status : Statuses]]
    BY DEF CatalogTypeOK
  <2> HIDE DEF CatalogInv
  <2> QED BY <1>2, <2>1
<1>4. CatalogTypeOK'
  <2>1. ASSUME NEW t \in Services, service'[t].published # 0
        PROVE  \E n \in manifest : n.service = t /\ n.version = service'[t].published
    BY <2>1, <1>1, <1>3 DEF CatalogTypeOK
  <2> QED BY <2>1, <1>2, <1>3 DEF CatalogTypeOK
<1>5. manifest \subseteq Manifests /\ \A n \in manifest : n.service \in Services
  BY ManifestShape DEF CatalogTypeOK
<1>6. Registered'
  BY <1>2, <1>3, <1>5 DEF Registered
<1>7. \A a, b \in manifest : a.service = b.service /\ a.version = b.version => a = b
  BY DEF CatalogTypeOK
<1>8. Offers' = {o \in Offers : o.service # s} \cup Options(m)
  BY <1>1, <1>2, <1>3, <1>5, <1>7, PublishedChanges
<1>9. CatalogIsSound'
  BY <1>1, <1>8, NewOffers
<1> QED BY <1>4, <1>6, <1>9

\* Every operation of the registry keeps the catalogue sound.
LEMMA CatalogStep ==
  ASSUME CatalogInv, CatalogNext
  PROVE  CatalogInv'
<1>1. PICK s \in Services :
        \/ approvePlatformServiceWorkload(s) \/ revokePlatformServiceWorkload(s)
        \/ setPlatformServiceStatus(s)
        \/ registerPlatformService(s) \/ heartbeatPlatformService(s)
        \/ deregisterPlatformService(s) \/ publishPlatformService(s)
        \/ LeaseExpires(s)
  BY DEF CatalogNext
<1>2. CASE registerPlatformService(s)
  BY <1>2, RegisterStep DEF registerPlatformService
<1>3. CASE publishPlatformService(s)
  BY <1>3, PublishStep DEF publishPlatformService
<1> QED BY <1>1, <1>2, <1>3, ApproveStep, StatusStep, PlainInstanceSteps

-----------------------------------------------------------------------------
(* The listing.                                                            *)

\* With the same offers, fewer services that serve make fewer options selectable.
LEMMA SelectableShrinks ==
  ASSUME CatalogTypeOK, Offers' = Offers, \A s \in Services : Serving(s)' => Serving(s)
  PROVE  Selectable' \subseteq Selectable
<1>1. \A o \in Offers : o.service \in Services
  BY OffersBound DEF Bound
<1> DEFINE Works(c) == /\ \E p \in Offers : p.code = c
                       /\ \A p \in Offers : p.code = c => Serving(p.service)
                       /\ c \notin Closure(Offers)[c]
<1>2. Selectable = {o \in Offers : \A c \in {o.code} \cup Closure(Offers)[o.code] : Works(c)}
  BY DEF Selectable
<1>3. Selectable' = {o \in Offers : \A c \in {o.code} \cup Closure(Offers)[o.code] : Works(c)'}
  <2>1. Closure(Offers)' = Closure(Offers)
    BY DEF Closure, Requirements
  <2> QED BY <2>1 DEF Selectable
<1>4. ASSUME NEW c, Works(c)' PROVE Works(c)
  <2>1. Closure(Offers)' = Closure(Offers)
    BY DEF Closure, Requirements
  <2>2. ASSUME NEW p \in Offers, p.code = c PROVE Serving(p.service)
    <3>1. Serving(p.service)'
      BY <1>4, <2>2
    <3> QED BY <3>1, <1>1
  <2> QED BY <1>4, <2>1, <2>2
<1> HIDE DEF Works
<1> QED BY <1>2, <1>3, <1>4

\* What a lapse or a narrower certificate changes moves no revision, and nothing
\* becomes selectable by it.
Shrinks == revision' = revision /\ Offers' = Offers /\ \A s \in Services : Serving(s)' => Serving(s)

\* A registration or heartbeat that moves no revision makes no service serve that
\* did not.
LEMMA UnnoticedInstance ==
  ASSUME NEW s \in Services, NEW v, NEW ready \in BOOLEAN, instance \in InstanceRows,
         ~Noticed(s, v, ready), service' = service,
         instance'[s].version = v, instance'[s].ready = ready,
         \A t \in Services \ {s} : instance'[t] = instance[t]
  PROVE  \A t \in Services : Serving(t)' => Serving(t)
<1> SUFFICES ASSUME NEW t \in Services, Serving(t)' PROVE Serving(t)
  OBVIOUS
<1>1. CASE t # s
  BY <1>1 DEF Serving, InstanceRows
<1>2. CASE t = s
  <2>2. v = instance[s].version /\ (ready <=> instance[s].ready) /\ (instance[s].ready => instance[s].live)
    <3>1. instance[s].ready \in BOOLEAN /\ instance[s].live \in BOOLEAN
      BY DEF InstanceRows
    <3> QED BY <3>1 DEF Noticed
  <2> QED BY <1>2, <2>2 DEF Serving
<1> QED BY <1>1, <1>2

\* Every step of the catalogue moves its revision or makes nothing selectable.
LEMMA CatalogMoves ==
  ASSUME CatalogInv, CatalogNext
  PROVE  revision' = revision + 1 \/ Shrinks
<1>0. CatalogTypeOK /\ instance \in InstanceRows
  BY DEF CatalogInv, CatalogTypeOK
<1>1. PICK s \in Services :
        \/ approvePlatformServiceWorkload(s) \/ revokePlatformServiceWorkload(s)
        \/ setPlatformServiceStatus(s)
        \/ registerPlatformService(s) \/ heartbeatPlatformService(s)
        \/ deregisterPlatformService(s) \/ publishPlatformService(s)
        \/ LeaseExpires(s)
  BY DEF CatalogNext
<1>2. CASE approvePlatformServiceWorkload(s)
  <2>1. UNCHANGED <<revision, manifest, service, instance>>
    BY <1>2 DEF approvePlatformServiceWorkload, ApprovePlatformServiceWorkload
  <2> QED BY <1>2, <2>1, ApproveStep DEF Shrinks, Serving
<1>3. CASE revokePlatformServiceWorkload(s) \/ setPlatformServiceStatus(s)
           \/ deregisterPlatformService(s) \/ publishPlatformService(s)
  BY <1>3 DEF revokePlatformServiceWorkload, RevokePlatformServiceWorkload,
     setPlatformServiceStatus, SetPlatformServiceStatus, deregisterPlatformService,
     DeregisterPlatformServiceInstance, publishPlatformService, PublishPlatformServiceManifest,
     BumpCatalogRevision
<1>4. CASE registerPlatformService(s)
  <2>1. PICK v \in Versions, m \in Contents[s], ready \in BOOLEAN :
          RegisterPlatformServiceInstance(s, v, m, ready)
    BY <1>4 DEF registerPlatformService
  <2>2. CASE service[s].published = 0 \/ Noticed(s, v, ready)
    BY <2>1, <2>2 DEF RegisterPlatformServiceInstance, BumpIf
  <2>3. CASE service[s].published # 0 /\ ~Noticed(s, v, ready)
    <3>1. Offers' = Offers /\ service' = service
      BY <2>1, <2>3, RegisterStep
    <3>2. revision' = revision
      BY <2>1, <2>3 DEF RegisterPlatformServiceInstance, BumpIf
    <3>3. /\ instance'[s].version = v /\ instance'[s].ready = ready
          /\ \A t \in Services \ {s} : instance'[t] = instance[t]
      BY <1>0, <2>1 DEF RegisterPlatformServiceInstance, InstanceRows
    <3> QED BY <1>0, <2>3, <3>1, <3>2, <3>3, UnnoticedInstance DEF Shrinks
  <2> QED BY <2>2, <2>3
<1>5. CASE heartbeatPlatformService(s)
  <2>1. PICK ready \in BOOLEAN : HeartbeatPlatformServiceInstance(s, ready)
    BY <1>5 DEF heartbeatPlatformService
  <2> DEFINE v == instance[s].version
  <2>2. CASE Noticed(s, v, ready)
    BY <2>1, <2>2 DEF HeartbeatPlatformServiceInstance, BumpIf
  <2>3. CASE ~Noticed(s, v, ready)
    <3>1. Offers' = Offers
      BY <1>5, PlainInstanceSteps
    <3>2. revision' = revision /\ service' = service
      BY <2>1, <2>3 DEF HeartbeatPlatformServiceInstance, BumpIf
    <3>3. /\ instance'[s].version = v /\ instance'[s].ready = ready
          /\ \A t \in Services \ {s} : instance'[t] = instance[t]
      BY <1>0, <2>1 DEF HeartbeatPlatformServiceInstance, InstanceRows
    <3> QED BY <1>0, <2>3, <3>1, <3>2, <3>3, UnnoticedInstance DEF Shrinks
  <2> QED BY <2>2, <2>3
<1>6. CASE LeaseExpires(s)
  <2>1. Offers' = Offers
    BY <1>6, PlainInstanceSteps
  <2>2. revision' = revision /\ service' = service /\ instance' = [instance EXCEPT ![s].live = FALSE]
    BY <1>6 DEF LeaseExpires
  <2>3. ASSUME NEW t \in Services, Serving(t)' PROVE Serving(t)
    BY <1>0, <2>2, <2>3 DEF Serving, InstanceRows
  <2> QED BY <2>1, <2>2, <2>3 DEF Shrinks
<1> QED BY <1>1, <1>2, <1>3, <1>4, <1>5, <1>6

\* No step of the registry makes an old listing look current and incomplete.
LEMMA ListingStep ==
  ASSUME CatalogInv, ListingHolds, listed.revision \in Nat, CatalogNext, listed' = listed
  PROVE  ListingHolds'
<1>1. revision \in Nat /\ CatalogTypeOK
  BY DEF CatalogInv, CatalogTypeOK
<1>2. CASE revision' = revision + 1
  BY <1>1, <1>2 DEF ListingHolds
<1>3. CASE Shrinks
  <2>1. Selectable' \subseteq Selectable
    BY <1>1, <1>3, SelectableShrinks DEF Shrinks
  <2> QED BY <1>3, <2>1 DEF ListingHolds, Shrinks
<1> QED BY <1>2, <1>3, CatalogMoves

-----------------------------------------------------------------------------
(* The product and its grants.                                             *)

\* Grants are only added.
GrantsGrow ==
  /\ grants \in Seq(Grants) /\ grants' \in Seq(Grants)
  /\ Latest <= Latest' /\ \A g \in 1..Latest : grants'[g] = grants[g]

\* What can be selected is well formed.
LEMMA SelectableBound ==
  ASSUME CatalogTypeOK
  PROVE  Selectable \subseteq Bound
BY OffersBound DEF Selectable

\* A new grant is a part of what can be selected and of the former grant, closed,
\* and becomes the options of the product.
LEMMA GrantStep ==
  ASSUME ProductInv, NEW options \in SUBSET Codes, NEW bindings \in SUBSET Bound,
         InsertProductServiceGrant(options, bindings), UNCHANGED <<revision, listed>>,
         profile' \in [options : SUBSET Codes, disabled : BOOLEAN], profile'.options = options,
         \A o \in bindings : o.code \in options /\ o.requires \subseteq options,
         Selectable' = Selectable
  PROVE  ProductInv' /\ GrantsGrow
<1> DEFINE new == [options |-> options, bindings |-> bindings]
<1>1. grants \in Seq(Grants) /\ new \in Grants
  BY DEF ProductInv, ProductTypeOK, Grants
<1>2. /\ grants' \in Seq(Grants) /\ Len(grants') = Len(grants) + 1
      /\ \A g \in 1..Len(grants) : grants'[g] = grants[g]
      /\ grants'[Len(grants) + 1] = new
  BY <1>1 DEF InsertProductServiceGrant
<1>3. ProductTypeOK' /\ ListingHolds' /\ GrantsGrow
  BY <1>1, <1>2 DEF ProductInv, ProductTypeOK, ListingHolds, GrantsGrow, Latest
<1>4. Latest' = Latest + 1 /\ Latest \in Nat /\ grants'[Latest'] = new
  BY <1>1, <1>2 DEF Latest
<1>5. grants'[Latest'].options = options /\ grants'[Latest'].bindings = bindings
  BY <1>4
<1>6. ASSUME NEW g \in 1..Latest', NEW o \in grants'[g].bindings
      PROVE  o.code \in grants'[g].options /\ o.requires \subseteq grants'[g].options
  <2>1. CASE g \in 1..Latest
    BY <1>6, <2>1, <1>2 DEF ProductInv, ProductMatchesGrant, Latest
  <2>2. CASE g = Latest'
    BY <1>6, <2>2, <1>5
  <2> QED BY <2>1, <2>2, <1>4
<1>7. ProductMatchesGrant'
  BY <1>4, <1>5, <1>6 DEF ProductMatchesGrant, OTAEnabled
<1> QED BY <1>3, <1>7 DEF ProductInv

\* Steps that leave the grants alone.
LEMMA GrantsStay ==
  ASSUME grants \in Seq(Grants), grants' = grants
  PROVE  GrantsGrow
<1>1. Len(grants) \in Nat
  OBVIOUS
<1> QED BY <1>1 DEF GrantsGrow, Latest

\* What a product does leaves the catalogue alone.
LEMMA CatalogStays ==
  ASSUME CatalogInv, UNCHANGED catalogVars
  PROVE  CatalogInv' /\ Offers' = Offers /\ Selectable' = Selectable
<1>1. Published' = Published /\ CatalogTypeOK /\ UNCHANGED <<service, instance, manifest>>
  BY DEF Published, catalogVars, CatalogInv
<1>2. Offers' = Offers
  BY <1>1, OffersStay
<1>3. CatalogTypeOK' /\ Registered' /\ CatalogIsSound'
  BY <1>2, SoundnessStays DEF CatalogInv, catalogVars, CatalogTypeOK, Registered
<1>4. Selectable' \subseteq Selectable
  BY <1>1, <1>2, SelectableShrinks DEF Serving
<1>5. \A s : Serving(s)' <=> Serving(s)
  BY <1>1 DEF Serving
<1>6. Closure(Offers)' = Closure(Offers)
  BY <1>2 DEF Closure, Requirements
<1>7. Selectable' = Selectable
  BY <1>2, <1>5, <1>6 DEF Selectable
<1> QED BY <1>2, <1>3, <1>7 DEF CatalogInv

\* The bindings of a selection are selectable, and are those of the options asked for.
LEMMA SelectionBound ==
  ASSUME CatalogTypeOK, NEW options, NEW b \in Selection(options)
  PROVE  b \subseteq Bound /\ b \subseteq Selectable /\ (\A o \in b : o.code \in options)
         /\ listed.revision = revision
<1>1. b = {o \in Selectable : o.code \in options} /\ listed.revision = revision
  BY DEF Selection, Bindings
<1> QED BY <1>1, SelectableBound

\* The bindings of an update are kept ones, or selected from the current listing.
LEMMA UpdateBound ==
  ASSUME CatalogTypeOK, ProductInv, Latest > 0, NEW options,
         NEW b \in ValidateProductServiceUpdate(options)
  PROVE  /\ b \subseteq Bound /\ (\A o \in b : o.code \in options)
         /\ \A o \in b : o \in grants[Latest].bindings \/ (o \in Selectable /\ listed.revision = revision)
<1>1. grants[Latest] \in Grants
  BY DEF ProductInv, ProductTypeOK, Latest
<1>2. Kept(options) \subseteq grants[Latest].bindings /\ \A o \in Kept(options) : o.code \in options
  BY DEF Kept
<1>3. grants[Latest].bindings \subseteq Bound
  BY <1>1 DEF Grants
<1>4. CASE b = Kept(options)
  BY <1>2, <1>3, <1>4
<1>5. CASE \E added \in Selection(options \ profile.options) : b = Kept(options) \cup added
  BY <1>2, <1>3, <1>5, SelectionBound
<1> QED BY <1>4, <1>5 DEF ValidateProductServiceUpdate

\* The product: its options and its latest grant change together.
LEMMA ProductSteps ==
  ASSUME CatalogInv, ProductInv,
         \/ ListPlatformServiceOptions \/ createDeviceItemProfile \/ updateDeviceItemProfile
         \/ disableDeviceItemProfile \/ ReportLegacyGrants \/ BackfillLegacyProductServiceGrants
  PROVE  ProductInv' /\ GrantsGrow /\ UNCHANGED catalogVars
<1>0. /\ CatalogTypeOK /\ revision \in Nat /\ profile \in [options : SUBSET Codes, disabled : BOOLEAN]
      /\ grants \in Seq(Grants) /\ listed \in [revision : Nat, options : SUBSET Bound]
  BY DEF CatalogInv, CatalogTypeOK, ProductInv, ProductTypeOK
<1>1. CASE ListPlatformServiceOptions
  <2>1. /\ listed' = [revision |-> revision, options |-> Selectable] /\ UNCHANGED <<catalogVars, profile, grants>>
    BY <1>1 DEF ListPlatformServiceOptions
  <2>2. Selectable' = Selectable /\ revision' = revision
    BY <2>1, CatalogStays DEF catalogVars
  <2>3. Selectable \in SUBSET Bound
    BY <1>0, SelectableBound
  <2>4. ProductTypeOK' /\ ListingHolds'
    BY <1>0, <2>1, <2>2, <2>3 DEF ProductTypeOK, ListingHolds
  <2> QED BY <1>0, <2>1, <2>4, GrantsStay DEF ProductInv, ProductMatchesGrant, OTAEnabled, Latest
<1>2. CASE createDeviceItemProfile
  <2>1. PICK options \in SUBSET Codes : CreateDeviceItemProfileAsUser(options)
    BY <1>2 DEF createDeviceItemProfile
  <2>2. PICK bindings \in Selection(options) :
          ClosedUnder(options, bindings) /\ InsertProductServiceGrant(options, bindings)
    BY <2>1 DEF CreateDeviceItemProfileAsUser
  <2>3. UNCHANGED <<catalogVars, listed>> /\ profile' = [profile EXCEPT !.options = options]
    BY <2>1 DEF CreateDeviceItemProfileAsUser, CreateProfile
  <2>4. Selectable' = Selectable /\ revision' = revision
    BY <2>3, CatalogStays DEF catalogVars
  <2>5. bindings \subseteq Bound /\ \A o \in bindings : o.code \in options /\ o.requires \subseteq options
    BY <1>0, <2>2, SelectionBound DEF ClosedUnder
  <2>6. profile' \in [options : SUBSET Codes, disabled : BOOLEAN] /\ profile'.options = options
    BY <1>0, <2>3
  <2> QED BY <2>2, <2>3, <2>4, <2>5, <2>6, GrantStep
<1>3. CASE \E options \in SUBSET Codes : UpdateDeviceItemProfileAsUser(options)
  <2>1. PICK options \in SUBSET Codes : UpdateDeviceItemProfileAsUser(options)
    BY <1>3
  <2>2. PICK bindings \in ValidateProductServiceUpdate(options) :
          ClosedUnder(options, bindings) /\ InsertProductServiceGrant(options, bindings)
    BY <2>1 DEF UpdateDeviceItemProfileAsUser
  <2>3. /\ UNCHANGED <<catalogVars, listed>> /\ profile' = [profile EXCEPT !.options = options]
        /\ Latest > 0
    BY <2>1 DEF UpdateDeviceItemProfileAsUser, UpdateProfile
  <2>4. Selectable' = Selectable /\ revision' = revision
    BY <2>3, CatalogStays DEF catalogVars
  <2>5. bindings \subseteq Bound /\ \A o \in bindings : o.code \in options /\ o.requires \subseteq options
    BY <1>0, <2>2, <2>3, UpdateBound DEF ClosedUnder
  <2>6. profile' \in [options : SUBSET Codes, disabled : BOOLEAN] /\ profile'.options = options
    BY <1>0, <2>3
  <2> QED BY <2>2, <2>3, <2>4, <2>5, <2>6, GrantStep
<1>4. CASE \E off \in BOOLEAN : DisableDeviceItemProfileAsUser(off)
  <2>1. PICK off \in BOOLEAN : DisableDeviceItemProfileAsUser(off)
    BY <1>4
  <2>2. UNCHANGED <<catalogVars, listed, grants>> /\ profile' = [profile EXCEPT !.disabled = off]
    BY <2>1 DEF DisableDeviceItemProfileAsUser, SetDisabled
  <2>3. Selectable' = Selectable /\ revision' = revision
    BY <2>2, CatalogStays DEF catalogVars
  <2>4. profile' \in [options : SUBSET Codes, disabled : BOOLEAN] /\ profile'.options = profile.options
    BY <1>0, <2>2
  <2>5. ProductTypeOK' /\ ListingHolds'
    BY <2>2, <2>3, <2>4 DEF ProductInv, ProductTypeOK, ListingHolds
  <2>6. ProductMatchesGrant'
    BY <2>2, <2>4 DEF ProductInv, ProductMatchesGrant, OTAEnabled, Latest
  <2> QED BY <1>0, <2>2, <2>5, <2>6, GrantsStay DEF ProductInv
<1>5. CASE ReportLegacyGrants
  <2>1. UNCHANGED <<catalogVars, listed, grants, profile>>
    BY <1>5 DEF ReportLegacyGrants
  <2>2. Selectable' = Selectable /\ revision' = revision
    BY <2>1, CatalogStays DEF catalogVars
  <2>3. ProductTypeOK' /\ ListingHolds' /\ ProductMatchesGrant'
    BY <2>1, <2>2 DEF ProductInv, ProductTypeOK, ListingHolds, ProductMatchesGrant, OTAEnabled, Latest
  <2> QED BY <1>0, <2>1, <2>3, GrantsStay DEF ProductInv
<1>6. CASE BackfillLegacyProductServiceGrants
  <2>1. UNCHANGED <<catalogVars, listed, profile>> /\ InsertProductServiceGrant(profile.options, {})
    BY <1>6 DEF BackfillLegacyProductServiceGrants
  <2>2. Selectable' = Selectable /\ revision' = revision
    BY <2>1, CatalogStays DEF catalogVars
  <2>3. /\ profile.options \in SUBSET Codes /\ profile'.options = profile.options
        /\ profile' \in [options : SUBSET Codes, disabled : BOOLEAN] /\ {} \in SUBSET Bound
    BY <1>0, <2>1
  <2> QED BY <2>1, <2>2, <2>3, GrantStep
<1> QED BY <1>1, <1>2, <1>3, <1>4, <1>5, <1>6 DEF updateDeviceItemProfile, disableDeviceItemProfile

-----------------------------------------------------------------------------
(* The factory.                                                            *)

\* The requests a run counts as issued.
IssuedOf(r) == {q \in Enrollments : reservation[q].run = r /\ reservation[q].status = "issued"}

\* Requests can be counted.
LEMMA FiniteRequests ==
  ASSUME NEW S \in SUBSET Enrollments
  PROVE  IsFiniteSet(S) /\ Cardinality(S) \in Nat
BY FS_Subset, FS_CardinalityType, ProductAssumption

\* Growth of the grants, and of anything outside the factory, disturbs nothing.
LEMMA FactoryStays ==
  ASSUME FactoryInv, GrantsGrow, UNCHANGED factoryVars, cloud' \in [version : Nat, admits : BOOLEAN]
  PROVE  FactoryInv'
<1>1. Latest \in Nat /\ Latest' \in Nat /\ Latest <= Latest'
  BY DEF GrantsGrow, Latest
<1>2. FactoryTypeOK'
  <2>1. Pins \subseteq Pins'
    BY <1>1 DEF Pins
  <2>2. UNCHANGED <<run, reservation, heard, certificate>> /\ FactoryTypeOK
    BY DEF factoryVars, FactoryInv
  <2> QED BY <2>1, <2>2 DEF FactoryTypeOK
<1>3. \A q \in Enrollments : RequestIsSound(q)'
  BY DEF FactoryInv, RequestIsSound, factoryVars
<1>4. \A r \in Runs : Places(r)' = Places(r)
  BY DEF Places, Of, Admitted, factoryVars
<1> QED BY <1>1, <1>2, <1>3, <1>4 DEF FactoryInv, factoryVars

\* A run is created with the latest grant, and stopped.
LEMMA RunSteps ==
  ASSUME FactoryInv, grants \in Seq(Grants), createProductionRun \/ stopOrganizationProductionRun
  PROVE  FactoryInv'
<1>0. /\ Latest \in Nat /\ run \in [Runs -> RunRows] /\ reservation \in [Enrollments -> ReservationRows]
      /\ cloud \in [version : Nat, admits : BOOLEAN]
  BY DEF FactoryInv, FactoryTypeOK, Latest
<1>1. PICK r \in Runs : IssueProductionRunAsUser(r) \/ StopProductionRunAsUser(r)
  BY DEF createProductionRun, stopOrganizationProductionRun
<1>2. UNCHANGED <<reservation, heard, certificate, cloud, grants>>
  BY <1>1 DEF IssueProductionRunAsUser, StopProductionRunAsUser, productVars
<1>3. /\ run' \in [Runs -> RunRows] /\ \A t \in Runs \ {r} : run'[t] = run[t]
      /\ run'[r].status # "none" /\ run'[r].pin \in 1..Latest
      /\ run[r].status = "none" \/ run'[r].issued = run[r].issued
      /\ run[r].status = "none" => run'[r].issued = 0
  <2>1. CASE IssueProductionRunAsUser(r)
    <3>1. grants[Latest] \in Grants /\ Latest > 0 /\ run[r].status = "none"
      BY <2>1 DEF IssueProductionRunAsUser, CreateProductionRun, Latest
    <3>2. run' = [run EXCEPT ![r] = [status |-> "active", pin |-> Latest, options |-> grants[Latest].options,
                                     version |-> cloud.version, issued |-> 0]]
      BY <2>1 DEF IssueProductionRunAsUser, CreateProductionRun
    <3>3. [status |-> "active", pin |-> Latest, options |-> grants[Latest].options,
           version |-> cloud.version, issued |-> 0] \in RunRows
      BY <1>0, <3>1 DEF RunRows, Grants
    <3> QED BY <1>0, <3>1, <3>2, <3>3
  <2>2. CASE StopProductionRunAsUser(r)
    <3>1. run[r].status = "active" /\ run' = [run EXCEPT ![r].status = "disabled"]
      BY <2>2 DEF StopProductionRunAsUser
    <3>2. run[r].pin \in 1..Latest
      BY <3>1 DEF FactoryInv
    <3> QED BY <1>0, <3>1, <3>2 DEF RunRows
  <2> QED BY <1>1, <2>1, <2>2
<1>4. ASSUME run[r].status = "none" PROVE IssuedOf(r) = {}
  BY <1>4, ProductAssumption DEF IssuedOf, FactoryInv, RequestIsSound
<1>5. FactoryTypeOK'
  <2>1. ASSUME NEW t \in Runs
        PROVE  run'[t].pin \in Pins' /\ run'[t].issued = Cardinality(IssuedOf(t))
    <3>1. run[t].pin \in Pins /\ run[t].issued = Cardinality(IssuedOf(t))
      BY DEF FactoryInv, FactoryTypeOK, IssuedOf
    <3>2. Pins' = Pins
      BY <1>2 DEF Pins, Latest
    <3>3. run[r].status = "none" => Cardinality(IssuedOf(r)) = 0
      BY <1>4, FS_EmptySet
    <3>4. 1..Latest \subseteq Pins
      BY <1>0 DEF Pins
    <3>5. CASE t = r
      BY <1>3, <3>1, <3>2, <3>3, <3>4, <3>5
    <3>6. CASE t # r
      BY <1>3, <3>1, <3>2, <3>6
    <3> QED BY <3>5, <3>6
  <2>2. \A t \in Runs : IssuedOf(t)' = IssuedOf(t)
    BY <1>2 DEF IssuedOf
  <2> QED BY <1>2, <1>3, <2>1, <2>2 DEF FactoryInv, FactoryTypeOK, IssuedOf
<1>6. \A q \in Enrollments : RequestIsSound(q)'
  <2>1. \A q \in Enrollments : reservation[q].run \in Runs \cup {NoRun}
    BY <1>0 DEF ReservationRows
  <2> QED BY <1>2, <1>3, <2>1 DEF FactoryInv, RequestIsSound
<1>7. \A t \in Runs : Places(t)' = Places(t) /\ Latest' = Latest
  BY <1>2 DEF Places, Of, Admitted, Latest
<1> QED BY <1>3, <1>5, <1>6, <1>7 DEF FactoryInv

\* The issuer: a request that was heard of has its place, and what is fenced has
\* no certificate.
LEMMA IssuerSteps ==
  ASSUME FactoryInv, NEW q \in Enrollments, IssueCertificate(q) \/ FenceRequest(q)
  PROVE  FactoryInv'
<1>1. UNCHANGED <<cloud, run, reservation, heard, grants>>
  BY DEF IssueCertificate, FenceRequest, productVars
<1>2. certificate \in [Enrollments -> {"none", "issued", "fenced"}] /\ reservation[q] \in ReservationRows
  BY DEF FactoryInv, FactoryTypeOK
<1>3. /\ certificate[q] = "none" /\ \A p \in Enrollments \ {q} : certificate'[p] = certificate[p]
      /\ \/ certificate'[q] = "issued" /\ q \in heard /\ reservation[q].status # "not_issued"
         \/ certificate'[q] = "fenced" /\ reservation[q].status = "cancel_requested"
      /\ certificate' \in [Enrollments -> {"none", "issued", "fenced"}]
  BY <1>2 DEF IssueCertificate, FenceRequest
<1>4. FactoryTypeOK'
  BY <1>1, <1>3 DEF FactoryInv, FactoryTypeOK, Pins, Latest
<1>5. ASSUME NEW p \in Enrollments PROVE RequestIsSound(p)'
  <2>1. RequestIsSound(p)
    BY DEF FactoryInv
  <2> QED BY <1>1, <1>3, <2>1 DEF RequestIsSound
<1>6. \A t \in Runs : Places(t)' = Places(t) /\ Latest' = Latest
  BY <1>1 DEF Places, Of, Admitted, Latest
<1> QED BY <1>1, <1>4, <1>5, <1>6 DEF FactoryInv

\* A place is an issued certificate or one that is still open.
LEMMA PlacesCount ==
  ASSUME FactoryInv, NEW r \in Runs
  PROVE  Cardinality(Places(r)) = run[r].issued + Cardinality(Pending(r))
<1>1. /\ run[r].issued = Cardinality(IssuedOf(r)) /\ reservation \in [Enrollments -> ReservationRows]
      /\ \A q \in Enrollments : reservation[q].status = "issued" => reservation[q].admitted
  BY DEF FactoryInv, FactoryTypeOK, IssuedOf, RequestIsSound
<1>2. Places(r) = IssuedOf(r) \cup Pending(r) /\ IssuedOf(r) \cap Pending(r) = {}
  BY <1>1 DEF Places, Pending, IssuedOf, Of, Admitted
<1>3. IssuedOf(r) \in SUBSET Enrollments /\ Pending(r) \in SUBSET Enrollments
  BY DEF IssuedOf, Pending, Of
<1>4. /\ IsFiniteSet(IssuedOf(r)) /\ Cardinality(IssuedOf(r)) \in Nat
      /\ IsFiniteSet(Pending(r)) /\ Cardinality(Pending(r)) \in Nat
  BY <1>3, FiniteRequests
<1>5. Cardinality(IssuedOf(r) \cap Pending(r)) = 0
  BY <1>2, FS_EmptySet
<1>6. Cardinality(Places(r)) = Cardinality(IssuedOf(r)) + Cardinality(Pending(r)) - 0
  BY <1>2, <1>4, <1>5, FS_Union
<1> QED BY <1>1, <1>4, <1>6

\* A reservation takes a place while there is one, and its repetition takes none.
LEMMA ReserveStep ==
  ASSUME FactoryInv, NEW q \in Enrollments, NEW r \in Runs, NEW answered \in BOOLEAN,
         ReserveFactoryEnrollment(q, r, answered)
  PROVE  FactoryInv'
<1> DEFINE row == [run |-> r, status |-> "reserved", admitted |-> TRUE]
<1>0. /\ reservation \in [Enrollments -> ReservationRows] /\ heard \subseteq Enrollments
      /\ \A p \in Enrollments : RequestIsSound(p) /\ (reservation[p].run = NoRun <=> reservation[p].status = "none")
      /\ r # NoRun /\ Quantity \in Nat
  BY ProductAssumption DEF FactoryInv, FactoryTypeOK
<1>1. /\ UNCHANGED <<cloud, run, certificate, grants>> /\ run[r].status = "active"
      /\ heard' \in {heard, heard \cup {q}}
  BY DEF ReserveFactoryEnrollment, MayReserve, productVars
<1>2. CASE Repeats(q, r) /\ UNCHANGED reservation
  <2>1. FactoryTypeOK'
    BY <1>1, <1>2 DEF FactoryInv, FactoryTypeOK, Pins, Latest
  <2>2. ASSUME NEW p \in Enrollments PROVE RequestIsSound(p)'
    <3>0. RequestIsSound(p) /\ reservation[p] \in ReservationRows
      BY <1>0
    <3>1. CASE p = q
      BY <1>0, <1>1, <1>2, <3>0, <3>1 DEF RequestIsSound, Repeats, ReservationRows
    <3>2. CASE p # q
      BY <1>0, <1>1, <1>2, <3>0, <3>2 DEF RequestIsSound
    <3> QED BY <3>1, <3>2
  <2>3. \A t \in Runs : Places(t)' = Places(t) /\ Latest' = Latest
    BY <1>1, <1>2 DEF Places, Of, Admitted, Latest
  <2> QED BY <1>1, <2>1, <2>2, <2>3 DEF FactoryInv
<1>3. CASE /\ reservation[q].status = "none" /\ run[r].issued + Cardinality(Pending(r)) < Quantity
           /\ reservation' = [reservation EXCEPT ![q] = row]
  <2>0. row \in ReservationRows
    BY DEF ReservationRows
  <2>1. /\ reservation' \in [Enrollments -> ReservationRows] /\ reservation'[q] = row
        /\ \A p \in Enrollments \ {q} : reservation'[p] = reservation[p]
    BY <1>0, <1>3, <2>0
  <2>2. \A t \in Runs : IssuedOf(t)' = IssuedOf(t)
    BY <1>3, <2>1 DEF IssuedOf
  <2>3. FactoryTypeOK'
    <3>1. \A p \in Enrollments : reservation'[p].run = NoRun <=> reservation'[p].status = "none"
      BY <1>0, <2>1
    <3> QED BY <1>1, <2>1, <2>2, <3>1 DEF FactoryInv, FactoryTypeOK, Pins, Latest, IssuedOf
  <2>4. ASSUME NEW p \in Enrollments PROVE RequestIsSound(p)'
    <3>0. RequestIsSound(p)
      BY <1>0
    <3>1. CASE p = q
      BY <1>0, <1>1, <1>3, <2>1, <3>0, <3>1 DEF RequestIsSound
    <3>2. CASE p # q
      BY <1>0, <1>1, <1>3, <2>1, <3>0, <3>2 DEF RequestIsSound
    <3> QED BY <3>1, <3>2
  <2>5. Places(r)' = Places(r) \cup {q} /\ \A t \in Runs \ {r} : Places(t)' = Places(t)
    BY <1>0, <1>3, <2>1 DEF Places, Of, Admitted
  <2>6. Cardinality(Places(r)) < Quantity /\ IsFiniteSet(Places(r)) /\ Cardinality(Places(r)) \in Nat
    <3>1. Places(r) \in SUBSET Enrollments
      BY DEF Places, Of
    <3>2. Cardinality(Places(r)) = run[r].issued + Cardinality(Pending(r))
      BY PlacesCount
    <3> QED BY <1>3, <3>1, <3>2, FiniteRequests
  <2>7. Cardinality(Places(r)') <= Quantity
    <3>1. Cardinality(Places(r) \cup {q}) <= Cardinality(Places(r)) + 1
      <4>1. Cardinality(Places(r) \cup {q}) =
              IF q \in Places(r) THEN Cardinality(Places(r)) ELSE Cardinality(Places(r)) + 1
        BY <2>6, FS_AddElement
      <4> QED BY <2>6, <4>1
    <3>2. Cardinality(Places(r) \cup {q}) \in Nat
      BY <2>6, FS_AddElement, FS_CardinalityType
    <3> QED BY <1>0, <2>5, <2>6, <3>1, <3>2
  <2>8. Latest' = Latest
    BY <1>1 DEF Latest
  <2> QED BY <1>1, <2>3, <2>4, <2>5, <2>7, <2>8 DEF FactoryInv
<1> QED BY <1>2, <1>3 DEF ReserveFactoryEnrollment

\* A cancellation keeps the place of what it cancels, and takes none for a request
\* nobody knows.
LEMMA CancelStep ==
  ASSUME FactoryInv, NEW q \in Enrollments, NEW r \in Runs, BeginFactoryEnrollmentCancellation(q, r)
  PROVE  FactoryInv'
<1>0. /\ reservation \in [Enrollments -> ReservationRows] /\ heard \subseteq Enrollments
      /\ \A p \in Enrollments : RequestIsSound(p) /\ (reservation[p].run = NoRun <=> reservation[p].status = "none")
      /\ r # NoRun
  BY ProductAssumption DEF FactoryInv, FactoryTypeOK
<1>1. /\ UNCHANGED <<cloud, run, heard, certificate, grants>> /\ run[r].status # "none"
      /\ reservation[q].run \in {NoRun, r} /\ reservation[q].status \in {"none", "reserved"}
      /\ reservation' = [reservation EXCEPT ![q].run = r, ![q].status = "cancel_requested"]
  BY DEF BeginFactoryEnrollmentCancellation, productVars
<1>2. /\ reservation' \in [Enrollments -> ReservationRows]
      /\ reservation'[q].run = r /\ reservation'[q].status = "cancel_requested"
      /\ reservation'[q].admitted = reservation[q].admitted
      /\ \A p \in Enrollments \ {q} : reservation'[p] = reservation[p]
  BY <1>0, <1>1 DEF ReservationRows
<1>3. \A t \in Runs : IssuedOf(t)' = IssuedOf(t)
  BY <1>1, <1>2 DEF IssuedOf
<1>4. FactoryTypeOK'
  <2>1. \A p \in Enrollments : reservation'[p].run = NoRun <=> reservation'[p].status = "none"
    BY <1>0, <1>2
  <2> QED BY <1>1, <1>2, <1>3, <2>1 DEF FactoryInv, FactoryTypeOK, Pins, Latest, IssuedOf
<1>5. ASSUME NEW p \in Enrollments PROVE RequestIsSound(p)'
  <2>0. RequestIsSound(p)
    BY <1>0
  <2>1. CASE p = q
    BY <1>0, <1>1, <1>2, <2>0, <2>1 DEF RequestIsSound
  <2>2. CASE p # q
    BY <1>0, <1>1, <1>2, <2>0, <2>2 DEF RequestIsSound
  <2> QED BY <2>1, <2>2
<1>6. ASSUME NEW t \in Runs PROVE Places(t)' = Places(t)
  <2>1. reservation[q].status = "none" => ~reservation[q].admitted
    BY <1>0 DEF RequestIsSound
  <2>2. q \in Places(t)' <=> q \in Places(t)
    BY <1>0, <1>1, <1>2, <2>1 DEF Places, Of, Admitted
  <2>3. \A p \in Enrollments \ {q} : p \in Places(t)' <=> p \in Places(t)
    BY <1>2 DEF Places, Of, Admitted
  <2>4. Places(t)' \subseteq Enrollments /\ Places(t) \subseteq Enrollments
    BY DEF Places, Of
  <2> QED BY <2>2, <2>3, <2>4
<1>7. Latest' = Latest
  BY <1>1 DEF Latest
<1> QED BY <1>1, <1>4, <1>5, <1>6, <1>7 DEF FactoryInv

\* The issuer's evidence ends a reservation and moves its place to what is issued,
\* or frees it.
LEMMA CompleteStep ==
  ASSUME FactoryInv, NEW q \in Enrollments, CompleteFactoryEnrollment(q)
  PROVE  FactoryInv'
<1> DEFINE hasOne == certificate[q] = "issued"
           status == IF hasOne THEN "issued" ELSE "not_issued"
<1>0. /\ reservation \in [Enrollments -> ReservationRows] /\ run \in [Runs -> RunRows]
      /\ \A p \in Enrollments : RequestIsSound(p) /\ (reservation[p].run = NoRun <=> reservation[p].status = "none")
      /\ certificate \in [Enrollments -> {"none", "issued", "fenced"}]
  BY DEF FactoryInv, FactoryTypeOK
<1>2. PICK r \in Runs : r = reservation[q].run
  <2>1. reservation[q] \in ReservationRows /\ reservation[q].status # "none" /\ reservation[q].run # NoRun
    BY <1>0 DEF CompleteFactoryEnrollment
  <2> QED BY <2>1 DEF ReservationRows
<1>1. /\ UNCHANGED <<cloud, heard, certificate, grants>>
      /\ reservation[q].status \in {"reserved", "cancel_requested"} /\ certificate[q] # "none"
      /\ hasOne => reservation[q].admitted
      /\ run' = IF hasOne THEN [run EXCEPT ![r].issued = @ + 1] ELSE run
      /\ reservation' = [reservation EXCEPT ![q].status = status]
  BY <1>2 DEF CompleteFactoryEnrollment, productVars
<1>3. /\ reservation' \in [Enrollments -> ReservationRows]
      /\ reservation'[q].run = r /\ reservation'[q].status = status
      /\ reservation'[q].admitted = reservation[q].admitted
      /\ \A p \in Enrollments \ {q} : reservation'[p] = reservation[p]
  BY <1>0, <1>1, <1>2 DEF ReservationRows
<1>4. /\ run' \in [Runs -> RunRows] /\ run'[r].issued = IF hasOne THEN run[r].issued + 1 ELSE run[r].issued
      /\ \A t \in Runs : run'[t].status = run[t].status /\ run'[t].pin = run[t].pin
      /\ \A t \in Runs \ {r} : run'[t].issued = run[t].issued
  BY <1>0, <1>1, <1>2 DEF RunRows
<1>5. /\ \A t \in Runs \ {r} : IssuedOf(t)' = IssuedOf(t)
      /\ q \notin IssuedOf(r)
      /\ hasOne => IssuedOf(r)' = IssuedOf(r) \cup {q}
      /\ ~hasOne => IssuedOf(r)' = IssuedOf(r)
  BY <1>1, <1>2, <1>3 DEF IssuedOf
<1>6. \A t \in Runs : run'[t].issued = Cardinality(IssuedOf(t)')
  <2>1. \A t \in Runs : run[t].issued = Cardinality(IssuedOf(t))
    BY DEF FactoryInv, FactoryTypeOK, IssuedOf
  <2>2. IsFiniteSet(IssuedOf(r))
    BY FiniteRequests DEF IssuedOf
  <2>3. hasOne => Cardinality(IssuedOf(r)') = Cardinality(IssuedOf(r)) + 1
    <3>1. Cardinality(IssuedOf(r) \cup {q}) = Cardinality(IssuedOf(r)) + 1
      BY <1>5, <2>2, FS_AddElement
    <3> QED BY <1>5, <3>1
  <2>4. run'[r].issued = Cardinality(IssuedOf(r)')
    <3>1. CASE hasOne
      BY <1>2, <1>4, <2>1, <2>3, <3>1
    <3>2. CASE ~hasOne
      BY <1>2, <1>4, <1>5, <2>1, <3>2
    <3> QED BY <3>1, <3>2
  <2>5. ASSUME NEW t \in Runs \ {r} PROVE run'[t].issued = Cardinality(IssuedOf(t)')
    <3>1. IssuedOf(t)' = IssuedOf(t) /\ run'[t].issued = run[t].issued
      BY <1>4, <1>5
    <3> QED BY <2>1, <3>1
  <2> QED BY <2>4, <2>5
<1>7. FactoryTypeOK'
  <2>1. \A p \in Enrollments : reservation'[p].run = NoRun <=> reservation'[p].status = "none"
    BY <1>0, <1>1, <1>3
  <2> QED BY <1>1, <1>3, <1>4, <1>6, <2>1 DEF FactoryInv, FactoryTypeOK, Pins, Latest, IssuedOf
<1>8. ASSUME NEW p \in Enrollments PROVE RequestIsSound(p)'
  <2>0. RequestIsSound(p) /\ reservation[p].run \in Runs \cup {NoRun}
    BY <1>0 DEF ReservationRows
  <2>1. CASE p = q
    BY <1>0, <1>1, <1>2, <1>3, <1>4, <2>0, <2>1 DEF RequestIsSound
  <2>2. CASE p # q
    BY <1>0, <1>1, <1>2, <1>3, <1>4, <2>0, <2>2 DEF RequestIsSound
  <2> QED BY <2>1, <2>2
<1>9. \A t \in Runs : Places(t)' \subseteq Places(t)
  <2>1. \A t \in Runs : q \in Places(t)' => q \in Places(t)
    BY <1>1, <1>3 DEF Places, Of, Admitted
  <2>2. \A t \in Runs : \A p \in Enrollments \ {q} : p \in Places(t)' => p \in Places(t)
    BY <1>3 DEF Places, Of, Admitted
  <2>3. \A t \in Runs : Places(t)' \subseteq Enrollments
    BY DEF Places, Of
  <2> QED BY <2>1, <2>2, <2>3
<1>10. ASSUME NEW t \in Runs PROVE Cardinality(Places(t)') <= Quantity
  <2>1. Places(t) \in SUBSET Enrollments
    BY DEF Places, Of
  <2>2. IsFiniteSet(Places(t)) /\ Cardinality(Places(t)) \in Nat
    BY <2>1, FiniteRequests
  <2>3. Cardinality(Places(t)') <= Cardinality(Places(t)) /\ Cardinality(Places(t)') \in Nat
    BY <1>9, <2>2, FS_Subset, FS_CardinalityType
  <2>4. Cardinality(Places(t)) <= Quantity /\ Quantity \in Nat
    BY ProductAssumption DEF FactoryInv
  <2> QED BY <2>2, <2>3, <2>4
<1>11. Latest' = Latest
  BY <1>1 DEF Latest
<1> QED BY <1>4, <1>7, <1>8, <1>10, <1>11 DEF FactoryInv

-----------------------------------------------------------------------------
(* The device.                                                             *)

\* Snapshots are only added, and what is in force is replaced by later ones.
DeviceGrows ==
  /\ Len(snapshots) \in Nat /\ Len(snapshots') \in Nat /\ Len(snapshots) <= Len(snapshots')
  /\ \A n \in 1..Len(snapshots) : snapshots'[n] = snapshots[n]
  /\ inForce \in Nat /\ inForce' \in Nat /\ inForce <= inForce'

\* A step that leaves the device alone, or deactivates it, keeps what is known of it.
LEMMA DeviceStays ==
  ASSUME DeviceInv, GrantsGrow, UNCHANGED <<operation, baseline, snapshots, inForce>>,
         deactivated' \subseteq Nat
  PROVE  DeviceInv' /\ DeviceGrows
<1>1. Latest \in Nat /\ Latest' \in Nat /\ Latest <= Latest'
  BY DEF GrantsGrow, Latest
<1>2. Pins \subseteq Pins' /\ 1..Latest \subseteq 1..Latest'
  BY <1>1 DEF Pins
<1>3. DeviceTypeOK'
  BY <1>2 DEF DeviceInv, DeviceTypeOK
<1>4. Len(snapshots) \in Nat /\ inForce \in Nat
  BY DEF DeviceInv, DeviceTypeOK
<1> QED BY <1>2, <1>3, <1>4 DEF DeviceInv, DeviceGrows

\* The snapshot of an operation, and the only one.
LEMMA RevisionExists ==
  ASSUME DeviceInv, NEW o \in Jobs \cup Updates, operation[o] # "absent"
  PROVE  /\ RevisionOf(o) \in 1..Len(snapshots) /\ snapshots[RevisionOf(o)].op = o
         /\ \A n \in 1..Len(snapshots) : snapshots[n].op = o => n = RevisionOf(o)
<1>1. \E n \in 1..Len(snapshots) : snapshots[n].op = o
  BY DEF DeviceInv
<1>2. RevisionOf(o) \in 1..Len(snapshots) /\ snapshots[RevisionOf(o)].op = o
  BY <1>1 DEF RevisionOf
<1> QED BY <1>2 DEF DeviceInv

\* What a device has is a statement about a grant of the product.
LEMMA BaselineType ==
  ASSUME DeviceInv, grants \in Seq(Grants), HasBaseline
  PROVE  Baseline \in Statements /\ Baseline.grant \in 1..Latest
<1>0. /\ Latest \in Nat /\ Len(snapshots) \in Nat /\ snapshots \in Seq(SnapshotRows)
      /\ \A n \in 1..Len(snapshots) : snapshots[n].grant \in 1..Latest
  BY DEF Latest, DeviceInv, DeviceTypeOK
<1>1. \A st \in Effective : Suspended(st) \in Effective
  BY DEF Suspended, Effective
<1>2. CASE Len(snapshots) = 0
  <2>1. operation["provision"] = "succeeded"
    BY <1>0, <1>2 DEF HasBaseline
  <2>2. baseline \in 1..Latest
    BY <2>1 DEF DeviceInv
  <2>3. baseline \in Nat /\ grants[baseline] \in Grants
    BY <1>0, <2>2 DEF Latest
  <2>4. grants[baseline].options \in SUBSET Codes /\ Suspended("active") \in Effective
    BY <2>3, <1>1 DEF Grants, Effective
  <2> QED BY <1>2, <2>2, <2>3, <2>4 DEF Baseline, Statements
<1>3. CASE Len(snapshots) # 0
  <2> DEFINE n == Len(snapshots)
  <2>1. n \in 1..Len(snapshots) /\ n \in Nat
    BY <1>0, <1>3
  <2>2. snapshots[n] \in SnapshotRows /\ snapshots[n].grant \in 1..Latest
    BY <1>0, <2>1
  <2>3. Suspended(snapshots[n].state) \in Effective /\ snapshots[n].options \in SUBSET Codes
        /\ snapshots[n].grant \in Nat
    BY <1>1, <2>2 DEF SnapshotRows
  <2> QED BY <1>3, <2>1, <2>2, <2>3 DEF Baseline, Statements
<1> QED BY <1>2, <1>3

\* The operation of a snapshot is a job or an update.
LEMMA SnapshotOps ==
  ASSUME DeviceInv
  PROVE  /\ snapshots \in Seq(SnapshotRows) /\ Len(snapshots) \in Nat
         /\ \A n \in 1..Len(snapshots) : snapshots[n].op \in Jobs \cup Updates
<1>1. snapshots \in Seq(SnapshotRows)
  BY DEF DeviceInv, DeviceTypeOK
<1>2. \A n \in 1..Len(snapshots) : snapshots[n] \in SnapshotRows
  BY <1>1
<1> QED BY <1>1, <1>2 DEF SnapshotRows

\* An operation that starts brings a snapshot of its own.
LEMMA SnapshotStep ==
  ASSUME DeviceInv, grants \in Seq(Grants), NEW o \in Jobs \cup Updates, operation[o] = "absent",
         NEW g \in 1..Latest, NEW options \in SUBSET Codes, NEW state \in Effective,
         StartSnapshot(o, g, options, state),
         UNCHANGED <<grants, baseline, deactivated, inForce>>
  PROVE  DeviceInv' /\ DeviceGrows
<1> DEFINE new == [grant |-> g, options |-> options, state |-> state, op |-> o]
           len == Len(snapshots)
<1>0. /\ operation \in [Ops -> OperationStatuses] /\ baseline \in Pins /\ deactivated \subseteq Nat
      /\ snapshots \in Seq(SnapshotRows) /\ inForce \in 0..len /\ len \in Nat
      /\ \A n \in 1..len : snapshots[n].grant \in 1..Latest /\ operation[snapshots[n].op] # "absent"
                           /\ snapshots[n].op \in Jobs \cup Updates
      /\ o \in Ops /\ o # "provision" /\ Latest \in Nat
  <2>1. o \in Ops /\ o # "provision" /\ Latest \in Nat
    BY ProductAssumption DEF Ops, Latest
  <2>2. /\ operation \in [Ops -> OperationStatuses] /\ baseline \in Pins /\ deactivated \subseteq Nat
        /\ inForce \in 0..len
        /\ \A n \in 1..len : snapshots[n].grant \in 1..Latest /\ operation[snapshots[n].op] # "absent"
    BY DEF DeviceInv, DeviceTypeOK
  <2> QED BY <2>1, <2>2, SnapshotOps
<1>1. new \in SnapshotRows /\ new.op = o /\ new.grant = g
  BY <1>0 DEF SnapshotRows
<1> HIDE DEF new
<1>2. operation' = [operation EXCEPT ![o] = "open"] /\ snapshots' = Append(snapshots, new)
  BY DEF StartSnapshot, new
<1>3. /\ snapshots' \in Seq(SnapshotRows) /\ Len(snapshots') = len + 1
      /\ \A n \in 1..len : snapshots'[n] = snapshots[n]
      /\ snapshots'[len + 1] = new
  BY <1>0, <1>1, <1>2
<1>4. /\ operation' \in [Ops -> OperationStatuses] /\ operation'[o] = "open"
      /\ \A p \in Ops \ {o} : operation'[p] = operation[p]
  BY <1>0, <1>2 DEF OperationStatuses
<1>5. \A n \in 1..Len(snapshots') : n \in 1..len \/ n = len + 1
  BY <1>0, <1>3
<1>6. Pins' = Pins /\ Latest' = Latest
  BY DEF Pins, Latest
<1>7. \A p \in Jobs \cup Updates : p \in Ops /\ p # "provision"
  BY ProductAssumption DEF Ops
<1>8. ASSUME NEW n \in 1..Len(snapshots')
      PROVE  snapshots'[n].grant \in 1..Latest /\ operation'[snapshots'[n].op] # "absent"
  BY <1>0, <1>1, <1>3, <1>4, <1>5, <1>7
<1>9. DeviceTypeOK'
  <2>1. inForce' \in 0..Len(snapshots')
    BY <1>0, <1>3
  <2> QED BY <1>0, <1>3, <1>4, <1>6, <1>8, <2>1 DEF DeviceTypeOK
<1>10. ASSUME NEW m \in 1..Len(snapshots'), NEW n \in 1..Len(snapshots'),
              snapshots'[m].op = snapshots'[n].op
       PROVE  m = n
  <2>1. \A k \in 1..len : snapshots[k].op # o
    BY <1>0
  <2>2. CASE m \in 1..len /\ n \in 1..len
    BY <1>3, <1>10, <2>2 DEF DeviceInv
  <2> QED BY <1>1, <1>3, <1>5, <1>10, <2>1, <2>2
<1>11. ASSUME NEW p \in Jobs \cup Updates, operation'[p] # "absent"
       PROVE  \E n \in 1..Len(snapshots') : snapshots'[n].op = p
  <2>1. CASE p = o
    BY <1>0, <1>1, <1>3, <2>1
  <2>2. CASE p # o
    <3>1. PICK n \in 1..len : snapshots[n].op = p
      BY <1>4, <1>7, <1>11, <2>2 DEF DeviceInv
    <3>2. n \in 1..Len(snapshots') /\ snapshots'[n].op = p
      BY <1>0, <1>3, <3>1
    <3> QED BY <3>2
  <2> QED BY <2>1, <2>2
<1>12. ASSUME NEW n \in 1..Len(snapshots'), operation'[snapshots'[n].op] = "succeeded"
       PROVE  n <= inForce
  <2>1. n \in 1..len /\ snapshots[n].op # o
    BY <1>0, <1>1, <1>3, <1>4, <1>5, <1>12
  <2> QED BY <1>0, <1>3, <1>4, <1>7, <1>12, <2>1 DEF DeviceInv
<1>13. operation'["provision"] # "absent" => baseline' \in 1..Latest'
  <2>1. "provision" \in Ops /\ operation'["provision"] = operation["provision"]
    BY <1>0, <1>4 DEF Ops
  <2> QED BY <1>6, <2>1 DEF DeviceInv
<1>14. DeviceGrows
  <2>1. Len(snapshots') \in Nat /\ Len(snapshots) <= Len(snapshots')
    BY <1>0, <1>3
  <2>2. inForce \in Nat /\ inForce' = inForce
    BY <1>0
  <2>3. inForce' \in Nat /\ inForce <= inForce'
    BY <2>2
  <2>4. len \in Nat /\ \A n \in 1..len : snapshots'[n] = snapshots[n]
    BY <1>0, <1>3
  <2> QED BY <2>1, <2>2, <2>3, <2>4 DEF DeviceGrows
<1> QED BY <1>9, <1>10, <1>11, <1>12, <1>13, <1>14 DEF DeviceInv

\* The status of one operation changes; one that succeeds has its snapshot in force.
LEMMA StatusChanges ==
  ASSUME DeviceInv, NEW o \in Ops, operation[o] # "absent", NEW status \in OperationStatuses \ {"absent"},
         operation' = [operation EXCEPT ![o] = status],
         status = "succeeded" /\ o # "provision" => inForce = RevisionOf(o),
         UNCHANGED <<grants, baseline, deactivated, snapshots, inForce>>
  PROVE  DeviceInv' /\ DeviceGrows
<1>0. /\ operation \in [Ops -> OperationStatuses] /\ snapshots \in Seq(SnapshotRows)
      /\ inForce \in 0..Len(snapshots) /\ Len(snapshots) \in Nat
      /\ \A n \in 1..Len(snapshots) : snapshots[n].op \in Jobs \cup Updates
  <2>1. operation \in [Ops -> OperationStatuses] /\ inForce \in 0..Len(snapshots)
    BY DEF DeviceInv, DeviceTypeOK
  <2> QED BY <2>1, SnapshotOps
<1>1. \A p \in Jobs \cup Updates : p \in Ops /\ p # "provision"
  BY ProductAssumption DEF Ops
<1>2. /\ operation' \in [Ops -> OperationStatuses] /\ operation'[o] = status
      /\ \A p \in Ops \ {o} : operation'[p] = operation[p]
      /\ \A p \in Ops : operation'[p] # "absent" <=> operation[p] # "absent"
  BY <1>0
<1>3. Pins' = Pins /\ Latest' = Latest
  BY DEF Pins, Latest
<1>4. DeviceTypeOK'
  BY <1>0, <1>1, <1>2, <1>3 DEF DeviceInv, DeviceTypeOK
<1>5. ASSUME NEW n \in 1..Len(snapshots), operation'[snapshots[n].op] = "succeeded"
      PROVE  n <= inForce
  <2>1. CASE snapshots[n].op # o
    BY <1>0, <1>1, <1>2, <1>5, <2>1 DEF DeviceInv
  <2>2. CASE snapshots[n].op = o
    <3>1. o \in Jobs \cup Updates /\ o # "provision" /\ status = "succeeded"
      BY <1>0, <1>1, <1>2, <1>5, <2>2
    <3>2. n = RevisionOf(o)
      BY <2>2, <3>1, RevisionExists
    <3> QED BY <1>0, <3>1, <3>2
  <2> QED BY <2>1, <2>2
<1>6. operation'["provision"] # "absent" <=> operation["provision"] # "absent"
  BY <1>2 DEF Ops
<1>7. \A p \in Jobs \cup Updates : operation'[p] # "absent" <=> operation[p] # "absent"
  BY <1>1, <1>2
<1> QED BY <1>0, <1>3, <1>4, <1>5, <1>6, <1>7 DEF DeviceInv, DeviceGrows

\* The certificates of the device name grants of the product.
LEMMA PinsOfCertificates ==
  ASSUME FactoryInv
  PROVE  PinnedBy \subseteq 1..Latest
<1> SUFFICES ASSUME NEW q \in Enrollments, reservation[q].status = "issued"
             PROVE  run[reservation[q].run].pin \in 1..Latest
  BY DEF PinnedBy
<1>1. /\ reservation[q] \in ReservationRows /\ RequestIsSound(q)
      /\ (reservation[q].run = NoRun <=> reservation[q].status = "none")
  BY DEF FactoryInv, FactoryTypeOK
<1>2. reservation[q].run \in Runs /\ run[reservation[q].run].status # "none"
  BY <1>1 DEF ReservationRows, RequestIsSound
<1> QED BY <1>2 DEF FactoryInv

\* A provisioning takes the grant its certificates name, or the latest one.
LEMMA ProvisionStep ==
  ASSUME DeviceInv, FactoryInv, grants \in Seq(Grants), StartProvision
  PROVE  DeviceInv' /\ DeviceGrows
<1>0. /\ operation \in [Ops -> OperationStatuses] /\ Latest \in Nat /\ deactivated \subseteq Nat
      /\ inForce \in 0..Len(snapshots)
      /\ \A n \in 1..Len(snapshots) : snapshots[n].grant \in 1..Latest /\ operation[snapshots[n].op] # "absent"
  BY DEF DeviceInv, DeviceTypeOK, Latest
<1>1. /\ UNCHANGED <<grants, deactivated, snapshots, inForce>> /\ Latest > 0
      /\ operation["provision"] = "absent"
      /\ operation' = [operation EXCEPT !["provision"] = "open"]
      /\ baseline' = IF PinnedBy = {} THEN Latest ELSE CHOOSE p \in PinnedBy : TRUE
  BY DEF StartProvision, productVars
<1>2. baseline' \in 1..Latest
  BY <1>0, <1>1, PinsOfCertificates
<1>3. /\ operation' \in [Ops -> OperationStatuses]
      /\ \A p \in Ops \ {"provision"} : operation'[p] = operation[p]
  BY <1>0, <1>1 DEF OperationStatuses
<1>4. Pins' = Pins /\ Latest' = Latest /\ 1..Latest \subseteq Pins
  BY <1>0, <1>1 DEF Pins, Latest
<1>5. \A p \in Jobs \cup Updates : operation'[p] = operation[p]
  <2>1. \A p \in Jobs \cup Updates : p \in Ops \ {"provision"}
    BY ProductAssumption DEF Ops
  <2> QED BY <1>3, <2>1
<1>6. \A n \in 1..Len(snapshots) : operation'[snapshots[n].op] = operation[snapshots[n].op]
  BY <1>5, SnapshotOps
<1>7. DeviceTypeOK'
  BY <1>0, <1>1, <1>2, <1>3, <1>4, <1>6, SnapshotOps DEF DeviceTypeOK
<1>8. DeviceGrows
  BY <1>0, <1>1, SnapshotOps DEF DeviceGrows
<1> QED BY <1>1, <1>2, <1>4, <1>5, <1>6, <1>7, <1>8 DEF DeviceInv

\* Video Cloud applies what is newer than what it has.
LEMMA AppliesStep ==
  ASSUME DeviceInv, grants \in Seq(Grants), NEW o \in Ops, VideoCloudApplies(o)
  PROVE  DeviceInv' /\ DeviceGrows
<1>0. /\ UNCHANGED <<grants, operation, baseline, deactivated, snapshots>>
      /\ o # "provision" /\ operation[o] = "open" /\ inForce < RevisionOf(o) /\ inForce' = RevisionOf(o)
  BY DEF VideoCloudApplies, productVars
<1>1. RevisionOf(o) \in 1..Len(snapshots)
  BY <1>0, RevisionExists DEF Ops
<1>2. inForce \in 0..Len(snapshots) /\ Len(snapshots) \in Nat
  BY SnapshotOps DEF DeviceInv, DeviceTypeOK
<1>3. Pins' = Pins /\ Latest' = Latest
  BY <1>0 DEF Pins, Latest
<1>4. DeviceTypeOK'
  BY <1>0, <1>1, <1>2, <1>3 DEF DeviceInv, DeviceTypeOK
<1>5. \A n \in 1..Len(snapshots) : n <= inForce => n <= inForce'
  BY <1>0, <1>1, <1>2
<1>6. DeviceGrows
  BY <1>0, <1>1, <1>2 DEF DeviceGrows
<1> QED BY <1>0, <1>3, <1>4, <1>5, <1>6 DEF DeviceInv

\* An operation ends; only the answer that names its revision lets it succeed.
LEMMA EndsStep ==
  ASSUME DeviceInv, NEW o \in Ops, NEW status \in {"succeeded", "failed", "retryable", "dead_lettered"},
         OperationEnds(o, status)
  PROVE  DeviceInv' /\ DeviceGrows
<1>1. /\ operation[o] = "open" /\ operation' = [operation EXCEPT ![o] = status]
      /\ status = "succeeded" /\ o # "provision" => inForce = RevisionOf(o)
      /\ UNCHANGED <<grants, baseline, deactivated, snapshots, inForce>>
  BY DEF OperationEnds, productVars
<1>2. status \in OperationStatuses \ {"absent"}
  BY DEF OperationStatuses
<1> QED BY <1>1, <1>2, StatusChanges

\* The steps of a device and of the items of a job.
LEMMA UserSnapshotStep ==
  ASSUME DeviceInv, grants \in Seq(Grants), createDeviceEntitlementSnapshot
  PROVE  DeviceInv' /\ DeviceGrows
<1>1. PICK o \in Updates, g \in 1..Latest, options \in SUBSET Codes, state \in Effective :
        StartDeviceEntitlementSnapshot(o, g, options, state)
  BY DEF createDeviceEntitlementSnapshot
<1> QED BY <1>1, SnapshotStep DEF StartDeviceEntitlementSnapshot, productVars

\* The dispatch of a job brings a snapshot of its target grant.
LEMMA DispatchStep ==
  ASSUME DeviceInv, JobInv, grants \in Seq(Grants), NEW j \in Jobs, DispatchItem(j)
  PROVE  DeviceInv' /\ DeviceGrows
<1>1. job[j].target \in 1..Latest /\ job[j].expected \in Statements
  BY DEF DispatchItem, ItemOpen, JobInv, JobTypeOK
<1>2. grants[job[j].target] \in Grants
  BY <1>1 DEF Latest
<1>3. grants[job[j].target].options \in SUBSET Codes /\ job[j].expected.state \in Effective
  BY <1>1, <1>2 DEF Grants, Statements
<1>4. /\ operation[j] = "absent" /\ UNCHANGED <<grants, baseline, deactivated, inForce>>
      /\ StartSnapshot(j, job[j].target, grants[job[j].target].options, job[j].expected.state)
  BY DEF DispatchItem, productVars
<1> QED BY <1>1, <1>3, <1>4, SnapshotStep

\* A requeued command has its snapshot already.
LEMMA RequeueStep ==
  ASSUME DeviceInv, grants \in Seq(Grants), NEW j \in Jobs, RequeueItem(j)
  PROVE  DeviceInv' /\ DeviceGrows
<1>0. j \in Ops /\ UNCHANGED <<grants, baseline, deactivated, snapshots, inForce>>
  BY DEF RequeueItem, productVars, Ops
<1>1. CASE operation[j] \in {"retryable", "dead_lettered"}
  <2>1. operation' = [operation EXCEPT ![j] = "open"] /\ "open" \in OperationStatuses \ {"absent"}
    BY <1>1 DEF RequeueItem, OperationStatuses
  <2> QED BY <1>0, <1>1, <2>1, StatusChanges
<1>2. CASE operation[j] \notin {"retryable", "dead_lettered"}
  <2>1. operation' = operation
    BY <1>2 DEF RequeueItem
  <2>2. deactivated' \subseteq Nat
    BY <1>0 DEF DeviceInv, DeviceTypeOK
  <2> QED BY <1>0, <2>1, <2>2, GrantsStay, DeviceStays
<1> QED BY <1>1, <1>2

-----------------------------------------------------------------------------
(* Apply jobs.                                                             *)

\* A job that is over stays over, and its snapshot stays.
LEMMA JobsStay ==
  ASSUME JobInv, GrantsGrow, DeviceGrows, job' = job, requeueing' \subseteq Jobs
  PROVE  JobInv'
<1>1. 1..Latest \subseteq 1..Latest'
  BY DEF GrantsGrow, Latest
<1>2. JobTypeOK'
  BY <1>1 DEF JobInv, JobTypeOK
<1>3. ASSUME NEW j \in Jobs, job[j].status = "completed"
      PROVE  \E n \in 1..Len(snapshots') :
               snapshots'[n].op = j /\ snapshots'[n].grant = job[j].target /\ inForce' >= n
  <2>1. PICK n \in 1..Len(snapshots) :
          snapshots[n].op = j /\ snapshots[n].grant = job[j].target /\ inForce >= n
    BY <1>3 DEF JobInv, CompletedIsApplied
  <2>2. n \in 1..Len(snapshots') /\ snapshots'[n] = snapshots[n] /\ inForce' >= n
    BY <2>1 DEF DeviceGrows
  <2> QED BY <2>1, <2>2
<1> QED BY <1>2, <1>3 DEF JobInv, CompletedIsApplied

\* At most one element.
LEMMA AtMostOne ==
  ASSUME NEW S, \A x, y \in S : x = y
  PROVE  Cardinality(S) <= 1
<1>1. CASE S = {}
  BY <1>1, FS_EmptySet
<1>2. CASE S # {}
  <2>1. PICK x : S = {x}
    BY <1>2
  <2> QED BY <2>1, FS_Singleton
<1> QED BY <1>1, <1>2

\* A job is admitted while none is active, for the latest grant and the device as
\* it is.
LEMMA AdmitStep ==
  ASSUME JobInv, DeviceInv, grants \in Seq(Grants), NEW j \in Jobs, AdmitProductServiceApply(j)
  PROVE  JobInv'
<1> DEFINE row == [status |-> "active", target |-> Latest, expected |-> Baseline, shown |-> preview]
<1>1. /\ UNCHANGED <<grants, operation, baseline, deactivated, snapshots, inForce, requeueing>>
      /\ job[j].status = "none" /\ \A k \in Jobs : job[k].status # "active"
      /\ HasBaseline /\ preview = [target |-> Latest, device |-> Baseline]
      /\ job' = [job EXCEPT ![j] = row]
  BY DEF AdmitProductServiceApply, productVars, deviceVars, Unblocked, Preview
<1>2. Baseline \in Statements /\ Latest \in 1..Latest /\ Latest \in Nat
  <2>1. Baseline \in Statements /\ Baseline.grant \in 1..Latest /\ Latest \in Nat
    BY <1>1, BaselineType DEF Latest
  <2> QED BY <2>1
<1>3. row \in JobRows
  BY <1>1, <1>2 DEF JobRows
<1>4. row.status = "active" /\ row.target = Latest /\ row.expected = Baseline
  OBVIOUS
<1> HIDE DEF row
<1>5. /\ job' \in [Jobs -> JobRows] /\ job'[j] = row /\ \A k \in Jobs \ {j} : job'[k] = job[k]
  BY <1>1, <1>3 DEF JobInv, JobTypeOK
<1>6. \A k, l \in Jobs : job'[k].status = "active" /\ job'[l].status = "active" => k = l
  BY <1>1, <1>5
<1>7. Latest' = Latest
  BY <1>1 DEF Latest
<1>8. Cardinality({k \in Jobs : job'[k].status = "active"}) <= 1
  BY <1>6, AtMostOne
<1>9. \A k \in Jobs : job'[k].status # "none" => job'[k].target \in 1..Latest /\ job'[k].expected \in Statements
  BY <1>2, <1>4, <1>5 DEF JobInv, JobTypeOK
<1>10. JobTypeOK'
  BY <1>1, <1>5, <1>7, <1>8, <1>9 DEF JobInv, JobTypeOK
<1>11. CompletedIsApplied'
  BY <1>1, <1>4, <1>5 DEF JobInv, CompletedIsApplied
<1> QED BY <1>6, <1>10, <1>11 DEF JobInv

\* A job is completed when its device has the target.
LEMMA FinishStep ==
  ASSUME JobInv, DeviceInv, grants \in Seq(Grants), NEW j \in Jobs,
         NEW status \in {"completed", "canceled"}, FinishProductServiceApply(j, status)
  PROVE  JobInv'
<1>1. /\ UNCHANGED <<grants, operation, baseline, deactivated, snapshots, inForce, requeueing>>
      /\ job[j].status = "active" /\ (status = "completed" => Applied(j))
      /\ job' = [job EXCEPT ![j].status = status]
  BY DEF FinishProductServiceApply, ItemOpen, productVars, deviceVars
<1>2. /\ job' \in [Jobs -> JobRows] /\ job'[j].status = status
      /\ \A k \in Jobs : job'[k].target = job[k].target /\ job'[k].expected = job[k].expected
      /\ \A k \in Jobs \ {j} : job'[k].status = job[k].status
  <2>1. job \in [Jobs -> JobRows]
    BY DEF JobInv, JobTypeOK
  <2> QED BY <1>1, <2>1 DEF JobRows
<1>3. \A k, l \in Jobs : job'[k].status = "active" /\ job'[l].status = "active" => k = l
  BY <1>2 DEF JobInv
<1>4. Cardinality({k \in Jobs : job'[k].status = "active"}) <= 1
  BY <1>3, AtMostOne
<1>5. Latest' = Latest
  BY <1>1 DEF Latest
<1>6. JobTypeOK'
  <2>1. \A k \in Jobs : job'[k].status # "none" => job'[k].target \in 1..Latest /\ job'[k].expected \in Statements
    BY <1>1, <1>2 DEF JobInv, JobTypeOK
  <2> QED BY <1>1, <1>2, <1>4, <1>5, <2>1 DEF JobInv, JobTypeOK
<1>7. ASSUME status = "completed"
      PROVE  \E n \in 1..Len(snapshots) : snapshots[n].op = j /\ snapshots[n].grant = job[j].target /\ inForce >= n
  <2>1. operation[j] = "succeeded" /\ snapshots[RevisionOf(j)].grant = job[j].target
    BY <1>1, <1>7 DEF Applied
  <2>2. RevisionOf(j) \in 1..Len(snapshots) /\ snapshots[RevisionOf(j)].op = j
    BY <2>1, RevisionExists
  <2>3. RevisionOf(j) <= inForce /\ inForce \in Nat
    BY <2>1, <2>2 DEF DeviceInv, DeviceTypeOK
  <2>4. inForce >= RevisionOf(j)
    BY <2>2, <2>3
  <2> QED BY <2>1, <2>2, <2>4
<1>8. CompletedIsApplied'
  BY <1>1, <1>2, <1>7 DEF JobInv, CompletedIsApplied
<1> QED BY <1>3, <1>6, <1>8 DEF JobInv

-----------------------------------------------------------------------------
(* All parts together.                                                     *)

\* At first nothing is granted, issued or applied.
LEMMA ServicesInitially == ServicesInit => ServicesInv
<1> SUFFICES ASSUME ServicesInit PROVE ServicesInv
  OBVIOUS
<1>1. PICK start \in Starts :
        CatalogInit(start.known) /\ profile = [options |-> start.legacy, disabled |-> FALSE]
  BY DEF ServicesInit
<1>2. CatalogInv /\ revision = 1
  BY <1>1, CatalogInitially DEF CatalogInit
<1>3. start.legacy \subseteq Codes
  BY CatalogAssumption
<1>4. Latest = 0 /\ grants \in Seq(Grants) /\ Pins = 0..0
  BY DEF ServicesInit, Latest, Pins
<1>5. ProductTypeOK /\ ProductMatchesGrant /\ ListingHolds
  <2>1. listed = [revision |-> 0, options |-> {}]
    BY DEF ServicesInit
  <2>2. ProductTypeOK
    BY <1>1, <1>3, <1>4, <2>1 DEF ProductTypeOK
  <2>3. ProductMatchesGrant
    BY <1>4 DEF ProductMatchesGrant, OTAEnabled
  <2> QED BY <1>2, <2>1, <2>2, <2>3 DEF ListingHolds
<1>6. FactoryInv
  <2>1. /\ run = [r \in Runs |-> [status |-> "none", pin |-> 0, options |-> {}, version |-> 0, issued |-> 0]]
        /\ reservation = [q \in Enrollments |-> [run |-> NoRun, status |-> "none", admitted |-> FALSE]]
        /\ heard = {} /\ certificate = [q \in Enrollments |-> "none"]
        /\ cloud = [version |-> 1, admits |-> TRUE]
    BY DEF ServicesInit
  <2>2. run \in [Runs -> RunRows] /\ reservation \in [Enrollments -> ReservationRows]
        /\ cloud \in [version : Nat, admits : BOOLEAN]
    BY <2>1 DEF RunRows, ReservationRows
  <2>3. \A r \in Runs : IssuedOf(r) = {} /\ Places(r) = {}
    BY <2>1 DEF IssuedOf, Places, Of
  <2>4. FactoryTypeOK
    <3>1. \A r \in Runs : run[r].pin = 0 /\ run[r].issued = 0
      BY <2>1
    <3>2. \A r \in Runs : Cardinality(IssuedOf(r)) = 0
      BY <2>3, FS_EmptySet
    <3>3. \A r \in Runs : run[r].pin \in Pins /\ run[r].issued = Cardinality(IssuedOf(r))
      BY <1>4, <3>1, <3>2
    <3>4. \A q \in Enrollments : reservation[q].run = NoRun /\ reservation[q].status = "none"
      BY <2>1
    <3> QED BY <2>1, <2>2, <3>3, <3>4 DEF FactoryTypeOK, IssuedOf
  <2>5. \A r \in Runs : Cardinality(Places(r)) <= Quantity
    BY <2>3, FS_EmptySet, ProductAssumption
  <2> QED BY <2>1, <2>4, <2>5 DEF FactoryInv, RequestIsSound
<1>7. DeviceInv
  <2>1. /\ operation = [o \in Ops |-> "absent"] /\ baseline = 0 /\ deactivated = {}
        /\ snapshots = <<>> /\ inForce = 0
    BY DEF ServicesInit
  <2>2. Len(snapshots) = 0 /\ snapshots \in Seq(SnapshotRows)
    BY <2>1
  <2>3. DeviceTypeOK
    <3>1. operation \in [Ops -> OperationStatuses]
      BY <2>1 DEF OperationStatuses
    <3>2. baseline \in Pins /\ inForce \in 0..Len(snapshots) /\ 1..Len(snapshots) = {}
      BY <1>4, <2>1, <2>2
    <3> QED BY <2>1, <2>2, <3>1, <3>2 DEF DeviceTypeOK
  <2>4. \A o \in Ops : operation[o] = "absent"
    BY <2>1
  <2> QED BY <2>2, <2>3, <2>4 DEF DeviceInv, Ops
<1>8. JobInv
  <2>1. job = [j \in Jobs |-> NoJob] /\ requeueing = {} /\ NoJob \in JobRows /\ NoJob.status = "none"
    BY DEF ServicesInit, NoJob, JobRows
  <2>2. \A j \in Jobs : job[j].status = "none"
    BY <2>1
  <2>3. Cardinality({j \in Jobs : job[j].status = "active"}) <= 1
    BY <2>2, AtMostOne
  <2> QED BY <2>1, <2>2, <2>3 DEF JobInv, JobTypeOK, CompletedIsApplied
<1> QED BY <1>2, <1>5, <1>6, <1>7, <1>8 DEF ServicesInv, ProductInv

\* What the product does not do leaves it as it is.
LEMMA ProductStays ==
  ASSUME CatalogInv, ProductInv, UNCHANGED <<catalogVars, profile, grants, listed>>
  PROVE  CatalogInv' /\ ProductInv' /\ GrantsGrow
<1>1. CatalogInv' /\ Selectable' = Selectable /\ revision' = revision
  BY CatalogStays DEF catalogVars
<1>2. ProductTypeOK' /\ ListingHolds' /\ ProductMatchesGrant'
  BY <1>1 DEF ProductInv, ProductTypeOK, ListingHolds, ProductMatchesGrant, OTAEnabled, Latest
<1>3. grants \in Seq(Grants)
  BY DEF ProductInv, ProductTypeOK
<1> QED BY <1>1, <1>2, <1>3, GrantsStay DEF ProductInv

\* Every step of the services keeps their invariant.
LEMMA ServicesStep == ServicesInv /\ [ServicesNext]_servicesVars => ServicesInv'
<1> SUFFICES ASSUME ServicesInv, [ServicesNext]_servicesVars PROVE ServicesInv'
  OBVIOUS
<1> USE DEF ServicesInv
<1>0. /\ grants \in Seq(Grants) /\ listed.revision \in Nat /\ deactivated \subseteq Nat
      /\ cloud \in [version : Nat, admits : BOOLEAN] /\ requeueing \subseteq Jobs
  BY DEF ProductInv, ProductTypeOK, DeviceInv, DeviceTypeOK, FactoryInv, FactoryTypeOK, JobInv, JobTypeOK
<1>1. CASE CatalogNext /\ UNCHANGED Others
  <2>1. UNCHANGED <<profile, grants, listed, cloud, factoryVars, deviceVars, jobVars>>
    BY <1>1 DEF Others, productVars
  <2>2. CatalogInv' /\ GrantsGrow
    BY <1>0, <1>1, <2>1, CatalogStep, GrantsStay
  <2>3. ProductInv'
    <3>1. ListingHolds'
      BY <1>0, <1>1, <2>1, ListingStep DEF ProductInv
    <3>2. ProductTypeOK' /\ ProductMatchesGrant'
      BY <2>1 DEF ProductInv, ProductTypeOK, ProductMatchesGrant, OTAEnabled, Latest
    <3> QED BY <3>1, <3>2 DEF ProductInv
  <2>4. FactoryInv'
    BY <1>0, <2>1, <2>2, FactoryStays
  <2>5. DeviceInv' /\ DeviceGrows
    BY <1>0, <2>1, <2>2, DeviceStays DEF deviceVars
  <2> QED BY <1>0, <2>1, <2>2, <2>3, <2>4, <2>5, JobsStay DEF jobVars
<1>2. CASE \/ ListPlatformServiceOptions \/ createDeviceItemProfile \/ updateDeviceItemProfile
           \/ disableDeviceItemProfile \/ ReportLegacyGrants \/ BackfillLegacyProductServiceGrants
  <2>1. ProductInv' /\ GrantsGrow /\ UNCHANGED catalogVars
    BY <1>2, ProductSteps
  <2>2. UNCHANGED <<cloud, factoryVars, deviceVars, jobVars>>
    BY <1>2 DEF ListPlatformServiceOptions, createDeviceItemProfile, CreateDeviceItemProfileAsUser,
       updateDeviceItemProfile, UpdateDeviceItemProfileAsUser, DisableDeviceItemProfileAsUser,
       disableDeviceItemProfile, ReportLegacyGrants, BackfillLegacyProductServiceGrants
  <2>3. CatalogInv'
    BY <2>1, CatalogStays
  <2>4. FactoryInv'
    BY <1>0, <2>1, <2>2, FactoryStays
  <2>5. DeviceInv' /\ DeviceGrows
    BY <1>0, <2>1, <2>2, DeviceStays DEF deviceVars
  <2> QED BY <1>0, <2>1, <2>2, <2>3, <2>4, <2>5, JobsStay DEF jobVars
<1>3. ASSUME UNCHANGED <<catalogVars, profile, grants, listed>>,
             FactoryInv' \/ (UNCHANGED factoryVars /\ cloud' \in [version : Nat, admits : BOOLEAN]),
             UNCHANGED <<deviceVars, job>>, requeueing' \subseteq Jobs
      PROVE  ServicesInv'
  <2>1. CatalogInv' /\ ProductInv' /\ GrantsGrow
    BY <1>3, ProductStays
  <2>2. FactoryInv'
    BY <1>3, <2>1, FactoryStays
  <2>3. DeviceInv' /\ DeviceGrows
    BY <1>0, <1>3, <2>1, DeviceStays DEF deviceVars
  <2> QED BY <1>3, <2>1, <2>2, <2>3, JobsStay
<1>4. CASE CloudChanges \/ PreviewProductServiceApply \/ UNCHANGED servicesVars
  <2>1. /\ UNCHANGED <<catalogVars, profile, grants, listed, factoryVars, deviceVars, job, requeueing>>
        /\ \/ cloud' = cloud \/ cloud' = [cloud EXCEPT !.version = @ + 1]
           \/ cloud' = [cloud EXCEPT !.admits = ~@]
    BY <1>4 DEF CloudChanges, PreviewProductServiceApply, servicesVars, productVars, jobVars
  <2>2. cloud' \in [version : Nat, admits : BOOLEAN]
    <3>1. CASE cloud' = cloud
      BY <1>0, <3>1
    <3>2. CASE cloud' = [cloud EXCEPT !.version = @ + 1]
      <4>1. cloud.version + 1 \in Nat
        BY <1>0
      <4> QED BY <1>0, <3>2, <4>1
    <3>3. CASE cloud' = [cloud EXCEPT !.admits = ~@]
      <4>1. (~cloud.admits) \in BOOLEAN
        OBVIOUS
      <4> QED BY <1>0, <3>3, <4>1
    <3> QED BY <2>1, <3>1, <3>2, <3>3
  <2> QED BY <1>0, <1>3, <2>1, <2>2
<1>5. CASE createProductionRun \/ stopOrganizationProductionRun
  <2>1. UNCHANGED <<catalogVars, profile, grants, listed, deviceVars, job, requeueing>>
    BY <1>5 DEF createProductionRun, IssueProductionRunAsUser, stopOrganizationProductionRun,
       StopProductionRunAsUser, productVars, jobVars
  <2> QED BY <1>0, <1>3, <1>5, <2>1, RunSteps
<1>6. ASSUME NEW q \in Enrollments,
             \/ reserveFactoryEnrollment(q) \/ cancelFactoryEnrollment(q)
             \/ IssueCertificate(q) \/ FenceRequest(q) \/ completeFactoryEnrollment(q)
      PROVE  ServicesInv'
  <2>1. UNCHANGED <<catalogVars, profile, grants, listed, deviceVars, job, requeueing>>
    BY <1>6 DEF reserveFactoryEnrollment, ReserveFactoryEnrollment, cancelFactoryEnrollment,
       BeginFactoryEnrollmentCancellation, IssueCertificate, FenceRequest,
       completeFactoryEnrollment, CompleteFactoryEnrollment, productVars, jobVars
  <2>2. FactoryInv'
    BY <1>6, ReserveStep, CancelStep, IssuerSteps, CompleteStep
       DEF reserveFactoryEnrollment, cancelFactoryEnrollment, completeFactoryEnrollment
  <2> QED BY <1>0, <1>3, <2>1, <2>2
<1>7. ASSUME UNCHANGED <<catalogVars, profile, grants, listed, cloud, factoryVars, job>>,
             requeueing' \subseteq Jobs, DeviceInv', DeviceGrows
      PROVE  ServicesInv'
  <2>1. CatalogInv' /\ ProductInv' /\ GrantsGrow
    BY <1>7, ProductStays
  <2>2. FactoryInv'
    BY <1>0, <1>7, <2>1, FactoryStays
  <2> QED BY <1>7, <2>1, <2>2, JobsStay
<1>8. CASE StartProvision \/ Deactivate \/ createDeviceEntitlementSnapshot
  <2>1. UNCHANGED <<catalogVars, profile, grants, listed, cloud, factoryVars, job, requeueing>>
    BY <1>8 DEF StartProvision, Deactivate, createDeviceEntitlementSnapshot,
       StartDeviceEntitlementSnapshot, productVars, jobVars
  <2>2. ASSUME Deactivate PROVE DeviceInv' /\ DeviceGrows
    <3>1. UNCHANGED <<operation, baseline, snapshots, inForce>> /\ deactivated' \subseteq Nat
      BY <2>2 DEF Deactivate
    <3> QED BY <1>0, <2>1, <3>1, GrantsStay, DeviceStays
  <2>3. DeviceInv' /\ DeviceGrows
    BY <1>0, <1>8, <2>2, ProvisionStep, UserSnapshotStep
  <2> QED BY <1>0, <1>7, <2>1, <2>3
<1>9. ASSUME NEW o \in Ops,
             \/ VideoCloudApplies(o)
             \/ \E status \in {"succeeded", "failed", "retryable", "dead_lettered"} :
                  OperationEnds(o, status)
      PROVE  ServicesInv'
  <2>1. UNCHANGED <<catalogVars, profile, grants, listed, cloud, factoryVars, job, requeueing>>
    BY <1>9 DEF VideoCloudApplies, OperationEnds, productVars, jobVars
  <2>2. DeviceInv' /\ DeviceGrows
    BY <1>0, <1>9, AppliesStep, EndsStep
  <2> QED BY <1>0, <1>7, <2>1, <2>2
<1>10. ASSUME NEW j \in Jobs, dispatchProductServiceApplyItem(j) PROVE ServicesInv'
  <2>1. CASE DispatchItem(j) \/ RequeueItem(j)
    <3>1. UNCHANGED <<catalogVars, profile, grants, listed, cloud, factoryVars, job>>
          /\ requeueing' \subseteq Jobs
      BY <1>0, <2>1 DEF DispatchItem, RequeueItem, productVars, jobVars
    <3>2. DeviceInv' /\ DeviceGrows
      BY <1>0, <2>1, DispatchStep, RequeueStep
    <3> QED BY <1>7, <3>1, <3>2
  <2>2. CASE RetryItem(j)
    <3>1. UNCHANGED <<catalogVars, profile, grants, listed, cloud, factoryVars, deviceVars, job>>
          /\ requeueing' \subseteq Jobs
      BY <1>0, <2>2 DEF RetryItem, productVars
    <3> QED BY <1>0, <1>3, <3>1
  <2> QED BY <1>10, <2>1, <2>2 DEF dispatchProductServiceApplyItem
<1>11. ASSUME NEW j \in Jobs, AdmitProductServiceApply(j) \/ finishProductServiceApply(j)
       PROVE  ServicesInv'
  <2>1. UNCHANGED <<catalogVars, profile, grants, listed, cloud, factoryVars, deviceVars>>
    BY <1>11 DEF AdmitProductServiceApply, finishProductServiceApply, FinishProductServiceApply, productVars
  <2>2. JobInv'
    BY <1>0, <1>11, AdmitStep, FinishStep DEF finishProductServiceApply
  <2>3. CatalogInv' /\ ProductInv' /\ GrantsGrow
    BY <2>1, ProductStays
  <2>4. FactoryInv'
    BY <1>0, <2>1, <2>3, FactoryStays
  <2>5. DeviceInv'
    BY <1>0, <2>1, <2>3, DeviceStays DEF deviceVars
  <2> QED BY <2>2, <2>3, <2>4, <2>5
<1> QED BY <1>1, <1>2, <1>4, <1>5, <1>6, <1>8, <1>9, <1>10, <1>11 DEF ServicesNext

\* The invariant of the services.
LEMMA ServicesHold == ServicesSpec => []ServicesInv
BY ServicesInitially, ServicesStep, PTL DEF ServicesSpec

-----------------------------------------------------------------------------
(* What the services promise.                                              *)

\* The catalogue, the product and its grants stay in step, for any catalogue,
\* product and interleaving of registrations, publications, lapses and revocations
\* with the steps of the product (validateManifestDependencies,
\* updateDeviceItemProfileTx): the catalogue is sound, the product has the options
\* of its latest grant, and one job is active at most.
THEOREM CatalogAndGrantsHold == ServicesSpec => []CatalogAndGrantsAgree
<1>1. ServicesInv => CatalogAndGrantsAgree
  BY DEF ServicesInv, CatalogInv, ProductInv, FactoryInv, DeviceInv, JobInv, ServicesTypeOK,
     CatalogAndGrantsAgree
<1> QED BY <1>1, ServicesHold, PTL

\* The factory never gets more out of a production run than was admitted, for any
\* quantity and any number of requests, although the issuer's answers are lost,
\* repeated and overtaken by cancellations (ReserveFactoryEnrollment and the fence
\* of the issuer).
THEOREM FactoryHolds == ServicesSpec => []FactoryWithinRun
<1>1. ServicesInv => FactoryWithinRun
  <2> SUFFICES ASSUME FactoryInv PROVE FactoryWithinRun
    BY DEF ServicesInv
  <2>1. \A q \in Enrollments : RequestIsSound(q) /\ reservation[q] \in ReservationRows
    BY DEF FactoryInv, FactoryTypeOK
  <2>2. CertificateIsAdmitted
    BY <2>1 DEF CertificateIsAdmitted, RequestIsSound
  <2>3. ASSUME NEW r \in Runs
        PROVE  Cardinality({q \in Enrollments : certificate[q] = "issued"
                                              /\ reservation[q].run = r}) <= Quantity
    <3> DEFINE holders == {q \in Enrollments : certificate[q] = "issued" /\ reservation[q].run = r}
    <3>1. \A q \in Enrollments : certificate[q] = "issued" =>
            reservation[q].admitted /\ reservation[q].status \in {"reserved", "cancel_requested", "issued"}
      BY <2>1 DEF RequestIsSound, ReservationRows
    <3>2. holders \subseteq Places(r)
      BY <3>1 DEF Places, Of, Admitted
    <3>3. Places(r) \in SUBSET Enrollments
      BY DEF Places, Of
    <3>4. IsFiniteSet(Places(r)) /\ Cardinality(Places(r)) \in Nat
      BY <3>3, FiniteRequests
    <3>5. Cardinality(holders) <= Cardinality(Places(r)) /\ Cardinality(holders) \in Nat
      BY <3>2, <3>4, FS_Subset, FS_CardinalityType
    <3>6. Cardinality(Places(r)) <= Quantity
      BY DEF FactoryInv
    <3> QED BY <3>4, <3>5, <3>6, ProductAssumption
  <2> QED BY <2>2, <2>3 DEF FactoryWithinRun, QuotaHolds
<1> QED BY <1>1, ServicesHold, PTL

\* A completed job has its device at its target, for any number of jobs and of
\* updates by users: Video Cloud applied the job's snapshot, or a later one
\* (finishProductServiceApply counts only what succeeded for the target grant).
THEOREM CompletedJobsAreApplied == ServicesSpec => []CompletedIsApplied
BY ServicesHold, PTL DEF ServicesInv, JobInv

\* A binding that enters a grant is one the user saw selectable, or was in the
\* former grant: the observed catalogue revision is enough to tell, because whatever
\* becomes selectable moves it (validateProductServiceSelectionTx,
\* validateProductServiceUpdateTx).
THEOREM GrantsAreWhatWasSeen == ServicesSpec => GrantIsWhatWasSeen
<1>1. ASSUME ServicesInv, [ServicesNext]_servicesVars, NEW g \in DOMAIN grants' \ DOMAIN grants,
             NEW o \in grants'[g].bindings
      PROVE  o \in listed.options \/ (Latest > 0 /\ o \in grants[Latest].bindings)
  <2>1. /\ grants \in Seq(Grants) /\ CatalogTypeOK /\ ProductInv /\ grants' # grants
        /\ listed.revision = revision => Selectable \subseteq listed.options
    BY <1>1 DEF ServicesInv, CatalogInv, ProductInv, ProductTypeOK, ListingHolds
  <2>2. \/ createDeviceItemProfile \/ BackfillLegacyProductServiceGrants
        \/ \E options \in SUBSET Codes : UpdateDeviceItemProfileAsUser(options)
    <3>1. CASE CatalogNext /\ UNCHANGED Others
      BY <2>1, <3>1 DEF Others, productVars
    <3>2. CASE \/ ListPlatformServiceOptions \/ disableDeviceItemProfile \/ ReportLegacyGrants
               \/ DisableDeviceItemProfileAsUser(FALSE)
      BY <2>1, <3>2 DEF ListPlatformServiceOptions, disableDeviceItemProfile,
         DisableDeviceItemProfileAsUser, ReportLegacyGrants
    <3>3. CASE \/ CloudChanges \/ PreviewProductServiceApply \/ UNCHANGED servicesVars
               \/ createProductionRun \/ stopOrganizationProductionRun
               \/ StartProvision \/ Deactivate \/ createDeviceEntitlementSnapshot
      BY <2>1, <3>3 DEF CloudChanges, PreviewProductServiceApply, servicesVars, productVars,
         createProductionRun, IssueProductionRunAsUser, stopOrganizationProductionRun,
         StopProductionRunAsUser, StartProvision, Deactivate, createDeviceEntitlementSnapshot,
         StartDeviceEntitlementSnapshot
    <3>4. ASSUME NEW q \in Enrollments,
                 \/ reserveFactoryEnrollment(q) \/ cancelFactoryEnrollment(q)
                 \/ IssueCertificate(q) \/ FenceRequest(q) \/ completeFactoryEnrollment(q)
          PROVE  FALSE
      BY <2>1, <3>4 DEF reserveFactoryEnrollment, ReserveFactoryEnrollment, cancelFactoryEnrollment,
         BeginFactoryEnrollmentCancellation, IssueCertificate, FenceRequest,
         completeFactoryEnrollment, CompleteFactoryEnrollment, productVars
    <3>5. ASSUME NEW p \in Ops,
                 \/ VideoCloudApplies(p)
                 \/ \E status \in {"succeeded", "failed", "retryable", "dead_lettered"} :
                      OperationEnds(p, status)
          PROVE  FALSE
      BY <2>1, <3>5 DEF VideoCloudApplies, OperationEnds, productVars
    <3>6. ASSUME NEW j \in Jobs,
                 \/ AdmitProductServiceApply(j) \/ dispatchProductServiceApplyItem(j)
                 \/ finishProductServiceApply(j)
          PROVE  FALSE
      BY <2>1, <3>6 DEF AdmitProductServiceApply, dispatchProductServiceApplyItem, DispatchItem,
         RetryItem, RequeueItem, finishProductServiceApply, FinishProductServiceApply, productVars
    <3> QED BY <1>1, <3>1, <3>2, <3>3, <3>4, <3>5, <3>6 DEF ServicesNext, updateDeviceItemProfile
  <2>3. ASSUME NEW options, NEW bindings, InsertProductServiceGrant(options, bindings)
        PROVE  o \in bindings
    <3>1. g = Len(grants) + 1
      BY <1>1, <2>1, <2>3 DEF InsertProductServiceGrant
    <3>2. grants'[g] = [options |-> options, bindings |-> bindings]
      BY <2>1, <2>3, <3>1 DEF InsertProductServiceGrant
    <3> QED BY <1>1, <3>2
  <2>4. CASE createDeviceItemProfile
    <3>1. PICK options \in SUBSET Codes : \E bindings \in Selection(options) :
            InsertProductServiceGrant(options, bindings)
      BY <2>4 DEF createDeviceItemProfile, CreateDeviceItemProfileAsUser
    <3> QED BY <2>1, <2>3, <3>1, SelectionBound
  <2>5. CASE \E options \in SUBSET Codes : UpdateDeviceItemProfileAsUser(options)
    <3>1. PICK options \in SUBSET Codes : Latest > 0 /\
            \E bindings \in ValidateProductServiceUpdate(options) :
              InsertProductServiceGrant(options, bindings)
      BY <2>5 DEF UpdateDeviceItemProfileAsUser
    <3> QED BY <2>1, <2>3, <3>1, UpdateBound
  <2>6. CASE BackfillLegacyProductServiceGrants
    BY <2>3, <2>6 DEF BackfillLegacyProductServiceGrants
  <2> QED BY <2>2, <2>4, <2>5, <2>6
<1>2. ServicesInv /\ [ServicesNext]_servicesVars =>
        [\A g \in DOMAIN grants' \ DOMAIN grants :
           \A o \in grants'[g].bindings :
             o \in listed.options \/ (Latest > 0 /\ o \in grants[Latest].bindings)]_servicesVars
  BY <1>1
<1> QED BY <1>2, ServicesHold, PTL DEF ServicesSpec, GrantIsWhatWasSeen

\* What is known of a job: its preview is what was admitted, the entitlement it
\* starts from is applied, and it has a snapshot only after its admission.
JobsAreAsPreviewed ==
  /\ \A j \in Jobs : job[j].status # "none" =>
       /\ job[j].shown = [target |-> job[j].target, device |-> job[j].expected]
       /\ job[j].expected.revision <= inForce
  /\ \A n \in 1..Len(snapshots) : snapshots[n].op \in Jobs => job[snapshots[n].op].status # "none"

PreviewInv == JobsAreAsPreviewed /\ BatchIsAsPreviewed

\* No snapshot and no job comes: what was previewed stays, also when Video Cloud
\* applies more, or the device is deactivated after its last snapshot.
LEMMA PreviewStays ==
  ASSUME DeviceInv, JobInv, PreviewInv, snapshots' = snapshots,
         inForce' \in Nat, inForce <= inForce',
         \A k \in Jobs : /\ job'[k].shown = job[k].shown /\ job'[k].target = job[k].target
                         /\ job'[k].expected = job[k].expected
                         /\ job'[k].status # "none" <=> job[k].status # "none",
         deactivated' \in {deactivated, {Len(snapshots)}},
         operation["provision"] = "succeeded" =>
           operation'["provision"] = "succeeded" /\ baseline' = baseline
  PROVE  PreviewInv'
<1>0. Len(snapshots) \in Nat /\ inForce \in Nat
  BY SnapshotOps DEF DeviceInv, DeviceTypeOK
<1>1. JobsAreAsPreviewed'
  <2>1. ASSUME NEW j \in Jobs, job[j].status # "none"
        PROVE  job[j].expected.revision <= inForce'
    <3>1. job[j].expected.revision \in Nat /\ job[j].expected.revision <= inForce
      BY <2>1 DEF PreviewInv, JobsAreAsPreviewed, JobInv, JobTypeOK, Statements
    <3> QED BY <1>0, <3>1
  <2>2. ASSUME NEW j \in Jobs, job'[j].status # "none"
        PROVE  /\ job'[j].shown = [target |-> job'[j].target, device |-> job'[j].expected]
               /\ job'[j].expected.revision <= inForce'
    BY <2>1, <2>2 DEF PreviewInv, JobsAreAsPreviewed
  <2>3. \A n \in 1..Len(snapshots) : snapshots[n].op \in Jobs => job'[snapshots[n].op].status # "none"
    BY DEF PreviewInv, JobsAreAsPreviewed
  <2> QED BY <2>2, <2>3 DEF JobsAreAsPreviewed
<1>2. ASSUME NEW n \in 1..Len(snapshots), snapshots[n].op \in Jobs
      PROVE  LET shown == job'[snapshots[n].op].shown
                 had == shown.device
             IN /\ shown.target = snapshots[n].grant /\ had.state = snapshots[n].state
                /\ had.revision = n - 1 /\ n - 1 <= inForce'
                /\ IF n = 1 THEN operation'["provision"] = "succeeded" /\ had.grant = baseline'
                   ELSE had.grant = snapshots[n - 1].grant /\ had.options = snapshots[n - 1].options
                /\ snapshots[n].state = "active" => \A m \in deactivated' : m >= n
  <2> DEFINE shown == job[snapshots[n].op].shown
             had == shown.device
  <2>1. /\ shown.target = snapshots[n].grant /\ had.state = snapshots[n].state
        /\ had.revision = n - 1 /\ n - 1 <= inForce
        /\ IF n = 1 THEN operation["provision"] = "succeeded" /\ had.grant = baseline
           ELSE had.grant = snapshots[n - 1].grant /\ had.options = snapshots[n - 1].options
        /\ snapshots[n].state = "active" => \A m \in deactivated : m >= n
    BY <1>2 DEF PreviewInv, BatchIsAsPreviewed
  <2>2. job'[snapshots[n].op].shown = shown
    BY <1>2
  <2>3. n - 1 <= inForce'
    BY <1>0, <2>1
  <2>4. snapshots[n].state = "active" => \A m \in deactivated' : m >= n
    BY <1>0, <2>1
  <2> HIDE DEF shown
  <2> QED BY <2>1, <2>2, <2>3, <2>4
<1>3. BatchIsAsPreviewed'
  BY <1>2 DEF BatchIsAsPreviewed
<1> QED BY <1>1, <1>3 DEF PreviewInv

\* The admission records the preview the user held, over an applied entitlement.
LEMMA PreviewAdmitted ==
  ASSUME DeviceInv, JobInv, PreviewInv, grants \in Seq(Grants), NEW j \in Jobs,
         AdmitProductServiceApply(j)
  PROVE  PreviewInv'
<1> DEFINE row == [status |-> "active", target |-> Latest, expected |-> Baseline, shown |-> preview]
<1>1. /\ UNCHANGED <<operation, baseline, deactivated, snapshots, inForce>>
      /\ job[j].status = "none" /\ HasBaseline /\ preview = [target |-> Latest, device |-> Baseline]
      /\ snapshots # <<>> => operation[snapshots[Len(snapshots)].op] = "succeeded"
      /\ job' = [job EXCEPT ![j] = row]
  BY DEF AdmitProductServiceApply, deviceVars, Unblocked, Preview
<1>2. Len(snapshots) \in Nat /\ inForce \in Nat /\ snapshots \in Seq(SnapshotRows)
  BY SnapshotOps DEF DeviceInv, DeviceTypeOK
<1>3. Baseline.revision = Len(snapshots)
  BY <1>2 DEF Baseline
<1>4. Len(snapshots) <= inForce
  <2>1. CASE Len(snapshots) = 0
    BY <1>2, <2>1
  <2>2. CASE Len(snapshots) # 0
    <3>1. Len(snapshots) \in 1..Len(snapshots) /\ snapshots # <<>>
      BY <1>2, <2>2
    <3> QED BY <1>1, <3>1 DEF DeviceInv
  <2> QED BY <2>1, <2>2
<1>5. /\ row.shown = [target |-> row.target, device |-> row.expected]
      /\ row.expected.revision <= inForce
  BY <1>1, <1>3, <1>4
<1> HIDE DEF row
<1>6. job'[j] = row /\ \A k \in Jobs \ {j} : job'[k] = job[k]
  BY <1>1 DEF JobInv, JobTypeOK
<1>7. \A n \in 1..Len(snapshots) : snapshots[n].op \in Jobs => snapshots[n].op \in Jobs \ {j}
  BY <1>1 DEF PreviewInv, JobsAreAsPreviewed
<1>8. JobsAreAsPreviewed'
  BY <1>1, <1>5, <1>6, <1>7 DEF PreviewInv, JobsAreAsPreviewed
<1>9. BatchIsAsPreviewed'
  BY <1>1, <1>6, <1>7 DEF PreviewInv, BatchIsAsPreviewed
<1> QED BY <1>8, <1>9 DEF PreviewInv

\* A new snapshot leaves the former ones alone; the one of a job is as previewed,
\* because nothing else was under way and the entitlement is the one expected.
LEMMA PreviewFollowed ==
  ASSUME DeviceInv, JobInv, PreviewInv, NEW o \in Jobs \cup Updates, operation[o] = "absent",
         NEW g, NEW options, NEW state, StartSnapshot(o, g, options, state),
         UNCHANGED <<job, baseline, deactivated, inForce>>,
         o \in Jobs => /\ job[o].status # "none" /\ g = job[o].target /\ state = Baseline.state
                       /\ Baseline = job[o].expected /\ HasBaseline
  PROVE  PreviewInv'
<1> DEFINE new == [grant |-> g, options |-> options, state |-> state, op |-> o]
           len == Len(snapshots)
<1>0. /\ len \in Nat /\ inForce \in Nat /\ snapshots \in Seq(SnapshotRows)
      /\ operation \in [Ops -> OperationStatuses] /\ o \in Ops /\ o # "provision"
  BY SnapshotOps, ProductAssumption DEF DeviceInv, DeviceTypeOK, Ops
<1>1. operation' = [operation EXCEPT ![o] = "open"] /\ snapshots' = Append(snapshots, new)
  BY DEF StartSnapshot
<1>2. /\ Len(snapshots') = len + 1 /\ snapshots'[len + 1] = new
      /\ \A n \in 1..len : snapshots'[n] = snapshots[n]
  BY <1>0, <1>1
<1>3. operation'["provision"] = operation["provision"]
  BY <1>0, <1>1 DEF Ops
<1>4. new.grant = g /\ new.state = state /\ new.op = o
  OBVIOUS
<1> HIDE DEF new
<1>5. \A n \in 1..Len(snapshots') : n \in 1..len \/ n = len + 1
  BY <1>0, <1>2
<1>6. JobsAreAsPreviewed'
  BY <1>2, <1>4, <1>5 DEF PreviewInv, JobsAreAsPreviewed
<1>7. ASSUME NEW n \in 1..len, snapshots[n].op \in Jobs
      PROVE  LET shown == job[snapshots[n].op].shown
                 had == shown.device
             IN /\ shown.target = snapshots'[n].grant /\ had.state = snapshots'[n].state
                /\ had.revision = n - 1 /\ n - 1 <= inForce
                /\ IF n = 1 THEN operation'["provision"] = "succeeded" /\ had.grant = baseline
                   ELSE had.grant = snapshots'[n - 1].grant /\ had.options = snapshots'[n - 1].options
                /\ snapshots'[n].state = "active" => \A m \in deactivated : m >= n
  <2>1. n # 1 => n - 1 \in 1..len
    BY <1>0
  <2> QED BY <1>2, <1>3, <1>7, <2>1 DEF PreviewInv, BatchIsAsPreviewed
<1>8. ASSUME o \in Jobs
      PROVE  LET shown == job[o].shown
                 had == shown.device
                 n == len + 1
             IN /\ shown.target = g /\ had.state = state
                /\ had.revision = n - 1 /\ n - 1 <= inForce
                /\ IF n = 1 THEN operation'["provision"] = "succeeded" /\ had.grant = baseline
                   ELSE had.grant = snapshots'[n - 1].grant /\ had.options = snapshots'[n - 1].options
                /\ state = "active" => \A m \in deactivated : m >= n
  <2>1. /\ job[o].shown = [target |-> g, device |-> Baseline] /\ Baseline.revision <= inForce
        /\ state = Baseline.state /\ HasBaseline
    BY <1>8 DEF PreviewInv, JobsAreAsPreviewed
  <2>2. Baseline.revision = len
    BY <1>0 DEF Baseline
  <2>3. state = "active" => deactivated = {}
    <3>1. Baseline.state = "active" => deactivated = {}
      BY DEF Baseline, Suspended
    <3> QED BY <2>1, <3>1
  <2>4. CASE len = 0
    <3>1. operation["provision"] = "succeeded" /\ Baseline.grant = baseline
      BY <1>0, <2>1, <2>4 DEF HasBaseline, Baseline
    <3> QED BY <1>0, <1>3, <2>1, <2>2, <2>3, <2>4, <3>1
  <2>5. CASE len # 0
    <3>1. len \in 1..len /\ len + 1 # 1 /\ (len + 1) - 1 = len
      BY <1>0, <2>5
    <3>2. Baseline.grant = snapshots'[len].grant /\ Baseline.options = snapshots'[len].options
      BY <1>2, <2>5, <3>1 DEF Baseline
    <3> QED BY <2>1, <2>2, <2>3, <3>1, <3>2
  <2> QED BY <2>4, <2>5
<1>9. BatchIsAsPreviewed'
  <2> SUFFICES ASSUME NEW n \in 1..Len(snapshots'), snapshots'[n].op \in Jobs
               PROVE  LET shown == job[snapshots'[n].op].shown
                          had == shown.device
                      IN /\ shown.target = snapshots'[n].grant /\ had.state = snapshots'[n].state
                         /\ had.revision = n - 1 /\ n - 1 <= inForce
                         /\ IF n = 1 THEN operation'["provision"] = "succeeded" /\ had.grant = baseline
                            ELSE had.grant = snapshots'[n - 1].grant /\ had.options = snapshots'[n - 1].options
                         /\ snapshots'[n].state = "active" => \A m \in deactivated : m >= n
    BY DEF BatchIsAsPreviewed
  <2>1. CASE n \in 1..len
    BY <1>2, <1>7, <2>1
  <2>2. CASE n = len + 1
    BY <1>2, <1>4, <1>8, <2>2
  <2> QED BY <1>5, <2>1, <2>2
<1> QED BY <1>6, <1>9 DEF PreviewInv

\* What a job does to a device is what its preview showed the user, for any number
\* of jobs, updates and revisions (previewProductServiceApplyTx,
\* DispatchProductServiceApplyItem): the same target, directly from the entitlement
\* shown, which Video Cloud had applied, and no device deactivated before is made
\* active.
THEOREM BatchesAreAsPreviewed == ServicesSpec => []BatchIsAsPreviewed
<1>1. ServicesInit => PreviewInv
  <2> SUFFICES ASSUME ServicesInit PROVE PreviewInv
    OBVIOUS
  <2>1. snapshots = <<>> /\ \A j \in Jobs : job[j].status = "none"
    BY DEF ServicesInit, NoJob
  <2>2. 1..Len(snapshots) = {}
    BY <2>1
  <2> QED BY <2>1, <2>2 DEF PreviewInv, JobsAreAsPreviewed, BatchIsAsPreviewed
<1>2. ASSUME ServicesInv, PreviewInv, [ServicesNext]_servicesVars
      PROVE  PreviewInv'
  <2>0. DeviceInv /\ JobInv /\ grants \in Seq(Grants) /\ inForce \in Nat
    BY <1>2 DEF ServicesInv, ProductInv, ProductTypeOK, DeviceInv, DeviceTypeOK
  <2>1. ASSUME UNCHANGED <<deviceVars, job>> PROVE PreviewInv'
    BY <1>2, <2>0, <2>1, PreviewStays DEF deviceVars
  <2>2. CASE CatalogNext /\ UNCHANGED Others
    BY <2>1, <2>2 DEF Others, jobVars
  <2>3. CASE \/ ListPlatformServiceOptions \/ createDeviceItemProfile \/ updateDeviceItemProfile
             \/ disableDeviceItemProfile \/ ReportLegacyGrants \/ BackfillLegacyProductServiceGrants
    BY <2>1, <2>3 DEF ListPlatformServiceOptions, createDeviceItemProfile,
       CreateDeviceItemProfileAsUser, updateDeviceItemProfile, UpdateDeviceItemProfileAsUser,
       disableDeviceItemProfile, DisableDeviceItemProfileAsUser, ReportLegacyGrants,
       BackfillLegacyProductServiceGrants, jobVars
  <2>4. CASE \/ CloudChanges \/ PreviewProductServiceApply \/ UNCHANGED servicesVars
             \/ createProductionRun \/ stopOrganizationProductionRun
    BY <2>1, <2>4 DEF CloudChanges, PreviewProductServiceApply, servicesVars, jobVars,
       createProductionRun, IssueProductionRunAsUser, stopOrganizationProductionRun,
       StopProductionRunAsUser
  <2>5. ASSUME NEW q \in Enrollments,
               \/ reserveFactoryEnrollment(q) \/ cancelFactoryEnrollment(q)
               \/ IssueCertificate(q) \/ FenceRequest(q) \/ completeFactoryEnrollment(q)
        PROVE  PreviewInv'
    BY <2>1, <2>5 DEF reserveFactoryEnrollment, ReserveFactoryEnrollment, cancelFactoryEnrollment,
       BeginFactoryEnrollmentCancellation, IssueCertificate, FenceRequest,
       completeFactoryEnrollment, CompleteFactoryEnrollment, jobVars
  <2>6. ASSUME UNCHANGED <<snapshots, job>>, inForce' \in Nat, inForce <= inForce',
               deactivated' \in {deactivated, {Len(snapshots)}},
               operation["provision"] = "succeeded" =>
                 operation'["provision"] = "succeeded" /\ baseline' = baseline
        PROVE  PreviewInv'
    BY <1>2, <2>0, <2>6, PreviewStays
  <2>7. CASE StartProvision \/ Deactivate
    BY <2>0, <2>6, <2>7 DEF StartProvision, Deactivate, jobVars
  <2>8. CASE createDeviceEntitlementSnapshot
    <3>1. PICK o \in Updates, g \in 1..Latest, options \in SUBSET Codes, state \in Effective :
            StartDeviceEntitlementSnapshot(o, g, options, state)
      BY <2>8 DEF createDeviceEntitlementSnapshot
    <3>2. o \notin Jobs
      BY ProductAssumption
    <3> QED BY <1>2, <2>0, <3>1, <3>2, PreviewFollowed DEF StartDeviceEntitlementSnapshot, jobVars
  <2>9. ASSUME NEW o \in Ops,
               \/ VideoCloudApplies(o)
               \/ \E status \in {"succeeded", "failed", "retryable", "dead_lettered"} :
                    OperationEnds(o, status)
        PROVE  PreviewInv'
    <3>1. CASE VideoCloudApplies(o)
      <4>1. inForce' \in Nat /\ inForce <= inForce'
        BY <2>0, <3>1, AppliesStep DEF DeviceGrows
      <4> QED BY <2>6, <3>1, <4>1 DEF VideoCloudApplies, jobVars
    <3>2. ASSUME NEW status \in {"succeeded", "failed", "retryable", "dead_lettered"},
                 OperationEnds(o, status)
          PROVE  PreviewInv'
      <4>1. operation["provision"] = "succeeded" => operation'["provision"] = "succeeded"
        BY <2>0, <3>2 DEF OperationEnds, DeviceInv, DeviceTypeOK, Ops
      <4>2. inForce' \in Nat /\ inForce <= inForce'
        BY <2>0, <3>2, EndsStep DEF DeviceGrows
      <4> QED BY <2>6, <3>2, <4>1, <4>2 DEF OperationEnds, jobVars
    <3> QED BY <2>9, <3>1, <3>2
  <2>10. ASSUME NEW j \in Jobs, dispatchProductServiceApplyItem(j) PROVE PreviewInv'
    <3>1. CASE DispatchItem(j)
      <4>1. /\ operation[j] = "absent" /\ UNCHANGED <<job, baseline, deactivated, inForce>>
            /\ StartSnapshot(j, job[j].target, grants[job[j].target].options, job[j].expected.state)
            /\ job[j].status # "none" /\ Baseline = job[j].expected /\ HasBaseline
        BY <3>1 DEF DispatchItem, ItemOpen, BaselineHolds, jobVars
      <4> QED BY <1>2, <2>0, <4>1, PreviewFollowed
    <3>2. CASE RetryItem(j)
      BY <2>1, <3>2 DEF RetryItem
    <3>3. CASE RequeueItem(j)
      <4>1. operation'["provision"] = operation["provision"]
        <5>1. j # "provision" /\ "provision" \in Ops /\ operation \in [Ops -> OperationStatuses]
          BY <2>0, ProductAssumption DEF DeviceInv, DeviceTypeOK, Ops
        <5> QED BY <3>3, <5>1 DEF RequeueItem
      <4> QED BY <2>0, <2>6, <3>3, <4>1 DEF RequeueItem
    <3> QED BY <2>10, <3>1, <3>2, <3>3 DEF dispatchProductServiceApplyItem
  <2>11. ASSUME NEW j \in Jobs, AdmitProductServiceApply(j) PROVE PreviewInv'
    BY <1>2, <2>0, <2>11, PreviewAdmitted
  <2>12. ASSUME NEW j \in Jobs, finishProductServiceApply(j) PROVE PreviewInv'
    <3>1. PICK status \in {"completed", "canceled"} : FinishProductServiceApply(j, status)
      BY <2>12 DEF finishProductServiceApply
    <3>2. \A k \in Jobs : /\ job'[k].shown = job[k].shown /\ job'[k].target = job[k].target
                          /\ job'[k].expected = job[k].expected
                          /\ job'[k].status # "none" <=> job[k].status # "none"
      <4>1. job \in [Jobs -> JobRows] /\ job' = [job EXCEPT ![j].status = status]
            /\ job[j].status = "active"
        BY <2>0, <3>1 DEF FinishProductServiceApply, ItemOpen, JobInv, JobTypeOK
      <4> QED BY <4>1 DEF JobRows
    <3>3. UNCHANGED deviceVars
      BY <3>1 DEF FinishProductServiceApply
    <3> QED BY <1>2, <2>0, <3>2, <3>3, PreviewStays DEF deviceVars
  <2> QED BY <1>2, <2>2, <2>3, <2>4, <2>5, <2>7, <2>8, <2>9, <2>10, <2>11, <2>12 DEF ServicesNext
<1>3. ServicesInv /\ PreviewInv /\ [ServicesNext]_servicesVars => PreviewInv'
  BY <1>2
<1>4. PreviewInv => BatchIsAsPreviewed
  BY DEF PreviewInv
<1> QED BY <1>1, <1>3, <1>4, ServicesHold, PTL DEF ServicesSpec
=============================================================================
