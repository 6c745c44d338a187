--------------------------- MODULE ServiceCatalog ---------------------------
(***************************************************************************)
(* The registry of platform services (internal/store/platform_services.go, *)
(* internal/api/platform_services.go).  A service offers option codes, each*)
(* with the codes it requires, in manifests that never change.  One        *)
(* manifest of every service is published; an option can be selected while *)
(* its service is active and an instance of the published version holds a  *)
(* lease, and while the same is true of all it requires.  Every change of  *)
(* the catalogue moves its revision, which a product names when it selects *)
(* options.                                                                *)
(*                                                                         *)
(* Every operation locks the revision first, so each is one step.  A       *)
(* service has one instance and one certificate here.  Request ids only    *)
(* refuse a different registration under a used id and are left out: the   *)
(* repetition of a registration is a registration.                         *)
(***************************************************************************)
EXTENDS Naturals, FiniteSets

CONSTANTS
  Codes,          \* option codes
  Services,       \* services, among them "mqtt"
  Contents,       \* for each service the manifests it may register
  Versions,       \* manifest versions
  Starts          \* where a behaviour starts: the services that are known, the
                  \* options of a product older than service grants, and how
                  \* many calls of each kind follow

\* "mqtt" is offered by its service alone and requires nothing; every other
\* option requires it.
ValidatePlatformServiceRegistration(s, m) ==
  /\ DOMAIN m \subseteq Codes /\ DOMAIN m # {}
  /\ "mqtt" \in DOMAIN m <=> s = "mqtt"
  /\ \A c \in DOMAIN m : /\ m[c] \subseteq Codes \ {c}
                         /\ c # "mqtt" => "mqtt" \in m[c]
                         /\ c = "mqtt" => m[c] = {}

ASSUME CatalogAssumption ==
  /\ Versions \subseteq Nat \ {0} /\ Versions # {}
  /\ \A start \in Starts : "mqtt" \in start.known /\ start.known \subseteq Services
                            /\ start.legacy \subseteq Codes
  /\ \A s \in Services : \A m \in Contents[s] : ValidatePlatformServiceRegistration(s, m)
  /\ \A start \in Starts : \A s \in start.known :
       \E m \in Contents[s] : DOMAIN m = {s} /\ m[s] \subseteq {"mqtt"}

VARIABLES
  revision,   \* platform_service_catalog_revisions
  workload,   \* approved codes of each service's certificate, {} when revoked
  manifest,   \* the registered manifests: service, version, options
  service,    \* published version (0: not registered) and status
  instance,   \* version (0: none), ready, and whether its lease still runs
  left        \* what is left of the budget

catalogVars == <<revision, workload, manifest, service, instance>>

Spend(part) == left[part] > 0 /\ left' = [left EXCEPT ![part] = @ - 1]

Statuses == {"active", "suspended", "retired"}

Manifests == UNION {[service : {s}, version : Versions, options : Contents[s]] : s \in Services}
InstanceRows == [Services -> [version : Versions \cup {0}, ready : BOOLEAN, live : BOOLEAN]]

CatalogTypeOK ==
  /\ revision \in Nat /\ workload \in [Services -> SUBSET Codes]
  /\ manifest \subseteq Manifests
  /\ \A m, n \in manifest : m.service = n.service /\ m.version = n.version => m = n
  /\ service \in [Services -> [published : Versions \cup {0}, status : Statuses]]
  /\ instance \in InstanceRows
  /\ \A s \in Services :
       /\ service[s].published # 0 =>
            \E m \in manifest : m.service = s /\ m.version = service[s].published
       /\ instance[s].version # 0 =>
            \E m \in manifest : m.service = s /\ m.version = instance[s].version

First == CHOOSE v \in Versions : TRUE
AllCodes(s) == UNION {DOMAIN m : m \in Contents[s]}

\* The known services were registered with a manifest that requires "mqtt" at
\* most, and made active.
CatalogInit(known) ==
  /\ revision = 1
  /\ workload = [s \in Services |-> AllCodes(s)]
  /\ manifest = {[service |-> s, version |-> First,
                  options |-> CHOOSE m \in Contents[s] : DOMAIN m = {s} /\ m[s] \subseteq {"mqtt"}] :
                 s \in known}
  /\ service = [s \in Services |-> IF s \in known THEN [published |-> First, status |-> "active"]
                                   ELSE [published |-> 0, status |-> "suspended"]]
  /\ instance = [s \in Services |-> IF s \in known
                                    THEN [version |-> First, ready |-> TRUE, live |-> TRUE]
                                    ELSE [version |-> 0, ready |-> FALSE, live |-> FALSE]]

-----------------------------------------------------------------------------
(* The published catalogue.                                                *)

\* The options of a manifest: code, what it requires, service and version.
Options(m) == {[code |-> c, requires |-> m.options[c], service |-> m.service,
                version |-> m.version] : c \in DOMAIN m.options}

Published == {m \in manifest : m.version = service[m.service].published}
Offers == UNION {Options(m) : m \in Published}

Requirements(offers) == [c \in Codes |-> UNION {o.requires : o \in {p \in offers : p.code = c}}]

\* What each code requires, directly or through what it requires: the least set
\* that has the requirements of the code and of its own members.
Closure(offers) ==
  LET direct == Requirements(offers)
      closed == {S \in SUBSET Codes : \A d \in S : direct[d] \subseteq S}
  IN [c \in Codes |-> {d \in Codes : \A S \in closed : direct[c] \subseteq S => d \in S}]

Acyclic(offers) == LET closure == Closure(offers) IN \A c \in Codes : c \notin closure[c]

CodesOf(offers) == {o.code : o \in offers}

\* A service that can serve its options now.
Serving(s) ==
  /\ service[s].status = "active" /\ instance[s].version = service[s].published
  /\ instance[s].ready /\ instance[s].live

\* readPlatformServiceOptions: the options that can be selected.
Selectable ==
  LET offers == Offers
      closure == Closure(offers)
      Works(c) == /\ \E p \in offers : p.code = c
                  /\ \A p \in offers : p.code = c => Serving(p.service)
                  /\ c \notin closure[c]
  IN {o \in offers : \A c \in {o.code} \cup closure[o.code] : Works(c)}

\* validateManifestDependencies: the manifest next to what all other services
\* have published, whatever their status.
ValidateManifestDependencies(s, options) ==
  LET others == {o \in Offers : o.service # s}
      mine == Options([service |-> s, version |-> 0, options |-> options])
      all == others \cup mine
      codes == CodesOf(all)
  IN /\ DOMAIN options \cap CodesOf(others) = {}
     /\ \A o \in all : o.requires \subseteq codes
     /\ \A c \in DOMAIN options : c = "mqtt" \/ "mqtt" \in options[c]
     /\ Acyclic(all)

-----------------------------------------------------------------------------
(* Operators of the platform.                                              *)

\* Approving again clears a revocation and may narrow the codes.  It changes
\* nothing in the catalogue.
ApprovePlatformServiceWorkload(s, codes) ==
  /\ Spend("catalog") /\ codes # {} /\ codes # workload[s]
  /\ workload' = [workload EXCEPT ![s] = codes]
  /\ UNCHANGED <<revision, manifest, service, instance>>

Down(s) == instance' = [instance EXCEPT ![s].ready = FALSE, ![s].live = FALSE]
BumpCatalogRevision == revision' = revision + 1

RevokePlatformServiceWorkload(s) ==
  /\ Spend("catalog") /\ workload[s] # {}
  /\ workload' = [workload EXCEPT ![s] = {}]
  /\ Down(s) /\ BumpCatalogRevision
  /\ UNCHANGED <<manifest, service>>

\* A retired service stays retired.
SetPlatformServiceStatus(s, status) ==
  /\ Spend("catalog") /\ service[s].published # 0
  /\ service[s].status \notin {"retired", status}
  /\ service' = [service EXCEPT ![s].status = status]
  /\ BumpCatalogRevision
  /\ UNCHANGED <<workload, manifest, instance>>

-----------------------------------------------------------------------------
(* Instances of the services.                                              *)

RequireWorkload(s, codes) == workload[s] # {} /\ codes \subseteq workload[s]

\* The instance was seen as not ready, or its lease had lapsed unnoticed.
Noticed(s, version, ready) ==
  \/ instance[s].version # version \/ instance[s].ready # ready
  \/ instance[s].ready /\ ~instance[s].live

BumpIf(changed) == revision' = IF changed THEN revision + 1 ELSE revision

\* The first registration publishes its version; "mqtt" is active at once, any
\* other service waits for an operator.
RegisterPlatformServiceInstance(s, version, options, ready) ==
  LET new == [service |-> s, version |-> version, options |-> options]
      created == service[s].published = 0
  IN /\ Spend("catalog") /\ RequireWorkload(s, DOMAIN options)
     /\ \/ new \in manifest /\ UNCHANGED manifest
        \/ /\ \A m \in manifest : <<m.service, m.version>> # <<s, version>>
           /\ ValidateManifestDependencies(s, options)
           /\ manifest' = manifest \cup {new}
     /\ service' = IF created
                   THEN [service EXCEPT ![s] = [published |-> version,
                           status |-> IF s = "mqtt" THEN "active" ELSE "suspended"]]
                   ELSE service
     /\ instance' = [instance EXCEPT ![s] = [version |-> version, ready |-> ready, live |-> TRUE]]
     /\ BumpIf(created \/ Noticed(s, version, ready))
     /\ UNCHANGED workload

HeartbeatPlatformServiceInstance(s, ready) ==
  /\ Spend("catalog") /\ RequireWorkload(s, {}) /\ instance[s].version # 0
  /\ instance' = [instance EXCEPT ![s].ready = ready, ![s].live = TRUE]
  /\ BumpIf(Noticed(s, instance[s].version, ready))
  /\ UNCHANGED <<workload, manifest, service>>

DeregisterPlatformServiceInstance(s) ==
  /\ Spend("catalog") /\ RequireWorkload(s, {}) /\ instance[s].version # 0
  /\ Down(s) /\ BumpCatalogRevision
  /\ UNCHANGED <<workload, manifest, service>>

\* Mutant: the dependencies were checked when the version was registered.
PublishUnchecked(s, version) ==
  /\ Spend("catalog") /\ workload[s] # {}
  /\ service[s].status = "active" /\ service[s].published \notin {0, version}
  /\ \E m \in manifest : m.service = s /\ m.version = version
  /\ instance[s].version = version /\ instance[s].ready /\ instance[s].live
  /\ service' = [service EXCEPT ![s].published = version]
  /\ BumpCatalogRevision
  /\ UNCHANGED <<workload, manifest, instance>>

\* Publishing a version checks its dependencies again: since its registration
\* other services may have published.
PublishPlatformServiceManifest(s, version) ==
  /\ Spend("catalog") /\ workload[s] # {}
  /\ service[s].status = "active" /\ service[s].published \notin {0, version}
  /\ \E m \in manifest : /\ m.service = s /\ m.version = version
                         /\ ValidateManifestDependencies(s, m.options)
  /\ instance[s].version = version /\ instance[s].ready /\ instance[s].live
  /\ service' = [service EXCEPT ![s].published = version]
  /\ BumpCatalogRevision
  /\ UNCHANGED <<workload, manifest, instance>>

\* Ninety seconds without a heartbeat.  Nothing is written.
LeaseExpires(s) ==
  /\ Spend("catalog") /\ instance[s].live
  /\ instance' = [instance EXCEPT ![s].live = FALSE]
  /\ UNCHANGED <<revision, workload, manifest, service>>

-----------------------------------------------------------------------------
(* The handlers.  The certificate of the connection names the service.     *)

approvePlatformServiceWorkload(s) ==
  \E m \in Contents[s] : ApprovePlatformServiceWorkload(s, DOMAIN m)
revokePlatformServiceWorkload(s) == RevokePlatformServiceWorkload(s)
setPlatformServiceStatus(s) == \E status \in Statuses : SetPlatformServiceStatus(s, status)
registerPlatformService(s) ==
  \E v \in Versions, m \in Contents[s], ready \in BOOLEAN :
    RegisterPlatformServiceInstance(s, v, m, ready)
heartbeatPlatformService(s) ==
  \E ready \in BOOLEAN : HeartbeatPlatformServiceInstance(s, ready)
deregisterPlatformService(s) == DeregisterPlatformServiceInstance(s)
publishPlatformService(s) == \E v \in Versions : PublishPlatformServiceManifest(s, v)

CatalogNext ==
  \E s \in Services :
    \/ approvePlatformServiceWorkload(s) \/ revokePlatformServiceWorkload(s)
    \/ setPlatformServiceStatus(s)
    \/ registerPlatformService(s) \/ heartbeatPlatformService(s)
    \/ deregisterPlatformService(s) \/ publishPlatformService(s)
    \/ LeaseExpires(s)

-----------------------------------------------------------------------------
\* What is published fits together (validateManifestDependencies): no option
\* has two services, every required option is offered, and no option requires
\* itself, although the manifests of all services are registered and published
\* independently of each other.
CatalogIsSound ==
  LET offers == Offers
  IN /\ \A o, p \in offers : o.code = p.code => o = p
     /\ \A o \in offers : o.requires \subseteq CodesOf(offers)
     /\ Acyclic(offers)
=============================================================================
