------------------------------- MODULE Entities -------------------------------
(***************************************************************************)
(* What the platform manages: images and the goroutines that build them,   *)
(* components, networks, enclave profiles, attestations and enclave keys.  *)
(* All of it is in one snapshot, and a handler changes it in one step      *)
(* under writeMu, with the executor's command inside; a request that a     *)
(* check refuses, or whose write fails, changes nothing and is no step.    *)
(* Only an image build takes several steps, each under writeMu, and runs   *)
(* on after its request has been answered.  Logs, alerts, audit events,    *)
(* versions, replicas, topology links, inspections and the components a    *)
(* network lists are data that no property here reads.                     *)
(***************************************************************************)
EXTENDS FiniteSets

CONSTANTS
    Image, Component, Network, Profile, Key,  \* identifiers
    Segment,      \* pairs of a parent NIC and a VLAN above 0
    NoSegment,    \* VLAN 0
    Build,        \* image builds at the same time
    NoRecord,     \* the snapshot has no record with this identifier
    Idle          \* a build that is not under way

\* "standard" stands for "hardened" too, which nothing tells apart from it.
Isolation == {"standard", "enclave"}

\* "draft" stands for every status that is neither of the other two.
ComponentStatus == {"draft", "deploying", "deployed"}

Vulnerability == {"scanning", "pending_executor", "low", "high", "critical"}

ComponentRecord ==
    [image : Image, networks : SUBSET Network,
     isolation : Isolation, status : ComponentStatus]

AttestationRecord ==
    [status : {"pending", "failed", "verified"}, released : BOOLEAN]

\* worker is _runImageBuild, watcher the select in runImageBuild
BuildRecord ==
    {build \in [image : Image,
                worker : {"registered", "building", "reporting", "panicking", "returned"},
                watcher : {"none", "waiting", "timedOut", "gone"}] :
        /\ build.worker = "registered" <=> build.watcher = "none"
        /\ build.worker = "returned" => build.watcher = "timedOut"}

ASSUME NoRecordAssumption ==
    /\ NoRecord \notin Vulnerability \cup ComponentRecord
    /\ NoRecord \notin Segment \cup {NoSegment} \cup Component
    /\ NoRecord \notin AttestationRecord
    /\ Idle \notin BuildRecord

VARIABLES
    images,        \* the Vulnerability of each image
    components,
    networks,      \* the segment of each network
    profiles,      \* Enclaves: the component of each profile
    attestations,  \* by component: the record is "att-" and its identifier
    keys,          \* EnclaveKeys: the component of each key
    builds,        \* where each build is
    orphaned       \* history: images left "scanning" with nobody to report

snapshot == <<images, components, networks, profiles, attestations, keys>>
vars == <<snapshot, builds, orphaned>>

imageExists(i) == images[i] # NoRecord
networkExists(n) == networks[n] # NoRecord
findComponent(c) == components[c] # NoRecord
enclaveExists(c) == \E p \in Profile : profiles[p] = c
IsEnclave(c) == findComponent(c) /\ components[c].isolation = "enclave"

-------------------------------------------------------------------------------
(* What a command run over SSH may answer: FALSE also when no node can be   *)
(* reached, and an attestation that is neither stays pending.               *)

withSSHNode == BOOLEAN
ExecuteManifest == withSSHNode
ExecuteScale == withSSHNode
ExecuteComponentUpgrade == withSSHNode
ExecuteImageValidation == withSSHNode
ExecuteImageBuild == withSSHNode
ExecuteAttestation == {"pending", "failed", "verified"}

-------------------------------------------------------------------------------
(* Image builds.  BuildImage first saves the image as "scanning", and       *)
(* takes the lock again to log the build and start it.  The worker runs the *)
(* build without the lock; the watcher waits for it or for the timeout.     *)

Scanning(i) == images[i] = "scanning"

SetImage(i, v) ==
    /\ images' = [images EXCEPT ![i] = v]
    /\ orphaned' = orphaned \ {i}

NobodyReports(i) ==
    /\ orphaned' = IF Scanning(i) THEN orphaned \cup {i} ELSE orphaned
    /\ UNCHANGED images

Entities == <<components, networks, profiles, attestations, keys>>

\* Mutant: the result puts the record back when it was deleted meanwhile.
RecordAnyResult(i, v) == SetImage(i, v) \/ NobodyReports(i)

\* A result is written if the image is still there; a failing write is logged.
RecordResult(i, v) ==
    IF imageExists(i) THEN SetImage(i, v) \/ NobodyReports(i)
                      ELSE UNCHANGED <<images, orphaned>>

Register(b, i) ==
    /\ builds[b] = Idle
    /\ SetImage(i, "scanning")
    /\ builds' = [builds EXCEPT ![b] =
                    [image |-> i, worker |-> "registered", watcher |-> "none"]]
    /\ UNCHANGED Entities

\* The second locked part: it starts the build unless its write fails.
Launch(b) ==
    /\ builds[b] # Idle
    /\ builds[b].worker = "registered"
    /\ \/ /\ builds' = [builds EXCEPT ![b].worker = "building", ![b].watcher = "waiting"]
          /\ UNCHANGED <<images, orphaned>>
       \/ /\ builds' = [builds EXCEPT ![b] = Idle]
          /\ NobodyReports(builds[b].image)
    /\ UNCHANGED Entities

\* A build is over when both of its goroutines are.
Leave(b, worker, watcher) ==
    builds' = [builds EXCEPT ![b] =
        IF worker = "returned" /\ watcher = "gone" THEN Idle
        ELSE [@ EXCEPT !.worker = worker, !.watcher = watcher]]

\* Mutant: done is not closed.
WorkerVanishes(b) == Leave(b, "returned", builds[b].watcher)

\* close(done) ends the watcher that still waits for it.
WorkerReturns(b) ==
    Leave(b, "returned", IF builds[b].watcher = "waiting" THEN "gone" ELSE builds[b].watcher)

\* ExecuteImageBuild returns; the worker looks at the context, not at the lock.
BuildReturns(b) ==
    /\ builds[b] # Idle
    /\ builds[b].worker = "building"
    /\ IF builds[b].watcher = "waiting" THEN Leave(b, "reporting", "waiting")
                                        ELSE WorkerReturns(b)
    /\ UNCHANGED <<snapshot, orphaned>>

BuildPanics(b) ==
    /\ builds[b] # Idle
    /\ builds[b].worker = "building"
    /\ Leave(b, "panicking", builds[b].watcher)
    /\ UNCHANGED <<snapshot, orphaned>>

Report(b) ==
    /\ builds[b] # Idle
    /\ builds[b].worker = "reporting"
    /\ \E built \in ExecuteImageBuild :
          RecordResult(builds[b].image, IF built THEN "low" ELSE "high")
    /\ WorkerReturns(b)
    /\ UNCHANGED Entities

\* recover(), whatever the context says
ReportPanic(b) ==
    /\ builds[b] # Idle
    /\ builds[b].worker = "panicking"
    /\ RecordResult(builds[b].image, "critical")
    /\ WorkerReturns(b)
    /\ UNCHANGED Entities

\* Mutant: the watcher logs the timeout and leaves the image as it is.
ExpireSilently(b) ==
    /\ builds[b] # Idle
    /\ builds[b].watcher = "waiting"
    /\ Leave(b, builds[b].worker, "gone")
    /\ UNCHANGED <<snapshot, orphaned>>

Expire(b) ==
    /\ builds[b] # Idle
    /\ builds[b].watcher = "waiting"
    /\ Leave(b, builds[b].worker, "timedOut")
    /\ UNCHANGED <<snapshot, orphaned>>

ReportTimeout(b) ==
    /\ builds[b] # Idle
    /\ builds[b].watcher = "timedOut"
    /\ RecordResult(builds[b].image, "high")
    /\ Leave(b, builds[b].worker, "gone")
    /\ UNCHANGED Entities

BuildStep(b) ==
    \/ Launch(b) \/ BuildReturns(b) \/ BuildPanics(b) \/ Expire(b)
    \/ Report(b) \/ ReportPanic(b) \/ ReportTimeout(b)

\* The process ends and starts again: the snapshot stays, the builds do not.
Restart ==
    /\ \E b \in Build : builds[b] # Idle
    /\ builds' = [b \in Build |-> Idle]
    /\ orphaned' = {i \in Image : Scanning(i)}
    /\ UNCHANGED snapshot

-------------------------------------------------------------------------------
(* Images and networks.                                                     *)

\* A form sends back the status it was shown, if it sends any.
SaveImage(i) ==
    /\ \E given \in {"", "scanning"}, pulled \in ExecuteImageValidation :
          LET v == IF given # "" THEN given ELSE IF pulled THEN "low" ELSE "pending_executor"
          IN  /\ images' = [images EXCEPT ![i] = v]
              /\ orphaned' = IF v = "scanning" THEN orphaned \cup {i} ELSE orphaned \ {i}
    /\ UNCHANGED <<Entities, builds>>

\* Mutant: a component's image may be deleted.
DeleteUsedImage(i) ==
    /\ imageExists(i)
    /\ SetImage(i, NoRecord)
    /\ UNCHANGED <<Entities, builds>>

DeleteImage(i) ==
    /\ imageExists(i)
    /\ \A c \in Component : findComponent(c) => components[c].image # i
    /\ SetImage(i, NoRecord)
    /\ UNCHANGED <<Entities, builds>>

SaveNetwork(n) ==
    /\ \E s \in Segment \cup {NoSegment} :
          /\ s \in Segment => \A m \in Network \ {n} : networks[m] # s
          /\ networks' = [networks EXCEPT ![n] = s]
    /\ UNCHANGED <<images, components, profiles, attestations, keys, builds, orphaned>>

DeleteNetwork(n) ==
    /\ networkExists(n)
    /\ \A c \in Component : findComponent(c) => n \notin components[c].networks
    /\ networks' = [networks EXCEPT ![n] = NoRecord]
    /\ UNCHANGED <<images, components, profiles, attestations, keys, builds, orphaned>>

-------------------------------------------------------------------------------
(* Components.                                                              *)

\* The status and the isolation are what the request says.
SaveComponent(c) ==
    /\ \E component \in ComponentRecord :
          /\ imageExists(component.image)
          /\ \A n \in component.networks : networkExists(n)
          /\ components' = [components EXCEPT ![c] = component]
    /\ UNCHANGED <<images, networks, profiles, attestations, keys, builds, orphaned>>

\* The owned records, by identifier, that are not c's
NotOf(c, owned) == [x \in DOMAIN owned |-> IF owned[x] = c THEN NoRecord ELSE owned[x]]

DeleteComponent(c) ==
    /\ findComponent(c)
    /\ components[c].status \notin {"deployed", "deploying"}
    /\ components' = [components EXCEPT ![c] = NoRecord]
    /\ profiles' = NotOf(c, profiles)
    /\ attestations' = [attestations EXCEPT ![c] = NoRecord]
    /\ keys' = NotOf(c, keys)
    /\ UNCHANGED <<images, networks, builds, orphaned>>

SetStatus(c, ok) ==
    components' = [components EXCEPT ![c].status = IF ok THEN "deployed" ELSE "deploying"]

buildManifestFromSnapshot(c) == findComponent(c) /\ imageExists(components[c].image)

Pending == [status |-> "pending", released |-> FALSE]

DeployComponent(c) ==
    /\ findComponent(c)
    /\ components[c].status \notin {"deployed", "deploying"}
    /\ IsEnclave(c) => enclaveExists(c)
    /\ buildManifestFromSnapshot(c)
    /\ \E ok \in ExecuteManifest : SetStatus(c, ok)
    /\ attestations' = IF IsEnclave(c) THEN [attestations EXCEPT ![c] = Pending]
                                       ELSE attestations
    /\ UNCHANGED <<images, networks, profiles, keys, builds, orphaned>>

\* In any status: scaling a draft calls it deployed.
ScaleComponent(c) ==
    /\ findComponent(c)
    /\ \E ok \in ExecuteScale : SetStatus(c, ok)
    /\ UNCHANGED <<images, networks, profiles, attestations, keys, builds, orphaned>>

\* The attestation of what ran before stays.
UpgradeComponent(c) ==
    /\ findComponent(c)
    /\ imageExists(components[c].image)
    /\ \E ok \in ExecuteComponentUpgrade : SetStatus(c, ok)
    /\ UNCHANGED <<images, networks, profiles, attestations, keys, builds, orphaned>>

\* A batch takes the lock for each of its components.
BatchItem(c) == DeployComponent(c) \/ ScaleComponent(c)

-------------------------------------------------------------------------------
(* Enclave profiles, their keys and attestations.                           *)

SaveEnclave(p) ==
    /\ \E c \in Component :
          /\ IsEnclave(c)
          /\ profiles' = [profiles EXCEPT ![p] = c]
    /\ UNCHANGED <<images, components, networks, attestations, keys, builds, orphaned>>

DeleteEnclave(p) ==
    /\ profiles[p] # NoRecord
    /\ profiles' = [profiles EXCEPT ![p] = NoRecord]
    /\ UNCHANGED <<images, components, networks, attestations, keys, builds, orphaned>>

SaveEnclaveKey(k) ==
    /\ \E c \in Component :
          /\ findComponent(c)
          /\ keys' = [keys EXCEPT ![k] = c]
    /\ UNCHANGED <<images, components, networks, profiles, attestations, builds, orphaned>>

DeleteEnclaveKey(k) ==
    /\ keys[k] # NoRecord
    /\ keys' = [keys EXCEPT ![k] = NoRecord]
    /\ UNCHANGED <<images, components, networks, profiles, attestations, builds, orphaned>>

Attested(status) == [status |-> status, released |-> status = "verified"]

\* All enclave components at once; one without a profile has failed.
RunAttestation ==
    /\ \E answer \in [Component -> ExecuteAttestation] :
          attestations' = [c \in Component |->
              IF ~IsEnclave(c) THEN attestations[c]
              ELSE Attested(IF enclaveExists(c) THEN answer[c] ELSE "failed")]
    /\ UNCHANGED <<images, components, networks, profiles, keys, builds, orphaned>>

\* Mutant: whoever submits a verified result releases the secrets.
SubmitReleases(c) ==
    /\ attestations[c] # NoRecord
    /\ \E status \in {"verified", "failed", "pending"}, dcap \in BOOLEAN :
          attestations' = [attestations EXCEPT ![c] =
              [status |-> status, released |-> status = "verified" /\ dcap]]
    /\ UNCHANGED <<images, components, networks, profiles, keys, builds, orphaned>>

\* Mutant: a result that is not "verified" leaves the secrets released.
SubmitKeeps(c) ==
    /\ attestations[c] # NoRecord
    /\ \E status \in {"verified", "failed", "pending"}, dcap \in BOOLEAN :
          attestations' = [attestations EXCEPT ![c] =
              [status |-> status, released |-> @.released /\ dcap]]
    /\ UNCHANGED <<images, components, networks, profiles, keys, builds, orphaned>>

\* A result from outside can withdraw the secrets, not release them.
SubmitAttestationResult(c) ==
    /\ attestations[c] # NoRecord
    /\ \E status \in {"verified", "failed", "pending"}, dcap \in BOOLEAN :
          attestations' = [attestations EXCEPT ![c] =
              [status |-> status,
               released |-> @.released /\ status = "verified" /\ dcap]]
    /\ UNCHANGED <<images, components, networks, profiles, keys, builds, orphaned>>

-------------------------------------------------------------------------------
\* The seed's enclave component, as the store writes it at the first start
Init ==
    \E c \in Component, i \in Image, n \in Network, p \in Profile, k \in Key, s \in Segment :
        /\ images = [x \in Image |-> IF x = i THEN "low" ELSE NoRecord]
        /\ components = [x \in Component |-> IF x = c
               THEN [image |-> i, networks |-> {n}, isolation |-> "enclave", status |-> "draft"]
               ELSE NoRecord]
        /\ networks = [x \in Network |-> IF x = n THEN s ELSE NoRecord]
        /\ profiles = [x \in Profile |-> IF x = p THEN c ELSE NoRecord]
        /\ attestations = [x \in Component |-> IF x = c THEN Pending ELSE NoRecord]
        /\ keys = [x \in Key |-> IF x = k THEN c ELSE NoRecord]
        /\ builds = [b \in Build |-> Idle]
        /\ orphaned = {}

ComponentStep(c) ==
    \/ SaveComponent(c) \/ DeleteComponent(c)
    \/ BatchItem(c) \/ UpgradeComponent(c)
    \/ SubmitAttestationResult(c)

Next ==
    \/ \E b \in Build : BuildStep(b) \/ \E i \in Image : Register(b, i)
    \/ \E i \in Image : SaveImage(i) \/ DeleteImage(i)
    \/ \E n \in Network : SaveNetwork(n) \/ DeleteNetwork(n)
    \/ \E c \in Component : ComponentStep(c)
    \/ \E p \in Profile : SaveEnclave(p) \/ DeleteEnclave(p)
    \/ \E k \in Key : SaveEnclaveKey(k) \/ DeleteEnclaveKey(k)
    \/ RunAttestation
    \/ Restart

Spec == Init /\ [][Next]_vars

-------------------------------------------------------------------------------
(* Properties.                                                              *)

\* Every variable holds a value of its type.
TypeOK ==
    /\ images \in [Image -> Vulnerability \cup {NoRecord}]
    /\ components \in [Component -> ComponentRecord \cup {NoRecord}]
    /\ networks \in [Network -> Segment \cup {NoSegment, NoRecord}]
    /\ profiles \in [Profile -> Component \cup {NoRecord}]
    /\ attestations \in [Component -> AttestationRecord \cup {NoRecord}]
    /\ keys \in [Key -> Component \cup {NoRecord}]
    /\ builds \in [Build -> BuildRecord \cup {Idle}]
    /\ orphaned \subseteq Image

\* No record names one that has been deleted: a component's image and its
\* networks are there, and so is the component of each profile, attestation
\* and key, however saves, deletions and the status they depend on interleave.
ReferencesExist ==
    /\ \A c \in Component : findComponent(c) =>
          /\ imageExists(components[c].image)
          /\ \A n \in components[c].networks : networkExists(n)
    /\ \A p \in Profile : profiles[p] # NoRecord => findComponent(profiles[p])
    /\ \A k \in Key : keys[k] # NoRecord => findComponent(keys[k])
    /\ \A c \in Component : attestations[c] # NoRecord => findComponent(c)

\* An image that stays "scanning" has a build that will still report, or was
\* left so by a restart, a failing write or an edit; the timeout, the panic
\* handler and a build of the same image that began before do not leave it.
ScanningIsExplained ==
    \A i \in Image : Scanning(i) =>
        \/ i \in orphaned
        \/ \E b \in Build :
              /\ builds[b] # Idle
              /\ builds[b].image = i
              /\ \/ builds[b].worker \in {"registered", "reporting", "panicking"}
                 \/ builds[b].watcher \in {"waiting", "timedOut"}

\* Secrets are released only while the last result is "verified": a later
\* result, whoever brings it, withdraws them.
ReleasedMeansVerified ==
    \A c \in Component :
        attestations[c] # NoRecord /\ attestations[c].released
            => attestations[c].status = "verified"

Released(c) == attestations[c] # NoRecord /\ attestations[c].released

\* A step that releases secrets that were not released is the platform's own
\* attestation, of an enclave component with a profile, and no submitted result,
\* edit or deployment.  (The attestation of a lone component may change the
\* records exactly as a submitted result would; hence the last conjunct.)
SecretsReleasedOnlyByProof ==
    [][\A c \in Component : Released(c)' /\ ~Released(c)
          => /\ RunAttestation
             /\ IsEnclave(c) /\ enclaveExists(c)
             /\ ~SubmitAttestationResult(c)]_vars

\* A build, which reports long after its request, never brings back an image
\* that was deleted meanwhile.
BuildsCreateNoImage ==
    [][(\E b \in Build : BuildStep(b))
          => \A i \in Image : images[i] = NoRecord => images'[i] = NoRecord]_vars

===============================================================================
