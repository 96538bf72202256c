---------------------------- MODULE EntitiesProofs ----------------------------
(***************************************************************************)
(* Machine-checked proofs of the safety of Entities, for any images,       *)
(* components, networks, profiles, keys and any number of builds.          *)
(***************************************************************************)
EXTENDS Entities, TLAPS

ImagesType == images \in [Image -> Vulnerability \cup {NoRecord}]
BuildsType == builds \in [Build -> BuildRecord \cup {Idle}]

EntitiesType ==
    /\ components \in [Component -> ComponentRecord \cup {NoRecord}]
    /\ networks \in [Network -> Segment \cup {NoSegment, NoRecord}]
    /\ profiles \in [Profile -> Component \cup {NoRecord}]
    /\ attestations \in [Component -> AttestationRecord \cup {NoRecord}]
    /\ keys \in [Key -> Component \cup {NoRecord}]

\* TypeOK is its parts.
LEMMA TypeParts ==
    TypeOK <=> ImagesType /\ BuildsType /\ EntitiesType /\ orphaned \subseteq Image
  BY DEF TypeOK, ImagesType, BuildsType, EntitiesType

\* The same of the next state.
LEMMA NextTypeParts ==
    ASSUME ImagesType', BuildsType', EntitiesType', (orphaned \subseteq Image)'
    PROVE  TypeOK'
  BY DEF TypeOK, ImagesType, BuildsType, EntitiesType

(***************************************************************************)
(* Writing an image.                                                       *)
(***************************************************************************)

\* A write of a result keeps the types, creates and removes no image, and
\* leaves no image scanning that nobody is known to have given up.
LEMMA ResultWrite ==
    ASSUME ImagesType, orphaned \subseteq Image,
           NEW i \in Image, NEW v \in Vulnerability \ {"scanning"}, RecordResult(i, v)
    PROVE  /\ ImagesType' /\ orphaned' \subseteq Image
           /\ \A x \in Image : images'[x] = NoRecord <=> images[x] = NoRecord
           /\ images'[i] = "scanning" => i \in orphaned'
           /\ \A x \in Image \ {i} : /\ images'[x] = images[x]
                                     /\ x \in orphaned => x \in orphaned'
  <1>1. CASE SetImage(i, v) /\ imageExists(i)
    <2>1. v # NoRecord
      BY NoRecordAssumption
    <2>2. QED
      BY <1>1, <2>1 DEF SetImage, imageExists, ImagesType
  <1>2. CASE NobodyReports(i)
    BY <1>2 DEF NobodyReports, Scanning, ImagesType
  <1>3. CASE ~imageExists(i) /\ UNCHANGED <<images, orphaned>>
    BY <1>3, NoRecordAssumption DEF imageExists, ImagesType, Vulnerability
  <1>4. QED
    BY <1>1, <1>2, <1>3 DEF RecordResult

(***************************************************************************)
(* The two goroutines of a build.                                          *)
(***************************************************************************)

\* Where a build goes is a build or none; the others stay where they are.
LEMMA LeaveEffect ==
    ASSUME BuildsType, NEW b \in Build, builds[b] # Idle,
           NEW worker \in {"building", "reporting", "panicking", "returned"},
           NEW watcher \in {"waiting", "timedOut", "gone"},
           worker = "returned" => watcher # "waiting",
           Leave(b, worker, watcher)
    PROVE  /\ BuildsType'
           /\ \A x \in Build \ {b} : builds'[x] = builds[x]
           /\ worker # "returned" \/ watcher # "gone" =>
                 /\ builds'[b] # Idle
                 /\ builds'[b].image = builds[b].image
                 /\ builds'[b].worker = worker
                 /\ builds'[b].watcher = watcher
  <1> DEFINE build == [builds[b] EXCEPT !.worker = worker, !.watcher = watcher]
  <1>1. builds[b] \in BuildRecord
    BY DEF BuildsType
  <1>2. /\ build.image = builds[b].image
        /\ build.worker = worker /\ build.watcher = watcher
    BY <1>1 DEF BuildRecord
  <1>3. worker # "returned" \/ watcher # "gone" => build \in BuildRecord
    BY <1>1 DEF BuildRecord
  <1>4. builds' = [builds EXCEPT ![b] =
                      IF worker = "returned" /\ watcher = "gone" THEN Idle ELSE build]
    BY DEF Leave, BuildsType
  <1> HIDE DEF build
  <1>5. \A x \in Build \ {b} : builds'[x] = builds[x]
    BY <1>4 DEF BuildsType
  <1>6. BuildsType'
    BY <1>3, <1>4 DEF BuildsType
  <1>7. worker # "returned" \/ watcher # "gone" => builds'[b] = build /\ build # Idle
    BY <1>3, <1>4, NoRecordAssumption DEF BuildsType
  <1>8. QED
    BY <1>2, <1>5, <1>6, <1>7

\* What a build under way looks like.
LEMMA BuildFields ==
    ASSUME BuildsType, NEW b \in Build, builds[b] # Idle
    PROVE  /\ builds[b].image \in Image
           /\ builds[b].worker \in
                 {"registered", "building", "reporting", "panicking", "returned"}
           /\ builds[b].watcher \in {"none", "waiting", "timedOut", "gone"}
           /\ builds[b].worker = "registered" <=> builds[b].watcher = "none"
           /\ builds[b].worker = "returned" => builds[b].watcher = "timedOut"
  <1>1. builds[b] \in BuildRecord
    BY DEF BuildsType
  <1>2. QED
    BY <1>1 DEF BuildRecord

\* Build b may still report on its image.
MayReport(b) ==
    \/ builds[b].worker \in {"registered", "reporting", "panicking"}
    \/ builds[b].watcher \in {"waiting", "timedOut"}

\* What one step of a build does: it touches no other build and no other
\* image, creates no image, and when it was to report it still is, or its
\* image is not left scanning unexplained.
StepEffect(b) ==
    /\ ImagesType' /\ BuildsType' /\ orphaned' \subseteq Image
    /\ \A x \in Image : images'[x] = NoRecord <=> images[x] = NoRecord
    /\ \A x \in Build \ {b} : builds'[x] = builds[x]
    /\ \A x \in Image \ {builds[b].image} :
          images'[x] = images[x] /\ (x \in orphaned => x \in orphaned')
    /\ \/ images'[builds[b].image] = "scanning" => builds[b].image \in orphaned'
       \/ /\ UNCHANGED <<images, orphaned>>
          /\ MayReport(b) => /\ builds'[b] # Idle
                             /\ builds'[b].image = builds[b].image
                             /\ MayReport(b)'

\* Shorthand for the steps that leave the images alone
LEMMA QuietStep ==
    ASSUME ImagesType, BuildsType, orphaned \subseteq Image,
           NEW b \in Build, builds[b] # Idle,
           UNCHANGED <<images, orphaned>>, BuildsType',
           \A x \in Build \ {b} : builds'[x] = builds[x],
           MayReport(b) => /\ builds'[b] # Idle
                           /\ builds'[b].image = builds[b].image
                           /\ MayReport(b)'
    PROVE  StepEffect(b)
  BY DEF StepEffect, ImagesType

\* The three ways a build writes the status of its image.
LEMMA ReportingStep ==
    ASSUME ImagesType, BuildsType, orphaned \subseteq Image,
           NEW b \in Build, builds[b] # Idle,
           NEW v \in Vulnerability \ {"scanning"}, RecordResult(builds[b].image, v),
           BuildsType', \A x \in Build \ {b} : builds'[x] = builds[x]
    PROVE  StepEffect(b)
  <1>1. builds[b].image \in Image
    BY BuildFields
  <1>2. QED
    BY <1>1, ResultWrite DEF StepEffect

\* The second locked part starts the build or gives its image up.
LEMMA LaunchEffect ==
    ASSUME ImagesType, BuildsType, orphaned \subseteq Image, NEW b \in Build, Launch(b)
    PROVE  StepEffect(b)
  <1>1. builds[b] # Idle /\ builds[b].worker = "registered" /\ builds[b] \in BuildRecord
    BY DEF Launch, BuildsType
  <1>2. CASE /\ builds' = [builds EXCEPT ![b].worker = "building", ![b].watcher = "waiting"]
             /\ UNCHANGED <<images, orphaned>>
    <2> DEFINE build == [builds[b] EXCEPT !.worker = "building", !.watcher = "waiting"]
    <2>1. /\ build \in BuildRecord
          /\ build.image = builds[b].image /\ build.watcher = "waiting"
      BY <1>1 DEF BuildRecord
    <2>2. builds' = [builds EXCEPT ![b] = build]
      BY <1>2, <1>1 DEF BuildsType
    <2>3. build # Idle
      BY <2>1, NoRecordAssumption
    <2> HIDE DEF build
    <2>4. BuildsType' /\ builds'[b] = build /\ \A x \in Build \ {b} : builds'[x] = builds[x]
      BY <2>1, <2>2 DEF BuildsType
    <2>5. QED
      BY <1>1, <1>2, <2>1, <2>3, <2>4, QuietStep DEF MayReport
  <1>3. CASE /\ builds' = [builds EXCEPT ![b] = Idle]
             /\ NobodyReports(builds[b].image)
    <2>1. builds[b].image \in Image
      BY <1>1, BuildFields
    <2>2. BuildsType' /\ \A x \in Build \ {b} : builds'[x] = builds[x]
      BY <1>3 DEF BuildsType
    <2>3. images' = images /\ orphaned' \subseteq Image /\ orphaned \subseteq orphaned'
      BY <1>3, <2>1 DEF NobodyReports
    <2>4. images'[builds[b].image] = "scanning" => builds[b].image \in orphaned'
      BY <1>3 DEF NobodyReports, Scanning
    <2>5. QED
      BY <2>1, <2>2, <2>3, <2>4 DEF StepEffect, ImagesType
  <1>4. QED
    BY <1>2, <1>3 DEF Launch

\* A worker that comes back late goes without writing.
LEMMA ReturnEffect ==
    ASSUME BuildsType, NEW b \in Build, builds[b] # Idle,
           builds[b].worker # "registered", WorkerReturns(b)
    PROVE  /\ BuildsType' /\ \A x \in Build \ {b} : builds'[x] = builds[x]
           /\ builds[b].watcher = "timedOut" =>
                 /\ builds'[b] # Idle /\ builds'[b].image = builds[b].image
                 /\ builds'[b].watcher = "timedOut"
  <1> DEFINE watcher ==
        IF builds[b].watcher = "waiting" THEN "gone" ELSE builds[b].watcher
  <1>1. watcher \in {"timedOut", "gone"} /\ (builds[b].watcher = "timedOut" => watcher = "timedOut")
    BY BuildFields
  <1>2. Leave(b, "returned", watcher)
    BY DEF WorkerReturns
  <1> HIDE DEF watcher
  <1>3. QED
    BY <1>1, <1>2, LeaveEffect

\* One case for each step of a build.
LEMMA BuildStepEffect ==
    ASSUME ImagesType, BuildsType, orphaned \subseteq Image, NEW b \in Build, BuildStep(b)
    PROVE  StepEffect(b)
  <1>1. CASE Launch(b)
    BY <1>1, LaunchEffect
  <1>2. CASE BuildReturns(b)
    <2>1. builds[b] # Idle /\ builds[b].worker = "building" /\ UNCHANGED <<images, orphaned>>
      BY <1>2 DEF BuildReturns, snapshot
    <2>2. CASE builds[b].watcher = "waiting"
      <3>1. Leave(b, "reporting", "waiting")
        BY <1>2, <2>2 DEF BuildReturns
      <3>2. QED
        BY <2>1, <3>1, LeaveEffect, QuietStep DEF MayReport
    <2>3. CASE builds[b].watcher # "waiting"
      <3>1. WorkerReturns(b)
        BY <1>2, <2>3 DEF BuildReturns
      <3>2. QED
        BY <2>1, <2>3, <3>1, ReturnEffect, QuietStep DEF MayReport
    <2>4. QED
      BY <2>2, <2>3
  <1>3. CASE BuildPanics(b)
    <2>1. builds[b] # Idle /\ builds[b].worker = "building" /\ UNCHANGED <<images, orphaned>>
      BY <1>3 DEF BuildPanics, snapshot
    <2>2. builds[b].watcher \in {"waiting", "timedOut", "gone"}
      BY <2>1, BuildFields
    <2>3. Leave(b, "panicking", builds[b].watcher)
      BY <1>3 DEF BuildPanics
    <2>4. QED
      BY <2>1, <2>2, <2>3, LeaveEffect, QuietStep DEF MayReport
  <1>4. CASE Expire(b)
    <2>1. builds[b] # Idle /\ builds[b].watcher = "waiting" /\ UNCHANGED <<images, orphaned>>
      BY <1>4 DEF Expire, snapshot
    <2>2. builds[b].worker \in {"building", "reporting", "panicking"}
      BY <2>1, BuildFields
    <2>3. Leave(b, builds[b].worker, "timedOut")
      BY <1>4 DEF Expire
    <2>4. QED
      BY <2>1, <2>2, <2>3, LeaveEffect, QuietStep DEF MayReport
  <1>5. CASE Report(b)
    <2>1. builds[b] # Idle /\ builds[b].worker = "reporting" /\ WorkerReturns(b)
      BY <1>5 DEF Report
    <2>2. PICK v \in {"low", "high"} : RecordResult(builds[b].image, v)
      BY <1>5 DEF Report
    <2>3. v \in Vulnerability \ {"scanning"}
      BY DEF Vulnerability
    <2>4. QED
      BY <2>1, <2>2, <2>3, ReturnEffect, ReportingStep
  <1>6. CASE ReportPanic(b)
    <2>1. /\ builds[b] # Idle /\ builds[b].worker = "panicking" /\ WorkerReturns(b)
          /\ RecordResult(builds[b].image, "critical")
      BY <1>6 DEF ReportPanic
    <2>2. "critical" \in Vulnerability \ {"scanning"}
      BY DEF Vulnerability
    <2>3. QED
      BY <2>1, <2>2, ReturnEffect, ReportingStep
  <1>7. CASE ReportTimeout(b)
    <2>1. /\ builds[b] # Idle /\ builds[b].watcher = "timedOut"
          /\ RecordResult(builds[b].image, "high") /\ Leave(b, builds[b].worker, "gone")
      BY <1>7 DEF ReportTimeout
    <2>2. builds[b].worker \in {"building", "reporting", "panicking", "returned"}
      BY <2>1, BuildFields
    <2>3. BuildsType' /\ \A x \in Build \ {b} : builds'[x] = builds[x]
      BY <2>1, <2>2, LeaveEffect
    <2>4. "high" \in Vulnerability \ {"scanning"}
      BY DEF Vulnerability
    <2>5. QED
      BY <2>1, <2>3, <2>4, ReportingStep
  <1>8. QED
    BY <1>1, <1>2, <1>3, <1>4, <1>5, <1>6, <1>7 DEF BuildStep

\* Nothing but images and builds changes in it.
LEMMA BuildStepKeeps ==
    ASSUME NEW b \in Build, BuildStep(b)
    PROVE  UNCHANGED <<components, networks, profiles, attestations, keys>>
  BY DEF BuildStep, Launch, BuildReturns, BuildPanics, Expire, Report, ReportPanic,
         ReportTimeout, Entities, snapshot

(***************************************************************************)
(* Components.                                                             *)
(***************************************************************************)

\* A command's outcome changes the status of one component and no more.
LEMMA StatusEffect ==
    ASSUME EntitiesType, NEW c \in Component, findComponent(c), NEW ok, SetStatus(c, ok)
    PROVE  /\ components' \in [Component -> ComponentRecord \cup {NoRecord}]
           /\ \A x \in Component \ {c} : components'[x] = components[x]
           /\ components'[c] # NoRecord
           /\ components'[c].image = components[c].image
           /\ components'[c].networks = components[c].networks
           /\ components'[c].isolation = components[c].isolation
  <1> DEFINE status == IF ok THEN "deployed" ELSE "deploying"
             component == [components[c] EXCEPT !.status = status]
  <1>1. status \in ComponentStatus
    BY DEF ComponentStatus
  <1>2. components[c] \in ComponentRecord
    BY DEF EntitiesType, findComponent
  <1>3. components' = [components EXCEPT ![c] = component]
    BY DEF SetStatus, EntitiesType
  <1> HIDE DEF status
  <1>4. /\ component \in ComponentRecord
        /\ component.image = components[c].image
        /\ component.networks = components[c].networks
        /\ component.isolation = components[c].isolation
    BY <1>1, <1>2 DEF ComponentRecord
  <1> HIDE DEF component
  <1>5. component # NoRecord
    BY <1>4, NoRecordAssumption
  <1>6. QED
    BY <1>3, <1>4, <1>5 DEF EntitiesType

\* What the four commands on a component do to it.
LEMMA CommandEffect ==
    ASSUME EntitiesType, NEW c \in Component, BatchItem(c) \/ UpgradeComponent(c)
    PROVE  /\ findComponent(c)
           /\ \E ok : SetStatus(c, ok)
           /\ \/ UNCHANGED attestations
              \/ attestations' = [attestations EXCEPT ![c] = Pending]
           /\ UNCHANGED <<images, networks, profiles, keys, builds, orphaned>>
  <1>1. CASE DeployComponent(c)
    BY <1>1 DEF DeployComponent
  <1>2. CASE ScaleComponent(c)
    BY <1>2 DEF ScaleComponent
  <1>3. CASE UpgradeComponent(c)
    BY <1>3 DEF UpgradeComponent
  <1>4. QED
    BY <1>1, <1>2, <1>3 DEF BatchItem

\* A proof's result is an attestation; secrets go with "verified".
LEMMA AttestedType ==
    /\ Pending \in AttestationRecord /\ Pending.released = FALSE
    /\ \A status \in {"pending", "failed", "verified"} :
          /\ Attested(status) \in AttestationRecord
          /\ Attested(status).status = status
          /\ Attested(status).released <=> status = "verified"
  BY DEF Pending, Attested, AttestationRecord

\* A run of the attestations, component by component.
LEMMA RunEffect ==
    ASSUME EntitiesType, RunAttestation
    PROVE  /\ attestations' \in [Component -> AttestationRecord \cup {NoRecord}]
           /\ \A c \in Component :
                 \/ attestations'[c] = attestations[c]
                 \/ /\ IsEnclave(c)
                    /\ \E status \in {"pending", "failed", "verified"} :
                          /\ attestations'[c] = Attested(status)
                          /\ status = "verified" => enclaveExists(c)
           /\ UNCHANGED <<images, components, networks, profiles, keys, builds, orphaned>>
  <1>1. PICK answer \in [Component -> {"pending", "failed", "verified"}] :
            attestations' = [c \in Component |->
                IF ~IsEnclave(c) THEN attestations[c]
                ELSE Attested(IF enclaveExists(c) THEN answer[c] ELSE "failed")]
    BY DEF RunAttestation, ExecuteAttestation
  <1>2. ASSUME NEW c \in Component
        PROVE  \/ attestations'[c] = attestations[c]
               \/ /\ IsEnclave(c)
                  /\ \E status \in {"pending", "failed", "verified"} :
                        /\ attestations'[c] = Attested(status)
                        /\ status = "verified" => enclaveExists(c)
    <2>1. CASE ~IsEnclave(c)
      BY <1>1, <2>1
    <2>2. CASE IsEnclave(c) /\ enclaveExists(c)
      <3>1. attestations'[c] = Attested(answer[c])
        BY <1>1, <2>2
      <3>2. answer[c] \in {"pending", "failed", "verified"}
        BY <1>1
      <3>3. QED
        BY <2>2, <3>1, <3>2
    <2>3. CASE IsEnclave(c) /\ ~enclaveExists(c)
      <3>1. attestations'[c] = Attested("failed")
        BY <1>1, <2>3
      <3>2. QED
        BY <2>3, <3>1
    <2>4. QED
      BY <2>1, <2>2, <2>3
  <1>3. \A c \in Component : attestations'[c] \in AttestationRecord \cup {NoRecord}
    BY <1>2, AttestedType DEF EntitiesType
  <1>4. attestations' \in [Component -> AttestationRecord \cup {NoRecord}]
    BY <1>1, <1>3
  <1>5. QED
    BY <1>2, <1>4 DEF RunAttestation

\* A result from outside replaces one attestation, and releases nothing.
LEMMA SubmitEffect ==
    ASSUME EntitiesType, NEW c \in Component, SubmitAttestationResult(c)
    PROVE  /\ attestations[c] # NoRecord
           /\ \E record \in AttestationRecord :
                 /\ attestations' = [attestations EXCEPT ![c] = record]
                 /\ record.released => attestations[c].released
                 /\ record.released => record.status = "verified"
           /\ UNCHANGED <<images, components, networks, profiles, keys, builds, orphaned>>
  <1>1. attestations[c] \in AttestationRecord
    BY DEF SubmitAttestationResult, EntitiesType
  <1>2. PICK status \in {"verified", "failed", "pending"}, dcap \in BOOLEAN :
            attestations' = [attestations EXCEPT ![c] =
                [status |-> status,
                 released |-> attestations[c].released /\ status = "verified" /\ dcap]]
    BY DEF SubmitAttestationResult, EntitiesType
  <1> DEFINE record == [status |-> status,
                        released |-> attestations[c].released /\ status = "verified" /\ dcap]
  <1>3. record \in AttestationRecord
    BY <1>1 DEF AttestationRecord
  <1>4. /\ record.released => attestations[c].released
        /\ record.released => record.status = "verified"
    OBVIOUS
  <1>5. QED
    BY <1>2, <1>3, <1>4 DEF SubmitAttestationResult

\* Records that belong to c are removed, the others stay.
LEMMA NotOfEffect ==
    ASSUME NEW S, NEW owned \in [S -> Component \cup {NoRecord}], NEW c \in Component
    PROVE  /\ NotOf(c, owned) \in [S -> Component \cup {NoRecord}]
           /\ \A x \in S : NotOf(c, owned)[x] # NoRecord
                 => NotOf(c, owned)[x] = owned[x] /\ owned[x] # c
  BY DEF NotOf

(***************************************************************************)
(* Types.                                                                  *)
(***************************************************************************)

\* The actions that change no entity but images.
LEMMA ImageTypeStep ==
    ASSUME TypeOK, NEW i \in Image,
           SaveImage(i) \/ DeleteImage(i) \/ \E b \in Build : Register(b, i)
    PROVE  TypeOK'
  <1>1. ImagesType /\ BuildsType /\ EntitiesType /\ orphaned \subseteq Image
    BY TypeParts
  <1>2. UNCHANGED <<components, networks, profiles, attestations, keys>>
    BY DEF SaveImage, DeleteImage, Register, Entities
  <1>3. EntitiesType'
    BY <1>1, <1>2 DEF EntitiesType
  <1>4. ImagesType' /\ orphaned' \subseteq Image
    <2>1. CASE SaveImage(i)
      BY <1>1, <2>1 DEF SaveImage, ImagesType, Vulnerability
    <2>2. CASE DeleteImage(i)
      BY <1>1, <2>2 DEF DeleteImage, SetImage, ImagesType
    <2>3. ASSUME NEW b \in Build, Register(b, i)
          PROVE  ImagesType' /\ orphaned' \subseteq Image
      BY <1>1, <2>3 DEF Register, SetImage, ImagesType, Vulnerability
    <2>4. QED
      BY <2>1, <2>2, <2>3
  <1>5. BuildsType'
    <2>1. [image |-> i, worker |-> "registered", watcher |-> "none"] \in BuildRecord
      BY DEF BuildRecord
    <2>2. ASSUME NEW b \in Build, Register(b, i)
          PROVE  BuildsType'
      BY <1>1, <2>1, <2>2 DEF Register, BuildsType
    <2>3. CASE SaveImage(i) \/ DeleteImage(i)
      BY <1>1, <2>3 DEF SaveImage, DeleteImage, BuildsType
    <2>4. QED
      BY <2>2, <2>3
  <1>6. QED
    BY <1>3, <1>4, <1>5, NextTypeParts

\* What may happen to the other entities
EntityAction ==
    \/ \E n \in Network : SaveNetwork(n) \/ DeleteNetwork(n)
    \/ \E c \in Component : ComponentStep(c)
    \/ \E p \in Profile : SaveEnclave(p) \/ DeleteEnclave(p)
    \/ \E k \in Key : SaveEnclaveKey(k) \/ DeleteEnclaveKey(k)
    \/ RunAttestation

\* The other entities' actions leave images and builds alone.
LEMMA EntityActionFrame == EntityAction => UNCHANGED <<images, builds, orphaned>>
  BY DEF EntityAction, ComponentStep, BatchItem, SaveNetwork, DeleteNetwork, SaveComponent,
         DeleteComponent, DeployComponent, ScaleComponent, UpgradeComponent,
         SubmitAttestationResult, SaveEnclave, DeleteEnclave, SaveEnclaveKey,
         DeleteEnclaveKey, RunAttestation

\* Each of them keeps the types.
LEMMA EntityTypeStep == EntitiesType /\ EntityAction => EntitiesType'
  <1> SUFFICES ASSUME EntitiesType, EntityAction PROVE EntitiesType'
    OBVIOUS
  <1> USE DEF EntitiesType
  <1>1. ASSUME NEW n \in Network, SaveNetwork(n) \/ DeleteNetwork(n)
        PROVE  EntitiesType'
    BY <1>1 DEF SaveNetwork, DeleteNetwork
  <1>2. ASSUME NEW p \in Profile, SaveEnclave(p) \/ DeleteEnclave(p)
        PROVE  EntitiesType'
    BY <1>2 DEF SaveEnclave, DeleteEnclave
  <1>3. ASSUME NEW k \in Key, SaveEnclaveKey(k) \/ DeleteEnclaveKey(k)
        PROVE  EntitiesType'
    BY <1>3 DEF SaveEnclaveKey, DeleteEnclaveKey
  <1>4. CASE RunAttestation
    BY <1>4, RunEffect
  <1>5. ASSUME NEW c \in Component, SaveComponent(c)
        PROVE  EntitiesType'
    BY <1>5 DEF SaveComponent
  <1>6. ASSUME NEW c \in Component, DeleteComponent(c)
        PROVE  EntitiesType'
    BY <1>6, NotOfEffect DEF DeleteComponent
  <1>7. ASSUME NEW c \in Component, BatchItem(c) \/ UpgradeComponent(c)
        PROVE  EntitiesType'
    <2>1. components' \in [Component -> ComponentRecord \cup {NoRecord}]
      BY <1>7, CommandEffect, StatusEffect
    <2>2. attestations' \in [Component -> AttestationRecord \cup {NoRecord}]
      BY <1>7, CommandEffect, AttestedType
    <2>3. QED
      BY <1>7, <2>1, <2>2, CommandEffect
  <1>8. ASSUME NEW c \in Component, SubmitAttestationResult(c)
        PROVE  EntitiesType'
    BY <1>8, SubmitEffect
  <1>9. QED
    BY <1>1, <1>2, <1>3, <1>4, <1>5, <1>6, <1>7, <1>8 DEF EntityAction, ComponentStep

\* The steps, sorted by what they touch.
LEMMA NextCases ==
    Next => \/ \E b \in Build : BuildStep(b)
            \/ \E i \in Image :
                  SaveImage(i) \/ DeleteImage(i) \/ \E b \in Build : Register(b, i)
            \/ EntityAction
            \/ Restart
  BY DEF Next, EntityAction

\* Types are kept by every step.
LEMMA TypeStep == TypeOK /\ [Next]_vars => TypeOK'
  <1> SUFFICES ASSUME TypeOK, [Next]_vars PROVE TypeOK'
    OBVIOUS
  <1>1. ImagesType /\ BuildsType /\ EntitiesType /\ orphaned \subseteq Image
    BY TypeParts
  <1>2. ASSUME NEW b \in Build, BuildStep(b)
        PROVE  TypeOK'
    <2>1. ImagesType' /\ BuildsType' /\ orphaned' \subseteq Image
      BY <1>1, <1>2, BuildStepEffect DEF StepEffect
    <2>2. EntitiesType'
      BY <1>1, <1>2, BuildStepKeeps DEF EntitiesType
    <2>3. QED
      BY <2>1, <2>2, NextTypeParts
  <1>3. CASE EntityAction
    <2>1. UNCHANGED <<images, builds, orphaned>>
      BY <1>3, EntityActionFrame
    <2>2. EntitiesType'
      BY <1>1, <1>3, EntityTypeStep
    <2>3. QED
      BY <1>1, <2>1, <2>2, NextTypeParts DEF ImagesType, BuildsType
  <1>4. CASE Restart
    <2>1. UNCHANGED <<images, components, networks, profiles, attestations, keys>>
      BY <1>4 DEF Restart, snapshot
    <2>2. BuildsType' /\ orphaned' \subseteq Image
      BY <1>4 DEF Restart, BuildsType
    <2>3. QED
      BY <1>1, <2>1, <2>2, NextTypeParts DEF ImagesType, EntitiesType
  <1>5. CASE UNCHANGED vars
    BY <1>1, <1>5, NextTypeParts DEF vars, snapshot, ImagesType, BuildsType, EntitiesType
  <1>6. QED
    BY <1>2, <1>3, <1>4, <1>5, ImageTypeStep, NextCases

\* The body of Init
Seed(c, i, n, p, k, s) ==
    /\ images = [x \in Image |-> IF x = i THEN "low" ELSE NoRecord]
    /\ components = [x \in Component |-> IF x = c
           THEN [image |-> i, networks |-> {n}, isolation |-> "enclave", status |-> "draft"]
           ELSE NoRecord]
    /\ networks = [x \in Network |-> IF x = n THEN s ELSE NoRecord]
    /\ profiles = [x \in Profile |-> IF x = p THEN c ELSE NoRecord]
    /\ attestations = [x \in Component |-> IF x = c THEN Pending ELSE NoRecord]
    /\ keys = [x \in Key |-> IF x = k THEN c ELSE NoRecord]
    /\ builds = [b \in Build |-> Idle]
    /\ orphaned = {}

\* The seed, with its identifiers as witnesses.
LEMMA InitIsSeed ==
    Init => \E c \in Component, i \in Image, n \in Network, p \in Profile, k \in Key,
               s \in Segment : Seed(c, i, n, p, k, s)
  BY DEF Init, Seed

\* Every variable always holds a value of its type.
THEOREM TypeCorrect == Spec => []TypeOK
  <1>1. Init => TypeOK
    <2> SUFFICES ASSUME Init PROVE TypeOK
      OBVIOUS
    <2>1. PICK c \in Component, i \in Image, n \in Network, p \in Profile, k \in Key,
               s \in Segment : Seed(c, i, n, p, k, s)
      BY InitIsSeed
    <2>2. [image |-> i, networks |-> {n}, isolation |-> "enclave", status |-> "draft"]
              \in ComponentRecord
      BY DEF ComponentRecord, Isolation, ComponentStatus
    <2>3. "low" \in Vulnerability
      BY DEF Vulnerability
    <2>4. QED
      BY <2>1, <2>2, <2>3, AttestedType DEF Seed, TypeOK
  <1>2. QED
    BY <1>1, TypeStep, PTL DEF Spec

(***************************************************************************)
(* References.                                                             *)
(***************************************************************************)

\* References survive when no entity changes and no image goes.
LEMMA ImagesKept ==
    ASSUME ReferencesExist, UNCHANGED <<components, networks, profiles, attestations, keys>>,
           \A i \in Image : images[i] # NoRecord => images'[i] # NoRecord,
           components \in [Component -> ComponentRecord \cup {NoRecord}]
    PROVE  ReferencesExist'
  <1>1. \A c \in Component : findComponent(c) => components[c].image \in Image
    BY DEF findComponent, ComponentRecord
  <1>2. QED
    BY <1>1 DEF ReferencesExist, findComponent, imageExists, networkExists

\* So they do when the status of a component changes.
LEMMA CommandReferences ==
    ASSUME TypeOK, ReferencesExist, NEW c \in Component, BatchItem(c) \/ UpgradeComponent(c)
    PROVE  ReferencesExist'
  <1>1. EntitiesType
    BY TypeParts
  <1>2. /\ findComponent(c)
        /\ \A x \in Component \ {c} : components'[x] = components[x]
        /\ components'[c] # NoRecord
        /\ components'[c].image = components[c].image
        /\ components'[c].networks = components[c].networks
    BY <1>1, CommandEffect, StatusEffect
  <1>3. /\ \/ UNCHANGED attestations
           \/ attestations' = [attestations EXCEPT ![c] = Pending]
        /\ UNCHANGED <<images, networks, profiles, keys>>
    BY <1>1, CommandEffect
  <1>4. \A x \in Component : /\ findComponent(x)' <=> findComponent(x)
                             /\ findComponent(x) =>
                                   /\ components'[x].image = components[x].image
                                   /\ components'[x].networks = components[x].networks
    BY <1>2 DEF findComponent
  <1>5. \A x \in Component : attestations'[x] # NoRecord => findComponent(x)
    BY <1>1, <1>2, <1>3 DEF ReferencesExist, EntitiesType
  <1>6. \A p \in Profile : profiles[p] # NoRecord => profiles[p] \in Component
    BY <1>1 DEF EntitiesType
  <1>7. \A k \in Key : keys[k] # NoRecord => keys[k] \in Component
    BY <1>1 DEF EntitiesType
  <1>8. QED
    BY <1>3, <1>4, <1>5, <1>6, <1>7 DEF ReferencesExist, imageExists, networkExists

\* Deleting a component deletes what refers to it.
LEMMA DeleteReferences ==
    ASSUME TypeOK, ReferencesExist, NEW c \in Component, DeleteComponent(c)
    PROVE  ReferencesExist'
  <1>1. EntitiesType
    BY TypeParts
  <1>2. /\ components' = [components EXCEPT ![c] = NoRecord]
        /\ profiles' = NotOf(c, profiles) /\ keys' = NotOf(c, keys)
        /\ attestations' = [attestations EXCEPT ![c] = NoRecord]
        /\ UNCHANGED <<images, networks>>
    BY DEF DeleteComponent
  <1>3. \A x \in Component \ {c} : findComponent(x) => findComponent(x)'
    BY <1>1, <1>2 DEF findComponent, EntitiesType
  <1>4. \A x \in Component : findComponent(x)' => components'[x] = components[x] /\ findComponent(x)
    BY <1>1, <1>2 DEF findComponent, EntitiesType
  <1>5. \A x \in Component : attestations'[x] # NoRecord => x # c /\ attestations[x] # NoRecord
    BY <1>1, <1>2 DEF EntitiesType
  <1>6. /\ \A p \in Profile : profiles'[p] # NoRecord
               => profiles'[p] = profiles[p] /\ profiles[p] # c /\ profiles[p] \in Component
        /\ \A k \in Key : keys'[k] # NoRecord
               => keys'[k] = keys[k] /\ keys[k] # c /\ keys[k] \in Component
    BY <1>1, <1>2, NotOfEffect DEF EntitiesType
  <1>7. QED
    BY <1>2, <1>3, <1>4, <1>5, <1>6 DEF ReferencesExist, imageExists, networkExists

\* Saving a component checks its image and networks.
LEMMA SaveReferences ==
    ASSUME TypeOK, ReferencesExist, NEW c \in Component, SaveComponent(c)
    PROVE  ReferencesExist'
  <1>1. EntitiesType
    BY TypeParts
  <1>2. PICK component \in ComponentRecord :
            /\ imageExists(component.image)
            /\ \A n \in component.networks : networkExists(n)
            /\ components' = [components EXCEPT ![c] = component]
    BY DEF SaveComponent
  <1>3. UNCHANGED <<images, networks, profiles, attestations, keys>>
    BY DEF SaveComponent
  <1>4. component # NoRecord
    BY NoRecordAssumption
  <1>5. /\ components'[c] = component
        /\ \A x \in Component \ {c} : components'[x] = components[x]
    BY <1>1, <1>2 DEF EntitiesType
  <1>6. \A x \in Component : findComponent(x) => findComponent(x)'
    BY <1>4, <1>5 DEF findComponent
  <1>7. /\ \A p \in Profile : profiles[p] # NoRecord => profiles[p] \in Component
        /\ \A k \in Key : keys[k] # NoRecord => keys[k] \in Component
    BY <1>1 DEF EntitiesType
  <1>8. \A x \in Component : components'[x] # NoRecord =>
            /\ imageExists(components'[x].image)
            /\ \A n \in components'[x].networks : networkExists(n)
    BY <1>2, <1>5 DEF ReferencesExist, findComponent
  <1>9. QED
    BY <1>3, <1>6, <1>7, <1>8 DEF ReferencesExist, findComponent, imageExists, networkExists

\* A network goes only while no component uses it.
LEMMA NetworkReferences ==
    ASSUME TypeOK, ReferencesExist, NEW n \in Network, SaveNetwork(n) \/ DeleteNetwork(n)
    PROVE  ReferencesExist'
  <1>1. EntitiesType
    BY TypeParts
  <1>2. UNCHANGED <<images, components, profiles, attestations, keys>>
    BY DEF SaveNetwork, DeleteNetwork
  <1>3. \A c \in Component : findComponent(c) => components[c].networks \subseteq Network
    BY <1>1 DEF EntitiesType, findComponent, ComponentRecord
  <1>4. CASE SaveNetwork(n)
    <2>1. PICK s \in Segment \cup {NoSegment} : networks' = [networks EXCEPT ![n] = s]
      BY <1>4 DEF SaveNetwork
    <2>2. s # NoRecord
      BY NoRecordAssumption
    <2>3. \A m \in Network : networkExists(m) => networkExists(m)'
      BY <1>1, <2>1, <2>2 DEF EntitiesType, networkExists
    <2>4. QED
      BY <1>2, <1>3, <2>3 DEF ReferencesExist, findComponent, imageExists
  <1>5. CASE DeleteNetwork(n)
    <2>1. \A m \in Network \ {n} : networkExists(m) => networkExists(m)'
      BY <1>1, <1>5 DEF DeleteNetwork, EntitiesType, networkExists
    <2>2. \A c \in Component : findComponent(c) => n \notin components[c].networks
      BY <1>5 DEF DeleteNetwork
    <2>3. QED
      BY <1>2, <1>3, <2>1, <2>2 DEF ReferencesExist, findComponent, imageExists
  <1>6. QED
    BY <1>4, <1>5

\* One case for each kind of entity.
LEMMA EntityReferences ==
    ASSUME TypeOK, ReferencesExist, EntityAction
    PROVE  ReferencesExist'
  <1>1. EntitiesType
    BY TypeParts
  <1> USE DEF ReferencesExist, findComponent, imageExists, networkExists
  <1>2. ASSUME NEW p \in Profile, SaveEnclave(p) \/ DeleteEnclave(p)
        PROVE  ReferencesExist'
    BY <1>1, <1>2 DEF SaveEnclave, DeleteEnclave, IsEnclave, EntitiesType
  <1>3. ASSUME NEW k \in Key, SaveEnclaveKey(k) \/ DeleteEnclaveKey(k)
        PROVE  ReferencesExist'
    BY <1>1, <1>3 DEF SaveEnclaveKey, DeleteEnclaveKey, EntitiesType
  <1>4. CASE RunAttestation
    <2>1. \A c \in Component : attestations'[c] = attestations[c] \/ IsEnclave(c)
      BY <1>1, <1>4, RunEffect
    <2>2. UNCHANGED <<images, components, networks, profiles, keys>>
      BY <1>4 DEF RunAttestation
    <2>3. QED
      BY <2>1, <2>2 DEF IsEnclave
  <1>5. ASSUME NEW c \in Component, SubmitAttestationResult(c)
        PROVE  ReferencesExist'
    <2>1. /\ attestations[c] # NoRecord
          /\ \E record : attestations' = [attestations EXCEPT ![c] = record]
          /\ UNCHANGED <<images, components, networks, profiles, keys>>
      BY <1>1, <1>5, SubmitEffect
    <2>2. \A x \in Component \ {c} : attestations'[x] = attestations[x]
      BY <1>1, <2>1 DEF EntitiesType
    <2>3. QED
      BY <2>1, <2>2
  <1>6. QED
    BY <1>2, <1>3, <1>4, <1>5, CommandReferences, DeleteReferences, SaveReferences,
       NetworkReferences DEF EntityAction, ComponentStep

\* References are kept by every step.
LEMMA ReferencesStep == TypeOK /\ ReferencesExist /\ [Next]_vars => ReferencesExist'
  <1> SUFFICES ASSUME TypeOK, ReferencesExist, [Next]_vars PROVE ReferencesExist'
    OBVIOUS
  <1>1. ImagesType /\ BuildsType /\ EntitiesType /\ orphaned \subseteq Image
    BY TypeParts
  <1>2. components \in [Component -> ComponentRecord \cup {NoRecord}]
    BY <1>1 DEF EntitiesType
  <1>3. ASSUME NEW b \in Build, BuildStep(b)
        PROVE  ReferencesExist'
    BY <1>1, <1>2, <1>3, BuildStepEffect, BuildStepKeeps, ImagesKept DEF StepEffect
  <1>4. ASSUME NEW i \in Image, SaveImage(i) \/ \E b \in Build : Register(b, i)
        PROVE  ReferencesExist'
    <2>1. UNCHANGED <<components, networks, profiles, attestations, keys>>
      BY <1>4 DEF SaveImage, Register, Entities
    <2>2. \E v \in Vulnerability : images' = [images EXCEPT ![i] = v]
      BY <1>4 DEF SaveImage, Register, SetImage, Vulnerability
    <2>3. \A x \in Image : images[x] # NoRecord => images'[x] # NoRecord
      BY <1>1, <2>2, NoRecordAssumption DEF ImagesType
    <2>4. QED
      BY <1>2, <2>1, <2>3, ImagesKept
  <1>5. ASSUME NEW i \in Image, DeleteImage(i)
        PROVE  ReferencesExist'
    <2>1. \A c \in Component : findComponent(c) => components[c].image # i
      BY <1>5 DEF DeleteImage
    <2>2. \A x \in Image \ {i} : images'[x] = images[x]
      BY <1>1, <1>5 DEF DeleteImage, SetImage, ImagesType
    <2>3. \A c \in Component : findComponent(c) => components[c].image \in Image
      BY <1>2 DEF findComponent, ComponentRecord
    <2>4. UNCHANGED <<components, networks, profiles, attestations, keys>>
      BY <1>5 DEF DeleteImage, Entities
    <2>5. QED
      BY <2>1, <2>2, <2>3, <2>4 DEF ReferencesExist, findComponent, imageExists, networkExists
  <1>6. CASE Restart \/ UNCHANGED vars
    BY <1>2, <1>6, ImagesKept DEF Restart, vars, snapshot
  <1>7. QED
    BY <1>3, <1>4, <1>5, <1>6, EntityReferences, NextCases

\* No record ever names one that has been deleted.
THEOREM ReferencesCorrect == Spec => []ReferencesExist
  <1>1. Init => ReferencesExist
    <2> SUFFICES ASSUME Init PROVE ReferencesExist
      OBVIOUS
    <2>1. PICK c \in Component, i \in Image, n \in Network, p \in Profile, k \in Key,
               s \in Segment : Seed(c, i, n, p, k, s)
      BY InitIsSeed
    <2>2. /\ images[i] = "low"
          /\ components[c] = [image |-> i, networks |-> {n}, isolation |-> "enclave",
                              status |-> "draft"]
          /\ networks[n] = s
      BY <2>1 DEF Seed
    <2>3. /\ \A x \in Component \ {c} : components[x] = NoRecord /\ attestations[x] = NoRecord
          /\ \A x \in Profile : profiles[x] \in {c, NoRecord}
          /\ \A x \in Key : keys[x] \in {c, NoRecord}
      BY <2>1 DEF Seed
    <2>4. components[c] # NoRecord /\ images[i] # NoRecord /\ networks[n] # NoRecord
      <3>1. components[c] \in ComponentRecord
        BY <2>2 DEF ComponentRecord, Isolation, ComponentStatus
      <3>2. QED
        BY <2>2, <3>1, NoRecordAssumption DEF Vulnerability
    <2>5. components[c].image = i /\ components[c].networks = {n}
      BY <2>2
    <2>6. QED
      BY <2>3, <2>4, <2>5 DEF ReferencesExist, findComponent, imageExists, networkExists
  <1>2. QED
    BY <1>1, ReferencesStep, TypeCorrect, PTL DEF Spec

(***************************************************************************)
(* Builds.                                                                 *)
(***************************************************************************)

\* Build b explains that image i is scanning.
Explains(b, i) == builds[b] # Idle /\ builds[b].image = i /\ MayReport(b)

\* ScanningIsExplained in terms of Explains.
LEMMA ExplainedBy ==
    ScanningIsExplained <=>
        \A i \in Image : images[i] = "scanning" =>
            i \in orphaned \/ \E b \in Build : Explains(b, i)
  BY DEF ScanningIsExplained, Scanning, Explains, MayReport

\* The same of the next state.
LEMMA NextExplainedBy ==
    ASSUME \A i \in Image : images'[i] = "scanning" =>
               i \in orphaned' \/ \E b \in Build : Explains(b, i)'
    PROVE  ScanningIsExplained'
  BY DEF ScanningIsExplained, Scanning, Explains, MayReport

\* A step of a build: its own image is explained by the build itself or given
\* up; any other image was and is explained by another build.
LEMMA BuildExplains ==
    ASSUME TypeOK, ScanningIsExplained, NEW b \in Build, BuildStep(b)
    PROVE  ScanningIsExplained'
  <1>1. StepEffect(b)
    BY TypeParts, BuildStepEffect
  <1>2. \A x \in Build \ {b}, i \in Image : Explains(x, i) => Explains(x, i)'
    BY <1>1 DEF StepEffect, Explains, MayReport
  <1>3. SUFFICES ASSUME NEW i \in Image, images'[i] = "scanning", i \notin orphaned'
                 PROVE  \E x \in Build : Explains(x, i)'
    BY NextExplainedBy
  <1>4. images[i] = "scanning" /\ i \notin orphaned
    BY <1>1, <1>3 DEF StepEffect
  <1>5. PICK x \in Build : Explains(x, i)
    BY <1>4, ExplainedBy
  <1>6. CASE x # b
    BY <1>2, <1>5, <1>6
  <1>7. CASE x = b
    <2>1. builds[b].image = i /\ MayReport(b)
      BY <1>5, <1>7 DEF Explains
    <2>2. builds'[b] # Idle /\ builds'[b].image = builds[b].image /\ MayReport(b)'
      BY <1>1, <1>3, <2>1 DEF StepEffect
    <2>3. Explains(b, i)'
      BY <2>1, <2>2 DEF Explains
    <2>4. QED
      BY <2>3
  <1>8. QED
    BY <1>6, <1>7

\* A write of one image that is explained keeps the others explained.
LEMMA OneImage ==
    ASSUME TypeOK, ScanningIsExplained, NEW i \in Image,
           \A x \in Image \ {i} : images'[x] = images[x] /\ (x \in orphaned => x \in orphaned'),
           \A b \in Build : builds[b] # Idle => builds'[b] = builds[b],
           images'[i] = "scanning" => i \in orphaned' \/ \E b \in Build : Explains(b, i)'
    PROVE  ScanningIsExplained'
  <1>1. \A b \in Build, x \in Image : Explains(b, x) => Explains(b, x)'
    BY DEF Explains, MayReport
  <1>2. \A x \in Image \ {i} : images'[x] = "scanning" =>
            x \in orphaned' \/ \E b \in Build : Explains(b, x)'
    BY <1>1, ExplainedBy
  <1>3. QED
    BY <1>2, NextExplainedBy

\* Every step leaves each scanning image with a reason.
LEMMA ScanningStep == TypeOK /\ ScanningIsExplained /\ [Next]_vars => ScanningIsExplained'
  <1> SUFFICES ASSUME TypeOK, ScanningIsExplained, [Next]_vars PROVE ScanningIsExplained'
    OBVIOUS
  <1>1. ImagesType /\ BuildsType
    BY TypeParts
  <1>2. ASSUME NEW b \in Build, NEW i \in Image, Register(b, i)
        PROVE  ScanningIsExplained'
    <2>1. /\ builds[b] = Idle /\ SetImage(i, "scanning")
          /\ builds' = [builds EXCEPT ![b] =
                [image |-> i, worker |-> "registered", watcher |-> "none"]]
      BY <1>2 DEF Register
    <2>2. \A x \in Image \ {i} : images'[x] = images[x] /\ (x \in orphaned => x \in orphaned')
      BY <1>1, <2>1 DEF SetImage, ImagesType
    <2>3. \A x \in Build : builds[x] # Idle => builds'[x] = builds[x]
      BY <1>1, <2>1 DEF BuildsType
    <2>4. builds'[b] = [image |-> i, worker |-> "registered", watcher |-> "none"]
      BY <1>1, <2>1 DEF BuildsType
    <2>5. builds'[b] # Idle
      <3>1. [image |-> i, worker |-> "registered", watcher |-> "none"] \in BuildRecord
        BY DEF BuildRecord
      <3>2. QED
        BY <2>4, <3>1, NoRecordAssumption
    <2>6. Explains(b, i)'
      BY <2>4, <2>5 DEF Explains, MayReport
    <2>7. QED
      BY <2>2, <2>3, <2>6, OneImage
  <1>3. ASSUME NEW i \in Image, SaveImage(i) \/ DeleteImage(i)
        PROVE  ScanningIsExplained'
    <2>1. builds' = builds
      BY <1>3 DEF SaveImage, DeleteImage
    <2>2. \A x \in Image \ {i} : images'[x] = images[x] /\ (x \in orphaned => x \in orphaned')
      BY <1>1, <1>3 DEF SaveImage, DeleteImage, SetImage, ImagesType
    <2>3. images'[i] = "scanning" => i \in orphaned'
      <3>1. CASE SaveImage(i)
        BY <1>1, <3>1 DEF SaveImage, ImagesType
      <3>2. CASE DeleteImage(i)
        BY <1>1, <3>2, NoRecordAssumption DEF DeleteImage, SetImage, ImagesType, Vulnerability
      <3>3. QED
        BY <1>3, <3>1, <3>2
    <2>4. QED
      BY <2>1, <2>2, <2>3, OneImage
  <1>4. CASE EntityAction \/ UNCHANGED vars
    <2>1. UNCHANGED <<images, builds, orphaned>>
      BY <1>4, EntityActionFrame DEF vars, snapshot
    <2>2. QED
      BY <2>1 DEF ScanningIsExplained, Scanning
  <1>5. CASE Restart
    BY <1>5 DEF Restart, snapshot, ScanningIsExplained, Scanning
  <1>6. QED
    BY <1>2, <1>3, <1>4, <1>5, BuildExplains, NextCases

\* An image never stays "scanning" without a build that will still report,
\* unless a restart, a failing write or an edit left it so.
THEOREM ScanningCorrect == Spec => []ScanningIsExplained
  <1>1. Init => ScanningIsExplained
    BY NoRecordAssumption DEF Init, ScanningIsExplained, Scanning, Vulnerability
  <1>2. QED
    BY <1>1, ScanningStep, TypeCorrect, PTL DEF Spec

\* The steps of a build never bring back an image that was deleted.
THEOREM BuildsReviveNothing == Spec => BuildsCreateNoImage
  <1>1. TypeOK /\ [Next]_vars =>
            [(\E b \in Build : BuildStep(b))
                => \A i \in Image : images[i] = NoRecord => images'[i] = NoRecord]_vars
    BY TypeParts, BuildStepEffect DEF StepEffect
  <1>2. QED
    BY <1>1, TypeCorrect, PTL DEF Spec, BuildsCreateNoImage

(***************************************************************************)
(* Secrets.                                                                *)
(***************************************************************************)

\* The steps that do not touch attestations, and those that do.
LEMMA AttestationCases ==
    ASSUME TypeOK, [Next]_vars
    PROVE  \/ UNCHANGED attestations
           \/ RunAttestation
           \/ \E c \in Component : SubmitAttestationResult(c)
           \/ \E c \in Component, record \in {Pending, NoRecord} :
                 attestations' = [attestations EXCEPT ![c] = record]
  <1>1. EntitiesType
    BY TypeParts
  <1>2. ASSUME NEW b \in Build, BuildStep(b)
        PROVE  UNCHANGED attestations
    BY <1>2, BuildStepKeeps
  <1>3. ASSUME NEW i \in Image, NEW b \in Build, SaveImage(i) \/ DeleteImage(i) \/ Register(b, i)
        PROVE  UNCHANGED attestations
    BY <1>3 DEF SaveImage, DeleteImage, Register, Entities
  <1>4. ASSUME NEW i \in Image, SaveImage(i) \/ DeleteImage(i)
        PROVE  UNCHANGED attestations
    BY <1>4 DEF SaveImage, DeleteImage, Entities
  <1>5. ASSUME NEW n \in Network, SaveNetwork(n) \/ DeleteNetwork(n)
        PROVE  UNCHANGED attestations
    BY <1>5 DEF SaveNetwork, DeleteNetwork
  <1>6. ASSUME NEW p \in Profile, SaveEnclave(p) \/ DeleteEnclave(p)
        PROVE  UNCHANGED attestations
    BY <1>6 DEF SaveEnclave, DeleteEnclave
  <1>7. ASSUME NEW k \in Key, SaveEnclaveKey(k) \/ DeleteEnclaveKey(k)
        PROVE  UNCHANGED attestations
    BY <1>7 DEF SaveEnclaveKey, DeleteEnclaveKey
  <1>8. ASSUME NEW c \in Component, BatchItem(c) \/ UpgradeComponent(c)
        PROVE  \/ UNCHANGED attestations
               \/ attestations' = [attestations EXCEPT ![c] = Pending]
    BY <1>1, <1>8, CommandEffect
  <1>9. ASSUME NEW c \in Component, SaveComponent(c) \/ DeleteComponent(c)
        PROVE  \/ UNCHANGED attestations
               \/ attestations' = [attestations EXCEPT ![c] = NoRecord]
    BY <1>9 DEF SaveComponent, DeleteComponent
  <1>10. CASE Restart \/ UNCHANGED vars
    BY <1>10 DEF Restart, vars, snapshot
  <1>11. QED
    BY <1>2, <1>3, <1>4, <1>5, <1>6, <1>7, <1>8, <1>9, <1>10, NextCases
       DEF EntityAction, ComponentStep

\* A submitted result releases only what was released, and only as "verified".
LEMMA SubmissionReleases ==
    ASSUME TypeOK, NEW x \in Component, SubmitAttestationResult(x), NEW c \in Component,
           attestations'[c] # NoRecord, attestations'[c].released
    PROVE  \/ attestations'[c] = attestations[c]
           \/ /\ attestations'[c].status = "verified"
              /\ attestations[c] # NoRecord /\ attestations[c].released
  <1>1. EntitiesType
    BY TypeParts
  <1>2. PICK record \in AttestationRecord :
            /\ attestations' = [attestations EXCEPT ![x] = record]
            /\ record.released => attestations[x].released
            /\ record.released => record.status = "verified"
    BY <1>1, SubmitEffect
  <1>3. attestations[x] # NoRecord
    BY <1>1, SubmitEffect
  <1>4. CASE x = c
    BY <1>1, <1>2, <1>3, <1>4 DEF EntitiesType
  <1>5. CASE x # c
    BY <1>1, <1>2, <1>5 DEF EntitiesType
  <1>6. QED
    BY <1>4, <1>5

\* What one step does to an attestation whose secrets are released after it: it
\* stays, a proof replaces it, or a result from outside follows a release.
LEMMA AttestationStep ==
    ASSUME TypeOK, [Next]_vars, NEW c \in Component,
           attestations'[c] # NoRecord, attestations'[c].released
    PROVE  \/ attestations'[c] = attestations[c]
           \/ /\ attestations'[c].status = "verified"
              /\ \/ RunAttestation /\ IsEnclave(c) /\ enclaveExists(c)
                 \/ attestations[c] # NoRecord /\ attestations[c].released
  <1>1. EntitiesType
    BY TypeParts
  <1>2. CASE RunAttestation
    BY <1>1, <1>2, RunEffect, AttestedType
  <1>3. ASSUME NEW x \in Component, SubmitAttestationResult(x)
        PROVE  \/ attestations'[c] = attestations[c]
               \/ /\ attestations'[c].status = "verified"
                  /\ attestations[c] # NoRecord /\ attestations[c].released
    BY <1>3, SubmissionReleases
  <1>4. ASSUME NEW x \in Component, NEW record \in {Pending, NoRecord},
               attestations' = [attestations EXCEPT ![x] = record]
        PROVE  attestations'[c] = attestations[c]
    BY <1>1, <1>4, AttestedType DEF EntitiesType
  <1>5. QED
    BY <1>2, <1>3, <1>4, AttestationCases

\* Secrets are only ever released while the last result is "verified".
THEOREM ReleaseCorrect == Spec => []ReleasedMeansVerified
  <1>1. Init => ReleasedMeansVerified
    BY AttestedType DEF Init, ReleasedMeansVerified
  <1>2. TypeOK /\ ReleasedMeansVerified /\ [Next]_vars => ReleasedMeansVerified'
    BY AttestationStep DEF ReleasedMeansVerified
  <1>3. QED
    BY <1>1, <1>2, TypeCorrect, PTL DEF Spec

\* A step that releases secrets is the platform's own attestation, of an enclave
\* component with a profile, and no submission of a result.
THEOREM ReleaseNeedsProof == Spec => SecretsReleasedOnlyByProof
  <1>1. ASSUME TypeOK, [Next]_vars, NEW c \in Component, Released(c)', ~Released(c)
        PROVE  RunAttestation /\ IsEnclave(c) /\ enclaveExists(c)
    BY <1>1, AttestationStep DEF Released
  <1>2. ASSUME TypeOK, [Next]_vars, NEW c \in Component, Released(c)', ~Released(c)
        PROVE  ~SubmitAttestationResult(c)
    BY <1>2, SubmissionReleases DEF Released
  <1>3. TypeOK /\ [Next]_vars =>
            [\A c \in Component : Released(c)' /\ ~Released(c)
                => /\ RunAttestation
                   /\ IsEnclave(c) /\ enclaveExists(c)
                   /\ ~SubmitAttestationResult(c)]_vars
    BY <1>1, <1>2
  <1>4. QED
    BY <1>3, TypeCorrect, PTL DEF Spec, SecretsReleasedOnlyByProof

===============================================================================
