-------------------------- MODULE Workstation_proofs ------------------------
(***************************************************************************)
(* What the composition allows, each of its parts allows: a behaviour of   *)
(* the workstation is one of every part, with stuttering while another     *)
(* part moves.  So what is proved of a part holds of the workstation.      *)
(***************************************************************************)
EXTENDS Workstation, Assistants_proofs, SharedFiles_proofs

(* The initial states of the workstation are initial states of each part.  *)
LEMMA PartsStart ==
    Init => /\ RegistryInit /\ IndexInit /\ AiInit /\ SentinelInit /\ BardInit
            /\ HomeInit /\ UpgradeInit /\ SealedInit /\ EnvInit /\ AtlasInit
  BY DEF Init

(* A step of one part leaves the variables of all the others alone.        *)
LEMMA PartsMoveAlone ==
    ASSUME [Next]_workstationVars
    PROVE
           /\ [RegistryNext]_registryVars
           /\ [IndexNext]_indexVars
           /\ [AiNext]_aiVars
           /\ [SentinelNext]_sentinelVars
           /\ [BardNext]_bardVars
           /\ [HomeNext]_homeVars
           /\ [UpgradeNext]_upgradeVars
           /\ [SealedNext]_sealedVars
           /\ [EnvNext]_envVars
           /\ [AtlasNext]_atlasVars
  <1>1. CASE RegistryPart
    BY <1>1 DEF RegistryPart
  <1>2. CASE IndexPart
    BY <1>2 DEF IndexPart
  <1>3. CASE AiPart
    BY <1>3 DEF AiPart
  <1>4. CASE SentinelPart
    BY <1>4 DEF SentinelPart
  <1>5. CASE BardPart
    BY <1>5 DEF BardPart
  <1>6. CASE HomePart
    BY <1>6 DEF HomePart
  <1>7. CASE UpgradePart
    BY <1>7 DEF UpgradePart
  <1>8. CASE SealedPart
    BY <1>8 DEF SealedPart
  <1>9. CASE EnvPart
    BY <1>9 DEF EnvPart
  <1>10. CASE AtlasPart
    BY <1>10 DEF AtlasPart
  <1>11. CASE UNCHANGED workstationVars
    BY <1>11 DEF workstationVars
  <1>12. QED
    BY <1>1, <1>2, <1>3, <1>4, <1>5, <1>6, <1>7, <1>8, <1>9, <1>10, <1>11 DEF Next

(* A behaviour of the workstation is one of each of its parts.             *)
THEOREM Composition ==
    Spec => /\ RegistrySpec /\ IndexSpec /\ AiSpec /\ SentinelSpec /\ BardSpec
            /\ HomeSpec /\ UpgradeSpec /\ SealedSpec /\ EnvSpec /\ AtlasSpec
  BY PartsStart, PartsMoveAlone, PTL
     DEF Spec, RegistrySpec, IndexSpec, AiSpec, SentinelSpec, BardSpec, HomeSpec, UpgradeSpec,
         SealedSpec, EnvSpec, AtlasSpec

(* On the workstation: a whole program is in place or in its .bak.         *)
THEOREM WorkstationRecovers == Spec => []AlwaysRecoverable
  BY Composition, NeverLost, PTL

(* On the workstation: the current environment is defined, and every       *)
(* environment has its values file.                                        *)
THEOREM WorkstationEnvironments == Spec => []EnvironmentsHold
  BY Composition, EnvironmentsAlwaysHold, PTL

(* On the workstation: text that reached the user is never sent again.     *)
THEOREM WorkstationTextOnce == Spec => []NoTextTwice
  BY Composition, TextOnce, PTL

(* On the workstation: a call is given up only when the server failed      *)
(* during it, or the limit admits nothing.                                 *)
THEOREM WorkstationGivesUp == Spec => GivesUpOnlyOnFailures
  BY Composition, GivesUpWithReason, PTL

(* On the workstation: the circuit breaker keeps its promise.              *)
THEOREM WorkstationBreaker == Spec => KeepsBreakerPromise
  BY Composition, BreakerKept, PTL

(* On the workstation: what a plugin command is about to execute was once  *)
(* hashed and registered under that name, unless the file was replaced     *)
(* after its checksum was compared.                                        *)
THEOREM WorkstationPlugins == Spec => []RunsWhatWasTrusted
  BY Composition, TrustedIsRun, PTL

(* On the workstation: an install that no other command overlaps leaves a  *)
(* whole plugin that the registry vouches for.                             *)
THEOREM WorkstationInstalls == Spec => LoneInstallRuns
  BY Composition, LoneInstallsRun, PTL

(* On the workstation: a run that completes leaves a manifest that is true *)
(* of the store.                                                           *)
THEOREM WorkstationIndex == Spec => CompleteRunAgrees
  BY Composition, ManifestTrue, PTL

(* On the workstation: a backup that was reported done is accepted where   *)
(* and under the path it was made, and there only, what is reported        *)
(* restored is with the controller, and a cluster left without keys is     *)
(* reported.                                                               *)
THEOREM WorkstationBackup == Spec => []LastBackupRestores
  BY Composition, BackupRestores, PTL

(* On the workstation: recent events and saved credentials are lost only   *)
(* where writers overtook each other or a write was cut short.             *)
THEOREM WorkstationHome == Spec => []HomeFilesKept
  BY Composition, HomeFilesAreKept, PTL

(* On the workstation: an answer in the history comes right after its      *)
(* question, in a session that lost no line.                               *)
THEOREM WorkstationBard == Spec => []AnswersFollowQuestions
  BY Composition, AnswersInOrder, PTL

(* On the workstation: what --fix has patched, a new scan does not find,   *)
(* unless the pod was replaced or asks for user 0.                         *)
THEOREM WorkstationSentinel == Spec => []FixedFindingsGone
  BY Composition, FixesLast, PTL

(* On the workstation: the diagram shows both ends of its edges, and after *)
(* a run that nobody disturbed every selection and dependency of charts.   *)
THEOREM WorkstationAtlas == Spec => []DiagramsAgree
  BY Composition, DiagramsTrue, PTL

(* The state of every part keeps its type.                                 *)
THEOREM WorkstationTyped == Spec => []TypeOK
  <1>1. Init => focus \in Parts
    BY DEF Init
  <1>2. focus \in Parts /\ [Next]_workstationVars => (focus \in Parts)'
    BY DEF Next, workstationVars, RegistryPart, IndexPart, AiPart, SentinelPart, BardPart, HomePart,
           UpgradePart, SealedPart, EnvPart, AtlasPart
  <1>3. Spec => [](focus \in Parts)
    BY <1>1, <1>2, PTL DEF Spec
  <1>4. QED
    BY <1>3, Composition, RegistryTyped, IndexTyped, AiTyped, SentinelTyped, BardTyped, HomeTyped,
       UpgradeTyped, SealedTyped, EnvTyped, AtlasTyped, PTL DEF TypeOK
=============================================================================
