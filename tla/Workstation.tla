----------------------------- MODULE Workstation -----------------------------
(***************************************************************************)
(* What the yby commands of one user do on one machine, beside the cloud   *)
(* tokens, the mirror, bootstrap, scaffolding and the monitor, which have  *)
(* specifications of their own: plugins, the knowledge index, the client   *)
(* of the AI providers, the sentinel scan, the bard chat, the files of     *)
(* ~/.yby, the upgrade, the sealed secrets and the environments.           *)
(*                                                                         *)
(* Each keeps its state in files or a process of its own and no step of    *)
(* the program touches two of them, so every interleaving of all of them   *)
(* is a behaviour of each with stuttering, and a behaviour here follows    *)
(* one part, in focus, from any of its initial states.  The others keep    *)
(* one initial state.                                                      *)
(***************************************************************************)
EXTENDS PluginRegistry, KnowledgeIndex, AiClient, SentinelScan, BardChat,
        HomeFiles, SelfUpgrade, SealedKeys, Environments, AtlasScan

VARIABLE focus  \* the part this behaviour follows

Parts == {"registry", "index", "ai", "sentinel", "bard",
          "home", "upgrade", "secrets", "environments", "atlas"}

workstationVars == <<focus, registryVars, indexVars, aiVars, sentinelVars, bardVars,
                     homeVars, upgradeVars, sealedVars, envVars, atlasVars>>

TypeOK ==
    /\ focus \in Parts
    /\ RegistryTypeOK /\ IndexTypeOK /\ AiTypeOK /\ SentinelTypeOK /\ BardTypeOK
    /\ HomeTypeOK /\ UpgradeTypeOK /\ SealedTypeOK /\ EnvTypeOK
    /\ AtlasTypeOK

(* The parts out of focus keep one initial state.                          *)
Init ==
    /\ AtlasInit
    /\ focus \in Parts
    /\ RegistryInit /\ UpgradeInit /\ SealedInit
    /\ IndexInit /\ (focus # "index" => ukis = Nothing)
    /\ AiInit /\ (focus # "ai" => noBurst)
    /\ SentinelInit
    /\ focus # "sentinel" => rbac = {} /\ denies = {} /\ pods = CHOOSE ps \in [Pods -> PodSpecs] : TRUE
    /\ BardInit /\ (focus # "bard" => \A n \in ToolNames : "home" \in toolDefs[n])
    /\ HomeInit /\ (focus # "home" => homeKind = CHOOSE k \in HomeKinds : TRUE)
    /\ EnvInit /\ (focus # "environments" => envFile.current = CHOOSE c \in InitialEnvs : TRUE)
    /\ focus # "atlas" => DOMAIN project = {}

RegistryPart ==
    /\ focus = "registry" /\ RegistryNext
    /\ UNCHANGED <<focus, indexVars, aiVars, sentinelVars, bardVars,
                   homeVars, upgradeVars, sealedVars, envVars, atlasVars>>

IndexPart ==
    /\ focus = "index" /\ IndexNext
    /\ UNCHANGED <<focus, registryVars, aiVars, sentinelVars, bardVars,
                   homeVars, upgradeVars, sealedVars, envVars, atlasVars>>

AiPart ==
    /\ focus = "ai" /\ AiNext
    /\ UNCHANGED <<focus, registryVars, indexVars, sentinelVars, bardVars,
                   homeVars, upgradeVars, sealedVars, envVars, atlasVars>>

SentinelPart ==
    /\ focus = "sentinel" /\ SentinelNext
    /\ UNCHANGED <<focus, registryVars, indexVars, aiVars, bardVars,
                   homeVars, upgradeVars, sealedVars, envVars, atlasVars>>

BardPart ==
    /\ focus = "bard" /\ BardNext
    /\ UNCHANGED <<focus, registryVars, indexVars, aiVars, sentinelVars,
                   homeVars, upgradeVars, sealedVars, envVars, atlasVars>>

HomePart ==
    /\ focus = "home" /\ HomeNext
    /\ UNCHANGED <<focus, registryVars, indexVars, aiVars, sentinelVars,
                   bardVars, upgradeVars, sealedVars, envVars, atlasVars>>

UpgradePart ==
    /\ focus = "upgrade" /\ UpgradeNext
    /\ UNCHANGED <<focus, registryVars, indexVars, aiVars, sentinelVars,
                   bardVars, homeVars, sealedVars, envVars, atlasVars>>

SealedPart ==
    /\ focus = "secrets" /\ SealedNext
    /\ UNCHANGED <<focus, registryVars, indexVars, aiVars, sentinelVars,
                   bardVars, homeVars, upgradeVars, envVars, atlasVars>>

EnvPart ==
    /\ focus = "environments" /\ EnvNext
    /\ UNCHANGED <<focus, registryVars, indexVars, aiVars, sentinelVars,
                   bardVars, homeVars, upgradeVars, sealedVars, atlasVars>>

AtlasPart ==
    /\ focus = "atlas" /\ AtlasNext
    /\ UNCHANGED <<focus, registryVars, indexVars, aiVars, sentinelVars, bardVars,
                   homeVars, upgradeVars, sealedVars, envVars>>

Next ==
    \/ RegistryPart \/ IndexPart \/ AiPart \/ SentinelPart \/ BardPart
    \/ HomePart \/ UpgradePart \/ SealedPart \/ EnvPart \/ AtlasPart

Spec == Init /\ [][Next]_workstationVars
=============================================================================
