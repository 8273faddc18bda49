---------------------------- MODULE Environments ----------------------------
(***************************************************************************)
(* The environments of a project (pkg/context/context.go, cmd/env.go,      *)
(* cmd/cloud_connect.go): .yby/environments.yaml names them and says which *)
(* is current, config/values-<name>.yaml belongs to each, and kubectl has  *)
(* a current context of its own.  Each command reads the manifest, changes *)
(* its copy and writes the whole of it back; several shells may do so at   *)
(* once, and any may be killed.                                            *)
(***************************************************************************)
CONSTANTS
    EnvNames,
    NoEnv,           \* no name
    InitialEnvs,     \* those yby init wrote
    KubeContextOf,   \* the kube_context recorded with an environment, NoEnv for none
    EnvShells

ASSUME EnvConstants ==
    /\ NoEnv \notin EnvNames /\ InitialEnvs \subseteq EnvNames /\ InitialEnvs # {}
    /\ KubeContextOf \in [EnvNames -> EnvNames \union {NoEnv}]

VARIABLES
    envFile,     \* environments.yaml: whether it parses, the current name, the names it defines
    valuesFiles, \* the environments whose values file exists
    kubectl,     \* the context kubectl uses
    envCmd,      \* per shell, the command in progress
    envTorn      \* history: a write of environments.yaml was cut short

envVars == <<envFile, valuesFiles, kubectl, envCmd, envTorn>>

EnvManifests == [parses : BOOLEAN, current : EnvNames \union {NoEnv}, envs : SUBSET EnvNames]
NoEnvCmd == [pc |-> "idle", op |-> "use", name |-> NoEnv, copy |-> [parses |-> FALSE, current |-> NoEnv, envs |-> {}]]

EnvTypeOK ==
    /\ envFile \in EnvManifests /\ valuesFiles \subseteq EnvNames /\ kubectl \in EnvNames \union {NoEnv}
    /\ envCmd \in [EnvShells -> [pc : {"idle", "kubeconfig", "load", "values", "save", "context"},
                                 op : {"use", "create", "connect"}, name : EnvNames \union {NoEnv},
                                 copy : EnvManifests]]
    /\ envTorn \in BOOLEAN

EnvInit ==
    /\ envFile \in {[parses |-> TRUE, current |-> c, envs |-> InitialEnvs] : c \in InitialEnvs}
    /\ valuesFiles = InitialEnvs /\ kubectl = NoEnv
    /\ envCmd = [s \in EnvShells |-> NoEnvCmd] /\ envTorn = FALSE

(* GetCurrent: YBY_ENV comes first, and must be defined.                   *)
GetCurrent(override) ==
    LET name == IF override # NoEnv THEN override ELSE envFile.current IN
    IF envFile.parses /\ name \in envFile.envs THEN name ELSE NoEnv

EnvGoes(s, pc) == envCmd' = [envCmd EXCEPT ![s].pc = pc]
EnvEnds(s) == envCmd' = [envCmd EXCEPT ![s] = NoEnvCmd]

-----------------------------------------------------------------------------
(* env use: SetCurrent, and then the context of kubectl.                   *)

\* mutant: SetCurrent takes any name
SetCurrentUnchecked(s, name) ==
    /\ envCmd[s].pc = "idle" /\ envFile.parses
    /\ envCmd' = [envCmd EXCEPT ![s] = [pc |-> "save", op |-> "use", name |-> name,
                                        copy |-> [envFile EXCEPT !.current = name]]]
    /\ UNCHANGED <<envFile, valuesFiles, kubectl, envTorn>>

SetCurrent(s, name) ==
    /\ envCmd[s].pc = "idle" /\ envFile.parses /\ name \in envFile.envs
    /\ envCmd' = [envCmd EXCEPT ![s] = [pc |-> "save", op |-> "use", name |-> name,
                                        copy |-> [envFile EXCEPT !.current = name]]]
    /\ UNCHANGED <<envFile, valuesFiles, kubectl, envTorn>>

(* The manifest is read again; a context kubectl refuses is a warning.     *)
UseKubeContext(s) ==
    LET context == IF envFile.parses /\ envCmd[s].name \in envFile.envs
                   THEN KubeContextOf[envCmd[s].name] ELSE NoEnv IN
    /\ envCmd[s].pc = "context"
    /\ kubectl' \in {kubectl} \union ({context} \ {NoEnv})
    /\ EnvEnds(s)
    /\ UNCHANGED <<envFile, valuesFiles, envTorn>>

-----------------------------------------------------------------------------
(* env create, for a local cluster or a cloud's.                           *)

BeginAdding(s, op, name, pc) ==
    /\ envCmd[s].pc = "idle"
    /\ envCmd' = [envCmd EXCEPT ![s] = [NoEnvCmd EXCEPT !.pc = pc, !.op = op, !.name = name]]
    /\ UNCHANGED <<envFile, valuesFiles, kubectl, envTorn>>

CreateEnvironment(s, name) == \E pc \in {"kubeconfig", "load"} : BeginAdding(s, "create", name, pc)

(* cloud connect, once a provider is detected and logged in to, and a      *)
(* cluster of its list is chosen.                                          *)
ConnectCloud(s, name) == BeginAdding(s, "connect", name, "kubeconfig")

(* The CLI of the provider also makes the cluster the context of kubectl.  *)
(* Where that fails, connect ends and create goes on.                      *)
ConfigureKubeconfig(s) ==
    /\ envCmd[s].pc = "kubeconfig"
    /\ \/ kubectl' = envCmd[s].name /\ EnvGoes(s, "load")
       \/ UNCHANGED kubectl /\ IF envCmd[s].op = "connect" THEN EnvEnds(s) ELSE EnvGoes(s, "load")
    /\ UNCHANGED <<envFile, valuesFiles, envTorn>>

(* AddEnvironment; of connect the user may want no environment.            *)
LoadToAdd(s) ==
    /\ envCmd[s].pc = "load"
    /\ IF envFile.parses /\ envCmd[s].name \notin envFile.envs
       THEN envCmd' = [envCmd EXCEPT ![s].pc = "values", ![s].copy = envFile]
       ELSE EnvEnds(s)
    /\ UNCHANGED <<envFile, valuesFiles, kubectl, envTorn>>

(* Its values file, unless there is one.  A manifest without environments  *)
(* is loaded with a nil map, and the command panics adding to it.          *)
WriteValues(s) ==
    /\ envCmd[s].pc = "values"
    /\ valuesFiles' = valuesFiles \union {envCmd[s].name}
    /\ IF envCmd[s].copy.envs = {}
       THEN EnvEnds(s)
       ELSE envCmd' = [envCmd EXCEPT ![s].pc = "save", ![s].copy.envs = @ \union {envCmd[s].name}]
    /\ UNCHANGED <<envFile, kubectl, envTorn>>

SaveEnvManifest(s) ==
    /\ envCmd[s].pc = "save"
    /\ envFile' = envCmd[s].copy
    /\ IF envCmd[s].op = "use" THEN EnvGoes(s, "context") ELSE EnvEnds(s)
    /\ UNCHANGED <<valuesFiles, kubectl, envTorn>>

(* An error, the user cancels, or the shell is killed.  The manifest is    *)
(* written in place, current first: what is left of it may not parse, or   *)
(* parse with fewer environments.                                          *)
EnvStops(s) ==
    /\ envCmd[s].pc # "idle"
    /\ EnvEnds(s)
    /\ \/ UNCHANGED <<envFile, envTorn>>
       \/ /\ envCmd[s].pc = "save" /\ envTorn' = TRUE
          /\ \/ envFile' = NoEnvCmd.copy
             \/ \E envs \in SUBSET envCmd[s].copy.envs : envFile' = [envCmd[s].copy EXCEPT !.envs = envs]
    /\ UNCHANGED <<valuesFiles, kubectl>>

EnvNext ==
    \E s \in EnvShells :
        \/ \E n \in EnvNames :
             SetCurrent(s, n) \/ CreateEnvironment(s, n) \/ ConnectCloud(s, n)
        \/ UseKubeContext(s) \/ ConfigureKubeconfig(s) \/ LoadToAdd(s) \/ WriteValues(s)
        \/ SaveEnvManifest(s) \/ EnvStops(s)

EnvSpec == EnvInit /\ [][EnvNext]_envVars

-----------------------------------------------------------------------------
(* However the commands of several shells interleave, and whatever one     *)
(* overwrites of another, the current environment is defined, so that      *)
(* GetCurrent answers, until a write is cut short; and every environment   *)
(* defined has its values file, even then ("valuesFile" before the entry). *)
EnvironmentsHold ==
    /\ ~envTorn => GetCurrent(NoEnv) # NoEnv
    /\ envFile.envs \subseteq valuesFiles
=============================================================================
