----------------------------- MODULE Bootstrap ------------------------------
(***************************************************************************)
(* pkg/services/bootstrap: Run installs the GitOps stack in three phases   *)
(* and records each completed one in ~/.yby/bootstrap-state.json, so that  *)
(* a run that failed or was killed resumes where it stopped.  All projects *)
(* of the user share that one file, and several runs may be active at once *)
(* (yby up and yby bootstrap cluster in different terminals).              *)
(*                                                                         *)
(* A target is a pair of project root and environment, which is what the   *)
(* checkpoint remembers.  Several targets may lead to one cluster: every   *)
(* project calls its local cluster yby-local unless told otherwise.  There *)
(* they all install an application of the same name, root-app.  A cluster  *)
(* may be replaced: yby destroy and a new one, or another kubectl context. *)
(***************************************************************************)
EXTENDS Naturals

CONSTANTS Runs,              \* processes that may run the bootstrap
          Targets,           \* pairs of root and environment
          LocalTargets,      \* those whose environment is local
          NoTarget,
          Clusters,
          ClusterOf,         \* the cluster each target leads to
          Replaceable        \* clusters that may be replaced, once

ASSUME TargetsOK ==
    /\ LocalTargets \subseteq Targets
    /\ NoTarget \notin Targets
    /\ ClusterOf \in [Targets -> Clusters]
    /\ Replaceable \subseteq Clusters

VARIABLES pc,            \* where each run is
          target,        \* what it bootstraps
          local,         \* whether it does so for a local environment
          checkpoint,    \* the file: the target and the number of phases done
          cluster,       \* what is installed in each cluster
          replaced,      \* history: clusters that were replaced
          overtaken,     \* history: runs whose application was applied over
          fileOvertaken  \* history: so was the one the checkpoint stands for

runVars == <<pc, target, local>>
history == <<replaced, overtaken, fileOvertaken>>
vars == <<runVars, checkpoint, cluster, history>>

Locations == {"idle", "system", "helm", "saveSystem", "secrets", "saveSecrets",
              "config", "patch", "saveConfig", "clear"}

(* What a cluster holds: the namespaces and Argo CD; the target root-app   *)
(* was applied for; whether its repository is patched to the local mirror. *)
Contents == [has : SUBSET {"namespaces", "argocd"},
             root : Targets \union {NoTarget}, patched : BOOLEAN]
Nothing == [has |-> {}, root |-> NoTarget, patched |-> FALSE]

(* An absent, corrupt or cleared file: it matches no target.               *)
NoCheckpoint == [target |-> NoTarget, done |-> 0]

TypeOK ==
    /\ pc \in [Runs -> Locations]
    /\ target \in [Runs -> Targets \union {NoTarget}]
    /\ local \in [Runs -> BOOLEAN]
    /\ checkpoint \in [target : Targets, done : 1..3] \union {NoCheckpoint}
    /\ cluster \in [Clusters -> Contents]
    /\ replaced \subseteq Replaceable
    /\ overtaken \subseteq Runs
    /\ fileOvertaken \in BOOLEAN

Init ==
    /\ pc = [r \in Runs |-> "idle"]
    /\ target = [r \in Runs |-> NoTarget]
    /\ local = [r \in Runs |-> FALSE]
    /\ checkpoint = NoCheckpoint
    /\ cluster = [k \in Clusters |-> Nothing]
    /\ replaced = {}
    /\ overtaken = {}
    /\ fileOvertaken = FALSE

-----------------------------------------------------------------------------
(* The checkpoint file.                                                    *)

PhasesDoneAnywhere(t) == checkpoint.done      \* mutant: the owner is not compared

(* loadCheckpoint and the comparison in Run.                               *)
PhasesDone(t) == IF checkpoint.target = t THEN checkpoint.done ELSE 0

(* phaseCompleted: the first phase that still has to run.                  *)
FirstPhase(done) ==
    CASE done = 0 -> "system"
      [] done = 1 -> "secrets"
      [] done = 2 -> "config"
      [] done >= 3 -> "clear"

SaveNext == [saveSystem |-> "secrets", saveSecrets |-> "config", saveConfig |-> "clear"]
SavedPhases == [saveSystem |-> 1, saveSecrets |-> 2, saveConfig |-> 3]
Saving == DOMAIN SaveNext

-----------------------------------------------------------------------------
(* One run.                                                                *)

Goto(r, from, to) == pc[r] = from /\ pc' = [pc EXCEPT ![r] = to]

Stop(r) ==
    /\ pc' = [pc EXCEPT ![r] = "idle"]
    /\ target' = [target EXCEPT ![r] = NoTarget]
    /\ local' = [local EXCEPT ![r] = FALSE]
    /\ overtaken' = overtaken \ {r}
    /\ UNCHANGED <<cluster, replaced>>

Place(r) == ClusterOf[target[r]]

Install(r, what) ==
    /\ cluster' = [cluster EXCEPT ![Place(r)].has = @ \union {what}]
    /\ UNCHANGED <<target, local, checkpoint, history>>

StartByFlag(r, t, flag) ==    \* mutant: the environment is not asked
    /\ Goto(r, "idle", FirstPhase(PhasesDone(t)))
    /\ target' = [target EXCEPT ![r] = t]
    /\ local' = [local EXCEPT ![r] = flag]
    /\ overtaken' = IF PhasesDone(t) = 3 /\ fileOvertaken
                    THEN overtaken \union {r} ELSE overtaken
    /\ UNCHANGED <<checkpoint, cluster, replaced, fileOvertaken>>

(* Run, once the tools and the repository variable are checked.  It is a   *)
(* local one when the environment is, or when --context says so; the flag  *)
(* is not in the checkpoint.                                               *)
Start(r, t, flag) ==
    /\ Goto(r, "idle", FirstPhase(PhasesDone(t)))
    /\ target' = [target EXCEPT ![r] = t]
    /\ local' = [local EXCEPT ![r] = flag \/ t \in LocalTargets]
    /\ overtaken' = IF PhasesDone(t) = 3 /\ fileOvertaken
                    THEN overtaken \union {r} ELSE overtaken
    /\ UNCHANGED <<checkpoint, cluster, replaced, fileOvertaken>>

(* phaseSystemBootstrap: the namespaces, then helm upgrade --install with  *)
(* --wait and --atomic.                                                    *)
CreateNamespaces(r) ==
    /\ Goto(r, "system", "helm")
    /\ Install(r, "namespaces")

HelmInstall(r) ==
    /\ Goto(r, "helm", "saveSystem")
    /\ "namespaces" \in cluster[Place(r)].has
    /\ Install(r, "argocd")

(* phaseSecrets only verifies tools and reports what is missing.           *)
Secrets(r) ==
    /\ Goto(r, "secrets", "saveSecrets")
    /\ UNCHANGED <<target, local, checkpoint, cluster, history>>

(* Whether applying r's manifest spoils what t needs of its application:   *)
(* it becomes the one of another target, or loses its patch.               *)
Spoils(r, t) ==
    /\ t \in Targets /\ ClusterOf[t] = Place(r)
    /\ t # target[r] \/ t \in LocalTargets

Overtakes(r, q) ==
    /\ q # r /\ Spoils(r, target[q])
    /\ \/ pc[q] \in {"saveConfig", "clear"}
       \/ pc[q] = "patch" /\ target[q] # target[r]

(* phaseConfigBootstrap: the root application is a custom resource that    *)
(* the cluster accepts only once Argo CD is installed.  kubectl apply sets *)
(* the repository back to the one in the manifest, whoever patched it.     *)
ApplyRootApp(r) ==
    /\ Goto(r, "config", IF local[r] THEN "patch" ELSE "saveConfig")
    /\ "argocd" \in cluster[Place(r)].has
    /\ cluster' = [cluster EXCEPT ![Place(r)].root = target[r], ![Place(r)].patched = FALSE]
    /\ overtaken' = overtaken \union {q \in Runs : Overtakes(r, q)}
    /\ fileOvertaken' =
         (fileOvertaken \/ (checkpoint.done = 3 /\ Spoils(r, checkpoint.target)))
    /\ UNCHANGED <<target, local, checkpoint, replaced>>

PatchRootApp(r) ==
    /\ Goto(r, "patch", "saveConfig")
    /\ cluster[Place(r)].root # NoTarget
    /\ cluster' = [cluster EXCEPT ![Place(r)].patched = TRUE]
    /\ UNCHANGED <<target, local, checkpoint, history>>

SaveEarly(r) ==               \* mutant: the next phase is recorded as done too
    /\ pc[r] \in Saving
    /\ checkpoint' = [target |-> target[r], done |-> SavedPhases[pc[r]] + 1]
    /\ fileOvertaken' = (pc[r] = "saveConfig" /\ r \in overtaken)
    /\ pc' = [pc EXCEPT ![r] = SaveNext[pc[r]]]
    /\ UNCHANGED <<target, local, cluster, replaced, overtaken>>

Save(r) ==
    /\ pc[r] \in Saving
    /\ checkpoint' = [target |-> target[r], done |-> SavedPhases[pc[r]]]
    /\ fileOvertaken' = (pc[r] = "saveConfig" /\ r \in overtaken)
    /\ pc' = [pc EXCEPT ![r] = SaveNext[pc[r]]]
    /\ UNCHANGED <<target, local, cluster, replaced, overtaken>>

(* The file stays as it is, or is lost: os.WriteFile may have truncated it *)
(* before it failed or the process was killed.                             *)
FileLost ==
    /\ checkpoint' = NoCheckpoint
    /\ fileOvertaken' = FALSE

FileKept == UNCHANGED <<checkpoint, fileOvertaken>>

(* A checkpoint that cannot be written is only a warning.                  *)
SaveFails(r) ==
    /\ pc[r] \in Saving
    /\ FileKept \/ FileLost
    /\ pc' = [pc EXCEPT ![r] = SaveNext[pc[r]]]
    /\ UNCHANGED <<target, local, cluster, replaced, overtaken>>

(* clearCheckpoint; then Run returns nil.                                  *)
Clear(r) ==
    /\ pc[r] = "clear"
    /\ Stop(r)
    /\ FileLost

(* It only warns when the file cannot be written; also: killed before it.  *)
ClearFails(r) ==
    /\ pc[r] = "clear"
    /\ Stop(r)
    /\ FileKept

(* A phase whose command cannot succeed in this cluster: it fails for good *)
(* once its retries are used up.                                           *)
Doomed(r) ==
    \/ pc[r] = "helm" /\ "namespaces" \notin cluster[Place(r)].has
    \/ pc[r] = "config" /\ "argocd" \notin cluster[Place(r)].has
    \/ pc[r] = "patch" /\ cluster[Place(r)].root = NoTarget

Fail(r) ==
    /\ Doomed(r)
    /\ Stop(r)
    /\ FileKept

(* Bad luck: retries used up by an outage, or the process killed, perhaps  *)
(* while it writes the file.                                               *)
Interrupt(r) ==
    /\ pc[r] \notin {"idle", "clear"} /\ ~Doomed(r)
    /\ Stop(r)
    /\ FileKept \/ (pc[r] \in Saving /\ FileLost)

(* Its targets lead to a new cluster; destroy leaves the file alone.       *)
Replace(k) ==
    /\ k \in Replaceable \ replaced
    /\ replaced' = replaced \union {k}
    /\ cluster' = [cluster EXCEPT ![k] = Nothing]
    /\ UNCHANGED <<runVars, checkpoint, overtaken, fileOvertaken>>

Work(r) ==
    \/ CreateNamespaces(r) \/ HelmInstall(r) \/ Secrets(r) \/ ApplyRootApp(r)
    \/ PatchRootApp(r) \/ Save(r) \/ Clear(r) \/ Fail(r)

Next ==
    \/ \E r \in Runs : Work(r) \/ SaveFails(r) \/ ClearFails(r) \/ Interrupt(r)
    \/ \E r \in Runs, t \in Targets, flag \in BOOLEAN : Start(r, t, flag)
    \/ \E k \in Clusters : Replace(k)

Spec == Init /\ [][Next]_vars

(* The user starts each target again and again, and a run goes on.         *)
Fairness ==
    /\ \A r \in Runs : WF_vars(Work(r))
    /\ \A t \in Targets : SF_vars(\E r \in Runs, flag \in BOOLEAN : Start(r, t, flag))

FairSpec == Spec /\ Fairness

-----------------------------------------------------------------------------
(* Properties.                                                             *)

Replaced(t) == ClusterOf[t] \in replaced

ArgoInstalled(t) == {"namespaces", "argocd"} \subseteq cluster[ClusterOf[t]].has

HasApplication(t) == ArgoInstalled(t) /\ cluster[ClusterOf[t]].root # NoTarget

Installed(t) ==
    /\ ArgoInstalled(t)
    /\ cluster[ClusterOf[t]].root = t
    /\ t \in LocalTargets => cluster[ClusterOf[t]].patched

(* A run that reports success has Argo CD and some root application in its *)
(* cluster, and its own one, patched for a local environment, unless       *)
(* another run has applied a manifest over it since; also when it skipped  *)
(* phases that an earlier run, killed anywhere, had recorded.              *)
SuccessMeansInstalled ==
    \A r \in Runs :
        pc[r] = "clear" /\ ~Replaced(target[r]) =>
            /\ HasApplication(target[r])
            /\ r \notin overtaken => Installed(target[r])

(* The file never claims a phase the target's cluster does not have,       *)
(* although all projects overwrite it and it is written after the fact;    *)
(* the third phase stands only until a manifest is applied over it.        *)
CheckpointIsTrue ==
    LET t == checkpoint.target IN
    checkpoint.done >= 1 /\ ~Replaced(t) =>
        /\ ArgoInstalled(t)
        /\ checkpoint.done = 3 /\ ~fileOvertaken => Installed(t)

InterruptionsEnd == <>[][\A r \in Runs : ~Interrupt(r) /\ ~ClearFails(r)]_vars

(* From some time on no other manifest is applied between t's own one and  *)
(* its patch.                                                              *)
Undisturbed(t) ==
    <>[](\A r \in Runs : target[r] = t /\ pc[r] = "patch" => r \notin overtaken)

(* Whoever keeps trying gets Argo CD and a root application that stay,     *)
(* wherever the earlier runs were interrupted, once the interruptions end. *)
(* Each target, also one that shares its cluster, is complete again and    *)
(* again, not for good: a run undoes the patch of the one before and then  *)
(* repeats it, and that of another target takes the application over.      *)
RetriesInstall ==
    InterruptionsEnd =>
        \A t \in Targets :
            /\ <>[](Replaced(t) \/ HasApplication(t))
            /\ Undisturbed(t) => []<>(Replaced(t) \/ Installed(t))

(* cmd/destroy.go:23 says that destroying an environment also cleans the   *)
(* associated resources: after it, trying again installs the new cluster.  *)
RetriesInstallAfterDestroy == InterruptionsEnd => \A t \in Targets : []<>Installed(t)
=============================================================================
