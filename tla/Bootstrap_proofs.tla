-------------------------- MODULE Bootstrap_proofs --------------------------
(***************************************************************************)
(* Safety of the checkpointed bootstrap for any number of runs, projects   *)
(* and interruptions.  A replaced cluster spoils only its own targets, and *)
(* an application only what was installed where it is applied.             *)
(***************************************************************************)
EXTENDS Bootstrap, TLAPS

(* What a run knows is installed, from where it is.                        *)
Knows(r) ==
    /\ pc[r] = "helm" => "namespaces" \in cluster[Place(r)].has
    /\ pc[r] \in {"saveSystem", "secrets", "saveSecrets", "config", "patch",
                  "saveConfig", "clear"} => ArgoInstalled(target[r])
    /\ pc[r] \in {"patch", "saveConfig", "clear"} => cluster[Place(r)].root # NoTarget
    /\ r \notin overtaken =>
        /\ pc[r] = "patch" => cluster[Place(r)].root = target[r]
        /\ pc[r] \in {"saveConfig", "clear"} => Installed(target[r])

ProgressInv ==
    \A r \in Runs :
        pc[r] # "idle" =>
            /\ target[r] \in Targets
            /\ target[r] \in LocalTargets => local[r]
            /\ ~Replaced(target[r]) => Knows(r)

(* The checkpoint is true of the cluster it belongs to.                    *)
FileInv ==
    checkpoint.done >= 1 =>
        /\ checkpoint.target \in Targets
        /\ ~Replaced(checkpoint.target) =>
            /\ ArgoInstalled(checkpoint.target)
            /\ checkpoint.done = 3 => HasApplication(checkpoint.target)
            /\ checkpoint.done = 3 /\ ~fileOvertaken => Installed(checkpoint.target)

IInv == TypeOK /\ ProgressInv /\ FileInv

-----------------------------------------------------------------------------

(* The invariant holds at first.                                           *)
LEMMA InitIInv == Init => IInv
<1> SUFFICES ASSUME Init PROVE IInv
  OBVIOUS
<1>1. Nothing \in Contents
  BY DEF Nothing, Contents
<1>2. TypeOK
  BY <1>1 DEF Init, TypeOK, NoCheckpoint, Locations
<1>3. ProgressInv /\ FileInv
  BY DEF Init, ProgressInv, FileInv, NoCheckpoint
<1> QED
  BY <1>2, <1>3 DEF IInv

(* A step that leaves the clusters alone keeps what everybody knows.       *)
LEMMA Unmoved ==
  ASSUME IInv, NEW r \in Runs, UNCHANGED <<cluster, replaced>>,
         \A q \in Runs \ {r} : pc'[q] = pc[q] /\ target'[q] = target[q] /\ local'[q] = local[q],
         overtaken \ {r} \subseteq overtaken',
         pc'[r] # "idle" =>
            /\ target'[r] \in Targets
            /\ target'[r] \in LocalTargets => local'[r]
            /\ ~Replaced(target'[r]) => Knows(r)'
  PROVE  ProgressInv'
<1>1. ASSUME NEW q \in Runs \ {r}, pc'[q] # "idle"
      PROVE  /\ target'[q] \in Targets
             /\ target'[q] \in LocalTargets => local'[q]
             /\ ~Replaced(target[q]) => Knows(q)'
  <2>1. pc[q] # "idle" /\ (q \notin overtaken' => q \notin overtaken)
    BY <1>1
  <2> QED
    BY <1>1, <2>1 DEF IInv, ProgressInv, Knows, Place, ArgoInstalled, Installed
<1> QED
  BY <1>1 DEF ProgressInv, Replaced

(* A run that stops knows nothing any more, and spoils nothing.            *)
LEMMA StopKeeps ==
  ASSUME IInv, NEW r \in Runs, Stop(r), FileKept \/ FileLost
  PROVE  IInv'
<1>1. TypeOK'
  BY DEF IInv, TypeOK, Stop, FileKept, FileLost, Locations, NoCheckpoint
<1>2. pc'[r] = "idle"
  BY DEF IInv, TypeOK, Stop
<1>3. ProgressInv'
  BY <1>2, Unmoved DEF IInv, TypeOK, Stop
<1>4. FileInv'
  BY DEF IInv, FileInv, Stop, FileKept, FileLost, NoCheckpoint, Replaced, ArgoInstalled,
     HasApplication, Installed
<1> QED
  BY <1>1, <1>3, <1>4 DEF IInv

(* A run begins, trusting a checkpoint of its target.                      *)
LEMMA StartKeeps ==
  ASSUME IInv, NEW r \in Runs, NEW t \in Targets, NEW flag \in BOOLEAN, Start(r, t, flag)
  PROVE  IInv'
<1>1. PhasesDone(t) \in 0..3
  BY DEF PhasesDone, IInv, TypeOK, NoCheckpoint
<1>2. /\ PhasesDone(t) = 0 => FirstPhase(PhasesDone(t)) = "system"
      /\ PhasesDone(t) = 1 => FirstPhase(PhasesDone(t)) = "secrets"
      /\ PhasesDone(t) = 2 => FirstPhase(PhasesDone(t)) = "config"
      /\ PhasesDone(t) = 3 => FirstPhase(PhasesDone(t)) = "clear"
  BY DEF FirstPhase
<1>3. PhasesDone(t) >= 1 => checkpoint.target = t /\ checkpoint.done = PhasesDone(t)
  BY DEF PhasesDone
<1>4. TypeOK'
  BY <1>1, <1>2 DEF IInv, TypeOK, Start, Goto, Locations
<1>5. FileInv'
  BY DEF IInv, FileInv, Start, Replaced, ArgoInstalled, HasApplication, Installed
<1>6. /\ pc'[r] = FirstPhase(PhasesDone(t)) /\ target'[r] = t
      /\ (t \in LocalTargets => local'[r])
      /\ (PhasesDone(t) = 3 /\ fileOvertaken => r \in overtaken')
      /\ cluster' = cluster
  BY DEF Start, Goto, IInv, TypeOK
<1>7. ~Replaced(t) => Knows(r)'
  BY <1>1, <1>2, <1>3, <1>6
     DEF IInv, FileInv, Knows, Place, ArgoInstalled, HasApplication, Installed
<1>8. ProgressInv'
  BY <1>6, <1>7, Unmoved DEF IInv, TypeOK, Start, Goto
<1> QED
  BY <1>4, <1>5, <1>8 DEF IInv

(* A phase is recorded, or cannot be.                                      *)
LEMMA SaveKeeps ==
  ASSUME IInv, NEW r \in Runs, Save(r) \/ SaveFails(r)
  PROVE  IInv'
<1> USE DEF Saving, SaveNext, SavedPhases
<1>1. pc[r] \in {"saveSystem", "saveSecrets", "saveConfig"}
  BY DEF Save, SaveFails
<1>2. target[r] \in Targets
  BY <1>1 DEF IInv, ProgressInv
<1>3. TypeOK'
  <2>1. CASE SaveFails(r)
    <3>1. pc' \in [Runs -> Locations]
      BY <1>1, <2>1 DEF IInv, TypeOK, SaveFails, Locations
    <3>2. /\ checkpoint' \in [target : Targets, done : 1..3] \union {NoCheckpoint}
          /\ fileOvertaken' \in BOOLEAN
      BY <2>1 DEF IInv, TypeOK, SaveFails, FileKept, FileLost
    <3> QED
      BY <2>1, <3>1, <3>2 DEF IInv, TypeOK, SaveFails
  <2>2. CASE Save(r)
    <3>1. checkpoint' \in [target : Targets, done : 1..3]
      BY <1>1, <1>2, <2>2 DEF Save
    <3>2. pc' \in [Runs -> Locations]
      BY <1>1, <2>2 DEF IInv, TypeOK, Save, Locations
    <3>3. fileOvertaken' \in BOOLEAN
      BY <2>2 DEF Save
    <3> QED
      BY <2>2, <3>1, <3>2, <3>3 DEF IInv, TypeOK, Save
  <2> QED
    BY <2>1, <2>2
<1>4. ~Replaced(target[r]) => Knows(r)
  BY <1>1 DEF IInv, ProgressInv
<1>5. FileInv'
  <2>1. CASE SaveFails(r)
    BY <2>1 DEF IInv, FileInv, SaveFails, FileKept, FileLost, NoCheckpoint, Replaced,
       ArgoInstalled, HasApplication, Installed
  <2>2. CASE Save(r)
    <3>1. /\ checkpoint'.target = target[r] /\ checkpoint'.done = SavedPhases[pc[r]]
          /\ fileOvertaken' = (pc[r] = "saveConfig" /\ r \in overtaken)
          /\ cluster' = cluster /\ replaced' = replaced
      BY <2>2 DEF Save
    <3>2. checkpoint'.done = 3 <=> pc[r] = "saveConfig"
      BY <1>1, <3>1
    <3>3. ~Replaced(target[r]) =>
            /\ ArgoInstalled(target[r])
            /\ pc[r] = "saveConfig" => HasApplication(target[r])
            /\ pc[r] = "saveConfig" /\ r \notin overtaken => Installed(target[r])
      BY <1>1, <1>4 DEF Knows, Place, HasApplication
    <3> QED
      BY <1>2, <3>1, <3>2, <3>3 DEF FileInv, Replaced, ArgoInstalled, HasApplication, Installed
  <2> QED
    BY <2>1, <2>2
<1>6. /\ target' = target /\ local' = local /\ cluster' = cluster /\ overtaken' = overtaken
      /\ replaced' = replaced
      /\ pc' = [pc EXCEPT ![r] = SaveNext[pc[r]]]
  BY DEF Save, SaveFails
<1>7. ~Replaced(target[r]) => Knows(r)'
  BY <1>1, <1>4, <1>6 DEF Knows, Place, ArgoInstalled, Installed, IInv, TypeOK
<1>8. ProgressInv'
  BY <1>1, <1>2, <1>6, <1>7, Unmoved DEF IInv, TypeOK, ProgressInv
<1> QED
  BY <1>3, <1>5, <1>8 DEF IInv

(* Namespaces and Argo CD only add to what is there.                       *)
LEMMA InstallKeeps ==
  ASSUME IInv, NEW r \in Runs, CreateNamespaces(r) \/ HelmInstall(r)
  PROVE  IInv'
<1> DEFINE k == Place(r)
<1>1. PICK what \in {"namespaces", "argocd"} :
        /\ Install(r, what)
        /\ \/ pc[r] = "system" /\ pc' = [pc EXCEPT ![r] = "helm"] /\ what = "namespaces"
           \/ /\ pc[r] = "helm" /\ pc' = [pc EXCEPT ![r] = "saveSystem"] /\ what = "argocd"
              /\ "namespaces" \in cluster[k].has
  BY DEF CreateNamespaces, HelmInstall, Goto
<1>2. target[r] \in Targets /\ k \in Clusters
  BY <1>1, TargetsOK DEF IInv, ProgressInv, Place
<1>3. /\ cluster[k].has \subseteq cluster'[k].has /\ what \in cluster'[k].has
      /\ cluster'[k].root = cluster[k].root /\ cluster'[k].patched = cluster[k].patched
      /\ \A j \in Clusters \ {k} : cluster'[j] = cluster[j]
      /\ cluster' \in [Clusters -> Contents]
  BY <1>1, <1>2 DEF Install, IInv, TypeOK, Contents
<1>4. TypeOK'
  BY <1>1, <1>3 DEF Install, history, IInv, TypeOK, Locations
<1>5. UNCHANGED <<target, local, checkpoint, replaced, overtaken, fileOvertaken>>
  BY <1>1 DEF Install, history
<1>6. \A t \in Targets : /\ ClusterOf[t] \in Clusters
                         /\ ArgoInstalled(t) => ArgoInstalled(t)'
                         /\ HasApplication(t) => HasApplication(t)'
                         /\ Installed(t) => Installed(t)'
  BY <1>3, TargetsOK DEF ArgoInstalled, HasApplication, Installed
<1>7. FileInv'
  BY <1>5, <1>6 DEF IInv, FileInv, Replaced
<1>8. ASSUME NEW q \in Runs, pc'[q] # "idle"
      PROVE  /\ target[q] \in Targets
             /\ target[q] \in LocalTargets => local[q]
             /\ ~Replaced(target[q]) => Knows(q)'
  <2>1. pc[q] # "idle"
    BY <1>1, <1>8 DEF IInv, TypeOK
  <2>2. /\ target[q] \in Targets /\ (target[q] \in LocalTargets => local[q])
        /\ (~Replaced(target[q]) => Knows(q))
    BY <2>1 DEF IInv, ProgressInv
  <2>3. CASE q # r
    <3>1. pc'[q] = pc[q]
      BY <1>1, <2>3 DEF IInv, TypeOK
    <3> QED
      BY <1>3, <1>5, <1>6, <2>2, <3>1 DEF Knows, Place
  <2>4. CASE q = r
    BY <1>1, <1>2, <1>3, <1>5, <2>2, <2>4 DEF Knows, Place, ArgoInstalled, IInv, TypeOK
  <2> QED
    BY <2>3, <2>4
<1> QED
  BY <1>4, <1>5, <1>7, <1>8 DEF IInv, ProgressInv, Replaced

(* Applying a manifest spoils what others installed only for those it      *)
(* overtakes.                                                              *)
LEMMA ApplyKeeps ==
  ASSUME IInv, NEW r \in Runs, ApplyRootApp(r)
  PROVE  IInv'
<1> DEFINE k == Place(r)
<1>1. /\ pc[r] = "config" /\ pc' = [pc EXCEPT ![r] = IF local[r] THEN "patch" ELSE "saveConfig"]
      /\ UNCHANGED <<target, local, checkpoint, replaced>>
  BY DEF ApplyRootApp, Goto
<1>2. target[r] \in Targets /\ k \in Clusters
  BY <1>1, TargetsOK DEF IInv, ProgressInv, Place
<1>3. /\ cluster'[k].has = cluster[k].has
      /\ cluster'[k].root = target[r] /\ cluster'[k].patched = FALSE
      /\ \A j \in Clusters \ {k} : cluster'[j] = cluster[j]
      /\ cluster' \in [Clusters -> Contents]
  BY <1>2 DEF ApplyRootApp, IInv, TypeOK, Contents
<1>4. TypeOK'
  BY <1>1, <1>3 DEF ApplyRootApp, IInv, TypeOK, Locations
<1>5. \A t \in Targets : /\ ClusterOf[t] \in Clusters
                         /\ ArgoInstalled(t) => ArgoInstalled(t)'
                         /\ HasApplication(t) => HasApplication(t)'
                         /\ Installed(t) /\ ~Spoils(r, t) => Installed(t)'
  BY <1>2, <1>3, TargetsOK DEF ArgoInstalled, HasApplication, Installed, Spoils
<1>6. FileInv'
  BY <1>1, <1>5 DEF IInv, FileInv, Replaced, ApplyRootApp
<1>7. ASSUME NEW q \in Runs, pc'[q] # "idle"
      PROVE  /\ target[q] \in Targets
             /\ target[q] \in LocalTargets => local[q]
             /\ ~Replaced(target[q]) => Knows(q)'
  <2>1. pc[q] # "idle"
    BY <1>1, <1>7 DEF IInv, TypeOK
  <2>2. /\ target[q] \in Targets /\ (target[q] \in LocalTargets => local[q])
        /\ (~Replaced(target[q]) => Knows(q))
    BY <2>1 DEF IInv, ProgressInv
  <2>3. ClusterOf[target[q]] \in Clusters /\ ClusterOf[target'[q]] = ClusterOf[target[q]]
    BY <1>1, <1>5, <2>2
  <2>4. CASE q # r
    <3>1. pc'[q] = pc[q]
      BY <1>1, <2>4 DEF IInv, TypeOK
    <3>2. q \notin overtaken' => q \notin overtaken /\ ~Overtakes(r, q)
      BY DEF ApplyRootApp
    <3>3. ASSUME Knows(q), q \notin overtaken', pc[q] = "patch"
          PROVE  cluster'[ClusterOf[target[q]]].root = target[q]
      BY <1>3, <2>2, <2>3, <2>4, <3>2, <3>3 DEF Overtakes, Spoils, Knows, Place
    <3>4. ASSUME Knows(q), q \notin overtaken', pc[q] \in {"saveConfig", "clear"}
          PROVE  Installed(target[q])'
      BY <1>1, <1>5, <2>2, <2>4, <3>2, <3>4 DEF Overtakes, Knows
    <3>5. ASSUME Knows(q), pc[q] \in {"patch", "saveConfig", "clear"}
          PROVE  cluster'[ClusterOf[target[q]]].root # NoTarget
      BY <1>2, <1>3, <2>3, <3>5, TargetsOK DEF Knows, Place
    <3>6. cluster'[ClusterOf[target[q]]].has = cluster[ClusterOf[target[q]]].has
      BY <1>3, <2>3
    <3> QED
      BY <1>1, <2>2, <3>1, <3>3, <3>4, <3>5, <3>6 DEF Knows, Place, ArgoInstalled
  <2>5. CASE q = r
    <3>1. pc'[r] \in {"patch", "saveConfig"} /\ (local[r] => pc'[r] = "patch")
      BY <1>1 DEF IInv, TypeOK
    <3> QED
      BY <1>1, <1>2, <1>3, <2>2, <2>5, <3>1, TargetsOK DEF Knows, Place, ArgoInstalled, Installed
  <2> QED
    BY <2>4, <2>5
<1> QED
  BY <1>1, <1>4, <1>6, <1>7 DEF IInv, ProgressInv, Replaced

(* The patch completes an installation that nobody has overtaken.          *)
LEMMA PatchKeeps ==
  ASSUME IInv, NEW r \in Runs, PatchRootApp(r)
  PROVE  IInv'
<1> DEFINE k == Place(r)
<1>1. /\ pc[r] = "patch" /\ pc' = [pc EXCEPT ![r] = "saveConfig"]
      /\ UNCHANGED <<target, local, checkpoint, replaced, overtaken, fileOvertaken>>
  BY DEF PatchRootApp, Goto, history
<1>2. target[r] \in Targets /\ k \in Clusters
  BY <1>1, TargetsOK DEF IInv, ProgressInv, Place
<1>3. /\ cluster'[k].has = cluster[k].has
      /\ cluster'[k].root = cluster[k].root /\ cluster'[k].patched = TRUE
      /\ \A j \in Clusters \ {k} : cluster'[j] = cluster[j]
      /\ cluster' \in [Clusters -> Contents]
  BY <1>2 DEF PatchRootApp, IInv, TypeOK, Contents
<1>4. TypeOK'
  BY <1>1, <1>3 DEF IInv, TypeOK, Locations
<1>5. \A t \in Targets : /\ ClusterOf[t] \in Clusters
                         /\ ArgoInstalled(t) => ArgoInstalled(t)'
                         /\ HasApplication(t) => HasApplication(t)'
                         /\ Installed(t) => Installed(t)'
  BY <1>3, TargetsOK DEF ArgoInstalled, HasApplication, Installed
<1>6. FileInv'
  BY <1>1, <1>5 DEF IInv, FileInv, Replaced
<1>7. ASSUME NEW q \in Runs, pc'[q] # "idle"
      PROVE  /\ target[q] \in Targets
             /\ target[q] \in LocalTargets => local[q]
             /\ ~Replaced(target[q]) => Knows(q)'
  <2>1. pc[q] # "idle"
    BY <1>1, <1>7 DEF IInv, TypeOK
  <2>2. /\ target[q] \in Targets /\ (target[q] \in LocalTargets => local[q])
        /\ (~Replaced(target[q]) => Knows(q))
    BY <2>1 DEF IInv, ProgressInv
  <2>3. CASE q # r
    <3>1. pc'[q] = pc[q]
      BY <1>1, <2>3 DEF IInv, TypeOK
    <3> QED
      BY <1>1, <1>3, <1>5, <2>2, <3>1 DEF Knows, Place
  <2>4. CASE q = r
    <3>1. pc'[r] = "saveConfig"
      BY <1>1 DEF IInv, TypeOK
    <3> QED
      BY <1>1, <1>2, <1>3, <2>2, <2>4, <3>1 DEF Knows, Place, ArgoInstalled, Installed
  <2> QED
    BY <2>3, <2>4
<1> QED
  BY <1>1, <1>4, <1>6, <1>7 DEF IInv, ProgressInv, Replaced

(* A new cluster is nobody's but its own targets' business.                *)
LEMMA ReplaceKeeps ==
  ASSUME IInv, NEW k \in Clusters, Replace(k)
  PROVE  IInv'
<1>1. UNCHANGED <<pc, target, local, checkpoint, overtaken, fileOvertaken>>
  BY DEF Replace, runVars
<1>2. Nothing \in Contents
  BY DEF Nothing, Contents
<1>3. TypeOK'
  BY <1>1, <1>2 DEF Replace, IInv, TypeOK
<1>4. \A t \in Targets : ~Replaced(t)' => ~Replaced(t) /\ cluster'[ClusterOf[t]] = cluster[ClusterOf[t]]
  BY TargetsOK DEF Replace, Replaced, IInv, TypeOK
<1>5. FileInv'
  BY <1>1, <1>4 DEF IInv, FileInv, ArgoInstalled, HasApplication, Installed
<1>6. ProgressInv'
  BY <1>1, <1>4 DEF IInv, ProgressInv, Knows, Place, ArgoInstalled, Installed
<1> QED
  BY <1>3, <1>5, <1>6 DEF IInv

(* Every step keeps the invariant.                                         *)
LEMMA NextIInv == IInv /\ [Next]_vars => IInv'
<1> SUFFICES ASSUME IInv, [Next]_vars PROVE IInv'
  OBVIOUS
<1>1. ASSUME NEW r \in Runs, NEW t \in Targets, NEW flag \in BOOLEAN, Start(r, t, flag)
      PROVE  IInv'
  BY <1>1, StartKeeps
<1>2. ASSUME NEW r \in Runs, CreateNamespaces(r) \/ HelmInstall(r) PROVE IInv'
  BY <1>2, InstallKeeps
<1>3. ASSUME NEW r \in Runs, Secrets(r) PROVE IInv'
  <2>1. TypeOK' /\ FileInv'
    BY <1>3 DEF Secrets, Goto, history, IInv, TypeOK, Locations, FileInv, Replaced, ArgoInstalled,
       HasApplication, Installed
  <2>2. pc[r] = "secrets" /\ pc'[r] = "saveSecrets"
    BY <1>3 DEF Secrets, Goto, IInv, TypeOK
  <2>3. /\ target[r] \in Targets /\ (target[r] \in LocalTargets => local[r])
        /\ (~Replaced(target[r]) => ArgoInstalled(target[r]))
    BY <2>2 DEF IInv, ProgressInv, Knows
  <2>4. ~Replaced(target[r]) => Knows(r)'
    BY <1>3, <2>2, <2>3 DEF Secrets, Knows, ArgoInstalled
  <2>5. ProgressInv'
    BY <1>3, <2>2, <2>3, <2>4, Unmoved DEF Secrets, Goto, history, IInv, TypeOK
  <2> QED
    BY <2>1, <2>5 DEF IInv
<1>4. ASSUME NEW r \in Runs, ApplyRootApp(r) PROVE IInv'
  BY <1>4, ApplyKeeps
<1>5. ASSUME NEW r \in Runs, PatchRootApp(r) PROVE IInv'
  BY <1>5, PatchKeeps
<1>6. ASSUME NEW r \in Runs, Save(r) \/ SaveFails(r) PROVE IInv'
  BY <1>6, SaveKeeps
<1>7. ASSUME NEW r \in Runs, Clear(r) \/ ClearFails(r) \/ Fail(r) \/ Interrupt(r) PROVE IInv'
  BY <1>7, StopKeeps DEF Clear, ClearFails, Fail, Interrupt
<1>8. ASSUME NEW k \in Clusters, Replace(k) PROVE IInv'
  BY <1>8, ReplaceKeeps
<1>9. CASE UNCHANGED vars
  BY <1>9 DEF vars, runVars, history, IInv, TypeOK, ProgressInv, FileInv, Knows, Place, Replaced,
     ArgoInstalled, HasApplication, Installed
<1> QED
  BY <1>1, <1>2, <1>3, <1>4, <1>5, <1>6, <1>7, <1>8, <1>9 DEF Next, Work

(* The inductive invariant holds for ever.                                 *)
THEOREM Inductive == Spec => []IInv
  BY InitIInv, NextIInv, PTL DEF Spec

-----------------------------------------------------------------------------

(* Every variable keeps its type, for any number of runs and projects.     *)
THEOREM TypeCorrect == Spec => []TypeOK
  BY Inductive, PTL DEF IInv

(* A run that reports success has Argo CD and an application, its own one  *)
(* complete unless another run applied a manifest over it, whatever it     *)
(* skipped on the word of the checkpoint (SuccessMeansInstalled).          *)
THEOREM SuccessIsReal == Spec => []SuccessMeansInstalled
<1>1. IInv => SuccessMeansInstalled
  BY DEF IInv, ProgressInv, Knows, Place, HasApplication, SuccessMeansInstalled
<1>2. Spec => []IInv
  BY Inductive
<1> QED
  BY <1>1, <1>2, PTL

(* The checkpoint file never runs ahead of the cluster it describes, until *)
(* a manifest is applied over what it stands for (CheckpointIsTrue).       *)
THEOREM CheckpointSound == Spec => []CheckpointIsTrue
<1>1. IInv => CheckpointIsTrue
  BY DEF IInv, FileInv, CheckpointIsTrue
<1>2. Spec => []IInv
  BY Inductive
<1> QED
  BY <1>1, <1>2, PTL
=============================================================================
