--------------------------- MODULE ScaffoldUpdate ---------------------------
(***************************************************************************)
(* yby init and yby init --update (cmd/init.go, pkg/scaffold): the files   *)
(* of a project over its whole life, changed by init, by updates and by    *)
(* the user, who goes on working while an update waits for its             *)
(* confirmation.  The update merges three versions of each file, told      *)
(* apart by hash: the one the manifest recorded, the one on disk, and the  *)
(* one the scaffold renders now.                                           *)
(*                                                                         *)
(* A file's content is abstracted to the scaffold texts it contains, the   *)
(* user's edits it contains and whether it has conflict markers.  Hashes   *)
(* are taken as injective, so the content stands for its hash.             *)
(***************************************************************************)
EXTENDS Naturals

CONSTANTS TreeFiles,     \* scaffold files below the target directory
          RootFiles,     \* .github and .devcontainer, in the root of the repository
          Texts,         \* what a template may render to
          Absent,        \* no file, no hash, no text
          MaxEdits       \* bound on the number of edits

Files == TreeFiles \union RootFiles
Content == [texts : SUBSET Texts, edits : SUBSET (1..MaxEdits), marked : BOOLEAN]

ASSUME ScaffoldOK ==
    /\ TreeFiles \intersect RootFiles = {}
    /\ Absent \notin Texts /\ Absent \notin Content
    /\ MaxEdits \in Nat

VARIABLES scaffold,   \* the text yby renders for each file, with its flags and release
          disk,       \* the files of the project
          hashes,     \* FileHashes of .yby/project.yaml
          project,    \* .yby/project.yaml exists
          pc,         \* what the running command does
          plan,       \* its MergePlan
          pending,    \* entries of the plan that are not yet applied
          edits       \* number of edits made so far

vars == <<scaffold, disk, hashes, project, pc, plan, pending, edits>>
command == <<pc, plan, pending>>

Rendered(t) == [texts |-> {t}, edits |-> {}, marked |-> FALSE]

(* What Apply leaves at f.                                                 *)
Generated(f) == IF scaffold[f] = Absent THEN disk[f] ELSE Rendered(scaffold[f])

(* A new entry has no hashes in the code; here it keeps them, unused.      *)
Actions == {"none", "update", "preserve", "conflict", "new"}
MergeEntry == [action : Actions, old : Content \union {Absent},
               disk : Content \union {Absent}, new : Content]
NoPlan == [f \in TreeFiles |-> Absent]

TypeOK ==
    /\ scaffold \in [Files -> Texts \union {Absent}]
    /\ disk \in [Files -> Content \union {Absent}]
    /\ hashes \in [TreeFiles -> Content \union {Absent}]
    /\ project \in BOOLEAN
    /\ pc \in {"idle", "initSave", "confirm", "apply"}
    /\ plan \in [TreeFiles -> MergeEntry \union {Absent}]
    /\ pending \subseteq {f \in TreeFiles : plan[f] # Absent}
    /\ edits \in 0..MaxEdits

Init ==
    /\ scaffold \in [Files -> Texts \union {Absent}]
    /\ disk = [f \in Files |-> Absent]
    /\ hashes = [f \in TreeFiles |-> Absent]
    /\ project = FALSE
    /\ pc = "idle" /\ plan = NoPlan /\ pending = {}
    /\ edits = 0

-----------------------------------------------------------------------------
(* The user and new releases.                                              *)

Edit(f) ==
    /\ disk[f] # Absent /\ edits < MaxEdits
    /\ edits' = edits + 1
    /\ disk' = [disk EXCEPT ![f].edits = @ \union {edits'}]
    /\ UNCHANGED <<scaffold, hashes, project, command>>

Delete(f) ==
    /\ disk[f] # Absent
    /\ disk' = [disk EXCEPT ![f] = Absent]
    /\ UNCHANGED <<scaffold, hashes, project, command, edits>>

(* Another release of yby, or other flags: a template changes, appears or  *)
(* is filtered out.  Not while a command runs.                             *)
Release(f) ==
    /\ pc = "idle"
    /\ \E t \in Texts \union {Absent} : scaffold' = [scaffold EXCEPT ![f] = t]
    /\ UNCHANGED <<disk, hashes, project, command, edits>>

-----------------------------------------------------------------------------
(* yby init, confirmed or forced when there is a project already.          *)

InitApply ==
    /\ pc = "idle"
    /\ disk' = [f \in Files |-> Generated(f)]
    /\ pc' = "initSave"
    /\ UNCHANGED <<scaffold, hashes, project, plan, pending, edits>>

(* Apply fails or is killed with some of the files written; those of an    *)
(* update that fails are all in the root.                                  *)
ApplyFails ==
    /\ pc = "idle"
    /\ \E written \in SUBSET Files :
         disk' = [f \in Files |-> IF f \in written THEN Generated(f) ELSE disk[f]]
    /\ UNCHANGED <<scaffold, hashes, project, command, edits>>

(* SaveProjectManifest without hashes; that it fails is only a warning.    *)
InitSave ==
    /\ pc = "initSave"
    /\ \/ hashes' = [f \in TreeFiles |-> Absent] /\ project' = TRUE
       \/ UNCHANGED <<hashes, project>>
    /\ pc' = "idle"
    /\ UNCHANGED <<scaffold, disk, plan, pending, edits>>

-----------------------------------------------------------------------------
(* yby init --update.                                                      *)

MergeActionTheirs(old, onDisk, new) ==   \* mutant: a conflict is resolved for the scaffold
    CASE old = Absent \/ onDisk = Absent -> "new"
      [] onDisk = old /\ new = old -> "none"
      [] onDisk # old /\ new = old -> "preserve"
      [] OTHER -> "update"

MergeActionOurs(old, onDisk, new) ==     \* mutant: an edited file is always preserved
    CASE old = Absent \/ onDisk = Absent -> "new"
      [] onDisk = old /\ new = old -> "none"
      [] onDisk = old /\ new # old -> "update"
      [] OTHER -> "preserve"

(* The switch of ComputeMergePlan.                                         *)
MergeAction(old, onDisk, new) ==
    CASE old = Absent \/ onDisk = Absent -> "new"
      [] onDisk = old /\ new = old -> "none"
      [] onDisk = old /\ new # old -> "update"
      [] onDisk # old /\ new = old -> "preserve"
      [] OTHER -> "conflict"

ComputeMergePlan ==
    [f \in TreeFiles |->
        IF scaffold[f] = Absent THEN Absent
        ELSE LET new == Rendered(scaffold[f]) IN
             [action |-> MergeAction(hashes[f], disk[f], new),
              old |-> hashes[f], disk |-> disk[f], new |-> new]]

ToApply(p) ==
    {f \in TreeFiles : p[f] # Absent /\ p[f].action \in {"update", "conflict", "new"}}

(* The scaffold is rendered to a temporary directory, except for the files *)
(* of the repository's root, which Apply writes in place; then the plan.   *)
(* With nothing to do the command ends.                                    *)
PrepareUpdate ==
    /\ pc = "idle" /\ project
    /\ disk' = [f \in Files |-> IF f \in RootFiles THEN Generated(f) ELSE disk[f]]
    /\ LET p == ComputeMergePlan IN
         IF ToApply(p) = {}
         THEN UNCHANGED command
         ELSE pc' = "confirm" /\ plan' = p /\ pending' = ToApply(p)
    /\ UNCHANGED <<scaffold, hashes, project, edits>>

Confirm ==
    /\ pc = "confirm"
    /\ pc' = "apply"
    /\ UNCHANGED <<scaffold, disk, hashes, project, plan, pending, edits>>

(* One entry of ApplyMergePlan; the plan was built from a map, in any order.*)
Write(f) ==
    /\ plan[f].action \in {"update", "new"}
    /\ disk' = [disk EXCEPT ![f] = plan[f].new]

MarkConflict(f) ==
    /\ plan[f].action = "conflict" /\ disk[f] # Absent
    /\ disk' = [disk EXCEPT ![f] = [texts |-> @.texts \union plan[f].new.texts,
                                    edits |-> @.edits, marked |-> TRUE]]

ApplyEntry(f) ==
    /\ pc = "apply" /\ f \in pending
    /\ Write(f) \/ MarkConflict(f)
    /\ pending' = pending \ {f}
    /\ UNCHANGED <<scaffold, hashes, project, pc, plan, edits>>

SaveHashes ==
    /\ pc = "apply" /\ pending = {}
    /\ \/ hashes' = [f \in TreeFiles |-> disk[f]]
       \/ UNCHANGED hashes                       \* only a warning
    /\ pc' = "idle" /\ plan' = NoPlan
    /\ UNCHANGED <<scaffold, disk, project, pending, edits>>

StopPending ==                               \* mutant: entries outlive their plan
    /\ pc # "idle"
    /\ pc' = "idle" /\ plan' = NoPlan
    /\ UNCHANGED <<scaffold, disk, hashes, project, pending, edits>>

(* The user declines, an entry fails (the file of a conflict is gone), or  *)
(* the command is killed between two files.                                *)
Stop ==
    /\ pc # "idle"
    /\ pc' = "idle" /\ plan' = NoPlan /\ pending' = {}
    /\ UNCHANGED <<scaffold, disk, hashes, project, edits>>

Update == PrepareUpdate \/ Confirm \/ (\E f \in TreeFiles : ApplyEntry(f)) \/ SaveHashes

Next ==
    \/ \E f \in Files : Edit(f) \/ Delete(f) \/ Release(f)
    \/ InitApply \/ ApplyFails \/ InitSave
    \/ Update \/ Stop

Spec == Init /\ [][Next]_vars

-----------------------------------------------------------------------------
(* Properties.                                                             *)

EditsOf(c) == IF c = Absent THEN {} ELSE c.edits
Keeps(f) == EditsOf(disk[f]) \subseteq EditsOf(disk'[f])

(* What the merge can promise: a file whose recorded hash is that of a     *)
(* scaffold text without edits, and that was not touched since the plan    *)
(* was made, keeps the user's edits, also after updates that were killed,  *)
(* declined or not recorded.                                               *)
EditsSurviveKnownBase ==
    [][\A f \in TreeFiles :
          Update /\ hashes[f] # Absent /\ hashes[f].edits = {}
          /\ (pc = "apply" => plan[f] # Absent /\ disk[f] = plan[f].disk) => Keeps(f)]_vars

(* An update that has applied its plan has brought the rendered text into  *)
(* every file that is still there; only a file that the user changed while *)
(* its template did not may lack it.                                       *)
UpdateDelivers ==
    pc = "apply" /\ pending = {} =>
        \A f \in TreeFiles :
            plan[f] # Absent /\ disk[f] # Absent =>
                \/ plan[f].new.texts \subseteq disk[f].texts
                \/ plan[f].new = hashes[f] /\ disk[f] # hashes[f]

(* cmd/init.go:98 says that an update preserves the user's changes: an     *)
(* edit that one update has preserved is preserved by the next.            *)
PreservedStays ==
    [][\A f \in TreeFiles :
          Update => EditsOf(disk[f]) \intersect EditsOf(hashes[f]) \subseteq EditsOf(disk'[f])]_vars
=============================================================================
