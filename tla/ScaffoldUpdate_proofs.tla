----------------------- MODULE ScaffoldUpdate_proofs ------------------------
(***************************************************************************)
(* What the merge guarantees for any number of files, templates and edits, *)
(* whatever the order of init, updates, releases and the user's work.      *)
(***************************************************************************)
EXTENDS ScaffoldUpdate, TLAPS

(* A plan belongs to a running update and was computed from the hashes     *)
(* that are still recorded; its new contents are rendered templates.       *)
PlanInv ==
    /\ pc \in {"idle", "initSave"} => plan = NoPlan /\ pending = {}
    /\ \A f \in TreeFiles : plan[f] # Absent =>
         /\ plan[f].old = hashes[f]
         /\ plan[f].action = MergeAction(plan[f].old, plan[f].disk, plan[f].new)
         /\ \E t : plan[f].new = Rendered(t)

(* No content, recorded or on disk, has an edit that was not made yet.     *)
EditsInv ==
    /\ \A f \in Files : disk[f] # Absent => disk[f].edits \subseteq 1..edits
    /\ \A f \in TreeFiles : hashes[f] # Absent => hashes[f].edits \subseteq 1..edits

(* Entries that are not pending have been delivered.                       *)
Delivered(f) ==
    plan[f] # Absent /\ disk[f] # Absent =>
        \/ plan[f].new.texts \subseteq disk[f].texts
        \/ plan[f].new = hashes[f] /\ disk[f] # hashes[f]

DoneInv == \A f \in TreeFiles \ pending : Delivered(f)

IInv == TypeOK /\ PlanInv /\ EditsInv /\ DoneInv

-----------------------------------------------------------------------------

(* The files of the tree are files.                                        *)
LEMMA TreeIsFiles == TreeFiles \subseteq Files
  BY DEF Files

(* What is rendered is a content.                                          *)
LEMMA RenderedType == \A t \in Texts : Rendered(t) \in Content
  BY DEF Rendered, Content

(* The switch, one case at a time.                                         *)
LEMMA MergeCases ==
  ASSUME NEW old, NEW onDisk, NEW new
  PROVE  LET a == MergeAction(old, onDisk, new) IN
         /\ a \in Actions
         /\ a = "none" => onDisk = old /\ new = old
         /\ a = "preserve" => onDisk # old /\ new = old
         /\ a = "update" => onDisk = old
         /\ a = "new" => old = Absent \/ onDisk = Absent
  BY DEF MergeAction, Actions

(* What is generated for a file is a content of known edits, or nothing.   *)
LEMMA GeneratedType ==
  ASSUME TypeOK, NEW f \in Files
  PROVE  /\ Generated(f) \in Content \union {Absent}
         /\ EditsInv /\ Generated(f) # Absent => Generated(f).edits \subseteq 1..edits
  BY RenderedType, ScaffoldOK DEF TypeOK, Generated, EditsInv, Rendered

-----------------------------------------------------------------------------

(* The invariant holds at first,                                           *)
LEMMA InitIInv == Init => IInv
<1> SUFFICES ASSUME Init PROVE IInv
  OBVIOUS
<1>1. TypeOK
  <2>1. /\ disk \in [Files -> Content \union {Absent}]
        /\ hashes \in [TreeFiles -> Content \union {Absent}]
    BY DEF Init
  <2>2. plan \in [TreeFiles -> MergeEntry \union {Absent}] /\ pending = {}
    BY DEF Init, NoPlan
  <2>3. edits \in 0..MaxEdits
    BY ScaffoldOK DEF Init
  <2> QED
    BY <2>1, <2>2, <2>3 DEF Init, TypeOK
<1>2. PlanInv /\ EditsInv /\ DoneInv
  BY TreeIsFiles DEF Init, PlanInv, EditsInv, DoneInv, Delivered, NoPlan
<1> QED
  BY <1>1, <1>2 DEF IInv

(* The file after an edit.                                                 *)
LEMMA EditedContent ==
  ASSUME TypeOK, NEW f \in Files, Edit(f)
  PROVE  /\ edits' = edits + 1 /\ edits' \in 1..MaxEdits
         /\ disk[f] \in Content
         /\ disk' = [disk EXCEPT ![f] = [disk[f] EXCEPT !.edits = @ \union {edits + 1}]]
         /\ disk'[f] \in Content
         /\ disk'[f].texts = disk[f].texts
         /\ disk'[f].edits = disk[f].edits \union {edits + 1}
<1>1. edits' = edits + 1 /\ edits' \in 1..MaxEdits /\ disk[f] \in Content
  BY ScaffoldOK DEF TypeOK, Edit
<1>2. disk' = [disk EXCEPT ![f] = [disk[f] EXCEPT !.edits = @ \union {edits + 1}]]
  BY <1>1 DEF Edit
<1>3. disk'[f] = [disk[f] EXCEPT !.edits = @ \union {edits + 1}]
  BY <1>2 DEF TypeOK
<1> DEFINE c == disk[f]
<1>4. /\ c \in Content
      /\ [c EXCEPT !.edits = @ \union {edits + 1}] \in Content
      /\ [c EXCEPT !.edits = @ \union {edits + 1}].texts = c.texts
      /\ [c EXCEPT !.edits = @ \union {edits + 1}].edits = c.edits \union {edits + 1}
  <2> HIDE DEF c
  <2>1. c \in Content /\ edits + 1 \in 1..MaxEdits
    BY <1>1 DEF c
  <2> QED
    BY <2>1 DEF Content
<1> QED
  BY <1>1, <1>2, <1>3, <1>4

(* when the user edits a file,                                             *)
LEMMA EditIInv == ASSUME IInv, NEW f \in Files, Edit(f) PROVE IInv'
<1>1. /\ edits' = edits + 1 /\ edits' \in 1..MaxEdits
      /\ disk[f] \in Content
      /\ disk' = [disk EXCEPT ![f] = [disk[f] EXCEPT !.edits = @ \union {edits + 1}]]
      /\ disk'[f] \in Content
      /\ disk'[f].texts = disk[f].texts
      /\ disk'[f].edits = disk[f].edits \union {edits + 1}
  BY EditedContent DEF IInv
<1>2. /\ UNCHANGED <<scaffold, hashes, project, pc, plan, pending>>
      /\ \A g \in Files : g # f => disk'[g] = disk[g]
      /\ disk[f] # Absent /\ edits \in Nat
  BY <1>1 DEF Edit, command, IInv, TypeOK
<1>3. disk' \in [Files -> Content \union {Absent}]
  BY <1>1 DEF IInv, TypeOK
<1>4. TypeOK'
  BY <1>1, <1>2, <1>3 DEF IInv, TypeOK, NoPlan
<1>5. PlanInv'
  BY <1>2 DEF IInv, PlanInv
<1>6. EditsInv'
  BY <1>1, <1>2 DEF IInv, EditsInv
<1>7. DoneInv'
  <2> SUFFICES ASSUME NEW g \in TreeFiles \ pending, plan[g] # Absent, disk'[g] # Absent
               PROVE  \/ plan[g].new.texts \subseteq disk'[g].texts
                      \/ plan[g].new = hashes[g] /\ disk'[g] # hashes[g]
    BY <1>2 DEF DoneInv, Delivered
  <2>1. CASE g # f
    BY <2>1, <1>2, TreeIsFiles DEF IInv, DoneInv, Delivered
  <2>2. CASE g = f
    <3>1. \/ plan[g].new.texts \subseteq disk[g].texts
          \/ plan[g].new = hashes[g] /\ disk[g] # hashes[g]
      BY <2>2, <1>2 DEF IInv, DoneInv, Delivered
    <3>2. hashes[g] # Absent => edits + 1 \notin hashes[g].edits
      BY <1>2 DEF IInv, EditsInv
    <3>3. disk'[g] # hashes[g]
      BY <3>2, <2>2, <1>1, ScaffoldOK
    <3> QED
      BY <3>1, <3>3, <2>2, <1>1
  <2> QED
    BY <2>1, <2>2
<1> QED
  BY <1>4, <1>5, <1>6, <1>7 DEF IInv

(* when the user deletes one,                                              *)
LEMMA DeleteIInv == ASSUME IInv, NEW f \in Files, Delete(f) PROVE IInv'
<1>1. /\ UNCHANGED <<scaffold, hashes, project, pc, plan, pending, edits>>
      /\ disk' = [disk EXCEPT ![f] = Absent]
  BY DEF Delete, command
<1>2. \A g \in Files : disk'[g] = disk[g] \/ disk'[g] = Absent
  BY <1>1 DEF IInv, TypeOK
<1>3. TypeOK'
  BY <1>1 DEF IInv, TypeOK, NoPlan
<1>4. PlanInv' /\ EditsInv'
  BY <1>1, <1>2 DEF IInv, PlanInv, EditsInv
<1>5. DoneInv'
  BY <1>1, <1>2, TreeIsFiles DEF IInv, DoneInv, Delivered
<1> QED
  BY <1>3, <1>4, <1>5 DEF IInv

(* when a release changes the templates,                                   *)
LEMMA ReleaseIInv == ASSUME IInv, NEW f \in Files, Release(f) PROVE IInv'
<1>1. UNCHANGED <<disk, hashes, project, pc, plan, pending, edits>>
  BY DEF Release, command
<1>2. TypeOK'
  BY <1>1 DEF Release, IInv, TypeOK
<1>3. PlanInv' /\ EditsInv' /\ DoneInv'
  BY <1>1 DEF IInv, PlanInv, EditsInv, DoneInv, Delivered
<1> QED
  BY <1>2, <1>3 DEF IInv

(* Files written by Apply while no plan exists.                            *)
LEMMA GenerateIInv ==
  ASSUME IInv, pc = "idle", UNCHANGED <<scaffold, hashes, project, plan, pending, edits>>,
         pc' \in {"idle", "initSave"},
         NEW written \in SUBSET Files,
         disk' = [f \in Files |-> IF f \in written THEN Generated(f) ELSE disk[f]]
  PROVE  IInv'
<1>1. /\ disk' \in [Files -> Content \union {Absent}]
      /\ \A f \in Files : disk'[f] # Absent => disk'[f].edits \subseteq 1..edits
  BY GeneratedType DEF IInv, TypeOK, EditsInv
<1>2. plan = NoPlan /\ pending = {}
  BY DEF IInv, PlanInv
<1>3. TypeOK'
  BY <1>1 DEF IInv, TypeOK
<1>4. PlanInv' /\ EditsInv'
  BY <1>1, <1>2 DEF IInv, PlanInv, EditsInv
<1>5. DoneInv'
  BY <1>2 DEF DoneInv, Delivered, NoPlan
<1> QED
  BY <1>3, <1>4, <1>5 DEF IInv

(* when init writes its files,                                             *)
LEMMA InitApplyIInv == ASSUME IInv, InitApply \/ ApplyFails PROVE IInv'
<1>1. CASE InitApply
  <2>1. disk' = [f \in Files |-> IF f \in Files THEN Generated(f) ELSE disk[f]]
    BY <1>1 DEF InitApply
  <2> QED
    BY <1>1, <2>1, GenerateIInv DEF InitApply
<1>2. CASE ApplyFails
  BY <1>2, GenerateIInv DEF ApplyFails, command
<1> QED
  BY <1>1, <1>2

(* when it saves their hashes,                                             *)
LEMMA InitSaveIInv == ASSUME IInv, InitSave PROVE IInv'
<1>1. plan = NoPlan /\ pending = {}
  BY DEF InitSave, IInv, PlanInv
<1>2. TypeOK'
  BY DEF InitSave, IInv, TypeOK
<1>3. PlanInv' /\ EditsInv' /\ DoneInv'
  BY <1>1 DEF InitSave, IInv, PlanInv, EditsInv, DoneInv, Delivered, NoPlan
<1> QED
  BY <1>2, <1>3 DEF IInv

(* What a fresh plan says.                                                 *)
LEMMA PlanFacts ==
  ASSUME IInv, NEW f \in TreeFiles, ComputeMergePlan[f] # Absent
  PROVE  LET e == ComputeMergePlan[f] IN
         /\ e \in MergeEntry
         /\ e.old = hashes[f] /\ e.disk = disk[f]
         /\ e.action = MergeAction(e.old, e.disk, e.new)
         /\ \E t : e.new = Rendered(t)
         /\ f \notin ToApply(ComputeMergePlan) /\ disk[f] # Absent =>
               \/ e.new.texts \subseteq disk[f].texts
               \/ e.new = hashes[f] /\ disk[f] # hashes[f]
<1> DEFINE n == Rendered(scaffold[f])
           a == MergeAction(hashes[f], disk[f], n)
<1>1. /\ ComputeMergePlan[f] = [action |-> a, old |-> hashes[f], disk |-> disk[f], new |-> n]
      /\ scaffold[f] # Absent
  BY DEF ComputeMergePlan
<1>2. n \in Content
  BY <1>1, RenderedType, TreeIsFiles DEF IInv, TypeOK
<1>3. /\ a \in Actions
      /\ a = "none" => disk[f] = hashes[f] /\ n = hashes[f]
      /\ a = "preserve" => disk[f] # hashes[f] /\ n = hashes[f]
  BY MergeCases
<1>4. hashes[f] \in Content \union {Absent} /\ disk[f] \in Content \union {Absent}
  BY TreeIsFiles DEF IInv, TypeOK
<1>5. f \notin ToApply(ComputeMergePlan) => a \in {"none", "preserve"}
  <2> HIDE DEF n, a
  <2>1. ComputeMergePlan[f].action = a /\ ComputeMergePlan[f] # Absent
    BY <1>1
  <2> QED
    BY <2>1, <1>3 DEF ToApply, Actions
<1>8. \E t : n = Rendered(t)
  OBVIOUS
<1> HIDE DEF n, a
<1>6. ComputeMergePlan[f] \in MergeEntry
  BY <1>1, <1>2, <1>3, <1>4 DEF MergeEntry
<1>7. MergeAction(ComputeMergePlan[f].old, ComputeMergePlan[f].disk, ComputeMergePlan[f].new) = a
  BY <1>1 DEF a
<1> QED
  BY <1>1, <1>3, <1>5, <1>6, <1>7, <1>8

(* when an update renders the root files and plans the rest,               *)
LEMMA PrepareIInv == ASSUME IInv, PrepareUpdate PROVE IInv'
<1> DEFINE d == [f \in Files |-> IF f \in RootFiles THEN Generated(f) ELSE disk[f]]
<1>1. disk' = d /\ pc = "idle" /\ UNCHANGED <<scaffold, hashes, project, edits>>
  BY DEF PrepareUpdate
<1>2. CASE UNCHANGED command
  <2>1. d = [f \in Files |-> IF f \in RootFiles THEN Generated(f) ELSE disk[f]]
        /\ RootFiles \in SUBSET Files
    BY DEF Files
  <2> QED
    BY <1>1, <1>2, <2>1, GenerateIInv DEF command
<1>3. CASE pc' = "confirm" /\ plan' = ComputeMergePlan /\ pending' = ToApply(ComputeMergePlan)
  <2>1. \A f \in TreeFiles : disk'[f] = disk[f]
    BY <1>1, TreeIsFiles, ScaffoldOK
  <2>2. /\ disk' \in [Files -> Content \union {Absent}]
        /\ \A f \in Files : disk'[f] # Absent => disk'[f].edits \subseteq 1..edits
    BY <1>1, GeneratedType DEF IInv, TypeOK, EditsInv
  <2>3. plan' \in [TreeFiles -> MergeEntry \union {Absent}]
    <3>1. ComputeMergePlan = [f \in TreeFiles |-> ComputeMergePlan[f]]
      BY DEF ComputeMergePlan
    <3> QED
      BY <1>3, <3>1, PlanFacts
  <2>4. pending' \subseteq {f \in TreeFiles : plan'[f] # Absent}
    BY <1>3 DEF ToApply
  <2>5. TypeOK'
    BY <1>1, <1>3, <2>2, <2>3, <2>4 DEF IInv, TypeOK
  <2>6. PlanInv'
    BY <1>1, <1>3, PlanFacts DEF PlanInv
  <2>7. EditsInv'
    BY <1>1, <2>2 DEF IInv, EditsInv
  <2>8. DoneInv'
    <3> SUFFICES ASSUME NEW f \in TreeFiles, f \notin ToApply(ComputeMergePlan),
                        ComputeMergePlan[f] # Absent, disk[f] # Absent
                 PROVE  \/ ComputeMergePlan[f].new.texts \subseteq disk[f].texts
                        \/ ComputeMergePlan[f].new = hashes[f] /\ disk[f] # hashes[f]
      BY <1>1, <1>3, <2>1 DEF DoneInv, Delivered
    <3> QED
      BY PlanFacts
  <2> QED
    BY <2>5, <2>6, <2>7, <2>8 DEF IInv
<1> QED
  BY <1>2, <1>3 DEF PrepareUpdate

(* An entry that is applied: the others are not touched.                   *)
LEMMA ApplyFacts ==
  ASSUME IInv, NEW f \in TreeFiles, ApplyEntry(f)
  PROVE  /\ plan[f] \in MergeEntry
         /\ \A g \in Files : g # f => disk'[g] = disk[g]
         /\ disk'[f] \in Content
         /\ plan[f].new.texts \subseteq disk'[f].texts
         /\ disk'[f].edits = {} \/ (disk[f] # Absent /\ disk'[f].edits = disk[f].edits)
         /\ disk' \in [Files -> Content \union {Absent}]
<1>1. f \in Files
  BY TreeIsFiles
<1>2. plan[f] \in MergeEntry
  BY DEF IInv, TypeOK, ApplyEntry
<1>3. plan[f].new \in Content
  BY <1>2 DEF MergeEntry
<1>4. CASE Write(f)
  <2>1. disk' = [disk EXCEPT ![f] = plan[f].new]
    BY <1>4 DEF Write
  <2>2. \E t : plan[f].new = Rendered(t)
    BY DEF IInv, TypeOK, PlanInv, ApplyEntry
  <2>3. plan[f].new.edits = {}
    BY <2>2 DEF Rendered
  <2>4. /\ disk'[f] = plan[f].new /\ \A g \in Files : g # f => disk'[g] = disk[g]
        /\ disk' \in [Files -> Content \union {Absent}]
    BY <1>1, <1>3, <2>1 DEF IInv, TypeOK
  <2> QED
    BY <1>2, <1>3, <2>3, <2>4
<1>5. CASE MarkConflict(f)
  <2> DEFINE c == [texts |-> disk[f].texts \union plan[f].new.texts,
                   edits |-> disk[f].edits, marked |-> TRUE]
  <2>1. disk' = [disk EXCEPT ![f] = c] /\ disk[f] # Absent
    BY <1>5 DEF MarkConflict
  <2>2. disk[f] \in Content
    BY <2>1, <1>1 DEF IInv, TypeOK
  <2>3. c \in Content /\ plan[f].new.texts \subseteq c.texts /\ c.edits = disk[f].edits
    BY <2>2, <1>3 DEF Content
  <2> HIDE DEF c
  <2> QED
    BY <1>1, <1>2, <2>1, <2>3 DEF IInv, TypeOK
<1> QED
  BY <1>4, <1>5 DEF ApplyEntry

(* when it writes a file,                                                  *)
LEMMA ApplyIInv == ASSUME IInv, NEW f \in TreeFiles, ApplyEntry(f) PROVE IInv'
<1>1. /\ pc = "apply" /\ f \in pending /\ pending' = pending \ {f}
      /\ UNCHANGED <<scaffold, hashes, project, pc, plan, edits>>
  BY DEF ApplyEntry
<1>2. TypeOK'
  BY <1>1, ApplyFacts DEF IInv, TypeOK
<1>3. PlanInv'
  BY <1>1 DEF IInv, PlanInv
<1>4. EditsInv'
  BY <1>1, ApplyFacts, TreeIsFiles DEF IInv, EditsInv
<1>5. DoneInv'
  <2> SUFFICES ASSUME NEW g \in TreeFiles, g \notin pending \/ g = f
               PROVE  Delivered(g)'
    BY <1>1 DEF DoneInv
  <2>1. CASE g = f
    BY <2>1, <1>1, ApplyFacts DEF Delivered
  <2>2. CASE g # f
    <3>1. disk'[g] = disk[g] /\ Delivered(g)
      BY <2>2, ApplyFacts, TreeIsFiles DEF IInv, DoneInv
    <3> QED
      BY <3>1, <1>1 DEF Delivered
  <2> QED
    BY <2>1, <2>2
<1> QED
  BY <1>2, <1>3, <1>4, <1>5 DEF IInv

(* in its other steps,                                                     *)
LEMMA RestIInv == ASSUME IInv, Confirm \/ SaveHashes \/ Stop PROVE IInv'
<1>1. CASE Confirm
  <2>1. TypeOK' /\ PlanInv' /\ EditsInv'
    BY <1>1 DEF Confirm, IInv, TypeOK, PlanInv, EditsInv
  <2>2. DoneInv'
    BY <1>1 DEF Confirm, IInv, DoneInv, Delivered
  <2> QED
    BY <2>1, <2>2 DEF IInv
<1>2. CASE SaveHashes \/ Stop
  <2>1. plan' = NoPlan /\ pending' = {} /\ pc' = "idle"
        /\ UNCHANGED <<scaffold, disk, project, edits>>
    BY <1>2 DEF SaveHashes, Stop
  <2>2. hashes' \in [TreeFiles -> Content \union {Absent}]
        /\ \A f \in TreeFiles : hashes'[f] \in {hashes[f], disk[f]}
    BY <1>2, TreeIsFiles DEF SaveHashes, Stop, IInv, TypeOK
  <2>3. TypeOK'
    BY <2>1, <2>2 DEF IInv, TypeOK, NoPlan
  <2>4. PlanInv'
    BY <2>1 DEF PlanInv, NoPlan
  <2>5. EditsInv'
    BY <2>1, <2>2, TreeIsFiles DEF IInv, EditsInv
  <2>6. DoneInv'
    BY <2>1 DEF DoneInv, Delivered, NoPlan
  <2> QED
    BY <2>3, <2>4, <2>5, <2>6 DEF IInv
<1> QED
  BY <1>1, <1>2

(* and so in every step.                                                   *)
LEMMA NextIInv == IInv /\ [Next]_vars => IInv'
<1> SUFFICES ASSUME IInv, [Next]_vars PROVE IInv'
  OBVIOUS
<1>1. CASE UNCHANGED vars
  BY <1>1 DEF vars, command, IInv, TypeOK, PlanInv, EditsInv, DoneInv, Delivered
<1>2. CASE Next
  BY <1>2, EditIInv, DeleteIInv, ReleaseIInv, InitApplyIInv, InitSaveIInv, PrepareIInv,
     ApplyIInv, RestIInv DEF Next, Update
<1> QED
  BY <1>1, <1>2

-----------------------------------------------------------------------------

(* The inductive invariant holds in every behaviour.                       *)
THEOREM Inductive == Spec => []IInv
  BY InitIInv, NextIInv, PTL DEF Spec

(* Every variable keeps its type.                                          *)
THEOREM TypeCorrect == Spec => []TypeOK
<1>1. IInv => TypeOK
  BY DEF IInv
<1> QED
  BY <1>1, Inductive, PTL

(* An update that has applied its plan has delivered the templates.        *)
THEOREM Delivers == Spec => []UpdateDelivers
<1>1. IInv => UpdateDelivers
  BY DEF IInv, DoneInv, Delivered, UpdateDelivers
<1> QED
  BY <1>1, Inductive, PTL

(* With a recorded base free of edits the merge loses no edit.             *)
THEOREM KnownBaseIsSafe == Spec => EditsSurviveKnownBase
<1> DEFINE Safe(f) ==
      Update /\ hashes[f] # Absent /\ hashes[f].edits = {}
      /\ (pc = "apply" => plan[f] # Absent /\ disk[f] = plan[f].disk) => Keeps(f)
<1>1. ASSUME IInv, [Next]_vars PROVE [\A f \in TreeFiles : Safe(f)]_vars
  <2> SUFFICES ASSUME NEW f \in TreeFiles, Update, hashes[f] # Absent, hashes[f].edits = {},
                      pc = "apply" => plan[f] # Absent /\ disk[f] = plan[f].disk
               PROVE  Keeps(f)
    OBVIOUS
  <2>1. CASE PrepareUpdate \/ Confirm \/ SaveHashes
    <3>1. disk'[f] = disk[f]
      BY <1>1, <2>1, TreeIsFiles, ScaffoldOK DEF PrepareUpdate, Confirm, SaveHashes
    <3> QED
      BY <3>1 DEF Keeps
  <2>2. ASSUME NEW g \in TreeFiles, ApplyEntry(g), g # f PROVE Keeps(f)
    BY <1>1, <2>2, ApplyFacts, TreeIsFiles DEF Keeps
  <2>3. CASE ApplyEntry(f)
    <3>1. /\ plan[f] # Absent /\ disk[f] = plan[f].disk /\ plan[f].old = hashes[f]
          /\ plan[f].action = MergeAction(plan[f].old, plan[f].disk, plan[f].new)
      BY <1>1, <2>3 DEF ApplyEntry, IInv, TypeOK, PlanInv
    <3>2. disk'[f] \in Content /\ disk'[f] # Absent
      BY <1>1, <2>3, ApplyFacts, ScaffoldOK
    <3>3. CASE Write(f)
      <4>1. disk[f] = hashes[f] \/ disk[f] = Absent
        BY <3>1, <3>3, MergeCases DEF Write
      <4> QED
        BY <4>1 DEF Keeps, EditsOf
    <3>4. CASE MarkConflict(f)
      <4>1. disk[f] # Absent /\ disk'[f].edits = disk[f].edits
        BY <1>1, <3>4, TreeIsFiles DEF MarkConflict, IInv, TypeOK
      <4> QED
        BY <4>1, <3>2 DEF Keeps, EditsOf
    <3> QED
      BY <2>3, <3>3, <3>4 DEF ApplyEntry
  <2> QED
    BY <2>1, <2>2, <2>3 DEF Update
<1> QED
  BY <1>1, Inductive, PTL DEF Spec, EditsSurviveKnownBase
=============================================================================
