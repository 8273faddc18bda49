-------------------------- MODULE VizModel_proofs ---------------------------
(***************************************************************************)
(* The terminal monitor, for any resources, tabs, filters and commands in  *)
(* flight: what a confirmed action addresses (a prompt freezes everything  *)
(* that selectedResourceInfo reads), how many chains of refreshes a step   *)
(* leaves (the commands in flight are a finite bag), and the types.        *)
(***************************************************************************)
EXTENDS VizModel, FiniteSetTheorems, WellFoundedInduction, TLAPS

(* While a prompt is open the selection is what it was opened for.         *)
PromptInv ==
    action # NoAction =>
        /\ action.prompted = selectedResourceInfo
        /\ action.name = selectedResourceInfo.name

IInv == OneDialog /\ PromptInv /\ ActsOnPrompted

-----------------------------------------------------------------------------
(* Commands in flight.                                                     *)

(* Removing a command leaves no other one behind.                          *)
LEMMA DoneShrinks ==
  ASSUME NEW c, Done(c)
  PROVE BagToSet(inflight') \subseteq BagToSet(inflight)
  BY DEF Done, (-), BagToSet

(* Adding a command brings in just that command.                           *)
LEMMA IssueAdds ==
  ASSUME NEW c, Issue(c)
  PROVE BagToSet(inflight') \subseteq BagToSet(inflight) \union {c}
  BY DEF Issue, (+), BagToSet, SetToBag

(* A command replaced by its successor.                                    *)
LEMMA BecomesAdds ==
  ASSUME NEW c, NEW d, Becomes(c, d)
  PROVE BagToSet(inflight') \subseteq BagToSet(inflight) \union {d}
<1> DEFINE B == inflight (-) SetToBag({c})
<1>1. DOMAIN B \subseteq DOMAIN inflight
  BY DEF (-)
<1>2. DOMAIN (B (+) SetToBag({d})) = DOMAIN B \union {d}
  BY DEF (+), SetToBag
<1> QED
  BY <1>1, <1>2 DEF Becomes, BagToSet

(* Commands that are no jobs do not matter to ActsOnPrompted.              *)
LEMMA OtherCommands ==
  ASSUME ActsOnPrompted, NEW d, d.kind # "job",
         BagToSet(inflight') \subseteq BagToSet(inflight) \union {d}
  PROVE ActsOnPrompted'
  BY DEF ActsOnPrompted

(* Nor do commands that end.                                               *)
LEMMA EndedCommands ==
  ASSUME ActsOnPrompted, BagToSet(inflight') \subseteq BagToSet(inflight)
  PROVE ActsOnPrompted'
  BY DEF ActsOnPrompted

-----------------------------------------------------------------------------

(* What leaves the prompt, the rows and the selection alone keeps the      *)
(* selection.                                                              *)
LEMMA SelectionFrame ==
  ASSUME UNCHANGED <<tab, data, selected, filter>>
  PROVE selectedResourceInfo' = selectedResourceInfo
  BY DEF selectedResourceInfo, RowAt, Actionable

(* Where the screen stays, so do its dialogs.                              *)
LEMMA DialogFrame ==
  ASSUME OneDialog, PromptInv, UNCHANGED screen
  PROVE OneDialog' /\ PromptInv'
  BY SelectionFrame DEF screen, OneDialog, PromptInv

(* The invariant holds at first.                                           *)
LEMMA InitIInv == Init => IInv
<1> SUFFICES ASSUME Init PROVE IInv
  OBVIOUS
<1>1. BagToSet(inflight) = {Tick, Fetch(FirstTab, NoFilter)}
  BY DEF Init, BagToSet, SetToBag
<1>2. action = NoAction /\ view = "list"
  BY DEF Init
<1>3. Tick.kind # "job" /\ Fetch(FirstTab, NoFilter).kind # "job"
  BY DEF Tick, Fetch
<1>4. ActsOnPrompted
  BY <1>1, <1>3 DEF ActsOnPrompted
<1> QED
  BY <1>2, <1>4 DEF IInv, OneDialog, PromptInv

(* Outside a prompt only OneDialog can be disturbed.                       *)
LEMMA NoPrompt ==
  ASSUME action' = NoAction
  PROVE PromptInv'
  BY DEF PromptInv

(* A message handled in the list, a swallowed one, and what happens outside*)
(* the program: none of them opens or changes a prompt.                    *)
LEMMA MessagesIInv ==
  ASSUME IInv, Messages \/ ReadFails \/ ClusterChanges
  PROVE IInv'
<1> USE DEF IInv
<1>1. CASE TickArrives
  <2>1. PICK c \in {Tick, ReconnectTimer} : Becomes(c, Fetch(tab, filter))
    BY <1>1 DEF TickArrives
  <2>2. ActsOnPrompted'
    BY <2>1, BecomesAdds, OtherCommands DEF Fetch
  <2> QED
    BY <1>1, <2>2, DialogFrame DEF TickArrives
<1>2. CASE Read
  <2>1. PICK c \in BagToSet(inflight) :
             Becomes(c, Listing(c.tab, {r \in cluster : r.tab = c.tab} \intersect c.scope))
    BY <1>2 DEF Read
  <2>2. ActsOnPrompted'
    BY <2>1, BecomesAdds, OtherCommands DEF Listing
  <2> QED
    BY <1>2, <2>2, DialogFrame DEF Read
<1>3. CASE ReadFails
  <2>1. PICK c \in BagToSet(inflight) : Becomes(c, Failure)
    BY <1>3 DEF ReadFails
  <2>2. ActsOnPrompted'
    BY <2>1, BecomesAdds, OtherCommands DEF Failure
  <2> QED
    BY <1>3, <2>2, DialogFrame DEF ReadFails
<1>4. CASE DataArrives
  <2>1. PICK c \in BagToSet(inflight) : Becomes(c, Tick)
    BY <1>4 DEF DataArrives
  <2>2. ActsOnPrompted'
    BY <2>1, BecomesAdds, OtherCommands DEF Tick
  <2> QED
    BY <1>4, <2>2, NoPrompt DEF DataArrives, ListMode, OneDialog
<1>5. CASE ErrorArrives
  <2>1. Becomes(Failure, ReconnectTimer) \/ Done(Failure)
    BY <1>5 DEF ErrorArrives
  <2>2. ActsOnPrompted'
    BY <2>1, BecomesAdds, OtherCommands, DoneShrinks, EndedCommands DEF ReconnectTimer
  <2> QED
    BY <1>5, <2>2, DialogFrame DEF ErrorArrives
<1>6. CASE ResultArrives
  <2>1. ActsOnPrompted'
    BY <1>6, BecomesAdds, OtherCommands DEF ResultArrives, Fetch
  <2> QED
    BY <1>6, <2>1, DialogFrame DEF ResultArrives
<1>7. CASE DetailArrives
  <2>1. ActsOnPrompted'
    BY <1>7, DoneShrinks, EndedCommands DEF DetailArrives
  <2> QED
    BY <1>7, <2>1, NoPrompt DEF DetailArrives, OneDialog
<1>8. CASE Swallow
  <2>1. ActsOnPrompted'
    BY <1>8, DoneShrinks, EndedCommands DEF Swallow
  <2> QED
    BY <1>8, <2>1, DialogFrame DEF Swallow
<1>9. CASE RunJob
  <2>1. PICK c \in BagToSet(inflight) : Becomes(c, Result)
    BY <1>9 DEF RunJob
  <2>2. ActsOnPrompted'
    BY <2>1, BecomesAdds, OtherCommands DEF Result
  <2> QED
    BY <1>9, <2>2, DialogFrame DEF RunJob
<1>10. CASE ClusterChanges
  BY <1>10, DialogFrame, EndedCommands DEF ClusterChanges
<1> QED
  BY <1>1, <1>2, <1>3, <1>4, <1>5, <1>6, <1>7, <1>8, <1>9, <1>10 DEF Messages

(* Keys of the list: only d, s and r open a prompt, and for the selection. *)
LEMMA ListKeysIInv ==
  ASSUME IInv, ListKeys
  PROVE IInv'
<1> USE DEF IInv, ListMode
<1>1. CASE Down \/ Up \/ Home \/ End
  BY <1>1, NoPrompt, EndedCommands DEF ListKeys, Down, Up, Home, End, OneDialog
<1>2. CASE ClearFilters
  <2>1. ActsOnPrompted'
    BY <1>2, IssueAdds, OtherCommands DEF ClearFilters, Fetch
  <2> QED
    BY <1>2, <2>1, NoPrompt DEF ListKeys, ClearFilters, OneDialog
<1>3. CASE RequestDetail
  <2>1. ActsOnPrompted'
    BY <1>3, IssueAdds, OtherCommands DEF RequestDetail, Detail
  <2> QED
    BY <1>3, <2>1, DialogFrame DEF RequestDetail
<1>4. ASSUME NEW t \in Tabs, SwitchTab(t) PROVE IInv'
  <2>1. ActsOnPrompted'
    BY <1>4, IssueAdds, OtherCommands DEF SwitchTab, Fetch
  <2> QED
    BY <1>4, <2>1, NoPrompt DEF ListKeys, SwitchTab, OneDialog
<1>5. ASSUME NEW field \in {"scope", "status", "search"}, OpenInput(field) PROVE IInv'
  BY <1>5, NoPrompt, EndedCommands DEF ListKeys, OpenInput, OneDialog
<1>6. ASSUME NEW op \in Actions, OpenPrompt(op) PROVE IInv'
  <2>1. selectedResourceInfo' = selectedResourceInfo
    BY <1>6, SelectionFrame DEF OpenPrompt
  <2>2. PromptInv'
    BY <1>6, <2>1 DEF OpenPrompt, PromptInv
  <2> QED
    BY <1>6, <2>2, EndedCommands DEF ListKeys, OpenPrompt, OneDialog
<1> QED
  BY <1>1, <1>2, <1>3, <1>4, <1>5, <1>6 DEF ListKeys

(* Keys of the dialogs; Confirm is where PromptInv is needed.              *)
LEMMA DialogKeysIInv ==
  ASSUME IInv, Confirm \/ CancelPrompt \/ CloseDetail \/ ApplyFilter \/ CancelInput
  PROVE IInv'
<1> USE DEF IInv
<1>1. CASE Confirm
  <2> DEFINE on == [tab |-> AddressedTab(action.op, selectedResourceInfo.tab),
                    ns |-> selectedResourceInfo.ns, name |-> action.name]
             job == Job(action.op, on, action.prompted)
  <2>1. on = [tab |-> AddressedTab(job.op, job.prompted.tab), ns |-> job.prompted.ns,
              name |-> job.prompted.name]
    BY <1>1 DEF Confirm, PromptInv, Job
  <2>2. ASSUME Issue(job) PROVE ActsOnPrompted'
    <3>1. BagToSet(inflight') \subseteq BagToSet(inflight) \union {job}
      BY <2>2, IssueAdds
    <3>2. job.on = on
      BY DEF Job
    <3> HIDE DEF job, on
    <3> QED
      BY <2>1, <3>1, <3>2 DEF ActsOnPrompted, AddressedTab
  <2>3. ASSUME Issue(Result) PROVE ActsOnPrompted'
    BY <2>3, IssueAdds, OtherCommands DEF Result
  <2>4. Issue(job) \/ Issue(Result)
    BY <1>1 DEF Confirm
  <2>5. ActsOnPrompted'
    BY <2>2, <2>3, <2>4
  <2> QED
    BY <1>1, <2>5, NoPrompt DEF Confirm, OneDialog
<1>2. CASE CancelPrompt
  BY <1>2, NoPrompt, EndedCommands DEF CancelPrompt, OneDialog
<1>3. CASE CloseDetail
  BY <1>3, NoPrompt, EndedCommands DEF CloseDetail, OneDialog
<1>4. CASE ApplyFilter
  <2>1. ActsOnPrompted'
    BY <1>4, IssueAdds, OtherCommands DEF ApplyFilter, Fetch
  <2> QED
    BY <1>4, <2>1, NoPrompt DEF ApplyFilter, OneDialog
<1>5. CASE CancelInput
  BY <1>5, NoPrompt, EndedCommands DEF CancelInput, OneDialog
<1> QED
  BY <1>1, <1>2, <1>3, <1>4, <1>5

(* The inductive invariant holds for ever.                                 *)
THEOREM Inductive == Spec => []IInv
<1>1. IInv /\ [Next]_vars => IInv'
  <2> SUFFICES ASSUME IInv, [Next]_vars PROVE IInv'
    OBVIOUS
  <2>1. CASE UNCHANGED vars
    BY <2>1, DialogFrame, EndedCommands DEF vars, IInv
  <2> QED
    BY <2>1, MessagesIInv, ListKeysIInv, DialogKeysIInv DEF Next, Keys
<1> QED
  BY <1>1, InitIInv, PTL DEF Spec

-----------------------------------------------------------------------------

(* One dialog has the keyboard, however late a detail arrives (OneDialog). *)
THEOREM DialogsExclude == Spec => []OneDialog
<1>1. IInv => OneDialog
  BY DEF IInv
<1> QED
  BY <1>1, Inductive, PTL

(* A confirmed action goes to the resource of its prompt (ActsOnPrompted). *)
THEOREM ActionsHitTheirPrompt == Spec => []ActsOnPrompted
<1>1. IInv => ActsOnPrompted
  BY DEF IInv
<1> QED
  BY <1>1, Inductive, PTL

-----------------------------------------------------------------------------
(* How many commands are in flight.                                        *)

CountedBag(B) == B \in [DOMAIN B -> Nat \ {0}] /\ IsFiniteSet(Copies(B))
Counted(B) == {copy \in Copies(B) : copy[1] # Detail}

(* One more copy of a command, whether it is there already or not.         *)
LEMMA AddCounts ==
  ASSUME NEW B, CountedBag(B), NEW c
  PROVE  LET A == B (+) SetToBag({c}) IN
         /\ CountedBag(A) /\ DOMAIN A = DOMAIN B \union {c}
         /\ Cardinality(Counted(A)) \in Nat /\ Cardinality(Counted(B)) \in Nat
         /\ c = Detail => Cardinality(Counted(A)) = Cardinality(Counted(B))
         /\ c # Detail => Cardinality(Counted(A)) = Cardinality(Counted(B)) + 1
<1> DEFINE A == B (+) SetToBag({c})
           n == IF c \in DOMAIN B THEN B[c] + 1 ELSE 1
<1>1. /\ DOMAIN A = DOMAIN B \union {c} /\ A[c] = n /\ n \in Nat /\ n > 0
      /\ \A d \in DOMAIN B : d # c => A[d] = B[d]
  BY DEF (+), SetToBag, CountedBag
<1>2. A \in [DOMAIN A -> Nat \ {0}]
  BY DEF (+), SetToBag, CountedBag
<1>3. <<c, n>> \notin Copies(B)
  BY DEF Copies, BagToSet, CountedBag
<1> HIDE DEF A
<1>4. Copies(A) = Copies(B) \union {<<c, n>>}
  <2>1. ASSUME NEW x \in Copies(A) PROVE x \in Copies(B) \union {<<c, n>>}
    <3>1. PICK d \in DOMAIN A : x \in {d} \X (1..A[d])
      BY DEF Copies, BagToSet
    <3>2. CASE d # c
      BY <1>1, <3>1, <3>2 DEF Copies, BagToSet
    <3>3. CASE d = c
      BY <1>1, <3>1, <3>3 DEF Copies, BagToSet, CountedBag
    <3>4. QED
      BY <3>2, <3>3
  <2>2. ASSUME NEW x \in Copies(B) PROVE x \in Copies(A)
    <3>1. PICK d \in DOMAIN B : x \in {d} \X (1..B[d])
      BY DEF Copies, BagToSet
    <3>2. 1..B[d] \subseteq 1..A[d]
      BY <1>1 DEF CountedBag
    <3>3. QED
      BY <1>1, <3>1, <3>2 DEF Copies, BagToSet
  <2>3. <<c, n>> \in Copies(A)
    BY <1>1 DEF Copies, BagToSet
  <2>4. QED
    BY <2>1, <2>2, <2>3
<1> HIDE DEF n
<1>5. IsFiniteSet(Copies(A))
  BY <1>4, FS_AddElement DEF CountedBag
<1>6. IsFiniteSet(Counted(B)) /\ Cardinality(Counted(B)) \in Nat
  BY FS_Subset, FS_CardinalityType DEF Counted, CountedBag
<1>7. CountedBag(A)
  BY <1>2, <1>5 DEF CountedBag
<1>8. c = Detail => Counted(A) = Counted(B)
  BY <1>4 DEF Counted
<1>9. ASSUME c # Detail PROVE Cardinality(Counted(A)) = Cardinality(Counted(B)) + 1
  <2>1. Counted(A) = Counted(B) \union {<<c, n>>} /\ <<c, n>> \notin Counted(B)
    BY <1>3, <1>4, <1>9 DEF Counted
  <2>2. QED
    BY <1>6, <2>1, FS_AddElement
<1>10. Cardinality(Counted(A)) \in Nat
  BY <1>5, FS_Subset, FS_CardinalityType DEF Counted
<1>11. DOMAIN A = DOMAIN B \union {c}
  BY <1>1
<1>12. QED
  BY <1>6, <1>7, <1>8, <1>9, <1>10, <1>11 DEF A

(* One copy fewer, the last or another one.                                *)
LEMMA RemoveCounts ==
  ASSUME NEW B, CountedBag(B), NEW c \in DOMAIN B
  PROVE  LET A == B (-) SetToBag({c}) IN
         /\ CountedBag(A) /\ DOMAIN A \subseteq DOMAIN B
         /\ Cardinality(Counted(A)) \in Nat /\ Cardinality(Counted(B)) \in Nat
         /\ c = Detail => Cardinality(Counted(A)) = Cardinality(Counted(B))
         /\ c # Detail => Cardinality(Counted(A)) + 1 = Cardinality(Counted(B))
<1> DEFINE A == B (-) SetToBag({c})
           n == B[c]
<1>1. n \in Nat /\ n > 0 /\ B \in [DOMAIN B -> Nat \ {0}]
  BY DEF CountedBag
<1>2. /\ A \in [DOMAIN A -> Nat \ {0}] /\ DOMAIN A \subseteq DOMAIN B
      /\ \A d \in DOMAIN B : d # c => d \in DOMAIN A /\ A[d] = B[d]
      /\ c \in DOMAIN A => A[c] = n - 1
      /\ c \notin DOMAIN A => n = 1
  BY <1>1 DEF (-), SetToBag
<1> HIDE DEF A
<1>3. <<c, n>> \in Copies(B)
  BY <1>1 DEF Copies, BagToSet
<1>4. Copies(A) = Copies(B) \ {<<c, n>>}
  <2>1. ASSUME NEW x \in Copies(A) PROVE x \in Copies(B) \ {<<c, n>>}
    <3>1. PICK d \in DOMAIN A : x \in {d} \X (1..A[d])
      BY DEF Copies, BagToSet
    <3>2. CASE d # c
      BY <1>2, <3>1, <3>2 DEF Copies, BagToSet
    <3>3. CASE d = c
      BY <1>1, <1>2, <3>1, <3>3 DEF Copies, BagToSet
    <3>4. QED
      BY <3>2, <3>3
  <2>2. ASSUME NEW x \in Copies(B), x # <<c, n>> PROVE x \in Copies(A)
    <3>1. PICK d \in DOMAIN B : x \in {d} \X (1..B[d])
      BY DEF Copies, BagToSet
    <3>2. CASE d # c
      BY <1>2, <3>1, <3>2 DEF Copies, BagToSet
    <3>3. CASE d = c
      <4>1. PICK i \in 1..n : x = <<c, i>>
        BY <3>1, <3>3
      <4>2. i \in 1..(n - 1) /\ c \in DOMAIN A
        BY <1>1, <1>2, <2>2, <4>1
      <4>3. QED
        BY <1>2, <4>1, <4>2 DEF Copies, BagToSet
    <3>4. QED
      BY <3>2, <3>3
  <2>3. QED
    BY <2>1, <2>2
<1> HIDE DEF n
<1>5. IsFiniteSet(Copies(A))
  BY <1>4, FS_Subset DEF CountedBag
<1>6. IsFiniteSet(Counted(B)) /\ IsFiniteSet(Counted(A)) /\ Cardinality(Counted(B)) \in Nat /\ Cardinality(Counted(A)) \in Nat
  BY <1>5, FS_Subset, FS_CardinalityType DEF Counted, CountedBag
<1>7. CountedBag(A)
  BY <1>2, <1>5 DEF CountedBag
<1>8. c = Detail => Counted(A) = Counted(B)
  BY <1>4 DEF Counted
<1>9. ASSUME c # Detail PROVE Cardinality(Counted(A)) + 1 = Cardinality(Counted(B))
  <2>1. Counted(A) = Counted(B) \ {<<c, n>>} /\ <<c, n>> \in Counted(B)
    BY <1>3, <1>4, <1>9 DEF Counted
  <2>2. Cardinality(Counted(A)) = Cardinality(Counted(B)) - 1
    BY <1>6, <2>1, FS_RemoveElement
  <2>3. QED
    BY <1>6, <2>2
<1>10. DOMAIN A \subseteq DOMAIN B
  BY <1>2
<1>11. QED
  BY <1>6, <1>7, <1>8, <1>9, <1>10 DEF A

(* The chains are the copies of what is not Detail.                        *)
LEMMA ChainsCounted ==
  ASSUME TRUE
  PROVE  Chains = Cardinality(Counted(inflight)) /\ Chains' = Cardinality(Counted(inflight'))
  BY DEF Chains, Counted

(* Issuing a command breaks no chain,                                      *)
LEMMA IssueCounts ==
  ASSUME CountedBag(inflight), NEW c, Issue(c)
  PROVE  CountedBag(inflight') /\ ~(Chains' < Chains)
<1>1. inflight' = inflight (+) SetToBag({c})
  BY DEF Issue
<1>2. /\ CountedBag(inflight')
      /\ Cardinality(Counted(inflight')) \in Nat /\ Cardinality(Counted(inflight)) \in Nat
      /\ c = Detail => Cardinality(Counted(inflight')) = Cardinality(Counted(inflight))
      /\ c # Detail => Cardinality(Counted(inflight')) = Cardinality(Counted(inflight)) + 1
  <2> DEFINE A == inflight (+) SetToBag({c})
  <2>1. /\ CountedBag(A)
        /\ Cardinality(Counted(A)) \in Nat /\ Cardinality(Counted(inflight)) \in Nat
        /\ c = Detail => Cardinality(Counted(A)) = Cardinality(Counted(inflight))
        /\ c # Detail => Cardinality(Counted(A)) = Cardinality(Counted(inflight)) + 1
    BY AddCounts
  <2>2. QED
    BY <1>1, <2>1
<1>3. QED
  BY <1>2, ChainsCounted

(* nor does the end of a command, but one that loads details,              *)
LEMMA DoneCounts ==
  ASSUME CountedBag(inflight), NEW c \in BagToSet(inflight), Done(c)
  PROVE  CountedBag(inflight') /\ (c = Detail => ~(Chains' < Chains))
<1>1. inflight' = inflight (-) SetToBag({c}) /\ c \in DOMAIN inflight
  BY DEF Done, BagToSet
<1>2. QED
  BY <1>1, RemoveCounts, ChainsCounted

(* nor one that is followed by another.                                    *)
LEMMA BecomesCounts ==
  ASSUME CountedBag(inflight), NEW c \in BagToSet(inflight), NEW d, Becomes(c, d), d # Detail
  PROVE  CountedBag(inflight') /\ ~(Chains' < Chains)
<1> DEFINE B == inflight (-) SetToBag({c})
<1>1. inflight' = B (+) SetToBag({d}) /\ c \in DOMAIN inflight
  BY DEF Becomes, BagToSet
<1>2. /\ CountedBag(B)
      /\ Cardinality(Counted(B)) \in Nat /\ Cardinality(Counted(inflight)) \in Nat
      /\ Cardinality(Counted(B)) + 1 >= Cardinality(Counted(inflight))
  BY <1>1, RemoveCounts
<1> HIDE DEF B
<1>3. /\ CountedBag(inflight')
      /\ Cardinality(Counted(inflight')) = Cardinality(Counted(B)) + 1
  BY <1>1, <1>2, AddCounts
<1>4. QED
  BY <1>2, <1>3, ChainsCounted

-----------------------------------------------------------------------------
(* No refresh is lost.                                                     *)

(* What one step does to the commands and to the chains.                   *)
LEMMA StepCounts ==
  ASSUME CountedBag(inflight), [Next]_vars
  PROVE  CountedBag(inflight') /\ (ListMode /\ Chains' < Chains => err')
<1>1. ASSUME UNCHANGED inflight PROVE CountedBag(inflight') /\ ~(Chains' < Chains)
  <2>1. IsFiniteSet(Counted(inflight))
    BY FS_Subset DEF Counted, CountedBag
  <2>2. QED
    BY <1>1, <2>1, FS_CardinalityType, ChainsCounted
<1>2. CASE UNCHANGED vars
  BY <1>1, <1>2 DEF vars
<1>3. CASE TickArrives
  <2>1. PICK c \in {Tick, ReconnectTimer} : InFlight(c) /\ Becomes(c, Fetch(tab, filter))
    BY <1>3 DEF TickArrives
  <2>2. c \in BagToSet(inflight) /\ Fetch(tab, filter) # Detail
    BY <2>1 DEF InFlight, BagIn, Fetch, Detail
  <2>3. QED
    BY <2>1, <2>2, BecomesCounts
<1>4. CASE Read
  <2>1. PICK c \in BagToSet(inflight) :
             Becomes(c, Listing(c.tab, {r \in cluster : r.tab = c.tab} \intersect c.scope))
    BY <1>4 DEF Read
  <2>2. Listing(c.tab, {r \in cluster : r.tab = c.tab} \intersect c.scope) # Detail
    BY DEF Listing, Detail
  <2>3. QED
    BY <2>1, <2>2, BecomesCounts
<1>5. CASE ReadFails
  BY <1>5, BecomesCounts DEF ReadFails, Failure, Detail
<1>6. CASE DataArrives
  BY <1>6, BecomesCounts DEF DataArrives, Tick, Detail
<1>7. CASE ErrorArrives
  <2>1. Failure \in BagToSet(inflight)
    BY <1>7 DEF ErrorArrives, InFlight, BagIn
  <2>2. CASE Becomes(Failure, ReconnectTimer)
    BY <2>1, <2>2, BecomesCounts DEF ReconnectTimer, Detail
  <2>3. CASE Done(Failure) /\ err'
    BY <2>1, <2>3, DoneCounts
  <2>4. QED
    BY <1>7, <2>2, <2>3 DEF ErrorArrives
<1>8. CASE ResultArrives
  BY <1>8, BecomesCounts DEF ResultArrives, InFlight, BagIn, Fetch, Detail
<1>9. CASE DetailArrives
  BY <1>9, DoneCounts DEF DetailArrives, InFlight, BagIn
<1>10. CASE Swallow
  BY <1>10, DoneCounts DEF Swallow
<1>11. CASE RunJob
  BY <1>11, BecomesCounts DEF RunJob, Result, Detail
<1>12. CASE ListKeys
  BY <1>1, <1>12, IssueCounts
     DEF ListKeys, Down, Up, Home, End, ClearFilters, RequestDetail, SwitchTab, OpenInput, OpenPrompt, vars, screen
<1>13. CASE Confirm
  <2>1. PICK c : Issue(c)
    BY <1>13 DEF Confirm
  <2>2. QED
    BY <2>1, IssueCounts
<1>14. CASE ApplyFilter
  <2>1. PICK c : Issue(c)
    BY <1>14 DEF ApplyFilter
  <2>2. QED
    BY <2>1, IssueCounts
<1>15. CASE CancelPrompt \/ CloseDetail \/ CancelInput \/ ClusterChanges
  BY <1>1, <1>15 DEF CancelPrompt, CloseDetail, CancelInput, ClusterChanges
<1>16. QED
  BY <1>2, <1>3, <1>4, <1>5, <1>6, <1>7, <1>8, <1>9, <1>10, <1>11, <1>12, <1>13, <1>14, <1>15
     DEF Next, Messages, Keys

(* The first two commands.                                                 *)
LEMMA InitCounts == Init => CountedBag(inflight)
<1> SUFFICES ASSUME Init PROVE CountedBag(inflight)
  OBVIOUS
<1> DEFINE first == {Tick, Fetch(FirstTab, NoFilter)}
<1>1. inflight = [c \in first |-> 1]
  BY DEF Init, SetToBag
<1>a. IsFiniteSet(first)
  <2>1. first = {Tick} \union {Fetch(FirstTab, NoFilter)}
    OBVIOUS
  <2>2. IsFiniteSet({Tick})
    BY FS_Singleton
  <2>3. IsFiniteSet({Tick} \union {Fetch(FirstTab, NoFilter)})
    BY <2>2, FS_AddElement
  <2>4. QED
    BY <2>1, <2>3
<1> HIDE DEF first
<1>2. Copies(inflight) = first \X {1}
  BY <1>1 DEF Copies, BagToSet
<1>3. IsFiniteSet(first \X {1})
  BY <1>a, FS_Singleton, FS_Product
<1>4. QED
  BY <1>1, <1>2, <1>3 DEF CountedBag

(* While the list has the keyboard, every message that ends a refresh      *)
(* starts the next one, unless an error is final (RefreshSurvives).        *)
THEOREM RefreshesGoOn == Spec => RefreshSurvives
<1>1. CountedBag(inflight) /\ [Next]_vars => CountedBag(inflight)'
  BY StepCounts
<1>2. CountedBag(inflight) /\ [Next]_vars => [ListMode /\ Chains' < Chains => err']_vars
  BY StepCounts
<1>3. QED
  BY <1>1, <1>2, InitCounts, PTL DEF Spec, RefreshSurvives

-----------------------------------------------------------------------------
(* Types, with the rows that RowAt finds.                                  *)

(* A set of numbers that is not empty has a least one.                     *)
LEMMA LeastPlace ==
  ASSUME NEW T \in SUBSET Nat, T # {}
  PROVE  \E m \in T : \A n \in T : m <= n
<1>1. \E m \in T : \A n \in T : ~ (<<n, m>> \in OpToRel(<, Nat))
  BY NatLessThanWellFounded, WFMin
<1>2. PICK m \in T : \A n \in T : ~ (<<n, m>> \in OpToRel(<, Nat))
  BY <1>1
<1>3. \A n \in T : <<n, m>> \in Nat \X Nat
  OBVIOUS
<1>4. \A n \in T : ~(n < m)
  BY <1>2, <1>3 DEF OpToRel
<1>5. QED
  BY <1>4

(* The rows are in a sequence of targets.                                  *)
LEMMA OrderTyped ==
  /\ Len(Order) \in Nat
  /\ \A k \in 1..Len(Order) : Order[k] \in Targets /\ Order[k] # NoRow
  /\ NoFilter \in [scope : Scopes, status : Statuses, search : Queries]
<1> DEFINE Row == [tab : Tabs, ns : STRING, name : STRING \ {NoName}]
<1>1. Order \in Seq(Row)
  BY VizOK DEF VizOK
<1>2. \A r \in Row : r \in Targets /\ r # NoRow
  BY DEF Targets, NoRow
<1>3. NoFilter \in [scope : Scopes, status : Statuses, search : Queries]
  BY VizOK DEF VizOK, NoFilter
<1> HIDE DEF Row
<1>4. QED
  BY <1>1, <1>2, <1>3

(* The visible rows are finitely many.                                     *)
LEMMA RowsCounted ==
  ASSUME NEW visible
  PROVE  /\ IsFiniteSet(Rows(visible)) /\ Cardinality(Rows(visible)) \in Nat
         /\ Cardinality(Rows(visible)) <= Len(Order)
<1>1. IsFiniteSet(1..Len(Order)) /\ Cardinality(1..Len(Order)) = Len(Order)
  <2>1. /\ IsFiniteSet(1..Len(Order))
        /\ Cardinality(1..Len(Order)) = IF 1 > Len(Order) THEN 0 ELSE Len(Order) - 1 + 1
    BY OrderTyped, FS_Interval
  <2>2. QED
    BY <2>1, OrderTyped
<1>2. QED
  BY <1>1, FS_Subset, FS_CardinalityType DEF Rows

(* For every i below the number of rows one row has i rows above it.       *)
LEMMA RowExists ==
  ASSUME NEW visible, NEW i \in Nat, i < Cardinality(Rows(visible))
  PROVE  \E k \in Rows(visible) : Cardinality({j \in Rows(visible) : j < k}) = i
<1> DEFINE above(k) == {j \in Rows(visible) : j < k}
           T == {k \in Nat : Cardinality(above(k)) > i}
<1>1. \A k \in Nat : IsFiniteSet(above(k)) /\ Cardinality(above(k)) \in Nat
  BY RowsCounted, FS_Subset, FS_CardinalityType
<1>2. Len(Order) + 1 \in T
  <2>1. above(Len(Order) + 1) = Rows(visible) /\ Len(Order) + 1 \in Nat
    BY OrderTyped DEF Rows
  <2>2. QED
    BY <2>1
<1>3. PICK next \in T : \A n \in T : next <= n
  <2> HIDE DEF above
  <2>1. T \in SUBSET Nat /\ T # {}
    BY <1>2
  <2>2. QED
    BY <2>1, LeastPlace
<1>4. next # 0
  <2>1. above(0) = {}
    BY DEF Rows
  <2>2. Cardinality(above(0)) = 0
    BY <2>1, FS_EmptySet
  <2>3. QED
    BY <1>3, <2>2
<1> DEFINE k == next - 1
<1>5. k \in Nat /\ k + 1 = next /\ Cardinality(above(k)) <= i
  <2>1. k \in Nat /\ k + 1 = next /\ ~(next <= k)
    BY <1>3, <1>4
  <2>2. k \notin T
    BY <1>3, <2>1
  <2>3. Cardinality(above(k)) \in Nat
    BY <1>1, <2>1
  <2>4. QED
    BY <2>1, <2>2, <2>3
<1> HIDE DEF k
<1>6. k \in Rows(visible)
  <2>1. SUFFICES ASSUME k \notin Rows(visible) PROVE FALSE
    OBVIOUS
  <2>2. above(next) = above(k)
    BY <1>5, <2>1 DEF Rows
  <2>3. QED
    BY <1>1, <1>3, <1>5, <2>2
<1>7. above(next) = above(k) \union {k} /\ k \notin above(k)
  BY <1>5, <1>6 DEF Rows
<1>8. Cardinality(above(next)) = Cardinality(above(k)) + 1
  <2> HIDE DEF above
  <2>1. IsFiniteSet(above(k))
    BY <1>1, <1>5
  <2>2. QED
    BY <1>7, <2>1, FS_AddElement
<1>9. Cardinality(above(k)) = i
  <2>1. Cardinality(above(k)) \in Nat /\ Cardinality(above(next)) > i
    BY <1>1, <1>3, <1>5
  <2>2. QED
    BY <1>5, <1>8, <2>1
<1>10. QED
  BY <1>6, <1>9

(* A row is a target with a name.                                          *)
LEMMA RowTyped ==
  ASSUME NEW visible, NEW i \in Nat, RowAt(visible, i) # NoRow
  PROVE  RowAt(visible, i) \in Targets /\ RowAt(visible, i).name \in STRING
<1>1. i < Cardinality(Rows(visible))
  BY DEF RowAt
<1>2. PICK k \in Rows(visible) : RowAt(visible, i) = Order[k]
  BY <1>1, RowExists DEF RowAt
<1>3. QED
  BY <1>2, OrderTyped DEF Rows, Targets

CommandsOK ==
  \A c \in BagToSet(inflight) :
      /\ c.kind = "fetch" => c.tab \in Tabs
      /\ c.kind = "data" => c.tab \in Tabs /\ c.rows \subseteq Resources

TypeInv == TypeOK /\ CommandsOK

(* A command that reads nothing, or reads a tab.                           *)
LEMMA CommandsKept ==
  ASSUME CommandsOK, NEW d,
         d.kind = "fetch" => d.tab \in Tabs,
         d.kind = "data" => d.tab \in Tabs /\ d.rows \subseteq Resources,
         BagToSet(inflight') \subseteq BagToSet(inflight) \union {d}
  PROVE  CommandsOK'
  BY DEF CommandsOK

(* Commands that end leave the others as they were.                        *)
LEMMA CommandsEnd ==
  ASSUME CommandsOK, BagToSet(inflight') \subseteq BagToSet(inflight)
  PROVE  CommandsOK'
  BY DEF CommandsOK

(* The types hold at first,                                                *)
LEMMA InitTyped == Init => TypeInv
<1> SUFFICES ASSUME Init PROVE TypeInv
  OBVIOUS
<1>1. BagToSet(inflight) = {Tick, Fetch(FirstTab, NoFilter)}
  BY DEF Init, BagToSet, SetToBag
<1>2. CommandsOK
  BY <1>1, VizOK DEF VizOK, CommandsOK, Tick, Fetch
<1>3. TypeOK
  <2>1. FirstTab \in Tabs /\ filter \in [scope : Scopes, status : Statuses, search : Queries]
    BY OrderTyped, VizOK DEF VizOK, Init
  <2>2. retryCount \in 0..maxRetries
    BY DEF Init, maxRetries
  <2>3. QED
    BY <2>1, <2>2 DEF Init, TypeOK
<1>4. QED
  BY <1>2, <1>3 DEF TypeInv

(* when a message arrives or the cluster changes,                          *)
LEMMA MessagesTyped ==
  ASSUME TypeInv, Messages \/ ReadFails \/ ClusterChanges
  PROVE  TypeInv'
<1> USE DEF TypeInv
<1>1. CASE TickArrives
  <2>1. PICK c \in {Tick, ReconnectTimer} : Becomes(c, Fetch(tab, filter))
    BY <1>1 DEF TickArrives
  <2>2. CommandsOK'
    BY <2>1, BecomesAdds, CommandsKept DEF Fetch, TypeOK
  <2>3. QED
    BY <1>1, <2>2 DEF TickArrives, TypeOK, screen, health
<1>2. CASE Read
  <2> DEFINE rows(c) == {r \in cluster : r.tab = c.tab} \intersect c.scope
  <2>1. PICK c \in BagToSet(inflight) : c.kind = "fetch" /\ Becomes(c, Listing(c.tab, rows(c)))
    BY <1>2 DEF Read
  <2>2. c.tab \in Tabs /\ rows(c) \subseteq Resources
    BY <2>1 DEF CommandsOK, TypeOK
  <2>3. CommandsOK'
    BY <2>1, <2>2, BecomesAdds, CommandsKept DEF Listing
  <2>4. QED
    BY <1>2, <2>3 DEF Read, TypeOK, screen, health
<1>3. CASE ReadFails
  <2>1. CommandsOK'
    BY <1>3, BecomesAdds, CommandsKept DEF ReadFails, Failure
  <2>2. QED
    BY <1>3, <2>1 DEF ReadFails, TypeOK, screen, health
<1>4. CASE DataArrives
  <2>1. CommandsOK'
    BY <1>4, BecomesAdds, CommandsKept DEF DataArrives, Tick
  <2>2. PICK c \in BagToSet(inflight) : c.kind = "data" /\ data' = [data EXCEPT ![c.tab] = c.rows]
    BY <1>4 DEF DataArrives
  <2>3. data' \in [Tabs -> SUBSET Resources]
    BY <2>2 DEF CommandsOK, TypeOK
  <2>4. retryCount' = 0 /\ reconnecting' = FALSE /\ UNCHANGED <<tab, selected, filter, input, view, action, err, cluster>>
    BY <1>4 DEF DataArrives
  <2>5. retryCount' \in 0..maxRetries
    BY <2>4 DEF maxRetries
  <2>6. QED
    BY <2>1, <2>3, <2>4, <2>5 DEF TypeOK
<1>5. CASE ErrorArrives
  <2>1. Becomes(Failure, ReconnectTimer) \/ Done(Failure)
    BY <1>5 DEF ErrorArrives
  <2>2. CommandsOK'
    BY <2>1, BecomesAdds, CommandsKept, DoneShrinks, CommandsEnd DEF ReconnectTimer
  <2>3. retryCount' \in 0..maxRetries /\ reconnecting' \in BOOLEAN
    <3>1. retryCount \in 0..maxRetries /\ reconnecting \in BOOLEAN
      BY DEF TypeOK
    <3>2. \/ retryCount' = retryCount
          \/ retryCount' = retryCount + 1 /\ retryCount < maxRetries
      BY <1>5 DEF ErrorArrives
    <3>3. retryCount' \in 0..maxRetries
      BY <3>1, <3>2 DEF maxRetries
    <3>4. reconnecting' \in BOOLEAN
      BY <1>5, <3>1, Zenon DEF ErrorArrives
    <3>5. QED
      BY <3>3, <3>4
  <2>4. err' \in BOOLEAN
    BY <1>5 DEF ErrorArrives
  <2>5. UNCHANGED <<screen, cluster>>
    BY <1>5 DEF ErrorArrives
  <2>6. QED
    BY <2>2, <2>3, <2>4, <2>5 DEF TypeOK, screen
<1>6. CASE ResultArrives
  <2>1. CommandsOK'
    BY <1>6, BecomesAdds, CommandsKept DEF ResultArrives, Fetch, TypeOK
  <2>2. QED
    BY <1>6, <2>1 DEF ResultArrives, TypeOK, screen, health
<1>7. CASE DetailArrives
  <2>1. CommandsOK'
    BY <1>7, DoneShrinks, CommandsEnd DEF DetailArrives
  <2>2. QED
    BY <1>7, <2>1 DEF DetailArrives, TypeOK, health
<1>8. CASE Swallow
  <2>1. CommandsOK'
    BY <1>8, DoneShrinks, CommandsEnd DEF Swallow
  <2>2. QED
    BY <1>8, <2>1 DEF Swallow, TypeOK, screen, health
<1>9. CASE RunJob
  <2>1. CommandsOK'
    BY <1>9, BecomesAdds, CommandsKept DEF RunJob, Result
  <2>2. QED
    BY <1>9, <2>1 DEF RunJob, TypeOK, screen, health
<1>10. CASE ClusterChanges
  <2>1. cluster' \subseteq Resources
    BY <1>10, VizOK DEF ClusterChanges, TypeOK, VizOK
  <2>2. CommandsOK'
    BY <1>10, CommandsEnd DEF ClusterChanges
  <2>3. QED
    BY <1>10, <2>1, <2>2 DEF ClusterChanges, TypeOK, screen, health
<1>11. QED
  BY <1>1, <1>2, <1>3, <1>4, <1>5, <1>6, <1>7, <1>8, <1>9, <1>10 DEF Messages

(* when a key is pressed in the list,                                      *)
LEMMA ListKeysTyped ==
  ASSUME TypeInv, ListKeys
  PROVE  TypeInv'
<1> USE DEF TypeInv
<1>0. UNCHANGED <<retryCount, reconnecting, err, cluster>>
  BY DEF ListKeys, health
<1> DEFINE n == Cardinality(Rows(Displayed))
<1>1. n \in Nat /\ n <= Len(Order)
  BY RowsCounted
<1>2. ASSUME UNCHANGED <<tab, data, filter, input, view, action, inflight>>,
             selected' \in Nat, selected' = 0 \/ selected' < Len(Order)
      PROVE  TypeInv'
  <2>1. CommandsOK'
    BY <1>2, CommandsEnd
  <2>2. QED
    BY <1>0, <1>2, <2>1 DEF TypeOK
<1>3. CASE Down \/ Up \/ Home \/ End
  <2>1. CASE Down
    BY <1>1, <1>2, <2>1, OrderTyped DEF Down, TypeOK
  <2>2. CASE Up
    BY <1>2, <2>2, OrderTyped DEF Up, TypeOK
  <2>3. CASE Home
    BY <1>2, <2>3 DEF Home
  <2>4. CASE End
    <3>1. Displayed \subseteq Resources
      BY DEF Displayed, Actionable, TypeOK
    <3>2. Rows(Displayed) # {}
      BY <2>4, <3>1 DEF End, Rows, Resources
    <3>3. n # 0
      BY <3>2, RowsCounted, FS_EmptySet
    <3>4. n - 1 \in Nat /\ n - 1 < Len(Order)
      BY <1>1, <3>3, OrderTyped
    <3>5. QED
      BY <1>2, <2>4, <3>4 DEF End
  <2>5. QED
    BY <1>3, <2>1, <2>2, <2>3, <2>4
<1>4. CASE ClearFilters
  <2>1. CommandsOK'
    BY <1>4, IssueAdds, CommandsKept DEF ClearFilters, Fetch, TypeOK
  <2>2. QED
    BY <1>0, <1>4, <2>1, OrderTyped DEF ClearFilters, TypeOK
<1>5. CASE RequestDetail
  <2>1. CommandsOK'
    BY <1>5, IssueAdds, CommandsKept DEF RequestDetail, Detail
  <2>2. QED
    BY <1>0, <1>5, <2>1 DEF RequestDetail, TypeOK, screen
<1>6. ASSUME NEW t \in Tabs, SwitchTab(t) PROVE TypeInv'
  <2>1. CommandsOK'
    BY <1>6, IssueAdds, CommandsKept DEF SwitchTab, Fetch
  <2>2. QED
    BY <1>0, <1>6, <2>1 DEF SwitchTab, TypeOK
<1>7. ASSUME NEW field \in {"scope", "status", "search"}, OpenInput(field) PROVE TypeInv'
  <2>1. CommandsOK'
    BY <1>7, CommandsEnd DEF OpenInput
  <2>2. QED
    BY <1>0, <1>7, <2>1 DEF OpenInput, TypeOK
<1>8. ASSUME NEW op \in Actions, OpenPrompt(op) PROVE TypeInv'
  <2>1. selectedResourceInfo \in Targets /\ selectedResourceInfo.name \in STRING
    BY <1>8, RowTyped DEF OpenPrompt, selectedResourceInfo, TypeOK
  <2>2. action' \in [op : Actions, name : STRING, prompted : Targets]
    BY <1>8, <2>1 DEF OpenPrompt
  <2>3. CommandsOK'
    BY <1>8, CommandsEnd DEF OpenPrompt
  <2>4. UNCHANGED <<tab, data, selected, filter, input, view>>
    BY <1>8 DEF OpenPrompt
  <2>5. QED
    BY <1>0, <2>2, <2>3, <2>4 DEF TypeOK
<1>9. QED
  BY <1>3, <1>4, <1>5, <1>6, <1>7, <1>8 DEF ListKeys

(* and when one is pressed in a dialog.                                    *)
LEMMA DialogKeysTyped ==
  ASSUME TypeInv, Confirm \/ CancelPrompt \/ CloseDetail \/ ApplyFilter \/ CancelInput
  PROVE  TypeInv'
<1> USE DEF TypeInv
<1>1. CASE Confirm
  <2>1. PICK c : Issue(c) /\ c.kind \in {"job", "result"}
    BY <1>1 DEF Confirm, Job, Result
  <2>2. CommandsOK'
    BY <2>1, IssueAdds, CommandsKept
  <2>3. QED
    BY <1>1, <2>2 DEF Confirm, TypeOK, health
<1>2. CASE ApplyFilter
  <2>1. PICK f \in Choices[input] : filter' = [filter EXCEPT ![input] = f]
    BY <1>2 DEF ApplyFilter
  <2>2. filter' \in [scope : Scopes, status : Statuses, search : Queries]
    BY <1>2, <2>1 DEF ApplyFilter, Choices, TypeOK, NoInput
  <2>3. CommandsOK'
    BY <1>2, IssueAdds, CommandsKept DEF ApplyFilter, Fetch, TypeOK
  <2>4. QED
    BY <1>2, <2>2, <2>3 DEF ApplyFilter, TypeOK, health
<1>3. CASE CancelPrompt \/ CloseDetail \/ CancelInput
  <2>1. CommandsOK'
    BY <1>3, CommandsEnd DEF CancelPrompt, CloseDetail, CancelInput
  <2>2. QED
    BY <1>3, <2>1 DEF CancelPrompt, CloseDetail, CancelInput, TypeOK, health
<1>4. QED
  BY <1>1, <1>2, <1>3

(* Every variable keeps its type, and the selection stays among the        *)
(* resources (TypeOK).                                                     *)
THEOREM VizTyped == Spec => []TypeOK
<1>1. TypeInv /\ [Next]_vars => TypeInv'
  <2> SUFFICES ASSUME TypeInv, [Next]_vars PROVE TypeInv'
    OBVIOUS
  <2>1. CASE UNCHANGED vars
    BY <2>1, CommandsEnd DEF vars, screen, health, TypeInv, TypeOK
  <2>2. QED
    BY <2>1, MessagesTyped, ListKeysTyped, DialogKeysTyped DEF Next, Keys
<1>2. TypeInv => TypeOK
  BY DEF TypeInv
<1>3. QED
  BY <1>1, <1>2, InitTyped, PTL DEF Spec
=============================================================================
