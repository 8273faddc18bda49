-------------------------- MODULE Assistants_proofs -------------------------
(***************************************************************************)
(* What the assistants of the command line do, one after another: the      *)
(* client of the AI providers, the knowledge index, the chat, the          *)
(* sentinel's scan and the atlas.                                          *)
(*                                                                         *)
(* The client. For any number of callers and any threshold, cool-down and  *)
(* time for retries with the cool-down the shorter: no text is sent to the *)
(* user twice, a call is given up only when the server failed during it,   *)
(* and the circuit breaker inside keeps the promise of Breaker.            *)
(*                                                                         *)
(* The index. The invariant says of each file what the run knows of it: no *)
(* entry yet, the entry the manifest had, or one of the text it read; and  *)
(* of its document what the store must hold by then.                       *)
(*                                                                         *)
(* The chat. A chat awaits at most one answer, and the last line of its    *)
(* session is then the question, unless a line was lost.                   *)
(*                                                                         *)
(* The scan. A patch settles what its finding is about and no other patch  *)
(* unsettles it: so of every finding that was fixed the invariant says     *)
(* that it has a patch and, unless its pod was replaced, is settled.       *)
(*                                                                         *)
(* The atlas. A run that nobody disturbed knows of each file what is in    *)
(* it, so by the time nothing is left to read, the analyzers have what the *)
(* project says.                                                           *)
(***************************************************************************)
EXTENDS AiClient, KnowledgeIndex, BardChat, SentinelScan, AtlasScan, FiniteSetTheorems, WellFoundedInduction, TLAPS

-----------------------------------------------------------------------------
(* The client of the AI providers.                                         *)

Call == [pc : {"idle", "allow", "wait", "inner", "record", "classify", "backoff"},
         op : {"text", "stream"}, age : 0..MaxElapsed, due : BOOLEAN,
         err : {"none", "server", "throttled", "refused", "network", "permanent"},
         wrote : BOOLEAN, ill : BOOLEAN]

Typed == /\ circuitState \in {"closed", "open", "half"}
         /\ sinceFail \in 0..Cooldown
         /\ call \in [Callers -> Call]

(* Text that was written ends the call, one way or another.                *)
WroteEnds == \A c \in Callers : call[c].wrote => call[c].pc \in {"record", "classify"}

(* The type, one action at a time.                                         *)
LEMMA Types == ASSUME Typed, AiNext PROVE Typed'
  <1> USE AiConstants
  <1> DEFINE Steps == {"idle", "allow", "wait", "inner", "record", "classify", "backoff"}
  <1>0. /\ circuitState \in {"closed", "open", "half"} /\ sinceFail \in 0..Cooldown
        /\ call \in [Callers -> Call]
    BY DEF Typed
  <1>1. ASSUME NEW c \in Callers, NEW r \in Call, call' = [call EXCEPT ![c] = r],
               circuitState' \in {"closed", "open", "half"}, sinceFail' \in 0..Cooldown
        PROVE  Typed'
    BY <1>0, <1>1 DEF Typed
  <1>2. NoCall \in Call
    BY DEF NoCall, Call
  <1>3. ASSUME NEW c \in Callers, NEW pc \in Steps PROVE [call[c] EXCEPT !.pc = pc] \in Call
    BY <1>0 DEF Call
  <1>4. ASSUME NEW c \in Callers, NEW pc \in Steps,
               NEW err \in {"none", "server", "throttled", "refused", "network", "permanent"}
        PROVE  [call[c] EXCEPT !.pc = pc, !.err = err] \in Call
    BY <1>0 DEF Call
  <1>5. ASSUME NEW c \in Callers, CallStep(c), ~ \E err \in {"none", "server", "throttled", "network", "permanent"},
                                                    wrote \in BOOLEAN : Inner(c, err, wrote)
        PROVE  Typed'
    <2>1. CASE Allow(c)
      <3>1. /\ circuitState' \in {"closed", "open", "half"} /\ sinceFail' \in 0..Cooldown
            /\ \/ call' = [call EXCEPT ![c] = [@ EXCEPT !.pc = "classify", !.err = "refused"]]
               \/ call' = [call EXCEPT ![c] = [@ EXCEPT !.pc = "wait"]]
        BY <1>0, <2>1 DEF Allow, CallGoes
      <3>2. QED
        BY <1>1, <1>3, <1>4, <3>1
    <2>2. CASE Wait(c)
      <3>1. /\ UNCHANGED <<circuitState, sinceFail>>
            /\ \/ call' = [call EXCEPT ![c] = [@ EXCEPT !.pc = "classify", !.err = "network"]]
               \/ call' = [call EXCEPT ![c] = [@ EXCEPT !.pc = "inner"]]
        BY <2>2 DEF Wait, CallGoes, Breaking
      <3>2. QED
        BY <1>0, <1>1, <1>3, <1>4, <3>1
    <2>3. CASE Record(c)
      <3>1. circuitState' \in {"closed", "open", "half"} /\ sinceFail' \in 0..Cooldown
        BY <1>0, <2>3 DEF Record, AfterSuccess, Breaking
      <3>2. \/ call' = [call EXCEPT ![c] = NoCall]
            \/ call' = [call EXCEPT ![c] = [@ EXCEPT !.pc = "classify"]]
            \/ \E slept \in {0, MaxElapsed - call[c].age} :
                 call' = [call EXCEPT ![c] = [call[c] EXCEPT !.pc = "classify", !.age = call[c].age + slept]]
        BY <2>3 DEF Record, CallGoes
      <3>3. ASSUME NEW r \in Call, NEW age \in 0..MaxElapsed
            PROVE  [r EXCEPT !.pc = "classify", !.age = age] \in Call
        BY DEF Call
      <3>4. ASSUME NEW slept \in {0, MaxElapsed - call[c].age}
            PROVE  call[c].age + slept \in 0..MaxElapsed
        BY <1>0 DEF Call
      <3>5. ASSUME NEW slept \in {0, MaxElapsed - call[c].age}
            PROVE  [call[c] EXCEPT !.pc = "classify", !.age = call[c].age + slept] \in Call
        BY <1>0, <3>3, <3>4, Zenon
      <3>6. ASSUME NEW slept \in {0, MaxElapsed - call[c].age},
                   call' = [call EXCEPT ![c] = [call[c] EXCEPT !.pc = "classify", !.age = call[c].age + slept]]
            PROVE  Typed'
        <4> DEFINE later == [call[c] EXCEPT !.pc = "classify", !.age = call[c].age + slept]
        <4>1. later \in Call
          BY <3>5, Zenon
        <4>2. call' = [call EXCEPT ![c] = later]
          BY <3>6
        <4> HIDE DEF later
        <4>3. QED
          BY <1>1, <3>1, <4>1, <4>2
      <3>7. QED
        BY <1>1, <1>2, <1>3, <3>1, <3>2, <3>6
    <2>4. CASE Classify(c) \/ GiveUp(c)
      <3>1. /\ UNCHANGED <<circuitState, sinceFail>>
            /\ \/ call' = [call EXCEPT ![c] = NoCall]
               \/ call' = [call EXCEPT ![c] = [@ EXCEPT !.pc = "backoff"]]
        BY <2>4 DEF Classify, GiveUp, CallGoes, Breaking
      <3>2. QED
        BY <1>0, <1>1, <1>2, <1>3, <3>1
    <2>5. CASE Retry(c)
      <3>1. [call[c] EXCEPT !.pc = "allow", !.due = FALSE, !.err = "none"] \in Call
        BY <1>0 DEF Call
      <3>2. /\ UNCHANGED <<circuitState, sinceFail>>
            /\ call' = [call EXCEPT ![c] = [@ EXCEPT !.pc = "allow", !.due = FALSE, !.err = "none"]]
        BY <2>5 DEF Retry, Breaking
      <3>3. QED
        BY <1>0, <1>1, <3>1, <3>2
    <2>6. QED
      BY <1>5, <2>1, <2>2, <2>3, <2>4, <2>5 DEF CallStep
  <1>6. ASSUME NEW c \in Callers, NEW err \in {"none", "server", "throttled", "network", "permanent"},
               NEW wrote \in BOOLEAN, Inner(c, err, wrote)
        PROVE  Typed'
    <2>1. ASSUME NEW b \in BOOLEAN, NEW i \in BOOLEAN
          PROVE  [call[c] EXCEPT !.pc = "record", !.err = err, !.wrote = b, !.ill = i] \in Call
      BY <1>0 DEF Call
    <2>2. ASSUME NEW d \in Callers, NEW i \in BOOLEAN PROVE [call[d] EXCEPT !.ill = i] \in Call
      BY <1>0 DEF Call
    <2>3. ASSUME NEW d \in Callers PROVE call'[d] \in Call
      <3>1. CASE d = c
        BY <1>6, <2>1, <3>1 DEF Inner
      <3>2. CASE d # c
        BY <1>6, <2>2, <3>2 DEF Inner
      <3>3. QED
        BY <3>1, <3>2
    <2>4. call' = [d \in Callers |-> call'[d]] /\ UNCHANGED <<circuitState, sinceFail>>
      BY <1>6 DEF Inner, Breaking
    <2>5. QED
      BY <1>0, <2>3, <2>4 DEF Typed
  <1>7. ASSUME NEW c \in Callers, NEW op \in {"text", "stream"}, StartCall(c, op) PROVE Typed'
    <2>1. [NoCall EXCEPT !.pc = "allow", !.op = op] \in Call
      BY <1>2 DEF Call
    <2>2. QED
      BY <1>0, <1>1, <1>7, <2>1 DEF StartCall, Breaking
  <1>8. CASE Tick
    <2>1. ASSUME NEW d \in Callers, call[d].age # MaxElapsed, NEW due \in BOOLEAN
          PROVE  [call[d] EXCEPT !.age = @ + 1, !.due = due] \in Call
      <3>1. ASSUME NEW r \in Call, NEW age \in 0..MaxElapsed PROVE [r EXCEPT !.age = age, !.due = due] \in Call
        BY DEF Call
      <3>2. call[d].age + 1 \in 0..MaxElapsed
        BY <1>0, <2>1 DEF Call
      <3>3. QED
        BY <1>0, <3>1, <3>2, Zenon
    <2>2. ASSUME NEW d \in Callers PROVE call'[d] \in Call
      BY <1>0, <1>8, <2>1 DEF Tick
    <2>3. /\ call' = [d \in Callers |-> call'[d]] /\ UNCHANGED circuitState
          /\ sinceFail' = IF sinceFail < Cooldown THEN sinceFail + 1 ELSE sinceFail
      BY <1>8 DEF Tick
    <2>4. QED
      BY <1>0, <2>2, <2>3 DEF Typed
  <1>9. QED
    BY <1>5, <1>6, <1>7, <1>8 DEF AiNext

(* Who may act, and what the others see of it.                             *)
LEMMA OthersKeep ==
    ASSUME Typed, NEW c \in Callers, NEW d \in Callers, d # c,
           CallStep(c) \/ \E op \in {"text", "stream"} : StartCall(c, op)
    PROVE  /\ call'[d].pc = call[d].pc /\ call'[d].age = call[d].age /\ call'[d].due = call[d].due
           /\ call'[d].err = call[d].err /\ call'[d].wrote = call[d].wrote
           /\ call[d].ill => call'[d].ill
  <1> USE DEF Typed
  <1>1. ASSUME NEW err \in {"none", "server", "throttled", "network", "permanent"}, NEW wrote \in BOOLEAN,
               Inner(c, err, wrote)
        PROVE  call'[d] = [call[d] EXCEPT !.ill = @ \/ (err # "none" /\ call[d].pc # "idle")]
    BY <1>1 DEF Inner
  <1>2. QED
    BY <1>1 DEF CallStep, Allow, Wait, Record, Classify, Retry, GiveUp, StartCall, CallGoes, Call

(* Once text was written, the call ends.                                   *)
LEMMA TextStays == ASSUME Typed, WroteEnds, AiNext PROVE WroteEnds'
  <1> USE DEF Typed, Call
  <1>1. CASE Tick
    BY <1>1 DEF Tick, WroteEnds
  <1>2. ASSUME NEW c \in Callers, CallStep(c) \/ \E op \in {"text", "stream"} : StartCall(c, op)
        PROVE  WroteEnds'
    <2>1. ASSUME NEW d \in Callers, d # c PROVE call'[d].wrote => call'[d].pc \in {"record", "classify"}
      BY <1>2, <2>1, OthersKeep DEF WroteEnds
    <2>2. call'[c].wrote => call'[c].pc \in {"record", "classify"}
      <3> USE DEF WroteEnds, CallGoes, NoCall
      <3>1. CASE Allow(c) \/ Wait(c)
        BY <3>1 DEF Allow, Wait
      <3>2. ASSUME NEW err \in {"none", "server", "throttled", "network", "permanent"},
                   NEW wrote \in BOOLEAN, Inner(c, err, wrote)
            PROVE  call'[c].pc = "record"
        BY <3>2 DEF Inner
      <3>3. CASE Record(c)
        BY <3>3 DEF Record
      <3>4. CASE Classify(c)
        BY <3>4 DEF Classify, Retryable
      <3>5. CASE Retry(c)
        BY <3>5 DEF Retry
      <3>6. CASE GiveUp(c)
        BY <3>6 DEF GiveUp
      <3>7. CASE \E op \in {"text", "stream"} : StartCall(c, op)
        BY <3>7 DEF StartCall
      <3>8. QED
        BY <1>2, <3>1, <3>2, <3>3, <3>4, <3>5, <3>6, <3>7 DEF CallStep
    <2>3. QED
      BY <2>1, <2>2 DEF WroteEnds
  <1>3. QED
    BY <1>1, <1>2 DEF AiNext

(* A call that no failure of the server met is never older than the time   *)
(* since the last failure, unless the cool-down is over: so it is refused  *)
(* only while it is young, and its back-off ends before its retries do.    *)
Well(c) == call[c].pc # "idle" /\ ~call[c].ill
Failing(d) == call[d].pc = "record" /\ call[d].err = "server"

Young(c) == /\ \A d \in Callers : Failing(d) => call[c].age = 0
            /\ call[c].age <= sinceFail \/ sinceFail = Cooldown
Patient(c) == /\ call[c].pc = "record" => call[c].err = "none"
              /\ call[c].pc \in {"classify", "backoff"} /\ ~noBurst =>
                   call[c].age < Cooldown \/ (call[c].due /\ call[c].age = Cooldown)

Patience == \A c \in Callers : Well(c) => Young(c) /\ Patient(c)
NotDue == \A c \in Callers : call[c].pc # "backoff" => ~call[c].due

(* An attempt is due only in a back-off.                                   *)
LEMMA DueOnlyInBackoff == ASSUME Typed, NotDue, AiNext PROVE NotDue'
  <1> USE DEF Typed, Call
  <1>1. CASE Tick
    BY <1>1 DEF Tick, NotDue
  <1>2. ASSUME NEW c \in Callers, CallStep(c) \/ \E op \in {"text", "stream"} : StartCall(c, op)
        PROVE  NotDue'
    <2>1. ASSUME NEW d \in Callers, d # c PROVE call'[d].pc # "backoff" => ~call'[d].due
      BY <1>2, <2>1, OthersKeep DEF NotDue
    <2>2. call'[c].pc # "backoff" => ~call'[c].due
      <3> USE DEF NotDue, CallGoes, NoCall
      <3>1. CASE Allow(c) \/ Wait(c)
        BY <3>1 DEF Allow, Wait
      <3>2. ASSUME NEW err \in {"none", "server", "throttled", "network", "permanent"},
                   NEW wrote \in BOOLEAN, Inner(c, err, wrote)
            PROVE  call'[c].due = call[c].due /\ call[c].pc = "inner"
        BY <3>2 DEF Inner
      <3>3. CASE Record(c)
        BY <3>3 DEF Record
      <3>4. CASE Classify(c)
        BY <3>4 DEF Classify
      <3>5. CASE Retry(c)
        BY <3>5 DEF Retry
      <3>6. CASE GiveUp(c)
        BY <3>6 DEF GiveUp
      <3>7. CASE \E op \in {"text", "stream"} : StartCall(c, op)
        BY <3>7 DEF StartCall
      <3>8. QED
        BY <1>2, <3>1, <3>2, <3>3, <3>4, <3>5, <3>6, <3>7 DEF CallStep
    <2>3. QED
      BY <2>1, <2>2 DEF NotDue
  <1>3. QED
    BY <1>1, <1>2 DEF AiNext
(* Steps that send nothing to the server and hear nothing from it.         *)
LEMMA QuietSteps ==
    ASSUME Typed, Patience, NotDue, NEW c \in Callers,
           CallStep(c) \/ \E op \in {"text", "stream"} : StartCall(c, op),
           UNCHANGED <<sinceFail, noBurst>>, ~Failing(c)',
           Well(c)' => Young(c)' /\ Patient(c)'
    PROVE  Patience'
  <1> SUFFICES ASSUME NEW d \in Callers, d # c, Well(d)' PROVE Young(d)' /\ Patient(d)'
    BY DEF Patience
  <1>1. /\ call'[d].pc = call[d].pc /\ call'[d].age = call[d].age /\ call'[d].due = call[d].due
        /\ call'[d].err = call[d].err /\ Well(d)
    BY OthersKeep DEF Well
  <1>2. \A e \in Callers : Failing(e)' => Failing(e)
    BY OthersKeep DEF Failing
  <1>3. Young(d) /\ Patient(d)
    BY <1>1 DEF Patience
  <1>4. Young(d)'
    BY <1>1, <1>2, <1>3 DEF Young
  <1>5. Patient(d)'
    BY <1>1, <1>3 DEF Patient
  <1>6. QED
    BY <1>4, <1>5

(* Every step keeps the patience of the calls that met no failure.         *)
LEMMA PatienceKept == ASSUME Typed, Patience, NotDue, AiNext PROVE Patience'
  <1> USE AiConstants DEF Typed
  <1>1. ASSUME NEW c \in Callers, Allow(c) PROVE Patience'
    <2>1. UNCHANGED <<sinceFail, noBurst>> /\ call[c].pc = "allow" /\ ~call[c].due
      BY <1>1 DEF Allow, NotDue
    <2>2. /\ call'[c].ill = call[c].ill /\ call'[c].age = call[c].age
          /\ \/ call'[c].pc = "wait"
             \/ call'[c].pc = "classify" /\ sinceFail < Cooldown
      BY <1>1 DEF Allow, CallGoes, Call
    <2>3. \A e \in Callers : Failing(e)' => Failing(e)
      BY <1>1, OthersKeep, <2>2 DEF Failing, CallStep
    <2>4. ASSUME Well(c)' PROVE Young(c)' /\ Patient(c)'
      <3>1. Well(c) /\ Young(c)
        BY <2>1, <2>2, <2>4 DEF Well, Patience
      <3>2. Young(c)'
        BY <2>1, <2>2, <2>3, <3>1 DEF Young
      <3>3. Patient(c)'
        BY <2>1, <2>2, <3>1 DEF Young, Patient, Call
      <3>4. QED
        BY <3>2, <3>3
    <2>5. QED
      BY <1>1, <2>1, <2>2, <2>4, QuietSteps DEF Failing, CallStep
  <1>2. ASSUME NEW c \in Callers, Wait(c) PROVE Patience'
    <2>1. UNCHANGED <<sinceFail, noBurst>> /\ call[c].pc = "wait"
      BY <1>2 DEF Wait, Breaking
    <2>2. /\ call'[c].ill = call[c].ill /\ call'[c].age = call[c].age
          /\ \/ call'[c].pc = "inner"
             \/ call'[c].pc = "classify" /\ noBurst
      BY <1>2 DEF Wait, CallGoes, Call
    <2>3. \A e \in Callers : Failing(e)' => Failing(e)
      BY <1>2, OthersKeep, <2>2 DEF Failing, CallStep
    <2>4. ASSUME Well(c)' PROVE Young(c)' /\ Patient(c)'
      <3>1. Well(c) /\ Young(c)
        BY <2>1, <2>2, <2>4 DEF Well, Patience
      <3>2. Young(c)'
        BY <2>1, <2>2, <2>3, <3>1 DEF Young
      <3>3. Patient(c)'
        BY <2>1, <2>2 DEF Patient
      <3>4. QED
        BY <3>2, <3>3
    <2>5. QED
      BY <1>2, <2>1, <2>2, <2>4, QuietSteps DEF Failing, CallStep
  <1>3. ASSUME NEW c \in Callers, NEW err \in {"none", "server", "throttled", "network", "permanent"},
               NEW wrote \in BOOLEAN, Inner(c, err, wrote)
        PROVE  Patience'
    <2>1. UNCHANGED <<sinceFail, noBurst>> /\ call[c].pc = "inner"
      BY <1>3 DEF Inner, Breaking
    <2>2. call'[c].pc = "record" /\ call'[c].err = err /\ call'[c].age = call[c].age
      BY <1>3 DEF Inner, Call
    <2>3. call[c].ill \/ err # "none" => call'[c].ill
      BY <1>3 DEF Inner, Call
    <2>4. CASE err = "none"
      <3>1. CallStep(c) /\ ~Failing(c)'
        BY <1>3, <2>2, <2>4 DEF Failing, CallStep
      <3>2. ASSUME Well(c)' PROVE Young(c)' /\ Patient(c)'
        <4>1. Well(c) /\ Young(c)
          BY <2>1, <2>3, <3>2 DEF Well, Patience
        <4>2. \A e \in Callers : Failing(e)' => Failing(e)
          BY <3>1, OthersKeep DEF Failing
        <4>3. Young(c)'
          BY <2>1, <2>2, <4>1, <4>2 DEF Young
        <4>4. Patient(c)'
          BY <2>2, <2>4 DEF Patient
        <4>5. QED
          BY <4>3, <4>4
      <3>3. QED
        BY <2>1, <3>1, <3>2, QuietSteps
    <2>5. CASE err # "none"
      <3>1. ASSUME NEW d \in Callers PROVE ~Well(d)'
        <4>1. CASE d = c
          BY <2>3, <2>5, <4>1 DEF Well
        <4>2. CASE d # c
          BY <1>3, <2>5, <4>2 DEF Inner, Well, Call
        <4>3. QED
          BY <4>1, <4>2
      <3>2. QED
        BY <3>1 DEF Patience
    <2>6. QED
      BY <2>4, <2>5
  <1>4. ASSUME NEW c \in Callers, Classify(c) \/ GiveUp(c) \/ Retry(c) PROVE Patience'
    <2>1. UNCHANGED <<sinceFail, noBurst>> /\ call[c].pc \in {"classify", "backoff"}
      BY <1>4 DEF Classify, GiveUp, Retry, Breaking
    <2>2. /\ call'[c].pc # "idle" => call'[c].ill = call[c].ill /\ call'[c].age = call[c].age
          /\ \/ call'[c].pc = "backoff" /\ call[c].pc = "classify"
             \/ call'[c].pc \in {"idle", "allow"}
      BY <1>4 DEF Classify, GiveUp, Retry, CallGoes, NoCall, Call
    <2>3. CallStep(c)
      BY <1>4 DEF CallStep
    <2>4. \A e \in Callers : Failing(e)' => Failing(e)
      BY <2>2, <2>3, OthersKeep DEF Failing
    <2>5. ASSUME Well(c)' PROVE Young(c)' /\ Patient(c)'
      <3>1. Well(c) /\ Young(c) /\ Patient(c)
        BY <2>1, <2>2, <2>5 DEF Well, Patience
      <3>2. Young(c)'
        BY <2>1, <2>2, <2>4, <2>5, <3>1 DEF Young, Well
      <3>3. call[c].pc = "classify" => ~call[c].due
        BY DEF NotDue
      <3>4. Patient(c)'
        BY <2>1, <2>2, <2>5, <3>1, <3>3 DEF Patient, Well
      <3>5. QED
        BY <3>2, <3>4
    <2>6. QED
      BY <2>1, <2>2, <2>3, <2>5, QuietSteps DEF Failing
  <1>5. ASSUME NEW c \in Callers, NEW op \in {"text", "stream"}, StartCall(c, op) PROVE Patience'
    <2>1. UNCHANGED <<sinceFail, noBurst>>
      BY <1>5 DEF StartCall, Breaking
    <2>2. call'[c].pc = "allow" /\ call'[c].age = 0
      BY <1>5 DEF StartCall, NoCall
    <2>3. Young(c)' /\ Patient(c)'
      BY <2>1, <2>2 DEF Young, Patient
    <2>4. QED
      BY <1>5, <2>1, <2>2, <2>3, QuietSteps DEF Failing
  <1>6. ASSUME NEW c \in Callers, Record(c) PROVE Patience'
    <2>0. CallStep(c) /\ call[c].pc = "record" /\ noBurst' = noBurst
      BY <1>6 DEF CallStep, Record
    <2>1. CASE call[c].err = "none"
      <3>1. UNCHANGED sinceFail /\ call'[c].pc = "idle"
        BY <1>6, <2>1 DEF Record, NoCall
      <3>2. QED
        BY <2>0, <3>1, QuietSteps DEF Failing, Well
    <2>2. CASE call[c].err # "none"
      <3>1. call'[c].pc = "classify" /\ call'[c].ill = call[c].ill
        BY <1>6, <2>2 DEF Record, CallGoes, Call
      <3>2. ~Well(c)'
        BY <2>0, <2>2, <3>1 DEF Well, Patience, Patient
      <3>3. CASE call[c].err # "server"
        <4>1. UNCHANGED sinceFail
          BY <1>6, <2>2, <3>3 DEF Record, Breaking
        <4>2. QED
          BY <2>0, <3>1, <3>2, <4>1, QuietSteps DEF Failing
      <3>4. CASE call[c].err = "server"
        <4> SUFFICES ASSUME NEW d \in Callers, Well(d)' PROVE Young(d)' /\ Patient(d)'
          BY DEF Patience
        <4>1. sinceFail' = 0 /\ d # c
          BY <1>6, <3>2, <3>4 DEF Record
        <4>2. /\ call'[d].pc = call[d].pc /\ call'[d].age = call[d].age /\ call'[d].due = call[d].due
              /\ call'[d].err = call[d].err /\ Well(d)
          BY <2>0, <4>1, OthersKeep DEF Well
        <4>3. Young(d) /\ Patient(d) /\ call[d].age = 0
          BY <2>0, <3>4, <4>2 DEF Patience, Young, Failing
        <4>4. QED
          BY <2>0, <4>1, <4>2, <4>3 DEF Young, Patient
      <3>5. QED
        BY <3>3, <3>4
    <2>3. QED
      BY <2>1, <2>2
  <1>7. CASE Tick
    <2> SUFFICES ASSUME NEW d \in Callers, Well(d)' PROVE Young(d)' /\ Patient(d)'
      BY DEF Patience
    <2>1. /\ sinceFail' = IF sinceFail < Cooldown THEN sinceFail + 1 ELSE sinceFail
          /\ noBurst' = noBurst
      BY <1>7 DEF Tick
    <2>2. ASSUME NEW e \in Callers
          PROVE  /\ call'[e].pc = call[e].pc /\ call'[e].ill = call[e].ill
                 /\ call[e].pc \notin {"record", "classify"}
      BY <1>7 DEF Tick, Call
    <2>3. call'[d].age = call[d].age \/ call'[d].age = call[d].age + 1
      BY <1>7 DEF Tick, Call
    <2>4. call[d].pc = "backoff" => ~call[d].due /\ call[d].age < MaxElapsed
      BY <1>7 DEF Tick
    <2>5. call[d].pc = "backoff" => call'[d].due /\ call'[d].age = call[d].age + 1
      <3>1. SUFFICES ASSUME call[d].pc = "backoff" PROVE call'[d].due /\ call'[d].age = call[d].age + 1
        OBVIOUS
      <3>2. call[d].age # MaxElapsed
        BY <2>4, <3>1 DEF Call
      <3>3. call'[d] = [call[d] EXCEPT !.age = @ + 1, !.due = (call[d].pc = "backoff")]
        BY <1>7, <3>1, <3>2 DEF Tick
      <3>4. call'[d].due = (call[d].pc = "backoff")
        BY <3>3 DEF Call
      <3>5. call'[d].age = call[d].age + 1
        BY <3>3 DEF Call
      <3>6. QED
        BY <3>1, <3>4, <3>5
    <2>6. Well(d) /\ Young(d) /\ Patient(d)
      BY <2>2 DEF Well, Patience
    <2>7. \A e \in Callers : ~Failing(e)'
      BY <2>2 DEF Failing
    <2>8. call[d].age \in 0..MaxElapsed
      BY DEF Call
    <2>9. Young(d)'
      BY <2>1, <2>3, <2>6, <2>7, <2>8 DEF Young
    <2>10. Patient(d)'
      BY <2>1, <2>2, <2>4, <2>5, <2>6, <2>8 DEF Patient
    <2>11. QED
      BY <2>9, <2>10
  <1>8. QED
    BY <1>1, <1>2, <1>3, <1>4, <1>5, <1>6, <1>7 DEF AiNext, CallStep

AiInv == Typed /\ WroteEnds /\ NotDue /\ Patience

(* The invariant holds at first.                                           *)
LEMMA AiInitInv == AiInit => AiInv
  <1> SUFFICES ASSUME AiInit PROVE AiInv
    OBVIOUS
  <1>1. NoCall \in Call /\ NoCall.pc = "idle" /\ ~NoCall.wrote /\ ~NoCall.due
    BY AiConstants DEF NoCall, Call
  <1>2. Typed /\ WroteEnds /\ NotDue
    BY <1>1, AiConstants DEF AiInit, Typed, WroteEnds, NotDue
  <1>3. Patience
    BY <1>1 DEF AiInit, Patience, Well
  <1>4. QED
    BY <1>2, <1>3 DEF AiInv

(* Every step keeps the invariant.                                         *)
LEMMA AiKeepsInv == ASSUME AiInv, [AiNext]_aiVars PROVE AiInv'
  <1>1. CASE UNCHANGED aiVars
    BY <1>1 DEF aiVars, AiInv, Typed, WroteEnds, Patience, NotDue, Well, Young, Patient, Failing
  <1>2. QED
    BY <1>1, Types, TextStays, DueOnlyInBackoff, PatienceKept DEF AiInv

(* The invariant holds always.                                             *)
LEMMA AiInvariant == AiSpec => []AiInv
  BY AiInitInv, AiKeepsInv, PTL DEF AiSpec

(* The failures that opened, or may open, the circuit are failures of the  *)
(* server: those counted and those about to be recorded.                   *)
FailingCallers == {d \in Callers : Failing(d)}

FailuresCounted ==
    /\ noBurst \in BOOLEAN /\ failures \in 0..MaxFailures /\ consecutiveFails \in Nat
    /\ IsFiniteSet(FailingCallers) /\ consecutiveFails + Cardinality(FailingCallers) <= failures

(* Every step keeps the count of the failures.                             *)
LEMMA FailuresStayCounted ==
    ASSUME Typed, FailuresCounted, [AiNext]_aiVars
    PROVE  FailuresCounted'
  <1>0. /\ noBurst \in BOOLEAN /\ failures \in 0..MaxFailures /\ consecutiveFails \in Nat
        /\ IsFiniteSet(FailingCallers) /\ Cardinality(FailingCallers) \in Nat
        /\ consecutiveFails + Cardinality(FailingCallers) <= failures
    BY FS_CardinalityType DEF FailuresCounted
  <1>1. ASSUME FailingCallers' = FailingCallers, UNCHANGED noBurst, failures' \in 0..MaxFailures,
               failures' >= failures, consecutiveFails' \in Nat, consecutiveFails' <= consecutiveFails
        PROVE  FailuresCounted'
    BY <1>0, <1>1, AiConstants DEF FailuresCounted, AiConstants
  <1>2. CASE Tick \/ UNCHANGED aiVars
    <2>1. \A d \in Callers : Failing(d)' <=> Failing(d)
      <3>1. CASE UNCHANGED aiVars
        BY <3>1 DEF aiVars, Failing
      <3>2. ASSUME Tick, NEW d \in Callers PROVE Failing(d)' <=> Failing(d)
        <4>1. call[d] \in Call /\ call'[d] = IF call[d].pc = "idle" \/ call[d].age = MaxElapsed
                THEN call[d]
                ELSE [[call[d] EXCEPT !.age = call[d].age + 1] EXCEPT !.due = call[d].pc = "backoff"]
          BY <3>2 DEF Tick, Typed
        <4>2. call[d].pc = call'[d].pc /\ call[d].err = call'[d].err
          BY <4>1 DEF Call
        <4>3. QED
          BY <4>2 DEF Failing
      <3>3. QED
        BY <1>2, <3>1, <3>2
    <2>2. FailingCallers' = FailingCallers
      BY <2>1 DEF FailingCallers
    <2>3. UNCHANGED <<consecutiveFails, noBurst, failures>>
      BY <1>2 DEF Tick, aiVars
    <2>4. QED
      BY <1>0, <1>1, <2>2, <2>3
  <1>3. ASSUME NEW c \in Callers, CallStep(c) \/ \E op \in {"text", "stream"} : StartCall(c, op)
        PROVE  FailuresCounted'
    <2>1. \A d \in Callers \ {c} : Failing(d)' <=> Failing(d)
      BY <1>3, OthersKeep DEF Failing
    <2>2. ASSUME ~Failing(c), ~Failing(c)' PROVE FailingCallers' = FailingCallers
      BY <2>1, <2>2 DEF FailingCallers
    <2>3. CASE Allow(c) \/ Wait(c) \/ Classify(c) \/ Retry(c) \/ GiveUp(c) \/ \E op \in {"text", "stream"} : StartCall(c, op)
      <3>1. call[c].pc # "record"
        BY <2>3 DEF Allow, Wait, Classify, Retry, GiveUp, StartCall
      <3>2. call'[c].pc # "record"
        <4>1. call \in [Callers -> Call] /\ call[c] \in Call
          BY DEF Typed
        <4>2. CASE Allow(c) \/ Wait(c)
          BY <3>1, <4>1, <4>2 DEF Allow, Wait, CallGoes, Call
        <4>3. CASE Classify(c) \/ Retry(c) \/ GiveUp(c)
          BY <3>1, <4>1, <4>3 DEF Classify, Retry, GiveUp, CallGoes, NoCall, Call
        <4>4. CASE \E op \in {"text", "stream"} : StartCall(c, op)
          BY <4>1, <4>4 DEF StartCall, NoCall, Call
        <4>5. QED
          BY <2>3, <4>2, <4>3, <4>4
      <3>3. UNCHANGED <<consecutiveFails, noBurst, failures>>
        BY <2>3 DEF Allow, Wait, Classify, Retry, GiveUp, StartCall, Breaking
      <3>4. QED
        BY <1>0, <1>1, <2>2, <3>1, <3>2, <3>3 DEF Failing
    <2>4. CASE Record(c)
      <3>1. call'[c].pc # "record" /\ UNCHANGED <<noBurst, failures>>
        BY <2>4 DEF Record, CallGoes, NoCall, Typed, Call
      <3>2. CASE Failing(c)
        <4>1. consecutiveFails' = consecutiveFails + 1
          BY <2>4, <3>2 DEF Record, Failing
        <4>2. FailingCallers' = FailingCallers \ {c} /\ c \in FailingCallers
          BY <2>1, <3>1, <3>2 DEF FailingCallers, Failing
        <4>3. /\ IsFiniteSet(FailingCallers') /\ Cardinality(FailingCallers') \in Nat
              /\ Cardinality(FailingCallers') = Cardinality(FailingCallers) - 1
          BY <1>0, <4>2, FS_RemoveElement, FS_CardinalityType
        <4>4. QED
          BY <1>0, <3>1, <4>1, <4>3 DEF FailuresCounted
      <3>3. CASE ~Failing(c)
        <4>1. FailingCallers' = FailingCallers
          BY <2>2, <3>1, <3>3 DEF Failing
        <4>2. consecutiveFails' \in {0, consecutiveFails}
          BY <2>4, <3>3 DEF Record, Failing, Breaking
        <4>3. QED
          BY <1>0, <1>1, <3>1, <4>1, <4>2
      <3>4. QED
        BY <3>2, <3>3
    <2>5. ASSUME NEW err \in {"none", "server", "throttled", "network", "permanent"}, NEW wrote \in BOOLEAN,
                 Inner(c, err, wrote)
          PROVE  FailuresCounted'
      <3>1. /\ err # "none" => failures < MaxFailures
            /\ failures' = IF err = "none" THEN failures ELSE failures + 1
            /\ UNCHANGED <<consecutiveFails, noBurst>> /\ call[c].pc = "inner"
        BY <2>5 DEF Inner, Breaking
      <3>2. call'[c].pc = "record" /\ call'[c].err = err
        BY <2>5 DEF Inner, Typed, Call
      <3>3. CASE err = "server"
        <4>1. FailingCallers' = FailingCallers \union {c} /\ c \notin FailingCallers
          BY <2>1, <3>1, <3>2, <3>3 DEF FailingCallers, Failing
        <4>2. /\ IsFiniteSet(FailingCallers') /\ Cardinality(FailingCallers') \in Nat
              /\ Cardinality(FailingCallers') = Cardinality(FailingCallers) + 1
          BY <1>0, <4>1, FS_AddElement, FS_CardinalityType
        <4>3. failures' \in 0..MaxFailures /\ failures' = failures + 1
          BY <1>0, <3>1, <3>3, AiConstants
        <4>4. QED
          BY <1>0, <3>1, <4>2, <4>3 DEF FailuresCounted
      <3>4. CASE err # "server"
        <4>1. FailingCallers' = FailingCallers
          BY <2>2, <3>1, <3>2, <3>4 DEF Failing
        <4>2. failures' \in 0..MaxFailures /\ failures' >= failures
          BY <1>0, <3>1, AiConstants
        <4>3. QED
          BY <1>0, <1>1, <3>1, <4>1, <4>2
      <3>5. QED
        BY <3>3, <3>4
    <2>6. QED
      BY <1>3, <2>3, <2>4, <2>5 DEF CallStep
  <1>4. QED
    BY <1>2, <1>3 DEF AiNext

(* At first there is none.                                                 *)
LEMMA NoFailuresYet == AiInit => FailuresCounted
  <1> SUFFICES ASSUME AiInit PROVE FailuresCounted
    OBVIOUS
  <1>1. FailingCallers = {}
    BY DEF AiInit, FailingCallers, Failing, NoCall
  <1>2. IsFiniteSet(FailingCallers) /\ Cardinality(FailingCallers) = 0
    BY <1>1, FS_EmptySet
  <1>3. QED
    BY <1>2, AiConstants DEF AiInit, FailuresCounted

(* The circuit, the calls and the counts keep their types (AiTypeOK): no   *)
(* failure is counted that was not one of the server.                      *)
THEOREM AiTyped == AiSpec => []AiTypeOK
  <1>1. AiInv /\ FailuresCounted /\ [AiNext]_aiVars => FailuresCounted'
    BY FailuresStayCounted DEF AiInv
  <1>2. AiInv /\ FailuresCounted => AiTypeOK
    <2> SUFFICES ASSUME AiInv, FailuresCounted PROVE AiTypeOK
      OBVIOUS
    <2>1. consecutiveFails \in 0..MaxFailures
      BY FS_CardinalityType, AiConstants DEF FailuresCounted
    <2>2. QED
      BY <2>1 DEF AiInv, Typed, Call, FailuresCounted, AiTypeOK
  <1>3. QED
    BY <1>1, <1>2, AiInvariant, NoFailuresYet, PTL DEF AiSpec

(* Text that reached the user is never sent again, whatever the provider   *)
(* does after it.                                                          *)
THEOREM TextOnce == AiSpec => []NoTextTwice
  <1>1. AiInv => NoTextTwice
    BY DEF AiInv, WroteEnds, NoTextTwice
  <1>2. QED
    BY <1>1, AiInvariant, PTL

(* While the retries last longer than the cool-down, a call is given up    *)
(* only when the server failed during it (or the limit admits nothing).    *)
THEOREM GivesUpWithReason == AiSpec => GivesUpOnlyOnFailures
  <1>1. AiInv /\ [AiNext]_aiVars =>
          [\A c \in Callers : call[c].pc = "backoff" /\ call'[c].pc = "idle" => call[c].ill \/ noBurst]_aiVars
    <2> SUFFICES ASSUME AiInv, AiNext, NEW c \in Callers, call[c].pc = "backoff", call'[c].pc = "idle"
                 PROVE  call[c].ill \/ noBurst
      OBVIOUS
    <2> USE AiConstants DEF AiInv, Typed
    <2>1. GiveUp(c)
      <3>1. ~Tick
        <4> SUFFICES ASSUME Tick PROVE call'[c].pc = call[c].pc
          OBVIOUS
        <4>1. QED
          BY DEF Tick, Call
      <3>2. ASSUME NEW d \in Callers, d # c, CallStep(d) \/ \E op \in {"text", "stream"} : StartCall(d, op)
            PROVE  FALSE
        BY <3>2, OthersKeep
      <3>3. ~ \E op \in {"text", "stream"} : StartCall(c, op)
        BY DEF StartCall
      <3>4. CallStep(c)
        BY <3>1, <3>2, <3>3 DEF AiNext
      <3>5. ~Allow(c) /\ ~Wait(c) /\ ~Record(c) /\ ~Classify(c)
        BY DEF Allow, Wait, Record, Classify
      <3>6. ~Retry(c)
        <4> SUFFICES ASSUME Retry(c) PROVE call'[c].pc = "allow"
          OBVIOUS
        <4>1. QED
          BY DEF Retry, Call
      <3>7. \A err \in {"none", "server", "throttled", "network", "permanent"}, wrote \in BOOLEAN :
              ~Inner(c, err, wrote)
        BY DEF Inner
      <3>8. QED
        BY <3>4, <3>5, <3>6, <3>7 DEF CallStep
    <2>2. call[c].age >= MaxElapsed /\ call[c].age \in 0..MaxElapsed
      BY <2>1 DEF GiveUp, Call
    <2>3. Patient(c) => noBurst
      BY <2>2 DEF Patient
    <2>4. QED
      BY <2>3 DEF Patience, Well
  <1>2. QED
    BY <1>1, AiInvariant, PTL DEF AiSpec, GivesUpOnlyOnFailures
(* The circuit breaker inside keeps the promise of Breaker: each step of   *)
(* the client is one of it, or changes nothing it speaks of.               *)
Admitted == {c \in Callers : call[c].pc \in {"wait", "inner", "record"}}

(* The first state is one of Breaker.                                      *)
LEMMA StartMaps == AiInit => Promise!BreakerInit
  BY DEF AiInit, NoCall, Promise!BreakerInit

(* A step of a call admits that call, or ends its stay, and no other.      *)
LEMMA CallMaps ==
    ASSUME Typed, NEW c \in Callers, CallStep(c) \/ \E op \in {"text", "stream"} : StartCall(c, op)
    PROVE  /\ call'[c].pc \in {"wait", "inner", "record"} => Admitted' = Admitted \union {c}
           /\ call'[c].pc \notin {"wait", "inner", "record"} => Admitted' = Admitted \ {c}
           /\ (call'[c].pc \in {"wait", "inner", "record"} <=> c \in Admitted) => Admitted' = Admitted
  <1>1. /\ call'[c].pc \in {"wait", "inner", "record"} => Admitted' = Admitted \union {c}
        /\ call'[c].pc \notin {"wait", "inner", "record"} => Admitted' = Admitted \ {c}
    BY OthersKeep DEF Admitted
  <1>2. /\ c \in Admitted => Admitted \union {c} = Admitted
        /\ c \notin Admitted => Admitted \ {c} = Admitted
    OBVIOUS
  <1>3. QED
    BY <1>1, <1>2

(* Where the steps of a call lead.                                         *)
LEMMA StepsMoveOn ==
    ASSUME Typed, NEW c \in Callers
    PROVE  /\ Tick => call'[c].pc = call[c].pc
           /\ Retry(c) => call'[c].pc = "allow"
           /\ Classify(c) \/ GiveUp(c) => call'[c].pc \in {"idle", "backoff"}
           /\ \A err \in {"none", "server", "throttled", "network", "permanent"}, wrote \in BOOLEAN :
                Inner(c, err, wrote) => call'[c].pc = "record"
  <1> USE DEF Typed, Call
  <1>1. Tick => call'[c].pc = call[c].pc
    <2>1. ASSUME NEW r \in Call, NEW due \in BOOLEAN PROVE [r EXCEPT !.age = @ + 1, !.due = due].pc = r.pc
      OBVIOUS
    <2>2. Tick => \/ call'[c] = call[c]
                  \/ call'[c] = [call[c] EXCEPT !.age = @ + 1, !.due = (call[c].pc = "backoff")]
      BY DEF Tick
    <2>3. QED
      BY <2>1, <2>2
  <1>2. Retry(c) => call'[c].pc = "allow"
    BY DEF Retry
  <1>3. ASSUME NEW err \in {"none", "server", "throttled", "network", "permanent"}, NEW wrote \in BOOLEAN,
               Inner(c, err, wrote)
        PROVE  call'[c].pc = "record"
    BY <1>3 DEF Inner
  <1>4. Classify(c) \/ GiveUp(c) => call'[c].pc \in {"idle", "backoff"}
    BY DEF Classify, GiveUp, CallGoes, NoCall
  <1>5. QED
    BY <1>1, <1>2, <1>3, <1>4

(* Every step is one of Breaker, or none.                                  *)
LEMMA StepMaps ==
    ASSUME Typed, Typed', [AiNext]_aiVars
    PROVE  [Promise!BreakerNext]_(Promise!breakerVars)
  <1> USE AiConstants DEF Typed
  <1> DEFINE cooled == sinceFail = Cooldown
             Same == UNCHANGED <<circuitState, cooled, Admitted>>
  <1>0. /\ Same => UNCHANGED Promise!breakerVars
        /\ cooled' = TRUE /\ UNCHANGED <<circuitState, Admitted>> => Promise!BreakerNext
    BY DEF Promise!breakerVars, Promise!BreakerNext, Promise!Cool, Admitted
  <1>1. ASSUME NEW c \in Callers, Allow(c) PROVE Same \/ Promise!Admit(c)
    <2>1. call[c].pc = "allow" /\ UNCHANGED sinceFail /\ c \notin Admitted
      BY <1>1 DEF Allow, Admitted
    <2>2. CASE circuitState = "open" /\ sinceFail < Cooldown
      <3>1. UNCHANGED circuitState /\ call'[c].pc = "classify"
        BY <1>1, <2>2 DEF Allow, Call
      <3>2. Admitted' = Admitted
        BY <1>1, <2>1, <3>1, CallMaps DEF CallStep
      <3>3. QED
        BY <2>1, <3>1, <3>2
    <2>3. CASE ~(circuitState = "open" /\ sinceFail < Cooldown)
      <3>1. /\ call'[c].pc = "wait"
            /\ circuitState' = IF circuitState = "open" THEN "half" ELSE circuitState
        BY <1>1, <2>3 DEF Allow, CallGoes, Call
      <3>2. Admitted' = Admitted \union {c}
        BY <1>1, <3>1, CallMaps DEF CallStep
      <3>3. circuitState = "open" => cooled
        BY <2>3
      <3>4. QED
        BY <2>1, <3>1, <3>2, <3>3 DEF Promise!Admit, Admitted
    <2>4. QED
      BY <2>2, <2>3
  <1>2. ASSUME NEW c \in Callers, Wait(c) PROVE Same \/ Promise!Ignored(c)
    <2>1. UNCHANGED <<circuitState, sinceFail>> /\ c \in Admitted /\ call'[c].pc \in {"classify", "inner"}
      BY <1>2 DEF Wait, Breaking, CallGoes, Call, Admitted
    <2>2. Admitted' = Admitted \/ Admitted' = Admitted \ {c}
      BY <1>2, <2>1, CallMaps DEF CallStep
    <2>3. QED
      BY <2>1, <2>2 DEF Promise!Ignored, Admitted
  <1>3. ASSUME NEW c \in Callers, Record(c)
        PROVE  Promise!Succeed(c) \/ Promise!ServerFails(c) \/ Promise!Ignored(c)
    <2>1. c \in Admitted /\ call'[c].pc \in {"idle", "classify"}
      BY <1>3 DEF Record, CallGoes, Call, NoCall, Admitted
    <2>2. Admitted' = Admitted \ {c}
      BY <1>3, <2>1, CallMaps DEF CallStep
    <2>3. CASE call[c].err = "none"
      <3>1. UNCHANGED sinceFail /\ circuitState' = AfterSuccess(circuitState)
        BY <1>3, <2>3 DEF Record
      <3>2. QED
        BY <2>1, <2>2, <3>1 DEF Promise!Succeed, Admitted, AfterSuccess
    <2>4. CASE call[c].err = "server"
      <3>1. /\ sinceFail' = 0
            /\ circuitState' \in {"open", circuitState} /\ (circuitState = "half" => circuitState' = "open")
        BY <1>3, <2>4 DEF Record
      <3>2. cooled' = FALSE
        BY <3>1
      <3>3. circuitState' \in IF circuitState = "closed" THEN {"closed", "open"} ELSE {"open"}
        BY <3>1
      <3>4. QED
        BY <2>1, <2>2, <3>2, <3>3 DEF Promise!ServerFails, Admitted
    <2>5. CASE call[c].err \notin {"none", "server"}
      <3>1. UNCHANGED <<circuitState, sinceFail>>
        BY <1>3, <2>5 DEF Record, Breaking
      <3>2. QED
        BY <2>1, <2>2, <3>1 DEF Promise!Ignored, Admitted
    <2>6. QED
      BY <2>3, <2>4, <2>5
  <1>4. ASSUME NEW c \in Callers, Classify(c) \/ GiveUp(c) \/ Retry(c) \/ \E op \in {"text", "stream"} : StartCall(c, op)
        PROVE  Same
    <2>1. /\ UNCHANGED <<circuitState, sinceFail>> /\ c \notin Admitted
          /\ call'[c].pc \in {"idle", "backoff", "allow"}
      <3>1. CASE Classify(c) \/ GiveUp(c)
        BY <3>1, StepsMoveOn DEF Classify, GiveUp, Breaking, Admitted
      <3>2. CASE Retry(c)
        BY <3>2, StepsMoveOn DEF Retry, Breaking, Admitted
      <3>3. CASE \E op \in {"text", "stream"} : StartCall(c, op)
        BY <3>3 DEF StartCall, Breaking, NoCall, Admitted
      <3>4. QED
        BY <1>4, <3>1, <3>2, <3>3
    <2>2. Admitted' = Admitted
      BY <1>4, <2>1, CallMaps DEF CallStep
    <2>3. QED
      BY <2>1, <2>2
  <1>5. ASSUME NEW c \in Callers, NEW err \in {"none", "server", "throttled", "network", "permanent"},
               NEW wrote \in BOOLEAN, Inner(c, err, wrote)
        PROVE  Same
    <2>1. UNCHANGED <<circuitState, sinceFail>> /\ c \in Admitted
      BY <1>5 DEF Inner, Breaking, Admitted
    <2>2. call'[c].pc = "record"
      BY <1>5, StepsMoveOn
    <2>3. Admitted' = Admitted
      BY <1>5, <2>1, <2>2, CallMaps DEF CallStep
    <2>4. QED
      BY <2>1, <2>3
  <1>6. ASSUME Tick PROVE Same \/ (cooled' = TRUE /\ UNCHANGED <<circuitState, Admitted>>)
    <2>1. \A d \in Callers : call'[d].pc = call[d].pc
      <3>1. ASSUME NEW d \in Callers PROVE call'[d].pc = call[d].pc
        BY <1>6, StepsMoveOn
      <3>2. QED
        BY <3>1
    <2>2. UNCHANGED <<circuitState, Admitted>>
      BY <1>6, <2>1 DEF Tick, Admitted
    <2>3. sinceFail' = IF sinceFail < Cooldown THEN sinceFail + 1 ELSE sinceFail
      BY <1>6 DEF Tick
    <2>4. cooled => cooled'
      BY <2>3
    <2>5. QED
      BY <2>2, <2>4
  <1>7. CASE UNCHANGED aiVars
    BY <1>0, <1>7 DEF aiVars, Admitted
  <1>8. QED
    BY <1>0, <1>1, <1>2, <1>3, <1>4, <1>5, <1>6, <1>7 DEF AiNext, CallStep, Promise!BreakerNext

(* The circuit breaker under retries, limits and several callers: it       *)
(* admits nothing while it cools down, opens on failures only and closes   *)
(* on a success only.                                                      *)
THEOREM BreakerKept == AiSpec => KeepsBreakerPromise
  <1>1. AiInv /\ AiInv' /\ [AiNext]_aiVars => [Promise!BreakerNext]_(Promise!breakerVars)
    BY StepMaps DEF AiInv
  <1>2. QED
    BY <1>1, StartMaps, AiInvariant, PTL DEF AiSpec, KeepsBreakerPromise, Promise!BreakerSpec

-----------------------------------------------------------------------------
(* The knowledge index.                                                    *)

(* What a run knows of a file: where it is still to be looked at there is  *)
(* no entry; an entry without a document is the one the manifest had, and  *)
(* one with a document is of its text, if no file changed under the run.   *)
EntryFits(d) ==
    /\ d \in indexing.todo => indexing.new[d] = NoText /\ d \notin indexing.file
    /\ indexing.new[d] = NoText => indexing.batch[d] = NoText
    /\ indexing.new[d] # NoText /\ indexing.batch[d] = NoText =>
         ~indexing.full /\ indexing.old[d] = indexing.new[d]
    /\ indexing.new[d] # NoText /\ indexing.batch[d] # NoText =>
         indexing.raced \/ indexing.batch[d] = indexing.new[d]

(* What it knows of the file's document, before and after the deletions,   *)
(* and at the end.                                                         *)
StoreFits(d) ==
    /\ indexing.pc \in {"hash", "read", "delete"} /\ indexing.agreed => store[d] = indexing.old[d]
    /\ indexing.pc \in {"embed", "add"} /\ indexing.agreed =>
         /\ indexing.new[d] # NoText /\ indexing.batch[d] = NoText => store[d] = indexing.new[d]
         /\ indexing.new[d] = NoText /\ ~indexing.kept => store[d] = NoText
    /\ indexing.pc = "save" /\ ~indexing.raced =>
         /\ (indexing.full \/ indexing.agreed) /\ indexing.new[d] # NoText => store[d] = indexing.new[d]
         /\ indexing.agreed /\ indexing.new[d] = NoText /\ ~indexing.kept => store[d] = NoText

IndexInv ==
    /\ IndexTypeOK
    /\ indexing.pc = "read" => indexing.hash # NoText
    /\ \A d \in UkiFiles : EntryFits(d) /\ StoreFits(d)

IndexRun ==
    [pc : {"idle", "hash", "read", "delete", "embed", "add", "save"},
     full : BOOLEAN, old : [UkiFiles -> UkiContent], todo : SUBSET UkiFiles,
     file : SUBSET UkiFiles, hash : UkiContent, batch : [UkiFiles -> UkiContent],
     new : [UkiFiles -> UkiContent], agreed : BOOLEAN, raced : BOOLEAN, kept : BOOLEAN]

(* Nothing is known, and nothing promised, while no run is under way.      *)
LEMMA NotIndexingFits ==
    /\ Nothing \in [UkiFiles -> UkiContent] /\ NotIndexing \in IndexRun
    /\ indexing = NotIndexing => \A d \in UkiFiles : EntryFits(d) /\ StoreFits(d)
  BY DEF Nothing, NotIndexing, UkiContent, IndexRun, EntryFits, StoreFits

(* The invariant holds at first.                                           *)
LEMMA IndexInitInv == IndexInit => IndexInv
  BY NotIndexingFits DEF IndexInit, IndexInv, IndexTypeOK, IndexRun, NotIndexing

(* Every step keeps the invariant.                                         *)
LEMMA IndexStepInv == ASSUME IndexInv, [IndexNext]_indexVars PROVE IndexInv'
  <1> DEFINE Texts == [UkiFiles -> UkiContent]
  <1>0. /\ ukis \in Texts /\ manifest \in Texts /\ store \in Texts /\ indexing \in IndexRun
        /\ \A d \in UkiFiles : EntryFits(d) /\ StoreFits(d)
    BY DEF IndexInv, IndexTypeOK, IndexRun
  <1>a. ASSUME ukis' \in Texts, manifest' \in Texts, store' \in Texts, indexing' \in IndexRun,
               (indexing.pc = "read" => indexing.hash # NoText)',
               \A d \in UkiFiles : EntryFits(d)' /\ StoreFits(d)'
        PROVE  IndexInv'
    BY <1>a DEF IndexInv, IndexTypeOK, IndexRun
  <1>1. ASSUME NEW d \in UkiFiles, DeleteUKI(d) \/ \E t \in UkiTexts : WriteUKI(d, t) PROVE IndexInv'
    BY <1>0, <1>1, <1>a DEF DeleteUKI, WriteUKI, EntryFits, StoreFits, UkiContent, IndexInv
  <1>2. ASSUME NEW full \in BOOLEAN, StartIndexing(full) PROVE IndexInv'
    <2>1. indexing' = [NotIndexing EXCEPT !.pc = "hash", !.full = full, !.old = manifest,
                                          !.todo = Present(ukis), !.agreed = (store = manifest)]
      BY <1>2 DEF StartIndexing
    <2>2. Present(ukis) \in SUBSET UkiFiles /\ (store = manifest) \in BOOLEAN
      BY DEF Present
    <2>3. indexing' \in IndexRun
      BY <1>0, <2>1, <2>2 DEF IndexRun, NotIndexing, Nothing, UkiContent
    <2>4. ASSUME NEW d \in UkiFiles PROVE EntryFits(d)' /\ StoreFits(d)'
      <3>1. /\ indexing'.pc = "hash" /\ indexing'.file = {} /\ indexing'.old = manifest
            /\ indexing'.new = Nothing /\ indexing'.batch = Nothing
            /\ indexing'.agreed = (store = manifest)
        BY <2>1 DEF NotIndexing
      <3>2. UNCHANGED store
        BY <1>2 DEF StartIndexing
      <3>3. Nothing[d] = NoText
        BY DEF Nothing
      <3>4. EntryFits(d)'
        BY <3>1, <3>3 DEF EntryFits
      <3>5. StoreFits(d)'
        BY <3>1, <3>2, <3>3 DEF StoreFits
      <3>6. QED
        BY <3>4, <3>5
    <2>5. indexing'.pc = "hash"
      BY <2>1 DEF NotIndexing
    <2>6. QED
      BY <1>0, <1>2, <1>a, <2>3, <2>4, <2>5 DEF StartIndexing
  <1>3. ASSUME NEW d \in UkiFiles, HashFile(d) PROVE IndexInv'
    <2>1. indexing' \in IndexRun
      <3>1. ASSUME NEW x \in UkiContent PROVE [indexing EXCEPT !.todo = @ \ {d}, !.new[d] = x] \in IndexRun
        BY <1>0 DEF IndexRun
      <3>2. [indexing EXCEPT !.todo = @ \ {d}] \in IndexRun
        BY <1>0 DEF IndexRun
      <3>3. [indexing EXCEPT !.todo = @ \ {d}, !.pc = "read", !.file = {d}, !.hash = ukis[d]] \in IndexRun
        BY <1>0 DEF IndexRun
      <3>4. ukis[d] \in UkiContent
        BY <1>0
      <3>5. QED
        BY <1>3, <3>1, <3>2, <3>3, <3>4 DEF HashFile
    <2>2. (indexing.pc = "read" => indexing.hash # NoText)'
      BY <1>0, <1>3 DEF HashFile, IndexRun
    <2>3. ASSUME NEW e \in UkiFiles PROVE EntryFits(e)' /\ StoreFits(e)'
      <3>1. EntryFits(e) /\ StoreFits(e) /\ d \in indexing.todo /\ indexing.pc = "hash" /\ UNCHANGED store
        BY <1>0, <1>3 DEF HashFile
      <3>2. CASE indexing' = [indexing EXCEPT !.todo = @ \ {d}]
        BY <1>0, <3>1, <3>2 DEF IndexRun, EntryFits, StoreFits
      <3>3. CASE ~indexing.full /\ indexing.old[d] = ukis[d] /\ indexing' = [indexing EXCEPT !.todo = @ \ {d}, !.new[d] = ukis[d]]
        <4>1. indexing.batch[d] = NoText \/ e # d
          BY <3>1 DEF EntryFits
        <4>2. QED
          BY <1>0, <3>1, <3>3, <4>1 DEF IndexRun, EntryFits, StoreFits
      <3>4. CASE indexing' = [indexing EXCEPT !.todo = @ \ {d}, !.pc = "read", !.file = {d}, !.hash = ukis[d]]
        BY <1>0, <3>1, <3>4 DEF IndexRun, EntryFits, StoreFits
      <3>5. QED
        BY <1>3, <3>2, <3>3, <3>4 DEF HashFile
    <2>4. QED
      BY <1>0, <1>3, <1>a, <2>1, <2>2, <2>3 DEF HashFile
  <1>4. ASSUME NEW d \in UkiFiles, ReadFile(d) PROVE IndexInv'
    <2>1. indexing' \in IndexRun
      BY <1>0, <1>4 DEF ReadFile, IndexRun, UkiContent
    <2>2. (indexing.pc = "read" => indexing.hash # NoText)'
      BY <1>0, <1>4 DEF ReadFile, IndexRun
    <2>3. ASSUME NEW e \in UkiFiles PROVE EntryFits(e)' /\ StoreFits(e)'
      BY <1>0, <1>4 DEF ReadFile, IndexRun, EntryFits, StoreFits, IndexInv
    <2>4. QED
      BY <1>0, <1>4, <1>a, <2>1, <2>2, <2>3 DEF ReadFile
  <1>5. CASE Scanned
    BY <1>0, <1>5, <1>a DEF Scanned, IndexRun, EntryFits, StoreFits
  <1>6. CASE DeleteRemoved
    <2> DEFINE removed == Present(indexing.old) \ Present(indexing.new)
    <2>1. PICK gone \in SUBSET removed :
            /\ store' = Without(store, gone)
            /\ indexing' = [indexing EXCEPT !.kept = (gone # removed),
                              !.pc = IF Present(indexing.batch) = {} THEN "save" ELSE "embed"]
      BY <1>6 DEF DeleteRemoved
    <2>2. store' \in Texts /\ indexing' \in IndexRun /\ UNCHANGED <<ukis, manifest>> /\ indexing.pc = "delete"
      BY <1>0, <1>6, <2>1 DEF Without, IndexRun, UkiContent, DeleteRemoved
    <2>3. ASSUME NEW e \in UkiFiles PROVE EntryFits(e)' /\ StoreFits(e)'
      <3>1. EntryFits(e)'
        BY <1>0, <2>1 DEF IndexRun, EntryFits
      <3>2. store'[e] = IF e \in gone THEN NoText ELSE store[e]
        BY <2>1 DEF Without
      <3>3. /\ e \in gone => indexing.new[e] = NoText
            /\ ~indexing'.kept /\ indexing.new[e] = NoText /\ indexing.old[e] # NoText => e \in gone
            /\ indexing'.pc = "save" => indexing.batch[e] = NoText
        BY <1>0, <2>1 DEF IndexRun, Present
      <3>4. indexing.agreed => store[e] = indexing.old[e]
        BY <1>0, <2>2 DEF StoreFits
      <3>5. indexing.new[e] # NoText /\ indexing.batch[e] = NoText => ~indexing.full /\ indexing.old[e] = indexing.new[e]
        BY <1>0 DEF EntryFits
      <3>6. /\ indexing'.new = indexing.new /\ indexing'.batch = indexing.batch /\ indexing'.full = indexing.full
            /\ indexing'.agreed = indexing.agreed /\ indexing'.pc \in {"save", "embed"}
        BY <1>0, <2>1 DEF IndexRun
      <3>7. QED
        BY <3>1, <3>2, <3>3, <3>4, <3>5, <3>6 DEF StoreFits
    <2>4. QED
      BY <1>0, <1>a, <2>1, <2>2, <2>3 DEF IndexRun
  <1>7. CASE EmbedDocuments
    BY <1>0, <1>7, <1>a DEF EmbedDocuments, IndexRun, EntryFits, StoreFits
  <1>8. CASE AddDocuments
    <2>1. PICK added \in SUBSET Present(indexing.batch) :
            /\ store' = With(store, indexing.batch, added)
            /\ indexing' = IF added = Present(indexing.batch) THEN [indexing EXCEPT !.pc = "save"] ELSE NotIndexing
      BY <1>8 DEF AddDocuments
    <2>2. store' \in Texts /\ UNCHANGED <<ukis, manifest>> /\ indexing.pc = "add"
      BY <1>0, <1>8, <2>1 DEF With, IndexRun, AddDocuments
    <2>3. CASE added # Present(indexing.batch)
      BY <1>0, <1>a, <2>1, <2>2, <2>3, NotIndexingFits DEF NotIndexing, EntryFits, StoreFits
    <2>4. CASE added = Present(indexing.batch)
      <3>1. indexing' = [indexing EXCEPT !.pc = "save"] /\ indexing' \in IndexRun
        BY <1>0, <2>1, <2>4 DEF IndexRun
      <3>2. ASSUME NEW e \in UkiFiles PROVE EntryFits(e)' /\ StoreFits(e)'
        <4>1. store'[e] = IF indexing.batch[e] # NoText THEN indexing.batch[e] ELSE store[e]
          BY <2>1, <2>4 DEF With, Present
        <4>2. QED
          BY <1>0, <2>2, <3>1, <4>1 DEF EntryFits, StoreFits, IndexRun
      <3>3. QED
        BY <1>0, <1>a, <2>2, <3>1, <3>2 DEF IndexRun
    <2>5. QED
      BY <2>3, <2>4
  <1>9. CASE SaveManifest
    BY <1>0, <1>9, <1>a, NotIndexingFits DEF SaveManifest, IndexRun, NotIndexing, EntryFits, StoreFits
  <1>10. CASE StopIndexing
    BY <1>0, <1>10, <1>a, NotIndexingFits DEF StopIndexing, NotIndexing, EntryFits, StoreFits
  <1>11. CASE UNCHANGED indexVars
    BY <1>11 DEF indexVars, IndexInv, IndexTypeOK, EntryFits, StoreFits
  <1>12. QED
    BY <1>1, <1>2, <1>3, <1>4, <1>5, <1>6, <1>7, <1>8, <1>9, <1>10, <1>11 DEF IndexNext, IndexStep

(* The invariant holds always.                                             *)
LEMMA IndexInvariant == IndexSpec => []IndexInv
  BY IndexInitInv, IndexStepInv, PTL DEF IndexSpec

(* The files, the store and the run keep their types.                      *)
THEOREM IndexTyped == IndexSpec => []IndexTypeOK
  BY IndexInvariant, PTL DEF IndexInv

(* A run that completes leaves a manifest that is true of the store.       *)
THEOREM ManifestTrue == IndexSpec => CompleteRunAgrees
  <1> DEFINE Agrees ==
        indexing.pc = "save" /\ manifest' = indexing.new /\ ~indexing.raced =>
          /\ indexing.full \/ indexing.agreed => \A d \in Present(manifest') : store'[d] = manifest'[d]
          /\ indexing.agreed /\ ~indexing.kept => store' = manifest'
  <1>1. ASSUME IndexInv, IndexNext PROVE Agrees
    <2> SUFFICES ASSUME indexing.pc = "save", manifest' = indexing.new, ~indexing.raced
                 PROVE  /\ indexing.full \/ indexing.agreed => \A d \in Present(manifest') : store'[d] = manifest'[d]
                        /\ indexing.agreed /\ ~indexing.kept => store' = manifest'
      OBVIOUS
    <2>1. store' = store
      BY <1>1 DEF IndexNext, IndexStep, DeleteUKI, WriteUKI, StartIndexing, HashFile, ReadFile, Scanned, DeleteRemoved,
                  EmbedDocuments, AddDocuments, SaveManifest, StopIndexing
    <2>2. \A d \in UkiFiles : StoreFits(d)
      BY <1>1 DEF IndexInv
    <2>3. store \in [UkiFiles -> UkiContent] /\ indexing.new \in [UkiFiles -> UkiContent]
      BY <1>1 DEF IndexInv, IndexTypeOK
    <2>4. ASSUME indexing.agreed, ~indexing.kept, NEW d \in UkiFiles PROVE store[d] = indexing.new[d]
      BY <2>2, <2>4 DEF StoreFits
    <2>5. QED
      BY <2>1, <2>2, <2>3, <2>4 DEF StoreFits, Present
  <1>2. QED
    BY <1>1, IndexInvariant, PTL DEF IndexSpec, CompleteRunAgrees

-----------------------------------------------------------------------------
(* The chat.                                                               *)

(* A set of numbers that is not empty has a least one.                     *)
LEMMA LeastNumber ==
    ASSUME NEW T \in SUBSET Nat, T # {}
    PROVE  \E m \in T : \A n \in T : m <= n
  <1>1. \E m \in T : \A n \in T : ~ (<<n, m>> \in OpToRel(<, Nat))
    BY NatLessThanWellFounded, WFMin
  <1>2. PICK m \in T : \A n \in T : ~ (<<n, m>> \in OpToRel(<, Nat))
    BY <1>1
  <1>3. \A n \in T : <<n, m>> \in Nat \X Nat
    OBVIOUS
  <1>4. \A n \in T : ~(n < m)
    BY <1>2, <1>3 DEF OpToRel
  <1>5. QED
    BY <1>4

(* The last n of a finite set of numbers are at most n.                    *)
LEMMA LastOfIsBounded ==
    ASSUME NEW numbers \in SUBSET Nat, IsFiniteSet(numbers), NEW n \in Nat
    PROVE  IsFiniteSet(LastOf(numbers, n)) /\ Cardinality(LastOf(numbers, n)) <= n
  <1> DEFINE last == LastOf(numbers, n)
  <1>1. last \subseteq numbers /\ IsFiniteSet(last)
    BY FS_Subset DEF LastOf
  <1>2. CASE last = {}
    BY <1>1, <1>2, FS_EmptySet
  <1>3. CASE last # {}
    <2>1. PICK m \in last : \A i \in last : m <= i
      BY <1>1, <1>3, LeastNumber
    <2> DEFINE later == {j \in numbers : j > m}
    <2>2. IsFiniteSet(later) /\ Cardinality(later) \in Nat /\ Cardinality(later) < n
      <3>1. later \in SUBSET numbers
        OBVIOUS
      <3>2. IsFiniteSet(later)
        BY <3>1, FS_Subset
      <3>3. Cardinality(later) < n
        BY <2>1 DEF LastOf
      <3>4. QED
        BY <3>2, <3>3, FS_CardinalityType
    <2>3. last \subseteq later \union {m}
      <3>1. ASSUME NEW i \in last, i # m PROVE i \in later
        <4>1. i \in Nat /\ m \in Nat /\ m <= i /\ i \in numbers
          BY <1>1, <2>1
        <4>2. i > m
          BY <3>1, <4>1
        <4>3. QED
          BY <4>1, <4>2
      <3>2. QED
        BY <3>1
    <2>a. m \notin later
      <3>1. m \in Nat
        BY <1>1, <2>1
      <3>2. QED
        BY <3>1
    <2> HIDE DEF later
    <2>4. IsFiniteSet(later \union {m}) /\ Cardinality(later \union {m}) = Cardinality(later) + 1
      BY <2>2, <2>a, FS_AddElement
    <2>5. Cardinality(last) <= Cardinality(later) + 1 /\ Cardinality(last) \in Nat
      BY <1>1, <2>3, <2>4, FS_Subset, FS_CardinalityType
    <2>6. QED
      BY <1>1, <2>2, <2>5
  <1>4. QED
    BY <1>2, <1>3

BardStates == [ui : Interfaces \union {"closed", "left"}, busy : BOOLEAN,
               pending : SUBSET PendingAnswer, context : SUBSET (Nat \X HistoryEntry)]

BardTypes ==
    /\ history \in Seq(HistoryEntry)
    /\ toolDefs \in [ToolNames -> SUBSET {"builtin", "home", "project"}]
    /\ disturbed \in SUBSET Chats /\ losses \in 0..MaxLosses /\ asked \in 0..MaxTurns
    /\ chat \in [Chats -> BardStates]
    /\ \A c \in Chats : Cardinality(chat[c].context) <= MaxHistory

(* What is left to do for an answer ends with the answer.                  *)
StepsLeft == {steps \in Seq(AnswerSteps) : steps # <<>> /\ steps[Len(steps)] = "stream"}

(* The last line of a session is the question of this turn.                *)
LastIsQuestion(c, turn) ==
    \E i \in DOMAIN history :
        /\ history[i].session = c /\ history[i].role = "user" /\ history[i].turn = turn
        /\ \A j \in DOMAIN history : history[j].session = c => j <= i

(* A chat awaits at most one answer, and the last line of its session is   *)
(* then the question, if its interface saves lines and none was lost.      *)
AnswersAwaited ==
    /\ \A c \in Chats :
         /\ ~chat[c].busy \/ chat[c].ui \notin Interfaces => chat[c].pending = {}
         /\ \A r, s \in chat[c].pending : r = s
    /\ \A c \in Chats : \A r \in chat[c].pending :
         /\ r.steps \in StepsLeft
         /\ chat[c].ui \in {"tui", "legacy"} /\ c \notin disturbed => LastIsQuestion(c, r.turn)

BardInv == BardTypes /\ AnswersAwaited /\ AnswersFollowQuestions

(* The invariant holds at first.                                           *)
LEMMA BardInitInv == BardInit => BardInv
  <1> SUFFICES ASSUME BardInit PROVE BardInv
    OBVIOUS
  <1>1. ClosedChat \in BardStates /\ ClosedChat.pending = {} /\ Cardinality(ClosedChat.context) <= MaxHistory
    BY FS_EmptySet, BardConstants DEF ClosedChat, BardStates
  <1>2. \A c \in Chats : chat[c] = ClosedChat
    BY DEF BardInit
  <1>3. toolDefs \in [ToolNames -> SUBSET {"builtin", "home", "project"}]
    BY DEF BardInit
  <1>4. BardTypes
    BY <1>1, <1>2, <1>3, BardConstants DEF BardInit, BardTypes
  <1>5. AnswersAwaited
    BY <1>1, <1>2 DEF AnswersAwaited
  <1>6. AnswersFollowQuestions
    BY DEF BardInit, AnswersFollowQuestions
  <1>7. QED
    BY <1>4, <1>5, <1>6 DEF BardInv

(* What is read of the history for the prompt.                             *)
LEMMA ReadTyped ==
    ASSUME BardTypes, NEW numbers \in SUBSET DOMAIN history
    PROVE  /\ Lines(LastOf(numbers, MaxHistory)) \in SUBSET (Nat \X HistoryEntry)
           /\ Cardinality(Lines(LastOf(numbers, MaxHistory))) <= MaxHistory
  <1> DEFINE last == LastOf(numbers, MaxHistory)
  <1>1. history \in Seq(HistoryEntry) /\ DOMAIN history = 1..Len(history) /\ Len(history) \in Nat
    BY DEF BardTypes
  <1>2. numbers \in SUBSET Nat /\ IsFiniteSet(numbers)
    <2>1. IsFiniteSet(1..Len(history))
      BY <1>1, FS_Interval
    <2>2. QED
      BY <1>1, <2>1, FS_Subset
  <1>3. IsFiniteSet(last) /\ Cardinality(last) <= MaxHistory /\ last \subseteq DOMAIN history
    BY <1>2, LastOfIsBounded, BardConstants DEF LastOf
  <1>4. \A i \in last : <<i, history[i]>> \in Nat \X HistoryEntry
    BY <1>1, <1>3
  <1>5. Lines(last) = {<<i, history[i]>> : i \in last}
    BY DEF Lines
  <1> HIDE DEF last
  <1>6. [i \in last |-> <<i, history[i]>>] \in Surjection(last, Lines(last))
    BY <1>5 DEF Surjection
  <1>7. /\ IsFiniteSet(Lines(last)) /\ Cardinality(Lines(last)) <= Cardinality(last)
        /\ Cardinality(last) \in Nat /\ Cardinality(Lines(last)) \in Nat
    BY <1>3, <1>6, FS_Surjection, FS_CardinalityType
  <1>8. QED
    BY <1>3, <1>4, <1>5, <1>7, BardConstants DEF last
(* A line added to the history leaves the other sessions alone; a question *)
(* is then the last of its session, and an answer follows one.             *)
LEMMA SaveKeeps ==
    ASSUME BardTypes, AnswersFollowQuestions, NEW c \in Chats, NEW role \in {"user", "assistant"}, NEW turn \in Turns,
           NEW long \in BOOLEAN, SaveMessage(c, role, turn, long),
           role = "assistant" /\ c \notin disturbed => LastIsQuestion(c, turn)
    PROVE  /\ history' \in Seq(HistoryEntry) /\ disturbed' \in SUBSET Chats /\ losses' \in 0..MaxLosses
           /\ AnswersFollowQuestions' /\ disturbed \subseteq disturbed'
           /\ \A d \in Chats, t \in Turns : d # c /\ LastIsQuestion(d, t) => LastIsQuestion(d, t)'
           /\ role = "user" /\ c \notin disturbed' => LastIsQuestion(c, turn)'
  <1> DEFINE entry == [session |-> c, role |-> role, turn |-> turn, long |-> long]
             n == Len(history)
  <1>0. history \in Seq(HistoryEntry) /\ disturbed \in SUBSET Chats /\ losses \in 0..MaxLosses
    BY DEF BardTypes
  <1>1. CASE history' = Append(history, entry) /\ UNCHANGED <<disturbed, losses>>
    <2>1. entry \in HistoryEntry /\ entry.session = c /\ entry.role = role /\ entry.turn = turn
      BY DEF HistoryEntry
    <2> HIDE DEF entry
    <2>2. /\ n \in Nat /\ DOMAIN history = 1..n /\ DOMAIN history' = 1..(n + 1) /\ history' \in Seq(HistoryEntry)
          /\ history'[n + 1] = entry /\ \A i \in 1..n : history'[i] = history[i]
      BY <1>0, <1>1, <2>1
    <2> HIDE DEF n
    <2>3. ASSUME NEW i \in 1..(n + 1), history'[i].role = "assistant", history'[i].session \notin disturbed'
          PROVE  LET earlier == {j \in 1..(i - 1) : history'[j].session = history'[i].session} IN
                 \E j \in earlier :
                   /\ \A k \in earlier : k <= j
                   /\ history'[j].role = "user" /\ history'[j].turn = history'[i].turn
      <3>1. CASE i \in 1..n
        <4>1. \A j \in 1..(i - 1) : history'[j] = history[j]
          BY <2>2, <3>1
        <4>2. LET earlier == {j \in 1..(i - 1) : history[j].session = history[i].session} IN
                \E j \in earlier :
                  /\ \A k \in earlier : k <= j
                  /\ history[j].role = "user" /\ history[j].turn = history[i].turn
          BY <1>1, <2>2, <2>3, <3>1 DEF AnswersFollowQuestions
        <4>3. {j \in 1..(i - 1) : history'[j].session = history'[i].session} =
              {j \in 1..(i - 1) : history[j].session = history[i].session}
          BY <2>2, <3>1, <4>1
        <4>4. QED
          BY <2>2, <3>1, <4>1, <4>2, <4>3
      <3>2. CASE i = n + 1
        <4>1. history'[i] = entry /\ c \notin disturbed /\ role = "assistant"
          BY <1>1, <2>1, <2>2, <2>3, <3>2
        <4>2. PICK j \in 1..n : /\ history[j].session = c /\ history[j].role = "user" /\ history[j].turn = turn
                                /\ \A k \in 1..n : history[k].session = c => k <= j
          BY <2>2, <4>1 DEF LastIsQuestion
        <4>3. i - 1 = n
          BY <2>2, <3>2
        <4>4. QED
          BY <2>1, <2>2, <4>1, <4>2, <4>3
      <3>3. QED
        BY <2>2, <3>1, <3>2
    <2>4. AnswersFollowQuestions'
      BY <2>2, <2>3 DEF AnswersFollowQuestions
    <2>5. ASSUME NEW d \in Chats, NEW t \in Turns, d # c, LastIsQuestion(d, t) PROVE LastIsQuestion(d, t)'
      <3>1. PICK i \in 1..n : /\ history[i].session = d /\ history[i].role = "user" /\ history[i].turn = t
                              /\ \A j \in 1..n : history[j].session = d => j <= i
        BY <2>2, <2>5 DEF LastIsQuestion
      <3>2. i \in 1..(n + 1) /\ history'[i] = history[i]
        BY <2>2
      <3>3. ASSUME NEW j \in 1..(n + 1), history'[j].session = d PROVE j <= i
        <4>1. j \in 1..n
          BY <2>1, <2>2, <2>5, <3>3
        <4>2. QED
          BY <2>2, <3>1, <3>3, <4>1
      <3>4. QED
        BY <2>2, <3>1, <3>2, <3>3 DEF LastIsQuestion
    <2>6. role = "user" => LastIsQuestion(c, turn)'
      BY <2>1, <2>2 DEF LastIsQuestion
    <2>7. QED
      BY <1>0, <1>1, <2>2, <2>4, <2>5, <2>6
  <1>2. CASE UNCHANGED history /\ losses < MaxLosses /\ losses' = losses + 1 /\ disturbed' = disturbed \union {c}
    <2>1. AnswersFollowQuestions'
      BY <1>2 DEF AnswersFollowQuestions
    <2>2. losses' \in 0..MaxLosses
      BY <1>0, <1>2, BardConstants
    <2>3. QED
      BY <1>0, <1>2, <2>1, <2>2 DEF LastIsQuestion
  <1>3. QED
    BY <1>1, <1>2 DEF SaveMessage

(* A chat changes, and the history does not.                               *)
LEMMA ChatMoves ==
    ASSUME BardInv, NEW c \in Chats, NEW b \in BardStates, chat' = [chat EXCEPT ![c] = b], asked' \in 0..MaxTurns,
           UNCHANGED <<history, toolDefs, disturbed, losses>>, Cardinality(b.context) <= MaxHistory,
           ~b.busy \/ b.ui \notin Interfaces => b.pending = {}, \A r, s \in b.pending : r = s,
           \A r \in b.pending : /\ r.steps \in StepsLeft
                                /\ b.ui \in {"tui", "legacy"} /\ c \notin disturbed => LastIsQuestion(c, r.turn)
    PROVE  BardInv'
  <1>1. chat' \in [Chats -> BardStates] /\ chat'[c] = b /\ \A d \in Chats : d # c => chat'[d] = chat[d]
    BY DEF BardInv, BardTypes
  <1>2. BardTypes'
    BY <1>1 DEF BardInv, BardTypes
  <1>3. AnswersAwaited'
    BY <1>1 DEF BardInv, AnswersAwaited, LastIsQuestion
  <1>4. AnswersFollowQuestions'
    BY DEF BardInv, AnswersFollowQuestions
  <1>5. QED
    BY <1>2, <1>3, <1>4 DEF BardInv

(* What is left to do after a step, with a tool or without.                *)
LEMMA TailsLeft ==
    ASSUME NEW steps \in StepsLeft, Head(steps) \in {"search", "classify", "tool"}
    PROVE  Tail(steps) \in StepsLeft /\ <<"tool">> \o Tail(steps) \in StepsLeft
  <1>1. steps \in Seq(AnswerSteps) /\ Len(steps) \in Nat \ {0} /\ steps[Len(steps)] = "stream" /\ Len(steps) # 1
    BY DEF StepsLeft
  <1>2. /\ Tail(steps) \in Seq(AnswerSteps) /\ Len(Tail(steps)) = Len(steps) - 1
        /\ \A i \in 1..Len(steps) - 1 : Tail(steps)[i] = steps[i + 1]
    BY <1>1
  <1>3. Tail(steps)[Len(steps) - 1] = "stream" /\ Tail(steps) # <<>>
    BY <1>1, <1>2
  <1> DEFINE t == Tail(steps)
  <1>4. t \in Seq(AnswerSteps) /\ Len(t) \in Nat \ {0} /\ t[Len(t)] = "stream"
    BY <1>1, <1>2, <1>3
  <1> HIDE DEF t
  <1>5. /\ <<"tool">> \o t \in Seq(AnswerSteps) /\ Len(<<"tool">> \o t) = Len(t) + 1
        /\ \A i \in 1..Len(t) : (<<"tool">> \o t)[i + 1] = t[i]
    BY <1>4 DEF AnswerSteps
  <1> DEFINE u == <<"tool">> \o t
  <1>6. u[Len(u)] = "stream" /\ u # <<>> /\ u \in Seq(AnswerSteps)
    BY <1>4, <1>5
  <1>7. t \in StepsLeft
    BY <1>4 DEF StepsLeft
  <1> HIDE DEF u
  <1>8. u \in StepsLeft
    BY <1>6 DEF StepsLeft
  <1>9. QED
    BY <1>7, <1>8 DEF t, u

(* What is left to do is a sequence of steps.                              *)
LEMMA StepsLeftTyped == StepsLeft \subseteq Seq(AnswerSteps)
  BY DEF StepsLeft

(* A chat starts with one of these.                                        *)
LEMMA StepsOfLeft == ASSUME NEW ui \in Interfaces PROVE StepsOf(ui) \in StepsLeft
  <1>1. \A x, y, z \in AnswerSteps :
           /\ <<x, y>> \in Seq(AnswerSteps) /\ Len(<<x, y>>) = 2 /\ <<x, y>>[2] = y /\ <<x, y>> # <<>>
           /\ <<x, y, z>> \in Seq(AnswerSteps) /\ Len(<<x, y, z>>) = 3 /\ <<x, y, z>>[3] = z /\ <<x, y, z>> # <<>>
    OBVIOUS
  <1>2. \A x, y \in AnswerSteps : <<x, "stream">> \in StepsLeft /\ <<x, y, "stream">> \in StepsLeft
    BY <1>1 DEF StepsLeft, AnswerSteps
  <1>3. CASE ui \in {"tui", "legacy"}
    BY <1>2, <1>3 DEF StepsOf, AnswerSteps
  <1>4. CASE ui = "once"
    BY <1>2, <1>4 DEF StepsOf, AnswerSteps
  <1>5. CASE ui = "batch"
    BY <1>2, <1>5 DEF StepsOf, AnswerSteps
  <1>6. QED
    BY <1>3, <1>4, <1>5 DEF Interfaces

(* Every step keeps the invariant.                                         *)
LEMMA BardStepInv == BardInv /\ [BardNext]_bardVars => BardInv'
  <1> SUFFICES ASSUME BardInv, [BardNext]_bardVars PROVE BardInv'
    OBVIOUS
  <1>0. /\ BardTypes /\ AnswersAwaited /\ AnswersFollowQuestions /\ chat \in [Chats -> BardStates]
        /\ \A c \in Chats : chat[c] \in BardStates /\ Cardinality(chat[c].context) <= MaxHistory
        /\ asked \in 0..MaxTurns
    BY DEF BardInv, BardTypes
  <1>a. ASSUME NEW c \in Chats, chat[c].pending = {} PROVE \A r, s \in chat[c].pending : r = s
    BY <1>a
  <1>1. ASSUME NEW c \in Chats, NEW ui \in Interfaces, OpenChat(c, ui) PROVE BardInv'
    <2> DEFINE context == IF ui \in {"tui", "legacy"} THEN LoadHistory ELSE {}
               b == [chat[c] EXCEPT !.ui = ui, !.context = context]
    <2>1. chat' = [chat EXCEPT ![c] = b] /\ chat[c].ui = "closed" /\ UNCHANGED <<history, toolDefs, disturbed, losses, asked>>
      BY <1>1 DEF OpenChat
    <2>2. context \in SUBSET (Nat \X HistoryEntry) /\ Cardinality(context) <= MaxHistory
      <3>1. LoadAllEntries \in SUBSET DOMAIN history
        BY DEF LoadAllEntries
      <3>2. QED
        BY <1>0, <3>1, ReadTyped, FS_EmptySet, BardConstants DEF LoadHistory
    <2> HIDE DEF context
    <2>3. b \in BardStates /\ b.busy = chat[c].busy /\ b.pending = chat[c].pending /\ b.context = context
      BY <1>0, <2>2 DEF BardStates
    <2> HIDE DEF b
    <2>4. b.pending = {}
      BY <1>0, <2>1, <2>3 DEF AnswersAwaited, Interfaces
    <2>5. QED
      BY <1>0, <2>1, <2>2, <2>3, <2>4, ChatMoves
  <1>2. ASSUME NEW c \in Chats, Ask(c) PROVE BardInv'
    <2>a. PICK turn \in Turns : turn = asked + 1
      <3>1. asked < MaxTurns
        BY <1>2 DEF Ask, SendQuestion
      <3>2. QED
        BY <1>0, <3>1, BardConstants DEF Turns
    <2> DEFINE r == [turn |-> turn, steps |-> StepsOf(chat[c].ui)]
               b == [chat[c] EXCEPT !.busy = TRUE, !.pending = {r}]
    <2>1. chat[c].ui \in Interfaces /\ ~chat[c].busy /\ asked < MaxTurns /\ asked' = turn /\ UNCHANGED toolDefs
      BY <1>2, <2>a DEF Ask, SendQuestion
    <2>2. chat[c].pending = {}
      BY <1>0, <2>1 DEF AnswersAwaited
    <2>3. chat' = [chat EXCEPT ![c] = b]
      BY <1>2, <2>1, <2>2 DEF Ask, SendQuestion
    <2>4. turn \in Turns /\ asked' \in 0..MaxTurns
      BY <1>0, <2>1, <2>a, BardConstants DEF Turns
    <2>5. StepsOf(chat[c].ui) \in StepsLeft
      BY <2>1, StepsOfLeft
    <2>6. r \in PendingAnswer /\ r.turn = turn /\ r.steps = StepsOf(chat[c].ui)
      BY <2>4, <2>5, StepsLeftTyped DEF PendingAnswer
    <2> HIDE DEF r
    <2>7. b \in BardStates /\ b.busy = TRUE /\ b.ui = chat[c].ui /\ b.pending = {r} /\ b.context = chat[c].context
      BY <1>0, <2>6 DEF BardStates
    <2> HIDE DEF b
    <2>8. CASE chat[c].ui \notin {"tui", "legacy"}
      <3>1. UNCHANGED <<history, disturbed, losses>>
        BY <1>2, <2>8 DEF Ask, SendQuestion
      <3>2. QED
        BY <1>0, <2>1, <2>3, <2>4, <2>5, <2>6, <2>7, <2>8, <3>1, ChatMoves
    <2>9. CASE chat[c].ui \in {"tui", "legacy"}
      <3>1. SaveMessage(c, "user", turn, FALSE)
        BY <1>2, <2>1, <2>9 DEF Ask, SendQuestion
      <3>2. /\ history' \in Seq(HistoryEntry) /\ disturbed' \in SUBSET Chats /\ losses' \in 0..MaxLosses
            /\ AnswersFollowQuestions' /\ disturbed \subseteq disturbed'
            /\ \A d \in Chats, t \in Turns : d # c /\ LastIsQuestion(d, t) => LastIsQuestion(d, t)'
            /\ c \notin disturbed' => LastIsQuestion(c, turn)'
        <4>1. PICK role \in {"user", "assistant"}, long \in BOOLEAN : role = "user" /\ SaveMessage(c, role, turn, long)
          BY <3>1
        <4>2. QED
          BY <1>0, <2>4, <4>1, SaveKeeps
      <3>3. chat' \in [Chats -> BardStates] /\ chat'[c] = b /\ \A d \in Chats : d # c => chat'[d] = chat[d]
        BY <1>0, <2>3, <2>7
      <3>4. BardTypes'
        BY <1>0, <2>1, <2>4, <2>7, <3>2, <3>3 DEF BardTypes
      <3>5. ASSUME NEW d \in Chats
            PROVE  /\ (~chat[d].busy \/ chat[d].ui \notin Interfaces => chat[d].pending = {})'
                   /\ (\A x, y \in chat[d].pending : x = y)'
                   /\ \A x \in chat'[d].pending :
                        /\ x.steps \in StepsLeft
                        /\ chat'[d].ui \in {"tui", "legacy"} /\ d \notin disturbed' => LastIsQuestion(d, x.turn)'
        <4>1. CASE d = c
          <5>1. chat'[d].pending = {r} /\ chat'[d].busy = TRUE /\ chat'[d].ui \in Interfaces
            BY <2>1, <2>7, <3>3, <4>1
          <5>2. ASSUME NEW x \in {r} PROVE x.steps \in StepsLeft /\ (d \notin disturbed' => LastIsQuestion(d, x.turn)')
            BY <2>5, <2>6, <3>2, <4>1
          <5>3. QED
            BY <5>1, <5>2
        <4>2. CASE d # c
          <5>1. \A x \in chat[d].pending : x.turn \in Turns
            BY <1>0 DEF BardStates, PendingAnswer
          <5>2. QED
            BY <1>0, <3>2, <3>3, <4>2, <5>1 DEF AnswersAwaited
        <4>3. QED
          BY <4>1, <4>2
      <3>6. AnswersAwaited'
        BY <3>5 DEF AnswersAwaited
      <3>7. QED
        BY <3>2, <3>4, <3>6 DEF BardInv
    <2>10. QED
      BY <2>8, <2>9
  <1>3. ASSUME NEW c \in Chats, NEW r \in chat[c].pending, NEW steps \in StepsLeft, GoOn(c, r, steps) PROVE BardInv'
    <2> DEFINE q == [r EXCEPT !.steps = steps]
               b == [chat[c] EXCEPT !.pending = (chat[c].pending \ {r}) \union {q}]
    <2>1. chat' = [chat EXCEPT ![c] = b] /\ UNCHANGED <<history, toolDefs, disturbed, losses, asked>>
      BY <1>3 DEF GoOn
    <2>2. chat[c].pending = {r} /\ r \in PendingAnswer /\ chat[c].busy /\ chat[c].ui \in Interfaces
      BY <1>0 DEF AnswersAwaited, BardStates
    <2>3. q \in PendingAnswer /\ q.turn = r.turn /\ q.steps = steps
      BY <2>2, StepsLeftTyped DEF PendingAnswer
    <2> HIDE DEF q
    <2>4. /\ b \in BardStates /\ b.busy = chat[c].busy /\ b.ui = chat[c].ui /\ b.pending = {q}
          /\ b.context = chat[c].context
      BY <1>0, <2>2, <2>3 DEF BardStates
    <2> HIDE DEF b
    <2>5. chat[c].ui \in {"tui", "legacy"} /\ c \notin disturbed => LastIsQuestion(c, r.turn)
      BY <1>0 DEF AnswersAwaited
    <2>6. \A x \in b.pending : x = q
      BY <2>4
    <2>7. QED
      BY <1>0, <2>1, <2>2, <2>3, <2>4, <2>5, <2>6, ChatMoves
  <1>4. ASSUME NEW c \in Chats, NEW r \in chat[c].pending, SearchDocuments(c, r) \/ ClassifyIntent(c, r) \/ ExecuteTool(c, r)
        PROVE  BardInv'
    <2>1. r.steps \in StepsLeft
      BY <1>0 DEF AnswersAwaited
    <2>2. /\ Head(r.steps) \in {"search", "classify", "tool"}
          /\ \/ GoOn(c, r, Tail(r.steps))
             \/ GoOn(c, r, <<"tool">> \o Tail(r.steps))
      BY <1>4 DEF SearchDocuments, ClassifyIntent, ExecuteTool
    <2>3. QED
      BY <1>3, <2>1, <2>2, TailsLeft
  <1>5. ASSUME NEW c \in Chats, NEW r \in chat[c].pending, Answer(c, r) PROVE BardInv'
    <2> DEFINE b == [chat[c] EXCEPT !.pending = chat[c].pending \ {r}, !.busy = FALSE]
    <2>1. chat' = [chat EXCEPT ![c] = b] /\ UNCHANGED <<toolDefs, asked>>
      BY <1>5 DEF Answer
    <2>2. chat[c].pending = {r} /\ r \in PendingAnswer
      BY <1>0 DEF AnswersAwaited, BardStates
    <2>3. b \in BardStates /\ b.busy = FALSE /\ b.ui = chat[c].ui /\ b.pending = {} /\ b.context = chat[c].context
      BY <1>0, <2>2 DEF BardStates
    <2> HIDE DEF b
    <2>4. CASE UNCHANGED <<history, disturbed, losses>>
      BY <1>0, <2>1, <2>3, <2>4, ChatMoves
    <2>5. ASSUME chat[c].ui \in {"tui", "legacy"}, NEW long \in BOOLEAN, SaveMessage(c, "assistant", r.turn, long)
          PROVE  BardInv'
      <3>1. r.turn \in Turns /\ (c \notin disturbed => LastIsQuestion(c, r.turn))
        BY <1>0, <2>2, <2>5 DEF PendingAnswer, AnswersAwaited
      <3>2. /\ history' \in Seq(HistoryEntry) /\ disturbed' \in SUBSET Chats /\ losses' \in 0..MaxLosses
            /\ AnswersFollowQuestions' /\ disturbed \subseteq disturbed'
            /\ \A d \in Chats, t \in Turns : d # c /\ LastIsQuestion(d, t) => LastIsQuestion(d, t)'
        BY <1>0, <2>5, <3>1, SaveKeeps
      <3>3. chat' \in [Chats -> BardStates] /\ chat'[c] = b /\ \A d \in Chats : d # c => chat'[d] = chat[d]
        BY <1>0, <2>1, <2>3
      <3>4. BardTypes'
        BY <1>0, <2>1, <2>3, <3>2, <3>3 DEF BardTypes
      <3>5. ASSUME NEW d \in Chats
            PROVE  /\ (~chat[d].busy \/ chat[d].ui \notin Interfaces => chat[d].pending = {})'
                   /\ (\A x, y \in chat[d].pending : x = y)'
                   /\ \A x \in chat'[d].pending :
                        /\ x.steps \in StepsLeft
                        /\ chat'[d].ui \in {"tui", "legacy"} /\ d \notin disturbed' => LastIsQuestion(d, x.turn)'
        <4>1. CASE d = c
          BY <2>3, <3>3, <4>1
        <4>2. CASE d # c
          <5>1. \A x \in chat[d].pending : x.turn \in Turns
            BY <1>0 DEF BardStates, PendingAnswer
          <5>2. QED
            BY <1>0, <3>2, <3>3, <4>2, <5>1 DEF AnswersAwaited
        <4>3. QED
          BY <4>1, <4>2
      <3>6. AnswersAwaited'
        BY <3>5 DEF AnswersAwaited
      <3>7. QED
        BY <3>2, <3>4, <3>6 DEF BardInv
    <2>6. QED
      BY <1>5, <2>4, <2>5 DEF Answer
  <1>6. ASSUME NEW c \in Chats, ClearHistory(c) PROVE BardInv'
    <2>1. history' = <<>> /\ disturbed' = Chats /\ UNCHANGED <<chat, toolDefs, losses, asked>>
      BY <1>6 DEF ClearHistory
    <2>2. BardTypes'
      BY <1>0, <2>1 DEF BardTypes
    <2>3. AnswersAwaited'
      BY <1>0, <2>1 DEF AnswersAwaited
    <2>4. AnswersFollowQuestions'
      BY <2>1 DEF AnswersFollowQuestions
    <2>5. QED
      BY <2>2, <2>3, <2>4 DEF BardInv
  <1>7. ASSUME NEW c \in Chats, NEW session \in Chats, LoadSession(c, session) PROVE BardInv'
    <2> DEFINE context == LoadSessionHistory(session)
               b == [chat[c] EXCEPT !.context = context]
    <2>1. chat' = [chat EXCEPT ![c] = b] /\ UNCHANGED <<history, toolDefs, disturbed, losses, asked>>
      BY <1>7 DEF LoadSession
    <2>2. context \in SUBSET (Nat \X HistoryEntry) /\ Cardinality(context) <= MaxHistory
      <3>1. {i \in LoadAllEntries : history[i].session = session} \in SUBSET DOMAIN history
        BY DEF LoadAllEntries
      <3>2. QED
        BY <1>0, <3>1, ReadTyped DEF LoadSessionHistory
    <2> HIDE DEF context
    <2>3. /\ b \in BardStates /\ b.busy = chat[c].busy /\ b.ui = chat[c].ui /\ b.pending = chat[c].pending
          /\ b.context = context
      BY <1>0, <2>2 DEF BardStates
    <2> HIDE DEF b
    <2>4. /\ ~b.busy \/ b.ui \notin Interfaces => b.pending = {}
          /\ \A r, s \in b.pending : r = s
          /\ \A r \in b.pending : /\ r.steps \in StepsLeft
                                  /\ b.ui \in {"tui", "legacy"} /\ c \notin disturbed => LastIsQuestion(c, r.turn)
      BY <1>0, <2>3 DEF AnswersAwaited
    <2>5. QED
      BY <1>0, <2>1, <2>2, <2>3, <2>4, ChatMoves
  <1>8. ASSUME NEW c \in Chats, QuitChat(c) PROVE BardInv'
    <2> DEFINE b == [ClosedChat EXCEPT !.ui = "left"]
    <2>1. chat' = [chat EXCEPT ![c] = b] /\ UNCHANGED <<history, toolDefs, disturbed, losses, asked>>
      BY <1>8 DEF QuitChat
    <2>2. b \in BardStates /\ b.pending = {} /\ b.context = {}
      BY DEF ClosedChat, BardStates
    <2> HIDE DEF b
    <2>3. Cardinality(b.context) <= MaxHistory
      BY <2>2, FS_EmptySet, BardConstants
    <2>4. QED
      BY <1>0, <2>1, <2>2, <2>3, ChatMoves
  <1>9. CASE UNCHANGED bardVars
    BY <1>9 DEF bardVars, BardInv, BardTypes, AnswersAwaited, AnswersFollowQuestions, LastIsQuestion
  <1>10. QED
    BY <1>1, <1>2, <1>4, <1>5, <1>6, <1>7, <1>8, <1>9 DEF BardNext

(* The types of the bard.                                                  *)
THEOREM BardTyped == BardSpec => []BardTypeOK
  <1>1. BardInv => BardTypeOK
    BY DEF BardInv, BardTypes, BardTypeOK, BardStates
  <1>2. QED
    BY <1>1, BardInitInv, BardStepInv, PTL DEF BardSpec

(* An answer in the file follows its question.                             *)
THEOREM AnswersInOrder == BardSpec => []AnswersFollowQuestions
  <1>1. BardInv => AnswersFollowQuestions
    BY DEF BardInv
  <1>2. QED
    BY <1>1, BardInitInv, BardStepInv, PTL DEF BardSpec

-----------------------------------------------------------------------------
(* The scan of the sentinel.                                               *)

(* The first of some checks is one of them.                                *)
LEMMA ForemostIsOne ==
    ASSUME NEW ids \in SUBSET CheckIDs, ids # {}
    PROVE  Foremost(ids) \in ids
  <1> DEFINE T == {Rank(check) : check \in ids}
  <1>1. \A check \in CheckIDs : Rank(check) \in DOMAIN CheckOrder
    BY DEF CheckIDs, Rank
  <1>2. DOMAIN CheckOrder \subseteq Nat
    BY DEF CheckOrder
  <1>3. T \in SUBSET Nat /\ T # {}
    BY <1>1, <1>2
  <1>4. PICK m \in T : \A n \in T : m <= n
    BY <1>3, LeastNumber
  <1>5. PICK check \in ids : m = Rank(check)
    OBVIOUS
  <1>6. \A other \in ids : Rank(check) <= Rank(other)
    BY <1>4, <1>5
  <1>7. QED
    BY <1>5, <1>6 DEF Foremost

Fixable == {"POD_ROOT_CONTAINER", "POD_RESOURCE_LIMITS", "POD_PRIVILEGED", "POD_PRIVILEGE_ESCALATION",
            "POD_READONLY_ROOTFS", "POD_SERVICE_ACCOUNT_TOKEN", "POD_CAPABILITIES"}

(* The checks that a patch is for are among the checks.                    *)
LEMMA FixableChecks == Fixable \subseteq CheckIDs
  <1>1. CheckOrder[13] = "POD_ROOT_CONTAINER" /\ CheckOrder[8] = "POD_RESOURCE_LIMITS" /\ CheckOrder[10] = "POD_PRIVILEGED"
        /\ CheckOrder[9] = "POD_PRIVILEGE_ESCALATION" /\ CheckOrder[12] = "POD_READONLY_ROOTFS"
        /\ CheckOrder[16] = "POD_SERVICE_ACCOUNT_TOKEN" /\ CheckOrder[5] = "POD_CAPABILITIES"
        /\ DOMAIN CheckOrder = 1..19
    BY DEF CheckOrder
  <1>2. QED
    BY <1>1 DEF Fixable, CheckIDs

-----------------------------------------------------------------------------
(* What the checks report.                                                 *)

PodPlaces == Pods \X PodParts
FindingPlaces == PodPlaces \union ({"namespace"} \X {"ingress", "egress", "workloads"})
                   \union ({"ClusterRoleBinding", "ClusterRole", "Role"} \X GrantNames)
Findings == [check : CheckIDs, at : FindingPlaces, critical : BOOLEAN]

(* A finding of a part of a pod.                                           *)
LEMMA ReportTyped ==
    ASSUME NEW check, NEW places \in SUBSET PodPlaces, NEW critical \in BOOLEAN, NEW f \in Report(check, places, critical)
    PROVE  f.check = check /\ f.at \in places /\ f.critical = critical /\ f = FindingOf(check, f.at, critical)
  BY DEF Report, FindingOf

(* The parts of pods that a check looks at are parts of pods.              *)
LEMMA PlacesOfPods ==
    ASSUME NEW which \in SUBSET PodParts
    PROVE  /\ PartsOf(which) \subseteq PodPlaces
           /\ \A trait : WithTrait(which, trait) \subseteq PodPlaces /\ WithoutTrait(which, trait) \subseteq PodPlaces
  BY DEF PartsOf, Existing, PodPlaces, WithTrait, WithoutTrait

(* The checks of pods report parts of pods, each under its own ID.         *)
PodFindings(check) == [check : {check}, at : PodPlaces, critical : BOOLEAN]

(* A report about them is one of findings of parts of pods.                *)
LEMMA ReportsOfPods ==
    ASSUME NEW check, NEW places \in SUBSET PodPlaces, NEW critical \in BOOLEAN
    PROVE  Report(check, places, critical) \subseteq PodFindings(check)
  BY DEF Report, FindingOf, PodFindings

(* So is what each check of pods finds.                                    *)
LEMMA PodChecksReportPods ==
    /\ LatestTag \subseteq PodFindings("IMAGE_LATEST_TAG")
    /\ ImageSignature \subseteq PodFindings("IMAGE_SIGNATURE")
    /\ NetpolCoverage \subseteq PodFindings("NETPOL_COVERAGE")
    /\ HostNamespaces \subseteq PodFindings("POD_HOST_NAMESPACES")
    /\ HostPorts \subseteq PodFindings("POD_HOST_PORTS")
    /\ ResourceLimits \subseteq PodFindings("POD_RESOURCE_LIMITS")
    /\ PrivilegeEscalation \subseteq PodFindings("POD_PRIVILEGE_ESCALATION")
    /\ Privileged \subseteq PodFindings("POD_PRIVILEGED")
    /\ ImagePullPolicy \subseteq PodFindings("POD_IMAGE_PULL_POLICY")
    /\ ReadOnlyRootfs \subseteq PodFindings("POD_READONLY_ROOTFS")
    /\ Seccomp \subseteq PodFindings("POD_SECCOMP")
    /\ ExposedSecrets \subseteq PodFindings("POD_EXPOSED_SECRETS")
    /\ ServiceAccountToken \subseteq PodFindings("POD_SERVICE_ACCOUNT_TOKEN")
    /\ Capabilities \subseteq PodFindings("POD_CAPABILITIES")
    /\ RootContainer \subseteq PodFindings("POD_ROOT_CONTAINER")
  <1>1. {"pod"} \in SUBSET PodParts /\ {"main"} \in SUBSET PodParts /\ Containers \in SUBSET PodParts
    BY DEF PodParts, Containers
  <1>2. LatestTag \subseteq PodFindings("IMAGE_LATEST_TAG")
    BY <1>1, PlacesOfPods, ReportsOfPods DEF LatestTag
  <1>3. ImageSignature \subseteq PodFindings("IMAGE_SIGNATURE")
    BY <1>1, PlacesOfPods, ReportsOfPods DEF ImageSignature
  <1>4. NetpolCoverage \subseteq PodFindings("NETPOL_COVERAGE")
    BY <1>1, PlacesOfPods, ReportsOfPods DEF NetpolCoverage
  <1>5. HostNamespaces \subseteq PodFindings("POD_HOST_NAMESPACES")
    <2>1. UNION {WithTrait({"pod"}, t) : t \in {"hostPID", "hostIPC", "hostNetwork"}} \subseteq PodPlaces
      BY <1>1, PlacesOfPods
    <2>2. QED
      BY <2>1, ReportsOfPods DEF HostNamespaces
  <1>6. HostPorts \subseteq PodFindings("POD_HOST_PORTS")
    BY <1>1, PlacesOfPods, ReportsOfPods DEF HostPorts
  <1>7. ResourceLimits \subseteq PodFindings("POD_RESOURCE_LIMITS")
    BY <1>1, PlacesOfPods, ReportsOfPods DEF ResourceLimits
  <1>8. PrivilegeEscalation \subseteq PodFindings("POD_PRIVILEGE_ESCALATION")
    BY <1>1, PlacesOfPods, ReportsOfPods DEF PrivilegeEscalation
  <1>9. Privileged \subseteq PodFindings("POD_PRIVILEGED")
    BY <1>1, PlacesOfPods, ReportsOfPods DEF Privileged
  <1>10. ImagePullPolicy \subseteq PodFindings("POD_IMAGE_PULL_POLICY")
    BY <1>1, PlacesOfPods, ReportsOfPods DEF ImagePullPolicy
  <1>11. ReadOnlyRootfs \subseteq PodFindings("POD_READONLY_ROOTFS")
    BY <1>1, PlacesOfPods, ReportsOfPods DEF ReadOnlyRootfs
  <1>12. Seccomp \subseteq PodFindings("POD_SECCOMP")
    BY <1>1, PlacesOfPods, ReportsOfPods DEF Seccomp
  <1>13. ExposedSecrets \subseteq PodFindings("POD_EXPOSED_SECRETS")
    BY <1>1, PlacesOfPods, ReportsOfPods DEF ExposedSecrets
  <1>14. ServiceAccountToken \subseteq PodFindings("POD_SERVICE_ACCOUNT_TOKEN")
    BY <1>1, PlacesOfPods, ReportsOfPods DEF ServiceAccountToken
  <1>15. Capabilities \subseteq PodFindings("POD_CAPABILITIES")
    <2>1. /\ Report("POD_CAPABILITIES", WithTrait(Containers, "sysAdmin"), TRUE) \subseteq PodFindings("POD_CAPABILITIES")
          /\ Report("POD_CAPABILITIES", WithoutTrait(Containers, "dropsAll"), FALSE) \subseteq PodFindings("POD_CAPABILITIES")
      BY <1>1, PlacesOfPods, ReportsOfPods
    <2>2. QED
      BY <2>1 DEF Capabilities
  <1>16. RootContainer \subseteq PodFindings("POD_ROOT_CONTAINER")
    <2>1. Report("POD_ROOT_CONTAINER", WithTrait({"main"}, "uidRoot"), TRUE) \subseteq PodFindings("POD_ROOT_CONTAINER")
      BY <1>1, PlacesOfPods, ReportsOfPods
    <2>2. {at \in PartsOf({"main"}) : TraitsAt(at) \cap {"nonRoot", "uidRoot", "uidOther"} = {}} \in SUBSET PodPlaces
      BY <1>1, PlacesOfPods
    <2>3. Report("POD_ROOT_CONTAINER", {at \in PartsOf({"main"}) : TraitsAt(at) \cap {"nonRoot", "uidRoot", "uidOther"} = {}}, FALSE)
            \subseteq PodFindings("POD_ROOT_CONTAINER")
      BY <2>2, ReportsOfPods
    <2>4. QED
      BY <2>1, <2>3 DEF RootContainer
  <1>17. QED
    BY <1>2, <1>3, <1>4, <1>5, <1>6, <1>7, <1>8, <1>9, <1>10, <1>11, <1>12, <1>13, <1>14, <1>15, <1>16

(* The other checks report directions and RBAC objects, which no patch is  *)
(* for.                                                                    *)
NoPatch(findings) == \A f \in findings : f \in AllFindings /\ ~HasPatch(f)

(* Other findings have no patch.                                           *)
LEMMA OtherPlaces ==
    ASSUME NEW f, f.check \notin Fixable
    PROVE  ~HasPatch(f)
  BY DEF HasPatch, Fixable

ReportIDs == CheckIDs \union {"opa/rbac_cluster_admin", "opa/rbac_secrets_access", "opa/rbac_wildcard",
                              "opa/netpol_default_deny", "polaris/check"}

(* No patch is for a report about grants,                                  *)
LEMMA GrantsReported ==
    ASSUME rbac \subseteq Grants, NEW grants \in SUBSET rbac, NEW check \in ReportIDs \ Fixable
    PROVE  NoPatch(ReportGrants(check, grants))
  <1>1. SUFFICES ASSUME NEW f \in ReportGrants(check, grants) PROVE f \in AllFindings /\ ~HasPatch(f)
    BY DEF NoPatch
  <1>2. PICK g \in grants : f = FindingOf(check, <<g.kind, g.name>>, FALSE)
    BY DEF ReportGrants
  <1>3. g.kind \in {"ClusterRoleBinding", "ClusterRole", "Role"} /\ g.name \in GrantNames
    BY SentinelConstants DEF SentinelConstants, Grant
  <1>4. f = [check |-> check, at |-> <<g.kind, g.name>>, critical |-> FALSE]
    BY <1>2 DEF FindingOf
  <1>5. f.check = check /\ f \in AllFindings
    BY <1>3, <1>4 DEF AllFindings, ReportIDs
  <1>6. QED
    BY <1>5, OtherPlaces

(* nor for one about directions of traffic.                                *)
LEMMA DirectionsReported ==
    ASSUME NEW check \in ReportIDs \ Fixable
    PROVE  NoPatch(Report(check, {<<"namespace", d>> : d \in {"ingress", "egress"} \ denies}, FALSE))
  <1>1. SUFFICES ASSUME NEW f \in Report(check, {<<"namespace", d>> : d \in {"ingress", "egress"} \ denies}, FALSE)
                 PROVE  f \in AllFindings /\ ~HasPatch(f)
    BY DEF NoPatch
  <1>2. PICK d \in {"ingress", "egress"} : f = FindingOf(check, <<"namespace", d>>, FALSE)
    BY DEF Report
  <1>3. f = [check |-> check, at |-> <<"namespace", d>>, critical |-> FALSE]
    BY <1>2 DEF FindingOf
  <1>4. f.check = check /\ f \in AllFindings
    BY <1>3 DEF AllFindings, ReportIDs
  <1>5. QED
    BY <1>4, OtherPlaces

(* Whatever a check finds is typed, and what a patch is for is a part of a *)
(* pod.                                                                    *)
FoundOK(findings) == \A f \in findings : f \in AllFindings /\ (HasPatch(f) => f.at \in PodPlaces)

(* Findings of parts of pods are well formed,                              *)
LEMMA PodFindingsOK ==
    ASSUME NEW check \in CheckIDs, NEW findings \in SUBSET PodFindings(check)
    PROVE  FoundOK(findings)
  BY DEF FoundOK, PodFindings, AllFindings, PodPlaces

(* and so are findings without a patch.                                    *)
LEMMA OtherFindingsOK ==
    ASSUME NEW findings, NoPatch(findings)
    PROVE  FoundOK(findings)
  BY DEF FoundOK, NoPatch

(* What any check finds is well formed,                                    *)
LEMMA ChecksFind ==
    ASSUME rbac \subseteq Grants, NEW check \in CheckIDs
    PROVE  FoundOK(Finds(check))
  <1>1. ASSUME check \in {"RBAC_CLUSTER_ADMIN", "RBAC_SECRETS_ACCESS", "RBAC_WILDCARD"} PROVE FoundOK(Finds(check))
    <2>1. check \in ReportIDs \ Fixable
      BY <1>1 DEF ReportIDs, Fixable
    <2>2. CASE check = "RBAC_CLUSTER_ADMIN"
      <3>1. Finds(check) = ClusterAdmin
        BY <2>2 DEF Finds
      <3>2. NoPatch(ClusterAdmin)
        BY <2>1, <2>2, GrantsReported DEF ClusterAdmin, GrantsWith
      <3>3. QED
        BY <3>1, <3>2, OtherFindingsOK
    <2>3. CASE check = "RBAC_SECRETS_ACCESS"
      <3>1. Finds(check) = SecretsAccess
        BY <2>3 DEF Finds
      <3>2. NoPatch(SecretsAccess)
        BY <2>1, <2>3, GrantsReported DEF SecretsAccess, GrantsWith
      <3>3. QED
        BY <3>1, <3>2, OtherFindingsOK
    <2>4. CASE check = "RBAC_WILDCARD"
      <3>1. Finds(check) = WildcardRBAC
        BY <2>4 DEF Finds
      <3>2. NoPatch(WildcardRBAC)
        BY <2>1, <2>4, GrantsReported DEF WildcardRBAC, GrantsWith
      <3>3. QED
        BY <3>1, <3>2, OtherFindingsOK
    <2>5. QED
      BY <1>1, <2>2, <2>3, <2>4
  <1>2. ASSUME check = "NETPOL_DEFAULT_DENY" PROVE FoundOK(Finds(check))
    <2>1. check \in ReportIDs \ Fixable /\ Finds(check) = NetpolDefaultDeny
      BY <1>2 DEF ReportIDs, Fixable, Finds
    <2>2. NoPatch(NetpolDefaultDeny)
      BY <1>2, <2>1, DirectionsReported DEF NetpolDefaultDeny
    <2>3. QED
      BY <2>1, <2>2, OtherFindingsOK
  <1>3. ASSUME check \notin {"RBAC_CLUSTER_ADMIN", "RBAC_SECRETS_ACCESS", "RBAC_WILDCARD", "NETPOL_DEFAULT_DENY"}
        PROVE  FoundOK(Finds(check))
    <2>1. check \in {"IMAGE_LATEST_TAG", "IMAGE_SIGNATURE", "NETPOL_COVERAGE", "POD_CAPABILITIES", "POD_HOST_NAMESPACES",
                     "POD_HOST_PORTS", "POD_RESOURCE_LIMITS", "POD_PRIVILEGE_ESCALATION", "POD_PRIVILEGED",
                     "POD_IMAGE_PULL_POLICY", "POD_READONLY_ROOTFS", "POD_ROOT_CONTAINER", "POD_SECCOMP",
                     "POD_EXPOSED_SECRETS", "POD_SERVICE_ACCOUNT_TOKEN"}
      BY <1>3 DEF CheckIDs, CheckOrder
    <2>2. Finds(check) \subseteq PodFindings(check)
      BY <2>1, PodChecksReportPods DEF Finds
    <2>3. QED
      BY <2>2, PodFindingsOK
  <1>4. QED
    BY <1>1, <1>2, <1>3

(* what the policies find,                                                 *)
LEMMA PoliciesFind ==
    ASSUME rbac \subseteq Grants, NEW policies \in SUBSET OPAPolicies
    PROVE  FoundOK(UNION policies)
  <1>1. NoPatch(OPAClusterAdmin)
    <2>1. "opa/rbac_cluster_admin" \in ReportIDs \ Fixable
      BY DEF ReportIDs, Fixable
    <2>2. QED
      BY <2>1, GrantsReported DEF OPAClusterAdmin, GrantsWith
  <1>2. NoPatch(OPASecretsAccess)
    <2>1. "opa/rbac_secrets_access" \in ReportIDs \ Fixable
      BY DEF ReportIDs, Fixable
    <2>2. QED
      BY <2>1, GrantsReported DEF OPASecretsAccess, GrantsWith
  <1>3. NoPatch(OPAWildcard)
    <2>1. "opa/rbac_wildcard" \in ReportIDs \ Fixable
      BY DEF ReportIDs, Fixable
    <2>2. QED
      BY <2>1, GrantsReported DEF OPAWildcard, GrantsWith
  <1>4. NoPatch(OPADefaultDeny)
    <2>1. "opa/netpol_default_deny" \in ReportIDs \ Fixable
      BY DEF ReportIDs, Fixable
    <2>2. QED
      BY <2>1, DirectionsReported DEF OPADefaultDeny
  <1>5. \A policy \in OPAPolicies : NoPatch(policy)
    BY <1>1, <1>2, <1>3, <1>4 DEF OPAPolicies
  <1>6. QED
    BY <1>5 DEF FoundOK, NoPatch

(* and what Polaris finds.                                                 *)
LEMMA PolarisFinds == FoundOK({PolarisFinding})
  <1>1. PolarisFinding = [check |-> "polaris/check", at |-> <<"namespace", "workloads">>, critical |-> TRUE]
    BY DEF PolarisFinding, FindingOf
  <1>2. PolarisFinding.check \notin Fixable /\ PolarisFinding \in AllFindings
    BY <1>1 DEF AllFindings, Fixable
  <1>3. QED
    BY <1>2, OtherPlaces DEF FoundOK

-----------------------------------------------------------------------------
(* What a patch leaves behind, and what no later patch takes away.         *)

SettledIn(f, traits) ==
    CASE f.check = "POD_ROOT_CONTAINER" -> "nonRoot" \in traits
      [] f.check = "POD_RESOURCE_LIMITS" -> "limits" \in traits
      [] f.check = "POD_PRIVILEGED" -> "privileged" \notin traits
      [] f.check = "POD_PRIVILEGE_ESCALATION" -> "escalates" \notin traits
      [] f.check = "POD_READONLY_ROOTFS" -> "writableRoot" \notin traits
      [] f.check = "POD_CAPABILITIES" -> "dropsAll" \in traits
      [] f.check = "POD_SERVICE_ACCOUNT_TOKEN" -> "mountsToken" \notin traits

(* What has a patch is found by one of the fixable checks.                 *)
LEMMA PatchableChecks ==
    ASSUME NEW f, HasPatch(f)
    PROVE  f.check \in Fixable /\ (f.check = "POD_CAPABILITIES" => ~f.critical)
  BY DEF HasPatch, Fixable

(* A patch settles its own finding,                                        *)
LEMMA PatchSettles ==
    ASSUME NEW f, f.check \in Fixable, NEW traits
    PROVE  SettledIn(f, Patched(f, traits))
  BY DEF SettledIn, Patched, Fixable

(* and no patch unsettles another,                                         *)
LEMMA PatchKeepsSettled ==
    ASSUME NEW f, f.check \in Fixable, NEW g, g.check \in Fixable, NEW traits, SettledIn(f, traits)
    PROVE  SettledIn(f, Patched(g, traits))
  <1>1. Patched(g, traits) \in {traits \union {"nonRoot"}, traits \union {"limits"}, traits \ {"privileged"},
                                traits \ {"escalates"}, traits \ {"writableRoot"}, traits \union {"dropsAll"},
                                traits \ {"mountsToken"}}
    BY DEF Patched, Fixable
  <1>2. QED
    BY <1>1 DEF SettledIn, Fixable

(* and it leaves traits of a pod.                                          *)
LEMMA PatchTyped ==
    ASSUME NEW f, f.check \in Fixable, NEW traits \in SUBSET Traits
    PROVE  Patched(f, traits) \in SUBSET Traits
  BY DEF Patched, Fixable, Traits

(* A new scan does not find what is settled, unless it is the finding that *)
(* a container asks for user 0.                                            *)
LEMMA SettledIsNotFound ==
    ASSUME NEW f, HasPatch(f), SettledIn(f, TraitsAt(f.at)),
           ~(f.check = "POD_ROOT_CONTAINER" /\ f.critical)
    PROVE  f \notin Finds(f.check)
  <1>1. f.check \in Fixable /\ (f.check = "POD_CAPABILITIES" => ~f.critical)
    BY PatchableChecks
  <1>2. SUFFICES ASSUME f \in Finds(f.check) PROVE FALSE
    OBVIOUS
  <1>3. ASSUME NEW check, NEW places, NEW critical, f \in Report(check, places, critical)
        PROVE  f.at \in places /\ f.critical = critical
    BY <1>3 DEF Report, FindingOf
  <1>4. CASE f.check = "POD_ROOT_CONTAINER"
    <2>1. f \in RootContainer /\ "nonRoot" \in TraitsAt(f.at) /\ ~f.critical
      BY <1>2, <1>4 DEF Finds, SettledIn
    <2>2. f.at \in {at \in PartsOf({"main"}) : TraitsAt(at) \cap {"nonRoot", "uidRoot", "uidOther"} = {}}
      BY <1>3, <2>1 DEF RootContainer
    <2>3. QED
      BY <2>1, <2>2
  <1>5. CASE f.check = "POD_RESOURCE_LIMITS"
    BY <1>2, <1>3, <1>5 DEF Finds, SettledIn, ResourceLimits, WithoutTrait
  <1>6. CASE f.check = "POD_PRIVILEGED"
    BY <1>2, <1>3, <1>6 DEF Finds, SettledIn, Privileged, WithTrait
  <1>7. CASE f.check = "POD_PRIVILEGE_ESCALATION"
    BY <1>2, <1>3, <1>7 DEF Finds, SettledIn, PrivilegeEscalation, WithTrait
  <1>8. CASE f.check = "POD_READONLY_ROOTFS"
    BY <1>2, <1>3, <1>8 DEF Finds, SettledIn, ReadOnlyRootfs, WithTrait
  <1>9. CASE f.check = "POD_CAPABILITIES"
    <2>1. f \in Capabilities /\ "dropsAll" \in TraitsAt(f.at) /\ ~f.critical
      BY <1>1, <1>2, <1>9 DEF Finds, SettledIn
    <2>2. f.at \in WithoutTrait(Containers, "dropsAll")
      BY <1>3, <2>1 DEF Capabilities
    <2>3. QED
      BY <2>1, <2>2 DEF WithoutTrait
  <1>10. CASE f.check = "POD_SERVICE_ACCOUNT_TOKEN"
    BY <1>2, <1>3, <1>10 DEF Finds, SettledIn, ServiceAccountToken, WithTrait
  <1>11. QED
    BY <1>1, <1>4, <1>5, <1>6, <1>7, <1>8, <1>9, <1>10 DEF Fixable

-----------------------------------------------------------------------------

AppliedOK ==
    \A f \in scan.applied :
        /\ HasPatch(f) /\ f.at \in PodPlaces
        /\ \/ f.at[1] \in scan.edited
           \/ SettledIn(f, TraitsAt(f.at))

SentinelInv == SentinelTypeOK /\ FoundOK(scan.found) /\ AppliedOK

(* The invariant holds at first.                                           *)
LEMMA SentinelStarts == SentinelInit => SentinelInv
  <1> SUFFICES ASSUME SentinelInit PROVE SentinelInv
    OBVIOUS
  <1>1. scan = NotScanning
    BY DEF SentinelInit
  <1>2. pods \in [Pods -> [PodParts -> SUBSET Traits]]
    BY SentinelConstants DEF SentinelInit, SentinelConstants
  <1>3. /\ rbac \subseteq Grants /\ denies \subseteq {"ingress", "egress"}
        /\ edits \in 0..MaxEdits /\ apiErrors \in 0..MaxApiErrors
    BY SentinelConstants DEF SentinelInit, SentinelConstants
  <1>4. SentinelTypeOK
    BY <1>1, <1>2, <1>3 DEF SentinelTypeOK, NotScanning, Scans
  <1>5. QED
    BY <1>1, <1>4 DEF SentinelInv, FoundOK, AppliedOK, NotScanning

(* A step of the scan that leaves pods and patches alone.                  *)
LEMMA ScanMoves ==
    ASSUME SentinelInv, UNCHANGED <<pods, rbac, denies, edits>>,
           NEW moved, scan' = moved, FoundOK(moved.found),
           moved \in Scans,
           moved.applied = {} \/ (moved.applied = scan.applied /\ moved.edited = scan.edited),
           apiErrors' \in 0..MaxApiErrors
    PROVE  SentinelInv'
  <1>1. SentinelTypeOK'
    BY DEF SentinelInv, SentinelTypeOK
  <1>2. AppliedOK'
    BY DEF SentinelInv, AppliedOK, TraitsAt
  <1>3. QED
    BY <1>1, <1>2 DEF SentinelInv, FoundOK

(* The errors of the API stay within their bound.                          *)
LEMMA ApiErrorsTyped ==
    ASSUME SentinelTypeOK, NEW failed \in BOOLEAN, failed => apiErrors < MaxApiErrors
    PROVE  (IF failed THEN apiErrors + 1 ELSE apiErrors) \in 0..MaxApiErrors
  BY SentinelConstants DEF SentinelConstants, SentinelTypeOK

(* Findings are well formed together if they are so apart.                 *)
LEMMA FoundUnion ==
    ASSUME NEW a, NEW b, FoundOK(a), FoundOK(b)
    PROVE  FoundOK(a \union b) /\ a \union b \in SUBSET AllFindings
  BY DEF FoundOK

(* The scan and the choice of patches keep the invariant.                  *)
LEMMA ScanSteps ==
    ASSUME SentinelInv,
           \/ \E profile \in Profiles, fix \in BOOLEAN : StartScan(profile, fix)
           \/ RunPolaris \/ RunOPA \/ RunCheck \/ ChecksDone \/ PatchesDone
    PROVE  SentinelInv'
  <1>1. SentinelTypeOK /\ FoundOK(scan.found) /\ FoundOK({}) /\ apiErrors \in 0..MaxApiErrors
    BY DEF SentinelInv, SentinelTypeOK, FoundOK
  <1>2. ASSUME NEW profile \in Profiles, NEW fix \in BOOLEAN, StartScan(profile, fix) PROVE SentinelInv'
    <2> DEFINE moved == [NotScanning EXCEPT !.pc = "polaris", !.profile = profile, !.fix = fix]
    <2>1. profile \in SUBSET CheckIDs
      BY ProfilesOfChecks
    <2>2. /\ moved \in Scans
          /\ moved.found = {} /\ moved.applied = {}
      BY <2>1 DEF NotScanning, Scans
    <2>3. scan' = moved /\ UNCHANGED <<pods, rbac, denies, edits, apiErrors>>
      BY <1>2 DEF StartScan
    <2> HIDE DEF moved
    <2>4. QED
      BY <1>1, <2>2, <2>3, ScanMoves
  <1>3. CASE RunPolaris
    <2>1. PICK bf \in {{}, {PolarisFinding}} : scan' = [scan EXCEPT !.pc = "opa", !.found = bf]
      BY <1>3 DEF RunPolaris
    <2> DEFINE moved == [scan EXCEPT !.pc = "opa", !.found = bf]
    <2>2. FoundOK(bf) /\ bf \in SUBSET AllFindings
      BY <1>1, PolarisFinds DEF FoundOK
    <2>3. /\ moved \in Scans
          /\ moved.found = bf /\ moved.applied = scan.applied /\ moved.edited = scan.edited
      BY <1>1, <2>2 DEF SentinelTypeOK, Scans
    <2>4. UNCHANGED <<pods, rbac, denies, edits, apiErrors>>
      BY <1>3 DEF RunPolaris
    <2> HIDE DEF moved
    <2>5. QED
      BY <1>1, <2>1, <2>2, <2>3, <2>4, ScanMoves DEF moved
  <1>4. CASE RunOPA
    <2>1. PICK skipped \in SUBSET OPAPolicies :
            /\ skipped # {} => apiErrors < MaxApiErrors
            /\ apiErrors' = IF skipped = {} THEN apiErrors ELSE apiErrors + 1
            /\ scan' = IF scan.found \union UNION (OPAPolicies \ skipped) = {}
                       THEN [scan EXCEPT !.pc = "check", !.checks = scan.profile]
                       ELSE [scan EXCEPT !.pc = "patch", !.found = scan.found \union UNION (OPAPolicies \ skipped)]
      BY <1>4 DEF RunOPA
    <2> DEFINE found == scan.found \union UNION (OPAPolicies \ skipped)
    <2>2. FoundOK(found) /\ found \in SUBSET AllFindings
      BY <1>1, PoliciesFind, FoundUnion DEF SentinelTypeOK
    <2> HIDE DEF found
    <2>3. apiErrors' \in 0..MaxApiErrors
      BY <1>1, <2>1, SentinelConstants DEF SentinelConstants
    <2>4. UNCHANGED <<pods, rbac, denies, edits>>
      BY <1>4 DEF RunOPA
    <2> DEFINE none == [scan EXCEPT !.pc = "check", !.checks = scan.profile]
               some == [scan EXCEPT !.pc = "patch", !.found = found]
    <2>5. scan' = none \/ scan' = some
      BY <2>1 DEF found
    <2>6. /\ none \in Scans
          /\ none.found = scan.found /\ none.applied = scan.applied /\ none.edited = scan.edited
      BY <1>1 DEF SentinelTypeOK, Scans
    <2>7. /\ some \in Scans
          /\ some.found = found /\ some.applied = scan.applied /\ some.edited = scan.edited
      BY <1>1, <2>2 DEF SentinelTypeOK, Scans
    <2> HIDE DEF none, some
    <2>8. CASE scan' = none
      BY <1>1, <2>3, <2>4, <2>6, <2>8, ScanMoves
    <2>9. CASE scan' = some
      BY <2>2, <2>3, <2>4, <2>7, <2>9, ScanMoves
    <2>10. QED
      BY <2>5, <2>8, <2>9
  <1>5. CASE RunCheck
    <2> DEFINE check == Foremost(scan.checks)
    <2>1. check \in CheckIDs
      <3>1. scan.checks \in SUBSET CheckIDs
        BY <1>1 DEF SentinelTypeOK, Scans
      <3>2. scan.checks # {}
        BY <1>5 DEF RunCheck
      <3>3. QED
        BY <3>1, <3>2, ForemostIsOne
    <2>2. FoundOK(Finds(check))
      BY <1>1, <2>1, ChecksFind DEF SentinelTypeOK
    <2>3. PICK failed \in BOOLEAN :
            /\ failed => apiErrors < MaxApiErrors
            /\ apiErrors' = IF failed THEN apiErrors + 1 ELSE apiErrors
            /\ scan' = [scan EXCEPT !.checks = scan.checks \ {check},
                                    !.found = IF failed THEN scan.found ELSE scan.found \union Finds(check)]
      BY <1>5 DEF RunCheck
    <2> HIDE DEF check
    <2> DEFINE found == IF failed THEN scan.found ELSE scan.found \union Finds(check)
               moved == [scan EXCEPT !.checks = scan.checks \ {check}, !.found = found]
    <2>4. FoundOK(found) /\ found \in SUBSET AllFindings
      BY <1>1, <2>2, FoundUnion DEF SentinelTypeOK
    <2> HIDE DEF found
    <2>5. /\ moved \in Scans
          /\ moved.found = found /\ moved.applied = scan.applied /\ moved.edited = scan.edited
      BY <1>1, <2>4 DEF SentinelTypeOK, Scans
    <2>6. scan' = moved /\ UNCHANGED <<pods, rbac, denies, edits>>
      BY <1>5, <2>3 DEF RunCheck, found
    <2>7. apiErrors' \in 0..MaxApiErrors
      BY <1>1, <2>3, ApiErrorsTyped
    <2> HIDE DEF moved
    <2>8. QED
      BY <2>4, <2>5, <2>6, <2>7, ScanMoves
  <1>6. CASE ChecksDone
    <2> DEFINE moved == [scan EXCEPT !.pc = IF scan.found # {} THEN "patch" ELSE "done"]
    <2>1. /\ moved \in Scans
          /\ moved.found = scan.found /\ moved.applied = scan.applied /\ moved.edited = scan.edited
      BY <1>1 DEF SentinelTypeOK, Scans
    <2>2. scan' = moved /\ UNCHANGED <<pods, rbac, denies, edits, apiErrors>>
      BY <1>6 DEF ChecksDone
    <2> HIDE DEF moved
    <2>3. QED
      BY <1>1, <2>1, <2>2, ScanMoves
  <1>7. CASE PatchesDone
    <2> DEFINE moved == [scan EXCEPT !.pc = "done", !.found = {}]
    <2>1. /\ moved \in Scans
          /\ moved.found = {} /\ moved.applied = scan.applied /\ moved.edited = scan.edited
      BY <1>1 DEF SentinelTypeOK, Scans
    <2>2. scan' = moved /\ UNCHANGED <<pods, rbac, denies, edits, apiErrors>>
      BY <1>7 DEF PatchesDone
    <2> HIDE DEF moved
    <2>3. QED
      BY <1>1, <2>1, <2>2, ScanMoves
  <1>8. QED
    BY <1>2, <1>3, <1>4, <1>5, <1>6, <1>7

(* A patch settles its own finding and disturbs none that is settled.      *)
LEMMA PatchingKeeps ==
    ASSUME SentinelInv, ApplyPatch
    PROVE  SentinelInv'
  <1> DEFINE f == FirstPatch
  <1>1. /\ SentinelTypeOK /\ FoundOK(scan.found) /\ scan \in Scans /\ apiErrors \in 0..MaxApiErrors
        /\ pods \in [Pods -> [PodParts -> SUBSET Traits]]
    BY DEF SentinelInv, SentinelTypeOK
  <1>2. f \in Patches
    <2>1. Patches # {} /\ Patches \subseteq {g \in scan.found : HasPatch(g)}
      BY DEF ApplyPatch, Patches
    <2>2. {g.check : g \in Patches} \in SUBSET CheckIDs /\ {g.check : g \in Patches} # {}
      BY <2>1, PatchableChecks, FixableChecks
    <2>3. Foremost({g.check : g \in Patches}) \in {g.check : g \in Patches}
      BY <2>2, ForemostIsOne
    <2>4. \E g \in Patches : g.check = Foremost({h.check : h \in Patches})
      BY <2>3
    <2>5. QED
      BY <2>4 DEF FirstPatch
  <1>3. f \in scan.found /\ HasPatch(f) /\ f.at \in PodPlaces /\ f \in AllFindings /\ f.check \in Fixable
    BY <1>1, <1>2, PatchableChecks DEF Patches, FoundOK
  <1>4. \/ /\ pods' = [pods EXCEPT ![f.at[1]][f.at[2]] = Patched(f, TraitsAt(f.at))]
           /\ scan' = [scan EXCEPT !.found = scan.found \ {f}, !.applied = scan.applied \union {f}]
        \/ /\ scan' = [scan EXCEPT !.found = scan.found \ {f}]
           /\ UNCHANGED pods
    BY DEF ApplyPatch
  <1>5. UNCHANGED <<rbac, denies, edits, apiErrors>>
    BY DEF ApplyPatch
  <1> HIDE DEF f
  <1>6. CASE /\ scan' = [scan EXCEPT !.found = scan.found \ {f}]
             /\ UNCHANGED pods
    <2>1. scan' \in Scans /\ scan'.found \subseteq scan.found /\ scan'.applied = scan.applied /\ scan'.edited = scan.edited
      BY <1>1, <1>6 DEF Scans
    <2>2. SentinelTypeOK'
      BY <1>1, <1>5, <1>6, <2>1 DEF SentinelTypeOK
    <2>3. FoundOK(scan'.found)
      BY <1>1, <2>1 DEF FoundOK
    <2>4. AppliedOK'
      BY <1>6, <2>1 DEF SentinelInv, AppliedOK, TraitsAt
    <2>5. QED
      BY <2>2, <2>3, <2>4 DEF SentinelInv, FoundOK
  <1>7. CASE /\ pods' = [pods EXCEPT ![f.at[1]][f.at[2]] = Patched(f, TraitsAt(f.at))]
             /\ scan' = [scan EXCEPT !.found = scan.found \ {f}, !.applied = scan.applied \union {f}]
    <2> DEFINE traits == TraitsAt(f.at)
    <2>1. f.at[1] \in Pods /\ f.at[2] \in PodParts /\ f.at = <<f.at[1], f.at[2]>>
      BY <1>3 DEF PodPlaces
    <2>2. traits \in SUBSET Traits
      BY <1>1, <2>1 DEF TraitsAt
    <2>3. Patched(f, traits) \in SUBSET Traits
      BY <1>3, <2>2, PatchTyped
    <2>4. scan' \in Scans /\ scan'.found \subseteq scan.found /\ scan'.applied = scan.applied \union {f}
          /\ scan'.edited = scan.edited
      BY <1>1, <1>3, <1>7 DEF Scans
    <2> HIDE DEF traits
    <2>5. pods' \in [Pods -> [PodParts -> SUBSET Traits]]
      BY <1>1, <1>7, <2>1, <2>3 DEF traits
    <2>6. pods'[f.at[1]][f.at[2]] = Patched(f, traits)
      BY <1>1, <1>7, <2>1 DEF traits
    <2>7. ASSUME NEW at \in PodPlaces, at # f.at
          PROVE  pods'[at[1]][at[2]] = pods[at[1]][at[2]]
      <3>1. at[1] \in Pods /\ at[2] \in PodParts /\ at = <<at[1], at[2]>>
        BY DEF PodPlaces
      <3>2. at[1] # f.at[1] \/ at[2] # f.at[2]
        BY <2>1, <2>7, <3>1
      <3>3. QED
        BY <1>1, <1>7, <2>1, <3>1, <3>2
    <2>8. SentinelTypeOK'
      BY <1>1, <1>5, <1>7, <2>4, <2>5 DEF SentinelTypeOK
    <2>9. FoundOK(scan'.found)
      BY <1>1, <2>4 DEF FoundOK
    <2>10. ASSUME NEW g \in scan'.applied
           PROVE  /\ HasPatch(g) /\ g.at \in PodPlaces
                  /\ g.at[1] \in scan'.edited \/ SettledIn(g, pods'[g.at[1]][g.at[2]])
      <3>1. CASE g = f
        BY <1>3, <2>6, <3>1, PatchSettles
      <3>2. CASE g \in scan.applied
        <4>1. /\ HasPatch(g) /\ g.at \in PodPlaces
              /\ g.at[1] \in scan.edited \/ SettledIn(g, TraitsAt(g.at))
          BY <3>2 DEF SentinelInv, AppliedOK
        <4>2. CASE g.at[1] \in scan.edited
          BY <2>4, <4>1, <4>2
        <4>3. CASE SettledIn(g, TraitsAt(g.at)) /\ g.at = f.at
          <5>1. SettledIn(g, Patched(f, traits))
            BY <1>3, <4>1, <4>3, PatchableChecks, PatchKeepsSettled DEF traits
          <5>2. QED
            BY <2>6, <4>1, <4>3, <5>1
        <4>4. CASE SettledIn(g, TraitsAt(g.at)) /\ g.at # f.at
          BY <2>7, <4>1, <4>4 DEF TraitsAt
        <4>5. QED
          BY <4>1, <4>2, <4>3, <4>4
      <3>3. QED
        BY <2>4, <3>1, <3>2
    <2>11. AppliedOK'
      BY <2>10 DEF AppliedOK, TraitsAt
    <2>12. QED
      BY <2>8, <2>9, <2>11 DEF SentinelInv, FoundOK
  <1>8. QED
    BY <1>4, <1>6, <1>7

(* An edit takes the pod out of what the property is about.                *)
LEMMA EditKeeps ==
    ASSUME SentinelInv, NEW p \in Pods, NEW spec \in PodSpecs \union {NoPod}, EditPod(p, spec)
    PROVE  SentinelInv'
  <1>1. /\ SentinelTypeOK /\ FoundOK(scan.found) /\ scan \in Scans /\ edits \in 0..MaxEdits
        /\ pods \in [Pods -> [PodParts -> SUBSET Traits]]
    BY DEF SentinelInv, SentinelTypeOK
  <1>2. spec \in [PodParts -> SUBSET Traits]
    BY SentinelConstants DEF SentinelConstants, NoPod
  <1>3. /\ pods' = [pods EXCEPT ![p] = spec]
        /\ scan' = [scan EXCEPT !.edited = scan.edited \union {p}]
        /\ edits < MaxEdits /\ edits' = edits + 1 /\ UNCHANGED <<rbac, denies, apiErrors>>
    BY DEF EditPod
  <1>4. /\ scan' \in Scans /\ scan'.found = scan.found /\ scan'.applied = scan.applied
        /\ scan'.edited = scan.edited \union {p}
    BY <1>1, <1>3 DEF Scans
  <1>5. pods' \in [Pods -> [PodParts -> SUBSET Traits]] /\ \A q \in Pods \ {p} : pods'[q] = pods[q]
    BY <1>1, <1>2, <1>3
  <1>6. edits' \in 0..MaxEdits
    BY <1>1, <1>3, SentinelConstants DEF SentinelConstants
  <1>7. SentinelTypeOK'
    BY <1>1, <1>3, <1>4, <1>5, <1>6 DEF SentinelTypeOK
  <1>8. AppliedOK'
    <2>1. \A f \in scan'.applied : f.at \in PodPlaces
      BY <1>4 DEF SentinelInv, AppliedOK
    <2>2. \A f \in scan'.applied : f.at[1] \in Pods
      BY <2>1 DEF PodPlaces
    <2>3. QED
      BY <1>4, <1>5, <2>2 DEF SentinelInv, AppliedOK, TraitsAt
  <1>9. QED
    BY <1>1, <1>4, <1>7, <1>8 DEF SentinelInv, FoundOK

(* Every step keeps the invariant.                                         *)
LEMMA SentinelStep == SentinelInv /\ [SentinelNext]_sentinelVars => SentinelInv'
  <1> SUFFICES ASSUME SentinelInv, [SentinelNext]_sentinelVars PROVE SentinelInv'
    OBVIOUS
  <1>1. CASE UNCHANGED sentinelVars
    BY <1>1 DEF sentinelVars, SentinelInv, SentinelTypeOK, FoundOK, AppliedOK, TraitsAt
  <1>2. QED
    BY <1>1, ScanSteps, PatchingKeeps, EditKeeps DEF SentinelNext

(* The pods, the cluster and the scan keep their types (SentinelTypeOK).   *)
THEOREM SentinelTyped == SentinelSpec => []SentinelTypeOK
  <1>1. SentinelInv => SentinelTypeOK
    BY DEF SentinelInv
  <1>2. QED
    BY <1>1, SentinelStarts, SentinelStep, PTL DEF SentinelSpec

(* What --fix has patched, a new scan does not find again, whatever it     *)
(* patched after it (FixedFindingsGone).                                   *)
THEOREM FixesLast == SentinelSpec => []FixedFindingsGone
  <1>1. SentinelInv => FixedFindingsGone
    BY SettledIsNotFound DEF SentinelInv, AppliedOK, FixedFindingsGone
  <1>2. QED
    BY <1>1, SentinelStarts, SentinelStep, PTL DEF SentinelSpec

-----------------------------------------------------------------------------
(* The atlas.                                                              *)

-----------------------------------------------------------------------------
(* What is drawn.                                                          *)

Closed(d) == \A e \in d.edges : e.from \in d.nodes /\ e.to \in d.nodes

(* Whatever was found, no edge is drawn without its ends.                  *)
LEMMA DrawnClosed ==
    ASSUME NEW bp, NEW detail
    PROVE  Closed(GenerateInfraMermaid(bp, detail))
  <1> DEFINE shown == Shown(bp.resources, detail)
             kept  == {e \in bp.relations : e.from \in shown /\ e.to \in shown}
             connected == {e.from : e \in kept} \union {e.to : e \in kept}
             nodes == {infraNodeID(r) : r \in IF detail = "overview" THEN shown \cap connected ELSE shown}
             edges == {Edge(infraNodeID(e.from), infraNodeID(e.to), e.type) : e \in kept}
  <1>1. GenerateInfraMermaid(bp, detail) = [nodes |-> nodes, edges |-> edges]
    BY DEF GenerateInfraMermaid
  <1>2. ASSUME NEW e \in edges PROVE e.from \in nodes /\ e.to \in nodes
    <2>1. PICK k \in kept : e = Edge(infraNodeID(k.from), infraNodeID(k.to), k.type)
      OBVIOUS
    <2>2. k.from \in shown \cap connected /\ k.to \in shown \cap connected
      OBVIOUS
    <2>3. infraNodeID(k.from) \in nodes /\ infraNodeID(k.to) \in nodes
      BY <2>2
    <2>4. e.from = infraNodeID(k.from) /\ e.to = infraNodeID(k.to)
      BY <2>1 DEF Edge
    <2>5. QED
      BY <2>3, <2>4
  <1>3. QED
    BY <1>1, <1>2 DEF Closed

(* An edge between two resources of the overview is drawn.                 *)
LEMMA EdgeDrawn ==
    ASSUME NEW bp, NEW detail, NEW type, NEW a \in bp.resources, NEW b \in bp.resources,
           isValidMermaidResource(a), isValidMermaidResource(b),
           a.kind \in overviewKinds, b.kind \in overviewKinds, Edge(a, b, type) \in bp.relations
    PROVE  Edge(infraNodeID(a), infraNodeID(b), type) \in GenerateInfraMermaid(bp, detail).edges
  <1> DEFINE shown == Shown(bp.resources, detail)
             kept  == {e \in bp.relations : e.from \in shown /\ e.to \in shown}
  <1>1. a \in shown /\ b \in shown
    BY DEF Shown
  <1>2. Edge(a, b, type) \in kept /\ Edge(a, b, type).from = a /\ Edge(a, b, type).to = b
        /\ Edge(a, b, type).type = type
    BY <1>1 DEF Edge
  <1>3. GenerateInfraMermaid(bp, detail).edges = {Edge(infraNodeID(e.from), infraNodeID(e.to), e.type) : e \in kept}
    BY DEF GenerateInfraMermaid
  <1>4. QED
    BY <1>2, <1>3

-----------------------------------------------------------------------------
(* What is found.                                                          *)

Blueprint(class, got, before) ==
    Joined({HelmAnalyze(class, got), K8sAnalyze(class, got), ComposeAnalyze(class, got, before),
            KustomizeAnalyze(class, got), TerraformAnalyze(class, got)})

(* What the helm and the k8s analyzers find is in the blueprint.           *)
LEMMA BlueprintHas ==
    ASSUME NEW class, NEW got, NEW before,
           NEW found \in {HelmAnalyze(class, got), K8sAnalyze(class, got)}
    PROVE  /\ found.resources \subseteq Blueprint(class, got, before).resources
           /\ found.relations \subseteq Blueprint(class, got, before).relations
  BY DEF Blueprint, Joined

(* A run that lists nothing draws nothing.                                 *)
LEMMA NothingDrawn ==
    ASSUME NEW class, NEW got, NEW before, NEW detail, DOMAIN class = {}
    PROVE  GenerateInfraMermaid(Blueprint(class, got, before), detail).nodes = {}
  <1>1. \A who : ReadBy(who, class, got) = {}
    BY DEF ReadBy
  <1>2. Charts(class, got) = {} /\ \A who : Parsed(who, class, got) = {}
    BY <1>1 DEF Charts, Parsed
  <1>3. HelmAnalyze(class, got).resources = {}
    BY <1>2 DEF HelmAnalyze
  <1>4. K8sAnalyze(class, got).resources = {}
    BY <1>2 DEF K8sAnalyze, parseFile
  <1>5. ComposeAnalyze(class, got, before).resources = {}
    BY <1>2 DEF ComposeAnalyze
  <1>6. KustomizeAnalyze(class, got).resources = {}
    BY <1>1 DEF KustomizeAnalyze
  <1>7. TerraformAnalyze(class, got).resources = {}
    BY <1>2 DEF TerraformAnalyze
  <1>8. Blueprint(class, got, before).resources = {}
    BY <1>3, <1>4, <1>5, <1>6, <1>7 DEF Blueprint, Joined
  <1>9. Shown(Blueprint(class, got, before).resources, detail) = {}
    BY <1>8 DEF Shown
  <1>10. QED
    BY <1>9 DEF GenerateInfraMermaid

(* Two documents of which the one selects the other.                       *)
LEMMA SelectionFound ==
    ASSUME NEW class, NEW got, NEW s \in parseFile(class, got), NEW d \in parseFile(class, got),
           s.kind = "Service", d.kind # "Service", d.labels # {}, RefsOf(s, {"selector"}) # {},
           \A r \in s.refs : r.how = "selector" => r.to \in d.labels
    PROVE  /\ ID(s) \in K8sAnalyze(class, got).resources /\ ID(d) \in K8sAnalyze(class, got).resources
           /\ Edge(ID(s), ID(d), "selects") \in K8sAnalyze(class, got).relations
  <1> DEFINE all == parseFile(class, got)
  <1>1. ID(d) # ID(s)
    BY DEF ID
  <1>2. labelsMatch({r.to : r \in RefsOf(s, {"selector"})}, d.labels)
    BY DEF labelsMatch, RefsOf
  <1>3. Edge(ID(s), ID(d), "selects") \in extractServiceRelations(s, all)
    BY <1>1, <1>2 DEF extractServiceRelations
  <1>4. extractRelations(s, all) = extractServiceRelations(s, all)
    BY DEF extractRelations
  <1>5. QED
    BY <1>3, <1>4 DEF K8sAnalyze

(* A chart and the one chart in the directory it depends on.               *)
LEMMA DependencyFound ==
    ASSUME NEW class, NEW got, NEW f \in Charts(class, got), NEW g \in Charts(class, got),
           NEW c \in got[f], NEW d \in got[g], NEW r \in c.refs, r.how = "local", r.to = FileDir[g],
           \A h \in Charts(class, got) : FileDir[h] = FileDir[g] => h = g,
           \A e \in got[g] : e = d
    PROVE  /\ ID(c) \in HelmAnalyze(class, got).resources /\ ID(d) \in HelmAnalyze(class, got).resources
           /\ Edge(ID(c), ID(d), "depends_on") \in HelmAnalyze(class, got).relations
  <1> DEFINE there == {h \in Charts(class, got) : FileDir[h] = r.to}
             deps(h) == UNION {HelmDependencies(x, class, got) : x \in got[h]}
             made(h) == extractTemplateResources(FileDir[h], got)
             own(h)  == {ID(x) : x \in got[h]}
  <1>1. UNION {got[h] : h \in there} = {d} /\ there # {}
    <2>1. there = {g}
      OBVIOUS
    <2>2. got[g] = {d}
      OBVIOUS
    <2>3. QED
      BY <2>1, <2>2
  <1>2. LocalChart(r, class, got) = ID(d)
    BY <1>1 DEF LocalChart
  <1>3. r \in RefsOf(c, {"local"})
    BY DEF RefsOf
  <1>4. ID(d) \in HelmDependencies(c, class, got)
    BY <1>2, <1>3 DEF HelmDependencies
  <1>5. ID(d) \in deps(f) /\ ID(c) \in own(f) /\ ID(d) \in own(g)
    BY <1>4
  <1>6. HelmAnalyze(class, got) =
          [resources |-> UNION {own(h) \union deps(h) \union made(h) : h \in Charts(class, got)},
           relations |-> UNION {{Edge(x, t, "depends_on") : x \in own(h), t \in deps(h)}
                                \union {Edge(x, t, "deploys") : x \in own(h), t \in made(h)} : h \in Charts(class, got)}]
    BY DEF HelmAnalyze
  <1>7. Edge(ID(c), ID(d), "depends_on") \in {Edge(x, t, "depends_on") : x \in own(f), t \in deps(f)}
    BY <1>5
  <1>8. QED
    <2> HIDE DEF deps, made, own
    <2>1. QED
      BY <1>5, <1>6, <1>7
-----------------------------------------------------------------------------
(* A run that nobody disturbs.                                             *)

(* Every listed file that an analyzer wants was read when none is due.     *)
LEMMA NoneDue ==
    ASSUME NEW class, NEW got, Due(class, got) = {}, NEW f \in DOMAIN class, class[f] \in {"helm", "k8s"}
    PROVE  f \in DOMAIN got
  <1> SUFFICES ASSUME f \notin DOMAIN got PROVE FALSE
    OBVIOUS
  <1> DEFINE waiting == {i \in DOMAIN ReadOrder : Unread(ReadOrder[i], class, got) # {}}
  <1>1. DOMAIN ReadOrder = 1..6 /\ ReadOrder[1] = "helm" /\ ReadOrder[3] = "k8s"
    BY DEF ReadOrder
  <1>2. f \in Unread(class[f], class, got)
    BY DEF Unread
  <1>3. waiting # {} /\ waiting \subseteq Nat
    BY <1>1, <1>2
  <1>4. PICK m \in waiting : \A n \in waiting : m <= n
    BY <1>3, LeastNumber
  <1>5. (CHOOSE i \in waiting : \A j \in waiting : i <= j) \in waiting
    BY <1>4
  <1>6. Due(class, got) # {}
    BY <1>3, <1>5 DEF Due
  <1>7. QED
    BY <1>6

(* The charts are the files of that name, manifests go to the k8s analyzer.*)
LEMMA Classes ==
    ASSUME NEW files, NEW f \in files
    PROVE  /\ DOMAIN classifyFiles(files) = files
           /\ classifyFiles(files)[f] = "helm" <=> FileName[f] = "Chart.yaml"
           /\ FileName[f] = "manifest.yaml" /\ ~isInsideHelmTemplates(f, files) /\ ~isSopsEncrypted(f)
                => classifyFiles(files)[f] = "k8s"
  <1> DEFINE names == {"Chart.yaml", "docker-compose.yaml", "kustomization.yaml"}
  <1>1. /\ DOMAIN infraFileNames = names
        /\ infraFileNames["Chart.yaml"] = "helm" /\ infraFileNames["docker-compose.yaml"] = "compose"
        /\ infraFileNames["kustomization.yaml"] = "kustomize"
    BY DEF infraFileNames
  <1>2. /\ DOMAIN classifyFiles(files) = files
        /\ classifyFiles(files)[f] =
             CASE FileName[f] \in names -> infraFileNames[FileName[f]]
               [] FileName[f] = "main.tf" -> "terraform"
               [] /\ FileName[f] = "manifest.yaml"
                  /\ ~isInsideHelmTemplates(f, files) /\ ~isSopsEncrypted(f) -> "k8s"
               [] OTHER -> "none"
    BY <1>1 DEF classifyFiles
  <1>3. CASE FileName[f] \in names
    BY <1>1, <1>2, <1>3
  <1>4. CASE FileName[f] = "main.tf"
    BY <1>2, <1>4
  <1>5. CASE FileName[f] \notin names \union {"main.tf"}
    BY <1>2, <1>5
  <1>6. QED
    BY <1>3, <1>4, <1>5

(* What analyzers were given of the project as it is.                      *)
Heard(class, got) ==
    /\ DOMAIN class = {} \/ class = classifyFiles(Listed({}))
    /\ \A f \in DOMAIN got : got[f] = IF f \in DOMAIN project THEN project[f] ELSE {}

Complete(d) ==
    /\ \A p \in Selections : DrawnAs(p, "selects") \in d.edges
    /\ \A p \in ChartNeeds : DrawnAs(p, "depends_on") \in d.edges

ProjectTyped == DOMAIN project \subseteq ProjectFiles /\ \A f \in DOMAIN project : project[f] \in ContentsOf[f]

(* What the analyzers were given of the project, all of it: what its       *)
(* services select is drawn.                                               *)
LEMMA SelectionsDrawn ==
    ASSUME NEW class, NEW got, NEW before, NEW detail, class = classifyFiles(Listed({})), Heard(class, got),
           Due(class, got) = {}, NEW p \in Selections
    PROVE  DrawnAs(p, "selects") \in GenerateInfraMermaid(Blueprint(class, got, before), detail).edges
  <1> DEFINE bp == Blueprint(class, got, before)
             all == parseFile(class, got)
             plain == {d \in UNION {project[f] : f \in PlainManifests} : isValidMermaidResource(d)}
             s == p[1]
             d == p[2]
  <1>1. /\ s \in plain /\ s.kind = "Service" /\ \E r \in s.refs : r.how = "selector"
        /\ d \in plain /\ d.kind \in {"Deployment", "StatefulSet"} /\ d.labels # {}
        /\ \A r \in s.refs : r.how = "selector" => r.to \in d.labels
    BY DEF Selections
  <1>2. ASSUME NEW x \in plain PROVE x \in all
    <2>1. PICK f \in PlainManifests : x \in project[f]
      OBVIOUS
    <2>2. f \in Listed({}) /\ f \in DOMAIN project /\ class[f] = "k8s" /\ f \in DOMAIN class
      BY Classes DEF PlainManifests, Listed
    <2>3. f \in DOMAIN got /\ got[f] = project[f]
      BY <2>2, NoneDue DEF Heard
    <2>4. x \in Parsed("k8s", class, got)
      BY <2>1, <2>2, <2>3 DEF Parsed, ReadBy
    <2>5. QED
      BY <2>4 DEF parseFile, isValidMermaidResource
  <1>3. s \in all /\ d \in all /\ d.kind # "Service" /\ RefsOf(s, {"selector"}) # {}
    BY <1>1, <1>2 DEF RefsOf
  <1>4. /\ ID(s) \in K8sAnalyze(class, got).resources /\ ID(d) \in K8sAnalyze(class, got).resources
        /\ Edge(ID(s), ID(d), "selects") \in K8sAnalyze(class, got).relations
    BY <1>1, <1>3, SelectionFound
  <1>5. ID(s) \in bp.resources /\ ID(d) \in bp.resources /\ Edge(ID(s), ID(d), "selects") \in bp.relations
    BY <1>4, BlueprintHas
  <1>6. /\ isValidMermaidResource(ID(s)) /\ isValidMermaidResource(ID(d))
        /\ ID(s).kind \in overviewKinds /\ ID(d).kind \in overviewKinds
    BY <1>1 DEF isValidMermaidResource, ID, overviewKinds
  <1>7. QED
    BY <1>5, <1>6, EdgeDrawn DEF DrawnAs

(* Likewise the charts that its charts need.                               *)
LEMMA ChartNeedsDrawn ==
    ASSUME NEW class, NEW got, NEW before, NEW detail, class = classifyFiles(Listed({})), Heard(class, got),
           Due(class, got) = {}, ProjectTyped, NEW p \in ChartNeeds
    PROVE  DrawnAs(p, "depends_on") \in GenerateInfraMermaid(Blueprint(class, got, before), detail).edges
  <1> DEFINE bp == Blueprint(class, got, before)
             charts == {f \in Listed({}) : FileName[f] = "Chart.yaml"}
             plain(f) == {x \in project[f] : isValidMermaidResource(x)}
             c == p[1]
             d == p[2]
  <1>1. PICK f \in charts, g \in charts :
          p \in plain(f) \X plain(g) /\ \E r \in c.refs : r.how = "local" /\ r.to = FileDir[g]
    BY DEF ChartNeeds
  <1>2. PICK r \in c.refs : r.how = "local" /\ r.to = FileDir[g]
    BY <1>1
  <1>3. c \in project[f] /\ d \in project[g] /\ isValidMermaidResource(c) /\ isValidMermaidResource(d)
    BY <1>1
  <1>4. ASSUME NEW h \in charts
        PROVE  /\ h \in ProjectFiles /\ project[h] \in ContentsOf[h]
               /\ h \in DOMAIN got /\ got[h] = project[h] /\ h \in ReadBy("helm", class, got)
    <2>1. h \in DOMAIN class /\ class[h] = "helm" /\ h \in DOMAIN project
      BY Classes DEF Listed
    <2>2. h \in DOMAIN got /\ got[h] = project[h]
      BY <2>1, NoneDue DEF Heard
    <2>3. QED
      BY <2>1, <2>2 DEF ReadBy, ProjectTyped
  <1>5. f \in Charts(class, got) /\ g \in Charts(class, got) /\ c \in got[f] /\ d \in got[g]
    BY <1>3, <1>4 DEF Charts
  <1>6. ASSUME NEW h \in Charts(class, got), FileDir[h] = FileDir[g] PROVE h = g
    <2>1. h \in DOMAIN class /\ class[h] = "helm" /\ DOMAIN class = Listed({})
      BY Classes DEF Charts, ReadBy, classifyFiles
    <2>2. h \in charts
      BY <2>1, Classes
    <2>3. QED
      BY <2>2, <1>4, <1>6, OneChart
  <1>7. c.kind = "HelmChart" /\ d.kind = "HelmChart" /\ \A e \in got[g] : e = d
    BY <1>3, <1>4, OneChart
  <1>8. /\ ID(c) \in HelmAnalyze(class, got).resources /\ ID(d) \in HelmAnalyze(class, got).resources
        /\ Edge(ID(c), ID(d), "depends_on") \in HelmAnalyze(class, got).relations
    BY <1>2, <1>5, <1>6, <1>7, DependencyFound
  <1>9. ID(c) \in bp.resources /\ ID(d) \in bp.resources /\ Edge(ID(c), ID(d), "depends_on") \in bp.relations
    BY <1>8, BlueprintHas
  <1>10. /\ isValidMermaidResource(ID(c)) /\ isValidMermaidResource(ID(d))
         /\ ID(c).kind \in overviewKinds /\ ID(d).kind \in overviewKinds
    BY <1>3, <1>7 DEF isValidMermaidResource, ID, overviewKinds
  <1>11. QED
    BY <1>9, <1>10, EdgeDrawn DEF DrawnAs

(* Other plugins are told of relations between components they are told of.*)
LEMMA ToldOfBothEnds ==
    ASSUME NEW comps, NEW e \in detectRelations(comps), e.type # "depends"
    PROVE  e.to \in {c.dir : c \in comps}
  <1> DEFINE known(edges) == {x \in edges : x.to \in {c.dir : c \in comps}}
             of(c) ==
               CASE c.type = "app" ->
                       known(detectGoModRelations(c) \cup detectPackageJsonRelations(c))
                           \cup detectGoImportRelations(c, comps)
                 [] c.type = "infra" -> known(detectDockerfileRelations(c) \cup detectDockerFromRelations(c))
                 [] c.type = "helm" -> known(detectHelmRelations(c)) \cup detectHelmRemoteRelations(c)
                 [] OTHER -> {}
  <1>1. detectRelations(comps) = UNION {of(c) : c \in comps}
    BY DEF detectRelations
  <1>2. PICK c \in comps : e \in of(c)
    BY <1>1
  <1>3. \A edges : \A x \in known(edges) : x.to \in {o.dir : o \in comps}
    OBVIOUS
  <1>4. \A x \in detectHelmRemoteRelations(c) : x.type = "depends"
    BY DEF detectHelmRemoteRelations, Edge
  <1>5. \A x \in detectGoImportRelations(c, comps) : x.to \in {o.dir : o \in comps}
    <2> SUFFICES ASSUME NEW x \in detectGoImportRelations(c, comps) PROVE x.to \in {o.dir : o \in comps}
      OBVIOUS
    <2>1. PICK t \in CompPaths(comps) : x = Edge(c.dir, t.dir, "imports")
      BY Zenon DEF detectGoImportRelations
    <2>2. QED
      BY <2>1 DEF CompPaths, Edge
  <1> HIDE DEF known
  <1>6. CASE c.type = "app"
    BY <1>2, <1>3, <1>5, <1>6
  <1>7. CASE c.type = "infra"
    BY <1>2, <1>3, <1>7
  <1>8. CASE c.type = "helm"
    BY <1>2, <1>3, <1>4, <1>8
  <1>9. QED
    BY <1>2, <1>6, <1>7, <1>8
-----------------------------------------------------------------------------
(* The invariant: the run at each stage, and what is true of it.           *)

ListedShape == survey = [stage |-> "listed", calm |-> survey.calm, detail |-> survey.detail, files |-> survey.files]
ReadShape == survey = [stage |-> "read", calm |-> survey.calm, detail |-> survey.detail,
                       class |-> survey.class, got |-> survey.got]
DrawnShape ==
    /\ survey.stage \in {"drawn", "opened", "written"}
    /\ survey = [stage |-> survey.stage, calm |-> survey.calm, detail |-> survey.detail, drawn |-> survey.drawn]
FoundShape == survey = [stage |-> "found", calm |-> survey.calm, comps |-> survey.comps]
ToldShape == survey = [stage |-> "told", calm |-> survey.calm, comps |-> survey.comps,
                       relations |-> survey.relations]

Shape ==
    /\ survey.calm \in BOOLEAN
    /\ survey = Idle \/ ListedShape \/ ReadShape \/ DrawnShape \/ FoundShape \/ ToldShape

DiagramsClosed ==
    /\ Closed(diagram)
    /\ survey.stage \in {"drawn", "opened", "written"} => Closed(survey.drawn)
    /\ survey.stage = "told" =>
         \A e \in survey.relations : e.type # "depends" => e.to \in {c.dir : c \in survey.comps}

CalmTold ==
    /\ survey.stage = "written" => diagram = survey.drawn
    /\ survey.stage = "listed" /\ survey.calm => survey.files \in {{}, Listed({})}
    /\ survey.stage = "read" /\ survey.calm => Heard(survey.class, survey.got)
    /\ survey.stage \in {"drawn", "opened", "written"} /\ survey.calm =>
         survey.drawn = Refined \/ Complete(survey.drawn)

AtlasInv == AtlasTypeOK /\ Shape /\ DiagramsClosed /\ CalmTold

(* The invariant holds at first,                                           *)
LEMMA AtlasInitInv == AtlasInit => AtlasInv
  <1> SUFFICES ASSUME AtlasInit PROVE AtlasInv
    OBVIOUS
  <1>1. DOMAIN project \subseteq ProjectFiles
    BY AtlasAssumption DEF AtlasInit
  <1>2. survey = Idle /\ survey.stage = "idle" /\ survey.calm = FALSE /\ diagram.edges = {}
    BY DEF AtlasInit, Idle, NoDiagram
  <1>3. AtlasTypeOK
    <2>1. (\A f \in DOMAIN project : project[f] \in ContentsOf[f]) /\ atlasEdits = 0
      BY DEF AtlasInit
    <2>2. atlasEdits \in 0 .. MaxProjectEdits
      BY <2>1, AtlasAssumption
    <2>3. survey.calm \in BOOLEAN
      BY <1>2
    <2>4. QED
      BY <1>1, <1>2, <2>1, <2>2, <2>3 DEF AtlasTypeOK
  <1>4. QED
    BY <1>2, <1>3 DEF AtlasInv, Shape, DiagramsClosed, CalmTold, Closed

(* While the project is not touched, what it says stays.                   *)
LEMMA ProjectStays ==
    ASSUME UNCHANGED project
    PROVE  /\ Listed({})' = Listed({})
           /\ \A class, got : Heard(class, got)' <=> Heard(class, got)
           /\ \A d : Complete(d)' <=> Complete(d)
  <1>1. Listed({})' = Listed({})
    BY DEF Listed, ShouldIgnore
  <1>2. classifyFiles(Listed({}))' = classifyFiles(Listed({}))
    BY <1>1 DEF classifyFiles, isSopsEncrypted, isInsideHelmTemplates
  <1>3. \A class, got : Heard(class, got)' <=> Heard(class, got)
    BY <1>2 DEF Heard
  <1>4. Selections' = Selections
    BY DEF Selections, PlainManifests, Listed, ShouldIgnore, isSopsEncrypted, isInsideHelmTemplates
  <1>5. ChartNeeds' = ChartNeeds
    BY DEF ChartNeeds, Listed, ShouldIgnore
  <1>6. \A d : Complete(d)' <=> Complete(d)
    BY <1>4, <1>5 DEF Complete
  <1>7. QED
    BY <1>1, <1>3, <1>6

(* when the user edits a file,                                             *)
LEMMA EditKeepsInv == ASSUME AtlasInv, NEW f \in ProjectFiles, EditProject(f) PROVE AtlasInv'
  <1>1. AtlasTypeOK'
    <2>1. DOMAIN project' \subseteq ProjectFiles /\ \A g \in DOMAIN project' : project'[g] \in ContentsOf[g]
      <3>1. CASE \E c \in ContentsOf[f] :
                   project' = [g \in DOMAIN project \cup {f} |-> IF g = f THEN c ELSE project[g]]
        BY <3>1 DEF AtlasInv, AtlasTypeOK
      <3>2. CASE project' = [g \in DOMAIN project \ {f} |-> project[g]]
        BY <3>2 DEF AtlasInv, AtlasTypeOK
      <3>3. QED
        BY <3>1, <3>2 DEF EditProject
    <2>2. atlasEdits' \in 0 .. MaxProjectEdits
      BY AtlasAssumption DEF EditProject, AtlasInv, AtlasTypeOK
    <2>3. survey'.stage = survey.stage /\ survey'.calm \in BOOLEAN
      BY DEF EditProject, AtlasInv, Shape, Idle
    <2>4. QED
      BY <2>1, <2>2, <2>3 DEF AtlasInv, AtlasTypeOK
  <1>2. Shape' /\ DiagramsClosed' /\ CalmTold'
    <2>1. survey' = [survey EXCEPT !.calm = FALSE] /\ diagram' = diagram
      BY DEF EditProject
    <2>2. survey'.calm = FALSE /\ survey'.stage = survey.stage
      BY <2>1 DEF AtlasInv, Shape, Idle, ListedShape, ReadShape, DrawnShape, FoundShape, ToldShape
    <2>3. Shape'
      <3>1. CASE survey = Idle
        BY <2>1, <3>1 DEF Shape, Idle
      <3>2. CASE ListedShape
        <4> DEFINE calm == survey.calm
                   detail == survey.detail
                   files == survey.files
        <4>1. survey = [stage |-> "listed", calm |-> calm, detail |-> detail, files |-> files]
          BY <3>2 DEF ListedShape
        <4> HIDE DEF calm, detail, files
        <4>2. survey' = [stage |-> "listed", calm |-> FALSE, detail |-> detail, files |-> files]
          BY <2>1, <4>1
        <4>3. QED
          BY <4>1, <4>2 DEF Shape, ListedShape
      <3>3. CASE ReadShape
        <4> DEFINE calm == survey.calm
                   detail == survey.detail
                   class == survey.class
                   got == survey.got
        <4>1. survey = [stage |-> "read", calm |-> calm, detail |-> detail, class |-> class, got |-> got]
          BY <3>3 DEF ReadShape
        <4> HIDE DEF calm, detail, class, got
        <4>2. survey' = [stage |-> "read", calm |-> FALSE, detail |-> detail, class |-> class, got |-> got]
          BY <2>1, <4>1
        <4>3. QED
          BY <4>1, <4>2 DEF Shape, ReadShape
      <3>4. CASE DrawnShape
        <4> DEFINE stage == survey.stage
                   calm == survey.calm
                   detail == survey.detail
                   drawn == survey.drawn
        <4>1. stage \in {"drawn", "opened", "written"} /\ survey = [stage |-> stage, calm |-> calm, detail |-> detail, drawn |-> drawn]
          BY <3>4 DEF DrawnShape
        <4> HIDE DEF stage, calm, detail, drawn
        <4>2. survey' = [stage |-> stage, calm |-> FALSE, detail |-> detail, drawn |-> drawn]
          BY <2>1, <4>1
        <4>3. QED
          BY <4>1, <4>2 DEF Shape, DrawnShape
      <3>5. CASE FoundShape
        <4> DEFINE calm == survey.calm
                   comps == survey.comps
        <4>1. survey = [stage |-> "found", calm |-> calm, comps |-> comps]
          BY <3>5 DEF FoundShape
        <4> HIDE DEF calm, comps
        <4>2. survey' = [stage |-> "found", calm |-> FALSE, comps |-> comps]
          BY <2>1, <4>1
        <4>3. QED
          BY <4>1, <4>2 DEF Shape, FoundShape
      <3>6. CASE ToldShape
        <4> DEFINE calm == survey.calm
                   comps == survey.comps
                   relations == survey.relations
        <4>1. survey = [stage |-> "told", calm |-> calm, comps |-> comps, relations |-> relations]
          BY <3>6 DEF ToldShape
        <4> HIDE DEF calm, comps, relations
        <4>2. survey' = [stage |-> "told", calm |-> FALSE, comps |-> comps, relations |-> relations]
          BY <2>1, <4>1
        <4>3. QED
          BY <4>1, <4>2 DEF Shape, ToldShape
      <3>7. QED
        BY <3>1, <3>2, <3>3, <3>4, <3>5, <3>6 DEF AtlasInv, Shape
    <2>4. survey.stage \in {"drawn", "opened", "written"} => survey'.drawn = survey.drawn
      BY <2>1 DEF AtlasInv, Shape, Idle, ListedShape, ReadShape, DrawnShape, FoundShape, ToldShape
    <2>5. survey.stage = "told" => survey'.relations = survey.relations /\ survey'.comps = survey.comps
      BY <2>1 DEF AtlasInv, Shape, Idle, ListedShape, ReadShape, DrawnShape, FoundShape, ToldShape
    <2>6. DiagramsClosed'
      BY <2>1, <2>2, <2>4, <2>5 DEF AtlasInv, DiagramsClosed, Closed
    <2>7. CalmTold'
      BY <2>1, <2>2, <2>4 DEF AtlasInv, CalmTold
    <2>8. QED
      BY <2>3, <2>6, <2>7
  <1>3. QED
    BY <1>1, <1>2 DEF AtlasInv

(* A step that leaves the project alone keeps its type.                    *)
LEMMA StageTyped ==
    ASSUME AtlasTypeOK, UNCHANGED <<project, atlasEdits>>, survey'.calm \in BOOLEAN,
           survey'.stage \in {"idle", "listed", "read", "drawn", "opened", "written", "found", "told"}
    PROVE  AtlasTypeOK'
  BY DEF AtlasTypeOK

(* while the project is listed and read,                                   *)
LEMMA ReadingKeepsInv ==
    ASSUME AtlasInv, (\E root \in RootSegments, detail \in {"overview", "full"} : ScanInfra(detail, root))
                     \/ ClassifyListed \/ (\E f \in ProjectFiles : ReadProjectFile(f))
    PROVE  AtlasInv'
  <1> SUFFICES Shape' /\ DiagramsClosed' /\ CalmTold' /\ survey'.stage \in {"listed", "read"}
    BY StageTyped DEF AtlasInv, Shape, ScanInfra, ClassifyListed, ReadProjectFile
  <1>1. UNCHANGED <<project, diagram>> /\ Closed(diagram) /\ Closed(diagram)'
    BY DEF AtlasInv, DiagramsClosed, Closed, ScanInfra, ClassifyListed, ReadProjectFile
  <1>2. ASSUME NEW root \in RootSegments, NEW detail \in {"overview", "full"}, ScanInfra(detail, root)
        PROVE  Shape' /\ DiagramsClosed' /\ CalmTold' /\ survey'.stage \in {"listed", "read"}
    <2>1. survey' = [stage |-> "listed", calm |-> TRUE, detail |-> detail, files |-> Listed(root)]
      BY <1>2 DEF ScanInfra
    <2>2. Listed(root) \in {{}, Listed({})}
      <3>1. CASE root \cap Ignores = {}
        <4>1. \A f : ShouldIgnore(f, root) <=> ShouldIgnore(f, {})
          BY <3>1 DEF ShouldIgnore
        <4>2. QED
          BY <4>1 DEF Listed
      <3>2. CASE root \cap Ignores # {}
        <4>1. \A f : ShouldIgnore(f, root)
          BY <3>2 DEF ShouldIgnore
        <4>2. QED
          BY <4>1 DEF Listed
      <3>3. QED
        BY <3>1, <3>2
    <2>3. Listed({})' = Listed({})
      BY <1>1, ProjectStays
    <2>4. QED
      BY <1>1, <2>1, <2>2, <2>3 DEF Shape, ListedShape, ReadShape, DiagramsClosed, CalmTold
  <1>3. ASSUME ClassifyListed
        PROVE  Shape' /\ DiagramsClosed' /\ CalmTold' /\ survey'.stage \in {"listed", "read"}
    <2> DEFINE class == classifyFiles(survey.files)
               none == [f \in {} |-> {}]
    <2>1. survey' = [stage |-> "read", calm |-> survey.calm, detail |-> survey.detail, class |-> class, got |-> none]
          /\ survey.stage = "listed"
      BY <1>3 DEF ClassifyListed
    <2>2. survey.calm => survey.files \in {{}, Listed({})}
      BY <2>1 DEF AtlasInv, CalmTold
    <2>3. survey.calm => Heard(class, none)
      BY <2>2 DEF Heard, classifyFiles
    <2>4. survey.calm => Heard(survey'.class, survey'.got)
      BY <2>1, <2>3
    <2>5. survey.calm => Heard(survey.class, survey.got)'
      BY <1>1, <2>4 DEF Heard, classifyFiles, Listed, ShouldIgnore, isSopsEncrypted, isInsideHelmTemplates
    <2> HIDE DEF class, none
    <2>6. QED
      BY <1>1, <2>1, <2>5 DEF Shape, ListedShape, ReadShape, DiagramsClosed, CalmTold, AtlasInv
  <1>4. ASSUME NEW f \in ProjectFiles, ReadProjectFile(f)
        PROVE  Shape' /\ DiagramsClosed' /\ CalmTold' /\ survey'.stage \in {"listed", "read"}
    <2> DEFINE content == IF f \in DOMAIN project THEN project[f] ELSE {}
               more == [g \in DOMAIN survey.got \cup {f} |-> IF g = f THEN content ELSE survey.got[g]]
    <2>1. survey.stage = "read" /\ survey' = [survey EXCEPT !.got = more]
      BY <1>4 DEF ReadProjectFile
    <2>2. survey.calm => Heard(survey.class, more)
      BY <2>1 DEF AtlasInv, CalmTold, Heard
    <2> HIDE DEF more
    <2>3. survey' = [stage |-> "read", calm |-> survey.calm, detail |-> survey.detail,
                     class |-> survey.class, got |-> more]
      BY <2>1 DEF AtlasInv, Shape, Idle, ListedShape, ReadShape, DrawnShape, FoundShape, ToldShape
    <2>4. survey.calm => Heard(survey'.class, survey'.got)
      BY <2>2, <2>3
    <2>5. survey.calm => Heard(survey.class, survey.got)'
      BY <1>1, <2>4 DEF Heard, classifyFiles, Listed, ShouldIgnore, isSopsEncrypted, isInsideHelmTemplates
    <2>6. QED
      BY <1>1, <2>3, <2>5 DEF Shape, ListedShape, ReadShape, DiagramsClosed, CalmTold, AtlasInv
  <1>5. QED
    BY <1>2, <1>3, <1>4

(* when the blueprint is drawn,                                            *)
LEMMA DrawKeepsInv == ASSUME AtlasInv, Draw PROVE AtlasInv'
  <1>1. survey.stage = "read" /\ Due(survey.class, survey.got) = {} /\ UNCHANGED <<project, diagram, atlasEdits>>
    BY DEF Draw
  <1>2. PICK before :
          LET drawn == GenerateInfraMermaid(Blueprint(survey.class, survey.got, before), survey.detail)
          IN  survey' = IF drawn.nodes = {} THEN Idle
                        ELSE [stage |-> "drawn", calm |-> survey.calm, detail |-> survey.detail, drawn |-> drawn]
    BY Zenon DEF Draw, Blueprint
  <1> DEFINE drawn == GenerateInfraMermaid(Blueprint(survey.class, survey.got, before), survey.detail)
  <1>3. Closed(drawn)
    BY DrawnClosed
  <1>4. survey.calm /\ drawn.nodes # {} => Complete(drawn)
    <2> SUFFICES ASSUME survey.calm, drawn.nodes # {} PROVE Complete(drawn)
      OBVIOUS
    <2>1. Heard(survey.class, survey.got)
      BY <1>1 DEF AtlasInv, CalmTold
    <2>2. survey.class = classifyFiles(Listed({}))
      BY <2>1, NothingDrawn DEF Heard
    <2>3. ProjectTyped
      BY DEF AtlasInv, AtlasTypeOK, ProjectTyped
    <2>4. QED
      BY <1>1, <2>1, <2>2, <2>3, SelectionsDrawn, ChartNeedsDrawn DEF Complete
  <1> HIDE DEF drawn
  <1>5. CASE survey' = Idle
    BY <1>1, <1>5, StageTyped DEF AtlasInv, Shape, DiagramsClosed, CalmTold, Idle, Closed
  <1>6. CASE drawn.nodes # {} /\ survey' = [stage |-> "drawn", calm |-> survey.calm, detail |-> survey.detail, drawn |-> drawn]
    <2>1. survey'.drawn = drawn /\ survey'.stage = "drawn" /\ survey'.calm = survey.calm /\ Shape'
      BY <1>6 DEF AtlasInv, Shape, DrawnShape
    <2>2. survey.calm => Complete(survey'.drawn)
      BY <1>4, <1>6, <2>1
    <2>3. survey.calm => Complete(survey.drawn)'
      BY <1>1, <2>2 DEF Complete, Selections, ChartNeeds, PlainManifests, Listed, ShouldIgnore, isSopsEncrypted,
                        isInsideHelmTemplates, DrawnAs
    <2>4. DiagramsClosed' /\ CalmTold'
      BY <1>1, <1>3, <2>1, <2>3 DEF DiagramsClosed, CalmTold, AtlasInv, Closed
    <2>5. QED
      BY <1>1, <2>1, <2>4, StageTyped DEF AtlasInv, Shape
  <1>7. QED
    BY <1>2, <1>5, <1>6 DEF drawn
(* The diagram on its way to the file.                                     *)
LEMMA WritingKeepsInv ==
    ASSUME AtlasInv, refineDiagramWithAI \/ OpenDiagram \/ FillDiagram
    PROVE  AtlasInv'
  <1> DEFINE calm == survey.calm
             detail == survey.detail
             drawn == survey.drawn
  <1>1. survey.stage \in {"drawn", "opened"} /\ UNCHANGED <<project, atlasEdits>>
    BY DEF refineDiagramWithAI, OpenDiagram, FillDiagram
  <1>2. DrawnShape
    BY <1>1 DEF AtlasInv, Shape, Idle, ListedShape, ReadShape, FoundShape, ToldShape
  <1>3. /\ survey = [stage |-> survey.stage, calm |-> calm, detail |-> detail, drawn |-> drawn]
        /\ calm \in BOOLEAN /\ Closed(drawn) /\ Closed(diagram) /\ (calm => drawn = Refined \/ Complete(drawn))
    BY <1>1, <1>2 DEF DrawnShape, AtlasInv, Shape, DiagramsClosed, CalmTold
  <1> HIDE DEF calm, detail, drawn
  <1>4. ASSUME NEW stage \in {"drawn", "opened", "written"}, NEW d,
               survey' = [stage |-> stage, calm |-> calm, detail |-> detail, drawn |-> d],
               Closed(d), calm => d = Refined \/ Complete(d), Closed(diagram'), stage = "written" => diagram' = d
        PROVE  AtlasInv'
    <2>1. survey'.stage = stage /\ survey'.calm = calm /\ survey'.drawn = d /\ Shape'
      BY <1>3, <1>4 DEF Shape, DrawnShape
    <2>2. Complete(d) => Complete(survey'.drawn)
      BY <2>1
    <2>3. Complete(d) => Complete(survey.drawn)'
      BY <1>1, <2>2 DEF Complete, Selections, ChartNeeds, PlainManifests, Listed, ShouldIgnore, isSopsEncrypted,
                        isInsideHelmTemplates, DrawnAs
    <2>4. DiagramsClosed' /\ CalmTold'
      BY <1>4, <2>1, <2>3 DEF DiagramsClosed, CalmTold, Closed
    <2>5. QED
      BY <1>1, <2>1, <2>4, <1>4, StageTyped DEF AtlasInv, Shape
  <1>5. CASE refineDiagramWithAI
    <2>1. survey' = [stage |-> "drawn", calm |-> calm, detail |-> detail, drawn |-> Refined]
          /\ diagram' = diagram
      BY <1>3, <1>5 DEF refineDiagramWithAI
    <2>2. Closed(Refined) /\ Closed(diagram')
      BY <1>3, <2>1 DEF Closed, Refined
    <2>3. QED
      BY <1>4, <2>1, <2>2
  <1>6. CASE OpenDiagram
    <2>1. survey' = [stage |-> "opened", calm |-> calm, detail |-> detail, drawn |-> drawn]
          /\ diagram' = NoDiagram
      BY <1>3, <1>6 DEF OpenDiagram
    <2>2. Closed(diagram')
      BY <2>1 DEF Closed, NoDiagram
    <2>3. QED
      BY <1>3, <1>4, <2>1, <2>2
  <1>7. CASE FillDiagram
    <2>1. survey' = [stage |-> "written", calm |-> calm, detail |-> detail, drawn |-> drawn]
          /\ diagram' = drawn
      BY <1>3, <1>7 DEF FillDiagram, drawn
    <2>2. QED
      BY <1>3, <1>4, <2>1
  <1>8. QED
    BY <1>5, <1>6, <1>7

(* The context hook, and the end of a run.                                 *)
LEMMA TellingKeepsInv ==
    ASSUME AtlasInv,
           ScanEnds \/ Respond
             \/ \E root \in RootSegments, rules \in {DefaultRules, MergeRules(CustomRules)} : ScanProject(root, rules)
    PROVE  AtlasInv'
  <1>1. UNCHANGED <<project, diagram, atlasEdits>> /\ Closed(diagram)
    BY DEF AtlasInv, DiagramsClosed, ScanEnds, Respond, ScanProject
  <1>2. CASE ScanEnds
    <2>1. survey' = Idle /\ survey'.stage = "idle" /\ survey'.calm = FALSE
      BY <1>2 DEF ScanEnds, Idle
    <2>2. QED
      BY <1>1, <2>1, StageTyped DEF AtlasInv, Shape, DiagramsClosed, CalmTold, Closed
  <1>3. ASSUME NEW root \in RootSegments, NEW rules, ScanProject(root, rules) PROVE AtlasInv'
    <2> DEFINE comps == ComponentsOf(Listed(root), rules)
    <2>1. survey' = [stage |-> "found", calm |-> TRUE, comps |-> comps]
      BY <1>3 DEF ScanProject
    <2> HIDE DEF comps
    <2>2. survey'.stage = "found" /\ survey'.calm = TRUE /\ Shape'
      BY <2>1 DEF Shape, FoundShape
    <2>3. QED
      BY <1>1, <2>2, StageTyped DEF AtlasInv, DiagramsClosed, CalmTold, Closed
  <1>4. CASE Respond
    <2> DEFINE comps == survey.comps
               relations == detectRelations(comps)
               calm == survey.calm
    <2>1. survey' = [stage |-> "told", calm |-> calm, comps |-> comps, relations |-> relations]
      BY <1>4 DEF Respond
    <2>2. \A e \in relations : e.type # "depends" => e.to \in {c.dir : c \in comps}
      BY ToldOfBothEnds
    <2>3. calm \in BOOLEAN
      BY DEF AtlasInv, Shape
    <2> HIDE DEF comps, relations, calm
    <2>4. /\ survey'.stage = "told" /\ survey'.calm = calm
          /\ survey'.comps = comps /\ survey'.relations = relations /\ Shape'
      BY <2>1, <2>3 DEF Shape, ToldShape
    <2>5. DiagramsClosed' /\ CalmTold'
      BY <1>1, <2>2, <2>4 DEF DiagramsClosed, CalmTold, Closed
    <2>6. QED
      BY <1>1, <2>3, <2>4, <2>5, StageTyped DEF AtlasInv
  <1>5. QED
    BY <1>2, <1>3, <1>4

(* and so in every step.                                                   *)
LEMMA AtlasKeepsInv == ASSUME AtlasInv, [AtlasNext]_atlasVars PROVE AtlasInv'
  <1>1. CASE UNCHANGED atlasVars
    <2>1. UNCHANGED <<project, survey, diagram, atlasEdits>>
      BY <1>1 DEF atlasVars
    <2>2. CalmTold'
      BY <2>1 DEF AtlasInv, CalmTold, Heard, classifyFiles, Complete, Selections, ChartNeeds, PlainManifests,
                  Listed, ShouldIgnore, isSopsEncrypted, isInsideHelmTemplates
    <2>3. Shape' /\ AtlasTypeOK' /\ DiagramsClosed'
      BY <2>1 DEF AtlasInv, Shape, Idle, ListedShape, ReadShape, DrawnShape, FoundShape, ToldShape, AtlasTypeOK,
                  DiagramsClosed, Closed
    <2>4. QED
      BY <2>2, <2>3 DEF AtlasInv
  <1>2. CASE \E f \in ProjectFiles : EditProject(f)
    BY <1>2, EditKeepsInv
  <1>3. CASE Draw
    BY <1>3, DrawKeepsInv
  <1>4. QED
    BY <1>1, <1>2, <1>3, ReadingKeepsInv, WritingKeepsInv, TellingKeepsInv DEF AtlasNext

(* The invariant holds always.                                             *)
LEMMA AtlasInvariant == AtlasSpec => []AtlasInv
  BY AtlasInitInv, AtlasKeepsInv, PTL DEF AtlasSpec

(* The project, the run and the diagram keep their types.                  *)
THEOREM AtlasTyped == AtlasSpec => []AtlasTypeOK
  BY AtlasInvariant, PTL DEF AtlasInv

(* For any project: what is in the diagram has both its ends there, and a  *)
(* run during which nobody touched the project left in it what services    *)
(* select and which charts need which, at either level of detail.          *)
THEOREM DiagramsTrue == AtlasSpec => []DiagramsAgree
  <1>1. AtlasInv => DiagramsAgree
    <2> SUFFICES ASSUME AtlasInv PROVE DiagramsAgree
      OBVIOUS
    <2>1. survey.stage = "written" /\ survey.calm /\ diagram # Refined => Complete(diagram)
      BY DEF AtlasInv, CalmTold
    <2>2. QED
      BY <2>1 DEF AtlasInv, DiagramsClosed, Closed, Complete, DiagramsAgree
  <1>2. QED
    BY <1>1, AtlasInvariant, PTL
=============================================================================
