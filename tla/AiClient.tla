------------------------------ MODULE AiClient ------------------------------
(***************************************************************************)
(* A call to an AI provider (pkg/ai): RetryProvider around                 *)
(* RateLimitProvider with its CircuitBreaker around the HTTP client of the *)
(* provider, as factory.wrapProvider builds them.  Callers share one stack.*)
(*                                                                         *)
(* Time passes in ticks; the constants keep the ratios of the code: a      *)
(* cool-down of 30 s, retries for 2 minutes, back-offs of up to 22 s (a    *)
(* tick), of which the last one is not begun when it would end too late.   *)
(***************************************************************************)
EXTENDS Naturals

CONSTANTS Callers,
          Threshold,    \* consecutive server failures that open the circuit
          Cooldown,     \* ticks an open circuit refuses
          MaxElapsed,   \* ticks after which the retries stop
          MaxFailures   \* bound on the failures of the server

ASSUME AiConstants ==
    /\ Threshold \in Nat \ {0} /\ Cooldown \in Nat \ {0}
    /\ MaxElapsed \in Nat /\ MaxElapsed > Cooldown /\ MaxFailures \in Nat

VARIABLES circuitState, consecutiveFails,
          sinceFail,    \* ticks since lastFailTime, up to Cooldown
          call,         \* the call of each caller
          noBurst,      \* a rate limit below one request per second: a bucket of size 0
          failures      \* failures of the server so far

aiVars == <<circuitState, consecutiveFails, sinceFail, call, noBurst, failures>>

NoCall == [pc |-> "idle", op |-> "text", age |-> 0, due |-> FALSE,
           err |-> "none", wrote |-> FALSE, ill |-> FALSE]

AiTypeOK ==
    /\ circuitState \in {"closed", "open", "half"}
    /\ consecutiveFails \in 0..MaxFailures /\ sinceFail \in 0..Cooldown
    /\ call \in [Callers -> [pc : {"idle", "allow", "wait", "inner", "record", "classify", "backoff"},
                             op : {"text", "stream"}, age : 0..MaxElapsed, due : BOOLEAN,
                             err : {"none", "server", "throttled", "refused", "network", "permanent"},
                             wrote : BOOLEAN, ill : BOOLEAN]]
    /\ noBurst \in BOOLEAN /\ failures \in 0..MaxFailures

AiInit ==
    /\ circuitState = "closed" /\ consecutiveFails = 0 /\ sinceFail = Cooldown
    /\ call = [c \in Callers |-> NoCall]
    /\ noBurst \in BOOLEAN /\ failures = 0

Breaking == <<circuitState, consecutiveFails, sinceFail>>
CallGoes(c, pc) == call' = [call EXCEPT ![c].pc = pc]

-----------------------------------------------------------------------------

(* Completion, GenerateGovernance and EmbedDocuments are alike; a stream   *)
(* also writes.                                                            *)
StartCall(c, op) ==
    /\ call[c].pc = "idle"
    /\ call' = [call EXCEPT ![c] = [NoCall EXCEPT !.pc = "allow", !.op = op]]
    /\ UNCHANGED <<Breaking, noBurst, failures>>

(* CircuitBreaker.allow: an open circuit answers with an APIError 503.     *)
Allow(c) ==
    /\ call[c].pc = "allow"
    /\ IF circuitState = "open" /\ sinceFail < Cooldown
       THEN /\ call' = [call EXCEPT ![c].pc = "classify", ![c].err = "refused"]
            /\ UNCHANGED circuitState
       ELSE /\ CallGoes(c, "wait")
            /\ circuitState' = IF circuitState = "open" THEN "half" ELSE circuitState
    /\ UNCHANGED <<consecutiveFails, sinceFail, noBurst, failures>>

(* rate.Limiter.Wait; with a bucket of size 0 it always fails.             *)
Wait(c) ==
    /\ call[c].pc = "wait"
    /\ IF noBurst
       THEN call' = [call EXCEPT ![c].pc = "classify", ![c].err = "network"]
       ELSE CallGoes(c, "inner")
    /\ UNCHANGED <<Breaking, noBurst, failures>>

(* The provider: an answer, or an error of one of the kinds the decorators *)
(* tell apart, for a stream perhaps after part of the text.                *)
Inner(c, err, wrote) ==
    /\ call[c].pc = "inner"
    /\ err # "none" => failures < MaxFailures
    /\ wrote => call[c].op = "stream"
    /\ failures' = IF err = "none" THEN failures ELSE failures + 1
    /\ call' = [d \in Callers |->
                  IF d = c THEN [call[c] EXCEPT !.pc = "record", !.err = err, !.wrote = @ \/ wrote,
                                                !.ill = @ \/ err # "none"]
                  ELSE [call[d] EXCEPT !.ill = @ \/ (err # "none" /\ call[d].pc # "idle")]]
    /\ UNCHANGED <<Breaking, noBurst>>

\* mutant: a success closes the circuit, whatever opened it meanwhile
AlwaysClosed(state) == "closed"

AfterSuccess(state) == IF state = "half" THEN "closed" ELSE state

(* recordResult: only an APIError of 500 and above counts.  After a 429    *)
(* with Retry-After it sleeps, and classifyError sleeps again.             *)
Record(c) ==
    LET err == call[c].err IN
    /\ call[c].pc = "record"
    /\ \/ /\ err = "none"
          /\ consecutiveFails' = 0
          /\ circuitState' = AfterSuccess(circuitState)
          /\ call' = [call EXCEPT ![c] = NoCall]
          /\ UNCHANGED sinceFail
       \/ /\ err = "server"
          /\ consecutiveFails' = consecutiveFails + 1
          /\ sinceFail' = 0
          /\ circuitState' = IF circuitState = "half" \/ consecutiveFails' >= Threshold
                             THEN "open" ELSE circuitState
          /\ CallGoes(c, "classify")
       \/ /\ err \in {"throttled", "network", "permanent"}
          /\ \E slept \in IF err = "throttled" THEN {0, MaxElapsed - call[c].age} ELSE {0} :
               call' = [call EXCEPT ![c].pc = "classify", ![c].age = @ + slept]
          /\ UNCHANGED Breaking
    /\ UNCHANGED <<noBurst, failures>>

\* mutant: the writer of the stream is not asked whether anything was written
RetryableAnyway(c) == call[c].err # "permanent"

(* classifyError, and for a stream hasWritten before it.  A server failure *)
(* is retried when its status is 502 or 503, not with 500.                 *)
Retryable(c) == ~call[c].wrote /\ call[c].err # "permanent"

Classify(c) ==
    /\ call[c].pc = "classify"
    /\ \/ Retryable(c) /\ CallGoes(c, "backoff")
       \/ /\ ~Retryable(c) \/ call[c].err = "server"
          /\ call' = [call EXCEPT ![c] = NoCall]
    /\ UNCHANGED <<Breaking, noBurst, failures>>

(* backoff.Retry: another attempt, or none once the time is over.          *)
Retry(c) ==
    /\ call[c].pc = "backoff" /\ call[c].age < MaxElapsed
    /\ call' = [call EXCEPT ![c].pc = "allow", ![c].due = FALSE, ![c].err = "none"]
    /\ UNCHANGED <<Breaking, noBurst, failures>>

\* mutant: the time for retries is that of the cool-down
GiveUpEarly(c) ==
    /\ call[c].pc = "backoff" /\ call[c].age >= Cooldown
    /\ call' = [call EXCEPT ![c] = NoCall]
    /\ UNCHANGED <<Breaking, noBurst, failures>>

GiveUp(c) ==
    /\ call[c].pc = "backoff" /\ call[c].age >= MaxElapsed
    /\ call' = [call EXCEPT ![c] = NoCall]
    /\ UNCHANGED <<Breaking, noBurst, failures>>

\* mutant: nothing stops a call that waits for its provider from aging
TickUnbounded ==
    /\ \A c \in Callers : call[c].pc \in {"idle", "inner"}
    /\ sinceFail' = sinceFail
    /\ call' = [c \in Callers |-> IF call[c].pc = "idle" THEN call[c] ELSE [call[c] EXCEPT !.age = @ + 1]]
    /\ UNCHANGED <<circuitState, consecutiveFails, noBurst, failures>>

(* A tick is the longest back-off: a call makes an attempt between two     *)
(* ticks.  The provider may take several to answer.                        *)
Tick ==
    /\ \A c \in Callers : \/ call[c].pc \in {"idle", "inner"}
                          \/ call[c].pc = "backoff" /\ ~call[c].due /\ call[c].age < MaxElapsed
    /\ sinceFail' = IF sinceFail < Cooldown THEN sinceFail + 1 ELSE sinceFail
    /\ call' = [c \in Callers |->
                  IF call[c].pc = "idle" \/ call[c].age = MaxElapsed THEN call[c]
                  ELSE [call[c] EXCEPT !.age = @ + 1, !.due = (call[c].pc = "backoff")]]
    /\ UNCHANGED <<circuitState, consecutiveFails, noBurst, failures>>

CallStep(c) ==
    \/ Allow(c) \/ Wait(c) \/ Record(c) \/ Classify(c) \/ Retry(c) \/ GiveUp(c)
    \/ \E err \in {"none", "server", "throttled", "network", "permanent"}, wrote \in BOOLEAN : Inner(c, err, wrote)

AiNext ==
    \/ Tick
    \/ \E c \in Callers : CallStep(c) \/ \E op \in {"text", "stream"} : StartCall(c, op)

AiSpec == AiInit /\ [][AiNext]_aiVars

-----------------------------------------------------------------------------
(* CircuitBreaker ("circuit breaker simples com estados closed/open/       *)
(* half-open"), with retries and limits around it and several callers      *)
(* inside: it keeps the promise of Breaker.                                *)
Promise == INSTANCE Breaker WITH
    Requesters <- Callers, circuit <- circuitState, cooled <- (sinceFail = Cooldown),
    admitted <- {c \in Callers : call[c].pc \in {"wait", "inner", "record"}}
KeepsBreakerPromise == Promise!BreakerSpec

(* RetryProvider and CircuitBreaker together (2 minutes of retries, 30 s   *)
(* of cool-down): a call that starts while the circuit is open outlives    *)
(* it; nobody is told that the service is gone unless the server failed    *)
(* during the call.  Not with a limit below one request per second, which  *)
(* admits nothing.                                                         *)
GivesUpOnlyOnFailures ==
    [][\A c \in Callers :
         call[c].pc = "backoff" /\ call'[c].pc = "idle" => call[c].ill \/ noBurst]_aiVars

(* RetryProvider.StreamCompletion ("nao retenta para evitar dados          *)
(* duplicados"): text that reached the user is never sent again.           *)
NoTextTwice == \A c \in Callers : call[c].pc \in {"allow", "wait", "inner"} => ~call[c].wrote
=============================================================================
