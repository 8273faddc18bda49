------------------------- MODULE MirrorSync_proofs -------------------------
(***************************************************************************)
(* Safety of the mirror's tunnels, for any number of tunnels and commits.  *)
(***************************************************************************)
EXTENDS MirrorSync, TLAPS

ProcStates == {"dialing", "ready", "halfopen", "ended", "closed"}

(* The part of the type invariant the argument needs.                      *)
TunnelTypes ==
    /\ pc \in Locations
    /\ mode \in {"up", "first", "loop"}
    /\ cancelled \in BOOLEAN
    /\ {forwarder, localPort, starting, port} \subseteq Tunnels \union {None}
    /\ proc \in [Tunnels -> ProcStates]
    /\ stopped \in [Tunnels -> BOOLEAN]

(* Which of the manager's fields are set at each location of the thread.   *)
FieldInv ==
    /\ pc \in {"cluster", "server", "start", "waiting"} => forwarder = None
    /\ pc = "waiting" => starting # None
    /\ pc \notin {"waiting", "exited"} => starting = None
    /\ pc = "push" => port \in {None, forwarder}

(* Neither the current forwarder nor the one being started is stopped      *)
(* while the thread can still stop it.                                     *)
OpenInv ==
    /\ forwarder # None /\ pc # "exited" => ~stopped[forwarder]
    /\ starting # None /\ pc # "exited" => ~stopped[starting]

IInv ==
    /\ TunnelTypes /\ FieldInv /\ OpenInv
    /\ PortMatchesForwarder /\ NoTunnelLeak /\ StopsOnce

-----------------------------------------------------------------------------

(* The invariant holds at first.                                           *)
LEMMA InitIInv == Init => IInv
  BY BoundsOK DEF Init, IInv, TunnelTypes, FieldInv, OpenInv, PortMatchesForwarder,
     NoTunnelLeak, StopsOnce, Locations, ProcStates

(* Every step keeps the invariant.                                         *)
LEMMA NextIInv == IInv /\ [Next]_vars => IInv'
<1> SUFFICES ASSUME IInv, [Next]_vars PROVE IInv'
  OBVIOUS
<1> USE BoundsOK DEF IInv, TunnelTypes, FieldInv, OpenInv, PortMatchesForwarder,
        NoTunnelLeak, StopsOnce, Locations, ProcStates, Goto
<1>1. CASE Up
  BY <1>1 DEF Up, UpFails, ClusterReady, EnsureGitServer, Bootstrapped, StartSyncLoop,
     loopVars, mgrVars, tunVars, envVars
<1>2. CASE MainReturns
  BY <1>2 DEF MainReturns, loopVars, mgrVars, tunVars, envVars
<1>3. CASE SetupTunnel
  <2>1. CASE StartFails
    BY <2>1 DEF StartFails, loopVars, mgrVars, tunVars, envVars
  <2>2. ASSUME NEW f \in Tunnels, StartTunnel(f) PROVE IInv'
    BY <2>2 DEF StartTunnel, loopVars, envVars
  <2>3. CASE TunnelReady
    BY <2>3 DEF TunnelReady, tunVars, envVars
  <2>4. CASE StartCancelled
    BY <2>4 DEF StartCancelled, loopVars, tunVars, envVars
  <2> QED
    BY <1>3, <2>1, <2>2, <2>3, <2>4 DEF SetupTunnel
<1>4. CASE Sync
  <2>1. /\ pc = "push" /\ pc' \in {"bootstrap", "select"}
        /\ port' = None /\ mode' \in {mode, "loop"}
        /\ UNCHANGED <<cancelled, forwarder, localPort, starting, tunVars>>
    BY <1>4 DEF Sync, Push, PushFails, AfterPush
  <2> QED
    BY <2>1 DEF tunVars
<1>5. CASE SyncTick
  BY <1>5 DEF SyncTick, loopVars, tunVars
<1>6. CASE HealthTick
  BY <1>6 DEF HealthTick, Drop, Stop, Forget, loopVars
<1>7. CASE LoopDone
  BY <1>7 DEF LoopDone, Stop, loopVars, mgrVars
<1>8. ASSUME NEW f \in Tunnels, ForwardPorts(f) PROVE IInv'
  BY <1>8 DEF ForwardPorts, Dialed, DialFails, ConnectionLost, ForwardPortsReturns,
     SetProc, loopVars, mgrVars
<1>9. CASE Signal \/ Commit \/ Outage \/ Recover
  <2>1. /\ UNCHANGED <<pc, mode, forwarder, localPort, starting, port, tunVars>>
        /\ cancelled' \in BOOLEAN /\ (cancelled => cancelled')
    BY <1>9 DEF Signal, Commit, Outage, Recover, loopVars, mgrVars
  <2> QED
    BY <2>1 DEF tunVars
<1>10. CASE UNCHANGED vars
  BY <1>10 DEF vars, loopVars, mgrVars, tunVars
<1> QED
  BY <1>1, <1>2, <1>3, <1>4, <1>5, <1>6, <1>7, <1>8, <1>9, <1>10 DEF Next, Select

(* The inductive invariant holds in every reachable state.                 *)
THEOREM Inductive == Spec => []IInv
  BY InitIInv, NextIInv, PTL DEF Spec

-----------------------------------------------------------------------------

(* No stopCh is ever closed twice: reconnection, shutdown and a failing    *)
(* reconnection never panic on a forwarder.                                *)
THEOREM NoDoubleStop == Spec => []StopsOnce
  BY Inductive, PTL DEF IInv

(* The two fields the mutex protects always describe the same tunnel.      *)
THEOREM FieldsAgree == Spec => []PortMatchesForwarder
  BY Inductive, PTL DEF IInv

(* Every push goes through a tunnel that has not been stopped.             *)
THEOREM PushSafe == Spec => []PushOnOwnTunnel
<1>1. IInv => PushOnOwnTunnel
  BY DEF IInv, FieldInv, OpenInv, PushOnOwnTunnel
<1> QED
  BY <1>1, Inductive, PTL

(* Reconnections leak no tunnel, however many there are.                   *)
THEOREM NoLeak == Spec => []NoTunnelLeak
  BY Inductive, PTL DEF IInv

-----------------------------------------------------------------------------
(* The back-off.                                                           *)

(* The delay grows from one to thirty-two units and stays there, so the    *)
(* period of the ticker is bounded however long the errors go on.          *)
LEMMA DelayBounded == ASSUME NEW n \in Nat PROVE BackoffDelay(n) \in 1..36
<1>1. Smaller(n, 5) \in 0..5
  BY DEF Smaller
<1>2. ASSUME NEW k \in 0..5 PROVE 2 ^ k \in {1, 2, 4, 8, 16, 32}
  <2>1. 2 ^ 0 = 1 /\ 2 ^ 1 = 2 /\ 2 ^ 2 = 4 /\ 2 ^ 3 = 8 /\ 2 ^ 4 = 16 /\ 2 ^ 5 = 32
    OBVIOUS
  <2>2. k = 0 \/ k = 1 \/ k = 2 \/ k = 3 \/ k = 4 \/ k = 5
    OBVIOUS
  <2> QED
    BY <2>1, <2>2
<1>3. 2 ^ Smaller(n, 5) \in {1, 2, 4, 8, 16, 32}
  BY <1>1, <1>2
<1> QED
  BY <1>3 DEF BackoffDelay, Smaller

(* Counting errors no further than MaxErrs loses nothing.                  *)
LEMMA DelayStays ==
    ASSUME NEW n \in Nat PROVE BackoffDelay(Smaller(n, MaxErrs)) = BackoffDelay(n)
<1>1. Smaller(Smaller(n, MaxErrs), 5) = Smaller(n, 5)
  BY BoundsOK DEF Smaller
<1> QED
  BY <1>1 DEF BackoffDelay

(* Without errors the ticker runs at its normal pace.                      *)
LEMMA DelayAtRest == BackoffDelay(0) = 1
<1>1. Smaller(0, 5) = 0 /\ 2 ^ 0 = 1
  BY DEF Smaller
<1> QED
  BY <1>1 DEF BackoffDelay, Smaller

(* What the loop counts, and what the commits are.                         *)
CountInv ==
    /\ panicked \in BOOLEAN
    /\ errs \in 0..MaxErrs
    /\ period \in 1..36 /\ zeroed \in BOOLEAN
    /\ server \in {"up", "unreachable", "down"}
    /\ head \in 1..MaxHead
    /\ remote \in 0..head
    /\ BackoffAfterErrors

(* The counts hold at first.                                               *)
LEMMA InitCount == Init => CountInv
<1> SUFFICES ASSUME Init PROVE CountInv
  OBVIOUS
<1>1. panicked \in BOOLEAN /\ zeroed \in BOOLEAN
  BY DEF Init
<1>2. errs \in 0..MaxErrs /\ period \in 1..36
  BY BoundsOK DEF Init
<1>3. head \in 1..MaxHead /\ remote \in 0..head /\ server \in {"up", "unreachable", "down"}
  BY BoundsOK DEF Init
<1>4. BackoffAfterErrors
  <2>1. errs = 0 /\ period = 1
    BY DEF Init
  <2> QED
    BY <2>1, DelayAtRest DEF BackoffAfterErrors
<1> QED
  BY <1>1, <1>2, <1>3, <1>4 DEF CountInv

(* Every step keeps the counts.                                            *)
LEMMA NextCount == CountInv /\ [Next]_vars => CountInv'
<1> SUFFICES ASSUME CountInv, [Next]_vars PROVE CountInv'
  OBVIOUS
<1> USE BoundsOK DEF CountInv, BackoffAfterErrors
<1>1. CASE Up
  BY <1>1 DEF Up, UpFails, ClusterReady, EnsureGitServer, Bootstrapped, StartSyncLoop,
     loopVars, tunVars, envVars
<1>2. CASE MainReturns
  BY <1>2 DEF MainReturns, loopVars, tunVars, envVars
<1>3. CASE SetupTunnel
  <2>1. CASE TunnelReady
    <3>1. \/ UNCHANGED <<errs, period, zeroed>>
          \/ /\ errs' = 0 /\ period' = period
             /\ (errs > 0 /\ zeroed' = TRUE) \/ (errs = 0 /\ zeroed' = zeroed)
      <4>1. \/ UNCHANGED <<errs, period, zeroed>>
            \/ /\ errs' = 0 /\ period' = period
               /\ zeroed' = IF errs > 0 THEN TRUE ELSE zeroed
        BY <2>1, Zenon DEF TunnelReady
      <4>2. CASE errs > 0
        BY <4>1, <4>2
      <4>3. CASE ~(errs > 0)
        <5>1. errs = 0
          BY <4>3
        <5> QED
          BY <4>1, <4>3, <5>1, Zenon
      <4> QED
        BY <4>2, <4>3
    <3>2. zeroed' \in BOOLEAN
      BY <3>1
    <3>3. errs' \in 0..MaxErrs /\ period' \in 1..36
      BY <3>1
    <3>4. BackoffAfterErrors'
      <4>1. CASE UNCHANGED <<errs, period, zeroed>>
        BY <4>1
      <4>2. CASE errs' = 0 /\ zeroed' = TRUE
        BY <4>2
      <4>3. CASE errs' = 0 /\ errs = 0 /\ period' = period /\ zeroed' = zeroed
        BY <4>3
      <4> QED
        BY <3>1, <4>1, <4>2, <4>3
    <3> QED
      BY <2>1, <3>2, <3>3, <3>4 DEF TunnelReady, tunVars, envVars
  <2>2. CASE StartFails \/ StartCancelled \/ \E f \in Tunnels : StartTunnel(f)
    BY <2>2 DEF StartFails, StartTunnel, StartCancelled, loopVars, tunVars, envVars
  <2> QED
    BY <1>3, <2>1, <2>2 DEF SetupTunnel
<1>4. CASE Push
  <2>1. \/ UNCHANGED <<errs, period, zeroed>>
        \/ errs' = 0 /\ zeroed' = zeroed /\ (IF errs > 0 THEN period' = 1 ELSE period' = period)
    BY <1>4 DEF Push
  <2>2. BackoffAfterErrors'
    BY <2>1, DelayAtRest
  <2> QED
    BY <1>4, <2>1, <2>2 DEF Push, tunVars
<1>5. CASE PushFails
  <2>1. CASE mode = "loop"
    <3>1. /\ errs' = Smaller(errs + 1, MaxErrs) /\ period' = BackoffDelay(errs + 1)
          /\ zeroed' = FALSE
      BY <1>5, <2>1 DEF PushFails
    <3>2. errs' \in 0..MaxErrs
      BY <3>1 DEF Smaller
    <3>3. period' \in 1..36
      BY <3>1, DelayBounded
    <3>4. period' = BackoffDelay(errs')
      BY <3>1, DelayStays
    <3> QED
      BY <1>5, <3>2, <3>3, <3>4 DEF PushFails, tunVars, envVars
  <2>2. CASE mode # "loop"
    BY <1>5, <2>2 DEF PushFails, tunVars, envVars
  <2> QED
    BY <2>1, <2>2
<1>6. CASE SyncTick
  BY <1>6 DEF SyncTick, loopVars, tunVars, envVars
<1>7. CASE HealthTick
  BY <1>7 DEF HealthTick, loopVars, envVars, Drop, Stop
<1>8. CASE LoopDone
  BY <1>8 DEF LoopDone, loopVars, envVars, Stop
<1>9. ASSUME NEW f \in Tunnels, ForwardPorts(f) PROVE CountInv'
  BY <1>9 DEF ForwardPorts, Dialed, DialFails, ConnectionLost, ForwardPortsReturns, loopVars, envVars
<1>10. CASE Signal \/ Commit \/ Outage \/ Recover
  BY <1>10 DEF Signal, Commit, Outage, Recover, loopVars, tunVars, envVars
<1>11. CASE UNCHANGED vars
  BY <1>11 DEF vars, loopVars, tunVars, envVars
<1> QED
  BY <1>1, <1>2, <1>3, <1>4, <1>5, <1>6, <1>7, <1>8, <1>9, <1>10, <1>11 DEF Next, Select, Sync

(* The ticker runs at the delay of the errors counted, whatever ticked or  *)
(* was cancelled in between, unless a reconnection has zeroed the count.   *)
THEOREM BackoffKept == Spec => []BackoffAfterErrors
<1>1. Init => CountInv
  BY InitCount
<1>2. CountInv => BackoffAfterErrors
  BY DEF CountInv
<1> QED
  BY <1>1, <1>2, NextCount, PTL DEF Spec

(* Every variable keeps its type, for any number of tunnels and commits.   *)
THEOREM TypeCorrect == Spec => []TypeOK
<1>1. IInv /\ CountInv => TypeOK
  BY DEF IInv, TunnelTypes, CountInv, TypeOK, ProcStates
<1>2. Init => CountInv
  BY InitCount
<1> QED
  BY <1>1, <1>2, NextCount, Inductive, PTL DEF Spec
=============================================================================
