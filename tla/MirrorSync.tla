----------------------------- MODULE MirrorSync -----------------------------
(***************************************************************************)
(* `yby up` on a local cluster: pkg/services/environment brings the        *)
(* cluster up and starts the sync loop of pkg/mirror, which pushes HEAD to *)
(* the git server in the cluster through a port-forward tunnel, checks the *)
(* tunnel and reconnects it through pkg/retry.                             *)
(*                                                                         *)
(* The threads are the one that runs runLocalUp and then the sync loop     *)
(* (main only waits once the loop runs), one goroutine per tunnel          *)
(* (ForwardPorts) and the signal handler.  Time is not counted: a ticker   *)
(* may fire whenever the loop is in its select, and a retry may run out of *)
(* its five minutes after any failed attempt.  A local port is known by    *)
(* the tunnel that listens on it.                                          *)
(***************************************************************************)
EXTENDS Naturals

CONSTANTS Tunnels,     \* identities for the port forwarders, reused once closed
          None,        \* no forwarder, no port
          MaxHead,     \* bound on the commits of the working copy
          MaxErrs      \* consecutiveErrs is not counted further than this

ASSUME BoundsOK ==
    /\ None \notin Tunnels
    /\ MaxHead \in Nat /\ MaxHead >= 1    \* Init: a working copy with a commit
    /\ MaxErrs \in Nat /\ MaxErrs >= 5     \* backoffDelay is constant from 5 on

VARIABLES pc,          \* where the main thread, then the loop, is
          mode,        \* "up": runLocalUp; "first": initial sync of the loop; "loop"
          cancelled,   \* the context was cancelled by a signal
          forwarder,   \* MirrorManager.forwarder
          localPort,   \* MirrorManager.localPort
          starting,    \* the forwarder whose Start is running
          port,        \* the port Sync read before it pushes
          proc,        \* each tunnel's ForwardPorts goroutine
          stopped,     \* each tunnel's stopCh is closed
          panicked,    \* a stopCh was closed twice
          errs,        \* consecutiveErrs
          period,      \* period of syncTicker, in units of syncInterval (5s)
          zeroed,      \* history: a reconnection has reset errs, not period
          server,      \* the git server: up, unreachable, or its pod is down
          head,        \* last commit of the working copy
          remote       \* commit the git server has, 0 when its volume is new

loopVars == <<mode, errs, period, zeroed>>
mgrVars == <<forwarder, localPort, starting, port>>
tunVars == <<proc, stopped, panicked>>
envVars == <<server, head, remote>>
vars == <<pc, loopVars, cancelled, mgrVars, tunVars, envVars>>

Locations == {"cluster", "server", "start", "waiting", "push", "bootstrap",
              "converge", "select", "exited"}

TypeOK ==
    /\ pc \in Locations
    /\ mode \in {"up", "first", "loop"}
    /\ cancelled \in BOOLEAN /\ panicked \in BOOLEAN
    /\ {forwarder, localPort, starting, port} \subseteq Tunnels \union {None}
    /\ proc \in [Tunnels -> {"dialing", "ready", "halfopen", "ended", "closed"}]
    /\ stopped \in [Tunnels -> BOOLEAN]
    /\ errs \in 0..MaxErrs
    /\ period \in 1..36 /\ zeroed \in BOOLEAN
    /\ server \in {"up", "unreachable", "down"}
    /\ head \in 1..MaxHead
    /\ remote \in 0..head

Init ==
    /\ pc = "cluster" /\ mode = "up" /\ cancelled = FALSE
    /\ forwarder = None /\ localPort = None /\ starting = None /\ port = None
    /\ proc = [f \in Tunnels |-> "closed"]
    /\ stopped = [f \in Tunnels |-> FALSE]
    /\ panicked = FALSE
    /\ errs = 0 /\ period = 1 /\ zeroed = FALSE
    /\ server = "down" /\ head = 1 /\ remote = 0

-----------------------------------------------------------------------------
(* backoffDelay in units of 5s: doubles with every error, at most 2^5; the *)
(* cap of three minutes (36 units) is never reached.                       *)

Smaller(a, b) == IF a < b THEN a ELSE b

BackoffUncapped(n) == 2 ^ n     \* mutant: the shift is not limited

BackoffDelay(n) == Smaller(2 ^ Smaller(n, 5), 36)

(* PortForwarder.Stop: closing a closed channel panics.                    *)
Stop(f) ==
    /\ stopped' = [stopped EXCEPT ![f] = TRUE]
    /\ panicked' = (panicked \/ stopped[f])

Forget == forwarder' = None /\ localPort' = None

DropKeepsForwarder(f) == Stop(f) /\ localPort' = None /\ forwarder' = f  \* mutant
DropKeepsPort(f) == Stop(f) /\ forwarder' = None /\ localPort' = f      \* mutant
DropRunning(f) == Forget /\ UNCHANGED <<stopped, panicked>>              \* mutant

(* What reconnect does with the forwarder it replaces.                     *)
Drop(f) == Stop(f) /\ Forget

Goto(from, to) == pc = from /\ pc' = to

-----------------------------------------------------------------------------
(* runLocalUp, before and after the tunnel.  Any step may fail, and a      *)
(* failure ends the process.                                               *)

UpFails ==
    /\ mode = "up"
    /\ pc \in {"cluster", "server", "bootstrap"}
    /\ pc' = "exited"
    /\ UNCHANGED <<loopVars, cancelled, mgrVars, tunVars, envVars>>

ClusterReady ==
    /\ Goto("cluster", "server")
    /\ ~cancelled
    /\ UNCHANGED <<loopVars, cancelled, mgrVars, tunVars, envVars>>

(* EnsureGitServer returns once the rollout of the git server is complete. *)
EnsureGitServer ==
    /\ Goto("server", "start")
    /\ server = "up"
    /\ UNCHANGED <<loopVars, cancelled, mgrVars, tunVars, envVars>>

Bootstrapped ==
    /\ Goto("bootstrap", "converge")
    /\ UNCHANGED <<loopVars, cancelled, mgrVars, tunVars, envVars>>

(* WaitHealthy only warns; the loop starts and begins with a sync.  From   *)
(* here on main is waiting for the context.                                *)
StartSyncLoop ==
    /\ Goto("converge", "push")
    /\ mode' = "first"
    /\ port' = localPort
    /\ UNCHANGED <<errs, period, zeroed, cancelled, forwarder, localPort, starting,
                   tunVars, envVars>>

MainReturns ==
    /\ mode # "up" /\ cancelled
    /\ pc # "exited" /\ pc' = "exited"
    /\ UNCHANGED <<loopVars, cancelled, mgrVars, tunVars, envVars>>

-----------------------------------------------------------------------------
(* SetupTunnel and PortForwarder.Start.                                    *)

(* The factory, ListPods or CreateTunnel fails: no pod is running, or the  *)
(* context is gone.  runLocalUp gives up; reconnect retries while its five *)
(* minutes and its context last, and then returns to the loop.             *)
StartFails ==
    /\ pc = "start"
    /\ server # "up" \/ cancelled
    /\ \/ mode = "up" /\ pc' = "exited"
       \/ mode = "loop" /\ pc' = "select"
       \/ mode = "loop" /\ ~cancelled /\ pc' = "start"
    /\ UNCHANGED <<loopVars, cancelled, mgrVars, tunVars, envVars>>

StartTunnel(f) ==
    /\ Goto("start", "waiting")
    /\ server = "up" /\ ~cancelled
    /\ f # forwarder /\ proc[f] \in {"ended", "closed"}
    /\ starting' = f
    /\ proc' = [proc EXCEPT ![f] = "dialing"]
    /\ stopped' = [stopped EXCEPT ![f] = FALSE]
    /\ UNCHANGED <<loopVars, cancelled, forwarder, localPort, port, panicked, envVars>>

(* readyCh: SetupTunnel records the forwarder and its port under mu.  The  *)
(* channel stays closed when the goroutine has ended in the meantime.      *)
TunnelReady ==
    /\ pc = "waiting"
    /\ proc[starting] \in {"ready", "halfopen", "ended"}
    /\ forwarder' = starting /\ localPort' = starting /\ starting' = None
    /\ \/ mode = "up" /\ pc' = "push" /\ port' = starting /\ UNCHANGED <<errs, zeroed>>
       \/ /\ mode = "loop" /\ pc' = "select" /\ port' = port
          /\ errs' = 0 /\ zeroed' = IF errs > 0 THEN TRUE ELSE zeroed
    /\ UNCHANGED <<mode, period, cancelled, tunVars, envVars>>

StartIgnoresCancel == FALSE     \* mutant: the wait has no ctx.Done case

(* ctx.Done: Start returns an error and nobody owns the new tunnel.        *)
StartCancelled ==
    /\ pc = "waiting"
    /\ cancelled
    /\ starting' = None
    /\ pc' = IF mode = "up" THEN "exited" ELSE "select"
    /\ UNCHANGED <<loopVars, cancelled, forwarder, localPort, port, tunVars, envVars>>

-----------------------------------------------------------------------------
(* Sync: reads the port under mu, then pushes.                             *)

Reachable == port # None /\ proc[port] = "ready" /\ server = "up"

AfterPush == pc' = IF mode = "up" THEN "bootstrap" ELSE "select"

Push ==
    /\ pc = "push"
    /\ Reachable
    /\ remote' = head
    /\ AfterPush
    /\ port' = None
    /\ mode' = IF mode = "first" THEN "loop" ELSE mode
    /\ IF mode = "loop" THEN errs' = 0 ELSE errs' = errs
    /\ IF mode = "loop" /\ errs > 0 THEN period' = 1 ELSE period' = period
    /\ UNCHANGED <<zeroed, cancelled, forwarder, localPort, starting, tunVars, server, head>>

PushFailsNoReset ==             \* mutant: the ticker keeps its period
    /\ pc = "push" /\ AfterPush
    /\ port' = None /\ UNCHANGED <<period, zeroed>>
    /\ mode' = IF mode = "first" THEN "loop" ELSE mode
    /\ errs' = IF mode = "loop" THEN Smaller(errs + 1, MaxErrs) ELSE errs
    /\ UNCHANGED <<cancelled, forwarder, localPort, starting, tunVars, envVars>>

(* No tunnel, or git push fails, through a broken tunnel or for a reason   *)
(* of its own: only the ticker's syncs count as errors.                    *)
PushFails ==
    /\ pc = "push"
    /\ AfterPush
    /\ port' = None
    /\ mode' = IF mode = "first" THEN "loop" ELSE mode
    /\ IF mode = "loop"
       THEN /\ errs' = Smaller(errs + 1, MaxErrs)
            /\ period' = BackoffDelay(errs + 1) /\ zeroed' = FALSE
       ELSE UNCHANGED <<errs, period, zeroed>>
    /\ UNCHANGED <<cancelled, forwarder, localPort, starting, tunVars, envVars>>

-----------------------------------------------------------------------------
(* The select of StartSyncLoop.                                            *)

SyncTick ==
    /\ Goto("select", "push")
    /\ port' = localPort
    /\ UNCHANGED <<loopVars, cancelled, forwarder, localPort, starting, tunVars, envVars>>

(* The health check dials the local port: it fails on a closed listener,   *)
(* and may time out on a live one.  reconnect drops the old forwarder      *)
(* before it tries to set up a new tunnel.                                 *)
Unhealthy(f) == f # None /\ proc[f] \in {"ended", "closed"}

NeverUnhealthy == FALSE         \* mutant: a failed check is ignored

HealthTick ==
    /\ Goto("select", "start")
    /\ forwarder # None
    /\ Drop(forwarder)
    /\ UNCHANGED <<loopVars, cancelled, starting, port, proc, envVars>>

(* ctx.Done: the loop ends, and main with it.                              *)
LoopDone ==
    /\ Goto("select", "exited")
    /\ cancelled
    /\ IF forwarder # None THEN Stop(forwarder) ELSE UNCHANGED <<stopped, panicked>>
    /\ UNCHANGED <<loopVars, cancelled, mgrVars, proc, envVars>>

-----------------------------------------------------------------------------
(* The goroutine of a tunnel.  Its error is ignored.                       *)

SetProc(f, from, to) == proc[f] = from /\ proc' = [proc EXCEPT ![f] = to]

Dialed(f) ==
    /\ SetProc(f, "dialing", "ready")
    /\ server = "up" /\ ~stopped[f]
    /\ UNCHANGED <<pc, loopVars, cancelled, mgrVars, stopped, panicked, envVars>>

DialFails(f) ==
    /\ SetProc(f, "dialing", "closed")
    /\ UNCHANGED <<pc, loopVars, cancelled, mgrVars, stopped, panicked, envVars>>

(* The connection to the pod is gone; the listener does not know yet.      *)
ConnectionLost(f) ==
    /\ SetProc(f, "ready", "halfopen")
    /\ UNCHANGED <<pc, loopVars, cancelled, mgrVars, stopped, panicked, envVars>>

ForwardPortsReturns(f) ==
    /\ \/ SetProc(f, "halfopen", "ended")
       \/ stopped[f] /\ SetProc(f, "ready", "ended")
    /\ UNCHANGED <<pc, loopVars, cancelled, mgrVars, stopped, panicked, envVars>>

-----------------------------------------------------------------------------
(* The environment.                                                        *)

Signal ==
    /\ ~cancelled
    /\ cancelled' = TRUE
    /\ UNCHANGED <<pc, loopVars, mgrVars, tunVars, envVars>>

Commit ==
    /\ head < MaxHead
    /\ head' = head + 1
    /\ UNCHANGED <<pc, loopVars, cancelled, mgrVars, tunVars, server, remote>>

(* A new pod has an empty volume (emptyDir); a network outage keeps it.    *)
Outage ==
    /\ server = "up"
    /\ \/ server' = "unreachable" /\ remote' = remote
       \/ server' = "down" /\ remote' = 0
    /\ UNCHANGED <<pc, loopVars, cancelled, mgrVars, tunVars, head>>

Recover ==
    /\ server # "up"
    /\ server' = "up"
    /\ UNCHANGED <<pc, loopVars, cancelled, mgrVars, tunVars, head, remote>>

SetupTunnel == StartFails \/ (\E f \in Tunnels : StartTunnel(f)) \/ TunnelReady \/ StartCancelled
Sync == Push \/ PushFails
Up == UpFails \/ ClusterReady \/ EnsureGitServer \/ Bootstrapped \/ StartSyncLoop
Select == SyncTick \/ HealthTick \/ LoopDone
ForwardPorts(f) == Dialed(f) \/ DialFails(f) \/ ConnectionLost(f) \/ ForwardPortsReturns(f)

Next ==
    \/ Up \/ MainReturns \/ SetupTunnel \/ Sync \/ Select
    \/ \E f \in Tunnels : ForwardPorts(f)
    \/ Signal \/ Commit \/ Outage \/ Recover

Spec == Init /\ [][Next]_vars

(* The thread runs, a dial ends one way or the other, a broken connection  *)
(* is noticed (client-go pings it), and a stopped tunnel ends.  Go's       *)
(* select picks at random among the ready cases, so no case that is ready  *)
(* again and again is passed over for ever: strong fairness of each.       *)
Fairness ==
    /\ WF_vars(Up) /\ WF_vars(MainReturns) /\ WF_vars(SetupTunnel) /\ WF_vars(Sync)
    /\ SF_vars(SyncTick) /\ SF_vars(HealthTick /\ Unhealthy(forwarder)) /\ SF_vars(LoopDone)
    /\ \A f \in Tunnels : WF_vars(Dialed(f) \/ DialFails(f)) /\ WF_vars(ForwardPortsReturns(f))

FairSpec == Spec /\ Fairness

-----------------------------------------------------------------------------
(* Properties.                                                             *)

(* stopCh is closed once: neither a reconnection nor a shutdown stops a    *)
(* forwarder that was stopped before (closing it again would panic).       *)
StopsOnce == ~panicked

(* forwarder and localPort, written in separate places, always agree: the  *)
(* health check and the sync look at the same tunnel.                      *)
PortMatchesForwarder == localPort = forwarder

(* A push never goes to the port of a tunnel that reconnect has stopped    *)
(* (another process may own that port by then).                            *)
PushOnOwnTunnel ==
    pc = "push" /\ port # None => port = forwarder /\ ~stopped[port]

(* No tunnel is leaked: however the reconnections go, one that still runs  *)
(* is the current one, the one being started, or was stopped.  Only the    *)
(* end of the process may leave one behind.                                *)
NoTunnelLeak ==
    \A f \in Tunnels :
        proc[f] \notin {"ended", "closed"} /\ ~stopped[f] =>
            f \in {forwarder, starting} \/ cancelled

(* The ticker runs at the delay of as many errors as are counted, at its   *)
(* normal pace when there are none.  One thing alone leaves it slow: a     *)
(* reconnection forgets the errors and the next success sees none to end.  *)
BackoffAfterErrors == period = BackoffDelay(errs) \/ (errs = 0 /\ zeroed)

(* Ctrl-C always ends the program, wherever it is and whatever the state   *)
(* of cluster and tunnel.                                                  *)
CancelEnds == cancelled ~> pc = "exited"

(* The two states the loop never leaves by itself: reconnection given up,  *)
(* and Start waiting for a tunnel whose goroutine has already failed.      *)
GaveUp == mode = "loop" /\ pc = "select" /\ forwarder = None
Hung == pc = "waiting" /\ proc[starting] = "closed"

Serving == mode = "loop" /\ ~cancelled
Calm == server = "up" /\ \A f \in Tunnels : proc[f] # "halfopen"
PushesSucceed == <>[][~(Reachable /\ PushFails)]_vars

(* Once cluster and network are calm and git push has no trouble of its    *)
(* own, the git server ends up with the last commit, unless the loop ran   *)
(* into one of its two dead ends.                                          *)
ConvergesUnlessStuck ==
    <>[](Serving /\ Calm /\ ~GaveUp /\ ~Hung) /\ PushesSucceed => <>[](remote = head)

(* cmd/up.go:28 promises that up keeps the automatic synchronisation: the  *)
(* same without the exception for a reconnection that was given up.        *)
KeepsSyncing ==
    <>[](Serving /\ Calm /\ ~Hung) /\ PushesSucceed => <>[](remote = head)
=============================================================================
