---------------------------- MODULE TokenRefresh ----------------------------
(***************************************************************************)
(* pkg/cloud: TokenCache and AutoRefreshTransport, the http.RoundTripper   *)
(* that every Kubernetes client of a plugin shares (pkg/plugin/sdk).  The  *)
(* goroutines that issue requests share one cache; refreshToken serialises *)
(* the generation of a new token with a mutex and re-checks the cache once *)
(* it holds it.                                                            *)
(*                                                                         *)
(* A token is known by its position in issued.  The server answers 401 to  *)
(* a token that is past its recorded expiry or that it rejects for another *)
(* reason (revocation, or a recorded expiry later than the real one, which *)
(* gcp_token_stub.go produces by always recording one hour).               *)
(***************************************************************************)
EXTENDS Naturals, Sequences

CONSTANTS Callers,     \* goroutines that call RoundTrip
          Free,        \* the mutex has no holder
          Margin, Lifetimes, MaxTime, MaxTokens

ASSUME ConstantsOK ==
    /\ Margin \in Nat /\ MaxTime \in Nat /\ MaxTokens \in Nat
    /\ Lifetimes \subseteq Nat
    /\ Free \notin Callers

VARIABLES now, issued,
          rejected,    \* tokens the server no longer accepts
          cache,       \* position of the cached token, 0 when there is none
          lock,        \* holder of AutoRefreshTransport.mu
          pc,          \* where each goroutine is in RoundTrip
          tok,         \* the token the goroutine works with, 0 when none
          refused      \* the token whose 401 made RoundTrip refresh, 0 when none

vars == <<now, issued, rejected, cache, lock, pc, tok, refused>>

INSTANCE TokenSource

Locations == {"idle", "get", "lock", "recheck", "generate", "store", "send"}

TypeOK ==
    /\ now \in Nat
    /\ issued \in Seq([at : Nat, exp : Nat])
    /\ rejected \subseteq 1..Len(issued)
    /\ cache \in 0..Len(issued)
    /\ lock \in Callers \union {Free}
    /\ pc \in [Callers -> Locations]
    /\ tok \in [Callers -> 0..Len(issued)]
    /\ refused \in [Callers -> 0..Len(issued)]

-----------------------------------------------------------------------------
(* TokenCache.Get: a token within Margin of its expiry counts as absent.   *)

Cached == cache # 0 /\ ~Stale(cache)

(* sdk_k8s.go generates the first token and stores it before any request.  *)
Init ==
    /\ SourceInit
    /\ rejected = {}
    /\ cache = 1
    /\ lock = Free
    /\ pc = [c \in Callers |-> "idle"]
    /\ tok = [c \in Callers |-> 0]
    /\ refused = [c \in Callers |-> 0]

Goto(c, from, to) == pc[c] = from /\ pc' = [pc EXCEPT ![c] = to]

(* RoundTrip returns to its caller, whatever the outcome.                  *)
Finish(c, from) ==
    /\ Goto(c, from, "idle")
    /\ tok' = [tok EXCEPT ![c] = 0]
    /\ refused' = [refused EXCEPT ![c] = 0]

-----------------------------------------------------------------------------
(* RoundTrip, up to the first request.                                     *)

Begin(c) ==
    /\ Goto(c, "idle", "get")
    /\ UNCHANGED <<now, issued, rejected, cache, lock, tok, refused>>

(* getToken: a hit costs no lock, a miss goes through refreshToken.        *)
GetHit(c) ==
    /\ Cached
    /\ Goto(c, "get", "send")
    /\ tok' = [tok EXCEPT ![c] = cache]
    /\ UNCHANGED <<now, issued, rejected, cache, lock, refused>>

GetMiss(c) ==
    /\ ~Cached
    /\ Goto(c, "get", "lock")
    /\ UNCHANGED <<now, issued, rejected, cache, lock, tok, refused>>

-----------------------------------------------------------------------------
(* refreshToken.                                                           *)

LockUnheld(c) ==            \* mutant: no mutual exclusion
    /\ Goto(c, "lock", "recheck")
    /\ lock' = c
    /\ UNCHANGED <<now, issued, rejected, cache, tok, refused>>

Lock(c) ==
    /\ lock = Free
    /\ Goto(c, "lock", "recheck")
    /\ lock' = c
    /\ UNCHANGED <<now, issued, rejected, cache, tok, refused>>

RecheckHit(c) ==
    /\ Cached
    /\ Goto(c, "recheck", "send")
    /\ tok' = [tok EXCEPT ![c] = cache]
    /\ lock' = Free
    /\ UNCHANGED <<now, issued, rejected, cache, refused>>

RecheckSkipped(c) ==        \* mutant: no second look at the cache
    /\ Goto(c, "recheck", "generate")
    /\ cache' = 0
    /\ UNCHANGED <<now, issued, rejected, lock, tok, refused>>

RecheckMiss(c) ==
    /\ ~Cached
    /\ Goto(c, "recheck", "generate")
    /\ cache' = 0
    /\ UNCHANGED <<now, issued, rejected, lock, tok, refused>>

(* GenerateToken returns a token; the clock and the other goroutines may   *)
(* have moved since RecheckMiss.                                           *)
GeneratedNil(c, l) ==       \* mutant: a nil token taken for a success
    /\ Goto(c, "generate", "store")
    /\ tok' = [tok EXCEPT ![c] = Len(issued) + 1]
    /\ UNCHANGED <<now, issued, rejected, cache, lock, refused>>

Generated(c, l) ==
    /\ Len(issued) < MaxTokens
    /\ Goto(c, "generate", "store")
    /\ issued' = Append(issued, Token(now, l))
    /\ tok' = [tok EXCEPT ![c] = Len(issued) + 1]
    /\ UNCHANGED <<now, rejected, cache, lock, refused>>

GenerateFailedHeld(c) ==    \* mutant: the error path keeps the mutex
    /\ Finish(c, "generate")
    /\ UNCHANGED <<now, issued, rejected, cache, lock>>

GenerateFailed(c) ==
    /\ Finish(c, "generate")
    /\ lock' = Free
    /\ UNCHANGED <<now, issued, rejected, cache>>

Store(c) ==
    /\ Goto(c, "store", "send")
    /\ cache' = tok[c]
    /\ lock' = Free
    /\ UNCHANGED <<now, issued, rejected, tok, refused>>

-----------------------------------------------------------------------------
(* base.RoundTrip and what RoundTrip makes of the answer.                  *)

Unauthorized(c) == tok[c] \in rejected \/ now > issued[tok[c]].exp

(* A 401 to the first request of a RoundTrip: refresh and repeat.          *)
Retry(c) ==
    /\ Goto(c, "send", "lock")
    /\ Unauthorized(c)
    /\ refused[c] = 0
    /\ refused' = [refused EXCEPT ![c] = tok[c]]
    /\ UNCHANGED <<now, issued, rejected, cache, lock, tok>>

(* Any other answer, or an error of base, is returned as it comes: an      *)
(* error may always happen, so the token sets no guard here.               *)
Answer(c) ==
    /\ Finish(c, "send")
    /\ UNCHANGED <<now, issued, rejected, cache, lock>>

-----------------------------------------------------------------------------
(* The environment: the clock, and the server's opinion of a token.        *)

Advance ==
    /\ Tick
    /\ UNCHANGED <<rejected, cache, lock, pc, tok, refused>>

Reject(i) ==
    /\ i \in 1..Len(issued) \ rejected
    /\ rejected' = rejected \union {i}
    /\ UNCHANGED <<now, issued, cache, lock, pc, tok, refused>>

Generate(c) == GenerateFailed(c) \/ \E l \in Lifetimes : Generated(c, l)

Proceed(c) ==
    \/ GetHit(c) \/ GetMiss(c) \/ RecheckHit(c) \/ RecheckMiss(c)
    \/ Generate(c) \/ Store(c) \/ Retry(c) \/ Answer(c)

Next ==
    \/ Advance
    \/ \E i \in 1..Len(issued) : Reject(i)
    \/ \E c \in Callers : Begin(c) \/ Lock(c) \/ Proceed(c)

Spec == Init /\ [][Next]_vars

(* A goroutine that can run does run, the generator and the server answer, *)
(* and sync.Mutex hands itself to a waiter that would starve (its          *)
(* starvation mode), hence strong fairness of Lock.  No request has to be  *)
(* issued, and the environment owes nothing.                               *)
Fairness == \A c \in Callers : WF_vars(Proceed(c)) /\ SF_vars(Lock(c))

FairSpec == Spec /\ Fairness

-----------------------------------------------------------------------------
(* Properties.                                                             *)

(* refreshToken never has two generations in flight, nor one in flight     *)
(* while another result waits to be stored.                                *)
OneGenerationInFlight ==
    \A c, d \in Callers :
        pc[c] \in {"generate", "store"} /\ pc[d] \in {"generate", "store"}
            => c = d

(* A stampede of goroutines that all miss, or that all get a 401, makes at *)
(* most one token per expiry: consecutive tokens never overlap by more     *)
(* than the margin.                                                        *)
TokensDoNotOverlap ==
    \A i \in 1..Len(issued) - 1 : issued[i].exp < issued[i + 1].at + Margin

(* The retry after a 401 never goes back to an older token than the one    *)
(* that was refused, however the refreshes of other goroutines interleave. *)
RetryNotOlder ==
    \A c \in Callers : pc[c] = "send" => refused[c] <= tok[c]

(* Every RoundTrip returns: no goroutine is left behind by the mutex, by   *)
(* the re-check or by a generation that failed in another goroutine.       *)
RoundTripReturns ==
    \A c \in Callers : (pc[c] # "idle") ~> (pc[c] = "idle")

(* The transport implements the abstract token source.                     *)
ImplementsTokenSource == SourceSpec

(* token_refresh.go:19 says that a 401 invalidates the cache, generates a  *)
(* new token and repeats the request: the second request would never carry *)
(* the token that was just refused.                                        *)
RetryUsesNewToken ==
    \A c \in Callers : pc[c] = "send" => tok[c] # refused[c]
=============================================================================
