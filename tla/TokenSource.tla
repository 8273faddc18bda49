---------------------------- MODULE TokenSource ----------------------------
(***************************************************************************)
(* What the auto-refreshing transport promises about the tokens it has the *)
(* cloud CLI or SDK produce, whatever the number of goroutines that share  *)
(* it: a token is generated only once the previous one is within Margin of *)
(* its recorded expiry.  Each generation runs an external process or a     *)
(* network call, so this is what the cache and its mutex are for.          *)
(* TokenRefresh is the detailed specification that implements this one.    *)
(***************************************************************************)
EXTENDS Naturals, Sequences

CONSTANTS Margin,      \* tokenMargin of pkg/cloud/token_cache.go
          Lifetimes,   \* remaining lifetimes a generated token can claim
          MaxTime,     \* bound on the clock
          MaxTokens    \* bound on the number of tokens generated

VARIABLES now,         \* the wall clock
          issued       \* the tokens generated so far, oldest first

SourceVars == <<now, issued>>

Token(at, lifetime) == [at |-> at, exp |-> at + lifetime]

\* Too close to the recorded expiry of token i for the cache to return it.
Stale(i) == now + Margin > issued[i].exp

SourceInit ==
    /\ now = 0
    /\ \E l \in Lifetimes : issued = <<Token(0, l)>>

Tick ==
    /\ now < MaxTime
    /\ now' = now + 1
    /\ issued' = issued

Issue(l) ==
    /\ Len(issued) < MaxTokens
    /\ Stale(Len(issued))
    /\ issued' = Append(issued, Token(now, l))
    /\ now' = now

SourceNext == Tick \/ \E l \in Lifetimes : Issue(l)

SourceSpec == SourceInit /\ [][SourceNext]_SourceVars
=============================================================================
