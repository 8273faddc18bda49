------------------------ MODULE TokenRefresh_proofs ------------------------
(***************************************************************************)
(* Proofs about TokenRefresh: its invariants for any number of goroutines, *)
(* tokens and lifetimes, and that it implements TokenSource.               *)
(***************************************************************************)
EXTENDS TokenRefresh, SequenceTheorems, TLAPS

Holding == {"recheck", "generate", "store"}

(* The mutex is held exactly by the goroutine inside refreshToken.         *)
LockInv == \A c \in Callers : pc[c] \in Holding <=> lock = c

(* The cache holds the newest token or nothing.                            *)
CacheInv ==
    /\ Len(issued) > 0
    /\ cache \in {0, Len(issued)}

(* What the holder of the mutex knows while it generates and stores.       *)
HolderInv ==
    \A c \in Callers :
        /\ pc[c] \in {"generate", "store"} => cache = 0
        /\ pc[c] = "generate" => Stale(Len(issued))
        /\ pc[c] = "store" => tok[c] = Len(issued)

(* A missing token was dropped because it was stale, or is being stored.   *)
EmptyInv ==
    cache = 0 => Stale(Len(issued)) \/ \E c \in Callers : pc[c] = "store"

IInv ==
    /\ TypeOK
    /\ LockInv
    /\ CacheInv
    /\ HolderInv
    /\ EmptyInv
    /\ TokensDoNotOverlap
    /\ RetryNotOlder

-----------------------------------------------------------------------------

(* The invariant holds at first.                                           *)
LEMMA InitIInv == Init => IInv
<1> SUFFICES ASSUME Init PROVE IInv
  OBVIOUS
<1> USE ConstantsOK
<1>1. PICK l \in Lifetimes : issued = <<[at |-> 0, exp |-> l]>>
  BY DEF Init, SourceInit, Token
<1>2. Len(issued) = 1 /\ issued \in Seq([at : Nat, exp : Nat])
  BY <1>1
<1>3. TypeOK
  BY <1>2 DEF Init, SourceInit, TypeOK, Locations
<1>4. LockInv /\ CacheInv /\ HolderInv /\ EmptyInv
  BY <1>2 DEF Init, LockInv, CacheInv, HolderInv, EmptyInv, Holding
<1>5. TokensDoNotOverlap /\ RetryNotOlder
  BY <1>2 DEF Init, TokensDoNotOverlap, RetryNotOlder
<1> QED
  BY <1>3, <1>4, <1>5 DEF IInv

(* Every step keeps the invariant.                                         *)
LEMMA NextIInv == IInv /\ [Next]_vars => IInv'
<1> SUFFICES ASSUME IInv, [Next]_vars PROVE IInv'
  OBVIOUS
<1> USE ConstantsOK
<1> USE DEF IInv
<1>1. CASE Advance
  <2>1. /\ now \in Nat /\ now' = now + 1
        /\ UNCHANGED <<issued, rejected, cache, lock, pc, tok, refused>>
    BY <1>1 DEF Advance, Tick, TypeOK
  <2>2. TypeOK'
    BY <2>1 DEF TypeOK
  <2>3. Stale(Len(issued)) => Stale(Len(issued))'
    <3>1. issued[Len(issued)].exp \in Nat
      <4>1. issued \in Seq([at : Nat, exp : Nat]) /\ Len(issued) > 0
        BY DEF TypeOK, CacheInv
      <4>2. Len(issued) \in 1..Len(issued)
        BY <4>1
      <4>3. issued[Len(issued)] \in [at : Nat, exp : Nat]
        BY <4>1, <4>2, ElementOfSeq
      <4> QED
        BY <4>3
    <3> QED
      BY <2>1, <3>1 DEF Stale
  <2>4. HolderInv' /\ EmptyInv'
    BY <2>1, <2>3 DEF HolderInv, EmptyInv
  <2> QED
    BY <2>1, <2>2, <2>4 DEF LockInv, CacheInv, TokensDoNotOverlap, RetryNotOlder
<1>2. ASSUME NEW i \in 1..Len(issued), Reject(i) PROVE IInv'
  BY <1>2 DEF Reject, TypeOK, LockInv, CacheInv, HolderInv, EmptyInv,
     TokensDoNotOverlap, RetryNotOlder, Stale
<1>3. ASSUME NEW c \in Callers, Begin(c) PROVE IInv'
  BY <1>3 DEF Begin, Goto, TypeOK, LockInv, CacheInv, HolderInv, EmptyInv,
     TokensDoNotOverlap, RetryNotOlder, Stale, Holding, Locations
<1>4. ASSUME NEW c \in Callers, Lock(c) PROVE IInv'
  BY <1>4 DEF Lock, Goto, TypeOK, LockInv, CacheInv, HolderInv, EmptyInv,
     TokensDoNotOverlap, RetryNotOlder, Stale, Holding, Locations
<1>5. ASSUME NEW c \in Callers, GetHit(c) PROVE IInv'
  BY <1>5 DEF GetHit, Cached, Goto, TypeOK, LockInv, CacheInv, HolderInv, EmptyInv,
     TokensDoNotOverlap, RetryNotOlder, Stale, Holding, Locations
<1>6. ASSUME NEW c \in Callers, GetMiss(c) PROVE IInv'
  BY <1>6 DEF GetMiss, Goto, TypeOK, LockInv, CacheInv, HolderInv, EmptyInv,
     TokensDoNotOverlap, RetryNotOlder, Stale, Holding, Locations
<1>7. ASSUME NEW c \in Callers, RecheckHit(c) PROVE IInv'
  BY <1>7 DEF RecheckHit, Cached, Goto, TypeOK, LockInv, CacheInv, HolderInv, EmptyInv,
     TokensDoNotOverlap, RetryNotOlder, Stale, Holding, Locations
<1>8. ASSUME NEW c \in Callers, RecheckMiss(c) PROVE IInv'
  <2>1. \A d \in Callers : pc[d] = "store" => d = c
    BY <1>8 DEF RecheckMiss, Goto, LockInv, Holding
  <2>2. Stale(Len(issued))
    BY <1>8, <2>1 DEF RecheckMiss, Goto, Cached, CacheInv, EmptyInv
  <2> QED
    BY <1>8, <2>1, <2>2 DEF RecheckMiss, Goto, TypeOK, LockInv, CacheInv, HolderInv,
       EmptyInv, TokensDoNotOverlap, RetryNotOlder, Stale, Holding, Locations
<1>9. ASSUME NEW c \in Callers, NEW l \in Lifetimes, Generated(c, l) PROVE IInv'
  <2>1. /\ issued' \in Seq([at : Nat, exp : Nat])
        /\ Len(issued') = Len(issued) + 1
        /\ \A i \in 1..Len(issued) : issued'[i] = issued[i]
        /\ issued'[Len(issued) + 1] = [at |-> now, exp |-> now + l]
    BY <1>9 DEF Generated, Token, TypeOK
  <2>2. \A d \in Callers : d # c => pc[d] \notin Holding
    BY <1>9 DEF Generated, Goto, LockInv, Holding
  <2>3. Stale(Len(issued)) /\ cache = 0
    BY <1>9 DEF Generated, Goto, HolderInv
  <2>4. TypeOK'
    <3>1. 1..Len(issued) \subseteq 1..Len(issued') /\ 0..Len(issued) \subseteq 0..Len(issued')
      BY <2>1
    <3>2. tok' \in [Callers -> 0..Len(issued')] /\ refused' \in [Callers -> 0..Len(issued')]
      BY <1>9, <2>1, <3>1 DEF Generated, TypeOK
    <3>3. pc' \in [Callers -> Locations] /\ cache' \in 0..Len(issued')
      BY <1>9, <3>1 DEF Generated, Goto, TypeOK, Locations
    <3> QED
      BY <1>9, <2>1, <3>1, <3>2, <3>3 DEF Generated, TypeOK
  <2>5. LockInv' /\ CacheInv' /\ RetryNotOlder'
    <3>1. LockInv'
      BY <1>9 DEF Generated, Goto, TypeOK, LockInv, Holding
    <3>2. CacheInv'
      BY <1>9, <2>1, <2>3 DEF Generated, CacheInv
    <3>3. RetryNotOlder'
      BY <1>9 DEF Generated, Goto, TypeOK, RetryNotOlder
    <3> QED
      BY <3>1, <3>2, <3>3
  <2>6. HolderInv' /\ EmptyInv'
    BY <1>9, <2>1, <2>2, <2>3 DEF Generated, Goto, TypeOK, HolderInv, EmptyInv, Holding
  <2>7. TokensDoNotOverlap'
    <3> SUFFICES ASSUME NEW i \in 1..Len(issued)
                 PROVE  issued'[i].exp < issued'[i + 1].at + Margin
      BY <2>1 DEF TokensDoNotOverlap
    <3>1. CASE i = Len(issued)
      BY <2>1, <2>3, <3>1 DEF TypeOK, Stale
    <3>2. CASE i < Len(issued)
      <4>1. i \in 1..Len(issued) - 1 /\ i + 1 \in 1..Len(issued)
        BY <3>2
      <4> QED
        BY <2>1, <4>1 DEF TokensDoNotOverlap
    <3> QED
      BY <3>1, <3>2 DEF CacheInv
  <2> QED
    BY <2>4, <2>5, <2>6, <2>7
<1>10. ASSUME NEW c \in Callers, GenerateFailed(c) PROVE IInv'
  BY <1>10 DEF GenerateFailed, Finish, Goto, TypeOK, LockInv, CacheInv, HolderInv,
     EmptyInv, TokensDoNotOverlap, RetryNotOlder, Stale, Holding, Locations
<1>11. ASSUME NEW c \in Callers, Store(c) PROVE IInv'
  BY <1>11 DEF Store, Goto, TypeOK, LockInv, CacheInv, HolderInv, EmptyInv,
     TokensDoNotOverlap, RetryNotOlder, Stale, Holding, Locations
<1>12. ASSUME NEW c \in Callers, Retry(c) PROVE IInv'
  BY <1>12 DEF Retry, Goto, TypeOK, LockInv, CacheInv, HolderInv, EmptyInv,
     TokensDoNotOverlap, RetryNotOlder, Stale, Holding, Locations
<1>13. ASSUME NEW c \in Callers, Answer(c) PROVE IInv'
  BY <1>13 DEF Answer, Finish, Goto, TypeOK, LockInv, CacheInv, HolderInv,
     EmptyInv, TokensDoNotOverlap, RetryNotOlder, Stale, Holding, Locations
<1>14. CASE UNCHANGED vars
  BY <1>14 DEF vars, TypeOK, LockInv, CacheInv, HolderInv, EmptyInv,
     TokensDoNotOverlap, RetryNotOlder, Stale
<1> QED
  BY <1>1, <1>2, <1>3, <1>4, <1>5, <1>6, <1>7, <1>8, <1>9, <1>10, <1>11, <1>12,
     <1>13, <1>14 DEF Next, Proceed, Generate

(* The inductive invariant holds in every reachable state.                 *)
THEOREM Inductive == Spec => []IInv
  BY InitIInv, NextIInv, PTL DEF Spec

-----------------------------------------------------------------------------

(* Every variable keeps its type, and positions stay inside issued.        *)
THEOREM TypeCorrect == Spec => []TypeOK
  BY Inductive, PTL DEF IInv

(* refreshToken never has two generations in flight.                       *)
THEOREM GenerationExclusive == Spec => []OneGenerationInFlight
<1>1. IInv => OneGenerationInFlight
  BY DEF IInv, LockInv, Holding, OneGenerationInFlight
<1> QED
  BY <1>1, Inductive, PTL

(* However many goroutines miss at once, tokens are made one per expiry.   *)
THEOREM NoOverlap == Spec => []TokensDoNotOverlap
  BY Inductive, PTL DEF IInv

(* The retry after a 401 never uses a token older than the refused one.    *)
THEOREM RetryMonotone == Spec => []RetryNotOlder
  BY Inductive, PTL DEF IInv

(* The transport implements the abstract token source: its tokens and the  *)
(* clock change only as TokenSource allows.                                *)
THEOREM Implementation == Spec => ImplementsTokenSource
<1>1. Init => SourceInit
  BY DEF Init
<1>2. IInv /\ [Next]_vars => [SourceNext]_SourceVars
  <2> SUFFICES ASSUME IInv, [Next]_vars, ~UNCHANGED SourceVars PROVE SourceNext
    OBVIOUS
  <2>1. CASE Advance
    BY <2>1 DEF Advance, SourceNext
  <2>2. ASSUME NEW c \in Callers, NEW l \in Lifetimes, Generated(c, l)
        PROVE  SourceNext
    BY <2>2 DEF Generated, Goto, IInv, HolderInv, SourceNext, Issue
  <2> QED
    BY <2>1, <2>2 DEF Next, Proceed, Generate, Reject, Begin, Lock, GetHit, GetMiss,
       RecheckHit, RecheckMiss, GenerateFailed, Store, Retry, Answer, SourceVars, vars
<1> QED
  BY <1>1, <1>2, Inductive, PTL DEF Spec, ImplementsTokenSource, SourceSpec
=============================================================================
