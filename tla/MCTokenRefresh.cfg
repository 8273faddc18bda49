\* Three goroutines; a token is fresh for one tick and accepted for another.
SPECIFICATION FairSpec
CONSTANTS
    Callers = {c1, c2, c3}
    Free = Free
    Margin = 1
    Lifetimes = {1}
    MaxTime = 2
    MaxTokens = 3
INVARIANTS
    TypeOK
    OneGenerationInFlight
    TokensDoNotOverlap
    RetryNotOlder
PROPERTIES
    ImplementsTokenSource
    RoundTripReturns
