\* A 401 to a token that is still far from its recorded expiry.
SPECIFICATION Spec
CONSTANTS
    Callers = {c1}
    Free = Free
    Margin = 1
    Lifetimes = {2}
    MaxTime = 2
    MaxTokens = 2
INVARIANT RetryUsesNewToken
