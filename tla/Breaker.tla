------------------------------ MODULE Breaker -------------------------------
(***************************************************************************)
(* What a circuit breaker promises its server, whatever calls, retries and *)
(* limits stand around it: requests are admitted while the circuit is not  *)
(* open; it opens on failures only, and once open admits nothing until a   *)
(* cool-down without a failure has passed; it closes only on a success     *)
(* after that.                                                             *)
(***************************************************************************)
CONSTANT Requesters
VARIABLES circuit,   \* closed, open or half
          cooled,    \* the cool-down since the last failure is over
          admitted   \* requesters that may talk to the server

breakerVars == <<circuit, cooled, admitted>>

BreakerInit == circuit = "closed" /\ cooled \in BOOLEAN /\ admitted = {}

Admit(c) ==
    /\ c \notin admitted /\ admitted' = admitted \union {c}
    /\ \/ circuit # "open" /\ circuit' = circuit
       \/ circuit = "open" /\ cooled /\ circuit' = "half"
    /\ UNCHANGED cooled

Succeed(c) ==
    /\ c \in admitted /\ admitted' = admitted \ {c}
    /\ circuit' = IF circuit = "half" THEN "closed" ELSE circuit
    /\ UNCHANGED cooled

(* A failure of the server.  A closed circuit may stand a number of them.  *)
ServerFails(c) ==
    /\ c \in admitted /\ admitted' = admitted \ {c}
    /\ circuit' \in IF circuit = "closed" THEN {"closed", "open"} ELSE {"open"}
    /\ cooled' = FALSE

(* Any other failure says nothing about the server.                        *)
Ignored(c) ==
    /\ c \in admitted /\ admitted' = admitted \ {c}
    /\ UNCHANGED <<circuit, cooled>>

Cool == cooled' = TRUE /\ UNCHANGED <<circuit, admitted>>

BreakerNext == Cool \/ \E c \in Requesters : Admit(c) \/ Succeed(c) \/ ServerFails(c) \/ Ignored(c)

BreakerSpec == BreakerInit /\ [][BreakerNext]_breakerVars
=============================================================================
