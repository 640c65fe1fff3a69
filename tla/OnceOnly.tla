------------------------------ MODULE OnceOnly ------------------------------
(***************************************************************************)
(* What a mutating endpoint promises a client that sends an                *)
(* Idempotency-Key: the work behind a key happens at most once, a call is  *)
(* told "done" only when it did happen and with the body this call sent,   *)
(* and a call may always be turned away or lose its answer instead.        *)
(***************************************************************************)
EXTENDS Sequences

CONSTANTS Callers, Keys, KeyOf, BodyOf

VARIABLES
    ran,        \* key -> the bodies the work was done with, in order
    told        \* caller -> "nothing", "done" or "turned away"

OnceInit ==
    /\ ran = [k \in Keys |-> << >>]
    /\ told = [c \in Callers |-> "nothing"]

Work(c) ==
    /\ ran[KeyOf[c]] = << >>
    /\ ran' = [ran EXCEPT ![KeyOf[c]] = <<BodyOf[c]>>]

Tell(c) ==
    /\ told[c] = "nothing"
    /\ ran'[KeyOf[c]] = <<BodyOf[c]>>
    /\ told' = [told EXCEPT ![c] = "done"]

TurnAway(c) ==
    /\ told[c] = "nothing"
    /\ told' = [told EXCEPT ![c] = "turned away"]
    /\ UNCHANGED ran

\* The answer is lost, or the client asks again.
Forget(c) ==
    /\ told[c] # "nothing"
    /\ told' = [told EXCEPT ![c] = "nothing"]
    /\ UNCHANGED ran

OnceNext == \E c \in Callers :
    \/ Work(c) /\ UNCHANGED told
    \/ Work(c) /\ Tell(c)
    \/ Tell(c) /\ UNCHANGED ran
    \/ TurnAway(c)
    \/ Forget(c)

OnceSpec == OnceInit /\ [][OnceNext]_<<ran, told>>
=============================================================================
