----------------------------- MODULE Idempotency ----------------------------
(***************************************************************************)
(* Replay protection of the mutating endpoints (services/idempotency.py and *)
(* the routers that claim a key).  A call claims its key with an insert in *)
(* its own transaction; a duplicate waits on the unique index until that   *)
(* transaction ends.  Some endpoints do the work and complete the key in   *)
(* one commit; in the others the service commits on its own, key included, *)
(* before the router completes the key with a second commit.  The server   *)
(* may die between any two steps, and any answer may be lost.              *)
(***************************************************************************)
EXTENDS Integers, Sequences

CONSTANTS
    Callers,        \* requests of clients, each sent again until it is answered
    Keys,           \* idempotency keys of one endpoint
    KeyOf, BodyOf,  \* the key and the body a caller sends
    Split,          \* keys of endpoints whose service commits on its own
    MaxFaults       \* bound: crashes and lost answers

ASSUME IdempotencyAssumption ==
    /\ KeyOf \in [Callers -> Keys] /\ "none" \notin Callers
    /\ Split \subseteq Keys
    /\ MaxFaults \in Nat

VARIABLES
    slots,      \* committed key rows
    holder,     \* key -> the call whose uncommitted insert holds it, or "none"
    callPc,     \* caller -> where its request is
    reply,      \* caller -> the last answer it got
    runs,       \* key -> bodies the work was committed with
    faults      \* crashes and lost answers so far

idemVars == <<slots, holder, callPc, reply, runs, faults>>

FreeSlot == [status |-> "FREE"]
SlotOf(c) == slots[KeyOf[c]]

Final == {"ran", "replayed", "reused", "refused"}

Answer(c, what) ==
    /\ callPc' = [callPc EXCEPT ![c] = "idle"]
    /\ reply' = [reply EXCEPT ![c] = what]

\* A client sends its request, and sends it again until it has an answer.
Send(c) ==
    /\ callPc[c] = "idle" /\ reply[c] \notin Final
    /\ callPc' = [callPc EXCEPT ![c] = "claiming"]
    /\ reply' = [reply EXCEPT ![c] = "none"]
    /\ UNCHANGED <<slots, holder, runs, faults>>

-----------------------------------------------------------------------------
\* MUTANT of MayInsert: the insert does not wait for an open transaction.
InsertAtOnce(c) == SlotOf(c) = FreeSlot
\* ON CONFLICT DO NOTHING: waits for the transaction that holds the key.
MayInsert(c) == SlotOf(c) = FreeSlot /\ holder[KeyOf[c]] = "none"

Claim(c) ==
    /\ callPc[c] = "claiming"
    /\ MayInsert(c)
    /\ holder' = [holder EXCEPT ![KeyOf[c]] = c]
    /\ callPc' = [callPc EXCEPT ![c] = "owner"]
    /\ UNCHANGED <<slots, reply, runs, faults>>

\* MUTANT of Verdict: the body is not compared with the first one.
VerdictIgnoringBody(c) ==
    IF SlotOf(c).status = "COMPLETED" THEN "replayed" ELSE "busy"
\* What a duplicate is told once the key it waited for is there.
Verdict(c) ==
    CASE SlotOf(c).hash # BodyOf[c] -> "reused"
      [] SlotOf(c).hash = BodyOf[c] /\ SlotOf(c).status = "COMPLETED" -> "replayed"
      [] OTHER -> "busy"

FindTaken(c) ==
    /\ callPc[c] = "claiming"
    /\ SlotOf(c) # FreeSlot /\ holder[KeyOf[c]] = "none"
    /\ Answer(c, Verdict(c))
    /\ UNCHANGED <<slots, holder, runs, faults>>

Row(c, status) == [status |-> status, hash |-> BodyOf[c]]
Does(c) == runs' = [runs EXCEPT ![KeyOf[c]] = Append(@, BodyOf[c])]
LetGo(k) == holder' = [holder EXCEPT ![k] = "none"]

\* The service's own commit takes the key with it, still IN_FLIGHT.
CommitWork(c) ==
    /\ callPc[c] = "owner" /\ KeyOf[c] \in Split
    /\ Does(c)
    /\ slots' = [slots EXCEPT ![KeyOf[c]] = Row(c, "IN_FLIGHT")]
    /\ LetGo(KeyOf[c])
    /\ callPc' = [callPc EXCEPT ![c] = "worked"]
    /\ UNCHANGED <<reply, faults>>

\* MUTANT of CompletedRow: the router never marks the key.
LeftInFlight(c) == Row(c, "IN_FLIGHT")
CompletedRow(c) == Row(c, "COMPLETED")

CompleteSplit(c) ==
    /\ callPc[c] = "worked"
    /\ slots' = [slots EXCEPT ![KeyOf[c]] = CompletedRow(c)]
    /\ Answer(c, "ran")
    /\ UNCHANGED <<holder, runs, faults>>

\* Work, key and stored answer in one commit.
CompleteJoint(c) ==
    /\ callPc[c] = "owner" /\ KeyOf[c] \notin Split
    /\ Does(c)
    /\ slots' = [slots EXCEPT ![KeyOf[c]] = CompletedRow(c)]
    /\ LetGo(KeyOf[c])
    /\ Answer(c, "ran")
    /\ UNCHANGED faults

\* The work raises: the rollback takes the key with it.
Refuse(c) ==
    /\ callPc[c] = "owner"
    /\ LetGo(KeyOf[c])
    /\ Answer(c, "refused")
    /\ UNCHANGED <<slots, runs, faults>>

\* The server dies: what is not committed is gone.
CrashCall(c) ==
    /\ faults < MaxFaults
    /\ callPc[c] # "idle"
    /\ holder' = [k \in Keys |-> IF holder[k] = c THEN "none" ELSE holder[k]]
    /\ Answer(c, "lost")
    /\ faults' = faults + 1
    /\ UNCHANGED <<slots, runs>>

LoseAnswer(c) ==
    /\ faults < MaxFaults
    /\ reply[c] \in {"ran", "replayed"}
    /\ Answer(c, "lost")
    /\ faults' = faults + 1
    /\ UNCHANGED <<slots, holder, runs>>

-----------------------------------------------------------------------------
IdemInit ==
    /\ slots = [k \in Keys |-> FreeSlot]
    /\ holder = [k \in Keys |-> "none"]
    /\ callPc = [c \in Callers |-> "idle"]
    /\ reply = [c \in Callers |-> "none"]
    /\ runs = [k \in Keys |-> << >>]
    /\ faults = 0

IdemNext == \E c \in Callers :
    \/ Send(c)
    \/ Claim(c)
    \/ FindTaken(c)
    \/ CommitWork(c)
    \/ CompleteSplit(c)
    \/ CompleteJoint(c)
    \/ Refuse(c)
    \/ CrashCall(c)
    \/ LoseAnswer(c)

\* A client retries, a waiting call is let in once the key is free, and the
\* server works off a request in hand.
Progress(c) ==
    \/ Send(c)
    \/ Claim(c)
    \/ FindTaken(c)
    \/ CommitWork(c) \/ CompleteSplit(c) \/ CompleteJoint(c)
    \/ Refuse(c)

IdemFairness == \A c \in Callers : WF_idemVars(Progress(c))

IdemSpec == IdemInit /\ [][IdemNext]_idemVars /\ IdemFairness

-----------------------------------------------------------------------------
Once == INSTANCE OnceOnly
    WITH ran <- runs,
         told <- [c \in Callers |->
                    CASE reply[c] \in {"ran", "replayed"} -> "done"
                      [] reply[c] \in {"busy", "reused", "refused"} -> "turned away"
                      [] OTHER -> "nothing"]

\* The work behind a key happens at most once and nobody is told "done" of a
\* body that was not the one worked on, through crashes, lost answers, waiting
\* duplicates and both kinds of endpoint: the promise of OnceOnly.
PromisesOnceOnly == Once!OnceSpec

\* A client that keeps retrying ends with an answer, when the endpoint commits
\* work and key together: "a failed request takes its key with it and the
\* client gets a clean retry" (models/pos.py).
JointKeysAreAnswered ==
    \A c \in Callers : KeyOf[c] \notin Split =>
        (callPc[c] = "claiming" ~> reply[c] \in Final)
=============================================================================
