------------------------------ MODULE Sales_proofs -----------------------------
(***************************************************************************)
(* Theorems about PosOrders, for any set of orders, products and threads;   *)
(* about the idempotency keys its endpoints claim (Idempotency), for any    *)
(* number of clients, keys and faults; about the prices of what is sold     *)
(* (Pricing), for any amounts, weights, packs and carts; and about the      *)
(* forecast of what will be (Forecast), for any window, history, calendar   *)
(* and guess.                                                               *)
(*                                                                         *)
(* The strengthening is about the calls in progress: a handler that writes  *)
(* to a ticket or voids an order read an order that was sold, and nothing   *)
(* makes a sold order unsold; so the unique key of the sales records is     *)
(* enough, whatever became of the status in between.  For the keys it is    *)
(* that a key in hand has one owner, and a committed one its body's work.   *)
(* For prices and the forecast nothing needs strengthening: an answer is    *)
(* the value of a function, and the arithmetic is in what it satisfies.     *)
(***************************************************************************)
EXTENDS PosOrders, Idempotency, Pricing, Forecast, Sums_proofs

\* The call of thread t, on an order that was sold when it was loaded.
OnSold(t) ==
  job[t] # Idle =>
    /\ job[t].op \in {"void", "prep", "print"} => sale[job[t].order] # "none"
    /\ job[t].op = "replay" /\ job[t].seen = "SENT" => sale[job[t].order] # "none"
    /\ job[t].op = "replay" /\ job[t].flag # "none" => flag[job[t].order] # "none"
CallsFit == \A t \in Threads : OnSold(t)

IInv == TypeOK /\ SaleFollowsStatus /\ UnsoldMovesNothing /\ CallsFit

--------------------------------------------------------------------------------
(* Types *)

\* A thread's call by its kind.
LEMMA CallOf ==
  ASSUME TypeOK, NEW t \in Threads, job[t] # Idle
  PROVE  /\ job[t] \in Calls
         /\ job[t].order \in Orders
         /\ job[t].op = "send" => job[t] \in SendCalls
         /\ job[t].op = "replay" => job[t] \in ReplayCalls
         /\ job[t].op = "void" => job[t] \in VoidCalls
         /\ job[t].op = "take" => job[t] \in TakeCalls
         /\ job[t].op = "status" => job[t] \in StatusCalls
         /\ job[t].op = "prep" => job[t] \in PrepCalls
         /\ job[t].op = "print" => job[t] \in PrintCalls
  BY DEF TypeOK, Calls, SendCalls, ReplayCalls, VoidCalls, TakeCalls, StatusCalls,
         PrepCalls, PrintCalls

LEMMA OwedType ==
  ASSUME NEW o \in Orders, NEW k \in BOOLEAN
  PROVE  /\ Owed(o, k) \in [Products -> Nat]
         /\ \A p \in Products :
              /\ Owed(o, k)[p] \in {Shelf[o][p], Shelf[o][p] + Fresh[o][p]}
              /\ Owed(o, k)[p] >= Shelf[o][p]
  BY OrdersAssumption DEF Owed

LEMMA ServedType ==
  ASSUME stock \in [Products -> Nat], NEW owed \in [Products -> Nat]
  PROVE  /\ Served(owed) \in [Products -> Nat]
         /\ \A p \in Products : /\ Served(owed)[p] \in {0, owed[p]}
                                /\ Served(owed)[p] <= stock[p]
         /\ Short(owed) = {} => Served(owed) = owed
  BY DEF Served, Short

\* What a settlement leaves of the types, and of the order itself.
LEMMA SettleType ==
  ASSUME TypeOK, NEW o \in Orders, NEW owed \in [Products -> Nat],
         NEW printed \in PrintStates, Settle(o, owed, printed)
  PROVE  /\ sale' \in [Orders -> Sales]
         /\ stock' \in [Products -> Nat]
         /\ taken' \in Quantities /\ returned' \in Quantities
         /\ prep' \in [Orders -> PrepStates]
         /\ print' \in [Orders -> PrintStates]
         /\ status' \in [Orders -> Statuses]
  <1>1. /\ Served(owed) \in [Products -> Nat]
        /\ \A p \in Products : Served(owed)[p] <= stock[p]
    BY ServedType DEF TypeOK
  <1>2. stock' \in [Products -> Nat]
    <2>1. \A p \in Products : stock[p] - Served(owed)[p] \in Nat
      BY <1>1 DEF TypeOK
    <2> QED  BY <2>1 DEF Settle
  <1>3. taken' \in Quantities
    <2>1. [p \in Products |-> taken[o][p] + Served(owed)[p]] \in [Products -> Nat]
      BY <1>1 DEF TypeOK, Quantities
    <2> QED  BY <2>1 DEF Settle, TypeOK, Quantities
  <1>4. returned' \in Quantities
    BY DEF Settle, TypeOK
  <1> QED
    BY <1>2, <1>3, <1>4
    DEF Settle, TypeOK, Sales, PrepStates, OpenPrep, PrintStates, Statuses

LEMMA TypeInit == Init => TypeOK
  BY OrdersAssumption
  DEF Init, TypeOK, Statuses, Flags, Sales, PrepStates, PrintStates, Quantities,
      Nothing

\* A thread that takes up a call of the right shape, or ends its call.
LEMMA JobType ==
  ASSUME TypeOK, NEW t \in Threads
  PROVE  /\ \A call \in Calls : Start(t, call) => job' \in [Threads -> Calls \cup {Idle}]
         /\ Finish(t) => job' \in [Threads -> Calls \cup {Idle}]
  BY DEF TypeOK, Start, Finish

LEMMA LoadsType ==
  ASSUME TypeOK, NEW t \in Threads, NEW o \in Orders
  PROVE  /\ \A to \in Editable : LoadStatus(t, o, to) => TypeOK'
         /\ LoadSend(t, o) => TypeOK'
         /\ \A wasSent, drift \in BOOLEAN : LoadReplay(t, o, wasSent, drift) => TypeOK'
         /\ LoadVoid(t, o) => TypeOK'
         /\ LoadTake(t, o) => TypeOK'
         /\ \A to \in PrepStates : LoadPrep(t, o, to) => TypeOK'
         /\ \A to \in PrintStates : LoadPrint(t, o, to) => TypeOK'
  <1> DEFINE Rest == UNCHANGED <<kitchen, status, flag, sale, goods, tickets, paid, drained>>
  <1>1. ASSUME Rest, job' \in [Threads -> Calls \cup {Idle}]
        PROVE  TypeOK'
    BY <1>1 DEF TypeOK, goods, tickets
  <1>2. ASSUME NEW to \in Editable, LoadStatus(t, o, to)
        PROVE  TypeOK'
    <2>1. [op |-> "status", order |-> o, seen |-> status[o], to |-> to] \in Calls
      BY <1>2 DEF LoadStatus, Calls, StatusCalls
    <2> QED  BY <2>1, <1>1, <1>2, JobType DEF LoadStatus
  <1>3. ASSUME LoadSend(t, o)
        PROVE  TypeOK'
    <2>1. [op |-> "send", order |-> o, kitchen |-> kitchen] \in Calls
      BY DEF TypeOK, Calls, SendCalls
    <2> QED  BY <2>1, <1>1, <1>3, JobType DEF LoadSend
  <1>4. ASSUME NEW wasSent \in BOOLEAN, NEW drift \in BOOLEAN,
               LoadReplay(t, o, wasSent, drift)
        PROVE  TypeOK'
    <2>1. [op |-> "replay", order |-> o, kitchen |-> kitchen, seen |-> status[o],
           flag |-> flag[o], wasSent |-> wasSent, drift |-> drift] \in ReplayCalls
      BY DEF TypeOK, ReplayCalls
    <2>2. [op |-> "replay", order |-> o, kitchen |-> kitchen, seen |-> status[o],
           flag |-> flag[o], wasSent |-> wasSent, drift |-> drift] \in Calls
      BY <2>1 DEF Calls
    <2> QED  BY <2>2, <1>1, <1>4, JobType DEF LoadReplay
  <1>5. ASSUME LoadVoid(t, o)
        PROVE  TypeOK'
    <2>1. [op |-> "void", order |-> o, flag |-> flag[o]] \in Calls
      BY DEF TypeOK, Calls, VoidCalls
    <2> QED  BY <2>1, <1>1, <1>5, JobType DEF LoadVoid
  <1>6. ASSUME LoadTake(t, o)
        PROVE  TypeOK'
    <2>1. [op |-> "take", order |-> o] \in Calls
      BY DEF Calls, TakeCalls
    <2> QED  BY <2>1, <1>1, <1>6, JobType DEF LoadTake
  <1>7. ASSUME NEW to \in PrepStates, LoadPrep(t, o, to)
        PROVE  TypeOK'
    <2>1. [op |-> "prep", order |-> o, to |-> to] \in Calls
      BY <1>7 DEF LoadPrep, PrepMoves, Calls, PrepCalls, PrepStates, OpenPrep
    <2> QED  BY <2>1, <1>1, <1>7, JobType DEF LoadPrep
  <1>8. ASSUME NEW to \in PrintStates, LoadPrint(t, o, to)
        PROVE  TypeOK'
    <2>1. [op |-> "print", order |-> o, to |-> to] \in Calls
      BY <1>8 DEF LoadPrint, PrintMoves, Calls, PrintCalls, PrintStates
    <2> QED  BY <2>1, <1>1, <1>8, JobType DEF LoadPrint
  <1> QED  BY <1>2, <1>3, <1>4, <1>5, <1>6, <1>7, <1>8

LEMMA CommitReplayType ==
  ASSUME TypeOK, NEW t \in Threads, NEW result \in {"QUEUED", "PRINTED", "FAILED"},
         CommitReplay(t, result)
  PROVE  TypeOK'
  <1> DEFINE call == job[t]
             o == call.order
             owed == Owed(o, call.kitchen)
             settles == call.wasSent /\ call.seen # "SENT"
  <1>1. call \in ReplayCalls /\ o \in Orders
    BY CallOf DEF CommitReplay, Doing
  <1>2. owed \in [Products -> Nat]
    BY <1>1, OwedType DEF ReplayCalls
  <1>3. \A was \in PrintStates : Reported(was, result) \in PrintStates
    BY DEF Reported, PrintStates
  <1>4. \A short \in BOOLEAN : Flagged(call, short) \in [Orders -> Flags]
    BY <1>1 DEF Flagged, Reason, ReplayCalls, Flags, TypeOK
  <1>5. flag' \in [Orders -> Flags]
    BY <1>4 DEF CommitReplay
  <1>6. job' \in [Threads -> Calls \cup {Idle}]
    BY JobType DEF CommitReplay
  <1>7. drained' \subseteq Orders /\ kitchen' \in BOOLEAN /\ paid' \subseteq Orders
    BY <1>1 DEF CommitReplay, TypeOK
  <1>8. /\ sale' \in [Orders -> Sales]
        /\ stock' \in [Products -> Nat]
        /\ taken' \in Quantities /\ returned' \in Quantities
        /\ prep' \in [Orders -> PrepStates]
        /\ print' \in [Orders -> PrintStates]
        /\ status' \in [Orders -> Statuses]
    <2>1. CASE Settle(o, owed, Reported("QUEUED", result))
      <3>1. Reported("QUEUED", result) \in PrintStates
        BY DEF Reported, PrintStates
      <3> HIDE DEF o, owed
      <3> QED  BY <2>1, <3>1, <1>1, <1>2, SettleType
    <2>2. CASE ~settles
      <3>1. CommitReplay(t, result) /\ ~settles
        BY <2>2
      <3>2. UNCHANGED <<sale, goods, prep>>
        BY <3>1 DEF CommitReplay
      <3>3. status' \in [Orders -> Statuses]
        BY <3>1, <1>1 DEF CommitReplay, TypeOK, Statuses, Editable
      <3>4. print' \in [Orders -> PrintStates]
        BY <3>1, <1>1, <1>3 DEF CommitReplay, TypeOK
      <3> QED  BY <3>2, <3>3, <3>4 DEF TypeOK, goods
    <2> QED  BY <2>1, <2>2 DEF CommitReplay
  <1> QED  BY <1>5, <1>6, <1>7, <1>8 DEF TypeOK

LEMMA CommitsType ==
  ASSUME TypeOK, NEW t \in Threads
  PROVE  /\ CommitStatus(t) => TypeOK'
         /\ CommitSend(t) => TypeOK'
         /\ CommitVoid(t) => TypeOK'
         /\ CommitTake(t) => TypeOK'
         /\ CommitPrep(t) => TypeOK'
         /\ CommitPrint(t) => TypeOK'
         /\ GiveUp(t) => TypeOK'
  <1>1. ASSUME CommitStatus(t)
        PROVE  TypeOK'
    <2>1. job[t] \in StatusCalls
      BY <1>1, CallOf DEF CommitStatus, Doing
    <2>2. status' \in [Orders -> Statuses]
      BY <1>1, <2>1 DEF CommitStatus, StatusCalls, TypeOK, Statuses, Editable
    <2> QED  BY <1>1, <2>2, JobType DEF CommitStatus, TypeOK, goods, tickets
  <1>2. ASSUME CommitSend(t)
        PROVE  TypeOK'
    <2>1. job[t] \in SendCalls
      BY <1>2, CallOf DEF CommitSend, Doing
    <2>2. job[t].order \in Orders /\ Owed(job[t].order, job[t].kitchen) \in [Products -> Nat]
      BY <2>1, OwedType DEF SendCalls
    <2>3. Settle(job[t].order, Owed(job[t].order, job[t].kitchen), "QUEUED")
      BY <1>2 DEF CommitSend
    <2>4. "QUEUED" \in PrintStates
      BY DEF PrintStates
    <2>5. /\ sale' \in [Orders -> Sales]
          /\ stock' \in [Products -> Nat]
          /\ taken' \in Quantities /\ returned' \in Quantities
          /\ prep' \in [Orders -> PrepStates]
          /\ print' \in [Orders -> PrintStates]
          /\ status' \in [Orders -> Statuses]
      BY <2>2, <2>3, <2>4, SettleType
    <2> QED  BY <1>2, <2>5, JobType DEF CommitSend, TypeOK
  <1>3. ASSUME CommitVoid(t)
        PROVE  TypeOK'
    <2>1. job[t] \in VoidCalls
      BY <1>3, CallOf DEF CommitVoid, Doing
    <2> DEFINE o == job[t].order
               back == PutBack(job[t])
    <2>2. o \in Orders /\ back \in [Products -> Nat]
      BY <2>1, OwedType DEF VoidCalls, PutBack, Nothing
    <2>3. stock' \in [Products -> Nat]
      <3> HIDE DEF back
      <3> QED  BY <1>3, <2>2 DEF CommitVoid, TypeOK, back
    <2>4. returned' \in Quantities
      <3>1. [p \in Products |-> returned[o][p] + back[p]] \in [Products -> Nat]
        BY <2>2 DEF TypeOK, Quantities
      <3>2. returned' = [returned EXCEPT ![o] = [p \in Products |-> @[p] + back[p]]]
        BY <1>3 DEF CommitVoid
      <3> HIDE DEF back, o
      <3> QED  BY <3>1, <3>2, <2>2 DEF TypeOK, Quantities
    <2>5. sale' \in [Orders -> Sales]
      BY <1>3, <2>2 DEF CommitVoid, Zeroed, TypeOK, Sales
    <2>6. print' \in [Orders -> PrintStates] /\ prep' \in [Orders -> PrepStates]
      BY <1>3, <2>2 DEF CommitVoid, TypeOK, PrintStates, PrepStates, OpenPrep
    <2>7. status' \in [Orders -> Statuses]
      BY <1>3, <2>2 DEF CommitVoid, TypeOK, Statuses
    <2> HIDE DEF o, back
    <2> QED
      BY <1>3, <2>3, <2>4, <2>5, <2>6, <2>7, JobType DEF CommitVoid, TypeOK
  <1>4. ASSUME CommitTake(t)
        PROVE  TypeOK'
    <2>1. job[t].order \in Orders
      BY <1>4, CallOf DEF CommitTake, Doing
    <2> QED  BY <1>4, <2>1, JobType DEF CommitTake, TypeOK, goods, tickets
  <1>5. ASSUME CommitPrep(t)
        PROVE  TypeOK'
    <2>1. job[t] \in PrepCalls
      BY <1>5, CallOf DEF CommitPrep, Doing
    <2>2. prep' \in [Orders -> PrepStates]
      BY <1>5, <2>1 DEF CommitPrep, PrepCalls, TypeOK
    <2> QED  BY <1>5, <2>2, JobType DEF CommitPrep, TypeOK, goods
  <1>6. ASSUME CommitPrint(t)
        PROVE  TypeOK'
    <2>1. job[t] \in PrintCalls
      BY <1>6, CallOf DEF CommitPrint, Doing
    <2>2. print' \in [Orders -> PrintStates]
      BY <1>6, <2>1 DEF CommitPrint, PrintCalls, TypeOK, PrintStates
    <2> QED  BY <1>6, <2>2, JobType DEF CommitPrint, TypeOK, goods
  <1>7. ASSUME GiveUp(t)
        PROVE  TypeOK'
    BY <1>7, JobType DEF GiveUp, TypeOK, goods, tickets
  <1> QED  BY <1>1, <1>2, <1>3, <1>4, <1>5, <1>6, <1>7

LEMMA TypeStep == TypeOK /\ [Next]_vars => TypeOK'
  <1> SUFFICES ASSUME TypeOK, [Next]_vars
               PROVE  TypeOK'
    OBVIOUS
  <1>1. CASE EnableKitchen
    BY <1>1 DEF EnableKitchen, TypeOK, goods, tickets
  <1>2. ASSUME NEW o \in Orders, Create(o)
        PROVE  TypeOK'
    <2>1. status' \in [Orders -> Statuses]
      BY <1>2 DEF Create, TypeOK, Statuses, Editable
    <2> QED  BY <1>2, <2>1 DEF Create, TypeOK, goods, tickets
  <1>3. ASSUME NEW o \in Orders, NEW wasSent \in BOOLEAN, AnswerDuplicate(o, wasSent)
        PROVE  TypeOK'
    BY <1>3 DEF AnswerDuplicate, TypeOK, goods, tickets
  <1>4. CASE UNCHANGED vars
    BY <1>4 DEF vars, TypeOK, goods, tickets
  <1> QED
    BY <1>1, <1>2, <1>3, <1>4, LoadsType, CommitsType, CommitReplayType DEF Next

\* Orders, tickets and calls keep their types, and the stock is never negative.
THEOREM OrdersTypeCorrect == Spec => []TypeOK
  <1>1. TypeOK /\ [Next]_vars => TypeOK'
    BY TypeStep
  <1> QED  BY TypeInit, <1>1, PTL DEF Spec

--------------------------------------------------------------------------------
(* Settled once *)

\* What a settlement does to the order and leaves of the others.
LEMMA SettleEffect ==
  ASSUME TypeOK, NEW o \in Orders, NEW owed \in [Products -> Nat], NEW printed,
         Settle(o, owed, printed)
  PROVE  /\ sale[o] = "none" /\ sale'[o] = "booked" /\ status'[o] = "SENT"
         /\ \A p \in Products : taken'[o][p] = taken[o][p] + Served(owed)[p]
         /\ \A other \in Orders \ {o} :
              /\ sale'[other] = sale[other] /\ status'[other] = status[other]
              /\ taken'[other] = taken[other]
              /\ prep'[other] = prep[other] /\ print'[other] = print[other]
         /\ returned' = returned
  <1>1. \A p \in Products : taken'[o][p] = taken[o][p] + Served(owed)[p]
    BY DEF Settle, TypeOK, Quantities
  <1> QED  BY <1>1 DEF Settle, Unsold, TypeOK, Quantities

\* The two ways to settle, and all else a replay does.
LEMMA SendSettles ==
  ASSUME TypeOK, NEW t \in Threads, CommitSend(t)
  PROVE  \E o \in Orders, k \in BOOLEAN :
           /\ o = job[t].order
           /\ Owed(o, k) \in [Products -> Nat]
           /\ Short(Owed(o, k)) = {}
           /\ Settle(o, Owed(o, k), "QUEUED")
           /\ flag' = flag
  <1>1. job[t] \in SendCalls
    BY CallOf DEF CommitSend, Doing
  <1>2. job[t].order \in Orders /\ job[t].kitchen \in BOOLEAN
    BY <1>1 DEF SendCalls
  <1> QED  BY <1>2, OwedType DEF CommitSend

LEMMA ReplaySettlesOrNot ==
  ASSUME TypeOK, NEW t \in Threads, NEW result, CommitReplay(t, result)
  PROVE  /\ job[t] \in ReplayCalls
         /\ job[t].order \in Orders
         /\ \/ LET owed == Owed(job[t].order, job[t].kitchen)
               IN /\ owed \in [Products -> Nat]
                  /\ Settle(job[t].order, owed, Reported("QUEUED", result))
                  /\ flag' = Flagged(job[t], Short(owed) # {})
            \/ /\ status' = status \/ /\ status[job[t].order] = "ABSENT"
                                       /\ status' = [status EXCEPT ![job[t].order] = "DRAFT"]
               /\ print' = print \/ /\ job[t].seen = "SENT"
                                    /\ \E was : print' = [print EXCEPT ![job[t].order] = was]
               /\ UNCHANGED <<sale, goods, prep>>
               /\ flag' = Flagged(job[t], FALSE)
  <1>1. job[t] \in ReplayCalls /\ job[t].order \in Orders
    BY CallOf DEF CommitReplay, Doing
  <1>2. Owed(job[t].order, job[t].kitchen) \in [Products -> Nat]
    BY <1>1, OwedType DEF ReplayCalls
  <1>3. CASE job[t].wasSent /\ job[t].seen # "SENT"
    BY <1>1, <1>2, <1>3 DEF CommitReplay
  <1>4. CASE ~(job[t].wasSent /\ job[t].seen # "SENT")
    <2>1. UNCHANGED <<sale, goods, prep>> /\ flag' = Flagged(job[t], FALSE)
      BY <1>4 DEF CommitReplay
    <2>2. \/ status' = status
          \/ /\ status[job[t].order] = "ABSENT"
             /\ status' = [status EXCEPT ![job[t].order] = "DRAFT"]
      BY <1>4 DEF CommitReplay
    <2>3. \/ print' = print
          \/ /\ job[t].seen = "SENT"
             /\ \E was : print' = [print EXCEPT ![job[t].order] = was]
      BY <1>4 DEF CommitReplay
    <2> QED  BY <1>1, <2>1, <2>2, <2>3
  <1> QED  BY <1>3, <1>4

\* A flag that is raised stays raised, and a shortfall raises it.
LEMMA FlagsStay ==
  ASSUME TypeOK, NEW call \in ReplayCalls, NEW short \in BOOLEAN,
         call.flag # "none" => flag[call.order] # "none",
         flag' = Flagged(call, short)
  PROVE  /\ \A o \in Orders : flag[o] # "none" => flag'[o] # "none"
         /\ short => flag'[call.order] # "none"
  <1>1. call.order \in Orders /\ call.flag \in Flags
    BY DEF ReplayCalls
  <1> QED  BY <1>1 DEF Flagged, Reason, TypeOK, Flags

\* Nothing makes a sold order unsold, or takes it out of the review queue.
LEMMA NeverUnsold ==
  ASSUME IInv, [Next]_vars
  PROVE  \A o \in Orders : /\ sale[o] # "none" => sale'[o] # "none"
                           /\ flag[o] # "none" => flag'[o] # "none"
  <1> USE DEF IInv
  <1>1. ASSUME UNCHANGED <<sale, flag>>
        PROVE  \A o \in Orders : /\ sale[o] # "none" => sale'[o] # "none"
                                 /\ flag[o] # "none" => flag'[o] # "none"
    BY <1>1
  <1>2. ASSUME NEW t \in Threads, CommitSend(t)
        PROVE  \A o \in Orders : /\ sale[o] # "none" => sale'[o] # "none"
                                 /\ flag[o] # "none" => flag'[o] # "none"
    BY <1>2, SendSettles, SettleEffect
  <1>3. ASSUME NEW t \in Threads, NEW result, CommitReplay(t, result)
        PROVE  \A o \in Orders : /\ sale[o] # "none" => sale'[o] # "none"
                                 /\ flag[o] # "none" => flag'[o] # "none"
    <2>1. job[t] \in ReplayCalls /\ job[t].order \in Orders
      BY <1>3, ReplaySettlesOrNot
    <2>2. job[t].flag # "none" => flag[job[t].order] # "none"
      BY <1>3 DEF CommitReplay, Doing, CallsFit, OnSold
    <2>3. \E short \in BOOLEAN : flag' = Flagged(job[t], short)
      BY <1>3, ReplaySettlesOrNot
    <2>4. \A o \in Orders : flag[o] # "none" => flag'[o] # "none"
      BY <2>1, <2>2, <2>3, FlagsStay
    <2>5. \A o \in Orders : sale[o] # "none" => sale'[o] # "none"
      BY <1>3, ReplaySettlesOrNot, SettleEffect
    <2> QED  BY <2>4, <2>5
  <1>4. ASSUME NEW t \in Threads, CommitVoid(t)
        PROVE  \A o \in Orders : /\ sale[o] # "none" => sale'[o] # "none"
                                 /\ flag[o] # "none" => flag'[o] # "none"
    BY <1>4, CallOf DEF CommitVoid, Doing, Zeroed, TypeOK
  <1> QED
    BY <1>1, <1>2, <1>3, <1>4
    DEF Next, vars, EnableKitchen, Create, AnswerDuplicate, LoadStatus, LoadSend,
        LoadReplay, LoadVoid, LoadTake, LoadPrep, LoadPrint, CommitStatus,
        CommitTake, CommitPrep, CommitPrint, GiveUp

\* A step that only ends calls keeps them fit; a load brings a call that is.
LEMMA CallsFitStep ==
  ASSUME IInv, [Next]_vars
  PROVE  CallsFit'
  <1> USE DEF IInv
  <1>1. \A o \in Orders : /\ sale[o] # "none" => sale'[o] # "none"
                          /\ flag[o] # "none" => flag'[o] # "none"
    BY NeverUnsold
  <1>2. ASSUME NEW u \in Threads, job'[u] \in {job[u], Idle}
        PROVE  OnSold(u)'
    <2>1. OnSold(u) /\ (job[u] # Idle => job[u].order \in Orders)
      BY CallOf DEF CallsFit
    <2> QED  BY <1>1, <1>2, <2>1 DEF OnSold
  <1>3. ASSUME NEW t \in Threads, Finish(t) \/ UNCHANGED job
        PROVE  CallsFit'
    BY <1>2, <1>3 DEF Finish, CallsFit, TypeOK
  <1>4. ASSUME NEW t \in Threads, NEW call, Start(t, call), UNCHANGED <<sale, flag>>,
               call.op \in {"void", "prep", "print"} => sale[call.order] # "none",
               call.op = "replay" /\ call.seen = "SENT" => sale[call.order] # "none",
               call.op = "replay" /\ call.flag # "none" => flag[call.order] # "none"
        PROVE  CallsFit'
    <2>1. \A u \in Threads \ {t} : job'[u] = job[u]
      BY <1>4 DEF Start, TypeOK
    <2>2. job'[t] = call
      BY <1>4 DEF Start, TypeOK
    <2>3. OnSold(t)'
      BY <1>4, <2>2 DEF OnSold
    <2> QED  BY <1>2, <2>1, <2>3 DEF CallsFit
  <1>5. ASSUME NEW t \in Threads, NEW o \in Orders, NEW to, LoadStatus(t, o, to)
        PROVE  CallsFit'
    BY <1>5, <1>4 DEF LoadStatus
  <1>6. ASSUME NEW t \in Threads, NEW o \in Orders, LoadSend(t, o)
        PROVE  CallsFit'
    BY <1>6, <1>4 DEF LoadSend
  <1>7. ASSUME NEW t \in Threads, NEW o \in Orders, NEW wasSent, NEW drift,
               LoadReplay(t, o, wasSent, drift)
        PROVE  CallsFit'
    BY <1>7, <1>4 DEF LoadReplay, SaleFollowsStatus
  <1>8. ASSUME NEW t \in Threads, NEW o \in Orders, LoadVoid(t, o)
        PROVE  CallsFit'
    BY <1>8, <1>4 DEF LoadVoid, Voidable, SaleFollowsStatus
  <1>9. ASSUME NEW t \in Threads, NEW o \in Orders, LoadTake(t, o)
        PROVE  CallsFit'
    BY <1>9, <1>4 DEF LoadTake
  <1>10. ASSUME NEW t \in Threads, NEW o \in Orders, NEW to, LoadPrep(t, o, to)
         PROVE  CallsFit'
    <2>1. prep[o] # "none"
      BY <1>10 DEF LoadPrep, PrepMoves
    <2> QED  BY <1>10, <1>4, <2>1 DEF LoadPrep, UnsoldMovesNothing
  <1>11. ASSUME NEW t \in Threads, NEW o \in Orders, NEW to, LoadPrint(t, o, to)
         PROVE  CallsFit'
    <2>1. print[o] # "none"
      BY <1>11 DEF LoadPrint, PrintMoves
    <2> QED  BY <1>11, <1>4, <2>1 DEF LoadPrint, UnsoldMovesNothing
  <1>12. ASSUME UNCHANGED job
         PROVE  CallsFit'
    BY <1>2, <1>12 DEF CallsFit
  <1>13. CASE \E t \in Threads : Finish(t)
    BY <1>3, <1>13
  <1> QED
    BY <1>5, <1>6, <1>7, <1>8, <1>9, <1>10, <1>11, <1>12, <1>13
    DEF Next, vars, EnableKitchen, Create, AnswerDuplicate, CommitStatus, CommitSend,
        CommitVoid, CommitTake, CommitPrep, CommitPrint, CommitReplay, GiveUp

\* A step that leaves the sale, the goods and the tickets alone, and moves the
\* status only within the statuses of an order nobody has settled.
LEMMA QuietStep ==
  ASSUME IInv, UNCHANGED <<sale, goods, tickets>>,
         \A o \in Orders : status'[o] \in {status[o]} \cup Editable
  PROVE  SaleFollowsStatus' /\ UnsoldMovesNothing'
  BY DEF IInv, SaleFollowsStatus, UnsoldMovesNothing, goods, tickets, Editable

LEMMA SettleStep ==
  ASSUME IInv, NEW o \in Orders, NEW owed \in [Products -> Nat], NEW printed,
         Settle(o, owed, printed)
  PROVE  SaleFollowsStatus' /\ UnsoldMovesNothing'
  BY SettleEffect DEF IInv, SaleFollowsStatus, UnsoldMovesNothing

LEMMA VoidStep ==
  ASSUME IInv, NEW t \in Threads, CommitVoid(t)
  PROVE  SaleFollowsStatus' /\ UnsoldMovesNothing'
  <1> DEFINE o == job[t].order
  <1>1. o \in Orders /\ sale[o] # "none"
    BY CallOf DEF IInv, CommitVoid, Doing, CallsFit, OnSold
  <1>2. /\ sale' = [sale EXCEPT ![o] = "zeroed"]
        /\ status' = [status EXCEPT ![o] = "VOID"]
        /\ UNCHANGED taken
    BY <1>1 DEF CommitVoid, Zeroed
  <1>3. \A other \in Orders \ {o} :
          returned'[other] = returned[other] /\ prep'[other] = prep[other]
          /\ print'[other] = print[other]
    BY DEF CommitVoid, IInv, TypeOK, Quantities
  <1> HIDE DEF o
  <1> QED
    BY <1>1, <1>2, <1>3 DEF IInv, TypeOK, SaleFollowsStatus, UnsoldMovesNothing

\* A write to a ticket of a sold order.
LEMMA TicketStep ==
  ASSUME IInv, UNCHANGED <<sale, goods, status>>, NEW o \in Orders,
         sale[o] # "none",
         \A other \in Orders \ {o} : prep'[other] = prep[other] /\ print'[other] = print[other]
  PROVE  SaleFollowsStatus' /\ UnsoldMovesNothing'
  BY DEF IInv, SaleFollowsStatus, UnsoldMovesNothing, goods

LEMMA ReplayStep ==
  ASSUME IInv, NEW t \in Threads, NEW result, CommitReplay(t, result)
  PROVE  SaleFollowsStatus' /\ UnsoldMovesNothing'
  <1> DEFINE o == job[t].order
             owed == Owed(job[t].order, job[t].kitchen)
  <1>1. o \in Orders /\ (job[t].seen = "SENT" => sale[o] # "none")
    BY ReplaySettlesOrNot DEF IInv, CommitReplay, Doing, CallsFit, OnSold
  <1>2. CASE owed \in [Products -> Nat] /\ Settle(o, owed, Reported("QUEUED", result))
    BY <1>1, <1>2, SettleStep
  <1>3. CASE /\ UNCHANGED <<sale, goods, prep>>
             /\ status' = status \/ /\ status[o] = "ABSENT"
                                    /\ status' = [status EXCEPT ![o] = "DRAFT"]
             /\ print' = print
    <2>1. \A other \in Orders : status'[other] \in {status[other]} \cup Editable
      BY <1>1, <1>3 DEF IInv, TypeOK, Editable
    <2> QED  BY <1>3, <2>1, QuietStep DEF tickets
  <1>4. CASE /\ UNCHANGED <<sale, goods, prep>>
             /\ status' = status \/ /\ status[o] = "ABSENT"
                                    /\ status' = [status EXCEPT ![o] = "DRAFT"]
             /\ job[t].seen = "SENT"
             /\ \E was : print' = [print EXCEPT ![o] = was]
    <2>1. \A other \in Orders \ {o} : print'[other] = print[other]
      BY <1>4, <1>1 DEF IInv, TypeOK
    <2>2. \A other \in Orders : status'[other] \in {status[other]} \cup Editable
      BY <1>1, <1>4 DEF IInv, TypeOK, Editable
    <2> HIDE DEF o
    <2> QED
      BY <1>1, <1>4, <2>1, <2>2
      DEF IInv, SaleFollowsStatus, UnsoldMovesNothing, goods, Editable
  <1>5. TypeOK
    BY DEF IInv
  <1> HIDE DEF o, owed
  <1> QED  BY <1>2, <1>3, <1>4, <1>5, ReplaySettlesOrNot DEF o, owed

LEMMA SalesStep ==
  ASSUME IInv, [Next]_vars
  PROVE  SaleFollowsStatus' /\ UnsoldMovesNothing'
  <1>1. ASSUME UNCHANGED <<sale, goods, tickets, status>>
        PROVE  SaleFollowsStatus' /\ UnsoldMovesNothing'
    BY <1>1, QuietStep
  <1>2. ASSUME NEW o \in Orders, Create(o)
        PROVE  SaleFollowsStatus' /\ UnsoldMovesNothing'
    <2>1. \A other \in Orders : status'[other] \in {status[other]} \cup Editable
      BY <1>2 DEF Create, IInv, TypeOK, Editable
    <2> QED  BY <1>2, <2>1, QuietStep DEF Create
  <1>3. ASSUME NEW t \in Threads, CommitStatus(t)
        PROVE  SaleFollowsStatus' /\ UnsoldMovesNothing'
    <2>1. job[t] \in StatusCalls
      BY <1>3, CallOf DEF IInv, CommitStatus, Doing
    <2>2. \A other \in Orders : status'[other] \in {status[other]} \cup Editable
      BY <1>3, <2>1 DEF CommitStatus, StatusCalls, IInv, TypeOK
    <2> QED  BY <1>3, <2>2, QuietStep DEF CommitStatus
  <1>4. ASSUME NEW t \in Threads, CommitSend(t)
        PROVE  SaleFollowsStatus' /\ UnsoldMovesNothing'
    BY <1>4, SendSettles, SettleStep DEF IInv
  <1>5. ASSUME NEW t \in Threads, CommitPrep(t)
        PROVE  SaleFollowsStatus' /\ UnsoldMovesNothing'
    <2>1. job[t].order \in Orders /\ sale[job[t].order] # "none"
      BY <1>5, CallOf DEF IInv, CommitPrep, Doing, CallsFit, OnSold
    <2>2. \A other \in Orders \ {job[t].order} :
            prep'[other] = prep[other] /\ print'[other] = print[other]
      BY <1>5, <2>1 DEF CommitPrep, IInv, TypeOK
    <2> QED  BY <1>5, <2>1, <2>2, TicketStep DEF CommitPrep
  <1>6. ASSUME NEW t \in Threads, CommitPrint(t)
        PROVE  SaleFollowsStatus' /\ UnsoldMovesNothing'
    <2>1. job[t].order \in Orders /\ sale[job[t].order] # "none"
      BY <1>6, CallOf DEF IInv, CommitPrint, Doing, CallsFit, OnSold
    <2>2. \A other \in Orders \ {job[t].order} :
            prep'[other] = prep[other] /\ print'[other] = print[other]
      BY <1>6, <2>1 DEF CommitPrint, IInv, TypeOK
    <2> QED  BY <1>6, <2>1, <2>2, TicketStep DEF CommitPrint
  <1>7. CASE \/ EnableKitchen
             \/ \E o \in Orders, wasSent \in BOOLEAN : AnswerDuplicate(o, wasSent)
             \/ \E t \in Threads : CommitTake(t) \/ GiveUp(t)
             \/ UNCHANGED vars
    BY <1>1, <1>7 DEF EnableKitchen, AnswerDuplicate, CommitTake, GiveUp, vars, goods, tickets
  <1>8. CASE \E t \in Threads, o \in Orders :
               \/ \E to \in Editable : LoadStatus(t, o, to)
               \/ LoadSend(t, o)
               \/ \E wasSent, drift \in BOOLEAN : LoadReplay(t, o, wasSent, drift)
               \/ LoadVoid(t, o)
               \/ LoadTake(t, o)
               \/ \E to \in PrepStates : LoadPrep(t, o, to)
               \/ \E to \in PrintStates : LoadPrint(t, o, to)
    BY <1>1, <1>8
    DEF LoadStatus, LoadSend, LoadReplay, LoadVoid, LoadTake, LoadPrep, LoadPrint
  <1> QED
    BY <1>2, <1>3, <1>4, <1>5, <1>6, <1>7, <1>8, VoidStep, ReplayStep DEF Next

LEMMA InvInit == Init => IInv
  <1> SUFFICES ASSUME Init
               PROVE  IInv
    OBVIOUS
  <1>1. TypeOK
    BY TypeInit
  <1> QED
    BY <1>1 DEF IInv, Init, SaleFollowsStatus, UnsoldMovesNothing, CallsFit, OnSold

LEMMA InvStep == IInv /\ [Next]_vars => IInv'
  BY TypeStep, SalesStep, CallsFitStep DEF IInv

THEOREM Invariance == Spec => []IInv
  BY InvInit, InvStep, PTL DEF Spec

\* A sent order is a booked sale and a void one a zeroed sale, whatever sends,
\* replays, recalls and voids overlap.
THEOREM RevenueFollowsStatus == Spec => []SaleFollowsStatus
  <1>1. IInv => SaleFollowsStatus
    BY DEF IInv
  <1> QED  BY <1>1, Invariance, PTL

\* An order without a sale has touched no stock and no ticket.
THEOREM NothingBeforeTheSale == Spec => []UnsoldMovesNothing
  <1>1. IInv => UnsoldMovesNothing
    BY DEF IInv
  <1> QED  BY <1>1, Invariance, PTL

--------------------------------------------------------------------------------
(* What a settlement takes *)

LEMMA SoldOnceStep ==
  ASSUME IInv, SoldAtMostOnce, [Next]_vars
  PROVE  SoldAtMostOnce'
  <1>1. ASSUME UNCHANGED taken
        PROVE  SoldAtMostOnce'
    BY <1>1 DEF SoldAtMostOnce
  <1>2. ASSUME NEW o \in Orders, NEW k \in BOOLEAN, NEW printed,
               Settle(o, Owed(o, k), printed)
        PROVE  SoldAtMostOnce'
    <2>1. Owed(o, k) \in [Products -> Nat]
      BY OwedType
    <2>2. taken[o] = Nothing
      BY <1>2, <2>1, SettleEffect DEF IInv, UnsoldMovesNothing
    <2>3. \A p \in Products : taken'[o][p] \in {0, Owed(o, k)[p]}
      BY <1>2, <2>1, <2>2, SettleEffect, ServedType DEF IInv, TypeOK, Nothing
    <2>4. \A p \in Products :
            Owed(o, k)[p] \in {Shelf[o][p], Shelf[o][p] + Fresh[o][p]}
      BY OwedType
    <2>5. \A other \in Orders \ {o} : taken'[other] = taken[other]
      BY <1>2, <2>1, SettleEffect DEF IInv
    <2> QED  BY <2>3, <2>4, <2>5 DEF SoldAtMostOnce
  <1>3. ASSUME NEW t \in Threads, CommitSend(t)
        PROVE  SoldAtMostOnce'
    BY <1>2, <1>3, SendSettles DEF IInv
  <1>4. ASSUME NEW t \in Threads, NEW result, CommitReplay(t, result)
        PROVE  SoldAtMostOnce'
    <2>1. job[t].kitchen \in BOOLEAN
      BY <1>4, ReplaySettlesOrNot DEF IInv, ReplayCalls
    <2> QED  BY <1>1, <1>2, <1>4, <2>1, ReplaySettlesOrNot DEF IInv, goods
  <1> QED
    BY <1>1, <1>3, <1>4
    DEF Next, vars, goods, EnableKitchen, Create, AnswerDuplicate, LoadStatus,
        LoadSend, LoadReplay, LoadVoid, LoadTake, LoadPrep, LoadPrint,
        CommitStatus, CommitVoid, CommitTake, CommitPrep, CommitPrint, GiveUp

\* An order's stock is taken once, however its settlements overlap.
THEOREM SettledOnce == Spec => []SoldAtMostOnce
  <1>1. Init => SoldAtMostOnce
    BY DEF Init, SoldAtMostOnce, Nothing
  <1>2. IInv /\ SoldAtMostOnce /\ [Next]_vars => SoldAtMostOnce'
    BY SoldOnceStep
  <1> QED  BY <1>1, <1>2, Invariance, PTL DEF Spec

LEMMA ReviewedStep ==
  ASSUME IInv, ShortfallsAreReviewed, [Next]_vars
  PROVE  ShortfallsAreReviewed'
  <1>1. \A o \in Orders : flag[o] # "none" => flag'[o] # "none"
    BY NeverUnsold
  <1>2. ASSUME UNCHANGED taken, \A o \in Orders : sale'[o] # "none" => sale[o] # "none"
        PROVE  ShortfallsAreReviewed'
    BY <1>1, <1>2 DEF ShortfallsAreReviewed
  <1>3. ASSUME NEW o \in Orders, NEW k \in BOOLEAN, NEW printed,
               Settle(o, Owed(o, k), printed),
               Short(Owed(o, k)) # {} => flag'[o] # "none"
        PROVE  ShortfallsAreReviewed'
    <2>1. Owed(o, k) \in [Products -> Nat]
      BY OwedType
    <2>2. taken[o] = Nothing
      BY <1>3, <2>1, SettleEffect DEF IInv, UnsoldMovesNothing
    <2>3. Short(Owed(o, k)) = {} => \A p \in Products : taken'[o][p] = Owed(o, k)[p]
      BY <1>3, <2>1, <2>2, SettleEffect, ServedType DEF IInv, TypeOK, Nothing
    <2>4. \A p \in Products : Owed(o, k)[p] >= Shelf[o][p]
      BY OwedType
    <2>5. flag'[o] = "none" => \A p \in Products : ~(taken'[o][p] < Shelf[o][p])
      BY <1>3, <2>1, <2>3, <2>4, OrdersAssumption
    <2>6. \A other \in Orders \ {o} :
            taken'[other] = taken[other] /\ sale'[other] = sale[other]
      BY <1>3, <2>1, SettleEffect DEF IInv
    <2> QED  BY <1>1, <2>5, <2>6 DEF ShortfallsAreReviewed
  <1>4. ASSUME NEW t \in Threads, CommitSend(t)
        PROVE  ShortfallsAreReviewed'
    BY <1>3, <1>4, SendSettles DEF IInv
  <1>5. ASSUME NEW t \in Threads, NEW result, CommitReplay(t, result)
        PROVE  ShortfallsAreReviewed'
    <2> DEFINE owed == Owed(job[t].order, job[t].kitchen)
    <2>1. job[t] \in ReplayCalls /\ job[t].order \in Orders /\ job[t].kitchen \in BOOLEAN
      BY <1>5, ReplaySettlesOrNot DEF IInv, ReplayCalls
    <2>2. job[t].flag # "none" => flag[job[t].order] # "none"
      BY <1>5 DEF IInv, CommitReplay, Doing, CallsFit, OnSold
    <2>3. CASE /\ Settle(job[t].order, owed, Reported("QUEUED", result))
               /\ flag' = Flagged(job[t], Short(owed) # {})
      <3>1. Short(owed) # {} => flag'[job[t].order] # "none"
        BY <2>1, <2>2, <2>3, FlagsStay DEF IInv
      <3> QED  BY <1>3, <2>1, <2>3, <3>1
    <2>4. CASE UNCHANGED <<sale, goods, prep>>
      BY <1>2, <2>4 DEF goods
    <2> QED  BY <1>5, <2>3, <2>4, ReplaySettlesOrNot DEF IInv
  <1>6. ASSUME NEW t \in Threads, CommitVoid(t)
        PROVE  ShortfallsAreReviewed'
    <2>1. job[t].order \in Orders /\ sale[job[t].order] # "none"
      BY <1>6, CallOf DEF IInv, CommitVoid, Doing, CallsFit, OnSold
    <2>2. \A o \in Orders : sale'[o] # "none" => sale[o] # "none"
      BY <1>6, <2>1 DEF CommitVoid, Zeroed, IInv, TypeOK
    <2> QED  BY <1>2, <1>6, <2>2 DEF CommitVoid
  <1> QED
    BY <1>2, <1>4, <1>5, <1>6
    DEF Next, vars, goods, EnableKitchen, Create, AnswerDuplicate, LoadStatus,
        LoadSend, LoadReplay, LoadVoid, LoadTake, LoadPrep, LoadPrint,
        CommitStatus, CommitTake, CommitPrep, CommitPrint, GiveUp

\* Whatever was sold beyond the stock is in the review queue for good.
THEOREM ShortfallsStayFlagged == Spec => []ShortfallsAreReviewed
  <1>1. Init => ShortfallsAreReviewed
    BY DEF Init, ShortfallsAreReviewed
  <1>2. IInv /\ ShortfallsAreReviewed /\ [Next]_vars => ShortfallsAreReviewed'
    BY ReviewedStep
  <1> QED  BY <1>1, <1>2, Invariance, PTL DEF Spec

--------------------------------------------------------------------------------
(* Idempotency keys *)

Replies == {"none", "ran", "replayed", "busy", "reused", "refused", "lost"}

KeysTyped ==
  /\ holder \in [Keys -> Callers \cup {"none"}]
  /\ callPc \in [Callers -> {"idle", "claiming", "owner", "worked"}]
  /\ reply \in [Callers -> Replies]
  /\ DOMAIN slots = Keys /\ DOMAIN runs = Keys

\* A key nobody committed has no work behind it; a committed one has the work of
\* the body it was hashed from, once.
SlotOK(k) ==
  IF slots[k] = FreeSlot
  THEN runs[k] = <<>>
  ELSE runs[k] = <<slots[k].hash>> /\ slots[k].status \in {"IN_FLIGHT", "COMPLETED"}
\* The holder of a key is the one call that owns it.
HolderOK(k) ==
  holder[k] # "none" =>
    KeyOf[holder[k]] = k /\ callPc[holder[k]] = "owner" /\ slots[k] = FreeSlot
CallOK(c) ==
  /\ callPc[c] = "owner" => holder[KeyOf[c]] = c
  /\ callPc[c] = "worked" => slots[KeyOf[c]] # FreeSlot /\ slots[KeyOf[c]].hash = BodyOf[c]
  /\ callPc[c] # "idle" => reply[c] = "none"

IdemInv ==
  /\ KeysTyped
  /\ \A k \in Keys : SlotOK(k) /\ HolderOK(k)
  /\ \A c \in Callers : CallOK(c)

\* What a client was told, in the words of OnceOnly.
Told(r) ==
  CASE r \in {"ran", "replayed"} -> "done"
    [] r \in {"busy", "reused", "refused"} -> "turned away"
    [] OTHER -> "nothing"
told == [c \in Callers |-> Told(reply[c])]

LEMMA ToldFacts ==
  /\ Told("none") = "nothing" /\ Told("lost") = "nothing"
  /\ Told("ran") = "done" /\ Told("replayed") = "done"
  /\ Told("busy") = "turned away" /\ Told("reused") = "turned away"
  /\ Told("refused") = "turned away"
BY DEF Told

LEMMA RowOfCall ==
  ASSUME NEW c, NEW mark \in {"IN_FLIGHT", "COMPLETED"}
  PROVE  /\ Row(c, mark).status = mark /\ Row(c, mark).hash = BodyOf[c]
         /\ Row(c, mark) # FreeSlot
<1>1. FreeSlot.status = "FREE" /\ Row(c, mark).status = mark
  BY DEF FreeSlot, Row
<1> QED  BY <1>1 DEF Row

\* One caller's answer moves what it was told and nothing else.
LEMMA AnswerTells ==
  ASSUME KeysTyped, NEW c \in Callers, NEW r \in Replies, reply' = [reply EXCEPT ![c] = r]
  PROVE  /\ told' = [told EXCEPT ![c] = Told(r)]
         /\ reply' \in [Callers -> Replies] /\ reply'[c] = r
         /\ \A o \in Callers \ {c} : reply'[o] = reply[o]
<1>1. /\ reply' \in [Callers -> Replies] /\ reply'[c] = r
      /\ \A o \in Callers \ {c} : reply'[o] = reply[o]
  BY DEF KeysTyped
<1>2. \A o \in Callers : told'[o] = [told EXCEPT ![c] = Told(r)][o]
  BY <1>1 DEF told
<1> QED  BY <1>1, <1>2 DEF told

\* The rest of the system after a step of one caller on its own key.
LEMMA OthersKeep ==
  ASSUME IdemInv, NEW c \in Callers,
         callPc' \in [Callers -> {"idle", "claiming", "owner", "worked"}],
         \A o \in Callers \ {c} : callPc'[o] = callPc[o] /\ reply'[o] = reply[o],
         reply' \in [Callers -> Replies],
         DOMAIN slots' = Keys, DOMAIN runs' = Keys,
         holder' \in [Keys -> Callers \cup {"none"}],
         \A k \in Keys \ {KeyOf[c]} :
           slots'[k] = slots[k] /\ runs'[k] = runs[k] /\ holder'[k] = holder[k],
         holder'[KeyOf[c]] \in {holder[KeyOf[c]], c, "none"},
         holder[KeyOf[c]] \in {c, "none"} \/ holder'[KeyOf[c]] = holder[KeyOf[c]],
         slots'[KeyOf[c]] = slots[KeyOf[c]]
           \/ holder[KeyOf[c]] = c
           \/ /\ slots[KeyOf[c]] # FreeSlot /\ slots'[KeyOf[c]] # FreeSlot
              /\ slots'[KeyOf[c]].hash = slots[KeyOf[c]].hash,
         SlotOK(KeyOf[c])', CallOK(c)', HolderOK(KeyOf[c])',
         holder'[KeyOf[c]] = c <=> callPc'[c] = "owner"
  PROVE  IdemInv'
<1>1. KeysTyped'
  BY DEF KeysTyped
<1>2. KeysTyped /\ (\A k \in Keys : SlotOK(k) /\ HolderOK(k)) /\ \A o \in Callers : CallOK(o)
  BY DEF IdemInv
<1>3. \A o \in Callers : KeyOf[o] \in Keys /\ o # "none"
  BY IdempotencyAssumption
<1>4. \A k \in Keys \ {KeyOf[c]} : SlotOK(k)'
  BY <1>2 DEF SlotOK
<1>5. ASSUME NEW k \in Keys \ {KeyOf[c]} PROVE HolderOK(k)'
  <2>1. HolderOK(k) /\ holder'[k] = holder[k] /\ slots'[k] = slots[k]
    BY <1>2
  <2>2. holder[k] # "none" => holder[k] \in Callers /\ holder[k] # c
    BY <1>2, <2>1 DEF KeysTyped, HolderOK
  <2> QED  BY <2>1, <2>2 DEF HolderOK
<1>6. ASSUME NEW o \in Callers \ {c} PROVE CallOK(o)'
  <2>1. CallOK(o) /\ callPc'[o] = callPc[o] /\ reply'[o] = reply[o] /\ KeyOf[o] \in Keys
    BY <1>2, <1>3
  <2>2. CASE KeyOf[o] # KeyOf[c]
    BY <2>1, <2>2 DEF CallOK
  <2>3. CASE KeyOf[o] = KeyOf[c]
    <3>1. callPc[o] = "owner" => holder'[KeyOf[c]] = o
      BY <1>3, <2>1, <2>3 DEF CallOK
    <3>2. callPc[o] = "worked" =>
            slots'[KeyOf[c]] # FreeSlot /\ slots'[KeyOf[c]].hash = BodyOf[o]
      <4>1. holder[KeyOf[c]] = c => slots[KeyOf[c]] = FreeSlot
        BY <1>2, <1>3 DEF HolderOK
      <4> QED  BY <2>1, <2>3, <4>1 DEF CallOK
    <3> QED  BY <2>1, <2>3, <3>1, <3>2 DEF CallOK
  <2> QED  BY <2>2, <2>3
<1> QED  BY <1>1, <1>4, <1>5, <1>6 DEF IdemInv

OnceStep == Once!OnceNext \/ UNCHANGED <<runs, told>>

LEMMA CallerFacts ==
  ASSUME IdemInv, NEW c \in Callers
  PROVE  /\ KeysTyped /\ CallOK(c) /\ KeyOf[c] \in Keys /\ c # "none"
         /\ SlotOK(KeyOf[c]) /\ HolderOK(KeyOf[c]) /\ told[c] = Told(reply[c])
BY IdempotencyAssumption DEF IdemInv, told

LEMMA SendKeeps ==
  ASSUME IdemInv, NEW c \in Callers, Send(c)
  PROVE  IdemInv' /\ OnceStep
<1> DEFINE k == KeyOf[c]
<1>1. /\ callPc[c] = "idle" /\ callPc' = [callPc EXCEPT ![c] = "claiming"]
      /\ reply' = [reply EXCEPT ![c] = "none"] /\ UNCHANGED <<slots, holder, runs, faults>>
  BY DEF Send
<1>2. /\ KeysTyped /\ CallOK(c) /\ KeyOf[c] \in Keys /\ c # "none"
      /\ SlotOK(KeyOf[c]) /\ HolderOK(KeyOf[c]) /\ told[c] = Told(reply[c])
  BY CallerFacts
<1>3. /\ told' = [told EXCEPT ![c] = "nothing"]
      /\ reply' \in [Callers -> Replies] /\ reply'[c] = "none"
      /\ \A o \in Callers \ {c} : reply'[o] = reply[o]
  BY <1>1, <1>2, AnswerTells, ToldFacts DEF Replies
<1>4. /\ callPc' \in [Callers -> {"idle", "claiming", "owner", "worked"}]
      /\ callPc'[c] = "claiming" /\ \A o \in Callers \ {c} : callPc'[o] = callPc[o]
  BY <1>1, <1>2 DEF KeysTyped
<1>5. holder[k] # c
  BY <1>1, <1>2 DEF HolderOK
<1>6. SlotOK(k)' /\ HolderOK(k)' /\ CallOK(c)'
  <2>1. holder[k] # "none" => holder[k] \in Callers \ {c}
    BY <1>2, <1>5 DEF KeysTyped
  <2> QED  BY <1>1, <1>2, <1>3, <1>4, <2>1 DEF SlotOK, HolderOK, CallOK
<1>7. IdemInv'
  BY <1>1, <1>2, <1>3, <1>4, <1>5, <1>6, OthersKeep DEF KeysTyped
<1>8. OnceStep
  <2>1. CASE told[c] = "nothing"
    <3>1. told' = told
      BY <1>3, <2>1 DEF told
    <3> QED  BY <1>1, <3>1 DEF OnceStep
  <2>2. CASE told[c] # "nothing"
    <3>1. Once!Forget(c)
      BY <1>1, <1>3, <2>2 DEF Once!Forget, told, Told
    <3> QED  BY <3>1 DEF OnceStep, Once!OnceNext
  <2> QED  BY <2>1, <2>2
<1> QED  BY <1>7, <1>8

LEMMA ClaimKeeps ==
  ASSUME IdemInv, NEW c \in Callers, Claim(c)
  PROVE  IdemInv' /\ OnceStep
<1> DEFINE k == KeyOf[c]
<1>1. /\ callPc[c] = "claiming" /\ slots[k] = FreeSlot /\ holder[k] = "none"
      /\ callPc' = [callPc EXCEPT ![c] = "owner"] /\ holder' = [holder EXCEPT ![k] = c]
      /\ UNCHANGED <<slots, reply, runs, faults>>
  BY DEF Claim, MayInsert, SlotOf
<1>2. /\ KeysTyped /\ CallOK(c) /\ KeyOf[c] \in Keys /\ c # "none"
      /\ SlotOK(KeyOf[c]) /\ HolderOK(KeyOf[c]) /\ told[c] = Told(reply[c])
  BY CallerFacts
<1>3. /\ callPc' \in [Callers -> {"idle", "claiming", "owner", "worked"}]
      /\ callPc'[c] = "owner" /\ \A o \in Callers \ {c} : callPc'[o] = callPc[o]
  BY <1>1, <1>2 DEF KeysTyped
<1>4. /\ holder' \in [Keys -> Callers \cup {"none"}] /\ holder'[k] = c
      /\ \A l \in Keys \ {k} : holder'[l] = holder[l]
  BY <1>1, <1>2 DEF KeysTyped
<1>5. SlotOK(k)' /\ HolderOK(k)' /\ CallOK(c)'
  BY <1>1, <1>2, <1>3, <1>4 DEF SlotOK, HolderOK, CallOK
<1>6. IdemInv'
  BY <1>1, <1>2, <1>3, <1>4, <1>5, OthersKeep DEF KeysTyped
<1>7. OnceStep
  BY <1>1 DEF OnceStep, told
<1> QED  BY <1>6, <1>7

\* A duplicate is told of the work only when it sent the body that was worked on.
LEMMA FindTakenKeeps ==
  ASSUME IdemInv, NEW c \in Callers, FindTaken(c)
  PROVE  IdemInv' /\ OnceStep
<1> DEFINE k == KeyOf[c]
           what == Verdict(c)
<1>1. /\ callPc[c] = "claiming" /\ slots[k] # FreeSlot /\ holder[k] = "none"
      /\ callPc' = [callPc EXCEPT ![c] = "idle"] /\ reply' = [reply EXCEPT ![c] = what]
      /\ UNCHANGED <<slots, holder, runs, faults>>
  BY DEF FindTaken, Answer, SlotOf
<1>2. /\ KeysTyped /\ CallOK(c) /\ KeyOf[c] \in Keys /\ c # "none"
      /\ SlotOK(KeyOf[c]) /\ HolderOK(KeyOf[c]) /\ told[c] = Told(reply[c])
  BY CallerFacts
<1>3. /\ what \in {"reused", "replayed", "busy"}
      /\ what = "replayed" => slots[k].hash = BodyOf[c]
  BY DEF Verdict, SlotOf
<1> HIDE DEF what
<1>4. /\ told' = [told EXCEPT ![c] = Told(what)]
      /\ reply' \in [Callers -> Replies] /\ reply'[c] = what
      /\ \A o \in Callers \ {c} : reply'[o] = reply[o]
  BY <1>1, <1>2, <1>3, AnswerTells DEF Replies
<1>5. /\ callPc' \in [Callers -> {"idle", "claiming", "owner", "worked"}]
      /\ callPc'[c] = "idle" /\ \A o \in Callers \ {c} : callPc'[o] = callPc[o]
  BY <1>1, <1>2 DEF KeysTyped
<1>6. SlotOK(k)' /\ HolderOK(k)' /\ CallOK(c)'
  BY <1>1, <1>2, <1>5 DEF SlotOK, HolderOK, CallOK
<1>7. IdemInv'
  BY <1>1, <1>2, <1>4, <1>5, <1>6, OthersKeep DEF KeysTyped
<1>8. told[c] = "nothing"
  BY <1>1, <1>2, ToldFacts DEF CallOK
<1>9. OnceStep
  <2>1. CASE what = "replayed"
    <3>1. runs'[k] = <<BodyOf[c]>>
      BY <1>1, <1>2, <1>3, <2>1 DEF SlotOK
    <3>2. Once!Tell(c) /\ UNCHANGED runs
      BY <1>1, <1>4, <1>8, <2>1, <3>1, ToldFacts DEF Once!Tell, told, Told
    <3> QED  BY <3>2 DEF OnceStep, Once!OnceNext
  <2>2. CASE what \in {"reused", "busy"}
    <3>1. Once!TurnAway(c)
      BY <1>1, <1>4, <1>8, <2>2, ToldFacts DEF Once!TurnAway, told, Told
    <3> QED  BY <3>1 DEF OnceStep, Once!OnceNext
  <2> QED  BY <1>3, <2>1, <2>2
<1> QED  BY <1>7, <1>9

LEMMA CommitWorkKeeps ==
  ASSUME IdemInv, NEW c \in Callers, CommitWork(c)
  PROVE  IdemInv' /\ OnceStep
<1> DEFINE k == KeyOf[c]
           row == Row(c, "IN_FLIGHT")
<1>1. /\ callPc[c] = "owner" /\ runs' = [runs EXCEPT ![k] = Append(@, BodyOf[c])]
      /\ slots' = [slots EXCEPT ![k] = row] /\ holder' = [holder EXCEPT ![k] = "none"]
      /\ callPc' = [callPc EXCEPT ![c] = "worked"] /\ UNCHANGED <<reply, faults>>
  BY DEF CommitWork, Does, LetGo
<1>2. /\ KeysTyped /\ CallOK(c) /\ KeyOf[c] \in Keys /\ c # "none"
      /\ SlotOK(KeyOf[c]) /\ HolderOK(KeyOf[c]) /\ told[c] = Told(reply[c])
  BY CallerFacts
<1>3. holder[k] = c /\ slots[k] = FreeSlot /\ runs[k] = <<>>
  BY <1>1, <1>2 DEF CallOK, HolderOK, SlotOK
<1>4. row.status = "IN_FLIGHT" /\ row.hash = BodyOf[c] /\ row # FreeSlot
  BY RowOfCall
<1> HIDE DEF row
<1>5. runs' = [runs EXCEPT ![k] = <<BodyOf[c]>>]
  BY <1>1, <1>2, <1>3 DEF KeysTyped
<1>6. /\ DOMAIN slots' = Keys /\ DOMAIN runs' = Keys
      /\ slots'[k] = row /\ runs'[k] = <<BodyOf[c]>> /\ holder'[k] = "none"
      /\ holder' \in [Keys -> Callers \cup {"none"}]
      /\ \A l \in Keys \ {k} :
           slots'[l] = slots[l] /\ runs'[l] = runs[l] /\ holder'[l] = holder[l]
  BY <1>1, <1>2, <1>5 DEF KeysTyped
<1>7. /\ callPc' \in [Callers -> {"idle", "claiming", "owner", "worked"}]
      /\ callPc'[c] = "worked" /\ \A o \in Callers \ {c} : callPc'[o] = callPc[o]
  BY <1>1, <1>2 DEF KeysTyped
<1>8. SlotOK(k)' /\ HolderOK(k)' /\ CallOK(c)'
  BY <1>1, <1>2, <1>4, <1>6, <1>7 DEF SlotOK, HolderOK, CallOK
<1>9. IdemInv'
  BY <1>1, <1>2, <1>3, <1>6, <1>7, <1>8, OthersKeep DEF KeysTyped
<1>10. OnceStep
  <2>1. Once!Work(c) /\ UNCHANGED told
    BY <1>1, <1>3, <1>5 DEF Once!Work, told
  <2> QED  BY <2>1 DEF OnceStep, Once!OnceNext, told, Told
<1> QED  BY <1>9, <1>10

LEMMA CompleteSplitKeeps ==
  ASSUME IdemInv, NEW c \in Callers, CompleteSplit(c)
  PROVE  IdemInv' /\ OnceStep
<1> DEFINE k == KeyOf[c]
           row == CompletedRow(c)
<1>1. /\ callPc[c] = "worked" /\ slots' = [slots EXCEPT ![k] = row]
      /\ callPc' = [callPc EXCEPT ![c] = "idle"] /\ reply' = [reply EXCEPT ![c] = "ran"]
      /\ UNCHANGED <<holder, runs, faults>>
  BY DEF CompleteSplit, Answer
<1>2. /\ KeysTyped /\ CallOK(c) /\ KeyOf[c] \in Keys /\ c # "none"
      /\ SlotOK(KeyOf[c]) /\ HolderOK(KeyOf[c]) /\ told[c] = Told(reply[c])
  BY CallerFacts
<1>3. /\ slots[k] # FreeSlot /\ slots[k].hash = BodyOf[c] /\ runs[k] = <<BodyOf[c]>>
      /\ holder[k] = "none"
  BY <1>1, <1>2 DEF CallOK, HolderOK, SlotOK
<1>4. row.status = "COMPLETED" /\ row.hash = BodyOf[c] /\ row # FreeSlot
  BY RowOfCall DEF CompletedRow
<1> HIDE DEF row
<1>5. /\ DOMAIN slots' = Keys /\ slots'[k] = row
      /\ \A l \in Keys \ {k} : slots'[l] = slots[l]
  BY <1>1, <1>2 DEF KeysTyped
<1>6. /\ told' = [told EXCEPT ![c] = "done"]
      /\ reply' \in [Callers -> Replies] /\ reply'[c] = "ran"
      /\ \A o \in Callers \ {c} : reply'[o] = reply[o]
  BY <1>1, <1>2, AnswerTells, ToldFacts DEF Replies
<1>7. /\ callPc' \in [Callers -> {"idle", "claiming", "owner", "worked"}]
      /\ callPc'[c] = "idle" /\ \A o \in Callers \ {c} : callPc'[o] = callPc[o]
  BY <1>1, <1>2 DEF KeysTyped
<1>8. SlotOK(k)' /\ HolderOK(k)' /\ CallOK(c)'
  BY <1>1, <1>2, <1>3, <1>4, <1>5, <1>7 DEF SlotOK, HolderOK, CallOK
<1>9. IdemInv'
  BY <1>1, <1>2, <1>3, <1>4, <1>5, <1>6, <1>7, <1>8, OthersKeep DEF KeysTyped
<1>10. told[c] = "nothing"
  BY <1>1, <1>2, ToldFacts DEF CallOK
<1>11. Once!Tell(c) /\ UNCHANGED runs
  BY <1>1, <1>3, <1>6, <1>10 DEF Once!Tell, told, Told
<1> QED  BY <1>9, <1>11 DEF OnceStep, Once!OnceNext

LEMMA CompleteJointKeeps ==
  ASSUME IdemInv, NEW c \in Callers, CompleteJoint(c)
  PROVE  IdemInv' /\ OnceStep
<1> DEFINE k == KeyOf[c]
           row == CompletedRow(c)
<1>1. /\ callPc[c] = "owner" /\ runs' = [runs EXCEPT ![k] = Append(@, BodyOf[c])]
      /\ slots' = [slots EXCEPT ![k] = row] /\ holder' = [holder EXCEPT ![k] = "none"]
      /\ callPc' = [callPc EXCEPT ![c] = "idle"] /\ reply' = [reply EXCEPT ![c] = "ran"]
      /\ UNCHANGED faults
  BY DEF CompleteJoint, Does, LetGo, Answer
<1>2. /\ KeysTyped /\ CallOK(c) /\ KeyOf[c] \in Keys /\ c # "none"
      /\ SlotOK(KeyOf[c]) /\ HolderOK(KeyOf[c]) /\ told[c] = Told(reply[c])
  BY CallerFacts
<1>3. holder[k] = c /\ slots[k] = FreeSlot /\ runs[k] = <<>>
  BY <1>1, <1>2 DEF CallOK, HolderOK, SlotOK
<1>4. row.status = "COMPLETED" /\ row.hash = BodyOf[c] /\ row # FreeSlot
  BY RowOfCall DEF CompletedRow
<1> HIDE DEF row
<1>5. runs' = [runs EXCEPT ![k] = <<BodyOf[c]>>]
  BY <1>1, <1>2, <1>3 DEF KeysTyped
<1>6. /\ DOMAIN slots' = Keys /\ DOMAIN runs' = Keys
      /\ slots'[k] = row /\ runs'[k] = <<BodyOf[c]>> /\ holder'[k] = "none"
      /\ holder' \in [Keys -> Callers \cup {"none"}]
      /\ \A l \in Keys \ {k} :
           slots'[l] = slots[l] /\ runs'[l] = runs[l] /\ holder'[l] = holder[l]
  BY <1>1, <1>2, <1>5 DEF KeysTyped
<1>7. /\ callPc' \in [Callers -> {"idle", "claiming", "owner", "worked"}]
      /\ callPc'[c] = "idle" /\ \A o \in Callers \ {c} : callPc'[o] = callPc[o]
  BY <1>1, <1>2 DEF KeysTyped
<1>8. /\ told' = [told EXCEPT ![c] = "done"]
      /\ reply' \in [Callers -> Replies] /\ reply'[c] = "ran"
      /\ \A o \in Callers \ {c} : reply'[o] = reply[o]
  BY <1>1, <1>2, AnswerTells, ToldFacts DEF Replies
<1>9. SlotOK(k)' /\ HolderOK(k)' /\ CallOK(c)'
  BY <1>1, <1>2, <1>4, <1>6, <1>7 DEF SlotOK, HolderOK, CallOK
<1>10. IdemInv'
  BY <1>1, <1>2, <1>3, <1>6, <1>7, <1>8, <1>9, OthersKeep DEF KeysTyped
<1>11. told[c] = "nothing"
  BY <1>1, <1>2, ToldFacts DEF CallOK
<1>12. Once!Work(c) /\ Once!Tell(c)
  BY <1>3, <1>5, <1>6, <1>8, <1>11 DEF Once!Work, Once!Tell, told, Told
<1> QED  BY <1>10, <1>12 DEF OnceStep, Once!OnceNext

LEMMA RefuseKeeps ==
  ASSUME IdemInv, NEW c \in Callers, Refuse(c)
  PROVE  IdemInv' /\ OnceStep
<1> DEFINE k == KeyOf[c]
<1>1. /\ callPc[c] = "owner" /\ holder' = [holder EXCEPT ![k] = "none"]
      /\ callPc' = [callPc EXCEPT ![c] = "idle"] /\ reply' = [reply EXCEPT ![c] = "refused"]
      /\ UNCHANGED <<slots, runs, faults>>
  BY DEF Refuse, LetGo, Answer
<1>2. /\ KeysTyped /\ CallOK(c) /\ KeyOf[c] \in Keys /\ c # "none"
      /\ SlotOK(KeyOf[c]) /\ HolderOK(KeyOf[c]) /\ told[c] = Told(reply[c])
  BY CallerFacts
<1>3. holder[k] = c
  BY <1>1, <1>2 DEF CallOK
<1>4. /\ holder' \in [Keys -> Callers \cup {"none"}] /\ holder'[k] = "none"
      /\ \A l \in Keys \ {k} : holder'[l] = holder[l]
  BY <1>1, <1>2 DEF KeysTyped
<1>5. /\ callPc' \in [Callers -> {"idle", "claiming", "owner", "worked"}]
      /\ callPc'[c] = "idle" /\ \A o \in Callers \ {c} : callPc'[o] = callPc[o]
  BY <1>1, <1>2 DEF KeysTyped
<1>6. /\ told' = [told EXCEPT ![c] = "turned away"]
      /\ reply' \in [Callers -> Replies] /\ reply'[c] = "refused"
      /\ \A o \in Callers \ {c} : reply'[o] = reply[o]
  BY <1>1, <1>2, AnswerTells, ToldFacts DEF Replies
<1>7. SlotOK(k)' /\ HolderOK(k)' /\ CallOK(c)'
  BY <1>1, <1>2, <1>4, <1>5 DEF SlotOK, HolderOK, CallOK
<1>8. IdemInv'
  BY <1>1, <1>2, <1>3, <1>4, <1>5, <1>6, <1>7, OthersKeep DEF KeysTyped
<1>9. told[c] = "nothing"
  BY <1>1, <1>2, ToldFacts DEF CallOK
<1>10. Once!TurnAway(c)
  BY <1>1, <1>6, <1>9 DEF Once!TurnAway, told, Told
<1> QED  BY <1>8, <1>10 DEF OnceStep, Once!OnceNext

\* What the server had not committed is gone, and it had told nobody of it.
LEMMA CrashCallKeeps ==
  ASSUME IdemInv, NEW c \in Callers, CrashCall(c)
  PROVE  IdemInv' /\ OnceStep
<1> DEFINE k == KeyOf[c]
<1>1. /\ callPc[c] # "idle"
      /\ holder' = [l \in Keys |-> IF holder[l] = c THEN "none" ELSE holder[l]]
      /\ callPc' = [callPc EXCEPT ![c] = "idle"] /\ reply' = [reply EXCEPT ![c] = "lost"]
      /\ UNCHANGED <<slots, runs>>
  BY DEF CrashCall, Answer
<1>2. /\ KeysTyped /\ CallOK(c) /\ KeyOf[c] \in Keys /\ c # "none"
      /\ SlotOK(KeyOf[c]) /\ HolderOK(KeyOf[c]) /\ told[c] = Told(reply[c])
  BY CallerFacts
<1>3. \A l \in Keys \ {k} : holder[l] # c
  BY <1>2 DEF IdemInv, HolderOK
<1>4. /\ holder' \in [Keys -> Callers \cup {"none"}]
      /\ holder'[k] = IF holder[k] = c THEN "none" ELSE holder[k]
      /\ \A l \in Keys \ {k} : holder'[l] = holder[l]
  BY <1>1, <1>2, <1>3 DEF KeysTyped
<1>5. /\ callPc' \in [Callers -> {"idle", "claiming", "owner", "worked"}]
      /\ callPc'[c] = "idle" /\ \A o \in Callers \ {c} : callPc'[o] = callPc[o]
  BY <1>1, <1>2 DEF KeysTyped
<1>6. /\ told' = [told EXCEPT ![c] = "nothing"]
      /\ reply' \in [Callers -> Replies] /\ reply'[c] = "lost"
      /\ \A o \in Callers \ {c} : reply'[o] = reply[o]
  BY <1>1, <1>2, AnswerTells, ToldFacts DEF Replies
<1>7. SlotOK(k)' /\ CallOK(c)' /\ HolderOK(k)'
  <2>1. holder[k] # "none" /\ holder[k] # c => holder[k] \in Callers \ {c}
    BY <1>2 DEF KeysTyped
  <2> QED  BY <1>1, <1>2, <1>4, <1>5, <2>1 DEF SlotOK, HolderOK, CallOK
<1>8. IdemInv'
  BY <1>1, <1>2, <1>4, <1>5, <1>6, <1>7, OthersKeep DEF KeysTyped
<1>9. told[c] = "nothing"
  BY <1>1, <1>2, ToldFacts DEF CallOK
<1>10. UNCHANGED told
  BY <1>6, <1>9 DEF told
<1> QED  BY <1>1, <1>8, <1>10 DEF OnceStep

LEMMA LoseAnswerKeeps ==
  ASSUME IdemInv, NEW c \in Callers, LoseAnswer(c)
  PROVE  IdemInv' /\ OnceStep
<1> DEFINE k == KeyOf[c]
<1>1. /\ reply[c] \in {"ran", "replayed"} /\ callPc' = [callPc EXCEPT ![c] = "idle"]
      /\ reply' = [reply EXCEPT ![c] = "lost"] /\ UNCHANGED <<slots, holder, runs>>
  BY DEF LoseAnswer, Answer
<1>2. /\ KeysTyped /\ CallOK(c) /\ KeyOf[c] \in Keys /\ c # "none"
      /\ SlotOK(KeyOf[c]) /\ HolderOK(KeyOf[c]) /\ told[c] = Told(reply[c])
  BY CallerFacts
<1>3. callPc[c] = "idle" /\ holder[k] # c
  BY <1>1, <1>2 DEF CallOK, HolderOK
<1>4. /\ callPc' \in [Callers -> {"idle", "claiming", "owner", "worked"}]
      /\ callPc'[c] = "idle" /\ \A o \in Callers \ {c} : callPc'[o] = callPc[o]
  BY <1>1, <1>2 DEF KeysTyped
<1>5. /\ told' = [told EXCEPT ![c] = "nothing"]
      /\ reply' \in [Callers -> Replies] /\ reply'[c] = "lost"
      /\ \A o \in Callers \ {c} : reply'[o] = reply[o]
  BY <1>1, <1>2, AnswerTells, ToldFacts DEF Replies
<1>6. SlotOK(k)' /\ CallOK(c)' /\ HolderOK(k)'
  <2>1. holder[k] # "none" => holder[k] \in Callers \ {c}
    BY <1>2, <1>3 DEF KeysTyped
  <2> QED  BY <1>1, <1>2, <1>4, <2>1 DEF SlotOK, HolderOK, CallOK
<1>7. IdemInv'
  BY <1>1, <1>2, <1>3, <1>4, <1>5, <1>6, OthersKeep DEF KeysTyped
<1>8. told[c] # "nothing"
  BY <1>1, <1>2, ToldFacts
<1>9. Once!Forget(c)
  BY <1>1, <1>5, <1>8 DEF Once!Forget, told, Told
<1> QED  BY <1>7, <1>9 DEF OnceStep, Once!OnceNext

LEMMA InitIdem == IdemInit => IdemInv /\ Once!OnceInit
<1> SUFFICES ASSUME IdemInit PROVE IdemInv /\ Once!OnceInit
  OBVIOUS
<1>1. KeysTyped
  BY DEF IdemInit, KeysTyped, Replies
<1>2. \A k \in Keys : SlotOK(k) /\ HolderOK(k)
  BY DEF IdemInit, SlotOK, HolderOK
<1>3. \A c \in Callers : CallOK(c)
  BY DEF IdemInit, CallOK
<1>4. Once!OnceInit
  BY DEF IdemInit, Once!OnceInit
<1> QED  BY <1>1, <1>2, <1>3, <1>4 DEF IdemInv

LEMMA NextIdem ==
  ASSUME IdemInv, [IdemNext]_idemVars
  PROVE  IdemInv' /\ OnceStep
<1>1. CASE IdemNext
  <2>1. PICK c \in Callers : \/ Send(c) \/ Claim(c) \/ FindTaken(c) \/ CommitWork(c)
                             \/ CompleteSplit(c) \/ CompleteJoint(c) \/ Refuse(c)
                             \/ CrashCall(c) \/ LoseAnswer(c)
    BY <1>1 DEF IdemNext
  <2> QED  BY <2>1, SendKeeps, ClaimKeeps, FindTakenKeeps, CommitWorkKeeps,
              CompleteSplitKeeps, CompleteJointKeeps, RefuseKeeps, CrashCallKeeps,
              LoseAnswerKeeps
<1>2. CASE UNCHANGED idemVars
  BY <1>2 DEF idemVars, IdemInv, KeysTyped, SlotOK, HolderOK, CallOK, OnceStep, told
<1> QED  BY <1>1, <1>2

\* Every endpoint that claims a key keeps the promise of OnceOnly, for any number
\* of clients, keys and faults: the work behind a key happens at most once, and
\* nobody is told "done" of a body that was not the one worked on.
THEOREM KeysPromiseOnceOnly == IdemSpec => PromisesOnceOnly
<1>1. IdemInit => IdemInv /\ Once!OnceInit
  BY InitIdem
<1>2. IdemInv /\ [IdemNext]_idemVars => IdemInv'
  BY NextIdem
<1>3. IdemInv /\ [IdemNext]_idemVars => OnceStep
  BY NextIdem
<1>4. OnceStep => [Once!OnceNext]_<<runs, [c \in Callers |->
                    CASE reply[c] \in {"ran", "replayed"} -> "done"
                      [] reply[c] \in {"busy", "reused", "refused"} -> "turned away"
                      [] OTHER -> "nothing"]>>
  BY DEF OnceStep, told, Told
<1> QED  BY <1>1, <1>2, <1>3, <1>4, PTL DEF IdemSpec, PromisesOnceOnly, Once!OnceSpec

--------------------------------------------------------------------------------
(* Rounding (Pricing) *)

\* The whole coins an amount comes to.
CoinsOf(x, c, m) ==
    LET whole == Abs(x) \div c IN IF Rounds(whole, Abs(x) % c, c, m) THEN whole + 1 ELSE whole

\* An amount comes to a number of whole coins, as many as lie under it or one
\* more where the mode says so, with the sign of the amount.
LEMMA RoundedToCoins ==
  ASSUME NEW x \in Int, NEW c \in Nat \ {0}, NEW m \in Modes
  PROVE  /\ Abs(x) \div c \in Nat /\ Abs(x) % c \in 0..c - 1
         /\ Abs(x) = c * (Abs(x) \div c) + (Abs(x) % c)
         /\ RoundTo(x, c, m) = Sign(x) * (c * CoinsOf(x, c, m))
<1>0. PICK whole, rest : whole = Abs(x) \div c /\ rest = Abs(x) % c
  OBVIOUS
<1>1. Abs(x) \in Nat
  BY DEF Abs
<1>2. whole \in Nat /\ rest \in 0..c - 1 /\ Abs(x) = c * whole + rest
  <2>1. PICK a : a = Abs(x)
    OBVIOUS
  <2>2. a \in Nat
    BY <1>1, <2>1
  <2>3. a \div c \in Nat /\ a % c \in 0..c - 1 /\ a = c * (a \div c) + (a % c)
    BY <2>2
  <2>4. whole = a \div c /\ rest = a % c
    BY <1>0, <2>1
  <2> QED  BY <2>1, <2>3, <2>4
<1>3. PICK k : k = IF Rounds(whole, rest, c, m) THEN whole + 1 ELSE whole
  OBVIOUS
<1>4. k \in Nat
  <2>1. k = whole + 1 \/ k = whole
    BY <1>3
  <2> QED  BY <1>2, <2>1
<1>5. ASSUME c = 1 PROVE RoundTo(x, c, m) = Sign(x) * (c * k)
  <2>1. rest = 0 /\ whole = Abs(x)
    BY <1>2, <1>5
  <2>2. ~ Rounds(whole, rest, c, m)
    BY <1>2, <1>5, <2>1 DEF Rounds, Modes
  <2>3. RoundTo(x, c, m) = x
    BY <1>5 DEF RoundTo
  <2>4. Sign(x) * (c * whole) = x
    BY <1>5, <2>1 DEF Sign, Abs
  <2> QED  BY <1>3, <2>2, <2>3, <2>4
<1>6. ASSUME c # 1 PROVE RoundTo(x, c, m) = Sign(x) * (c * k)
  <2>1. RoundTo(x, c, m) = Sign(x) * c * k
    BY <1>0, <1>3, <1>6 DEF RoundTo
  <2>2. Sign(x) * c * k = Sign(x) * (c * k)
    BY <1>4 DEF Sign
  <2> QED  BY <2>1, <2>2
<1>7. RoundTo(x, c, m) = Sign(x) * (c * k)
  BY <1>5, <1>6
<1>8. CoinsOf(x, c, m) = k
  BY <1>0, <1>3 DEF CoinsOf
<1> QED  BY <1>0, <1>2, <1>7, <1>8

\* What the rounded amount promises of the amount it came from.
RoundedWell(rounded, x, c, mode) ==
    LET off == Abs(rounded) - Abs(x)
    IN  /\ rounded % c = 0
        /\ Abs(off) < c /\ rounded * x >= 0
        /\ rounded = -RoundTo(-x, c, mode)
        /\ mode = "DOWN" => off <= 0
        /\ mode = "UP" => off >= 0
        /\ mode = "HALF_UP" => 2 * Abs(off) <= c /\ 2 * off > -c
        /\ mode = "HALF_EVEN" =>
             2 * Abs(off) < c \/ (2 * Abs(off) = c /\ (rounded \div c) % 2 = 0)

LEMMA RoundingIsRight ==
  ASSUME NEW x \in Int, NEW c \in Nat \ {0}, NEW m \in Modes
  PROVE  RoundedWell(RoundTo(x, c, m), x, c, m)
<1>1. PICK whole, rest : whole = Abs(x) \div c /\ rest = Abs(x) % c
  OBVIOUS
<1>2. PICK k : k = IF Rounds(whole, rest, c, m) THEN whole + 1 ELSE whole
  OBVIOUS
<1>3. PICK s : s = Sign(x)
  OBVIOUS
<1>4. PICK v : v = c * k
  OBVIOUS
<1>5. PICK rounded : rounded = RoundTo(x, c, m)
  OBVIOUS
<1>6. /\ whole \in Nat /\ rest \in 0..c - 1 /\ Abs(x) = c * whole + rest
      /\ rounded = s * v
  <2>1. k = CoinsOf(x, c, m)
    BY <1>1, <1>2 DEF CoinsOf
  <2> QED  BY <1>1, <1>3, <1>4, <1>5, <2>1, RoundedToCoins
<1>7. /\ k \in Nat /\ v \in Nat /\ s \in {1, -1} /\ rounded \in Int
      /\ s = 1 => x >= 0 /\ Abs(x) = x
      /\ s = -1 => x < 0 /\ Abs(x) = -x
      /\ Abs(x) \in Nat
  <2>1. k \in Nat /\ s \in {1, -1}
    BY <1>2, <1>3, <1>6 DEF Sign
  <2>2. v \in Nat
    BY <1>4, <2>1
  <2>3. rounded \in Int
    BY <1>6, <2>1, <2>2
  <2> QED  BY <1>3, <2>1, <2>2, <2>3 DEF Sign, Abs
<1>8. Abs(rounded) = v
  BY <1>6, <1>7 DEF Abs
<1>9. v - Abs(x) = IF Rounds(whole, rest, c, m) THEN c - rest ELSE -rest
  <2>1. c * (whole + 1) = c * whole + c
    BY <1>6
  <2> QED  BY <1>2, <1>4, <1>6, <2>1
<1>10. rounded % c = 0 /\ rounded \div c = s * k
  <2>1. s * k \in Int /\ rounded = c * (s * k) + 0
    BY <1>4, <1>6, <1>7
  <2> QED  BY <1>7, <2>1, QuotientIs
<1>11. rounded * x >= 0
  <2>1. CASE s = 1
    BY <1>6, <1>7, <2>1
  <2>2. CASE s = -1
    <3>1. PICK y : y = -x
      OBVIOUS
    <3>2. y \in Nat /\ rounded * x = v * y
      BY <1>6, <1>7, <2>2, <3>1
    <3> QED  BY <1>7, <3>2
  <2> QED  BY <1>7, <2>1, <2>2
<1>12. rounded = -RoundTo(-x, c, m)
  <2>1. Abs(-x) = Abs(x) /\ -x \in Int
    BY DEF Abs
  <2>2. RoundTo(-x, c, m) = Sign(-x) * v
    <3>1. CoinsOf(-x, c, m) = k
      BY <1>1, <1>2, <2>1 DEF CoinsOf
    <3> QED  BY <1>4, <2>1, <3>1, RoundedToCoins
  <2>3. CASE x # 0
    <3>1. Sign(-x) = -s
      BY <1>3, <2>3 DEF Sign
    <3> QED  BY <1>6, <1>7, <2>2, <3>1
  <2>4. CASE x = 0
    <3>1. Abs(x) = 0
      BY <2>4 DEF Abs
    <3>2. whole = 0 /\ rest = 0
      <4>1. c * 0 + 0 = 0
        OBVIOUS
      <4> QED  BY <1>1, <3>1, <4>1, QuotientIs
    <3>3. ~ Rounds(whole, rest, c, m)
      BY <3>2 DEF Rounds, Modes
    <3>4. v = 0
      BY <1>2, <1>4, <3>2, <3>3
    <3> QED  BY <1>6, <1>7, <2>2, <3>4 DEF Sign
  <2> QED  BY <2>3, <2>4
<1>13. PICK off : off = v - Abs(x)
  OBVIOUS
<1>14. off \in Int /\ Abs(off) < c
  <2>1. (off = c - rest /\ rest # 0) \/ off = -rest
    BY <1>6, <1>7, <1>9, <1>13 DEF Rounds, Modes
  <2>2. off \in Int /\ off < c /\ -off < c
    BY <1>6, <2>1
  <2> QED  BY <2>2 DEF Abs
<1>15. /\ m = "DOWN" => off <= 0
       /\ m = "UP" => off >= 0
  BY <1>6, <1>7, <1>9, <1>13 DEF Rounds
<1>16. m = "HALF_UP" => 2 * Abs(off) <= c /\ 2 * off > -c
  BY <1>6, <1>7, <1>9, <1>13 DEF Rounds, Abs
<1>17. ASSUME m = "HALF_EVEN"
       PROVE  2 * Abs(off) < c \/ (2 * Abs(off) = c /\ (rounded \div c) % 2 = 0)
  <2>1. CASE 2 * rest = c
    <3>1. k % 2 = 0
      <4>1. Rounds(whole, rest, c, m) <=> whole % 2 = 1
        BY <1>6, <1>17, <2>1 DEF Rounds
      <4>2. k = IF whole % 2 = 1 THEN whole + 1 ELSE whole
        BY <1>2, <4>1
      <4> QED  BY <1>6, <4>2
    <3>2. (s * k) % 2 = 0
      BY <1>7, <3>1
    <3>3. 2 * Abs(off) = c
      BY <1>6, <1>7, <1>9, <1>13, <2>1 DEF Abs
    <3> QED  BY <1>10, <3>2, <3>3
  <2>2. CASE 2 * rest # c
    BY <1>6, <1>7, <1>9, <1>13, <1>17, <2>2 DEF Rounds, Abs
  <2> QED  BY <2>1, <2>2
<1>18. RoundedWell(rounded, x, c, m)
  BY <1>8, <1>10, <1>11, <1>12, <1>13, <1>14, <1>15, <1>16, <1>17 DEF RoundedWell
<1> QED  BY <1>5, <1>18

--------------------------------------------------------------------------------
(* Splitting an amount over lines (Pricing) *)

\* What the shares promise of the amount and the weights.
SplitWell(shares, x, w) ==
    LET all == SumUp(w)
    IN  /\ SumUp(shares) = x
        /\ all > 0 => \A i \in 1..Len(w) : Abs(shares[i] * all - x * w[i]) < all
        /\ all > 0 => \A i, j \in 1..Len(w) :
             (w[i] > w[j] \/ (w[i] = w[j] /\ i < j)) => Abs(shares[i]) >= Abs(shares[j])

LEMMA WeightsAddUp ==
  ASSUME NEW w \in Seq(Nat), Len(w) > 0
  PROVE  /\ DOMAIN w = 1..Len(w) /\ IsFiniteSet(1..Len(w)) /\ Len(w) \in Nat
         /\ \A i \in 1..Len(w) : w[i] \in Nat
         /\ SumUp(w) \in Nat /\ SumUp(w) = SumOver(w, 1..Len(w))
<1>1. DOMAIN w = 1..Len(w) /\ Len(w) \in Nat /\ \A i \in 1..Len(w) : w[i] \in Nat
  OBVIOUS
<1>2. IsFiniteSet(1..Len(w))
  BY <1>1, FS_Interval
<1>3. SumOver(w, 1..Len(w)) \in Nat
  BY <1>1, <1>2, SumNotNegative
<1> QED  BY <1>1, <1>2, <1>3 DEF SumUp

\* With nothing to weigh by, the first line takes it all.
LEMMA FirstTakesAll ==
  ASSUME NEW x \in Int, NEW w \in Seq(Nat), Len(w) > 0, SumUp(w) = 0
  PROVE  SplitWell(SplitProportional(x, w), x, w)
<1>1. PICK D : D = 1..Len(w)
  OBVIOUS
<1>2. IsFiniteSet(D) /\ 1 \in D
  BY <1>1, WeightsAddUp
<1>3. PICK shares : shares = [i \in D |-> IF i = 1 THEN x ELSE 0]
  OBVIOUS
<1>4. SplitProportional(x, w) = shares
  BY <1>1, <1>3 DEF SplitProportional
<1>5. \A i \in D : shares[i] \in Int /\ (i # 1 => shares[i] = 0)
  BY <1>3
<1>6. SumOver(shares, D) = shares[1] + SumOver(shares, D \ {1})
  BY <1>2, <1>5, SumRemove
<1>7. SumOver(shares, D \ {1}) = 0
  <2>1. IsFiniteSet(D \ {1})
    BY <1>2, FS_Subset
  <2>2. \A i \in D \ {1} : shares[i] = 0
    BY <1>5
  <2> QED  BY <2>1, <2>2, SumZero
<1>8. SumUp(shares) = x
  <2>1. DOMAIN shares = D /\ shares[1] = x
    BY <1>2, <1>3
  <2> QED  BY <1>6, <1>7, <2>1 DEF SumUp
<1> QED  BY <1>4, <1>8 DEF SplitWell

\* The order in which lines get the units left over.
AheadPairs(rest, D) ==
    {p \in D \X D : rest[p[1]] > rest[p[2]] \/ (rest[p[1]] = rest[p[2]] /\ p[1] < p[2])}

LEMMA AheadRanks ==
  ASSUME NEW D \in SUBSET Int, NEW rest, \A i \in D : rest[i] \in Int
  PROVE  /\ Ranks(AheadPairs(rest, D), D)
         /\ \A i \in D : AheadOf(AheadPairs(rest, D), D, i)
                           = {j \in D : rest[j] > rest[i] \/ (rest[j] = rest[i] /\ j < i)}
<1>1. \A i, j \in D : <<i, j>> \in AheadPairs(rest, D)
                        <=> rest[i] > rest[j] \/ (rest[i] = rest[j] /\ i < j)
  BY DEF AheadPairs
<1>2. PICK A : A = AheadPairs(rest, D)
  OBVIOUS
<1>3. \A i, j \in D : <<i, j>> \in A
                        <=> rest[i] > rest[j] \/ (rest[i] = rest[j] /\ i < j)
  BY <1>1, <1>2
<1>4. \A i \in D : <<i, i>> \notin A
  BY <1>3
<1>5. \A i, j, k \in D : <<i, j>> \in A /\ <<j, k>> \in A => <<i, k>> \in A
  BY <1>3
<1>6. \A i, j \in D : i # j => <<i, j>> \in A \/ <<j, i>> \in A
  BY <1>3
<1>7. Ranks(A, D)
  BY <1>4, <1>5, <1>6 DEF Ranks
<1>8. \A i \in D : AheadOf(A, D, i) = {j \in D : rest[j] > rest[i] \/ (rest[j] = rest[i] /\ j < i)}
  BY <1>3 DEF AheadOf
<1> QED  BY <1>2, <1>7, <1>8

\* An amount a, split by weights that add up to all: whole shares and remainders.
Divided(D, a, all, w, floor, rest) ==
    /\ IsFiniteSet(D) /\ a \in Nat /\ all \in Nat \ {0} /\ SumOver(w, D) = all
    /\ \A i \in D : w[i] \in Nat
    /\ \A i \in D : floor[i] \in Nat /\ rest[i] \in 0..all - 1
                    /\ a * w[i] = all * floor[i] + rest[i]

\* What is left over after rounding down: the remainders together, and so at
\* most as many units as lines with a remainder.
LEMMA LeftoverIsRests ==
  ASSUME NEW D, NEW a, NEW all, NEW w, NEW floor, NEW rest, Divided(D, a, all, w, floor, rest)
  PROVE  a - SumOver(floor, D) \in 0..Cardinality({i \in D : rest[i] > 0})
<1>0. /\ IsFiniteSet(D) /\ a \in Nat /\ all \in Nat \ {0} /\ SumOver(w, D) = all
      /\ \A i \in D : w[i] \in Nat
      /\ \A i \in D : floor[i] \in Nat /\ rest[i] \in 0..all - 1
                      /\ a * w[i] = all * floor[i] + rest[i]
  BY DEF Divided
<1> USE <1>0
<1> DEFINE scaled == [i \in D |-> a * w[i]]
           whole == [i \in D |-> all * floor[i]]
           mark == [i \in D |-> IF rest[i] > 0 THEN 1 ELSE 0]
           cap == [i \in D |-> all * mark[i]]
           P == {i \in D : rest[i] > 0}
<1>1. SumOver(scaled, D) = a * all
  <2>1. \A i \in D : w[i] \in Int /\ scaled[i] = a * w[i]
    OBVIOUS
  <2>2. a \in Int
    OBVIOUS
  <2> HIDE DEF scaled
  <2>3. SumOver(scaled, D) = a * SumOver(w, D)
    BY <2>1, <2>2, SumOfMultiples
  <2> QED  BY <2>3
<1>2. SumOver(whole, D) = all * SumOver(floor, D)
  <2>1. \A i \in D : floor[i] \in Int /\ whole[i] = all * floor[i]
    OBVIOUS
  <2> HIDE DEF whole
  <2> QED  BY <2>1, SumOfMultiples
<1>3. SumOver(scaled, D) = SumOver(whole, D) + SumOver(rest, D)
  <2>1. \A i \in D : whole[i] \in Int /\ rest[i] \in Int /\ scaled[i] = whole[i] + rest[i]
    OBVIOUS
  <2> HIDE DEF whole, scaled
  <2> QED  BY <2>1, SumPlus
<1>4. SumOver(mark, D) = Cardinality(P) /\ Cardinality(P) \in Nat
  <2>1. P \in SUBSET D /\ IsFiniteSet(P) /\ \A i \in D : mark[i] = IF i \in P THEN 1 ELSE 0
    BY FS_Subset
  <2> HIDE DEF mark, P
  <2> QED  BY <2>1, SumOfMarks, FS_CardinalityType
<1>5. SumOver(cap, D) = all * SumOver(mark, D)
  <2>1. \A i \in D : mark[i] \in Int /\ cap[i] = all * mark[i]
    OBVIOUS
  <2> HIDE DEF mark, cap
  <2> QED  BY <2>1, SumOfMultiples
<1>6. SumOver(rest, D) <= SumOver(cap, D)
  <2>1. ASSUME NEW i \in D PROVE cap[i] \in Int /\ rest[i] <= cap[i]
    <3>1. rest[i] \in 0..all - 1 /\ cap[i] = IF rest[i] > 0 THEN all ELSE 0
      OBVIOUS
    <3> QED  BY <3>1
  <2>2. \A i \in D : rest[i] \in Int
    OBVIOUS
  <2> HIDE DEF cap
  <2> QED  BY <2>1, <2>2, SumLess
<1>7. SumOver(rest, D) \in Nat /\ SumOver(floor, D) \in Nat
  BY SumNotNegative
<1> HIDE DEF scaled, whole, mark, cap, P
<1>8. PICK left, rests, n : /\ left = a - SumOver(floor, D) /\ rests = SumOver(rest, D)
                            /\ n = Cardinality(P)
  OBVIOUS
<1>9. left \in Int /\ rests \in Nat /\ n \in Nat
  BY <1>4, <1>7, <1>8
<1>10. all * left = rests
  <2>1. PICK f : f = SumOver(floor, D)
    OBVIOUS
  <2>2. a * all = all * f + rests
    BY <1>1, <1>2, <1>3, <1>8, <2>1
  <2>3. f \in Nat /\ left = a - f
    BY <1>7, <1>8, <2>1
  <2> QED  BY <2>2, <2>3, <1>9
<1>11. rests <= all * n
  BY <1>4, <1>5, <1>6, <1>8
<1>12. left >= 0
  BY <1>9, <1>10
<1>13. left <= n
  <2>1. all * left <= all * n
    BY <1>10, <1>11
  <2> QED  BY <1>9, <2>1
<1> QED  BY <1>8, <1>9, <1>12, <1>13 DEF P

\* Two shares of the same sign and an order of the lines: the one ahead gets
\* no less.
LEMMA AheadGetsNoLess ==
  ASSUME NEW D \in SUBSET Int, IsFiniteSet(D), NEW rest, \A i \in D : rest[i] \in Int,
         NEW k \in Int, NEW Ahead, Ahead = AheadPairs(rest, D),
         NEW i \in D, NEW j \in D, i # j,
         rest[i] > rest[j] \/ (rest[i] = rest[j] /\ i < j),
         j \in Foremost(Ahead, D, k)
  PROVE  i \in Foremost(Ahead, D, k)
<1>1. Ranks(Ahead, D) /\ <<i, j>> \in Ahead
  BY AheadRanks DEF AheadPairs
<1>2. PICK A, B : A = AheadOf(Ahead, D, i) /\ B = AheadOf(Ahead, D, j)
  OBVIOUS
<1>3. A \in SUBSET B
  BY <1>1, <1>2 DEF AheadOf, Ranks
<1>4. B \in SUBSET D
  BY <1>2 DEF AheadOf
<1>5. IsFiniteSet(B) /\ IsFiniteSet(A)
  BY <1>3, <1>4, FS_Subset
<1>6. Cardinality(A) <= Cardinality(B) /\ Cardinality(A) \in Nat /\ Cardinality(B) \in Nat
  BY <1>3, <1>5, FS_Subset, FS_CardinalityType
<1>7. Cardinality(B) < k
  BY <1>2 DEF Foremost
<1> QED  BY <1>2, <1>6, <1>7 DEF Foremost

\* A line without a remainder gets none of the units left over.
LEMMA EvenLinesGetNoMore ==
  ASSUME NEW D \in SUBSET Int, IsFiniteSet(D), NEW rest, \A i \in D : rest[i] \in Nat,
         NEW k, k \in 0..Cardinality({j \in D : rest[j] > 0}),
         NEW i \in D, i \in Foremost(AheadPairs(rest, D), D, k)
  PROVE  rest[i] > 0
<1> SUFFICES ASSUME rest[i] = 0 PROVE FALSE
  OBVIOUS
<1>1. PICK P : P = {j \in D : rest[j] > 0}
  OBVIOUS
<1>2. PICK A : A = AheadOf(AheadPairs(rest, D), D, i)
  OBVIOUS
<1>3. A = {j \in D : rest[j] > rest[i] \/ (rest[j] = rest[i] /\ j < i)}
  <2>1. \A j \in D : rest[j] \in Int
    OBVIOUS
  <2> QED  BY <1>2, <2>1, AheadRanks
<1>4. P \in SUBSET A /\ A \in SUBSET D
  BY <1>1, <1>3
<1>5. IsFiniteSet(A) /\ IsFiniteSet(P)
  BY <1>4, FS_Subset
<1>6. Cardinality(P) <= Cardinality(A) /\ Cardinality(A) \in Nat /\ Cardinality(P) \in Nat
  BY <1>4, <1>5, FS_Subset, FS_CardinalityType
<1>7. Cardinality(A) < k
  BY <1>2 DEF Foremost
<1> QED  BY <1>1, <1>6, <1>7

\* With something to weigh by, every line gets its exact share rounded down,
\* and the first lines by remainder one unit more.
LEMMA EveryLineItsShare ==
  ASSUME NEW x \in Int, NEW w \in Seq(Nat), Len(w) > 0, SumUp(w) > 0
  PROVE  SplitWell(SplitProportional(x, w), x, w)
<1>1. PICK D, all, a, s : D = 1..Len(w) /\ all = SumUp(w) /\ a = Abs(x) /\ s = Sign(x)
  OBVIOUS
<1>2. /\ IsFiniteSet(D) /\ D \in SUBSET Int /\ DOMAIN w = D /\ \A i \in D : w[i] \in Nat
      /\ all \in Nat \ {0} /\ all = SumOver(w, D)
  BY <1>1, WeightsAddUp
<1>2a. all \in Nat /\ all > 0
  BY <1>2
<1>2b. \A i \in D : w[i] \in Nat
  BY <1>2
<1>3. a \in Nat /\ s \in {1, -1} /\ x = s * a
  BY <1>1 DEF Abs, Sign
<1>4. PICK floor, rest : /\ floor = [i \in D |-> (a * w[i]) \div all]
                         /\ rest = [i \in D |-> (a * w[i]) % all]
  OBVIOUS
<1>5. ASSUME NEW i \in D
      PROVE  /\ floor[i] \in Nat /\ rest[i] \in 0..all - 1
             /\ a * w[i] = all * floor[i] + rest[i]
  <2>1. PICK n : n = a * w[i]
    OBVIOUS
  <2>2. n \in Nat
    BY <1>2, <1>3, <2>1
  <2>3. n \div all \in Nat /\ n % all \in 0..all - 1 /\ n = all * (n \div all) + (n % all)
    BY <1>2a, <2>2
  <2>4. floor[i] = n \div all /\ rest[i] = n % all
    BY <1>4, <2>1
  <2> QED  BY <2>1, <2>3, <2>4
<1>6. PICK left : left = a - SumOver(floor, D)
  OBVIOUS
<1>7. left \in 0..Cardinality({i \in D : rest[i] > 0})
  <2>1. a - SumOver(floor, D) \in 0..Cardinality({i \in D : rest[i] > 0})
    <3>1. IsFiniteSet(D) /\ a \in Nat /\ all \in Nat \ {0} /\ SumOver(w, D) = all
      BY <1>2, <1>3
    <3>2. \A i \in D : floor[i] \in Nat /\ rest[i] \in 0..all - 1
                       /\ a * w[i] = all * floor[i] + rest[i]
      BY <1>5
    <3>3. Divided(D, a, all, w, floor, rest)
      BY ONLY <1>2b, <3>1, <3>2 DEF Divided
    <3> QED  BY <3>3, LeftoverIsRests
  <2> QED  BY <1>6, <2>1
<1>8. left \in 0..Cardinality(D)
  <2>1. PICK P : P = {i \in D : rest[i] > 0}
    OBVIOUS
  <2>2. P \in SUBSET D /\ IsFiniteSet(P)
    BY <1>2, <2>1, FS_Subset
  <2>3. Cardinality(P) <= Cardinality(D) /\ Cardinality(P) \in Nat /\ Cardinality(D) \in Nat
    BY <1>2, <2>2, FS_Subset, FS_CardinalityType
  <2> QED  BY <1>7, <2>1, <2>3
<1>9. PICK A, F : A = AheadPairs(rest, D) /\ F = Foremost(A, D, left)
  OBVIOUS
<1>10. F \in SUBSET D /\ Cardinality(F) = left
  <2>1. Ranks(A, D)
    BY <1>2, <1>5, <1>9, AheadRanks
  <2> QED  BY <1>2, <1>8, <1>9, <2>1, FirstOnes DEF Foremost
<1>11. PICK more : more = [i \in D |-> IF i \in F THEN 1 ELSE 0]
  OBVIOUS
<1>12. PICK share : share = [i \in D |-> floor[i] + more[i]]
  OBVIOUS
<1>13. PICK shares : shares = [i \in D |-> s * share[i]]
  OBVIOUS
<1>14. \A i \in D : more[i] \in {0, 1} /\ share[i] \in Nat /\ share[i] = floor[i] + more[i]
                    /\ shares[i] \in Int /\ shares[i] = s * share[i]
  BY <1>3, <1>5, <1>11, <1>12, <1>13
<1>15. SplitProportional(x, w) = shares
  <2>1. DOMAIN floor = D /\ SumUp(floor) = SumOver(floor, D)
    BY <1>4 DEF SumUp
  <2>2. Leftover(a, floor) = left
    BY <1>6, <2>1 DEF Leftover
  <2>3. \A i \in D : AheadOf(A, D, i)
                       = {j \in D : rest[j] > rest[i] \/ (rest[j] = rest[i] /\ j < i)}
    <3>1. \A i \in D : rest[i] \in Int
      BY <1>2a, <1>5
    <3> QED  BY <1>2, <1>9, <3>1, AheadRanks
  <2>4. \A i \in D : more[i] = IF Cardinality({j \in D : rest[j] > rest[i] \/ (rest[j] = rest[i] /\ j < i)})
                                  < Leftover(a, floor) THEN 1 ELSE 0
    BY <1>9, <1>11, <2>2, <2>3 DEF Foremost
  <2>5. \A i, j \in D : rest[j] = (a * w[j]) % all /\ rest[i] = (a * w[i]) % all
    BY <1>4
  <2>6. \A i \in D : {j \in D : rest[j] > rest[i] \/ (rest[j] = rest[i] /\ j < i)}
           = {j \in D : (a * w[j]) % all > (a * w[i]) % all
                          \/ ((a * w[j]) % all = (a * w[i]) % all /\ j < i)}
    BY <2>5
  <2>7. \A i \in D : share[i] = floor[i] + (IF Cardinality({j \in D : (a * w[j]) % all > (a * w[i]) % all
                          \/ ((a * w[j]) % all = (a * w[i]) % all /\ j < i)})
                                  < Leftover(a, floor) THEN 1 ELSE 0)
    BY <1>14, <2>4, <2>6
  <2>8. shares = [i \in D |-> s * (floor[i] + (IF Cardinality({j \in D : (a * w[j]) % all > (a * w[i]) % all
                          \/ ((a * w[j]) % all = (a * w[i]) % all /\ j < i)})
                                  < Leftover(a, floor) THEN 1 ELSE 0))]
    BY <1>13, <2>7
  <2>9. all # 0
    BY <1>2
  <2> QED  BY <1>1, <1>4, <2>8, <2>9 DEF SplitProportional
<1>16. SumUp(shares) = x
  <2>1. SumOver(more, D) = left
    <3>1. \A i \in D : more[i] = IF i \in F THEN 1 ELSE 0
      BY <1>11
    <3> QED  BY <1>2, <1>10, <3>1, SumOfMarks
  <2>2. SumOver(share, D) = SumOver(floor, D) + SumOver(more, D)
    <3>1. \A i \in D : floor[i] \in Int /\ more[i] \in Int /\ share[i] = floor[i] + more[i]
      BY <1>5, <1>14
    <3> QED  BY <1>2, <3>1, SumPlus
  <2>3. SumOver(floor, D) \in Nat
    BY <1>2, <1>5, SumNotNegative
  <2>4. SumOver(share, D) = a
    BY <1>3, <1>6, <2>1, <2>2, <2>3
  <2>5. SumOver(shares, D) = s * SumOver(share, D)
    <3>1. s \in Int /\ \A i \in D : share[i] \in Int /\ shares[i] = s * share[i]
      BY <1>3, <1>14
    <3> QED  BY <1>2, <3>1, SumOfMultiples
  <2>6. DOMAIN shares = D
    BY <1>13
  <2> QED  BY <1>3, <2>4, <2>5, <2>6 DEF SumUp
<1>17. \A i \in D : Abs(shares[i]) = share[i]
  <2>1. \A n \in Nat : Abs(s * n) = n
    BY <1>3 DEF Abs
  <2> QED  BY <1>14, <2>1
<1>18. ASSUME NEW i \in D PROVE Abs(shares[i] * all - x * w[i]) < all
  <2>1. PICK f, r, m, b : f = floor[i] /\ r = rest[i] /\ m = more[i] /\ b = w[i]
    OBVIOUS
  <2>2. /\ f \in Nat /\ r \in 0..all - 1 /\ m \in {0, 1} /\ b \in Nat
        /\ a * b = all * f + r /\ shares[i] = s * (f + m)
    BY <1>2, <1>5, <1>14, <2>1
  <2>3. m = 1 => r > 0
    <3>1. m = 1 => i \in F
      BY <1>11, <2>1
    <3>2. \A j \in D : rest[j] \in Nat
      BY <1>2, <1>5
    <3>3. i \in F => rest[i] > 0
      BY <1>2, <1>7, <1>9, <3>2, EvenLinesGetNoMore
    <3> QED  BY <2>1, <3>1, <3>3
  <2>4. PICK d : d = IF m = 1 THEN all - r ELSE -r
    OBVIOUS
  <2>5. d \in Int /\ d < all /\ -d < all
    BY <1>2a, <2>2, <2>3, <2>4
  <2>6. (f + m) * all - a * b = d
    <3>1. (f + m) * all = all * f + all * m
      BY <1>2a, <2>2
    <3>2. all * m = IF m = 1 THEN all ELSE 0
      BY <1>2a, <2>2
    <3> QED  BY <1>2a, <2>2, <2>4, <3>1, <3>2
  <2>7. shares[i] * all - x * w[i] = s * d
    <3>1. CASE s = 1
      <4>1. shares[i] = f + m /\ x = a /\ w[i] = b
        BY <1>3, <2>1, <2>2, <3>1
      <4> QED  BY <2>5, <2>6, <3>1, <4>1
    <3>2. CASE s = -1
      <4>1. shares[i] = -(f + m) /\ x = -a
        BY <1>3, <2>2, <3>2
      <4>2. (-(f + m)) * all = -((f + m) * all) /\ (-a) * b = -(a * b)
        BY <1>2, <1>3, <2>2
      <4>3. shares[i] * all - x * w[i] = (-(f + m)) * all - (-a) * b
        BY <2>1, <4>1
      <4>4. (f + m) * all \in Int /\ a * b \in Int
        BY <1>2a, <1>3, <2>2
      <4> QED  BY <2>5, <2>6, <3>2, <4>2, <4>3, <4>4
    <3> QED  BY <1>3, <3>1, <3>2
  <2>8. s * d \in {d, -d}
    BY <1>3, <2>5
  <2> QED  BY <2>5, <2>7, <2>8 DEF Abs
<1>19. ASSUME NEW i \in D, NEW j \in D, w[i] > w[j] \/ (w[i] = w[j] /\ i < j)
       PROVE  share[i] >= share[j]
  <2>1. PICK f, r, b, g, t, e : /\ f = floor[i] /\ r = rest[i] /\ b = w[i]
                                /\ g = floor[j] /\ t = rest[j] /\ e = w[j]
    OBVIOUS
  <2>2. /\ f \in Nat /\ r \in 0..all - 1 /\ b \in Nat /\ a * b = all * f + r
        /\ g \in Nat /\ t \in 0..all - 1 /\ e \in Nat /\ a * e = all * g + t
        /\ b >= e
    <3>1. w[i] \in Nat /\ w[j] \in Nat
      BY <1>2b
    <3> QED  BY <1>5, <1>19, <2>1, <3>1
  <2>3. a * b >= a * e
    BY <1>3, <2>2
  <2>4. all * f + r >= all * g + t
    BY <2>2, <2>3
  <2>5. f >= g
    <3> SUFFICES ASSUME f + 1 <= g PROVE FALSE
      BY <2>2
    <3>1. all * (f + 1) <= all * g
      BY <1>2a, <2>2
    <3>2. all * (f + 1) = all * f + all
      BY <1>2a, <2>2
    <3> QED  BY <1>2a, <2>2, <2>4, <3>1, <3>2
  <2>6. CASE f > g
    <3>1. share[i] = f + more[i] /\ share[j] = g + more[j] /\ more[i] \in {0, 1} /\ more[j] \in {0, 1}
      BY <1>14, <2>1
    <3>2. f \in Nat /\ g \in Nat
      BY <2>2
    <3> QED  BY <2>6, <3>1, <3>2
  <2>7. CASE f = g
    <3>1. r >= t
      BY <1>2a, <2>2, <2>4, <2>7
    <3>2. i # j
      BY <1>2, <1>19
    <3>3. CASE r > t \/ (r = t /\ i < j)
      <4>1. j \in F => i \in F
        <5>1. \A n \in D : rest[n] \in Int
          BY <1>2, <1>5
        <5>2. left \in Int
          BY <1>8, <1>2, FS_CardinalityType
        <5>3. rest[i] > rest[j] \/ (rest[i] = rest[j] /\ i < j)
          BY <2>1, <3>3
        <5> QED  BY <1>2, <1>9, <3>2, <5>1, <5>2, <5>3, AheadGetsNoLess
      <4>2. more[i] >= more[j]
        BY <1>11, <4>1
      <4>3. share[i] = f + more[i] /\ share[j] = g + more[j] /\ more[i] \in {0, 1} /\ more[j] \in {0, 1}
        BY <1>14, <2>1
      <4>4. f \in Nat /\ g \in Nat
        BY <2>2
      <4> QED  BY <2>7, <4>2, <4>3, <4>4
    <3>4. CASE r = t /\ ~ (i < j)
      <4>1. b > e /\ a * b = a * e
        BY <1>19, <2>1, <2>2, <2>7, <3>4
      <4>2. a = 0
        <5>1. PICK d : d = b - e
          OBVIOUS
        <5>2. d \in Nat \ {0} /\ b = e + d
          BY <2>2, <4>1, <5>1
        <5>3. a * (e + d) = a * e + a * d
          BY <1>3, <2>2, <5>2
        <5>4. a * d = 0
          BY <1>3, <2>2, <4>1, <5>2, <5>3
        <5> QED  BY <1>3, <5>2, <5>4
      <4>3. \A n \in D : rest[n] = 0
        <5>1. ASSUME NEW n \in D PROVE rest[n] = 0
          <6>1. PICK v, h, q : v = w[n] /\ h = floor[n] /\ q = rest[n]
            OBVIOUS
          <6>2. v \in Nat /\ h \in Nat /\ q \in 0..all - 1 /\ a * v = all * h + q
            BY <1>2, <1>5, <6>1
          <6>3. a * v = 0
            BY <4>2, <6>2
          <6>4. PICK z : z = all * h
            OBVIOUS
          <6>5. z \in Nat /\ z + q = 0 /\ q \in Nat
            BY <1>2a, <6>2, <6>3, <6>4
          <6> QED  BY <6>1, <6>5
        <5> QED  BY <5>1
      <4>4. {n \in D : rest[n] > 0} = {}
        BY <4>3
      <4>5. left = 0
        <5>1. Cardinality({n \in D : rest[n] > 0}) = 0
          BY <4>4, FS_EmptySet
        <5>2. left \in 0..0
          BY <1>7, <5>1
        <5> QED  BY <5>2
      <4>6. F = {}
        <5>1. Cardinality(F) = 0 /\ IsFiniteSet(F)
          BY <1>2, <1>10, <4>5, FS_Subset
        <5> QED  BY <5>1, FS_EmptySet
      <4>7. more[i] = 0 /\ more[j] = 0
        BY <1>11, <4>6
      <4>8. share[i] = f + more[i] /\ share[j] = g + more[j]
        BY <1>14, <2>1
      <4>9. f \in Nat /\ g \in Nat
        BY <2>2
      <4> QED  BY <2>7, <4>7, <4>8, <4>9
    <3> QED  BY <2>2, <3>1, <3>3, <3>4
  <2> QED  BY <2>2, <2>5, <2>6, <2>7
<1>20. SplitWell(shares, x, w)
  <2>1. \A i, j \in D : (w[i] > w[j] \/ (w[i] = w[j] /\ i < j)) => Abs(shares[i]) >= Abs(shares[j])
    BY <1>17, <1>19
  <2> QED  BY <1>1, <1>16, <1>18, <2>1 DEF SplitWell
<1> QED  BY <1>15, <1>20

LEMMA SplittingIsRight ==
  ASSUME NEW x \in Int, NEW w \in Seq(Nat), Len(w) > 0
  PROVE  SplitWell(SplitProportional(x, w), x, w)
<1>1. SumUp(w) \in Nat
  BY WeightsAddUp
<1> QED  BY <1>1, FirstTakesAll, EveryLineItsShare

--------------------------------------------------------------------------------
(* Pricing a cart (Pricing) *)

\* Of the packs in force the one chosen is the last to have started.
LEMMA NewestIsNewest ==
  ASSUME NEW S \in SUBSET Packs, S # {}
  PROVE  Newest(S) \in S /\ \A q \in S : q.since <= Newest(S).since
<1>1. IsFiniteSet(S) /\ \A q \in S : q.since \in Int
  BY PricingAssumption, FS_Subset DEF PricingAssumption
<1> DEFINE Good == {T \in SUBSET S : T = {} \/ \E p \in T : \A q \in T : q.since <= p.since}
<1>2. ASSUME NEW T \in SUBSET S, \A V \in SUBSET T : V # T => V \in Good
      PROVE  T \in Good
  <2>1. ASSUME NEW x \in T PROVE T \in Good
    <3>1. T \ {x} \in Good
      BY <1>2
    <3>2. CASE T \ {x} = {}
      <4>1. \A q \in T : q.since <= x.since
        BY <1>1, <3>2
      <4> QED  BY <4>1
    <3>3. CASE T \ {x} # {}
      <4>1. PICK p \in T \ {x} : \A q \in T \ {x} : q.since <= p.since
        BY <3>1, <3>3
      <4>2. CASE x.since <= p.since
        BY <4>1, <4>2
      <4>3. CASE ~ (x.since <= p.since)
        <5>1. \A q \in T : q.since <= x.since
          BY <1>1, <4>1, <4>3
        <5> QED  BY <5>1
      <4> QED  BY <4>2, <4>3
    <3> QED  BY <3>2, <3>3
  <2> QED  BY <2>1
<1> HIDE DEF Good
<1>3. SUBSET S \subseteq Good
  BY <1>1, <1>2, SubsetInduction
<1>4. S \in Good
  BY <1>3
<1>5. \E p \in S : \A q \in S : q.since <= p.since
  BY <1>4 DEF Good
<1> QED  BY <1>5 DEF Newest

LEMMA ResolvedRightly ==
  ASSUME NEW place, NEW day, Resolve(place, day) # NoPack
  PROVE  LET p == Resolve(place, day) IN
         /\ p \in Packs /\ p.country = place[1] /\ p.province \in {"", place[2]}
         /\ InForce(p, day)
         /\ \A q \in Packs : (q.country = p.country /\ q.province = place[2] /\ InForce(q, day))
                             => p.province = q.province /\ q.since <= p.since
<1>1. PICK province, country : /\ province = {p \in Bucket(place, place[2]) : InForce(p, day)}
                               /\ country = {p \in Bucket(place, "") : InForce(p, day)}
  OBVIOUS
<1>2. PICK p : p = Resolve(place, day)
  OBVIOUS
<1>3. province \in SUBSET Packs /\ country \in SUBSET Packs
  BY <1>1 DEF Bucket
<1>4. CASE province # {}
  <2>1. p = Newest(province)
    BY <1>1, <1>2, <1>4 DEF Resolve
  <2>2. p \in province /\ \A q \in province : q.since <= p.since
    BY <1>3, <1>4, <2>1, NewestIsNewest
  <2>3. \A q \in Packs : (q.country = place[1] /\ q.province = place[2] /\ InForce(q, day))
                         => q \in province
    BY <1>1 DEF Bucket
  <2>4. p \in Packs /\ p.country = place[1] /\ p.province = place[2] /\ InForce(p, day)
    BY <1>1, <2>2 DEF Bucket
  <2> QED  BY <1>2, <2>2, <2>3, <2>4
<1>5. CASE province = {}
  <2>1. p = IF country # {} THEN Newest(country) ELSE NoPack
    BY <1>1, <1>2, <1>5 DEF Resolve
  <2>2. country # {} /\ p = Newest(country)
    BY <1>2, <2>1
  <2>3. p \in country
    BY <1>3, <2>2, NewestIsNewest
  <2>4. \A q \in Packs : ~ (q.country = place[1] /\ q.province = place[2] /\ InForce(q, day))
    BY <1>1, <1>5 DEF Bucket
  <2>5. p \in Packs /\ p.country = place[1] /\ p.province = "" /\ InForce(p, day)
    BY <1>1, <2>3 DEF Bucket
  <2> QED  BY <1>2, <2>4, <2>5
<1> QED  BY <1>4, <1>5

\* Tax rounded down line by line is under the exact tax, by less than a unit a
\* line.
LEMMA TaxIsNearExact ==
  ASSUME NEW D, IsFiniteSet(D), D # {}, NEW bp \in Nat, NEW unit \in Nat \ {0}, NEW net, NEW tax,
         \A i \in D : net[i] \in Int /\ tax[i] = (net[i] * bp) \div unit
  PROVE  /\ SumOver(tax, D) \in Int /\ SumOver(net, D) \in Int
         /\ SumOver(tax, D) * unit <= SumOver(net, D) * bp
         /\ SumOver(tax, D) * unit > SumOver(net, D) * bp - unit * Cardinality(D)
<1>1. PICK exact : exact = [i \in D |-> bp * net[i]]
  OBVIOUS
<1>1a. PICK whole : whole = [i \in D |-> unit * tax[i]]
  OBVIOUS
<1>1b. PICK rest : rest = [i \in D |-> bp * net[i] - unit * tax[i]]
  OBVIOUS
<1>1c. PICK one : one = [i \in D |-> 1]
  OBVIOUS
<1>1d. PICK most : most = [i \in D |-> unit - 1]
  OBVIOUS
<1>2. \A i \in D : one[i] = 1 /\ one[i] \in Int /\ most[i] = (unit - 1) * one[i]
                   /\ most[i] \in Int /\ most[i] = (unit - 1)
  BY <1>1c, <1>1d
<1>3. \A i \in D : /\ net[i] \in Int /\ tax[i] \in Int /\ exact[i] \in Int /\ whole[i] \in Int
                   /\ exact[i] = bp * net[i] /\ whole[i] = unit * tax[i]
                   /\ rest[i] \in Nat /\ rest[i] \in Int /\ rest[i] <= most[i]
                   /\ exact[i] = whole[i] + rest[i]
  <2> SUFFICES ASSUME NEW i \in D
               PROVE  /\ net[i] \in Int /\ tax[i] \in Int /\ exact[i] \in Int /\ whole[i] \in Int
                      /\ exact[i] = bp * net[i] /\ whole[i] = unit * tax[i]
                      /\ rest[i] \in Nat /\ rest[i] \in Int /\ rest[i] <= most[i]
                      /\ exact[i] = whole[i] + rest[i]
    OBVIOUS
  <2>1. PICK n, t : n = bp * net[i] /\ t = tax[i]
    OBVIOUS
  <2>2. n \in Int /\ net[i] * bp = n
    BY <2>1
  <2>3. t = n \div unit
    BY <2>1, <2>2
  <2>4. n \in Int
    BY <2>2
  <2>5. t \in Int /\ n - unit * t \in 0..unit - 1
    BY ONLY <2>3, <2>4
  <2>6. exact[i] = n /\ whole[i] = unit * t /\ rest[i] = n - unit * t /\ most[i] = (unit - 1)
    BY <1>1, <1>1a, <1>1b, <1>2, <2>1
  <2>7. /\ n - unit * t \in Nat /\ n - unit * t <= (unit - 1) /\ unit * t \in Int
        /\ n = unit * t + (n - unit * t)
    BY ONLY <2>4, <2>5
  <2>8. net[i] \in Int
    OBVIOUS
  <2>9. exact[i] = bp * net[i] /\ whole[i] = unit * tax[i] /\ tax[i] \in Int
    BY ONLY <2>1, <2>5, <2>6
  <2>10. /\ exact[i] \in Int /\ whole[i] \in Int /\ rest[i] \in Nat /\ rest[i] \in Int
         /\ rest[i] <= most[i] /\ exact[i] = whole[i] + rest[i]
    BY ONLY <2>4, <2>6, <2>7
  <2> QED  BY ONLY <2>8, <2>9, <2>10
<1>4. SumOver(exact, D) = bp * SumOver(net, D)
  <2>1. bp \in Int
    OBVIOUS
  <2> QED  BY <1>3, <2>1, SumOfMultiples
<1>5. SumOver(whole, D) = unit * SumOver(tax, D)
  BY <1>3, SumOfMultiples
<1>6. SumOver(exact, D) = SumOver(whole, D) + SumOver(rest, D)
  BY <1>3, SumPlus
<1>7. SumOver(rest, D) \in Nat
  BY <1>3, SumNotNegative
<1>8. SumOver(rest, D) <= SumOver(most, D)
  <2>1. \A i \in D : rest[i] \in Int /\ most[i] \in Int /\ rest[i] <= most[i]
    BY <1>2, <1>3
  <2> QED  BY <2>1, SumLess
<1>9. SumOver(most, D) = (unit - 1) * SumOver(one, D)
  BY <1>2, SumOfMultiples
<1>10. SumOver(one, D) = Cardinality(D)
  BY <1>2, SumOfOnes
<1>11. Cardinality(D) \in Nat /\ Cardinality(D) > 0
  BY FS_CardinalityType, FS_EmptySet
<1>12. SumOver(tax, D) \in Int /\ SumOver(net, D) \in Int
  BY <1>3, SumIsInt
<1>13. PICK n, t, r, e : n = SumOver(net, D) /\ t = SumOver(tax, D) /\ r = SumOver(rest, D) /\ e = bp * n
  OBVIOUS
<1>14. n \in Int /\ t \in Int /\ r \in Nat /\ e \in Int /\ n * bp = e
  BY <1>7, <1>12, <1>13
<1>15. e = unit * t + r /\ r <= (unit - 1) * Cardinality(D)
  BY <1>4, <1>5, <1>6, <1>8, <1>9, <1>10, <1>13
<1>16. t * unit <= e /\ t * unit > e - unit * Cardinality(D)
  BY <1>11, <1>14, <1>15
<1> QED  BY <1>12, <1>13, <1>14, <1>16

LEMMA CartsHaveLines ==
  ASSUME NEW cart \in Carts
  PROVE  /\ IsFiniteSet(1..Len(cart)) /\ 1..Len(cart) # {}
         /\ Cardinality(1..Len(cart)) = Len(cart)
         /\ \A i \in 1..Len(cart) : NetOf(cart[i]) \in Int
<1>1. /\ Len(cart) \in Nat \ {0}
      /\ \A i \in 1..Len(cart) : {cart[i].menu, cart[i].price, cart[i].quantity,
                                  cart[i].surcharge, cart[i].off} \subseteq Int
  BY PricingAssumption DEF PricingAssumption
<1>2. IsFiniteSet(1..Len(cart)) /\ Cardinality(1..Len(cart)) = Len(cart) /\ 1 \in 1..Len(cart)
  BY <1>1, FS_Interval
<1>3. ASSUME NEW i \in 1..Len(cart) PROVE NetOf(cart[i]) \in Int
  <2>1. /\ cart[i].menu \in Int /\ cart[i].price \in Int /\ cart[i].quantity \in Int
        /\ cart[i].surcharge \in Int /\ cart[i].off \in Int
    BY <1>1
  <2>2. UnitPrice(cart[i]) \in Int
    BY <2>1 DEF UnitPrice
  <2>3. UnitPrice(cart[i]) * cart[i].quantity \in Int
    BY <2>1, <2>2
  <2> QED  BY <2>1, <2>3 DEF NetOf
<1> QED  BY <1>2, <1>3

LEMMA PricedFromItsLines ==
  ASSUME NEW cart \in Carts, NEW discount \in Int, NEW pack \in Packs
  PROVE  LET priced == Price(cart, discount, pack)
             net == SumUp([i \in 1..Len(cart) |->
                      UnitPrice(cart[i]) * cart[i].quantity + cart[i].surcharge - cart[i].off])
         IN  /\ priced.subtotal = net
             /\ priced.total - (net - discount) = priced.tax
             /\ priced.tax * WholeBp <= net * pack.bp
             /\ priced.tax * WholeBp > net * pack.bp - WholeBp * Len(cart)
<1>1. PICK D : D = 1..Len(cart)
  OBVIOUS
<1>2. IsFiniteSet(D) /\ D # {} /\ Cardinality(D) = Len(cart) /\ \A i \in D : NetOf(cart[i]) \in Int
  BY <1>1, CartsHaveLines
<1>3. PICK nets, taxes : /\ nets = [i \in D |-> NetOf(cart[i])]
                         /\ taxes = [i \in D |-> TaxOf(cart[i], pack)]
  OBVIOUS
<1>4. pack.bp \in Nat
  BY PricingAssumption DEF PricingAssumption
<1>5. \A i \in D : nets[i] \in Int /\ taxes[i] = (nets[i] * pack.bp) \div WholeBp
  BY <1>2, <1>3 DEF TaxOf
<1>6. PICK n, t : n = SumOver(nets, D) /\ t = SumOver(taxes, D)
  OBVIOUS
<1>7. /\ n \in Int /\ t \in Int
      /\ t * WholeBp <= n * pack.bp /\ t * WholeBp > n * pack.bp - WholeBp * Len(cart)
  <2>1. PICK bp : bp = pack.bp
    OBVIOUS
  <2>0. WholeBp \in Nat \ {0}
    BY DEF WholeBp
  <2>2. bp \in Nat /\ \A i \in D : nets[i] \in Int /\ taxes[i] = (nets[i] * bp) \div WholeBp
    BY <1>4, <1>5, <2>1
  <2>3. /\ SumOver(taxes, D) \in Int /\ SumOver(nets, D) \in Int
        /\ SumOver(taxes, D) * WholeBp <= SumOver(nets, D) * bp
        /\ SumOver(taxes, D) * WholeBp > SumOver(nets, D) * bp - WholeBp * Cardinality(D)
    BY <1>2, <2>0, <2>2, TaxIsNearExact
  <2> QED  BY <1>2, <1>6, <2>1, <2>3
<1>8. SumUp(nets) = n /\ SumUp(taxes) = t
  <2>1. DOMAIN nets = D /\ DOMAIN taxes = D
    BY <1>3
  <2> QED  BY <1>6, <2>1 DEF SumUp
<1>9. Price(cart, discount, pack) = [subtotal |-> n, tax |-> t, total |-> n - discount + t]
  BY <1>1, <1>3, <1>8 DEF Price
<1>10. nets = [i \in 1..Len(cart) |->
                 UnitPrice(cart[i]) * cart[i].quantity + cart[i].surcharge - cart[i].off]
  BY <1>1, <1>3 DEF NetOf
<1>11. (n - discount + t) - (n - discount) = t
  BY <1>7
<1> QED  BY <1>7, <1>8, <1>9, <1>10, <1>11

--------------------------------------------------------------------------------
(* PricingSpec *)

\* What may have been asked.
Asks ==
    \/ \E x \in MinorAmounts, c \in Coins, m \in Modes :
         question = [ask |-> "round", amount |-> x, coin |-> c, mode |-> m]
    \/ \E x \in MinorAmounts, w \in Weights :
         question = [ask |-> "split", amount |-> x, weights |-> w]
    \/ \E p \in Places, d \in Dates, cart \in Carts, off \in MinorAmounts :
         /\ off >= 0
         /\ question = [ask |-> "price", place |-> p, day |-> d, cart |-> cart, discount |-> off]

LEMMA RoundAnswered ==
  ASSUME Asks, AnswerRound
  PROVE  Asks' /\ PricesAreRight'
<1>1. question.ask = "round" /\ question' = question
  BY DEF AnswerRound
<1>2. PICK x \in MinorAmounts, c \in Coins, m \in Modes :
        question = [ask |-> "round", amount |-> x, coin |-> c, mode |-> m]
  BY <1>1 DEF Asks
<1>3. x \in Int /\ c \in Nat \ {0}
  BY PricingAssumption DEF PricingAssumption
<1>4. answer' = <<RoundTo(x, c, m)>>
  BY <1>2 DEF AnswerRound
<1>5. RoundedWell(RoundTo(x, c, m), x, c, m)
  BY <1>3, RoundingIsRight
<1>6. RoundsToNearestCoin'
  <2>1. answer'[1] = RoundTo(x, c, m)
    BY <1>4
  <2>2. question'.amount = x /\ question'.coin = c /\ question'.mode = m
    BY <1>1, <1>2
  <2> QED  BY <1>5, <2>1, <2>2 DEF RoundsToNearestCoin, RoundedWell
<1>7. SplitLosesNothing' /\ PricedByItsOwnPack'
  <2>1. ~ Answered("split")' /\ ~ Answered("price")'
    BY <1>1 DEF Answered
  <2>2. SplitLosesNothing'
    BY <2>1 DEF SplitLosesNothing
  <2>3. PricedByItsOwnPack'
    BY <2>1 DEF PricedByItsOwnPack
  <2> QED  BY <2>2, <2>3
<1>8. Asks'
  BY <1>1 DEF Asks
<1> QED  BY <1>6, <1>7, <1>8 DEF PricesAreRight

LEMMA SplitAnswered ==
  ASSUME Asks, AnswerSplit
  PROVE  Asks' /\ PricesAreRight'
<1>1. question.ask = "split" /\ question' = question
  BY DEF AnswerSplit
<1>2. PICK x \in MinorAmounts, w \in Weights :
        question = [ask |-> "split", amount |-> x, weights |-> w]
  BY <1>1 DEF Asks
<1>3. x \in Int /\ w \in Seq(Nat) /\ Len(w) > 0
  BY PricingAssumption DEF PricingAssumption
<1>4. answer' = <<SplitProportional(x, w)>>
  BY <1>2 DEF AnswerSplit
<1>5. SplitWell(SplitProportional(x, w), x, w)
  BY <1>3, SplittingIsRight
<1>6. SplitLosesNothing'
  <2>1. answer'[1] = SplitProportional(x, w)
    BY <1>4
  <2>2. question'.amount = x /\ question'.weights = w
    BY <1>1, <1>2
  <2> QED  BY <1>5, <2>1, <2>2 DEF SplitLosesNothing, SplitWell
<1>7. RoundsToNearestCoin' /\ PricedByItsOwnPack'
  <2>1. ~ Answered("round")' /\ ~ Answered("price")'
    BY <1>1 DEF Answered
  <2>2. RoundsToNearestCoin'
    BY <2>1 DEF RoundsToNearestCoin
  <2>3. PricedByItsOwnPack'
    BY <2>1 DEF PricedByItsOwnPack
  <2> QED  BY <2>2, <2>3
<1>8. Asks'
  BY <1>1 DEF Asks
<1> QED  BY <1>6, <1>7, <1>8 DEF PricesAreRight

LEMMA PriceAnswered ==
  ASSUME Asks, AnswerPrice
  PROVE  Asks' /\ PricesAreRight'
<1>1. question.ask = "price" /\ question' = question
  BY DEF AnswerPrice
<1>2. PICK place \in Places, day \in Dates, cart \in Carts, off \in MinorAmounts :
        question = [ask |-> "price", place |-> place, day |-> day, cart |-> cart, discount |-> off]
  BY <1>1 DEF Asks
<1>3. PICK pack : pack = Resolve(place, day)
  OBVIOUS
<1>4. PICK priced : priced = Price(cart, off, pack)
  OBVIOUS
<1>5. pack # NoPack /\ answer' = <<[priced |-> priced, pack |-> pack]>>
  BY <1>2, <1>3, <1>4 DEF AnswerPrice
<1>6. /\ pack \in Packs /\ pack.country = place[1] /\ pack.province \in {"", place[2]}
      /\ InForce(pack, day)
      /\ \A q \in Packs : (q.country = pack.country /\ q.province = place[2] /\ InForce(q, day))
                          => pack.province = q.province /\ q.since <= pack.since
  BY <1>3, <1>5, ResolvedRightly
<1>7. PICK net : net = SumUp([i \in 1..Len(cart) |->
                   UnitPrice(cart[i]) * cart[i].quantity + cart[i].surcharge - cart[i].off])
  OBVIOUS
<1>8. off \in Int
  BY PricingAssumption DEF PricingAssumption
<1>9. /\ priced.subtotal = net
      /\ priced.total - (net - off) = priced.tax
      /\ priced.tax * WholeBp <= net * pack.bp
      /\ priced.tax * WholeBp > net * pack.bp - WholeBp * Len(cart)
  BY <1>4, <1>6, <1>7, <1>8, PricedFromItsLines
<1>10. PricedByItsOwnPack'
  <2>1. answer'[1].pack = pack /\ answer'[1].priced = priced
    BY <1>5
  <2>2. question'.place = place /\ question'.day = day /\ question'.cart = cart
        /\ question'.discount = off
    BY <1>1, <1>2
  <2> QED  BY <1>6, <1>7, <1>9, <2>1, <2>2 DEF PricedByItsOwnPack
<1>11. RoundsToNearestCoin' /\ SplitLosesNothing'
  <2>1. ~ Answered("round")' /\ ~ Answered("split")'
    BY <1>1 DEF Answered
  <2> QED  BY <2>1 DEF RoundsToNearestCoin, SplitLosesNothing
<1>12. Asks'
  BY <1>1 DEF Asks
<1> QED  BY <1>10, <1>11, <1>12 DEF PricesAreRight

\* Money arithmetic answers as specified (pricing/money.py, services/pricing.py):
\* whatever the amount, the coin and the mode, rounding gives the nearest coin of
\* that mode, and the same for a refund; whatever the weights, a split gives out
\* the amount to the last unit, fairly; whatever the packs registered, a cart is
\* taxed by the newest one in force at its own place, for what its lines say.
THEOREM PricesAlwaysRight == PricingSpec => []PricesAreRight
<1>1. PricingInit => Asks /\ PricesAreRight
  BY DEF PricingInit, Asks, PricesAreRight, RoundsToNearestCoin, SplitLosesNothing,
         PricedByItsOwnPack, Answered
<1>2. (Asks /\ PricesAreRight) /\ [PricingNext]_pricingVars => (Asks /\ PricesAreRight)'
  <2> SUFFICES ASSUME Asks, PricesAreRight, [PricingNext]_pricingVars
               PROVE  (Asks /\ PricesAreRight)'
    OBVIOUS
  <2>1. CASE AnswerRound
    BY <2>1, RoundAnswered
  <2>2. CASE AnswerSplit
    BY <2>2, SplitAnswered
  <2>3. CASE AnswerPrice
    BY <2>3, PriceAnswered
  <2>4. CASE UNCHANGED pricingVars
    <3>1. question' = question /\ answer' = answer
      BY <2>4 DEF pricingVars
    <3>2. Asks'
      BY <3>1 DEF Asks
    <3>3. RoundsToNearestCoin'
      BY <3>1 DEF PricesAreRight, RoundsToNearestCoin, Answered
    <3>4. SplitLosesNothing'
      BY <3>1 DEF PricesAreRight, SplitLosesNothing, Answered
    <3>5. PricedByItsOwnPack'
      BY <3>1 DEF PricesAreRight, PricedByItsOwnPack, Answered, UnitPrice, InForce
    <3> QED  BY <3>2, <3>3, <3>4, <3>5 DEF PricesAreRight
  <2> QED  BY <2>1, <2>2, <2>3, <2>4 DEF PricingNext
<1>3. Asks /\ PricesAreRight => PricesAreRight
  OBVIOUS
<1> QED  BY <1>1, <1>2, <1>3, PTL DEF PricingSpec

--------------------------------------------------------------------------------
(* Rounding in the forecast (Forecast) *)

\* A half goes to the even neighbour, everything else to the nearest.
LEMMA RoundEvenIsNearest ==
  ASSUME NEW p \in Int, NEW q \in Nat \ {0}
  PROVE  /\ RoundEven(p, q) \in Int
         /\ 2 * p <= (2 * RoundEven(p, q) + 1) * q
         /\ 2 * p >= (2 * RoundEven(p, q) - 1) * q
         /\ 2 * p = (2 * RoundEven(p, q) + 1) * q => RoundEven(p, q) % 2 = 0
         /\ 2 * p = (2 * RoundEven(p, q) - 1) * q => RoundEven(p, q) % 2 = 0
<1>1. PICK f, r : f = p \div q /\ r = p % q
  OBVIOUS
<1>2. f \in Int /\ r \in 0..q - 1 /\ p = q * f + r
  BY <1>1, DivisionWithRest
<1>3. PICK k : k = RoundEven(p, q)
  OBVIOUS
<1>4. k = IF 2 * r > q \/ (2 * r = q /\ f % 2 = 1) THEN f + 1 ELSE f
  BY <1>1, <1>3 DEF RoundEven
<1>5. CASE k = f + 1 /\ (2 * r > q \/ (2 * r = q /\ f % 2 = 1))
  <2>1. k \in Int /\ q * k = q * f + q
    BY <1>2, <1>5
  <2>2. (2 * k + 1) * q = 2 * (q * k) + q /\ (2 * k - 1) * q = 2 * (q * k) - q
    BY <2>1
  <2>3. q * k \in Int /\ q * f \in Int
    BY <1>2, <2>1
  <2>4. 2 * r = q => k % 2 = 0
    BY <1>2, <1>5
  <2> QED  BY <1>2, <1>3, <1>5, <2>1, <2>2, <2>3, <2>4
<1>6. CASE k = f /\ ~ (2 * r > q \/ (2 * r = q /\ f % 2 = 1))
  <2>1. k \in Int
    BY <1>2, <1>6
  <2>2. (2 * k + 1) * q = 2 * (q * k) + q /\ (2 * k - 1) * q = 2 * (q * k) - q
    BY <2>1
  <2>3. q * k \in Int
    BY <2>1
  <2>4. 2 * r = q => k % 2 = 0
    BY <1>2, <1>6
  <2> QED  BY <1>2, <1>3, <1>6, <2>1, <2>2, <2>3, <2>4
<1> QED  BY <1>4, <1>5, <1>6

\* Rounding never swaps two fractions.
LEMMA RoundEvenKeepsOrder ==
  ASSUME NEW p \in Int, NEW q \in Nat \ {0}, NEW s \in Int, NEW t \in Nat \ {0}, p * t <= s * q
  PROVE  RoundEven(p, q) <= RoundEven(s, t)
<1>1. PICK k, m : k = RoundEven(p, q) /\ m = RoundEven(s, t)
  OBVIOUS
<1>2. /\ k \in Int /\ 2 * p >= (2 * k - 1) * q
      /\ 2 * p = (2 * k - 1) * q => k % 2 = 0
  BY <1>1, RoundEvenIsNearest
<1>3. /\ m \in Int /\ 2 * s <= (2 * m + 1) * t
      /\ 2 * s = (2 * m + 1) * t => m % 2 = 0
  BY <1>1, RoundEvenIsNearest
<1> SUFFICES ASSUME k >= m + 1 PROVE FALSE
  BY <1>1, <1>2, <1>3
<1>4. PICK a, b : a = 2 * m + 1 /\ b = 2 * k - 1
  OBVIOUS
<1>5. a \in Int /\ b \in Int /\ a <= b /\ (a = b => k = m + 1)
  BY <1>2, <1>3, <1>4
<1>6. (2 * p) * t >= (b * q) * t
  BY <1>2, <1>4, <1>5
<1>7. (2 * s) * q <= (a * t) * q
  BY <1>3, <1>4, <1>5
<1>8. PICK u, v, w : u = p * t /\ v = s * q /\ w = q * t
  OBVIOUS
<1>9. u \in Int /\ v \in Int /\ w \in Nat \ {0} /\ u <= v
  BY <1>8
<1>10. /\ (2 * p) * t = 2 * u /\ (2 * s) * q = 2 * v
       /\ (b * q) * t = b * w /\ (a * t) * q = a * w
  BY <1>5, <1>8
<1>11. b * w <= 2 * u /\ 2 * v <= a * w
  BY <1>6, <1>7, <1>10
<1>12. b * w \in Int /\ a * w \in Int /\ a * w <= b * w
  BY <1>5, <1>9
<1>13. a * w = b * w /\ 2 * u = b * w /\ 2 * v = a * w
  BY <1>9, <1>11, <1>12
<1>14. a = b
  BY <1>5, <1>9, <1>13
<1>15. 2 * p = b * q
  <2>1. (2 * p) * t = (b * q) * t
    BY <1>10, <1>13
  <2>2. b * q \in Int
    BY <1>5
  <2> QED  BY <2>1, <2>2
<1>16. 2 * s = a * t
  <2>1. (2 * s) * q = (a * t) * q
    BY <1>10, <1>13
  <2>2. a * t \in Int
    BY <1>5
  <2> QED  BY <2>1, <2>2
<1> QED  BY <1>2, <1>3, <1>4, <1>5, <1>14, <1>15, <1>16

\* A whole number is its own rounding.
LEMMA RoundEvenOfWhole ==
  ASSUME NEW k \in Int, NEW q \in Nat \ {0}, NEW p, p = k * q
  PROVE  RoundEven(p, q) = k
<1>1. p = q * k + 0 /\ p \in Int
  OBVIOUS
<1>2. p \div q = k /\ p % q = 0
  BY <1>1, QuotientIs
<1> QED  BY <1>2 DEF RoundEven

LEMMA RoundEvenIsNat ==
  ASSUME NEW p \in Nat, NEW q \in Nat \ {0}
  PROVE  RoundEven(p, q) \in Nat
<1>1. RoundEven(0, q) = 0
  BY RoundEvenOfWhole
<1>2. RoundEven(0, q) <= RoundEven(p, q)
  BY RoundEvenKeepsOrder
<1>3. RoundEven(p, q) \in Int
  BY RoundEvenIsNearest
<1> QED  BY <1>1, <1>2, <1>3

\* Whole units: no more than half a unit from what they stand for.
LEMMA RoundUpIsNear ==
  ASSUME NEW n \in Int, NEW d \in Nat \ {0}
  PROVE  /\ RoundUp(n, d) \in Int
         /\ 2 * (d * RoundUp(n, d)) <= 2 * n + d
         /\ 2 * (d * RoundUp(n, d)) > 2 * n - d
<1>1. PICK u, m, b : u = RoundUp(n, d) /\ m = 2 * n + d /\ b = 2 * d
  OBVIOUS
<1>2. m \in Int /\ b \in Nat \ {0}
  BY <1>1
<1>3. m \div b \in Int /\ m % b \in 0..b - 1 /\ m = b * (m \div b) + (m % b)
  BY <1>2, DivisionWithRest
<1>4. u = m \div b
  BY <1>1 DEF RoundUp
<1>5. u \in Int /\ b * u <= m /\ m < b * u + b
  BY <1>2, <1>3, <1>4
<1>6. b * u = 2 * (d * u) /\ d * u \in Int
  BY <1>1, <1>5
<1> QED  BY <1>1, <1>5, <1>6

--------------------------------------------------------------------------------
(* What is learned (Forecast) *)

LEMMA ForecastConstants ==
  /\ Window \in Nat \ {0} /\ Week \in Nat \ {0} /\ TrustDays \in Nat \ {0}
  /\ HalfTrust \in Nat \ {0} /\ LowVolume \in Nat \ {0} /\ Grain \in Nat \ {0}
  /\ IsFiniteSet(WindowDays) /\ WindowDays \in SUBSET Int
<1>1. /\ Window \in Nat \ {0} /\ Week \in Nat \ {0} /\ TrustDays \in Nat \ {0}
      /\ HalfTrust \in Nat \ {0} /\ LowVolume \in Nat \ {0} /\ Grain \in Nat \ {0}
  BY ForecastAssumption DEF ForecastAssumption
<1>2. IsFiniteSet(1..Window)
  BY <1>1, FS_Interval
<1> QED  BY <1>1, <1>2 DEF WindowDays

\* A history of the window, and what was turned away in it.
HistoryOf(h) == \A d \in WindowDays : h[d] \in Nat \cup {NoRow}
RefusalsOf(r) == \A d \in WindowDays : r[d] \in Nat

LEMMA CountedAreDays ==
  ASSUME NEW h, NEW b
  PROVE  /\ CountedDays(h, b) \in SUBSET WindowDays /\ IsFiniteSet(CountedDays(h, b))
         /\ Cardinality(CountedDays(h, b)) \in Nat
         /\ CountedDays(h, b) \cap b = {}
<1>1. CountedDays(h, b) \in SUBSET (WindowDays \ b)
  BY DEF CountedDays, NormalDays
<1>2. IsFiniteSet(CountedDays(h, b))
  BY <1>1, ForecastConstants, FS_Subset
<1> QED  BY <1>1, <1>2, FS_CardinalityType

LEMMA TotalsAreNat ==
  ASSUME NEW h, HistoryOf(h), NEW days \in SUBSET WindowDays
  PROVE  TotalOver(h, days) \in Nat
<1>1. PICK units : units = [d \in days |-> IF h[d] = NoRow THEN 0 ELSE h[d]]
  OBVIOUS
<1>2. IsFiniteSet(days)
  BY ForecastConstants, FS_Subset
<1>3. \A d \in days : units[d] \in Nat
  BY <1>1 DEF HistoryOf, NoRow
<1>4. SumOver(units, days) \in Nat
  BY <1>2, <1>3, SumNotNegative
<1> QED  BY <1>1, <1>4 DEF TotalOver

LEMMA UnmetIsNat ==
  ASSUME NEW r, RefusalsOf(r), NEW days \in SUBSET WindowDays
  PROVE  SumOver(r, days) \in Nat
<1>1. IsFiniteSet(days) /\ \A d \in days : r[d] \in Nat
  BY ForecastConstants, FS_Subset DEF RefusalsOf
<1> QED  BY <1>1, SumNotNegative

LEMMA GuessedMean ==
  ASSUME NEW total \in Nat, NEW n \in Nat \ {0}, NEW guess \in Nat
  PROVE  Blend(total, n, guess) \in Nat
<1>0. Grain \in Nat \ {0} /\ TrustDays \in Nat \ {0}
  BY ForecastConstants
<1>1. Grain * total \in Nat
  BY <1>0
<1>2. CASE n >= TrustDays
  BY <1>1, <1>2, RoundEvenIsNat DEF Blend
<1>3. CASE ~ (n >= TrustDays)
  <2>1. TrustDays - n \in Nat
    BY <1>0, <1>3
  <2>2. (TrustDays - n) * guess \in Nat
    BY <2>1
  <2>3. Grain * total + (TrustDays - n) * guess \in Nat
    BY <1>1, <2>2
  <2>4. RoundEven(Grain * total + (TrustDays - n) * guess, TrustDays) \in Nat
    BY <1>0, <2>3, RoundEvenIsNat
  <2> QED  BY <1>3, <2>4 DEF Blend
<1> QED  BY <1>2, <1>3

LEMMA BaselineIsNat ==
  ASSUME NEW h, HistoryOf(h), NEW b, NEW guess \in Nat \cup {NoGuess}
  PROVE  Baseline(h, b, guess) \in Nat
<1>1. PICK days, n : days = CountedDays(h, b) /\ n = Cardinality(days)
  OBVIOUS
<1>2. PICK total : total = TotalOver(h, days)
  OBVIOUS
<1>3. n \in Nat /\ total \in Nat
  BY <1>1, <1>2, CountedAreDays, TotalsAreNat
<1>4. CASE n = 0
  BY <1>1, <1>4 DEF Baseline, NoGuess
<1>5. CASE n # 0 /\ guess = NoGuess
  <2>1. Grain * total \in Nat
    BY <1>3, ForecastConstants
  <2>2. RoundEven(Grain * total, n) \in Nat
    BY <1>3, <1>5, <2>1, RoundEvenIsNat
  <2> QED  BY <1>1, <1>2, <1>5, <2>2 DEF Baseline
<1>6. CASE n # 0 /\ guess # NoGuess
  <2>1. Blend(total, n, guess) \in Nat
    BY <1>3, <1>6, GuessedMean
  <2> QED  BY <1>1, <1>2, <1>6, <2>1 DEF Baseline
<1> QED  BY <1>4, <1>5, <1>6

\* With what was turned away counted in, the baseline is at least what it was,
\* and at most twice that if anything was sold.
LEMMA UnmetAtMostDoubles ==
  ASSUME NEW base \in Nat, NEW h, NEW b, NEW r, RefusalsOf(r)
  PROVE  /\ WithUnmet(base, h, b, r) \in Nat /\ WithUnmet(base, h, b, r) >= base
         /\ base > 0 => WithUnmet(base, h, b, r) <= 2 * base
<1>1. PICK days, n : days = CountedDays(h, b) /\ n = Cardinality(days)
  OBVIOUS
<1>2. PICK unmet : unmet = SumOver(r, days)
  OBVIOUS
<1>3. n \in Nat /\ unmet \in Nat
  BY <1>1, <1>2, CountedAreDays, UnmetIsNat
<1>4. WithUnmet(base, h, b, r)
        = IF n = 0 \/ unmet = 0 THEN base
          ELSE IF base = 0 THEN RoundEven(Grain * unmet, n)
          ELSE Least(RoundEven(Grain * unmet + base * n, n), 2 * base)
  BY <1>1, <1>2 DEF WithUnmet
<1>5. CASE n = 0 \/ unmet = 0
  BY <1>4, <1>5
<1>6. CASE n # 0 /\ unmet # 0
  <2>1. PICK p : p = Grain * unmet
    OBVIOUS
  <2>2. p \in Nat
    BY <1>3, <2>1, ForecastConstants
  <2>3. RoundEven(p, n) \in Nat
    BY <1>3, <1>6, <2>2, RoundEvenIsNat
  <2>4. PICK v : v = base * n
    OBVIOUS
  <2>5. v \in Nat
    BY <1>3, <2>4
  <2>6. RoundEven(v, n) = base
    BY <1>3, <1>6, <2>4, RoundEvenOfWhole
  <2>7. RoundEven(p + v, n) \in Nat
    BY <1>3, <1>6, <2>2, <2>5, RoundEvenIsNat
  <2>8. RoundEven(v, n) <= RoundEven(p + v, n)
    <3>1. v * n <= (p + v) * n
      BY <1>3, <2>2, <2>5
    <3> QED  BY <1>3, <1>6, <2>2, <2>5, <3>1, RoundEvenKeepsOrder
  <2> QED  BY <1>4, <1>6, <2>1, <2>3, <2>4, <2>6, <2>7, <2>8 DEF Least
<1> QED  BY <1>5, <1>6

LEMMA ClampStaysBetween ==
  ASSUME NEW low \in Int, NEW high \in Int, NEW x \in Int, low <= high
  PROVE  Clamp(low, high, x) \in Int /\ low <= Clamp(low, high, x) /\ Clamp(low, high, x) <= high
BY DEF Clamp

LEMMA WeekdayFactorIsInt ==
  ASSUME NEW h, HistoryOf(h), NEW b, NEW on
  PROVE  WeekdayFactor(h, b, on) \in Int
<1>1. PICK days, same : days = CountedDays(h, b) /\ same = SameWeekday(days, on)
  OBVIOUS
<1>2. PICK n, k, total, some : /\ n = Cardinality(days) /\ k = Cardinality(same)
                               /\ total = TotalOver(h, days) /\ some = TotalOver(h, same)
  OBVIOUS
<1>3. /\ days \in SUBSET WindowDays /\ same \in SUBSET days /\ IsFiniteSet(days) /\ n \in Nat
  BY <1>1, <1>2, CountedAreDays DEF SameWeekday
<1>4. k \in Nat /\ k <= n
  BY <1>2, <1>3, FS_Subset, FS_CardinalityType
<1>5. total \in Nat /\ some \in Nat
  <2>1. same \in SUBSET WindowDays
    BY <1>3
  <2> QED  BY <1>2, <1>3, <2>1, TotalsAreNat
<1>6. PICK den, lift : /\ den = (k + HalfTrust) * LowVolume * n * total
                       /\ lift = Least(LowVolume * n, total) * (some * n - k * total)
  OBVIOUS
<1>7. WeekdayFactor(h, b, on)
        = IF total = 0 \/ k = 0 THEN Grain
          ELSE Clamp(Grain \div 2, 2 * Grain, RoundEven(Grain * (den + lift), den))
  BY <1>1, <1>2, <1>6 DEF WeekdayFactor
<1>8. CASE total = 0 \/ k = 0
  BY <1>7, <1>8, ForecastConstants
<1>9. CASE total # 0 /\ k # 0
  <2>1. n \in Nat \ {0}
    BY <1>3, <1>4, <1>9
  <2>2. den \in Nat \ {0}
    <3>1. PICK x : x = (k + HalfTrust) * LowVolume
      OBVIOUS
    <3>2. x \in Nat \ {0}
      BY <1>4, <3>1, ForecastConstants
    <3>3. PICK y : y = x * n
      OBVIOUS
    <3>4. y \in Nat \ {0}
      BY <2>1, <3>2, <3>3
    <3>5. y * total \in Nat \ {0}
      BY <1>5, <1>9, <3>4
    <3> QED  BY <1>6, <3>1, <3>3, <3>5
  <2>3. lift \in Int
    <3>1. Least(LowVolume * n, total) \in Int
      BY <1>3, <1>5, ForecastConstants DEF Least
    <3>2. some * n - k * total \in Int
      BY <1>3, <1>4, <1>5
    <3> QED  BY <1>6, <3>1, <3>2
  <2>4. Grain * (den + lift) \in Int
    BY <2>2, <2>3, ForecastConstants
  <2>5. RoundEven(Grain * (den + lift), den) \in Int
    BY <2>2, <2>4, RoundEvenIsNearest
  <2>6. Grain \div 2 \in Int /\ 2 * Grain \in Int /\ Grain \div 2 <= 2 * Grain
    BY ForecastConstants
  <2> QED  BY <1>7, <1>9, <2>5, <2>6, ClampStaysBetween
<1> QED  BY <1>8, <1>9

--------------------------------------------------------------------------------
(* What the events do (Forecast) *)

EventsOf(es) ==
    /\ IsFiniteSet(es)
    /\ \A e \in es : /\ e.own \in Int /\ e.weight \in Int
                     /\ IsFiniteSet(DOMAIN e.tags) /\ \A x \in DOMAIN e.tags : e.tags[x] \in Int

LEMMA MultiplierIsInt ==
  ASSUME NEW es, EventsOf(es), NEW t
  PROVE  Multiplier(es, t) \in Int
<1>1. ASSUME NEW e \in es PROVE EventFactor(e, t) \in Int
  <2>1. PICK marks : marks = DOMAIN e.tags \cap (t \cup {"GENERAL"})
    OBVIOUS
  <2>2. PICK f : f = e.tags
    OBVIOUS
  <2>3. Matching(e, t) = {f[x] : x \in marks}
    BY <2>1, <2>2 DEF Matching
  <2>4. IsFiniteSet(marks) /\ \A x \in marks : f[x] \in Int
    BY <2>1, <2>2, FS_Subset DEF EventsOf
  <2>5. IsFiniteSet(Matching(e, t)) /\ Matching(e, t) \in SUBSET Int
    BY <2>3, <2>4, ValuesAreFinite
  <2>6. Matching(e, t) # {} => Max(Matching(e, t)) \in Int
    BY <2>5, FiniteSetsHaveEnds
  <2>7. e.own \in Int /\ Grain \in Int
    BY ForecastConstants DEF EventsOf
  <2> QED  BY <2>6, <2>7 DEF EventFactor
<1>2. PICK g : g = [e \in es |-> EventFactor(e, t)]
  OBVIOUS
<1>3. \A e \in es : g[e] \in Int
  BY <1>1, <1>2
<1>4. ProductOver(g, es) \in Int
  BY <1>3, ProductIsInt DEF EventsOf
<1> QED  BY <1>2, <1>4 DEF Multiplier

LEMMA AppliedIsInt ==
  ASSUME NEW es, EventsOf(es), NEW factor \in Int
  PROVE  Applied(es, factor) \in Int
<1>1. PICK g : g = [e \in es |-> e.weight]
  OBVIOUS
<1>2. PICK ws : ws = {g[e] : e \in es}
  OBVIOUS
<1>3. IsFiniteSet(ws) /\ ws \in SUBSET Int
  BY <1>1, <1>2, ValuesAreFinite DEF EventsOf
<1>4. {Grain} \cup {e.weight : e \in es} = {Grain} \cup ws
  BY <1>1, <1>2
<1>5. IsFiniteSet({Grain} \cup ws) /\ {Grain} \cup ws \in SUBSET Int /\ {Grain} \cup ws # {}
  <2>1. IsFiniteSet(ws \cup {Grain})
    BY <1>3, FS_AddElement
  <2>2. {Grain} \cup ws = ws \cup {Grain}
    OBVIOUS
  <2> QED  BY <1>3, <2>1, <2>2, ForecastConstants
<1>6. Min({Grain} \cup ws) \in Int
  BY <1>5, FiniteSetsHaveEnds
<1>7. PICK w : w = Weight(es)
  OBVIOUS
<1>8. w \in Int
  BY <1>4, <1>6, <1>7 DEF Weight
<1>9. Grain * Grain + w * (factor - Grain) \in Int
  BY <1>8, ForecastConstants
<1> QED  BY <1>7, <1>9, ForecastConstants, RoundEvenIsNearest DEF Applied

LEMMA OneIsTens ==
  ASSUME NEW es, EventsOf(es)
  PROVE  OneOf(es) \in Nat \ {0} /\ OneOf(es) = 10 * (OneOf(es) \div 10) /\ OneOf(es) \div 10 \in Nat
<1>1. PICK g : g = [e \in es |-> Grain]
  OBVIOUS
<1>2. PICK p : p = ProductOver(g, es)
  OBVIOUS
<1>3. p \in Nat \ {0}
  <2>1. \A e \in es : g[e] \in Nat \ {0}
    BY <1>1, ForecastConstants
  <2> QED  BY <1>2, <2>1, ProductIsPositive DEF EventsOf
<1>4. PICK ten : ten = Grain \div 10
  OBVIOUS
<1>5. ten \in Nat /\ Grain = 10 * ten
  <2>1. Grain \in Nat /\ Grain % 10 = 0
    BY ForecastAssumption, ForecastConstants DEF ForecastAssumption
  <2> QED  BY <1>4, <2>1
<1>6. PICK v : v = ten * p
  OBVIOUS
<1>7. v \in Nat /\ Grain * p = 10 * v
  BY <1>3, <1>5, <1>6
<1>8. Grain * p \in Nat \ {0}
  BY <1>3, ForecastConstants
<1>9. (10 * v) \div 10 = v
  BY <1>7
<1>10. OneOf(es) = 10 * v
  BY <1>1, <1>2, <1>7 DEF OneOf
<1> QED  BY <1>7, <1>8, <1>9, <1>10

--------------------------------------------------------------------------------
(* The suggestion (Forecast) *)

\* How many of a baseline's OneOf(es) parts are suggested.
PartsOf(es, t, factor) ==
    Clamp(3 * (OneOf(es) \div 10), 5 * OneOf(es), Applied(es, factor) * Multiplier(es, t))

\* The clipped product is linear in the baseline.
LEMMA FactorsAreLinear ==
  ASSUME NEW es, EventsOf(es), NEW t, NEW factor \in Int, NEW base \in Nat
  PROVE  /\ PartsOf(es, t, factor) \in Nat
         /\ 3 * OneOf(es) <= 10 * PartsOf(es, t, factor)
         /\ PartsOf(es, t, factor) <= 5 * OneOf(es)
         /\ MergeFactors(base, factor, es, t).num = base * PartsOf(es, t, factor)
         /\ MergeFactors(base, factor, es, t).den = OneOf(es)
<1>1. PICK den, ten, x, m : /\ den = OneOf(es) /\ ten = OneOf(es) \div 10
                            /\ x = Applied(es, factor) /\ m = Multiplier(es, t)
  OBVIOUS
<1>2. den \in Nat \ {0} /\ den = 10 * ten /\ ten \in Nat /\ x \in Int /\ m \in Int
  BY <1>1, OneIsTens, AppliedIsInt, MultiplierIsInt
<1>3. PICK y : y = x * m
  OBVIOUS
<1>4. y \in Int /\ base * x * m = base * y
  BY <1>2, <1>3
<1>5. PICK k : k = PartsOf(es, t, factor)
  OBVIOUS
<1>6. k = Clamp(3 * ten, 5 * den, y)
  BY <1>1, <1>3, <1>5 DEF PartsOf
<1>7. k \in Nat /\ 3 * ten <= k /\ k <= 5 * den
  <2>1. PICK low, high : low = 3 * ten /\ high = 5 * den
    OBVIOUS
  <2>2. low \in Nat /\ high \in Nat /\ low <= high /\ low \in Int /\ high \in Int
    BY <1>2, <2>1
  <2>3. k = Clamp(low, high, y)
    BY <1>6, <2>1
  <2>4. k \in Int /\ low <= k /\ k <= high
    BY <1>4, <2>2, <2>3, ClampStaysBetween
  <2> QED  BY <2>1, <2>2, <2>4
<1>8. MergeFactors(base, factor, es, t)
        = [num |-> Clamp(3 * base * ten, 5 * base * den, base * x * m), den |-> den]
  BY <1>1 DEF MergeFactors
<1>9. Clamp(3 * base * ten, 5 * base * den, base * x * m) = base * k
  <2>1. 3 * base * ten = base * (3 * ten) /\ 5 * base * den = base * (5 * den)
    BY <1>2
  <2>2. PICK low, high : low = 3 * ten /\ high = 5 * den
    OBVIOUS
  <2>3. low \in Nat /\ high \in Nat /\ low <= high
    BY <1>2, <2>2
  <2>4. Clamp(base * low, base * high, base * y) = base * Clamp(low, high, y)
    <3>1. CASE base = 0
      BY <1>4, <2>3, <3>1 DEF Clamp
    <3>2. CASE base # 0
      <4>1. \A u, v \in Int : base * u < base * v <=> u < v
        <5>1. ASSUME NEW u \in Int, NEW v \in Int PROVE base * u < base * v <=> u < v
          <6>1. u < v => base * u < base * v
            BY <3>2
          <6>2. v <= u => base * v <= base * u
            BY <3>2
          <6>3. base * u \in Int /\ base * v \in Int
            OBVIOUS
          <6> QED  BY <6>1, <6>2, <6>3
        <5> QED  BY <5>1
      <4>2. base * y < base * low <=> y < low
        BY <1>4, <2>3, <4>1
      <4>3. base * high < base * y <=> high < y
        BY <1>4, <2>3, <4>1
      <4>4. base * high \in Int /\ base * low \in Int /\ base * y \in Int
        BY <1>4, <2>3
      <4> QED  BY <1>4, <2>3, <4>2, <4>3, <4>4 DEF Clamp
    <3> QED  BY <3>1, <3>2
  <2> QED  BY <1>4, <1>6, <2>1, <2>2, <2>4
<1>10. 3 * den <= 10 * k
  BY <1>2, <1>7
<1>11. MergeFactors(base, factor, es, t).num = base * k /\ MergeFactors(base, factor, es, t).den = den
  BY <1>8, <1>9
<1> QED  BY <1>1, <1>5, <1>7, <1>10, <1>11

\* The whole units suggested for a baseline of base Grains.
UnitsOf(base, es, t, factor) ==
    RoundUp(MergeFactors(base, factor, es, t).num, MergeFactors(base, factor, es, t).den * Grain)

LEMMA UnitsArePlausible ==
  ASSUME NEW es, EventsOf(es), NEW t, NEW factor \in Int, NEW base \in Nat
  PROVE  LET units == UnitsOf(base, es, t, factor) IN
         /\ units \in Int
         /\ 10 * Grain * units + 5 * Grain >= 3 * base
         /\ 2 * Grain * units <= 10 * base + Grain
<1>1. PICK u, k, den, g : /\ u = UnitsOf(base, es, t, factor) /\ k = PartsOf(es, t, factor)
                          /\ den = OneOf(es) /\ g = Grain
  OBVIOUS
<1>2. den \in Nat \ {0} /\ g \in Nat \ {0}
  BY <1>1, OneIsTens, ForecastConstants
<1>3. k \in Nat /\ 3 * den <= 10 * k /\ k <= 5 * den
  BY <1>1, FactorsAreLinear
<1>4. u = RoundUp(base * k, den * g)
  BY <1>1, FactorsAreLinear DEF UnitsOf
<1>5. PICK n, d : n = base * k /\ d = den * g
  OBVIOUS
<1>6. n \in Nat /\ d \in Nat \ {0}
  BY <1>2, <1>3, <1>5
<1>7. u \in Int /\ 2 * (d * u) <= 2 * n + d /\ 2 * (d * u) > 2 * n - d
  <2>1. u = RoundUp(n, d) /\ n \in Int
    BY <1>4, <1>5, <1>6
  <2> QED  BY <1>6, <2>1, RoundUpIsNear
<1>8. PICK v, w : v = g * u /\ w = base * den
  OBVIOUS
<1>9. v \in Int /\ w \in Nat /\ d * u = den * v
  BY <1>2, <1>5, <1>7, <1>8
<1>10. 3 * w <= 10 * n /\ n <= 5 * w
  <2>1. base * (3 * den) <= base * (10 * k) /\ base * k <= base * (5 * den)
    BY <1>2, <1>3
  <2>2. base * (3 * den) = 3 * w /\ base * (10 * k) = 10 * n /\ base * (5 * den) = 5 * w
    BY <1>2, <1>3, <1>5, <1>8
  <2> QED  BY <1>5, <2>1, <2>2
<1>11. 10 * v + 5 * g >= 3 * base
  <2> SUFFICES ASSUME 10 * v + 5 * g < 3 * base PROVE FALSE
    BY <1>2, <1>9
  <2>1. den * (10 * v + 5 * g) < den * (3 * base)
    BY <1>2, <1>9
  <2>2. den * (10 * v + 5 * g) = 10 * (den * v) + 5 * d /\ den * (3 * base) = 3 * w
    BY <1>2, <1>5, <1>8, <1>9
  <2>3. den * v \in Int
    BY <1>2, <1>9
  <2> QED  BY <1>6, <1>7, <1>9, <1>10, <2>1, <2>2, <2>3
<1>12. 2 * v <= 10 * base + g
  <2> SUFFICES ASSUME 2 * v > 10 * base + g PROVE FALSE
    BY <1>2, <1>9
  <2>1. den * (2 * v) > den * (10 * base + g)
    BY <1>2, <1>9
  <2>2. den * (2 * v) = 2 * (den * v) /\ den * (10 * base + g) = 10 * w + d
    BY <1>2, <1>5, <1>8, <1>9
  <2>3. den * v \in Int
    BY <1>2, <1>9
  <2> QED  BY <1>6, <1>7, <1>9, <1>10, <2>1, <2>2, <2>3
<1>13. 10 * g * u = 10 * v /\ 2 * g * u = 2 * v
  BY <1>2, <1>7, <1>8
<1> QED  BY <1>1, <1>7, <1>11, <1>12, <1>13

\* More baseline never means fewer units, and twice the baseline twice the units
\* but for the rounding.
LEMMA UnitsFollowTheBaseline ==
  ASSUME NEW es, EventsOf(es), NEW t, NEW factor \in Int, NEW base \in Nat,
         NEW more \in Nat, base <= more
  PROVE  /\ UnitsOf(more, es, t, factor) >= UnitsOf(base, es, t, factor)
         /\ more <= 2 * base => UnitsOf(more, es, t, factor) <= 2 * UnitsOf(base, es, t, factor) + 1
<1>1. PICK k, den, g : k = PartsOf(es, t, factor) /\ den = OneOf(es) /\ g = Grain
  OBVIOUS
<1>2. den \in Nat \ {0} /\ g \in Nat \ {0} /\ k \in Nat
  BY <1>1, OneIsTens, ForecastConstants, FactorsAreLinear
<1>3. PICK u, v : u = UnitsOf(base, es, t, factor) /\ v = UnitsOf(more, es, t, factor)
  OBVIOUS
<1>4. u = RoundUp(base * k, den * g) /\ v = RoundUp(more * k, den * g)
  BY <1>1, <1>3, FactorsAreLinear DEF UnitsOf
<1>5. PICK n, m, d : n = base * k /\ m = more * k /\ d = den * g
  OBVIOUS
<1>6. n \in Nat /\ m \in Nat /\ d \in Nat \ {0} /\ n <= m
  BY <1>2, <1>5
<1>7. u \in Int /\ 2 * (d * u) <= 2 * n + d /\ 2 * (d * u) > 2 * n - d
  <2>1. u = RoundUp(n, d) /\ n \in Int
    BY <1>4, <1>5, <1>6
  <2> QED  BY <1>6, <2>1, RoundUpIsNear
<1>8. v \in Int /\ 2 * (d * v) <= 2 * m + d /\ 2 * (d * v) > 2 * m - d
  <2>1. v = RoundUp(m, d) /\ m \in Int
    BY <1>4, <1>5, <1>6
  <2> QED  BY <1>6, <2>1, RoundUpIsNear
<1>9. PICK x, y : x = d * u /\ y = d * v
  OBVIOUS
<1>10. x \in Int /\ y \in Int
  BY <1>6, <1>7, <1>8, <1>9
<1>11. v >= u
  <2> SUFFICES ASSUME v <= u - 1 PROVE FALSE
    BY <1>7, <1>8
  <2>1. d * v <= d * (u - 1)
    BY <1>6, <1>7, <1>8
  <2>2. d * (u - 1) = x - d
    BY <1>6, <1>7, <1>9
  <2> QED  BY <1>6, <1>7, <1>8, <1>9, <1>10, <2>1, <2>2
<1>12. ASSUME more <= 2 * base PROVE v <= 2 * u + 1
  <2>1. m <= 2 * n
    <3>1. more * k <= (2 * base) * k
      BY <1>2, <1>12
    <3>2. (2 * base) * k = 2 * n
      BY <1>2, <1>5
    <3> QED  BY <1>5, <3>1, <3>2
  <2> SUFFICES ASSUME v >= 2 * u + 2 PROVE FALSE
    BY <1>7, <1>8
  <2>2. d * v >= d * (2 * u + 2)
    BY <1>6, <1>7, <1>8
  <2>3. d * (2 * u + 2) = 2 * x + 2 * d
    BY <1>6, <1>7, <1>9
  <2> QED  BY <1>6, <1>7, <1>8, <1>9, <1>10, <2>1, <2>2, <2>3
<1> QED  BY <1>3, <1>11, <1>12

--------------------------------------------------------------------------------
(* ForecastSpec *)

\* What was asked for.
Queried ==
    /\ sold \in SoldChoices
    /\ refused \in RefusedChoices
    /\ assumption \in Assumptions
    /\ dayEvents \in EventChoices

\* The answer is the line of what was asked.
AnsweredInFull ==
    Asked => suggestion = Line(sold, refused, blocked, assumption, dayEvents, tags, AskedDay)

LEMMA QueriedIsTyped ==
  ASSUME Queried
  PROVE  /\ HistoryOf(sold) /\ RefusalsOf(refused)
         /\ assumption \in Nat \cup {NoGuess} /\ EventsOf(dayEvents)
<1>1. sold \in [WindowDays -> Nat \cup {NoRow}] /\ refused \in [WindowDays -> Nat]
  BY ForecastAssumption DEF ForecastAssumption, Queried
<1>2. assumption \in Nat \cup {NoGuess}
  BY ForecastAssumption DEF ForecastAssumption, Queried
<1>3. EventsOf(dayEvents)
  BY ForecastAssumption DEF ForecastAssumption, Queried, EventsOf
<1> QED  BY <1>1, <1>2, <1>3 DEF HistoryOf, RefusalsOf

\* Event days do not count, so what they sold may be anything.
LEMMA NothingIsTaught ==
  ASSUME Queried, AnsweredInFull
  PROVE  EventDaysTeachNothing
<1>1. PICK other : other = [d \in WindowDays |-> IF d \in blocked /\ sold[d] # NoRow THEN 0 ELSE sold[d]]
  OBVIOUS
<1>2. \A d \in WindowDays : /\ other[d] = NoRow <=> sold[d] = NoRow
                            /\ d \notin blocked => other[d] = sold[d]
  BY <1>1 DEF NoRow
<1>3. CountedDays(other, blocked) = CountedDays(sold, blocked)
  <2>1. {d \in WindowDays : other[d] # NoRow} = {d \in WindowDays : sold[d] # NoRow}
    BY <1>2
  <2> QED  BY <2>1 DEF CountedDays
<1>4. ASSUME NEW days \in SUBSET CountedDays(sold, blocked)
      PROVE  TotalOver(other, days) = TotalOver(sold, days)
  <2>1. \A d \in days : other[d] = sold[d]
    BY <1>2, CountedAreDays
  <2>2. [d \in days |-> IF other[d] = NoRow THEN 0 ELSE other[d]]
          = [d \in days |-> IF sold[d] = NoRow THEN 0 ELSE sold[d]]
    BY <2>1
  <2> QED  BY <2>2 DEF TotalOver
<1>5. PICK days : days = CountedDays(sold, blocked)
  OBVIOUS
<1>6. TotalOver(other, days) = TotalOver(sold, days)
  BY <1>4, <1>5
<1>7. TotalOver(other, SameWeekday(days, AskedDay)) = TotalOver(sold, SameWeekday(days, AskedDay))
  BY <1>4, <1>5 DEF SameWeekday
<1>8. Baseline(other, blocked, assumption) = Baseline(sold, blocked, assumption)
  BY <1>3, <1>5, <1>6 DEF Baseline
<1>9. WeekdayFactor(other, blocked, AskedDay) = WeekdayFactor(sold, blocked, AskedDay)
  BY <1>3, <1>5, <1>6, <1>7 DEF WeekdayFactor
<1>10. \A base : WithUnmet(base, other, blocked, refused) = WithUnmet(base, sold, blocked, refused)
  BY <1>3 DEF WithUnmet
<1>11. Line(other, refused, blocked, assumption, dayEvents, tags, AskedDay)
         = Line(sold, refused, blocked, assumption, dayEvents, tags, AskedDay)
  BY <1>8, <1>9, <1>10 DEF Line
<1> QED  BY <1>1, <1>11 DEF AnsweredInFull, EventDaysTeachNothing, Differently

\* The mean of a history and a guess lies between the two.
LEMMA BlendIsBetween ==
  ASSUME NEW total \in Nat, NEW n \in Nat \ {0}, n < TrustDays, NEW guess \in Nat,
         NEW mean, mean = RoundEven(Grain * total, n)
  PROVE  /\ mean <= guess => mean <= Blend(total, n, guess) /\ Blend(total, n, guess) <= guess
         /\ guess <= mean => guess <= Blend(total, n, guess) /\ Blend(total, n, guess) <= mean
<1>1. PICK g, t, w : g = Grain * total /\ t = TrustDays /\ w = TrustDays - n
  OBVIOUS
<1>2. g \in Nat /\ t \in Nat \ {0} /\ w \in Nat \ {0} /\ t = n + w
  BY <1>1, ForecastConstants
<1>3. PICK x : x = g + w * guess
  OBVIOUS
<1>4. PICK blend : blend = RoundEven(x, t)
  OBVIOUS
<1>5. Blend(total, n, guess) = blend
  BY <1>1, <1>3, <1>4, ForecastConstants DEF Blend
<1>6. PICK c, v : c = n * guess /\ v = w * guess
  OBVIOUS
<1>7. c \in Nat /\ v \in Nat /\ x = g + v /\ x \in Nat
  BY <1>2, <1>3, <1>6
<1>8. RoundEven(c, n) = guess
  BY <1>6, RoundEvenOfWhole
<1>9. guess * t = c + v
  BY <1>2, <1>6
<1>10. RoundEven(c + v, t) = guess
  <2>1. PICK z : z = c + v
    OBVIOUS
  <2>2. z = guess * t
    BY <1>9, <2>1
  <2>3. RoundEven(z, t) = guess
    BY <1>2, <2>2, RoundEvenOfWhole
  <2> QED  BY <2>1, <2>3
<1>11. mean = RoundEven(g, n) /\ mean \in Nat /\ blend \in Nat
  BY <1>1, <1>2, <1>4, <1>7, RoundEvenIsNat
<1>12. g * t = g * n + g * w /\ x * n = g * n + v * n /\ v * n = c * w
  <2>1. g * t = g * n + g * w
    BY <1>2
  <2>2. x * n = g * n + v * n
    <3>1. (g + v) * n = g * n + v * n
      BY <1>2, <1>7
    <3> QED  BY <1>7, <3>1
  <2>3. v * n = c * w
    BY <1>2, <1>6
  <2> QED  BY <2>1, <2>2, <2>3
<1>13. g * n \in Int /\ g * w \in Int /\ v * n \in Int /\ c * w \in Int
  BY <1>2, <1>7
<1>14. CASE g <= c
  <2>1. g * w <= c * w
    BY <1>2, <1>7, <1>14
  <2>2. g * t <= x * n
    BY <1>12, <1>13, <2>1
  <2>3. mean <= blend
    BY <1>2, <1>4, <1>7, <1>11, <2>2, RoundEvenKeepsOrder
  <2>4. x * t <= (c + v) * t
    BY <1>2, <1>7, <1>14
  <2>5. blend <= guess
    BY <1>2, <1>4, <1>7, <1>10, <2>4, RoundEvenKeepsOrder
  <2>6. mean <= guess
    BY <1>11, <2>3, <2>5
  <2> QED  BY <1>5, <1>11, <2>3, <2>5, <2>6
<1>15. CASE c <= g
  <2>1. c * w <= g * w
    BY <1>2, <1>7, <1>15
  <2>2. x * n <= g * t
    BY <1>12, <1>13, <2>1
  <2>3. blend <= mean
    BY <1>2, <1>4, <1>7, <1>11, <2>2, RoundEvenKeepsOrder
  <2>4. (c + v) * t <= x * t
    BY <1>2, <1>7, <1>15
  <2>5. guess <= blend
    BY <1>2, <1>4, <1>7, <1>10, <2>4, RoundEvenKeepsOrder
  <2>6. guess <= mean
    BY <1>11, <2>3, <2>5
  <2> QED  BY <1>5, <1>11, <2>3, <2>5, <2>6
<1> QED  BY <1>2, <1>7, <1>14, <1>15

LEMMA GuessFades ==
  ASSUME Queried, AnsweredInFull
  PROVE  AssumptionFades
<1> SUFFICES ASSUME Asked, assumption # NoGuess PROVE AssumptionFades
  BY DEF AssumptionFades
<1>1. PICK days, n, total : /\ days = CountedDays(sold, blocked) /\ n = Cardinality(days)
                            /\ total = TotalOver(sold, days)
  OBVIOUS
<1>2. n \in Nat /\ total \in Nat /\ assumption \in Nat
  BY <1>1, QueriedIsTyped, CountedAreDays, TotalsAreNat
<1>3. PICK unguided : unguided = Differently(sold, refused, NoGuess)
  OBVIOUS
<1>4. /\ suggestion.baseline = Baseline(sold, blocked, assumption)
      /\ unguided.baseline = Baseline(sold, blocked, NoGuess)
  BY <1>3 DEF AnsweredInFull, Differently, Line, Effective
<1>5. n = 0 => suggestion.baseline = assumption
  BY <1>1, <1>4 DEF Baseline
<1>6. /\ n # 0 => Baseline(sold, blocked, assumption) = Blend(total, n, assumption)
      /\ n # 0 => Baseline(sold, blocked, NoGuess) = RoundEven(Grain * total, n)
  BY <1>1 DEF Baseline
<1>7. ASSUME n >= TrustDays PROVE suggestion = unguided
  <2>1. n # 0
    BY <1>2, <1>7, ForecastConstants
  <2>2. Blend(total, n, assumption) = RoundEven(Grain * total, n)
    BY <1>7 DEF Blend
  <2>3. Baseline(sold, blocked, assumption) = Baseline(sold, blocked, NoGuess)
    BY <1>6, <2>1, <2>2
  <2> QED  BY <1>3, <2>3 DEF AnsweredInFull, Differently, Line
<1>8. ASSUME n > 0
      PROVE  suggestion.baseline \in Least(unguided.baseline, assumption)
                                       ..Max({unguided.baseline, assumption})
  <2>1. PICK mean, blend : mean = RoundEven(Grain * total, n) /\ blend = Blend(total, n, assumption)
    OBVIOUS
  <2>2. n \in Nat \ {0} /\ Grain * total \in Nat
    BY <1>2, <1>8, ForecastConstants
  <2>3. mean \in Nat /\ blend \in Nat
    BY <1>2, <2>1, <2>2, RoundEvenIsNat, GuessedMean
  <2>4. unguided.baseline = mean /\ suggestion.baseline = blend
    BY <1>4, <1>6, <1>8, <2>1
  <2>5. (mean <= blend /\ blend <= assumption) \/ (assumption <= blend /\ blend <= mean)
    <3>1. CASE n >= TrustDays
      <4>1. blend = mean
        BY <2>1, <3>1 DEF Blend
      <4> QED  BY <1>2, <2>3, <4>1
    <3>2. CASE ~ (n >= TrustDays)
      <4>1. n < TrustDays
        BY <1>2, <3>2, ForecastConstants
      <4>2. /\ mean <= assumption => mean <= blend /\ blend <= assumption
            /\ assumption <= mean => assumption <= blend /\ blend <= mean
        BY <1>2, <2>1, <2>2, <4>1, BlendIsBetween
      <4> QED  BY <1>2, <2>3, <4>2
    <3> QED  BY <3>1, <3>2
  <2>6. Max({mean, assumption}) \in Int /\ Max({mean, assumption}) >= mean
        /\ Max({mean, assumption}) >= assumption
    <3>1. IsFiniteSet({mean} \cup {assumption})
      BY FS_Singleton, FS_AddElement
    <3>2. {mean, assumption} = {mean} \cup {assumption}
      OBVIOUS
    <3>3. {mean, assumption} \in SUBSET Int /\ {mean, assumption} # {}
      BY <1>2, <2>3
    <3> QED  BY <3>1, <3>2, <3>3, FiniteSetsHaveEnds
  <2>7. Least(mean, assumption) \in Int /\ Least(mean, assumption) <= mean
        /\ Least(mean, assumption) <= assumption
    BY <1>2, <2>3 DEF Least
  <2> QED  BY <1>2, <2>3, <2>4, <2>5, <2>6, <2>7
<1> QED  BY <1>1, <1>3, <1>5, <1>7, <1>8 DEF AssumptionFades

\* Days that sold the same have no weekday effect.
LEMMA NoRhythmInEvenSales ==
  ASSUME Queried, AnsweredInFull
  PROVE  EvenSalesHaveNoRhythm
<1>1. PICK days, n, total : /\ days = CountedDays(sold, blocked) /\ n = Cardinality(days)
                            /\ total = TotalOver(sold, days)
  OBVIOUS
<1>2. PICK level : level = {TotalOver(sold, {d}) : d \in days}
  OBVIOUS
<1> SUFFICES ASSUME Asked, Cardinality(level) <= 1 PROVE suggestion.weekday = Grain
  BY <1>1, <1>2 DEF EvenSalesHaveNoRhythm
<1>3. PICK same, k, some : /\ same = SameWeekday(days, AskedDay) /\ k = Cardinality(same)
                           /\ some = TotalOver(sold, same)
  OBVIOUS
<1>4. /\ days \in SUBSET WindowDays /\ IsFiniteSet(days) /\ n \in Nat
      /\ same \in SUBSET days /\ IsFiniteSet(same) /\ k \in Nat /\ k <= n
  <2>1. days \in SUBSET WindowDays /\ IsFiniteSet(days) /\ n \in Nat
    BY <1>1, CountedAreDays
  <2>2. same \in SUBSET days
    BY <1>3 DEF SameWeekday
  <2> QED  BY <1>1, <1>3, <2>1, <2>2, FS_Subset, FS_CardinalityType
<1>5. HistoryOf(sold)
  BY QueriedIsTyped
<1>6. total \in Nat /\ some \in Nat
  BY <1>1, <1>3, <1>4, <1>5, TotalsAreNat
<1>7. PICK units : units = [d \in days |-> IF sold[d] = NoRow THEN 0 ELSE sold[d]]
  OBVIOUS
<1>8. \A d \in days : units[d] \in Nat
  BY <1>4, <1>5, <1>7 DEF HistoryOf, NoRow
<1>9. ASSUME NEW part \in SUBSET days PROVE TotalOver(sold, part) = SumOver(units, part)
  <2>1. PICK own : own = [d \in part |-> IF sold[d] = NoRow THEN 0 ELSE sold[d]]
    OBVIOUS
  <2>2. \A d \in part : own[d] \in Int /\ own[d] = units[d]
    BY <1>7, <1>8, <2>1
  <2>3. IsFiniteSet(part)
    BY <1>4, FS_Subset
  <2>4. SumOver(own, part) = SumOver(units, part)
    BY <2>2, <2>3, SumSame
  <2> QED  BY <2>1, <2>4 DEF TotalOver
<1>10. ASSUME NEW d \in days PROVE TotalOver(sold, {d}) = units[d]
  <2>1. {d} \in SUBSET days /\ {d} \ {d} = {} /\ d \in {d}
    OBVIOUS
  <2>2. \A x \in days : units[x] \in Int
    BY <1>8
  <2>3. SumOver(units, {d}) = units[d] + SumOver(units, {d} \ {d})
    BY <1>4, <2>1, <2>2, SumRemove
  <2>4. SumOver(units, {}) = 0
    BY SumEmpty
  <2>5. SumOver(units, {d}) = units[d]
    BY <1>8, <2>1, <2>3, <2>4
  <2> QED  BY <1>9, <2>1, <2>5
<1>11. \A d, e \in days : units[d] = units[e]
  <2>1. level = {units[d] : d \in days}
    BY <1>2, <1>10
  <2>2. IsFiniteSet(level)
    BY <1>4, <2>1, ValuesAreFinite
  <2> SUFFICES ASSUME NEW d \in days, NEW e \in days, units[d] # units[e] PROVE FALSE
    OBVIOUS
  <2>3. PICK two : two = {units[d]} \cup {units[e]}
    OBVIOUS
  <2>4. two \in SUBSET level
    BY <2>1, <2>3
  <2>5. Cardinality(two) = 2
    <3>1. IsFiniteSet({units[d]}) /\ Cardinality({units[d]}) = 1
      BY FS_Singleton
    <3>2. units[e] \notin {units[d]}
      OBVIOUS
    <3>3. Cardinality({units[d]} \cup {units[e]}) = Cardinality({units[d]}) + 1
      BY <3>1, <3>2, FS_AddElement
    <3> QED  BY <2>3, <3>1, <3>3
  <2>6. Cardinality(two) <= Cardinality(level) /\ Cardinality(level) \in Nat
    BY <2>2, <2>4, FS_Subset, FS_CardinalityType
  <2> QED  BY <2>5, <2>6
<1>12. PICK c : c \in Nat /\ \A d \in days : units[d] = c
  <2>1. CASE days = {}
    BY <2>1
  <2>2. CASE days # {}
    <3>1. PICK d \in days : TRUE
      BY <2>2
    <3> QED  BY <1>8, <1>11, <3>1
  <2> QED  BY <2>1, <2>2
<1>13. ASSUME NEW part \in SUBSET days PROVE TotalOver(sold, part) = c * Cardinality(part)
  <2>1. PICK ones : ones = [d \in part |-> 1]
    OBVIOUS
  <2>2. IsFiniteSet(part) /\ c \in Int
    BY <1>4, <1>12, FS_Subset
  <2>3. \A d \in part : ones[d] = 1 /\ ones[d] \in Int /\ units[d] = c * ones[d]
    BY <1>12, <2>1
  <2>4. SumOver(units, part) = c * SumOver(ones, part)
    BY <2>2, <2>3, SumOfMultiples
  <2>5. SumOver(ones, part) = Cardinality(part)
    BY <2>2, <2>3, SumOfOnes
  <2> QED  BY <1>9, <2>4, <2>5
<1>14. total = c * n /\ some = c * k
  BY <1>1, <1>3, <1>4, <1>13
<1>15. some * n - k * total = 0
  <2>1. (c * k) * n = k * (c * n) /\ (c * k) * n \in Int
    BY <1>4, <1>12
  <2> QED  BY <1>14, <2>1
<1>16. PICK den, lift : /\ den = (k + HalfTrust) * LowVolume * n * total
                        /\ lift = Least(LowVolume * n, total) * (some * n - k * total)
  OBVIOUS
<1>17. WeekdayFactor(sold, blocked, AskedDay)
         = IF total = 0 \/ k = 0 THEN Grain
           ELSE Clamp(Grain \div 2, 2 * Grain, RoundEven(Grain * (den + lift), den))
  BY <1>1, <1>3, <1>16 DEF WeekdayFactor
<1>18. WeekdayFactor(sold, blocked, AskedDay) = Grain
  <2>1. CASE total = 0 \/ k = 0
    BY <1>17, <2>1
  <2>2. CASE total # 0 /\ k # 0
    <3>1. n \in Nat \ {0} /\ total \in Nat \ {0}
      BY <1>4, <1>6, <2>2
    <3>2. den \in Nat \ {0}
      <4>1. PICK x : x = (k + HalfTrust) * LowVolume
        OBVIOUS
      <4>2. x \in Nat \ {0}
        BY <1>4, <4>1, ForecastConstants
      <4>3. PICK y : y = x * n
        OBVIOUS
      <4>4. y \in Nat \ {0}
        BY <3>1, <4>2, <4>3
      <4>5. y * total \in Nat \ {0}
        BY <3>1, <4>4
      <4> QED  BY <1>16, <4>1, <4>3, <4>5
    <3>3. lift = 0
      <4>1. PICK z : z = Least(LowVolume * n, total)
        OBVIOUS
      <4>2. z \in Int
        BY <1>4, <1>6, <4>1, ForecastConstants DEF Least
      <4>3. z * 0 = 0
        BY <4>2
      <4> QED  BY <1>15, <1>16, <4>1, <4>3
    <3>4. Grain * (den + lift) = Grain * den
      BY <3>2, <3>3
    <3>5. RoundEven(Grain * den, den) = Grain
      BY <3>2, ForecastConstants, RoundEvenOfWhole
    <3>6. Clamp(Grain \div 2, 2 * Grain, Grain) = Grain
      BY ForecastConstants DEF Clamp
    <3> QED  BY <1>17, <2>2, <3>4, <3>5, <3>6
  <2> QED  BY <2>1, <2>2
<1> QED  BY <1>18 DEF AnsweredInFull, Line

LEMMA LineOfUnits ==
  ASSUME Queried, AnsweredInFull, Asked
  PROVE  LET base == Baseline(sold, blocked, assumption)
             factor == WeekdayFactor(sold, blocked, AskedDay) IN
         /\ suggestion.baseline = base /\ base \in Nat /\ factor \in Int
         /\ suggestion.units = UnitsOf(base, dayEvents, tags, factor)
         /\ suggestion.unitsIfCounted
              = UnitsOf(WithUnmet(base, sold, blocked, refused), dayEvents, tags, factor)
         /\ \A r : Differently(sold, r, assumption).units = UnitsOf(base, dayEvents, tags, factor)
<1>1. Baseline(sold, blocked, assumption) \in Nat /\ WeekdayFactor(sold, blocked, AskedDay) \in Int
  BY QueriedIsTyped, BaselineIsNat, WeekdayFactorIsInt
<1>2. suggestion = Line(sold, refused, blocked, assumption, dayEvents, tags, AskedDay)
  BY DEF AnsweredInFull
<1> QED  BY <1>1, <1>2 DEF Line, UnitsOf, Effective, Differently

LEMMA RefusalsAreBeside ==
  ASSUME Queried, AnsweredInFull
  PROVE  RefusalsStayInTheShadow
<1> SUFFICES ASSUME Asked PROVE RefusalsStayInTheShadow
  BY DEF RefusalsStayInTheShadow
<1>1. PICK base, factor : /\ base = Baseline(sold, blocked, assumption)
                          /\ factor = WeekdayFactor(sold, blocked, AskedDay)
  OBVIOUS
<1>2. PICK more : more = WithUnmet(base, sold, blocked, refused)
  OBVIOUS
<1>3. /\ suggestion.baseline = base /\ base \in Nat /\ factor \in Int
      /\ suggestion.units = UnitsOf(base, dayEvents, tags, factor)
      /\ suggestion.unitsIfCounted = UnitsOf(more, dayEvents, tags, factor)
      /\ \A r : Differently(sold, r, assumption).units = UnitsOf(base, dayEvents, tags, factor)
  BY <1>1, <1>2, LineOfUnits
<1>4. EventsOf(dayEvents) /\ RefusalsOf(refused)
  BY QueriedIsTyped
<1>5. more \in Nat /\ base <= more /\ (base > 0 => more <= 2 * base)
  BY <1>2, <1>3, <1>4, UnmetAtMostDoubles
<1>6. /\ UnitsOf(more, dayEvents, tags, factor) >= UnitsOf(base, dayEvents, tags, factor)
      /\ more <= 2 * base => UnitsOf(more, dayEvents, tags, factor)
                               <= 2 * UnitsOf(base, dayEvents, tags, factor) + 1
  BY <1>3, <1>4, <1>5, UnitsFollowTheBaseline
<1> QED  BY <1>3, <1>5, <1>6 DEF RefusalsStayInTheShadow

LEMMA SuggestedPlausibly ==
  ASSUME Queried, AnsweredInFull
  PROVE  SuggestionIsPlausible
<1> SUFFICES ASSUME Asked PROVE SuggestionIsPlausible
  BY DEF SuggestionIsPlausible
<1>1. PICK base, factor : /\ base = Baseline(sold, blocked, assumption)
                          /\ factor = WeekdayFactor(sold, blocked, AskedDay)
  OBVIOUS
<1>2. /\ suggestion.baseline = base /\ base \in Nat /\ factor \in Int
      /\ suggestion.units = UnitsOf(base, dayEvents, tags, factor)
  BY <1>1, LineOfUnits
<1>3. EventsOf(dayEvents)
  BY QueriedIsTyped
<1> QED  BY <1>2, <1>3, UnitsArePlausible DEF SuggestionIsPlausible

\* The suggestion means what the page says of it (services/normal_demand.py,
\* services/forecast.py), for every window, history, calendar and product: event
\* days teach nothing, the Admin's guess fades into the history, even sales have
\* no rhythm, refusals stay beside the forecast, and the whole stays plausible.
THEOREM ForecastAlwaysSound == ForecastSpec => []ForecastIsSound
<1>1. ForecastInit => Queried /\ AnsweredInFull
  BY DEF ForecastInit, Queried, AnsweredInFull, Asked
<1>2. (Queried /\ AnsweredInFull) /\ [ForecastNext]_forecastVars => (Queried /\ AnsweredInFull)'
  BY DEF ForecastNext, Predict, forecastVars, Queried, AnsweredInFull, Asked, AskedDay
<1>3. Queried /\ AnsweredInFull => ForecastIsSound
  BY NothingIsTaught, GuessFades, NoRhythmInEvenSales, RefusalsAreBeside, SuggestedPlausibly
     DEF ForecastIsSound
<1> QED  BY <1>1, <1>2, <1>3, PTL DEF ForecastSpec

================================================================================
