------------------------------ MODULE Pricing ------------------------------
(***************************************************************************)
(* Pricing in whole minor units (pricing/money.py, pricing/registry.py, the *)
(* country packs, services/pricing.py): rounding to a coin, splitting an   *)
(* amount over lines without losing a unit, finding the country pack in    *)
(* force and the price of a product, and pricing a cart with it.  Each     *)
(* function is answered for one question; the behaviours enumerate them.   *)
(***************************************************************************)
EXTENDS Sequences, Sums

CONSTANTS
    MinorAmounts,    \* amounts to round or split, negative ones included
    Coins,          \* increments to round to
    Weights,        \* sequences of weights to split over
    Packs,          \* registered packs: [country, province, since, until, bp]
    Places,         \* <<country, province>> of a branch
    Dates,          \* days to price on
    Carts           \* sequences of lines [menu, price, quantity, surcharge, off]

ASSUME PricingAssumption ==
    /\ MinorAmounts \subseteq Int /\ Coins \subseteq Nat \ {0} /\ Dates \subseteq Nat
    /\ \A w \in Weights : w \in Seq(Nat) /\ Len(w) > 0
    /\ IsFiniteSet(Packs) /\ \A p \in Packs : p.since \in Int /\ p.bp \in Nat
    /\ \A cart \in Carts :
         /\ Len(cart) \in Nat \ {0}
         /\ \A i \in 1..Len(cart) :
              {cart[i].menu, cart[i].price, cart[i].quantity, cart[i].surcharge, cart[i].off}
                \subseteq Int

VARIABLES question, answer

pricingVars == <<question, answer>>

Modes == {"HALF_UP", "HALF_EVEN", "DOWN", "UP"}
Abs(x) == IF x < 0 THEN -x ELSE x
Sign(x) == IF x < 0 THEN -1 ELSE 1
Unanswered == << >>

-----------------------------------------------------------------------------
\* MUTANT of Rounds: a half goes down.
RoundsHalfDown(whole, rest, coin, mode) ==
    CASE mode \in {"HALF_UP", "HALF_EVEN"} -> 2 * rest > coin
      [] mode = "DOWN" -> FALSE
      [] OTHER -> rest > 0
\* Whether the part of a coin left over counts as one more coin.
Rounds(whole, rest, coin, mode) ==
    CASE mode = "HALF_UP" -> 2 * rest >= coin
      [] mode = "HALF_EVEN" -> 2 * rest > coin \/ (2 * rest = coin /\ whole % 2 = 1)
      [] mode = "DOWN" -> FALSE
      [] OTHER -> rest > 0

\* Away from zero and toward it alike for a refund.
RoundTo(minor, coin, mode) ==
    LET whole == Abs(minor) \div coin
        rest == Abs(minor) % coin
    IN  IF coin = 1 THEN minor
        ELSE Sign(minor) * coin * (IF Rounds(whole, rest, coin, mode) THEN whole + 1 ELSE whole)

SumUp(s) == SumOver(s, DOMAIN s)

\* MUTANT of Leftover: shares are left as rounded down.
LeftoverDropped(amount, floors) == 0
Leftover(amount, floors) == amount - SumUp(floors)

\* Shares are rounded down and the units left over go to the largest
\* remainders, the earlier line first; with nothing to weigh by, the first
\* line takes it all.
SplitProportional(total, w) ==
    LET all == SumUp(w)
        amount == Abs(total)
        floors == [i \in 1..Len(w) |-> (amount * w[i]) \div all]
        rest(i) == (amount * w[i]) % all
        ahead(i) == {j \in 1..Len(w) : rest(j) > rest(i) \/ (rest(j) = rest(i) /\ j < i)}
        more(i) == IF Cardinality(ahead(i)) < Leftover(amount, floors) THEN 1 ELSE 0
    IN  IF all = 0 THEN [i \in 1..Len(w) |-> IF i = 1 THEN total ELSE 0]
        ELSE [i \in 1..Len(w) |-> Sign(total) * (floors[i] + more(i))]

-----------------------------------------------------------------------------
InForce(pack, day) == pack.since <= day /\ day < pack.until

\* MUTANT of Bucket: the newest pack of the country wins over the province's.
BucketOfCountry(place, province) == {p \in Packs : p.country = place[1]}
Bucket(place, province) == {p \in Packs : p.country = place[1] /\ p.province = province}

\* The newest pack in force of the province, else of the whole country, else
\* the branch cannot be priced at all.
NoPack == [country |-> "none"]
Newest(S) == CHOOSE p \in S : \A q \in S : q.since <= p.since
Resolve(place, day) ==
    LET province == {p \in Bucket(place, place[2]) : InForce(p, day)}
        country == {p \in Bucket(place, "") : InForce(p, day)}
    IN  IF province # {} THEN Newest(province)
        ELSE IF country # {} THEN Newest(country) ELSE NoPack

\* What the published menu says beats the product's own price.
UnitPrice(line) == IF line.menu # -1 THEN line.menu ELSE line.price

\* MUTANT of NetOf: what the modifiers add is added to each unit.
NetOfEach(line) == (UnitPrice(line) + line.surcharge) * line.quantity - line.off
NetOf(line) == UnitPrice(line) * line.quantity + line.surcharge - line.off

\* Basis points of the whole net.
WholeBp == 10000
\* Line by line, exclusive tax on the net, rounded down.
TaxOf(line, pack) == (NetOf(line) * pack.bp) \div WholeBp
Price(cart, discount, pack) ==
    LET net == SumUp([i \in 1..Len(cart) |-> NetOf(cart[i])])
        tax == SumUp([i \in 1..Len(cart) |-> TaxOf(cart[i], pack)])
    IN  [subtotal |-> net, tax |-> tax, total |-> net - discount + tax]

-----------------------------------------------------------------------------
PricingInit ==
    /\ answer = Unanswered
    /\ \/ \E x \in MinorAmounts, c \in Coins, m \in Modes :
            question = [ask |-> "round", amount |-> x, coin |-> c, mode |-> m]
       \/ \E x \in MinorAmounts, w \in Weights : question = [ask |-> "split", amount |-> x, weights |-> w]
       \/ \E p \in Places, d \in Dates, cart \in Carts, off \in MinorAmounts :
            /\ off >= 0
            /\ question = [ask |-> "price", place |-> p, day |-> d, cart |-> cart, discount |-> off]

AnswerRound ==
    /\ question.ask = "round" /\ answer = Unanswered
    /\ answer' = <<RoundTo(question.amount, question.coin, question.mode)>>
    /\ UNCHANGED question

AnswerSplit ==
    /\ question.ask = "split" /\ answer = Unanswered
    /\ answer' = <<SplitProportional(question.amount, question.weights)>>
    /\ UNCHANGED question

\* A cart that comes to less than nothing, or no pack in force: refused.
AnswerPrice ==
    LET pack == Resolve(question.place, question.day) IN
    /\ question.ask = "price" /\ answer = Unanswered
    /\ pack # NoPack
    /\ LET priced == Price(question.cart, question.discount, pack) IN
       priced.total >= 0 /\ answer' = <<[priced |-> priced, pack |-> pack]>>
    /\ UNCHANGED question

PricingNext == AnswerRound \/ AnswerSplit \/ AnswerPrice
PricingSpec == PricingInit /\ [][PricingNext]_pricingVars

-----------------------------------------------------------------------------
Answered(ask) == question.ask = ask /\ answer # Unanswered

(***************************************************************************)
(* Rounding gives a whole number of coins, never more than half a coin away *)
(* in the half modes (in HALF_UP the farther from zero of two equally near, *)
(* in HALF_EVEN the even one), toward zero in DOWN, away from it in UP, and *)
(* a refund rounds as the sale did.                                        *)
(***************************************************************************)
RoundsToNearestCoin ==
    Answered("round") =>
        LET x == question.amount
            c == question.coin
            rounded == answer[1]
            off == Abs(rounded) - Abs(x)
        IN  /\ rounded % c = 0
            /\ Abs(off) < c /\ rounded * x >= 0
            /\ rounded = -RoundTo(-x, c, question.mode)
            /\ question.mode = "DOWN" => off <= 0
            /\ question.mode = "UP" => off >= 0
            /\ question.mode = "HALF_UP" => 2 * Abs(off) <= c /\ 2 * off > -c
            /\ question.mode = "HALF_EVEN" =>
                 2 * Abs(off) < c \/ (2 * Abs(off) = c /\ (rounded \div c) % 2 = 0)

(***************************************************************************)
(* A split gives out exactly the amount; every share is within one unit of *)
(* the exact one; a heavier line gets no less than a lighter one, and an   *)
(* earlier no less than a later one of the same weight.                    *)
(***************************************************************************)
SplitLosesNothing ==
    Answered("split") =>
        LET x == question.amount
            w == question.weights
            all == SumUp(w)
            shares == answer[1]
        IN  /\ SumUp(shares) = x
            /\ all > 0 => \A i \in 1..Len(w) : Abs(shares[i] * all - x * w[i]) < all
            /\ all > 0 => \A i, j \in 1..Len(w) :
                 (w[i] > w[j] \/ (w[i] = w[j] /\ i < j)) => Abs(shares[i]) >= Abs(shares[j])

(***************************************************************************)
(* A cart is taxed by the branch's own province as long as a pack of it is *)
(* in force, and by no pack of another place or date; and its total is what *)
(* the lines say: the price of each unit, each surcharge once, less the    *)
(* discounts, plus at most the exact tax and at least one unit less a line. *)
(***************************************************************************)
PricedByItsOwnPack ==
    Answered("price") =>
        LET p == answer[1].pack
            cart == question.cart
            net == SumUp([i \in 1..Len(cart) |->
                     UnitPrice(cart[i]) * cart[i].quantity + cart[i].surcharge - cart[i].off])
        IN  /\ p.country = question.place[1] /\ p.province \in {"", question.place[2]}
            /\ InForce(p, question.day)
            /\ \A q \in Packs : (q.country = p.country /\ q.province = question.place[2]
                                   /\ InForce(q, question.day))
                                => p.province = q.province /\ q.since <= p.since
            /\ answer[1].priced.subtotal = net
            /\ answer[1].priced.total - (net - question.discount) = answer[1].priced.tax
            /\ answer[1].priced.tax * WholeBp <= net * p.bp
            /\ answer[1].priced.tax * WholeBp > net * p.bp - WholeBp * Len(cart)

(***************************************************************************)
(* Money arithmetic: rounding, splitting and pricing answer as specified.  *)
(***************************************************************************)
PricesAreRight == RoundsToNearestCoin /\ SplitLosesNothing /\ PricedByItsOwnPack
=============================================================================
