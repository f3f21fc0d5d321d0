---------------------------- MODULE MarketTxnProofs ----------------------------
(****************************************************************************)
(* What MarketTxn's safety properties rest on, proved for every set of       *)
(* characters, requests, calls and initial rows.                             *)
(*                                                                           *)
(* The inductive invariant says, of each request, which of its private       *)
(* fields are in use at each step (ControlOK), that every row it tracks is   *)
(* typed and owes what it holds (CommitmentsExact on the copies), and that a *)
(* tracked resting order is locked by it and unchanged underneath it.  The   *)
(* sums over all rows (SumInv) and the atomic book (BookInv) add to it.      *)
(****************************************************************************)
EXTENDS MCMarketTxn, TransactionsProofs

Running(r) == pc[r] \notin {"idle", "done"}
Others(r) == DOMAIN entities[r] \ {r}

(* A row a query returned is never deleted before the query locks it.        *)
CandidatesExist == \A r \in Requests : cand[r] \subseteq DOMAIN orders

(* Where a request is says what it was asked and what it has tracked so far. *)
ControlOf(r) ==
    /\ Running(r) => r \in DOMAIN call
    /\ ~Running(r) => DOMAIN entities[r] = {}
    /\ pc[r] \in {"lockCharacter", "reserveGoods", "scan", "lockOrders"} =>
           /\ call[r].op = "place"
           /\ r \notin DOMAIN entities[r]
           /\ \A o \in Requests : fills[r][o] = 0
    /\ pc[r] \in {"idle", "lockCharacter", "reserveGoods"} => DOMAIN stacks[r] = {}
    /\ pc[r] \in {"lockOrder", "release"} => call[r].op = "cancel"
    /\ pc[r] = "idle" => \A o \in Requests : fills[r][o] = 0
    /\ pc[r] = "lockOrder" => DOMAIN entities[r] = {}
    /\ pc[r] = "release" => call[r].order \in DOMAIN entities[r]
    /\ pc[r] \in {"flush", "settle"} /\ call[r].op = "place" => r \in DOMAIN entities[r]
    /\ Running(r) /\ call[r].op = "cancel" =>
           /\ r \notin DOMAIN entities[r]
           /\ DOMAIN entities[r] \subseteq {call[r].order}
           /\ \A o \in Requests : fills[r][o] = 0
    /\ r \in DOMAIN orders => pc[r] = "done"

ControlOK == \A r \in Requests : ControlOf(r)

(* Tracked copies hold what they owe.                                        *)
CopiesExact ==
    \A r \in Requests : \A o \in DOMAIN entities[r] : HoldsWhatItOwes(entities[r][o])

(* A tracked resting order is locked, and its committed row is what the copy *)
(* was before this request's fill or cancel.                                 *)
LockedOf(r) ==
    \A o \in Others(r) :
        /\ o \in DOMAIN orders
        /\ orderLock[o] = r
        /\ SameTerms(entities[r][o], orders[o])
        /\ ~orders[o].cancelled
        /\ call[r].op = "place" =>
               /\ ~entities[r][o].cancelled
               /\ orders[o].remaining = entities[r][o].remaining + fills[r][o]
               /\ orders[o].remaining > 0
        /\ call[r].op = "cancel" =>
               entities[r][o] = IF pc[r] = "release" THEN orders[o] ELSE Closed(orders[o])

LockedCopies == \A r \in Requests : LockedOf(r)

(* A resting order is filled at most once by one placement: either it or the *)
(* placed order is then used up.                                             *)
FilledOf(r) ==
    \A o \in Requests : Running(r) /\ fills[r][o] # 0 =>
        /\ o \in Others(r)
        /\ r \in DOMAIN entities[r]
        /\ entities[r][o].remaining = 0 \/ entities[r][r].remaining = 0

FilledOnce == \A r \in Requests : FilledOf(r)

(* What the placed order r may trade with: a row it matched.                 *)
Agreed(taker, maker) ==
    /\ maker.side = Opposite(taker.side)
    /\ maker.char # taker.char
    /\ Crosses(taker.side, taker.price, maker.price)

MatchedOf(r) ==
    Running(r) /\ call[r].op = "place" =>
        /\ \A o \in Others(r) : Agreed(call[r], orders[o])
        /\ r \in DOMAIN entities[r] =>
               /\ entities[r][r].side = call[r].side
               /\ entities[r][r].char = call[r].char
               /\ entities[r][r].price = call[r].price
               /\ entities[r][r].id < nextId
               /\ \A o \in Others(r) : orders[o].id < entities[r][r].id

MatchesAgreed == \A r \in Requests : MatchedOf(r)

IdsGrow == \A o \in DOMAIN orders : orders[o].id < nextId

IInv == /\ TypeOK /\ ControlOK /\ CandidatesExist
        /\ CommitmentsExact /\ CopiesExact
        /\ LockedCopies /\ FilledOnce
        /\ IdsGrow /\ MatchesAgreed /\ TradesAgreed

--------------------------------------------------------------------------------
(* The operators the module is built from.                                   *)

(* A share in basis points, rounded up, is an integer amount.                *)
LEMMA RoundedUpIsInteger ==
    ASSUME NEW amount \in Int, NEW bps \in Int
    PROVE  PercentRoundedUp(amount, bps) \in Int
<1>1. PICK product \in Int : product = amount * bps
  OBVIOUS
<1>2. (product + (10000 - 1)) \div 10000 \in Int
  OBVIOUS
<1>3. QED
  BY <1>1, <1>2 DEF PercentRoundedUp, OneHundredPercent

(* A rate is charged in whole minor units.                                   *)
LEMMA RatesAreIntegers ==
    ASSUME NEW price \in Int, NEW quantity \in Int
    PROVE  /\ GrossValue(price, quantity) \in Int
           /\ BrokerFee(price, quantity) \in Int
           /\ SalesTax(price, quantity) \in Int
<1>1. GrossValue(price, quantity) \in Int
  BY DEF GrossValue
<1>2. BrokerFeeBps \in Int /\ SalesTaxBps \in Int
  BY RatesAssumption
<1>3. BrokerFee(price, quantity) \in Int
  BY <1>1, <1>2, RoundedUpIsInteger DEF BrokerFee
<1>4. SalesTax(price, quantity) \in Int
  BY <1>1, <1>2, RoundedUpIsInteger DEF SalesTax
<1>5. QED
  BY <1>1, <1>3, <1>4

(* Whatever is charged is rounded up: to the least whole amount that is no    *)
(* less than the share, so rounding takes less than one minor unit.           *)
THEOREM ChargedNoMoreThanDue ==
    ASSUME NEW amount \in Nat, NEW bps \in Nat
    PROVE  /\ PercentRoundedUp(amount, bps) \in Nat
           /\ amount * bps <= PercentRoundedUp(amount, bps) * OneHundredPercent
           /\ PercentRoundedUp(amount, bps) * OneHundredPercent
                  < amount * bps + OneHundredPercent
<1>1. PICK product \in Nat : product = amount * bps
  BY ProductNat
<1>2. PICK charged \in Int : charged = (product + (10000 - 1)) \div 10000
  OBVIOUS
<1>3. charged \in Nat /\ product <= charged * 10000 /\ charged * 10000 < product + 10000
  BY <1>2
<1>4. PercentRoundedUp(amount, bps) = charged
  BY <1>1, <1>2 DEF PercentRoundedUp, OneHundredPercent
<1>5. QED
  BY <1>1, <1>3, <1>4 DEF OneHundredPercent

(* No sale costs its seller: the tax is never more than what was paid, at any  *)
(* rate up to all of it, however small the sale and however it is rounded.    *)
THEOREM SellerNeverOwes ==
    ASSUME NEW price \in Nat, NEW quantity \in Nat
    PROVE  /\ SalesTax(price, quantity) \in 0 .. GrossValue(price, quantity)
           /\ SellerProceeds(price, quantity) \in 0 .. GrossValue(price, quantity)
<1>1. PICK gross \in Nat : gross = GrossValue(price, quantity)
  BY ProductNat DEF GrossValue
<1>2. SalesTaxBps \in Nat /\ SalesTaxBps <= 10000
  BY RatesAssumption
<1>3. gross * SalesTaxBps <= gross * 10000 /\ gross * SalesTaxBps \in Nat
  BY <1>2, ProductGrows, ProductNat
<1>4. PICK tax \in Nat : tax = PercentRoundedUp(gross, SalesTaxBps)
  BY <1>2, ChargedNoMoreThanDue
<1>5. tax * 10000 < gross * SalesTaxBps + 10000
  BY <1>2, <1>4, ChargedNoMoreThanDue DEF OneHundredPercent
<1>6. tax <= gross
  BY <1>3, <1>5
<1>7. SalesTax(price, quantity) = tax
  BY <1>1, <1>4 DEF SalesTax
<1>8. SellerProceeds(price, quantity) = gross - tax
  BY <1>1, <1>7 DEF SellerProceeds, EscrowConsumed, GrossValue
<1>9. QED
  BY <1>1, <1>6, <1>7, <1>8

(* The escrow a fill releases is the fill's share at the buyer's own limit,  *)
(* whatever the price it executed at.                                        *)
LEMMA ReleasedAtLimit ==
    ASSUME NEW limit \in Int, NEW price \in Int, NEW quantity \in Int
    PROVE  TotalEscrowReleased(limit, price, quantity) = limit * quantity
BY DEF TotalEscrowReleased, EscrowConsumed, BuyerRefund

(* A cancelled order holds nothing and needs nothing.                         *)
LEMMA ClosedExact ==
    ASSUME NEW order \in Order
    PROVE  /\ Closed(order) \in Order
           /\ HoldsWhatItOwes(Closed(order))
           /\ Closed(order).remaining = 0 /\ Closed(order).cancelled
           /\ SameTerms(Closed(order), order)
<1>1. \A a \in Order : [a EXCEPT !.escrow = 0] \in Order
  BY DEF Order
<1>2. \A a \in Order : [a EXCEPT !.reserved = 0] \in Order
  BY DEF Order
<1>3. \A a \in Order : [a EXCEPT !.remaining = 0] \in Order
  BY DEF Order
<1>4. \A a \in Order : [a EXCEPT !.cancelled = TRUE] \in Order
  BY DEF Order
<1>5. Closed(order) \in Order
  BY <1>1, <1>2, <1>3, <1>4 DEF Closed
<1>6. /\ Closed(order).escrow = 0 /\ Closed(order).reserved = 0
      /\ Closed(order).remaining = 0 /\ Closed(order).cancelled
      /\ SameTerms(Closed(order), order)
  BY DEF Closed, Order, SameTerms
<1>7. order.price * 0 = 0
  BY DEF Order
<1>8. QED
  BY <1>5, <1>6, <1>7 DEF HoldsWhatItOwes, EscrowRequired, GrossValue, SameTerms

(* A fill of no more than an order offers leaves it an order that holds      *)
(* exactly what its rest needs.                                              *)
LEMMA AfterFillExact ==
    ASSUME NEW order \in Order, HoldsWhatItOwes(order),
           NEW quantity \in 0 .. order.remaining, NEW price \in Int
    PROVE  /\ AfterFill(order, quantity, price) \in Order
           /\ HoldsWhatItOwes(AfterFill(order, quantity, price))
           /\ AfterFill(order, quantity, price).remaining = order.remaining - quantity
           /\ SameTerms(AfterFill(order, quantity, price), order)
           /\ AfterFill(order, quantity, price).cancelled = order.cancelled
<1> DEFINE filled == AfterFill(order, quantity, price)
<1>1. /\ order.remaining \in Nat /\ order.escrow \in Int /\ order.reserved \in Int
      /\ order.price \in Int /\ order.side \in Side
      /\ quantity \in Nat /\ quantity <= order.remaining
  BY DEF Order
<1>2. TotalEscrowReleased(order.price, price, quantity) = order.price * quantity
  <2>1. \A limit \in Int : TotalEscrowReleased(limit, price, quantity) = limit * quantity
    BY <1>1, ReleasedAtLimit
  <2>2. QED
    BY <1>1, <2>1
<1>3. order.price * (order.remaining - quantity) =
      order.price * order.remaining - order.price * quantity
  BY <1>1
<1>4. order.price * quantity \in Int
  BY <1>1
<1>5. filled \in Order
  <2>1. order.remaining - quantity \in Nat
    BY <1>1
  <2>2. order.escrow - order.price * quantity \in Int /\ order.reserved - quantity \in Int
    BY <1>1, <1>4
  <2>3. QED
    BY <2>1, <2>2, <1>2 DEF Order, AfterFill
<1>6. HoldsWhatItOwes(filled)
  <2>1. CASE order.side = "Buy"
    <3>1. order.escrow = order.price * order.remaining /\ order.reserved = 0
      BY <2>1 DEF HoldsWhatItOwes, EscrowRequired, GrossValue
    <3>2. /\ filled.side = "Buy" /\ filled.price = order.price
          /\ filled.remaining = order.remaining - quantity /\ filled.reserved = 0
          /\ filled.escrow = order.escrow - order.price * quantity
      BY <2>1, <3>1, <1>2 DEF Order, AfterFill
    <3>3. filled.escrow = filled.price * filled.remaining
      BY <3>1, <3>2, <1>3
    <3>4. QED
      BY <3>2, <3>3 DEF HoldsWhatItOwes, EscrowRequired, GrossValue
  <2>2. CASE order.side # "Buy"
    BY <1>1, <2>2 DEF Order, Side, AfterFill, HoldsWhatItOwes
  <2>3. QED
    BY <2>1, <2>2
<1>7. QED
  BY <1>1, <1>5, <1>6 DEF Order, AfterFill, SameTerms

--------------------------------------------------------------------------------
(* What a request's call is, once it has one.                                *)

LEMMA CallTyped ==
    ASSUME TypeOK, NEW r \in DOMAIN call
    PROVE  /\ call[r] \in Calls
           /\ call[r].char \in Characters
           /\ call[r].op \in {"place", "cancel"}
           /\ call[r].op = "place" =>
                  /\ call[r].side \in Side /\ call[r].goodFor \in Int
                  /\ call[r].price \in Nat /\ call[r].price # 0
                  /\ call[r].quantity \in Nat /\ call[r].quantity # 0
           /\ call[r].op = "cancel" => call[r].order \in Requests
<1>1. call[r] \in Calls
  BY DEF TypeOK, IsPartialFn
<1>2. call[r] \in PlaceCall \/ call[r] \in CancelCall
  BY <1>1, MarketTxnAssumption
<1>3. QED
  BY <1>1, <1>2 DEF PlaceCall, CancelCall

LEMMA CostsTyped ==
    ASSUME TypeOK, NEW r \in DOMAIN call, call[r].op = "place"
    PROVE  FeeOf(r) \in Int /\ EscrowOf(r) \in Int
<1>1. call[r].price \in Int /\ call[r].quantity \in Int
  BY CallTyped
<1>2. \A p \in Int, q \in Int : BrokerFee(p, q) \in Int /\ GrossValue(p, q) \in Int
  BY RatesAreIntegers
<1>3. BrokerFee(call[r].price, call[r].quantity) \in Int
  BY <1>1, <1>2
<1>4. GrossValue(call[r].price, call[r].quantity) \in Int
  BY <1>1, <1>2
<1>5. QED
  BY <1>3, <1>4 DEF FeeOf, EffectiveBrokerFee, EscrowOf, EscrowRequired

--------------------------------------------------------------------------------
(* Every step leaves every field in its type.                                *)

LEMMA NewOrderExact ==
    ASSUME TypeOK, NEW r \in DOMAIN call, call[r].op = "place"
    PROVE  NewOrder(r) \in Order /\ HoldsWhatItOwes(NewOrder(r))
<1>1. /\ call[r].char \in Characters /\ call[r].side \in Side /\ call[r].goodFor \in Int
      /\ call[r].price \in Nat \ {0} /\ call[r].quantity \in Nat \ {0}
  BY CallTyped
<1>2. EscrowOf(r) \in Int
  BY CostsTyped
<1>3. nextId \in Nat /\ clock + call[r].goodFor \in Int
  BY <1>1 DEF TypeOK
<1>4. NewOrder(r) \in Order
  BY <1>1, <1>2, <1>3 DEF NewOrder, Order
<1>5. HoldsWhatItOwes(NewOrder(r))
  BY <1>1 DEF NewOrder, HoldsWhatItOwes, EscrowOf, Side
<1>6. QED
  BY <1>4, <1>5

(* What a fill is: two orders that both have something left, the smaller of  *)
(* the two amounts, and both orders reduced by it.                           *)
LEMMA FillParties ==
    ASSUME TypeOK, ControlOK, NEW r \in Requests, NEW o \in Requests, Fill(r, o)
    PROVE  /\ r \in DOMAIN call /\ call[r].op = "place"
           /\ r \in DOMAIN entities[r] /\ o \in Others(r)
           /\ entities[r][r] \in Order /\ entities[r][o] \in Order
           /\ entities[r][r].remaining > 0 /\ entities[r][o].remaining > 0
<1>1. r \in DOMAIN call /\ call[r].op = "place" /\ r \in DOMAIN entities[r]
  BY DEF Fill, FillDue, ControlOK, ControlOf, Running
<1>2. o \in Others(r) /\ entities[r][o].remaining > 0 /\ entities[r][r].remaining > 0
  BY DEF Fill, FillDue, IsNext, Resting, Others
<1>3. entities[r][r] \in Order /\ entities[r][o] \in Order
  BY <1>1, <1>2 DEF TypeOK, IsPartialFn, Others
<1>4. QED
  BY <1>1, <1>2, <1>3

LEMMA FillAmount ==
    ASSUME TypeOK, ControlOK, NEW r \in Requests, NEW o \in Requests, Fill(r, o)
    PROVE  /\ FillQuantity(r, o) \in Nat /\ FillQuantity(r, o) > 0
           /\ FillQuantity(r, o) <= entities[r][r].remaining
           /\ FillQuantity(r, o) <= entities[r][o].remaining
           /\ \/ FillQuantity(r, o) = entities[r][r].remaining
              \/ FillQuantity(r, o) = entities[r][o].remaining
<1>1. /\ entities[r][r].remaining \in Nat /\ entities[r][o].remaining \in Nat
      /\ entities[r][r].remaining > 0 /\ entities[r][o].remaining > 0
  BY FillParties DEF Order
<1>2. QED
  BY <1>1 DEF FillQuantity, Min2

LEMMA FillEffect ==
    ASSUME TypeOK, ControlOK, NEW r \in Requests, NEW o \in Requests, Fill(r, o)
    PROVE  /\ DOMAIN entities' = Requests
           /\ entities'[r] = [entities[r] EXCEPT
                  ![r] = AfterFill(@, FillQuantity(r, o), entities[r][o].price),
                  ![o] = AfterFill(@, FillQuantity(r, o), entities[r][o].price)]
           /\ DOMAIN entities'[r] = DOMAIN entities[r]
           /\ entities'[r][r] =
                  AfterFill(entities[r][r], FillQuantity(r, o), entities[r][o].price)
           /\ entities'[r][o] =
                  AfterFill(entities[r][o], FillQuantity(r, o), entities[r][o].price)
           /\ \A p \in DOMAIN entities[r] : p \notin {r, o} => entities'[r][p] = entities[r][p]
           /\ \A q \in Requests : q # r => entities'[q] = entities[q]
<1>1. r \in DOMAIN entities[r] /\ o \in DOMAIN entities[r] /\ o # r
  BY FillParties DEF Others
<1>2. /\ DOMAIN entities' = Requests
      /\ entities'[r] = [entities[r] EXCEPT
             ![r] = AfterFill(@, FillQuantity(r, o), entities[r][o].price),
             ![o] = AfterFill(@, FillQuantity(r, o), entities[r][o].price)]
      /\ \A q \in Requests : q # r => entities'[q] = entities[q]
  BY <1>1 DEF Fill, TypeOK
<1>3. QED
  BY <1>1, <1>2

(* A fill changes the two orders it is between, each by the same quantity at *)
(* the candidate's price.                                                    *)
LEMMA FillParts ==
    ASSUME TypeOK, ControlOK, NEW r \in Requests, NEW o \in Requests, Fill(r, o)
    PROVE  /\ DOMAIN entities'[r] = DOMAIN entities[r]
           /\ entities'[r][r] =
                  AfterFill(entities[r][r], FillQuantity(r, o), entities[r][o].price)
           /\ entities'[r][o] =
                  AfterFill(entities[r][o], FillQuantity(r, o), entities[r][o].price)
           /\ \A p \in DOMAIN entities[r] : p \notin {r, o} => entities'[r][p] = entities[r][p]
<1>1. r \in DOMAIN entities[r] /\ o \in DOMAIN entities[r] /\ o # r
  BY FillParties DEF Others
<1>2. entities'[r] = [entities[r] EXCEPT
          ![r] = AfterFill(@, FillQuantity(r, o), entities[r][o].price),
          ![o] = AfterFill(@, FillQuantity(r, o), entities[r][o].price)]
  BY <1>1 DEF Fill, TypeOK
<1>3. QED
  BY <1>1, <1>2

LEMMA PaidTyped ==
    ASSUME NEW r, NEW o, NEW c,
           entities[r][r] \in Order, entities[r][o] \in Order, FillQuantity(r, o) \in Int
    PROVE  PaidByFill(r, o, c) \in Int
<1> DEFINE quantity == FillQuantity(r, o)
           price == entities[r][o].price
           limit == BuyerOf(r, o).price
<1>1. price \in Int /\ limit \in Int /\ quantity \in Int
  BY DEF Order, BuyerOf
<1>2. \A p \in Int, q \in Int : SalesTax(p, q) \in Int
  BY RatesAreIntegers
<1>3. SalesTax(price, quantity) \in Int
  BY <1>1, <1>2
<1>4. SellerProceeds(price, quantity) \in Int
  BY <1>1, <1>3 DEF SellerProceeds, EscrowConsumed
<1>5. BuyerRefund(limit, price, quantity) \in Int
  BY <1>1 DEF BuyerRefund
<1>6. QED
  BY <1>4, <1>5 DEF PaidByFill

LEMMA ChangeStackTyped ==
    ASSUME TypeOK, NEW r \in Requests, NEW c \in Characters, NEW n \in Nat,
           ChangeStack(r, c, n)
    PROVE  /\ DOMAIN stacks' = Requests
           /\ \A q \in Requests : IsPartialFn(stacks'[q], Characters, Stack)
<1>1. StackOf(r, c) \in Stack
  BY DEF StackOf, Stack, TypeOK, IsPartialFn
<1>2. [StackOf(r, c) EXCEPT !.now = @ + n] \in Stack
  BY <1>1 DEF Stack
<1>3. IsPartialFn(Put(stacks[r], c, [StackOf(r, c) EXCEPT !.now = @ + n]), Characters, Stack)
  BY <1>2, PutPartial DEF TypeOK
<1>4. QED
  BY <1>3 DEF ChangeStack, TypeOK

LEMMA RollbackTyped ==
    ASSUME TypeOK, NEW r \in Requests, Rollback(r)
    PROVE  TypeOK'
<1>1. /\ IsPartialFn(EmptyFn, Requests, Order) /\ IsPartialFn(EmptyFn, Characters, Stack)
  BY EmptyPartial
<1>2. IsPartialFn(call', Requests, Calls)
  BY DEF TypeOK, Rollback, IsPartialFn
<1>3. QED
  BY <1>1, <1>2 DEF TypeOK, Rollback, EndTransaction, GoTo, Released, dbVars, Steps

LEMMA TypeStep ==
    ASSUME TypeOK, ControlOK, CandidatesExist, CopiesExact, [Next]_vars
    PROVE  TypeOK'
<1> SUFFICES ASSUME Next PROVE TypeOK'
  BY DEF TypeOK, vars, dbVars, lockVars, txnVars
<1>1. ASSUME NEW r \in Requests, NEW c \in Calls, Resolve(r, c) PROVE TypeOK'
  <2>1. c.char \in Characters
    BY MarketTxnAssumption DEF PlaceCall, CancelCall
  <2>2. IsPartialFn(call', Requests, Calls)
    BY <1>1, PutPartial DEF Resolve, TypeOK
  <2>3. QED
    BY <1>1, <2>1, <2>2 DEF TypeOK, Resolve, GoTo, Steps, dbVars, lockVars, txnVars
<1>2. ASSUME NEW r \in Requests, LockCharacter(r) PROVE TypeOK'
  <2>1. r \in DOMAIN call
    BY <1>2 DEF LockCharacter, ControlOK, ControlOf, Running
  <2>2. call[r].char \in Characters
    BY <2>1, CallTyped
  <2>3. start' \in [Requests -> Nat]
    BY <1>2 DEF LockCharacter, TypeOK
  <2>4. QED
    BY <1>2, <2>2, <2>3 DEF TypeOK, LockCharacter, GoTo, Steps, dbVars, txnVars
<1>3. ASSUME NEW r \in Requests,
             \/ RefuseFunds(r) \/ RefuseGoods(r) \/ RefuseCancel(r)
             \/ FlushFails(r) \/ DeadlockVictim(r) \/ Disconnect(r)
      PROVE TypeOK'
  BY <1>3, RollbackTyped DEF RefuseFunds, RefuseGoods, RefuseCancel, FlushFails,
                             DeadlockVictim, Disconnect
<1>4. ASSUME NEW r \in Requests, ReserveGoods(r) PROVE TypeOK'
  <2>1. r \in DOMAIN call /\ DOMAIN stacks[r] = {} /\ call[r].op = "place"
    BY <1>4 DEF ReserveGoods, ControlOK, ControlOf, Running
  <2>2. call[r].char \in Characters /\ call[r].quantity \in Nat
    BY <2>1, CallTyped
  <2>3. hangar[call[r].char] \in Nat
    BY <2>2 DEF TypeOK
  <2>4. [StackOf(r, call[r].char) EXCEPT !.now = @ + (-call[r].quantity)] \in Stack
    BY <1>4, <2>1, <2>2, <2>3 DEF StackOf, Stack, ReserveGoods, HasGoods
  <2>5. IsPartialFn(stacks'[r], Characters, Stack) /\ DOMAIN stacks' = Requests
    BY <1>4, <2>2, <2>4, PutPartial DEF TypeOK, ReserveGoods, ChangeStack
  <2>6. \A s \in Requests : s # r => stacks'[s] = stacks[s]
    BY <1>4 DEF TypeOK, ReserveGoods, ChangeStack
  <2>7. QED
    BY <1>4, <2>5, <2>6 DEF TypeOK, ReserveGoods, GoTo, Steps, dbVars, lockVars
<1>5. ASSUME NEW r \in Requests, Scan(r) PROVE TypeOK'
  BY <1>5 DEF TypeOK, Scan, GoTo, Steps, dbVars, lockVars, IsPartialFn
<1>6. ASSUME NEW r \in Requests, NEW o \in Requests, LockCandidate(r, o) PROVE TypeOK'
  <2>1. o \in DOMAIN orders /\ orders[o] \in Order
    BY <1>6 DEF LockCandidate, TypeOK, IsPartialFn, CandidatesExist
  <2>2. IsPartialFn(Put(entities[r], o, orders[o]), Requests, Order)
    BY <2>1, PutPartial DEF TypeOK
  <2>3. /\ DOMAIN entities' = Requests
        /\ \A s \in Requests : IsPartialFn(entities'[s], Requests, Order)
    BY <1>6, <2>2 DEF TypeOK, LockCandidate
  <2>4. cand' \in [Requests -> SUBSET Requests]
    BY <1>6 DEF TypeOK, LockCandidate
  <2>5. QED
    BY <1>6, <2>3, <2>4 DEF TypeOK, LockCandidate, dbVars
<1>7. ASSUME NEW r \in Requests, InsertOrder(r) PROVE TypeOK'
  <2>1. r \in DOMAIN call /\ call[r].op = "place"
    BY <1>7 DEF InsertOrder, ControlOK, ControlOf, Running
  <2>2. NewOrder(r) \in Order
    BY <2>1, NewOrderExact
  <2>3. IsPartialFn(Put(entities[r], r, NewOrder(r)), Requests, Order)
    BY <2>2, PutPartial DEF TypeOK
  <2>4. /\ DOMAIN entities' = Requests
        /\ \A s \in Requests : IsPartialFn(entities'[s], Requests, Order)
    BY <1>7, <2>3 DEF TypeOK, InsertOrder
  <2>5. FeeOf(r) \in Int /\ EscrowOf(r) \in Int
    BY <2>1, CostsTyped
  <2>6. delta' \in [Requests -> [Characters -> Int]]
    <3> DEFINE c == call[r].char
    <3>1. c \in Characters
      BY <2>1, CallTyped
    <3>2. delta[r][c] - FeeOf(r) - EscrowOf(r) \in Int
      BY <2>5, <3>1 DEF TypeOK
    <3>3. [delta[r] EXCEPT ![c] = @ - FeeOf(r) - EscrowOf(r)] \in [Characters -> Int]
      BY <3>1, <3>2 DEF TypeOK
    <3>4. QED
      BY <1>7, <3>3 DEF TypeOK, InsertOrder
  <2>7. stackLock' \in [Characters -> Requests \cup {Nobody}] /\ nextId' \in Nat
    BY <1>7 DEF TypeOK, InsertOrder, WriteStacks
  <2>8. QED
    BY <1>7, <2>4, <2>6, <2>7 DEF TypeOK, InsertOrder, GoTo, Steps, dbVars
<1>8. ASSUME NEW r \in Requests, NEW o \in Requests, Fill(r, o) PROVE TypeOK'
  <2> DEFINE quantity == FillQuantity(r, o)
             price == entities[r][o].price
  <2>1. /\ entities[r][r] \in Order /\ entities[r][o] \in Order
        /\ quantity \in 0 .. entities[r][r].remaining
        /\ quantity \in 0 .. entities[r][o].remaining
        /\ r \in DOMAIN entities[r] /\ o \in DOMAIN entities[r] /\ r # o
    <3>1. entities[r][r] \in Order /\ entities[r][o] \in Order /\ quantity \in Nat
      BY <1>8, FillParties, FillAmount
    <3>2. quantity <= entities[r][r].remaining /\ quantity <= entities[r][o].remaining
      BY <1>8, FillAmount
    <3>3. r \in DOMAIN entities[r] /\ o \in Others(r)
      BY <1>8, FillParties
    <3>4. QED
      BY <3>1, <3>2, <3>3 DEF Order, Others
  <2>2. price \in Int /\ quantity \in Nat
    BY <2>1 DEF Order
  <2>3. AfterFill(entities[r][r], quantity, price) \in Order
    BY <2>1, <2>2, AfterFillExact DEF CopiesExact
  <2>4. AfterFill(entities[r][o], quantity, price) \in Order
    BY <2>1, <2>2, AfterFillExact DEF CopiesExact
  <2>5. /\ DOMAIN entities' = Requests
        /\ \A q \in Requests : IsPartialFn(entities'[q], Requests, Order)
    <3>1. IsPartialFn(entities'[r], Requests, Order)
      <4>1. [entities[r] EXCEPT ![r] = AfterFill(@, quantity, price),
                                ![o] = AfterFill(@, quantity, price)]
            \in [DOMAIN entities[r] -> Order]
        <5> HIDE DEF quantity, price
        <5>1. QED
          BY <2>1, <2>3, <2>4 DEF TypeOK, IsPartialFn
      <4>2. entities'[r] = [entities[r] EXCEPT ![r] = AfterFill(@, quantity, price),
                                               ![o] = AfterFill(@, quantity, price)]
        BY <1>8, FillEffect
      <4>3. QED
        BY <4>1, <4>2 DEF TypeOK, IsPartialFn
    <3>2. QED
      BY <1>8, <3>1, FillEffect DEF TypeOK
  <2>6. delta' \in [Requests -> [Characters -> Int]]
    <3>1. \A c \in Characters : PaidByFill(r, o, c) \in Int
      BY <1>8, <2>1, <2>2, PaidTyped, FillParties
    <3>2. [c \in Characters |-> delta[r][c] + PaidByFill(r, o, c)] \in [Characters -> Int]
      BY <3>1 DEF TypeOK
    <3>3. QED
      BY <1>8, <3>2 DEF Fill, TypeOK
  <2>7. /\ DOMAIN stacks' = Requests
        /\ \A q \in Requests : IsPartialFn(stacks'[q], Characters, Stack)
    <3>1. BuyerOf(r, o).char \in Characters
      BY <2>1 DEF BuyerOf, Order
    <3>2. QED
      BY <1>8, <2>2, <3>1, ChangeStackTyped DEF Fill
  <2>8. fills' \in [Requests -> [Requests -> Nat]]
    BY <1>8, <2>2 DEF Fill, TypeOK
  <2>9. charLock' \in [Characters -> Requests \cup {Nobody}]
    BY <1>8 DEF Fill, TypeOK
  <2>10. QED
    BY <1>8, <2>5, <2>6, <2>7, <2>8, <2>9 DEF TypeOK, Fill, GoTo, Steps, dbVars
<1>9. ASSUME NEW r \in Requests, Flush(r) PROVE TypeOK'
  BY <1>9 DEF TypeOK, Flush, WriteStacks, GoTo, Steps, dbVars, txnVars
<1>10. ASSUME NEW r \in Requests, Commit(r) PROVE TypeOK'
  <2>1. IsPartialFn(entities[r], Requests, Order) /\ IsPartialFn(stacks[r], Characters, Stack)
    BY DEF TypeOK
  <2>2. IsPartialFn(orders', Requests, Order)
    BY <1>10, <2>1 DEF TypeOK, Commit, IsPartialFn
  <2>3. balance' \in [Characters -> Int]
    BY <1>10 DEF TypeOK, Commit
  <2>4. hangar' \in [Characters -> Nat]
    BY <1>10, <2>1 DEF TypeOK, Commit, IsPartialFn, Stack
  <2>5. IsPartialFn(EmptyFn, Requests, Order) /\ IsPartialFn(EmptyFn, Characters, Stack)
    BY EmptyPartial
  <2>6. QED
    BY <1>10, <2>2, <2>3, <2>4, <2>5 DEF TypeOK, Commit, EndTransaction, GoTo, Released, Steps
<1>11. ASSUME NEW r \in Requests, LockOrder(r) PROVE TypeOK'
  <2>1. call[r].order \in DOMAIN orders
    BY <1>11 DEF LockOrder, Cancellable
  <2>2. call[r].order \in Requests /\ orders[call[r].order] \in Order
    BY <2>1 DEF TypeOK, IsPartialFn
  <2>3. IsPartialFn(Put(entities[r], call[r].order, orders[call[r].order]), Requests, Order)
    BY <2>2, PutPartial DEF TypeOK
  <2>4. /\ DOMAIN entities' = Requests
        /\ \A s \in Requests : IsPartialFn(entities'[s], Requests, Order)
    BY <1>11, <2>3 DEF TypeOK, LockOrder
  <2>5. QED
    BY <1>11, <2>2, <2>4 DEF TypeOK, LockOrder, GoTo, Steps, dbVars
<1>12. ASSUME NEW r \in Requests, Release(r) PROVE TypeOK'
  <2> DEFINE o == call[r].order
             order == entities[r][o]
             c == order.char
  <2>1. r \in DOMAIN call /\ o \in DOMAIN entities[r]
    BY <1>12 DEF Release, ControlOK, ControlOf, Running
  <2>2. order \in Order
    BY <2>1 DEF TypeOK, IsPartialFn
  <2>3. /\ c \in Characters /\ order.escrow \in Int /\ order.reserved \in Int
        /\ Closed(order) \in Order
    BY <2>2, ClosedExact DEF Order
  <2>4. /\ DOMAIN entities' = Requests
        /\ \A q \in Requests : IsPartialFn(entities'[q], Requests, Order)
    <3>1. IsPartialFn([entities[r] EXCEPT ![o] = Closed(order)], Requests, Order)
      BY <2>1, <2>3 DEF TypeOK, IsPartialFn
    <3>2. QED
      BY <1>12, <3>1 DEF Release, TypeOK
  <2>5. /\ DOMAIN stacks' = Requests
        /\ \A q \in Requests : IsPartialFn(stacks'[q], Characters, Stack)
    <3>1. CASE order.reserved > 0
      <4>1. order.reserved \in Nat
        BY <2>3, <3>1
      <4>2. ChangeStack(r, c, order.reserved)
        BY <1>12, <3>1 DEF Release
      <4>3. QED
        BY <2>3, <4>1, <4>2, ChangeStackTyped
    <3>2. CASE ~(order.reserved > 0)
      BY <1>12, <3>2 DEF Release, TypeOK
    <3>3. QED
      BY <3>1, <3>2
  <2>6. delta' \in [Requests -> [Characters -> Int]]
    <3>1. [delta[r] EXCEPT ![c] = @ + order.escrow] \in [Characters -> Int]
      BY <2>3 DEF TypeOK
    <3>2. delta' = delta \/ delta' = [delta EXCEPT ![r][c] = @ + order.escrow]
      BY <1>12 DEF Release
    <3>3. delta \in [Requests -> [Characters -> Int]]
      BY DEF TypeOK
    <3> HIDE DEF order, c, o
    <3>4. QED
      BY <3>1, <3>2, <3>3
  <2>7. charLock' \in [Characters -> Requests \cup {Nobody}]
    <3>1. charLock' = charLock \/ charLock' = [charLock EXCEPT ![c] = r]
      BY <1>12 DEF Release
    <3> HIDE DEF c
    <3> QED BY <3>1 DEF TypeOK
  <2>8. QED
    BY <1>12, <2>4, <2>5, <2>6, <2>7 DEF TypeOK, Release, GoTo, Steps, dbVars
<1>13. ASSUME Tick PROVE TypeOK'
  BY <1>13 DEF TypeOK, Tick, dbVars, lockVars, txnVars
<1>14. QED
  BY <1>1, <1>2, <1>3, <1>4, <1>5, <1>6, <1>7, <1>8, <1>9, <1>10, <1>11, <1>12, <1>13
     DEF Next, Step, PlaceStep, CancelStep

--------------------------------------------------------------------------------
(* Every step keeps a request's fields in step with where it is.             *)

(* A request's own place in the protocol is not disturbed by another's step, *)
(* as long as the other does not put this one's order on the book.           *)
LEMMA ControlKept ==
    ASSUME ControlOK, NEW q \in Requests,
           pc'[q] = pc[q], q \in DOMAIN call => q \in DOMAIN call' /\ call'[q] = call[q],
           entities'[q] = entities[q], stacks'[q] = stacks[q], fills'[q] = fills[q],
           q \in DOMAIN orders' => q \in DOMAIN orders
    PROVE  ControlOf(q)'
BY DEF ControlOK, ControlOf, Running

LEMMA RollbackControl ==
    ASSUME TypeOK, ControlOK, NEW r \in Requests, Running(r), Rollback(r)
    PROVE  ControlOK'
<1> SUFFICES ASSUME NEW q \in Requests PROVE ControlOf(q)'
  BY DEF ControlOK
<1>1. CASE q = r
  BY <1>1, EmptyPartial
     DEF TypeOK, ControlOK, ControlOf, Running, Rollback, EndTransaction, GoTo, dbVars
<1>2. CASE q # r
  BY <1>2, ControlKept DEF TypeOK, Rollback, EndTransaction, GoTo, dbVars
<1>3. QED
  BY <1>1, <1>2

LEMMA WaitingRuns ==
    ASSUME NEW r \in Requests, Deadlocked(r)
    PROVE  Running(r)
BY DEF Deadlocked, Stuck, WaitsFor, AtFlush, Running

LEMMA ControlStep ==
    ASSUME TypeOK, ControlOK, CandidatesExist, LockedCopies, [Next]_vars
    PROVE  ControlOK'
<1> SUFFICES ASSUME Next PROVE ControlOK'
  BY DEF ControlOK, ControlOf, Running, vars, dbVars, lockVars, txnVars
<1>1. ASSUME NEW r \in Requests, NEW c \in Calls, Resolve(r, c) PROVE ControlOK'
  <2> SUFFICES ASSUME NEW q \in Requests PROVE ControlOf(q)'
    BY DEF ControlOK
  <2>1. CASE q = r
    <3>1. c.op \in {"place", "cancel"}
      BY MarketTxnAssumption DEF PlaceCall, CancelCall
    <3>2. call'[r] = c /\ r \in DOMAIN call'
      BY <1>1 DEF Resolve, Put
    <3>3. pc[r] = "idle" /\ pc'[r] = IF c.op = "place" THEN "lockCharacter" ELSE "lockOrder"
      BY <1>1 DEF TypeOK, Resolve, GoTo
    <3>4. QED
      BY <1>1, <2>1, <3>1, <3>2, <3>3
         DEF ControlOK, ControlOf, Running, Resolve, dbVars, txnVars
  <2>2. CASE q # r
    BY <1>1, <2>2, ControlKept DEF TypeOK, Resolve, GoTo, Put, dbVars, txnVars
  <2>3. QED
    BY <2>1, <2>2
<1>2. ASSUME NEW r \in Requests, LockCharacter(r) PROVE ControlOK'
  <2> SUFFICES ASSUME NEW q \in Requests PROVE ControlOf(q)'
    BY DEF ControlOK
  <2>1. CASE q = r
    BY <1>2, <2>1 DEF TypeOK, ControlOK, ControlOf, Running, LockCharacter, GoTo, dbVars, txnVars
  <2>2. CASE q # r
    BY <1>2, <2>2, ControlKept DEF TypeOK, LockCharacter, GoTo, dbVars, txnVars
  <2>3. QED
    BY <2>1, <2>2
<1>3. ASSUME NEW r \in Requests, ReserveGoods(r) PROVE ControlOK'
  <2> SUFFICES ASSUME NEW q \in Requests PROVE ControlOf(q)'
    BY DEF ControlOK
  <2>1. CASE q = r
    BY <1>3, <2>1 DEF TypeOK, ControlOK, ControlOf, Running, ReserveGoods, GoTo, ChangeStack, dbVars, lockVars
  <2>2. CASE q # r
    BY <1>3, <2>2, ControlKept DEF TypeOK, ReserveGoods, GoTo, ChangeStack, dbVars, lockVars
  <2>3. QED
    BY <2>1, <2>2
<1>4. ASSUME NEW r \in Requests, Scan(r) PROVE ControlOK'
  <2> SUFFICES ASSUME NEW q \in Requests PROVE ControlOf(q)'
    BY DEF ControlOK
  <2>1. CASE q = r
    BY <1>4, <2>1 DEF TypeOK, ControlOK, ControlOf, Running, Scan, GoTo, dbVars, lockVars
  <2>2. CASE q # r
    BY <1>4, <2>2, ControlKept DEF TypeOK, Scan, GoTo, dbVars, lockVars
  <2>3. QED
    BY <2>1, <2>2
<1>5. ASSUME NEW r \in Requests, InsertOrder(r) PROVE ControlOK'
  <2> SUFFICES ASSUME NEW q \in Requests PROVE ControlOf(q)'
    BY DEF ControlOK
  <2>1. CASE q = r
    BY <1>5, <2>1 DEF TypeOK, ControlOK, ControlOf, Running, InsertOrder, GoTo, Put, dbVars
  <2>2. CASE q # r
    BY <1>5, <2>2, ControlKept DEF TypeOK, InsertOrder, GoTo, Put, dbVars
  <2>3. QED
    BY <2>1, <2>2
<1>6. ASSUME NEW r \in Requests, Flush(r) PROVE ControlOK'
  <2> SUFFICES ASSUME NEW q \in Requests PROVE ControlOf(q)'
    BY DEF ControlOK
  <2>1. CASE q = r
    BY <1>6, <2>1 DEF TypeOK, ControlOK, ControlOf, Running, Flush, GoTo, dbVars, txnVars
  <2>2. CASE q # r
    BY <1>6, <2>2, ControlKept DEF TypeOK, Flush, GoTo, dbVars, txnVars
  <2>3. QED
    BY <2>1, <2>2
<1>7. ASSUME NEW r \in Requests, LockOrder(r) PROVE ControlOK'
  <2> SUFFICES ASSUME NEW q \in Requests PROVE ControlOf(q)'
    BY DEF ControlOK
  <2>1. CASE q = r
    BY <1>7, <2>1 DEF TypeOK, ControlOK, ControlOf, Running, LockOrder, GoTo, Put, Cancellable, dbVars
  <2>2. CASE q # r
    BY <1>7, <2>2, ControlKept DEF TypeOK, LockOrder, GoTo, Put, Cancellable, dbVars
  <2>3. QED
    BY <2>1, <2>2
<1>8. ASSUME NEW r \in Requests, Release(r) PROVE ControlOK'
  <2> SUFFICES ASSUME NEW q \in Requests PROVE ControlOf(q)'
    BY DEF ControlOK
  <2>1. CASE q = r
    BY <1>8, <2>1 DEF TypeOK, ControlOK, ControlOf, Running, Release, GoTo, ChangeStack, dbVars
  <2>2. CASE q # r
    BY <1>8, <2>2, ControlKept DEF TypeOK, Release, GoTo, ChangeStack, dbVars
  <2>3. QED
    BY <2>1, <2>2
<1>9. ASSUME NEW r \in Requests, Commit(r) PROVE ControlOK'
  <2> SUFFICES ASSUME NEW q \in Requests PROVE ControlOf(q)'
    BY DEF ControlOK
  <2>1. CASE q = r
    BY <1>9, <2>1, EmptyPartial
       DEF TypeOK, ControlOK, ControlOf, Running, Commit, GoTo, EndTransaction
  <2>2. CASE q # r
    <3>1. q \in DOMAIN orders' => q \in DOMAIN orders
      BY <1>9, <2>2 DEF Commit, LockedCopies, LockedOf, Others
    <3>2. QED
      BY <1>9, <2>2, <3>1, ControlKept DEF TypeOK, Commit, GoTo, EndTransaction
  <2>3. QED
    BY <2>1, <2>2
<1>10. ASSUME NEW r \in Requests, NEW o \in Requests, LockCandidate(r, o) PROVE ControlOK'
  <2> SUFFICES ASSUME NEW q \in Requests PROVE ControlOf(q)'
    BY DEF ControlOK
  <2>1. CASE q = r
    <3>1. o # r
      BY <1>10 DEF ControlOK, ControlOf, CandidatesExist, LockCandidate
    <3>2. DOMAIN entities'[r] \subseteq DOMAIN entities[r] \cup {o}
      BY <1>10 DEF TypeOK, LockCandidate, Put
    <3>3. QED
      BY <1>10, <2>1, <3>1, <3>2 DEF ControlOK, ControlOf, Running, LockCandidate, dbVars
  <2>2. CASE q # r
    BY <1>10, <2>2, ControlKept DEF TypeOK, LockCandidate, GoTo, Put, dbVars
  <2>3. QED
    BY <2>1, <2>2
<1>11. ASSUME NEW r \in Requests, NEW o \in Requests, Fill(r, o) PROVE ControlOK'
  <2> SUFFICES ASSUME NEW q \in Requests PROVE ControlOf(q)'
    BY DEF ControlOK
  <2>1. CASE q = r
    <3>1. /\ r \in DOMAIN call /\ call[r].op = "place" /\ r \in DOMAIN entities[r]
          /\ DOMAIN entities'[r] = DOMAIN entities[r]
      BY <1>11, FillParties, FillEffect
    <3>2. pc[r] = "settle" /\ pc'[r] = "flush" /\ call' = call /\ orders' = orders
      BY <1>11 DEF TypeOK, Fill, GoTo, dbVars
    <3>3. QED
      BY <2>1, <3>1, <3>2 DEF ControlOK, ControlOf, Running
  <2>2. CASE q # r
    BY <1>11, <2>2, ControlKept DEF TypeOK, Fill, GoTo, ChangeStack, dbVars
  <2>3. QED
    BY <2>1, <2>2
<1>12. ASSUME NEW r \in Requests,
             \/ RefuseFunds(r) \/ RefuseGoods(r) \/ RefuseCancel(r)
             \/ FlushFails(r) \/ DeadlockVictim(r) \/ Disconnect(r)
      PROVE ControlOK'
  <2>1. Rollback(r)
    BY <1>12 DEF RefuseFunds, RefuseGoods, RefuseCancel, FlushFails, DeadlockVictim, Disconnect
  <2>2. Running(r)
    BY <1>12, WaitingRuns
       DEF RefuseFunds, RefuseGoods, RefuseCancel, FlushFails, DeadlockVictim, Disconnect,
           Running, AtFlush
  <2>3. QED
    BY <2>1, <2>2, RollbackControl
<1>13. ASSUME Tick PROVE ControlOK'
  BY <1>13 DEF ControlOK, ControlOf, Running, Tick, dbVars, lockVars, txnVars
<1>14. QED
  BY <1>1, <1>2, <1>3, <1>4, <1>5, <1>6, <1>7, <1>8, <1>9, <1>10, <1>11, <1>12, <1>13 DEF Next, Step, PlaceStep, CancelStep

LEMMA CandidatesStep ==
    ASSUME TypeOK, CandidatesExist, [Next]_vars
    PROVE  CandidatesExist'
<1>1. ASSUME NEW r \in Requests, Rollback(r) PROVE CandidatesExist'
  BY <1>1 DEF TypeOK, CandidatesExist, Rollback, EndTransaction, dbVars
<1>2. ASSUME NEW r \in Requests, Scan(r) PROVE CandidatesExist'
  BY <1>2 DEF TypeOK, CandidatesExist, Scan, dbVars
<1>3. ASSUME NEW r \in Requests, NEW o \in Requests, LockCandidate(r, o) PROVE CandidatesExist'
  BY <1>3 DEF TypeOK, CandidatesExist, LockCandidate, dbVars
<1>4. ASSUME NEW r \in Requests, Commit(r) PROVE CandidatesExist'
  <2>1. /\ \A q \in Requests : cand'[q] \subseteq cand[q]
        /\ DOMAIN orders \subseteq DOMAIN orders'
    BY <1>4 DEF TypeOK, Commit, EndTransaction
  <2>2. QED
    BY <2>1 DEF CandidatesExist
<1>5. ASSUME NEW r \in Requests,
             \/ \E c \in Calls : Resolve(r, c)
             \/ LockCharacter(r) \/ ReserveGoods(r) \/ InsertOrder(r) \/ Flush(r)
             \/ \E o \in Requests : Fill(r, o)
             \/ LockOrder(r) \/ Release(r)
      PROVE CandidatesExist'
  <2>1. UNCHANGED <<orders, cand>>
    BY <1>5 DEF Resolve, LockCharacter, ReserveGoods, InsertOrder, Flush, Fill, LockOrder,
                Release, dbVars, txnVars
  <2>2. QED
    BY <2>1 DEF CandidatesExist
<1>6. CASE Tick \/ UNCHANGED vars
  BY <1>6 DEF CandidatesExist, Tick, vars, dbVars, txnVars
<1>7. QED
  BY <1>1, <1>2, <1>3, <1>4, <1>5, <1>6
     DEF Next, Step, PlaceStep, CancelStep, RefuseFunds, RefuseGoods, RefuseCancel,
         FlushFails, DeadlockVictim, Disconnect

--------------------------------------------------------------------------------
(* Every step leaves every order, on the book or in a copy, holding exactly  *)
(* what its unfilled part needs.                                             *)

Quiet(r) ==
    \/ \E c \in Calls : Resolve(r, c)
    \/ LockCharacter(r) \/ ReserveGoods(r) \/ Scan(r) \/ Flush(r)

Ends(r) ==
    \/ RefuseFunds(r) \/ RefuseGoods(r) \/ RefuseCancel(r)
    \/ FlushFails(r) \/ DeadlockVictim(r) \/ Disconnect(r)

(* The steps, sorted by what they do to the book and to the copies.          *)
LEMMA StepsSorted ==
    ASSUME [Next]_vars
    PROVE  \/ \E r \in Requests : \/ Quiet(r)
                                  \/ Ends(r)
                                  \/ \E o \in Requests : LockCandidate(r, o)
                                  \/ InsertOrder(r)
                                  \/ \E o \in Requests : Fill(r, o)
                                  \/ Commit(r)
                                  \/ LockOrder(r)
                                  \/ Release(r)
           \/ Tick \/ UNCHANGED vars
BY DEF Next, Step, PlaceStep, CancelStep, Quiet, Ends

LEMMA QuietFacts ==
    ASSUME NEW r \in Requests, Quiet(r)
    PROVE  UNCHANGED <<orders, orderLock, entities, fills, nextId>>
BY DEF Quiet, Resolve, LockCharacter, ReserveGoods, Scan, Flush, dbVars, lockVars, txnVars

LEMMA EndsFacts ==
    ASSUME NEW r \in Requests, Ends(r)
    PROVE  Rollback(r)
BY DEF Ends, RefuseFunds, RefuseGoods, RefuseCancel, FlushFails, DeadlockVictim, Disconnect

(* A request that ends, committed or not, is done and holds no entity.       *)
LEMMA EndsDone ==
    ASSUME TypeOK, NEW r \in Requests, Ends(r) \/ Commit(r)
    PROVE  entities'[r] = EmptyFn /\ pc'[r] = "done" /\ nextId' = nextId
<1>1. EndTransaction(r)
  BY EndsFacts DEF Rollback, Commit
<1>2. DOMAIN entities = Requests /\ DOMAIN pc = Requests
  BY DEF TypeOK
<1>3. QED
  BY <1>1, <1>2 DEF EndTransaction, GoTo

LEMMA IdleFacts ==
    ASSUME Tick \/ UNCHANGED vars
    PROVE  UNCHANGED <<orders, orderLock, entities, fills, nextId, pc, call>>
BY DEF Tick, vars, dbVars, lockVars, txnVars

LEMMA ExactStep ==
    ASSUME TypeOK, ControlOK, CandidatesExist, CommitmentsExact, CopiesExact, [Next]_vars
    PROVE  CommitmentsExact' /\ CopiesExact'
<1>1. ASSUME UNCHANGED <<orders, entities>> PROVE CommitmentsExact' /\ CopiesExact'
  BY <1>1 DEF CommitmentsExact, CopiesExact
<1>2. ASSUME NEW r \in Requests, Ends(r) PROVE CommitmentsExact' /\ CopiesExact'
  <2>1. Rollback(r)
    BY <1>2, EndsFacts
  <2>2. /\ orders' = orders /\ DOMAIN entities'[r] = {}
        /\ \A q \in Requests \ {r} : entities'[q] = entities[q]
    BY <2>1, EmptyPartial DEF TypeOK, Rollback, EndTransaction, dbVars
  <2>3. QED
    BY <2>2 DEF CommitmentsExact, CopiesExact
<1>3. ASSUME NEW r \in Requests, NEW o \in Requests, LockCandidate(r, o)
      PROVE CommitmentsExact' /\ CopiesExact'
  <2>1. o \in DOMAIN orders /\ orders' = orders
    BY <1>3 DEF LockCandidate, CandidatesExist, dbVars
  <2>2. \A p \in DOMAIN entities'[r] :
            entities'[r][p] = orders[o] \/ (p \in DOMAIN entities[r] /\ entities'[r][p] = entities[r][p])
    BY <1>3 DEF LockCandidate, TypeOK, Put
  <2>3. \A q \in Requests \ {r} : entities'[q] = entities[q]
    BY <1>3 DEF LockCandidate, TypeOK
  <2>4. QED
    BY <2>1, <2>2, <2>3 DEF CommitmentsExact, CopiesExact
<1>4. ASSUME NEW r \in Requests, InsertOrder(r) PROVE CommitmentsExact' /\ CopiesExact'
  <2>1. r \in DOMAIN call /\ call[r].op = "place"
    BY <1>4 DEF InsertOrder, ControlOK, ControlOf, Running
  <2>2. HoldsWhatItOwes(NewOrder(r))
    BY <2>1, NewOrderExact
  <2>3. \A p \in DOMAIN entities'[r] :
            entities'[r][p] = NewOrder(r) \/ (p \in DOMAIN entities[r] /\ entities'[r][p] = entities[r][p])
    BY <1>4 DEF InsertOrder, TypeOK, Put
  <2>4. orders' = orders /\ \A q \in Requests \ {r} : entities'[q] = entities[q]
    BY <1>4 DEF InsertOrder, TypeOK, dbVars
  <2>5. QED
    BY <2>2, <2>3, <2>4 DEF CommitmentsExact, CopiesExact
<1>5. ASSUME NEW r \in Requests, NEW o \in Requests, Fill(r, o)
      PROVE CommitmentsExact' /\ CopiesExact'
  <2> DEFINE quantity == FillQuantity(r, o)
             price == entities[r][o].price
  <2>1. /\ entities[r][r] \in Order /\ entities[r][o] \in Order
        /\ r \in DOMAIN entities[r] /\ o \in DOMAIN entities[r]
    BY <1>5, FillParties DEF Others
  <2>2. quantity \in Nat /\ quantity <= entities[r][r].remaining /\ quantity <= entities[r][o].remaining
    BY <1>5, FillAmount
  <2>3. price \in Int /\ quantity \in 0 .. entities[r][r].remaining /\ quantity \in 0 .. entities[r][o].remaining
    BY <2>1, <2>2 DEF Order
  <2>4. HoldsWhatItOwes(AfterFill(entities[r][r], quantity, price))
    BY <2>1, <2>3, AfterFillExact DEF CopiesExact
  <2>5. HoldsWhatItOwes(AfterFill(entities[r][o], quantity, price))
    BY <2>1, <2>3, AfterFillExact DEF CopiesExact
  <2>6. HoldsWhatItOwes(entities'[r][r]) /\ HoldsWhatItOwes(entities'[r][o])
    BY <1>5, <2>4, <2>5, FillEffect
  <2>7. /\ DOMAIN entities'[r] = DOMAIN entities[r]
        /\ \A p \in DOMAIN entities[r] : p \notin {r, o} => entities'[r][p] = entities[r][p]
        /\ \A q \in Requests : q # r => entities'[q] = entities[q]
    BY <1>5, FillEffect
  <2>8. orders' = orders
    BY <1>5 DEF Fill, dbVars
  <2> HIDE DEF quantity, price
  <2>9. QED
    BY <2>6, <2>7, <2>8 DEF CommitmentsExact, CopiesExact
<1>6. ASSUME NEW r \in Requests, Commit(r) PROVE CommitmentsExact' /\ CopiesExact'
  <2>1. /\ DOMAIN entities'[r] = {}
        /\ \A q \in Requests \ {r} : entities'[q] = entities[q]
    BY <1>6, EmptyPartial DEF TypeOK, Commit, EndTransaction
  <2>2. \A o \in DOMAIN orders' : \/ o \in DOMAIN entities[r] /\ orders'[o] = entities[r][o]
                                  \/ o \in DOMAIN orders /\ orders'[o] = orders[o]
    BY <1>6 DEF Commit
  <2>3. QED
    BY <2>1, <2>2 DEF CommitmentsExact, CopiesExact
<1>7. ASSUME NEW r \in Requests, LockOrder(r) PROVE CommitmentsExact' /\ CopiesExact'
  <2>1. call[r].order \in DOMAIN orders /\ orders' = orders
    BY <1>7 DEF LockOrder, Cancellable, dbVars
  <2>2. \A p \in DOMAIN entities'[r] :
            \/ entities'[r][p] = orders[call[r].order]
            \/ p \in DOMAIN entities[r] /\ entities'[r][p] = entities[r][p]
    BY <1>7 DEF LockOrder, TypeOK, Put
  <2>3. \A q \in Requests \ {r} : entities'[q] = entities[q]
    BY <1>7 DEF LockOrder, TypeOK
  <2>4. QED
    BY <2>1, <2>2, <2>3 DEF CommitmentsExact, CopiesExact
<1>8. ASSUME NEW r \in Requests, Release(r) PROVE CommitmentsExact' /\ CopiesExact'
  <2> DEFINE o == call[r].order
  <2>1. o \in DOMAIN entities[r] /\ entities[r][o] \in Order
    BY <1>8 DEF Release, ControlOK, ControlOf, TypeOK, IsPartialFn
  <2>2. HoldsWhatItOwes(Closed(entities[r][o]))
    BY <2>1, ClosedExact
  <2>3. /\ orders' = orders
        /\ entities'[r] = [entities[r] EXCEPT ![o] = Closed(entities[r][o])]
        /\ \A q \in Requests \ {r} : entities'[q] = entities[q]
    BY <1>8 DEF Release, TypeOK, dbVars
  <2>4. QED
    BY <2>2, <2>3 DEF CommitmentsExact, CopiesExact
<1>9. QED
  BY <1>1, <1>2, <1>3, <1>4, <1>5, <1>6, <1>7, <1>8, StepsSorted, QuietFacts, IdleFacts

--------------------------------------------------------------------------------
(* Every step leaves each tracked resting order locked and its row as the    *)
(* request last saw it, less the request's own fill.                         *)

LEMMA LocksKept ==
    ASSUME ControlOK, LockedCopies, FilledOnce, NEW q \in Requests,
           entities'[q] = entities[q], fills'[q] = fills[q], pc'[q] = pc[q],
           q \in DOMAIN call => call'[q] = call[q],
           \A o \in Others(q) : /\ o \in DOMAIN orders' /\ orders'[o] = orders[o]
                                /\ orderLock'[o] = orderLock[o]
    PROVE  LockedOf(q)' /\ FilledOf(q)'
<1>1. Others(q)' = Others(q)
  BY DEF Others
<1>2. FilledOf(q)'
  BY <1>1 DEF FilledOnce, FilledOf, Running
<1>3. Others(q) # {} => call'[q] = call[q]
  BY DEF Others, ControlOK, ControlOf
<1>4. LockedOf(q)'
  BY <1>1, <1>3 DEF LockedCopies, LockedOf
<1>5. QED
  BY <1>2, <1>4

(* A step of r leaves every other request's copies and fills alone, its lock *)
(* too, and changes on the book only what r tracks.                          *)
LEMMA OthersLocked ==
    ASSUME TypeOK, ControlOK, CandidatesExist, LockedCopies, NEW r \in Requests, NEW q \in Requests, q # r,
           \/ \E c \in Calls : Resolve(r, c)
           \/ Step(r) \/ Disconnect(r)
    PROVE  /\ entities'[q] = entities[q] /\ fills'[q] = fills[q] /\ pc'[q] = pc[q]
           /\ q \in DOMAIN call => call'[q] = call[q]
           /\ \A o \in Others(q) : /\ o \in DOMAIN orders' /\ orders'[o] = orders[o]
                                   /\ orderLock'[o] = orderLock[o]
<1> USE DEF TypeOK, GoTo, dbVars, lockVars, txnVars
<1>1. q # Nobody /\ r # Nobody
  BY MarketTxnAssumption DEF Nobody
<1>2. \A o \in Others(q) : o \in DOMAIN orders /\ orderLock[o] = q /\ o \in Requests
  BY DEF LockedCopies, LockedOf, IsPartialFn
<1>3. CASE Rollback(r)
  BY <1>1, <1>2, <1>3 DEF Rollback, EndTransaction, Released
<1>4. CASE \E c \in Calls : Resolve(r, c)
  BY <1>2, <1>4 DEF Resolve, Put
<1>5. CASE LockCharacter(r) \/ ReserveGoods(r) \/ Scan(r) \/ Flush(r) \/ InsertOrder(r)
  BY <1>2, <1>5 DEF LockCharacter, ReserveGoods, Scan, Flush, InsertOrder
<1>6. CASE (\E o \in Requests : LockCandidate(r, o)) \/ LockOrder(r)
  BY <1>1, <1>2, <1>6 DEF LockCandidate, LockOrder, CanLockOrder
<1>7. CASE (\E o \in Requests : Fill(r, o)) \/ Release(r)
  <2>1. /\ orders' = orders /\ orderLock' = orderLock /\ call' = call
        /\ pc'[q] = pc[q] /\ fills'[q] = fills[q]
    <3>1. CASE \E o \in Requests : Fill(r, o)
      BY <3>1 DEF Fill
    <3>2. CASE Release(r)
      BY <3>2 DEF Release
    <3>3. QED
      BY <1>7, <3>1, <3>2
  <2>2. entities'[q] = entities[q]
    BY <1>7 DEF Fill, Release
  <2>3. QED
    BY <1>2, <2>1, <2>2
<1>8. CASE Commit(r)
  <2>1. \A o \in Others(q) : o \notin DOMAIN entities[r]
    BY <1>2, <1>8 DEF LockedCopies, LockedOf, Others, ControlOK, ControlOf, Commit
  <2>2. QED
    BY <1>1, <1>2, <1>8, <2>1 DEF Commit, EndTransaction, Released
<1>9. QED
  BY <1>3, <1>4, <1>5, <1>6, <1>7, <1>8, EndsFacts DEF Ends, Step, PlaceStep, CancelStep

LEMMA LocksStep ==
    ASSUME TypeOK, ControlOK, CandidatesExist, CopiesExact, LockedCopies, FilledOnce, [Next]_vars
    PROVE  LockedCopies' /\ FilledOnce'
<1>1. ASSUME Tick \/ UNCHANGED vars PROVE LockedCopies' /\ FilledOnce'
  BY <1>1, IdleFacts DEF LockedCopies, LockedOf, FilledOnce, FilledOf, Running, Others
<1>2. SUFFICES ASSUME NEW r \in Requests,
                      \/ \E c \in Calls : Resolve(r, c)
                      \/ Step(r) \/ Disconnect(r)
               PROVE  LockedOf(r)' /\ FilledOf(r)'
  BY <1>1, LocksKept, OthersLocked DEF Next, LockedCopies, FilledOnce
<1>3. ASSUME Ends(r) PROVE LockedOf(r)' /\ FilledOf(r)'
  <2>1. Rollback(r)
    BY <1>3, EndsFacts
  <2>2. DOMAIN entities'[r] = {} /\ \A o \in Requests : fills'[r][o] = 0
    BY <2>1, EmptyPartial DEF TypeOK, Rollback, EndTransaction
  <2>3. QED
    BY <2>2 DEF LockedOf, FilledOf, Others
<1>4. ASSUME Quiet(r) PROVE LockedOf(r)' /\ FilledOf(r)'
  <2>1. UNCHANGED <<orders, orderLock, entities, fills>>
    BY <1>4, QuietFacts
  <2>2. CASE \E c \in Calls : Resolve(r, c)
    <3>1. Others(r) = {} /\ \A o \in Requests : fills[r][o] = 0
      BY <2>2 DEF Resolve, ControlOK, ControlOf, Running, Others
    <3>2. QED
      BY <2>1, <3>1 DEF LockedOf, FilledOf, Others
  <2>3. CASE ~\E c \in Calls : Resolve(r, c)
    <3>1. Running(r) /\ call' = call /\ pc[r] # "release" /\ pc'[r] # "release"
      BY <1>4, <2>3 DEF Quiet, LockCharacter, ReserveGoods, Scan, Flush, Running, GoTo, TypeOK
    <3>2. QED
      BY <2>1, <3>1 DEF LockedCopies, LockedOf, FilledOnce, FilledOf, Others
  <2>4. QED
    BY <2>2, <2>3
<1>5. ASSUME NEW o \in Requests, LockCandidate(r, o) PROVE LockedOf(r)' /\ FilledOf(r)'
  <2>1. /\ call' = call /\ fills' = fills /\ orders' = orders /\ pc' = pc
        /\ pc[r] = "lockOrders" /\ o \in DOMAIN orders /\ call[r].op = "place"
        /\ \A p \in Requests : fills[r][p] = 0
    BY <1>5 DEF LockCandidate, CandidatesExist, ControlOK, ControlOf, dbVars
  <2>2. orderLock' = [orderLock EXCEPT ![o] = r]
    BY <1>5 DEF LockCandidate
  <2>3. entities'[r] = IF Candidate(r, o) THEN Put(entities[r], o, orders[o]) ELSE entities[r]
    BY <1>5 DEF LockCandidate, TypeOK
  <2>4. orders[o] \in Order
    BY <2>1 DEF TypeOK, IsPartialFn
  <2>5. LockedOf(r)'
    <3>1. SUFFICES ASSUME NEW p \in Others(r)' PROVE
              /\ p \in DOMAIN orders /\ orderLock'[p] = r
              /\ SameTerms(entities'[r][p], orders[p]) /\ ~orders[p].cancelled
              /\ ~entities'[r][p].cancelled
              /\ orders[p].remaining = entities'[r][p].remaining
              /\ orders[p].remaining > 0
      BY <2>1 DEF LockedOf, Order, TypeOK, IsPartialFn
    <3>2. CASE p \in Others(r) /\ entities'[r][p] = entities[r][p]
      <4>1. p \in Requests /\ entities[r][p].remaining \in Nat /\ fills[r][p] = 0
        BY <2>1, <3>2 DEF TypeOK, IsPartialFn, Order, Others
      <4>2. orderLock'[p] = r
        BY <2>2, <3>2, <4>1 DEF LockedCopies, LockedOf, TypeOK
      <4>3. QED
        BY <2>1, <3>2, <4>1, <4>2 DEF LockedCopies, LockedOf
    <3>3. CASE p = o /\ entities'[r][p] = orders[o] /\ Candidate(r, o)
      BY <2>1, <2>2, <3>3 DEF Candidate, SameTerms, TypeOK
    <3>4. QED
      BY <2>3, <3>2, <3>3 DEF Others, Put
  <2>6. QED
    BY <2>1, <2>5 DEF FilledOf
<1>6. ASSUME InsertOrder(r) PROVE LockedOf(r)' /\ FilledOf(r)'
  <2>1. /\ call' = call /\ fills' = fills /\ orders' = orders /\ orderLock' = orderLock
        /\ pc[r] = "lockOrders" /\ call[r].op = "place"
        /\ \A p \in Requests : fills[r][p] = 0
    BY <1>6 DEF InsertOrder, ControlOK, ControlOf, dbVars
  <2>2. entities'[r] = Put(entities[r], r, NewOrder(r))
    BY <1>6 DEF InsertOrder, TypeOK
  <2>3. Others(r)' = Others(r) /\ \A p \in Others(r) : entities'[r][p] = entities[r][p]
    BY <2>2 DEF Others, Put
  <2>4. LockedOf(r)'
    BY <2>1, <2>3 DEF LockedCopies, LockedOf
  <2>5. QED
    BY <2>1, <2>4 DEF FilledOf
<1>7. ASSUME NEW o \in Requests, Fill(r, o) PROVE LockedOf(r)' /\ FilledOf(r)'
  <2> DEFINE quantity == FillQuantity(r, o)
             price == entities[r][o].price
  <2>1. /\ o \in Others(r) /\ r \in DOMAIN entities[r] /\ call[r].op = "place"
        /\ entities[r][r] \in Order /\ entities[r][o] \in Order
    BY <1>7, FillParties
  <2>2. /\ quantity \in Nat /\ quantity > 0
        /\ quantity <= entities[r][r].remaining /\ quantity <= entities[r][o].remaining
        /\ quantity = entities[r][r].remaining \/ quantity = entities[r][o].remaining
    <3>1. quantity \in Nat /\ quantity > 0
      BY <1>7, FillAmount
    <3>2. quantity <= entities[r][r].remaining /\ quantity <= entities[r][o].remaining
      BY <1>7, FillAmount
    <3>3. quantity = entities[r][r].remaining \/ quantity = entities[r][o].remaining
      BY <1>7, FillAmount
    <3>4. QED
      BY <3>1, <3>2, <3>3
  <2>3. /\ price \in Int /\ entities[r][r].remaining \in Nat /\ entities[r][o].remaining \in Nat
        /\ quantity \in 0 .. entities[r][r].remaining /\ quantity \in 0 .. entities[r][o].remaining
    BY <2>1, <2>2 DEF Order
  <2>4. /\ entities'[r][o] = AfterFill(entities[r][o], quantity, price)
        /\ entities'[r][r] = AfterFill(entities[r][r], quantity, price)
    <3>1. entities'[r][o] = AfterFill(entities[r][o], quantity, price)
      BY <1>7, FillEffect
    <3>2. entities'[r][r] = AfterFill(entities[r][r], quantity, price)
      BY <1>7, FillEffect
    <3>3. QED
      BY <3>1, <3>2
  <2>5. /\ DOMAIN entities'[r] = DOMAIN entities[r]
        /\ \A p \in DOMAIN entities[r] : p \notin {r, o} => entities'[r][p] = entities[r][p]
    BY <1>7, FillEffect
  <2>6. /\ entities'[r][o].remaining = entities[r][o].remaining - quantity
        /\ SameTerms(entities'[r][o], entities[r][o])
        /\ entities'[r][o].cancelled = entities[r][o].cancelled
    BY <2>1, <2>3, <2>4, AfterFillExact DEF CopiesExact, Others
  <2>7. entities'[r][r].remaining = entities[r][r].remaining - quantity
    BY <2>1, <2>3, <2>4, AfterFillExact DEF CopiesExact
  <2>8. /\ call' = call /\ orders' = orders /\ orderLock' = orderLock
        /\ pc[r] = "settle" /\ pc'[r] = "flush"
        /\ fills' = [fills EXCEPT ![r][o] = quantity]
    BY <1>7 DEF Fill, GoTo, TypeOK, dbVars
  <2>9. Others(r)' = Others(r) /\ Running(r) /\ Running(r)'
    BY <2>5, <2>8 DEF Others, Running
  <2>10. fills[r][o] = 0
    BY <2>2, <2>3, <2>9 DEF FilledOnce, FilledOf
  <2>11. fills'[r][o] = quantity /\ \A p \in Requests : p # o => fills'[r][p] = fills[r][p]
    BY <2>8 DEF TypeOK
  <2> HIDE DEF quantity, price
  <2>12. LockedOf(r)'
    <3>1. SUFFICES ASSUME NEW p \in Others(r) PROVE
              /\ p \in DOMAIN orders /\ orderLock[p] = r
              /\ SameTerms(entities'[r][p], orders[p]) /\ ~orders[p].cancelled
              /\ ~entities'[r][p].cancelled
              /\ orders[p].remaining = entities'[r][p].remaining + fills'[r][p]
              /\ orders[p].remaining > 0
      BY <2>1, <2>8, <2>9 DEF LockedOf
    <3>2. CASE p = o
      BY <2>1, <2>2, <2>3, <2>6, <2>10, <2>11, <3>2 DEF LockedCopies, LockedOf, SameTerms
    <3>3. CASE p # o
      <4>1. p \in Requests /\ entities'[r][p] = entities[r][p] /\ fills'[r][p] = fills[r][p]
        BY <2>5, <2>11, <3>3 DEF Others, TypeOK, IsPartialFn
      <4>2. QED
        BY <2>1, <4>1 DEF LockedCopies, LockedOf
    <3>4. QED
      BY <3>2, <3>3
  <2>13. FilledOf(r)'
    <3>1. SUFFICES ASSUME NEW p \in Requests, fills'[r][p] # 0 PROVE
              /\ p \in Others(r)
              /\ entities'[r][p].remaining = 0 \/ entities'[r][r].remaining = 0
      BY <2>1, <2>5, <2>9 DEF FilledOf
    <3>2. CASE p = o
      BY <2>1, <2>2, <2>3, <2>6, <2>7, <3>2
    <3>3. CASE p # o
      <4>1. /\ p \in Others(r)
            /\ entities[r][p].remaining = 0 \/ entities[r][r].remaining = 0
        BY <2>9, <2>11, <3>1, <3>3 DEF FilledOnce, FilledOf
      <4>2. entities'[r][p] = entities[r][p]
        BY <2>5, <3>3, <4>1 DEF Others
      <4>3. QED
        BY <2>2, <2>3, <4>1, <4>2
    <3>4. QED
      BY <3>2, <3>3
  <2>14. QED
    BY <2>12, <2>13
<1>8. ASSUME Commit(r) PROVE LockedOf(r)' /\ FilledOf(r)'
  <2>1. DOMAIN entities'[r] = {} /\ pc'[r] = "done"
    BY <1>8, EmptyPartial DEF TypeOK, Commit, EndTransaction, GoTo
  <2>2. QED
    BY <2>1 DEF LockedOf, FilledOf, Others, Running
<1>9. ASSUME LockOrder(r) PROVE LockedOf(r)' /\ FilledOf(r)'
  <2> DEFINE o == call[r].order
  <2>1. /\ call' = call /\ fills' = fills /\ orders' = orders
        /\ pc[r] = "lockOrder" /\ pc'[r] = "release" /\ call[r].op = "cancel"
        /\ DOMAIN entities[r] = {}
        /\ o \in DOMAIN orders /\ ~orders[o].cancelled
    BY <1>9 DEF LockOrder, Cancellable, ControlOK, ControlOf, TypeOK, GoTo, dbVars
  <2>2. orderLock'[o] = r
    BY <1>9, <2>1 DEF LockOrder, TypeOK, IsPartialFn
  <2>3. DOMAIN entities'[r] = {o} /\ entities'[r][o] = orders[o]
    BY <1>9, <2>1 DEF LockOrder, TypeOK, Put
  <2>4. LockedOf(r)'
    BY <2>1, <2>2, <2>3 DEF LockedOf, Others, SameTerms
  <2>5. \A p \in Requests : fills[r][p] = 0
    BY <2>1 DEF ControlOK, ControlOf, Running
  <2>6. QED
    BY <2>1, <2>4, <2>5 DEF FilledOf
<1>10. ASSUME Release(r) PROVE LockedOf(r)' /\ FilledOf(r)'
  <2> DEFINE o == call[r].order
  <2>1. /\ call' = call /\ fills' = fills /\ orders' = orders /\ orderLock' = orderLock
        /\ pc[r] = "release" /\ pc'[r] # "release" /\ call[r].op = "cancel"
        /\ Others(r) = {o} /\ entities[r][o] = orders[o]
        /\ \A p \in Requests : fills[r][p] = 0
    <3>1. /\ call' = call /\ fills' = fills /\ orders' = orders /\ orderLock' = orderLock
          /\ pc[r] = "release" /\ pc'[r] # "release"
      BY <1>10 DEF Release, TypeOK, GoTo, dbVars
    <3>2. /\ call[r].op = "cancel" /\ Others(r) = {o}
          /\ \A p \in Requests : fills[r][p] = 0
      BY <3>1 DEF ControlOK, ControlOf, Others, Running
    <3>3. QED
      BY <3>1, <3>2 DEF LockedCopies, LockedOf
  <2>2. entities'[r] = [entities[r] EXCEPT ![o] = Closed(entities[r][o])]
    BY <1>10 DEF Release, TypeOK
  <2>3. Others(r)' = {o} /\ entities'[r][o] = Closed(orders[o])
    BY <2>1, <2>2 DEF Others
  <2>4. o \in DOMAIN orders /\ orderLock[o] = r /\ ~orders[o].cancelled
    BY <2>1 DEF LockedCopies, LockedOf
  <2>5. SameTerms(Closed(orders[o]), orders[o])
    BY <2>4, ClosedExact DEF TypeOK, IsPartialFn
  <2>6. LockedOf(r)'
    BY <2>1, <2>3, <2>4, <2>5 DEF LockedOf
  <2>7. QED
    BY <2>1, <2>6 DEF FilledOf
<1>11. QED
  BY <1>2, <1>3, <1>4, <1>5, <1>6, <1>7, <1>8, <1>9, <1>10
     DEF Quiet, Ends, Step, PlaceStep, CancelStep

--------------------------------------------------------------------------------
(* Every step keeps a taker matched with what it agreed to.                  *)

LEMMA BookChanges ==
    ASSUME [Next]_vars
    PROVE  orders' = orders \/ \E r \in Requests : Commit(r)
<1>1. \A r \in Requests : Ends(r) => orders' = orders
  BY EndsFacts DEF Rollback, dbVars
<1>2. \A r \in Requests : LockOrder(r) \/ Release(r) \/ InsertOrder(r) => orders' = orders
  BY DEF LockOrder, Release, InsertOrder, dbVars
<1>3. \A r, o \in Requests : LockCandidate(r, o) \/ Fill(r, o) => orders' = orders
  BY DEF LockCandidate, Fill, dbVars
<1>4. QED
  BY <1>1, <1>2, <1>3, StepsSorted, QuietFacts, IdleFacts

(* What a step does to the book: rows are added by the commit of the request *)
(* they are named for, and keep their terms afterwards.                      *)
LEMMA TermsKept ==
    ASSUME TypeOK, ControlOK, CandidatesExist, LockedCopies, [Next]_vars
    PROVE  /\ \A o \in DOMAIN orders : o \in DOMAIN orders' /\ SameTerms(orders'[o], orders[o])
           /\ \A o \in DOMAIN orders' \ DOMAIN orders :
                  /\ o \in Requests /\ Commit(o)
                  /\ o \in DOMAIN entities[o] /\ orders'[o] = entities[o][o]
<1>1. ASSUME orders' = orders
      PROVE  /\ \A o \in DOMAIN orders : o \in DOMAIN orders' /\ SameTerms(orders'[o], orders[o])
             /\ DOMAIN orders' \ DOMAIN orders = {}
  BY <1>1 DEF SameTerms
<1>2. ASSUME NEW r \in Requests, Commit(r)
      PROVE  /\ \A o \in DOMAIN orders : o \in DOMAIN orders' /\ SameTerms(orders'[o], orders[o])
             /\ \A o \in DOMAIN orders' \ DOMAIN orders :
                    o = r /\ o \in DOMAIN entities[o] /\ orders'[o] = entities[o][o]
  <2>1. /\ DOMAIN orders' = DOMAIN orders \cup DOMAIN entities[r]
        /\ \A o \in DOMAIN entities[r] : orders'[o] = entities[r][o]
        /\ \A o \in DOMAIN orders \ DOMAIN entities[r] : orders'[o] = orders[o]
    BY <1>2 DEF Commit
  <2>2. r \notin DOMAIN orders
    BY <1>2 DEF Commit, ControlOK, ControlOf
  <2>3. \A o \in Others(r) : o \in DOMAIN orders /\ SameTerms(entities[r][o], orders[o])
    BY DEF LockedCopies, LockedOf
  <2>4. QED
    BY <2>1, <2>2, <2>3 DEF Others, SameTerms
<1>3. orders' = orders \/ \E r \in Requests : Commit(r)
  BY BookChanges
<1>4. CASE orders' = orders
  BY <1>1, <1>4
<1>5. CASE \E r \in Requests : Commit(r)
  <2>1. PICK r \in Requests : Commit(r)
    BY <1>5
  <2>2. QED
    BY <1>2, <2>1
<1>6. QED
  BY <1>3, <1>4, <1>5

LEMMA MatchedKept ==
    ASSUME TypeOK, ControlOK, MatchesAgreed, NEW q \in Requests,
           entities'[q] = entities[q], pc'[q] = pc[q],
           q \in DOMAIN call => call'[q] = call[q],
           \A o \in Others(q) : orders'[o] = orders[o],
           nextId' \in Nat, nextId' >= nextId
    PROVE  MatchedOf(q)'
<1>1. SUFFICES ASSUME Running(q)', call'[q].op = "place" PROVE MatchedOf(q)'
  BY DEF MatchedOf
<1>2. Running(q) /\ call'[q] = call[q] /\ call[q].op = "place"
  BY <1>1 DEF Running, ControlOK, ControlOf
<1>3. q \in DOMAIN entities[q] => entities[q][q].id \in Nat
  BY DEF TypeOK, IsPartialFn, Order
<1>4. Others(q)' = Others(q)
  BY DEF Others
<1>5. nextId \in Nat
  BY DEF TypeOK
<1>6. QED
  BY <1>2, <1>3, <1>4, <1>5 DEF MatchesAgreed, MatchedOf, Agreed

LEMMA IdsOnlyGrow ==
    ASSUME TypeOK, [Next]_vars
    PROVE  nextId' \in Nat /\ nextId' >= nextId
<1>1. nextId \in Nat
  BY DEF TypeOK
<1>2. nextId' = nextId \/ nextId' = nextId + 1
  <2>1. \A r \in Requests : Ends(r) => nextId' = nextId
    BY EndsFacts DEF Rollback, EndTransaction
  <2>2. \A r \in Requests :
            /\ LockOrder(r) \/ Release(r) \/ Commit(r) => nextId' = nextId
            /\ InsertOrder(r) => nextId' = nextId + 1
    BY DEF LockOrder, Release, InsertOrder, Commit, EndTransaction
  <2>3. \A r, o \in Requests : LockCandidate(r, o) \/ Fill(r, o) => nextId' = nextId
    BY DEF LockCandidate, Fill
  <2>4. QED
    BY <2>1, <2>2, <2>3, StepsSorted, QuietFacts, IdleFacts
<1>3. QED
  BY <1>1, <1>2

LEMMA MatchesStep ==
    ASSUME TypeOK, ControlOK, CandidatesExist, CopiesExact, LockedCopies, IdsGrow, MatchesAgreed,
           [Next]_vars
    PROVE  MatchesAgreed'
<1>1. nextId' \in Nat /\ nextId' >= nextId
  BY IdsOnlyGrow
<1>2. ASSUME Tick \/ UNCHANGED vars PROVE MatchesAgreed'
  BY <1>2, IdleFacts DEF MatchesAgreed, MatchedOf, Running, Others
<1>3. SUFFICES ASSUME NEW r \in Requests,
                      \/ \E c \in Calls : Resolve(r, c)
                      \/ Step(r) \/ Disconnect(r)
               PROVE  MatchedOf(r)'
  <2>1. ASSUME NEW r \in Requests, NEW q \in Requests, q # r,
               \/ \E c \in Calls : Resolve(r, c)
               \/ Step(r) \/ Disconnect(r)
        PROVE  MatchedOf(q)'
    BY <1>1, <2>1, OthersLocked, MatchedKept
  <2>2. QED
    BY <1>2, <2>1 DEF Next, MatchesAgreed
<1>4. ASSUME Ends(r) \/ Commit(r) PROVE MatchedOf(r)'
  <2>1. EndTransaction(r)
    BY <1>4, EndsFacts DEF Rollback, Commit
  <2>2. pc'[r] = "done"
    BY <2>1 DEF EndTransaction, GoTo, TypeOK
  <2>3. QED
    BY <2>2 DEF MatchedOf, Running
<1>5. ASSUME Quiet(r) PROVE MatchedOf(r)'
  <2>1. UNCHANGED <<orders, entities, nextId>>
    BY <1>5, QuietFacts
  <2>2. CASE \E c \in Calls : Resolve(r, c)
    <3>1. DOMAIN entities[r] = {}
      BY <2>2 DEF Resolve, ControlOK, ControlOf, Running
    <3>2. QED
      BY <2>1, <3>1 DEF MatchedOf, Others
  <2>3. CASE ~\E c \in Calls : Resolve(r, c)
    <3>1. Running(r) /\ call' = call
      BY <1>5, <2>3 DEF Quiet, LockCharacter, ReserveGoods, Scan, Flush, Running
    <3>2. QED
      BY <2>1, <3>1 DEF MatchesAgreed, MatchedOf, Others
  <2>4. QED
    BY <2>2, <2>3
<1>6. ASSUME NEW o \in Requests, LockCandidate(r, o) PROVE MatchedOf(r)'
  <2>1. /\ call' = call /\ orders' = orders
        /\ pc[r] = "lockOrders" /\ call[r].op = "place"
        /\ r \notin DOMAIN entities[r] /\ o # r
    BY <1>6 DEF LockCandidate, CandidatesExist, ControlOK, ControlOf, dbVars
  <2>2. entities'[r] = IF Candidate(r, o) THEN Put(entities[r], o, orders[o]) ELSE entities[r]
    BY <1>6 DEF LockCandidate, TypeOK
  <2>3. r \notin DOMAIN entities'[r]
    BY <2>1, <2>2 DEF Put
  <2>4. \A p \in Others(r)' : p \in Others(r) \/ (p = o /\ Candidate(r, o))
    BY <2>2 DEF Others, Put
  <2>5. \A p \in Others(r)' : Agreed(call[r], orders[p])
    BY <2>1, <2>4 DEF MatchesAgreed, MatchedOf, Running, Candidate, Agreed
  <2>6. QED
    BY <2>1, <2>3, <2>5 DEF MatchedOf
<1>7. ASSUME InsertOrder(r) PROVE MatchedOf(r)'
  <2>1. /\ call' = call /\ orders' = orders /\ nextId' = nextId + 1
        /\ pc[r] = "lockOrders" /\ call[r].op = "place" /\ nextId \in Nat
    BY <1>7 DEF InsertOrder, ControlOK, ControlOf, TypeOK, dbVars
  <2>2. entities'[r] = Put(entities[r], r, NewOrder(r))
    BY <1>7 DEF InsertOrder, TypeOK
  <2>3. Others(r)' = Others(r) /\ entities'[r][r] = NewOrder(r)
    BY <2>2 DEF Others, Put
  <2>4. /\ NewOrder(r).side = call[r].side /\ NewOrder(r).char = call[r].char
        /\ NewOrder(r).price = call[r].price /\ NewOrder(r).id = nextId
    BY DEF NewOrder
  <2>5. \A p \in Others(r) : orders[p].id < nextId
    BY DEF LockedCopies, LockedOf, IdsGrow
  <2>6. QED
    BY <2>1, <2>3, <2>4, <2>5 DEF MatchesAgreed, MatchedOf, Running, Agreed
<1>8. ASSUME NEW o \in Requests, Fill(r, o) PROVE MatchedOf(r)'
  <2>1. /\ r \in DOMAIN entities[r] /\ entities[r][r] \in Order /\ entities[r][o] \in Order
        /\ entities'[r][r] = AfterFill(entities[r][r], FillQuantity(r, o), entities[r][o].price)
        /\ DOMAIN entities'[r] = DOMAIN entities[r]
    BY <1>8, FillParties, FillEffect
  <2>2. SameTerms(entities'[r][r], entities[r][r])
    BY <2>1 DEF AfterFill, SameTerms, Order
  <2>3. /\ call' = call /\ orders' = orders /\ nextId' = nextId
        /\ pc[r] = "settle"
    BY <1>8 DEF Fill, dbVars
  <2>4. Others(r)' = Others(r)
    BY <2>1 DEF Others
  <2>5. QED
    BY <2>1, <2>2, <2>3, <2>4 DEF MatchesAgreed, MatchedOf, Running, SameTerms, Agreed
<1>9. ASSUME LockOrder(r) \/ Release(r) PROVE MatchedOf(r)'
  <2>1. call' = call /\ call[r].op = "cancel"
    BY <1>9 DEF LockOrder, Release, ControlOK, ControlOf
  <2>2. QED
    BY <2>1 DEF MatchedOf
<1>10. QED
  BY <1>3, <1>4, <1>5, <1>6, <1>7, <1>8, <1>9 DEF Quiet, Ends, Step, PlaceStep, CancelStep

(* What a placement has added to the book when it commits.                   *)
LEMMA PlacedFacts ==
    ASSUME TypeOK, ControlOK, LockedCopies, MatchesAgreed, FilledOnce,
           NEW r \in Requests, Commit(r), r \in DOMAIN entities[r]
    PROVE  /\ entities[r][r].id < nextId
           /\ fills' = fills
           /\ \A m \in Requests : fills[r][m] # 0 =>
                  /\ m \in Others(r) /\ m \in DOMAIN orders
                  /\ Agreed(entities[r][r], orders[m])
                  /\ orders[m].id < entities[r][r].id
                  /\ orders[m].remaining > 0 /\ ~orders[m].cancelled
<1>1. Running(r) /\ fills' = fills
  BY DEF Commit, Running
<1>2. r \in DOMAIN call /\ call[r].op = "place"
  BY <1>1, CallTyped DEF ControlOK, ControlOf
<1>3. \A m \in Requests : fills[r][m] # 0 => m \in Others(r)
  BY <1>1 DEF FilledOnce, FilledOf
<1>4. QED
  BY <1>1, <1>2, <1>3 DEF MatchesAgreed, MatchedOf, LockedCopies, LockedOf, Agreed

LEMMA IdsStep ==
    ASSUME TypeOK, ControlOK, CandidatesExist, LockedCopies, MatchesAgreed, FilledOnce, IdsGrow,
           [Next]_vars
    PROVE  IdsGrow'
<1>1. nextId \in Nat /\ nextId' \in Nat /\ nextId' >= nextId
  BY IdsOnlyGrow DEF TypeOK
<1>2. ASSUME NEW o \in DOMAIN orders' PROVE orders'[o].id < nextId'
  <2>1. CASE o \in DOMAIN orders
    <3>1. orders[o].id \in Nat /\ orders[o].id < nextId
      BY <2>1 DEF TypeOK, IsPartialFn, Order, IdsGrow
    <3>2. orders'[o].id = orders[o].id
      BY <2>1, TermsKept DEF SameTerms
    <3>3. QED
      BY <1>1, <3>1, <3>2
  <2>2. CASE o \notin DOMAIN orders
    <3>1. /\ o \in Requests /\ Commit(o)
          /\ o \in DOMAIN entities[o] /\ orders'[o] = entities[o][o]
      BY <1>2, <2>2, TermsKept
    <3>2. entities[o][o].id \in Nat
      BY <3>1 DEF TypeOK, IsPartialFn, Order
    <3>3. QED
      BY <1>1, <3>1, <3>2, PlacedFacts
  <2>3. QED
    BY <2>1, <2>2
<1>3. QED
  BY <1>2 DEF IdsGrow

(* Only a request that is running changes what it took.                      *)
LEMMA FillsKept ==
    ASSUME TypeOK, ControlOK, CandidatesExist, LockedCopies, [Next]_vars,
           NEW t \in Requests, t \in DOMAIN orders
    PROVE  fills'[t] = fills[t]
<1>1. pc[t] = "done"
  BY DEF ControlOK, ControlOf
<1>2. ASSUME NEW r \in Requests,
             \/ \E c \in Calls : Resolve(r, c)
             \/ Step(r) \/ Disconnect(r)
      PROVE  r # t
  BY <1>1, <1>2, WaitingRuns
     DEF Running, Resolve, Step, PlaceStep, CancelStep, Disconnect, DeadlockVictim,
         LockCharacter, RefuseFunds, ReserveGoods, RefuseGoods, Scan, LockCandidate, InsertOrder,
         Fill, LockOrder, RefuseCancel, Release, Flush, FlushFails, AtFlush, Commit
<1>3. QED
  BY <1>2, OthersLocked, IdleFacts DEF Next

LEMMA TradesStep ==
    ASSUME TypeOK, ControlOK, CandidatesExist, LockedCopies, MatchesAgreed, FilledOnce, TradesAgreed,
           [Next]_vars
    PROVE  TradesAgreed'
<1> SUFFICES ASSUME NEW t \in DOMAIN orders', NEW m \in Requests, fills'[t][m] > 0
             PROVE  /\ m \in DOMAIN orders'
                    /\ Agreed(orders'[t], orders'[m])
                    /\ orders'[m].id < orders'[t].id
  BY DEF TradesAgreed, Agreed
<1>1. CASE t \in DOMAIN orders
  <2>1. t \in Requests /\ fills'[t] = fills[t]
    BY <1>1, FillsKept DEF TypeOK, IsPartialFn
  <2>2. m \in DOMAIN orders /\ Agreed(orders[t], orders[m]) /\ orders[m].id < orders[t].id
    BY <1>1, <2>1 DEF TradesAgreed, Agreed
  <2>3. m \in DOMAIN orders' /\ SameTerms(orders'[t], orders[t]) /\ SameTerms(orders'[m], orders[m])
    BY <1>1, <2>2, TermsKept
  <2>4. QED
    BY <2>2, <2>3 DEF Agreed, SameTerms
<1>2. CASE t \notin DOMAIN orders
  <2>1. /\ t \in Requests /\ Commit(t)
        /\ t \in DOMAIN entities[t] /\ orders'[t] = entities[t][t]
    BY <1>2, TermsKept
  <2>2. fills[t][m] # 0
    BY <2>1, PlacedFacts DEF TypeOK
  <2>3. /\ m \in DOMAIN orders
        /\ Agreed(orders'[t], orders[m]) /\ orders[m].id < orders'[t].id
    BY <2>1, <2>2, PlacedFacts
  <2>4. m \in DOMAIN orders' /\ SameTerms(orders'[m], orders[m])
    BY <2>3, TermsKept
  <2>5. QED
    BY <2>3, <2>4 DEF Agreed, SameTerms
<1>3. QED
  BY <1>1, <1>2

--------------------------------------------------------------------------------
(* The theorems                                                              *)

LEMMA InitIInv == Init => IInv
<1> SUFFICES ASSUME Init PROVE IInv
  OBVIOUS
<1> USE MarketTxnAssumption
<1>1. IsPartialFn(EmptyFn, Requests, Order) /\ IsPartialFn(EmptyFn, Characters, Stack)
  BY EmptyPartial
<1>2. IsPartialFn(EmptyFn, Requests, Calls) /\ DOMAIN EmptyFn = {}
  BY EmptyPartial
<1>3. TypeOK
  BY <1>1, <1>2 DEF Init, TypeOK, Steps
<1>4. ControlOK /\ CandidatesExist
  BY <1>2 DEF Init, ControlOK, ControlOf, Running, CandidatesExist, IsPartialFn
<1>5. CommitmentsExact /\ CopiesExact /\ IdsGrow
  BY <1>2 DEF Init, CommitmentsExact, CopiesExact, IdsGrow
<1>6. LockedCopies /\ FilledOnce /\ MatchesAgreed
  BY <1>2 DEF Init, LockedCopies, LockedOf, FilledOnce, FilledOf, MatchesAgreed, MatchedOf,
              Others, Running
<1>7. TradesAgreed
  BY DEF Init, TradesAgreed, IsPartialFn
<1>8. QED
  BY <1>3, <1>4, <1>5, <1>6, <1>7 DEF IInv

LEMMA StepIInv == IInv /\ [Next]_vars => IInv'
BY TypeStep, ControlStep, CandidatesStep, ExactStep, LocksStep, IdsStep, MatchesStep, TradesStep
   DEF IInv

(* MarketService.cs: in every reachable state, what a request tracks is locked *)
(* by it, current and exact, and what it has filled both orders agreed to.    *)
THEOREM Invariance == Spec => []IInv
BY InitIInv, StepIInv, PTL DEF Spec

(* Every field of the committed rows and of each request keeps its type: no  *)
(* stack, in the hangar or tracked, is ever written negative.                *)
THEOREM TypeCorrect == Spec => []TypeOK
<1>1. IInv => TypeOK
  BY DEF IInv
<1>2. QED
  BY Invariance, <1>1, PTL

(* Whatever placements, cancels, deadlocks and failures interleave, an order *)
(* on the book holds exactly the escrow or the goods of its unfilled part.   *)
THEOREM CommitmentsHeld == Spec => []CommitmentsExact
<1>1. IInv => CommitmentsExact
  BY DEF IInv
<1>2. QED
  BY Invariance, <1>1, PTL

(* Every trade on the book is one both orders agreed to.                     *)
THEOREM TradesHeld == Spec => []TradesAgreed
<1>1. IInv => TradesAgreed
  BY DEF IInv
<1>2. QED
  BY Invariance, <1>1, PTL
(* A placement's copy of a resting order stays current until it commits, so  *)
(* the absolute quantities it writes back lose no other fill and no cancel.  *)
THEOREM CopiesStayCurrent == Spec => []CopiesCurrent
<1>1. ASSUME IInv PROVE CopiesCurrent
  <2>1. SUFFICES ASSUME NEW r \in Requests, NEW o \in Others(r), call[r].op = "place"
                 PROVE  orders[o].cancelled = entities[r][o].cancelled
    BY <1>1 DEF IInv, LockedCopies, LockedOf, CopiesCurrent, Others
  <2>2. ~orders[o].cancelled /\ ~entities[r][o].cancelled /\ o \in DOMAIN orders
    BY <1>1, <2>1 DEF IInv, LockedCopies, LockedOf
  <2>3. orders[o].cancelled \in BOOLEAN /\ entities[r][o].cancelled \in BOOLEAN
    BY <1>1, <2>2 DEF IInv, TypeOK, IsPartialFn, Order, Others
  <2>4. QED
    BY <2>2, <2>3
<1>2. QED
  BY Invariance, <1>1, PTL

LEMMA ClosedStep ==
    ASSUME IInv, [Next]_vars, NEW o \in DOMAIN orders,
           orders[o].remaining = 0 \/ orders[o].cancelled
    PROVE  /\ orders'[o].remaining = orders[o].remaining
           /\ orders'[o].escrow = orders[o].escrow
           /\ orders'[o].reserved = orders[o].reserved
           /\ orders[o].cancelled => orders'[o].cancelled
           /\ \A t \in DOMAIN orders' \ DOMAIN orders : fills'[t][o] = 0
<1> USE DEF IInv
<1>1. \A t \in DOMAIN orders' \ DOMAIN orders : fills'[t][o] = 0
  <2>1. o \in Requests /\ orders[o].remaining \in Nat
    BY DEF TypeOK, IsPartialFn, Order
  <2>2. SUFFICES ASSUME NEW t \in DOMAIN orders' \ DOMAIN orders PROVE fills'[t][o] = 0
    OBVIOUS
  <2>3. t \in Requests /\ Commit(t) /\ t \in DOMAIN entities[t]
    BY TermsKept
  <2>4. /\ fills' = fills
        /\ fills[t][o] # 0 => orders[o].remaining > 0 /\ ~orders[o].cancelled
    BY <2>1, <2>3, PlacedFacts
  <2>5. QED
    BY <2>1, <2>4
<1>2. CASE orders' = orders
  BY <1>1, <1>2
<1>3. ASSUME NEW r \in Requests, Commit(r), orders'[o] # orders[o]
      PROVE  /\ orders[o].remaining = 0 /\ ~orders[o].cancelled
             /\ orders'[o] = Closed(orders[o])
  <2>1. o \in DOMAIN entities[r] /\ orders'[o] = entities[r][o] /\ o # r
    BY <1>3 DEF Commit, ControlOK, ControlOf
  <2>2. pc[r] = "settle" /\ r \in DOMAIN call
    BY <1>3 DEF Commit, ControlOK, ControlOf, Running
  <2>3. call[r].op \in {"place", "cancel"}
    BY <2>2, CallTyped
  <2>4. orders[o].remaining \in Nat
    BY DEF TypeOK, IsPartialFn, Order
  <2>5. call[r].op = "cancel" /\ ~orders[o].cancelled
    BY <2>1, <2>3, <2>4 DEF LockedCopies, LockedOf, Others
  <2>6. entities[r][o] = Closed(orders[o])
    BY <2>1, <2>2, <2>5 DEF LockedCopies, LockedOf, Others
  <2>7. QED
    BY <2>1, <2>5, <2>6
<1>4. CASE \E r \in Requests : Commit(r) /\ orders'[o] # orders[o]
  <2>1. orders[o].remaining = 0 /\ ~orders[o].cancelled /\ orders'[o] = Closed(orders[o])
    BY <1>3, <1>4
  <2>2. orders[o] \in Order
    BY DEF TypeOK, IsPartialFn
  <2>3. orders[o].escrow = 0 /\ orders[o].reserved = 0
    <3>1. orders[o].price * 0 = 0
      BY <2>2 DEF Order
    <3>2. HoldsWhatItOwes(orders[o])
      BY DEF CommitmentsExact
    <3>3. QED
      BY <2>1, <3>1, <3>2 DEF HoldsWhatItOwes, EscrowRequired, GrossValue
  <2>4. orders'[o].remaining = 0 /\ orders'[o].escrow = 0 /\ orders'[o].reserved = 0
    BY <2>1, <2>2 DEF Closed, Order
  <2>5. QED
    BY <1>1, <2>1, <2>3, <2>4
<1>5. orders' = orders \/ \E r \in Requests : Commit(r)
  BY BookChanges
<1>6. QED
  BY <1>1, <1>2, <1>4, <1>5

(* Once filled or cancelled, an order is never traded against or reopened.   *)
THEOREM ClosedStaysClosed == Spec => ClosedForGood
<1>1. IInv /\ [Next]_vars =>
          [\A o \in DOMAIN orders : orders[o].remaining = 0 \/ orders[o].cancelled =>
               /\ orders'[o].remaining = orders[o].remaining
               /\ orders'[o].escrow = orders[o].escrow
               /\ orders'[o].reserved = orders[o].reserved
               /\ orders[o].cancelled => orders'[o].cancelled
               /\ \A t \in DOMAIN orders' \ DOMAIN orders : fills'[t][o] = 0]_vars
  BY ClosedStep
<1>2. QED
  BY Invariance, <1>1, PTL DEF Spec, ClosedForGood

--------------------------------------------------------------------------------
(* What orders traded, and what is left of them.                             *)

InitialStays == DOMAIN InitialBook \subseteq DOMAIN orders

(* An order being placed is not cancelled, and has taken what it is short of. *)
TakenOf(r) ==
    r \in DOMAIN entities[r] =>
        /\ ~entities[r][r].cancelled
        /\ entities[r][r].remaining + SumFunction(fills[r]) = entities[r][r].original

TakersAccount == \A r \in Requests : TakenOf(r)

LEMMA RequestsFinite ==
    /\ IsFiniteSet(Requests) /\ IsFiniteSet(Characters)
    /\ TypeOK => /\ DOMAIN orders \subseteq Requests /\ IsFiniteSet(DOMAIN orders)
                 /\ \A r \in Requests : DOMAIN fills[r] = Requests /\ IsFiniteSet(DOMAIN fills[r])
<1>1. IsFiniteSet(Requests) /\ IsFiniteSet(Characters)
  BY MarketTxnAssumption
<1>2. ASSUME TypeOK PROVE DOMAIN orders \subseteq Requests /\ IsFiniteSet(DOMAIN orders)
  BY <1>1, <1>2, FS_Subset DEF TypeOK, IsPartialFn
<1>3. ASSUME TypeOK, NEW r \in Requests PROVE DOMAIN fills[r] = Requests
  BY <1>3 DEF TypeOK
<1> QED BY <1>1, <1>2, <1>3

LEMMA InitialStep ==
    ASSUME TypeOK, ControlOK, CandidatesExist, LockedCopies, InitialStays, [Next]_vars
    PROVE  InitialStays'
BY TermsKept DEF InitialStays

(* Only its own steps change what an order being placed has taken.           *)
LEMMA OthersTaken ==
    ASSUME NEW q \in Requests, TakenOf(q), entities'[q] = entities[q], fills'[q] = fills[q]
    PROVE  TakenOf(q)'
BY DEF TakenOf

LEMMA TakersStep ==
    ASSUME TypeOK, ControlOK, CandidatesExist, CopiesExact, LockedCopies, FilledOnce,
           TakersAccount, [Next]_vars
    PROVE  TakersAccount'
<1>1. ASSUME UNCHANGED <<entities, fills>> PROVE TakersAccount'
  BY <1>1 DEF TakersAccount, TakenOf
<1>2. SUFFICES ASSUME NEW r \in Requests,
                      \/ \E c \in Calls : Resolve(r, c)
                      \/ Step(r) \/ Disconnect(r)
               PROVE  TakenOf(r)'
  BY <1>1, IdleFacts, OthersLocked, OthersTaken DEF Next, TakersAccount
<1>3. CASE Ends(r) \/ Commit(r)
  <2>1. DOMAIN entities'[r] = {}
    BY <1>3, EndsFacts, EmptyPartial DEF TypeOK, Rollback, Commit, EndTransaction
  <2> QED BY <2>1 DEF TakenOf
<1>4. CASE Quiet(r)
  BY <1>4, QuietFacts DEF TakersAccount, TakenOf
<1>5. CASE (\E o \in Requests : LockCandidate(r, o)) \/ LockOrder(r)
  <2>1. r \notin DOMAIN entities[r] /\ r \notin DOMAIN orders
    BY <1>5 DEF LockCandidate, LockOrder, ControlOK, ControlOf
  <2>2. ASSUME NEW o \in Requests, LockCandidate(r, o) PROVE r \notin DOMAIN entities'[r]
    <3>1. o # r
      BY <2>1, <2>2 DEF LockCandidate, CandidatesExist
    <3>2. DOMAIN entities'[r] \subseteq DOMAIN entities[r] \cup {o}
      BY <2>2 DEF LockCandidate, TypeOK, Put
    <3> QED BY <2>1, <3>1, <3>2
  <2>3. ASSUME LockOrder(r) PROVE r \notin DOMAIN entities'[r]
    <3>1. call[r].order # r
      BY <2>1, <2>3 DEF LockOrder, Cancellable
    <3>2. DOMAIN entities'[r] \subseteq DOMAIN entities[r] \cup {call[r].order}
      BY <2>3 DEF LockOrder, TypeOK, Put
    <3> QED BY <2>1, <3>1, <3>2
  <2> QED BY <1>5, <2>2, <2>3 DEF TakenOf
<1>6. CASE InsertOrder(r)
  <2>1. /\ r \in DOMAIN call /\ call[r].op = "place" /\ fills' = fills
        /\ \A p \in Requests : fills[r][p] = 0
    BY <1>6 DEF InsertOrder, ControlOK, ControlOf, Running
  <2>2. entities'[r][r] = NewOrder(r)
    BY <1>6 DEF InsertOrder, TypeOK, Put
  <2>3. SumFunction(fills'[r]) = 0
    BY <2>1, RequestsFinite, SumOfNoughts
  <2>4. NewOrder(r).remaining = NewOrder(r).original /\ NewOrder(r).remaining \in Int
        /\ ~NewOrder(r).cancelled
    BY <2>1, CallTyped DEF NewOrder
  <2> QED BY <2>2, <2>3, <2>4 DEF TakenOf
<1>7. CASE \E o \in Requests : Fill(r, o)
  <2>1. PICK o \in Requests : Fill(r, o)
    BY <1>7
  <2> DEFINE quantity == FillQuantity(r, o)
             price == entities[r][o].price
  <2>2. /\ o \in Others(r) /\ r \in DOMAIN entities[r]
        /\ entities[r][r] \in Order /\ entities[r][o] \in Order
        /\ entities[r][r].remaining > 0 /\ entities[r][o].remaining > 0
    BY <2>1, FillParties
  <2>3. /\ quantity \in Nat /\ price \in Int /\ quantity \in 0 .. entities[r][r].remaining
        /\ entities[r][r].remaining \in Nat /\ entities[r][r].original \in Nat
    BY <2>1, <2>2, FillAmount DEF Order
  <2>4. /\ entities'[r][r].remaining = entities[r][r].remaining - quantity
        /\ entities'[r][r].original = entities[r][r].original
        /\ entities'[r][r].cancelled = entities[r][r].cancelled
    <3>1. entities'[r][r] = AfterFill(entities[r][r], quantity, price)
      BY <2>1, FillEffect
    <3> QED BY <2>2, <2>3, <3>1, AfterFillExact DEF CopiesExact, SameTerms
  <2>5. fills[r][o] = 0
    <3>1. Running(r)
      BY <2>1 DEF Fill, Running
    <3>2. entities[r][o].remaining # 0 /\ entities[r][r].remaining # 0
      BY <2>2
    <3> QED BY <3>1, <3>2 DEF FilledOnce, FilledOf
  <2>6. /\ fills'[r][o] = quantity /\ DOMAIN fills'[r] = Requests /\ DOMAIN fills[r] = Requests
        /\ \A p \in Requests : fills[r][p] \in Int /\ fills'[r][p] \in Int
        /\ \A p \in Requests : p # o => fills'[r][p] = fills[r][p]
    <3>1. fills' = [fills EXCEPT ![r][o] = quantity]
      BY <2>1 DEF Fill
    <3>2. fills \in [Requests -> [Requests -> Nat]]
      BY DEF TypeOK
    <3> HIDE DEF quantity
    <3> QED BY <2>3, <3>1, <3>2
  <2> HIDE DEF quantity, price
  <2>7. SumFunction(fills'[r]) = SumFunction(fills[r]) + fills'[r][o] - fills[r][o]
    BY <2>6, RequestsFinite, SumMoves
  <2>8. SumFunction(fills[r]) \in Int
    BY <2>6, RequestsFinite, SumTyped
  <2>9. ~entities[r][r].cancelled
        /\ entities[r][r].remaining + SumFunction(fills[r]) = entities[r][r].original
    BY <2>2 DEF TakersAccount, TakenOf
  <2>10. ~entities'[r][r].cancelled
    BY <2>4, <2>9
  <2>11. entities'[r][r].remaining + SumFunction(fills'[r]) = entities'[r][r].original
    BY <2>3, <2>4, <2>5, <2>6, <2>7, <2>8, <2>9
  <2> QED BY <2>10, <2>11 DEF TakenOf
<1>8. CASE Release(r)
  <2>1. r \notin DOMAIN entities[r] /\ DOMAIN entities'[r] = DOMAIN entities[r]
    BY <1>8 DEF Release, ControlOK, ControlOf, Running, TypeOK
  <2> QED BY <2>1 DEF TakenOf
<1> QED BY <1>2, <1>3, <1>4, <1>5, <1>6, <1>7, <1>8 DEF Step, PlaceStep, CancelStep, Quiet, Ends

(* Of the rows a placement or a cancel commits, its own is new, and the       *)
(* others hold what it took less.                                            *)
LEMMA CommitRows ==
    ASSUME TypeOK, ControlOK, LockedCopies, FilledOnce, TakersAccount, NEW r \in Requests, Commit(r)
    PROVE  /\ fills' = fills /\ Running(r) /\ r \in DOMAIN call /\ r \notin DOMAIN orders
           /\ DOMAIN orders' = DOMAIN orders \cup (DOMAIN entities[r] \cap {r})
           /\ DOMAIN entities[r] \subseteq Requests
           /\ \A o \in DOMAIN orders' :
                  orders'[o] = IF o \in DOMAIN entities[r] THEN entities[r][o] ELSE orders[o]
           /\ \A o \in Requests : fills[r][o] # 0 => o \in Others(r)
           /\ r \in DOMAIN entities[r] => call[r].op = "place"
           /\ r \notin DOMAIN entities[r] => \A o \in Requests : fills[r][o] = 0
           /\ call[r].op \in {"place", "cancel"}
<1>1. /\ fills' = fills /\ pc[r] = "settle" /\ Running(r) /\ r \in DOMAIN call /\ r \notin DOMAIN orders
  BY DEF Commit, ControlOK, ControlOf, Running
<1>2. call[r].op \in {"place", "cancel"}
  BY <1>1, CallTyped
<1>3. DOMAIN entities[r] \subseteq Requests /\ Others(r) \subseteq DOMAIN orders
  BY DEF LockedCopies, LockedOf, TypeOK, IsPartialFn
<1>4. /\ r \in DOMAIN entities[r] => call[r].op = "place"
      /\ r \notin DOMAIN entities[r] => \A o \in Requests : fills[r][o] = 0
  BY <1>1, <1>2 DEF ControlOK, ControlOf, Running
<1>5. \A o \in Requests : fills[r][o] # 0 => o \in Others(r)
  BY <1>1 DEF FilledOnce, FilledOf
<1>6. orders' = [o \in DOMAIN orders \cup DOMAIN entities[r] |->
                     IF o \in DOMAIN entities[r] THEN entities[r][o] ELSE orders[o]]
  BY DEF Commit
<1>7. DOMAIN orders \cup DOMAIN entities[r] = DOMAIN orders \cup (DOMAIN entities[r] \cap {r})
  BY <1>3 DEF Others
<1> QED BY <1>1, <1>2, <1>3, <1>4, <1>5, <1>6, <1>7

LEMMA TradedTyped ==
    ASSUME TypeOK, NEW o \in Requests
    PROVE  /\ SumFunction([t \in DOMAIN orders |-> fills[t][o]]) \in Nat
           /\ SumFunction(fills[o]) \in Nat
<1>1. \A t \in Requests : fills[t][o] \in Nat /\ fills[o][t] \in Nat
  BY DEF TypeOK
<1>2. SumFunction(fills[o]) \in Nat
  BY <1>1, RequestsFinite, SumNat DEF SumFunction
<1>3. SumFunction([t \in DOMAIN orders |-> fills[t][o]]) \in Nat
  BY <1>1, RequestsFinite, SumNat DEF SumFunction
<1> QED BY <1>2, <1>3

(* What a row's trades come to once r has committed.                         *)
LEMMA CommitTraded ==
    ASSUME IInv, TakersAccount, NEW r \in Requests, Commit(r), NEW o \in DOMAIN orders
    PROVE  /\ fills[r][o] \in Nat /\ TradedOf(o) \in Nat
           /\ TradedOf(o)' = TradedOf(o) + fills[r][o]
<1> DEFINE f == [t \in DOMAIN orders |-> fills[t][o]]
           g == [t \in DOMAIN orders' |-> fills[t][o]]
<1>1. o \in Requests /\ fills[r][o] \in Nat
  BY RequestsFinite DEF IInv, TypeOK
<1>2. fills' = fills /\ r \notin DOMAIN orders
      /\ DOMAIN orders' = DOMAIN orders \cup (DOMAIN entities[r] \cap {r})
      /\ (r \notin DOMAIN entities[r] => fills[r][o] = 0)
  BY <1>1, CommitRows DEF IInv
<1>3. SumFunction(f) \in Nat /\ SumFunction(fills[o]) \in Nat
  BY <1>1, TradedTyped DEF IInv
<1>4. TradedOf(o) = SumFunction(f) + SumFunction(fills[o])
      /\ TradedOf(o)' = SumFunction(g) + SumFunction(fills[o])
  BY <1>2 DEF TradedOf
<1>5. DOMAIN f = DOMAIN orders /\ DOMAIN g = DOMAIN orders' /\ IsFiniteSet(DOMAIN f)
      /\ (\A t \in DOMAIN orders : f[t] \in Int /\ g[t] = f[t])
  BY <1>1, <1>2, RequestsFinite DEF IInv, TypeOK
<1>6. r \in DOMAIN g => g[r] = fills[r][o]
  OBVIOUS
<1> HIDE DEF f, g
<1>7. SumFunction(g) = SumFunction(f) + fills[r][o]
  <2>1. CASE r \in DOMAIN entities[r]
    <3>1. DOMAIN g = DOMAIN f \cup {r} /\ r \notin DOMAIN f
      BY <1>2, <1>5, <2>1
    <3>2. g[r] \in Int /\ g[r] = fills[r][o]
      BY <1>1, <1>6, <3>1
    <3> QED BY <1>5, <3>1, <3>2, SumGrows
  <2>2. CASE r \notin DOMAIN entities[r]
    <3>1. DOMAIN g = DOMAIN f
      BY <1>2, <1>5, <2>2
    <3>2. SumFunction(g) = SumFunction(f)
      BY <1>5, <3>1, SumStays
    <3> QED BY <1>2, <1>3, <2>2, <3>2
  <2> QED BY <2>1, <2>2
<1> QED BY <1>1, <1>3, <1>4, <1>7

(* No row trades with one not placed yet, nor with itself.                   *)
LEMMA CommitTakes ==
    ASSUME IInv, TakersAccount, NEW r \in Requests, Commit(r), r \in DOMAIN entities[r]
    PROVE  TradedOf(r)' = SumFunction(fills[r]) /\ SumFunction(fills[r]) \in Nat
<1> DEFINE g == [t \in DOMAIN orders' |-> fills[t][r]]
<1>1. /\ fills' = fills /\ r \notin DOMAIN orders
      /\ DOMAIN orders' = DOMAIN orders \cup (DOMAIN entities[r] \cap {r})
      /\ \A o \in Requests : fills[r][o] # 0 => o \in Others(r)
  BY CommitRows DEF IInv
<1>2. \A t \in DOMAIN orders : fills[t][r] = 0
  BY <1>1, RequestsFinite DEF IInv, TypeOK, TradesAgreed
<1>3. fills[r][r] = 0
  BY <1>1 DEF Others
<1>4. DOMAIN g = DOMAIN orders' /\ \A t \in DOMAIN g : g[t] = 0
  BY <1>1, <1>2, <1>3
<1>5. IsFiniteSet(DOMAIN orders')
  BY <1>1, RequestsFinite, FS_Subset DEF IInv
<1>6. TradedOf(r)' = SumFunction(g) + SumFunction(fills[r])
  BY <1>1 DEF TradedOf
<1> HIDE DEF g
<1>7. SumFunction(g) = 0
  BY <1>4, <1>5, SumOfNoughts
<1>8. SumFunction(fills[r]) \in Nat
  BY TradedTyped DEF IInv
<1> QED BY <1>6, <1>7, <1>8

LEMMA AccountsStep ==
    ASSUME IInv, TakersAccount, InitialStays, OrdersAccountForTrades, [Next]_vars
    PROVE  OrdersAccountForTrades'
<1> USE DEF IInv
<1>1. CASE orders' = orders
  <2> SUFFICES ASSUME NEW o \in DOMAIN orders
               PROVE  TradedOf(o)' = TradedOf(o) /\ OfferedOf(o)' = OfferedOf(o)
    BY <1>1 DEF OrdersAccountForTrades
  <2>1. \A t \in DOMAIN orders : fills'[t] = fills[t]
    BY FillsKept, RequestsFinite
  <2>2. \A t \in DOMAIN orders : fills'[t][o] = fills[t][o]
    BY <2>1
  <2>3. SumFunction([t \in DOMAIN orders' |-> fills'[t][o]])
            = SumFunction([t \in DOMAIN orders |-> fills[t][o]])
    BY <1>1, <2>2
  <2> QED BY <1>1, <2>1, <2>3 DEF TradedOf, OfferedOf
<1>2. ASSUME NEW r \in Requests, Commit(r) PROVE OrdersAccountForTrades'
  <2>0. /\ r \notin DOMAIN orders
        /\ DOMAIN orders' = DOMAIN orders \cup (DOMAIN entities[r] \cap {r})
        /\ \A o \in DOMAIN orders' :
               orders'[o] = IF o \in DOMAIN entities[r] THEN entities[r][o] ELSE orders[o]
        /\ \A o \in Requests : fills[r][o] # 0 => o \in Others(r)
        /\ Running(r) /\ call[r].op \in {"place", "cancel"}
    BY <1>2, CommitRows
  <2>1. ASSUME NEW o \in DOMAIN orders
        PROVE  IF orders'[o].cancelled
               THEN orders'[o].remaining = 0 /\ TradedOf(o)' <= OfferedOf(o)'
               ELSE orders'[o].remaining + TradedOf(o)' = OfferedOf(o)'
    <3>1. /\ fills[r][o] \in Nat /\ TradedOf(o) \in Nat
          /\ TradedOf(o)' = TradedOf(o) + fills[r][o]
      BY <1>2, CommitTraded
    <3>2. o \in DOMAIN orders' /\ SameTerms(orders'[o], orders[o])
      BY TermsKept
    <3>3. OfferedOf(o)' = OfferedOf(o)
      BY <3>2 DEF OfferedOf, SameTerms
    <3>4. IF orders[o].cancelled
          THEN orders[o].remaining = 0 /\ TradedOf(o) <= OfferedOf(o)
          ELSE orders[o].remaining + TradedOf(o) = OfferedOf(o)
      BY DEF OrdersAccountForTrades
    <3>5. orders[o].remaining \in Nat /\ o \in Requests /\ orders[o] \in Order
      BY DEF TypeOK, IsPartialFn, Order
    <3>6. CASE o \notin Others(r)
      <4>1. orders'[o] = orders[o]
        BY <2>0, <3>2, <3>6 DEF Others
      <4>2. fills[r][o] = 0
        BY <2>0, <3>5, <3>6
      <4> QED BY <3>1, <3>3, <3>4, <4>1, <4>2
    <3>7. CASE o \in Others(r) /\ call[r].op = "place"
      <4>1. /\ orders'[o] = entities[r][o] /\ ~orders[o].cancelled /\ ~entities[r][o].cancelled
            /\ orders[o].remaining = entities[r][o].remaining + fills[r][o]
        BY <2>0, <3>2, <3>7 DEF Others, LockedCopies, LockedOf
      <4>2. entities[r][o].remaining \in Nat
        BY <3>7 DEF Others, TypeOK, IsPartialFn, Order
      <4> QED BY <3>1, <3>3, <3>4, <4>1, <4>2
    <3>8. CASE o \in Others(r) /\ call[r].op = "cancel"
      <4>1. pc[r] = "settle"
        BY <1>2 DEF Commit
      <4>2. /\ orders'[o] = Closed(orders[o]) /\ ~orders[o].cancelled
        BY <2>0, <3>2, <3>8, <4>1 DEF Others, LockedCopies, LockedOf
      <4>3. fills[r][o] = 0
        BY <2>0, <3>5, <3>8 DEF ControlOK, ControlOf
      <4>4. orders'[o].cancelled /\ orders'[o].remaining = 0
        BY <3>5, <4>2, ClosedExact
      <4> QED BY <3>1, <3>3, <3>4, <3>5, <4>2, <4>3, <4>4
    <3> QED BY <2>0, <3>6, <3>7, <3>8
  <2>2. ASSUME r \in DOMAIN entities[r]
        PROVE  ~orders'[r].cancelled /\ orders'[r].remaining + TradedOf(r)' = OfferedOf(r)'
    <3>1. orders'[r] = entities[r][r] /\ r \notin DOMAIN InitialBook
      BY <2>0, <2>2 DEF InitialStays
    <3>2. /\ ~entities[r][r].cancelled
          /\ entities[r][r].remaining + SumFunction(fills[r]) = entities[r][r].original
      BY <2>2 DEF TakersAccount, TakenOf
    <3>3. OfferedOf(r)' = entities[r][r].original
      BY <3>1 DEF OfferedOf
    <3> QED BY <1>2, <2>2, <3>1, <3>2, <3>3, CommitTakes
  <2> QED BY <2>0, <2>1, <2>2 DEF OrdersAccountForTrades
<1> QED BY <1>1, <1>2, BookChanges

--------------------------------------------------------------------------------
(* Where the credits are.                                                    *)

HeldOf(rows, o) == IF o \in DOMAIN rows THEN rows[o].escrow ELSE 0

(* What the commit of r will change the escrow of each row by, and what fees  *)
(* and tax it will have charged.                                             *)
Change(r) ==
    [o \in Requests |->
        IF o \in DOMAIN entities[r] THEN entities[r][o].escrow - HeldOf(orders, o) ELSE 0]
ChargesOf(r) == IF r \in DOMAIN entities[r] THEN FeeOf(r) + TaxOf(r) ELSE 0

(* Credits leave a transaction's balances for escrow, fees and tax alone.    *)
SettledOf(r) == SumFunction(delta[r]) + SumFunction(Change(r)) + ChargesOf(r) = 0
AllSettled == \A r \in Requests : SettledOf(r)

PlacersKnown ==
    \A t \in DOMAIN orders \ DOMAIN InitialBook : t \in DOMAIN call /\ call[t].op = "place"

(* An order's tax follows from what it took, of rows that keep their price.  *)
LEMMA TaxTyped ==
    ASSUME TypeOK, NEW r \in Requests,
           \A m \in Requests : fills[r][m] > 0 => m \in DOMAIN orders
    PROVE  /\ TaxOf(r) \in Int
           /\ \A m \in Requests : fills[r][m] > 0 => SalesTax(orders[m].price, fills[r][m]) \in Int
<1> DEFINE f == [m \in Requests |->
                    IF fills[r][m] > 0 THEN SalesTax(orders[m].price, fills[r][m]) ELSE 0]
<1>1. \A m \in Requests : fills[r][m] > 0 => SalesTax(orders[m].price, fills[r][m]) \in Int
  <2> SUFFICES ASSUME NEW m \in Requests, fills[r][m] > 0
               PROVE  SalesTax(orders[m].price, fills[r][m]) \in Int
    OBVIOUS
  <2>1. orders[m].price \in Int /\ fills[r][m] \in Int
    BY DEF TypeOK, IsPartialFn, Order
  <2> QED BY <2>1, RatesAreIntegers
<1>2. DOMAIN f = Requests /\ \A m \in Requests : f[m] \in Int
  BY <1>1
<1>3. TaxOf(r) = SumFunction(f)
  BY DEF TaxOf
<1> HIDE DEF f
<1> QED BY <1>1, <1>2, <1>3, RequestsFinite, SumTyped

(* What is in the fills of a request under way is of rows it tracks.         *)
LEMMA TaxedTracked ==
    ASSUME TypeOK, ControlOK, LockedCopies, FilledOnce, NEW r \in Requests, r \in DOMAIN entities[r]
    PROVE  \A m \in Requests : fills[r][m] > 0 => m \in Others(r) /\ m \in DOMAIN orders
<1>1. Running(r)
  BY DEF ControlOK, ControlOf
<1> QED BY <1>1 DEF FilledOnce, FilledOf, LockedCopies, LockedOf, TypeOK

LEMMA ChangeTyped ==
    ASSUME TypeOK, NEW r \in Requests
    PROVE  /\ DOMAIN Change(r) = Requests
           /\ \A o \in Requests : HeldOf(orders, o) \in Int /\ Change(r)[o] \in Int
           /\ SumFunction(Change(r)) \in Int /\ SumFunction(delta[r]) \in Int
<1>1. \A o \in Requests : HeldOf(orders, o) \in Int
  BY DEF TypeOK, IsPartialFn, Order, HeldOf
<1>2. \A o \in DOMAIN entities[r] : entities[r][o].escrow \in Int
  BY DEF TypeOK, IsPartialFn, Order
<1>3. DOMAIN Change(r) = Requests /\ \A o \in Requests : Change(r)[o] \in Int
  BY <1>1, <1>2 DEF Change
<1>4. DOMAIN delta[r] = Characters /\ \A c \in Characters : delta[r][c] \in Int
  BY DEF TypeOK
<1> QED BY <1>1, <1>3, <1>4, RequestsFinite, SumTyped

LEMMA ChargesTyped ==
    ASSUME TypeOK, ControlOK, LockedCopies, FilledOnce, NEW r \in Requests
    PROVE  ChargesOf(r) \in Int
<1>1. CASE r \in DOMAIN entities[r]
  <2>1. r \in DOMAIN call /\ call[r].op = "place"
    BY <1>1, CallTyped DEF ControlOK, ControlOf
  <2> QED BY <1>1, <2>1, CostsTyped, TaxTyped, TaxedTracked DEF ChargesOf
<1>2. CASE r \notin DOMAIN entities[r]
  BY <1>2 DEF ChargesOf
<1> QED BY <1>1, <1>2

(* A step leaves alone what the other requests owe and were told.            *)
LEMMA OthersPaid ==
    ASSUME TypeOK, NEW r \in Requests, NEW q \in Requests, q # r,
           \/ \E c \in Calls : Resolve(r, c)
           \/ Step(r) \/ Disconnect(r)
    PROVE  delta'[q] = delta[q] /\ seenBalance'[q] = seenBalance[q]
<1> USE DEF TypeOK, txnVars
<1>1. CASE Rollback(r)
  BY <1>1 DEF Rollback, EndTransaction
<1>2. CASE \E c \in Calls : Resolve(r, c)
  BY <1>2 DEF Resolve
<1>3. CASE LockCharacter(r) \/ ReserveGoods(r) \/ Scan(r) \/ Flush(r) \/ LockOrder(r)
           \/ \E o \in Requests : LockCandidate(r, o)
  BY <1>3 DEF LockCharacter, ReserveGoods, Scan, Flush, LockOrder, LockCandidate
<1>4. CASE InsertOrder(r) \/ \E o \in Requests : Fill(r, o)
  <2>1. CASE InsertOrder(r)
    BY <2>1 DEF InsertOrder
  <2>2. CASE \E o \in Requests : Fill(r, o)
    BY <2>2 DEF Fill
  <2> QED BY <1>4, <2>1, <2>2
<1>5. CASE Release(r)
  BY <1>5 DEF Release
<1>6. CASE Commit(r)
  BY <1>6 DEF Commit, EndTransaction
<1> QED BY <1>1, <1>2, <1>3, <1>4, <1>5, <1>6, EndsFacts DEF Ends, Step, PlaceStep, CancelStep

LEMMA OthersSettled ==
    ASSUME IInv, AllSettled, [Next]_vars, NEW r \in Requests, NEW q \in Requests, q # r,
           \/ \E c \in Calls : Resolve(r, c)
           \/ Step(r) \/ Disconnect(r)
    PROVE  SettledOf(q)'
<1> USE DEF IInv
<1>1. /\ entities'[q] = entities[q] /\ fills'[q] = fills[q] /\ pc'[q] = pc[q]
      /\ q \in DOMAIN call => call'[q] = call[q]
      /\ \A o \in Others(q) : o \in DOMAIN orders' /\ orders'[o] = orders[o]
      /\ delta'[q] = delta[q] /\ seenBalance'[q] = seenBalance[q]
  BY OthersLocked, OthersPaid
<1>2. \A o \in Others(q) : o \in DOMAIN orders
  BY DEF LockedCopies, LockedOf
<1>3. q \in DOMAIN entities[q] => q \notin DOMAIN orders /\ q \notin DOMAIN orders' /\ q \in DOMAIN call
  <2> SUFFICES ASSUME q \in DOMAIN entities[q]
               PROVE  q \notin DOMAIN orders /\ q \notin DOMAIN orders' /\ q \in DOMAIN call
    OBVIOUS
  <2>1. q \notin DOMAIN orders /\ q \in DOMAIN call /\ pc[q] # "done"
    BY DEF ControlOK, ControlOf, Running
  <2>2. ~Commit(q)
    BY <1>1, <2>1 DEF Commit, EndTransaction, GoTo, TypeOK
  <2> QED BY <2>1, <2>2, TermsKept
<1>4. Change(q)' = Change(q)
  <2>1. \A o \in DOMAIN entities[q] : HeldOf(orders, o)' = HeldOf(orders, o)
    BY <1>1, <1>2, <1>3 DEF HeldOf, Others
  <2> QED BY <1>1, <2>1 DEF Change
<1>5. ChargesOf(q)' = ChargesOf(q)
  <2>1. CASE q \in DOMAIN entities[q]
    <3>1. FeeOf(q)' = FeeOf(q)
      BY <1>1, <1>3, <2>1 DEF FeeOf
    <3>2. \A m \in Requests : fills[q][m] > 0 => orders'[m] = orders[m]
      BY <1>1, <2>1, TaxedTracked
    <3>3. TaxOf(q)' = TaxOf(q)
      <4>1. [m \in Requests |-> IF fills'[q][m] > 0 THEN SalesTax(orders'[m].price, fills'[q][m]) ELSE 0]
          = [m \in Requests |-> IF fills[q][m] > 0 THEN SalesTax(orders[m].price, fills[q][m]) ELSE 0]
        BY <1>1, <3>2
      <4> QED BY <4>1 DEF TaxOf
    <3> QED BY <1>1, <3>1, <3>3 DEF ChargesOf
  <2>2. CASE q \notin DOMAIN entities[q]
    BY <1>1, <2>2 DEF ChargesOf
  <2> QED BY <2>1, <2>2
<1> QED BY <1>1, <1>4, <1>5 DEF AllSettled, SettledOf

(* A transaction that ends owes nothing more.                                *)
LEMMA EndedSettled ==
    ASSUME NEW r \in Requests, DOMAIN entities'[r] = {},
           delta'[r] = [c \in Characters |-> 0]
    PROVE  SettledOf(r)'
<1>1. ChargesOf(r)' = 0
  BY DEF ChargesOf
<1>2. Change(r)' = [o \in Requests |-> 0]
  BY DEF Change
<1> DEFINE f == [c \in Characters |-> 0]
           g == [o \in Requests |-> 0]
<1>3. DOMAIN f = Characters /\ DOMAIN g = Requests
      /\ (\A c \in Characters : f[c] = 0) /\ (\A o \in Requests : g[o] = 0)
      /\ IsFiniteSet(Characters) /\ IsFiniteSet(Requests)
  BY RequestsFinite
<1>4. delta'[r] = f /\ Change(r)' = g
  BY <1>2
<1> HIDE DEF f, g
<1>5. SumFunction(f) = 0 /\ SumFunction(g) = 0
  BY <1>3, SumOfNoughts
<1> QED BY <1>1, <1>4, <1>5 DEF SettledOf

(* A row tracked as it is committed changes nothing.                         *)
LEMMA TrackedSettled ==
    ASSUME TypeOK, NEW r \in Requests, SettledOf(r), delta'[r] = delta[r], orders' = orders,
           r \notin DOMAIN entities[r], r \notin DOMAIN entities'[r],
           \A o \in DOMAIN entities[r] : o \in DOMAIN entities'[r] /\ entities'[r][o] = entities[r][o],
           \A o \in DOMAIN entities'[r] \ DOMAIN entities[r] :
               o \in DOMAIN orders /\ entities'[r][o] = orders[o]
    PROVE  SettledOf(r)'
<1>1. ChargesOf(r)' = ChargesOf(r)
  BY DEF ChargesOf
<1>2. \A o \in DOMAIN orders : orders[o].escrow \in Int
  BY DEF TypeOK, IsPartialFn, Order
<1>3. \A o \in Requests :
        (IF o \in DOMAIN entities'[r] THEN entities'[r][o].escrow - HeldOf(orders, o) ELSE 0)
          = (IF o \in DOMAIN entities[r] THEN entities[r][o].escrow - HeldOf(orders, o) ELSE 0)
  BY <1>2 DEF HeldOf
<1>4. Change(r)' = Change(r)
  BY <1>3 DEF Change, HeldOf
<1> QED BY <1>1, <1>4 DEF SettledOf

LEMMA LockSettled ==
    ASSUME IInv, AllSettled, NEW r \in Requests,
           (\E o \in Requests : LockCandidate(r, o)) \/ LockOrder(r)
    PROVE  SettledOf(r)'
<1> USE DEF IInv
<1>0. delta' = delta /\ orders' = orders /\ r # Nobody /\ r \notin DOMAIN entities[r]
      /\ r \notin DOMAIN orders /\ DOMAIN entities = Requests
  BY MarketTxnAssumption DEF LockCandidate, LockOrder, dbVars, ControlOK, ControlOf, Nobody, TypeOK
<1>1. \A o \in DOMAIN entities[r] : orderLock[o] = r
  BY <1>0 DEF LockedCopies, LockedOf, Others
<1>2. ASSUME NEW o \in DOMAIN orders, orderLock[o] = Nobody,
             entities' = [entities EXCEPT ![r] = Put(@, o, orders[o])]
      PROVE  SettledOf(r)'
  <2>1. o # r /\ o \notin DOMAIN entities[r]
    BY <1>0, <1>1, <1>2
  <2>2. entities'[r] = Put(entities[r], o, orders[o])
    BY <1>0, <1>2
  <2>3. /\ DOMAIN entities'[r] = DOMAIN entities[r] \cup {o}
        /\ entities'[r][o] = orders[o]
        /\ \A p \in DOMAIN entities[r] : entities'[r][p] = entities[r][p]
    BY <2>1, <2>2 DEF Put
  <2> QED BY <1>0, <2>1, <2>3, TrackedSettled DEF AllSettled
<1>3. ASSUME entities'[r] = entities[r] PROVE SettledOf(r)'
  BY <1>0, <1>3, TrackedSettled DEF AllSettled
<1>4. ASSUME NEW o \in Requests, LockCandidate(r, o) PROVE SettledOf(r)'
  <2>1. o \in DOMAIN orders /\ orderLock[o] = Nobody
    BY <1>4 DEF LockCandidate, CanLockOrder, CandidatesExist
  <2>2. \/ entities' = [entities EXCEPT ![r] = Put(@, o, orders[o])]
        \/ entities' = [entities EXCEPT ![r] = @]
    BY <1>4 DEF LockCandidate
  <2>3. [entities EXCEPT ![r] = @][r] = entities[r]
    BY <1>0
  <2> QED BY <1>2, <1>3, <2>1, <2>2, <2>3
<1>5. ASSUME LockOrder(r) PROVE SettledOf(r)'
  <2>1. /\ call[r].order \in DOMAIN orders /\ orderLock[call[r].order] = Nobody
        /\ entities' = [entities EXCEPT ![r] = Put(@, call[r].order, orders[call[r].order])]
    BY <1>5 DEF LockOrder, CanLockOrder, Cancellable
  <2> QED BY <1>2, <2>1
<1> QED BY <1>4, <1>5

(* What is taken when an order is placed is its escrow and its fee.           *)
LEMMA InsertSettled ==
    ASSUME IInv, AllSettled, NEW r \in Requests, InsertOrder(r)
    PROVE  SettledOf(r)'
<1> USE DEF IInv
<1>1. /\ r \in DOMAIN call /\ call[r].op = "place" /\ r \notin DOMAIN entities[r]
      /\ \A p \in Requests : fills[r][p] = 0
      /\ r \notin DOMAIN orders /\ call' = call /\ seenBalance' = seenBalance
      /\ fills' = fills /\ orders' = orders
  BY DEF InsertOrder, ControlOK, ControlOf, Running, dbVars
<1>2. FeeOf(r) \in Int /\ EscrowOf(r) \in Int /\ call[r].char \in Characters
  BY <1>1, CostsTyped, CallTyped
<1>3. FeeOf(r)' = FeeOf(r)
  BY <1>1 DEF FeeOf
<1>4. TaxOf(r)' = 0
  <2> DEFINE f == [m \in Requests |->
                     IF fills'[r][m] > 0 THEN SalesTax(orders'[m].price, fills'[r][m]) ELSE 0]
  <2>1. DOMAIN f = Requests /\ \A m \in DOMAIN f : f[m] = 0
    BY <1>1
  <2>2. TaxOf(r)' = SumFunction(f)
    BY DEF TaxOf
  <2> HIDE DEF f
  <2> QED BY <2>1, <2>2, RequestsFinite, SumOfNoughts
<1>5. /\ entities'[r] = Put(entities[r], r, NewOrder(r)) /\ NewOrder(r).escrow = EscrowOf(r)
  BY DEF InsertOrder, TypeOK, NewOrder
<1>6. /\ DOMAIN entities'[r] = DOMAIN entities[r] \cup {r}
      /\ entities'[r][r].escrow = EscrowOf(r)
      /\ \A p \in DOMAIN entities[r] : entities'[r][p] = entities[r][p]
  BY <1>1, <1>5 DEF Put
<1>7. ChargesOf(r)' = FeeOf(r) /\ ChargesOf(r) = 0
  BY <1>1, <1>2, <1>3, <1>4, <1>6 DEF ChargesOf
<1> DEFINE before == Change(r)
           after == [o \in Requests |->
               IF o \in DOMAIN entities'[r] THEN entities'[r][o].escrow - HeldOf(orders, o) ELSE 0]
<1>8. Change(r)' = after
  BY <1>1 DEF Change, HeldOf
<1>9. /\ DOMAIN before = Requests /\ DOMAIN after = Requests
      /\ before[r] = 0 /\ after[r] = EscrowOf(r)
      /\ \A o \in Requests : o # r => after[o] = before[o]
  BY <1>1, <1>2, <1>6 DEF Change, HeldOf
<1>10. \A o \in Requests : before[o] \in Int /\ after[o] \in Int
  <2>1. \A o \in Requests : before[o] \in Int
    BY ChangeTyped
  <2> QED BY <1>2, <1>9, <2>1
<1> HIDE DEF before, after
<1>11. SumFunction(after) = SumFunction(before) + after[r] - before[r]
  BY <1>9, <1>10, RequestsFinite, SumMoves
<1> DEFINE c == call[r].char
           f == delta[r]
           g == delta'[r]
<1>12. /\ DOMAIN f = Characters /\ DOMAIN g = Characters /\ c \in Characters
       /\ \A d \in Characters : f[d] \in Int
       /\ \A d \in Characters : d # c => g[d] = f[d]
       /\ g[c] = f[c] - FeeOf(r) - EscrowOf(r)
  BY <1>2 DEF InsertOrder, TypeOK
<1>13. \A d \in Characters : g[d] \in Int
  BY <1>2, <1>12
<1>14. f = delta[r] /\ g = delta'[r]
  OBVIOUS
<1> HIDE DEF c, f, g
<1>15. SumFunction(g) = SumFunction(f) + g[c] - f[c]
  BY <1>12, <1>13, RequestsFinite, SumMoves
<1>16. SumFunction(f) \in Int /\ SumFunction(before) \in Int
  BY <1>9, <1>10, <1>12, RequestsFinite, SumTyped
<1>17. SumFunction(f) + SumFunction(before) + 0 = 0
  BY <1>7, <1>14 DEF AllSettled, SettledOf, before
<1>18. SumFunction(g) + SumFunction(after) + FeeOf(r) = 0
  BY <1>2, <1>9, <1>11, <1>12, <1>15, <1>16, <1>17
<1> QED BY <1>7, <1>8, <1>14, <1>18 DEF SettledOf

(* Who buys and who sells in a fill.                                         *)
LEMMA FillSides ==
    ASSUME IInv, NEW r \in Requests, NEW o \in Requests, Fill(r, o)
    PROVE  /\ BuyerOf(r, o).char \in Characters /\ SellerOf(r, o).char \in Characters
           /\ BuyerOf(r, o).price \in Int /\ entities[r][o].price \in Int
           /\ entities[r][o].price = orders[o].price
           /\ \E b \in {r, o} :
                  /\ entities[r][b].side = "Buy" /\ BuyerOf(r, o) = entities[r][b]
                  /\ \A s \in {r, o} \ {b} : entities[r][s].side # "Buy"
<1> USE DEF IInv
<1>1. /\ call[r].op = "place" /\ r \in DOMAIN entities[r] /\ o \in Others(r) /\ Running(r)
      /\ entities[r][r] \in Order /\ entities[r][o] \in Order /\ call[r].side \in Side
  BY FillParties, CallTyped DEF Fill, Running
<1>2. /\ entities[r][r].side = call[r].side
      /\ orders[o].side = Opposite(call[r].side)
  BY <1>1 DEF MatchesAgreed, MatchedOf, Agreed
<1>3. entities[r][o].side = orders[o].side /\ entities[r][o].price = orders[o].price
  BY <1>1 DEF LockedCopies, LockedOf, SameTerms
<1>4. o # r
  BY <1>1 DEF Others
<1>5. CASE call[r].side = "Buy"
  <2>1. /\ BuyerOf(r, o) = entities[r][r] /\ SellerOf(r, o) = entities[r][o]
        /\ entities[r][r].side = "Buy" /\ entities[r][o].side # "Buy"
    BY <1>2, <1>3, <1>5 DEF BuyerOf, SellerOf, Opposite
  <2> QED BY <1>1, <1>3, <1>4, <2>1 DEF Order
<1>6. CASE call[r].side # "Buy"
  <2>1. /\ BuyerOf(r, o) = entities[r][o] /\ SellerOf(r, o) = entities[r][r]
        /\ entities[r][o].side = "Buy" /\ entities[r][r].side # "Buy"
    BY <1>1, <1>2, <1>3, <1>6 DEF BuyerOf, SellerOf, Opposite, Side
  <2> QED BY <1>1, <1>3, <1>4, <2>1 DEF Order
<1> QED BY <1>5, <1>6

(* A fill pays out what it releases, less the tax.                           *)
LEMMA FillPays ==
    ASSUME IInv, NEW r \in Requests, NEW o \in Requests, Fill(r, o)
    PROVE  SumFunction(delta'[r]) = SumFunction(delta[r])
               + BuyerOf(r, o).price * FillQuantity(r, o)
               - SalesTax(entities[r][o].price, FillQuantity(r, o))
<1> DEFINE quantity == FillQuantity(r, o)
           price == entities[r][o].price
           limit == BuyerOf(r, o).price
           buyer == BuyerOf(r, o).char
           seller == SellerOf(r, o).char
           proceeds == SellerProceeds(price, quantity)
           refund == BuyerRefund(limit, price, quantity)
           paid == [c \in Characters |-> PaidByFill(r, o, c)]
           sold == [c \in Characters |-> IF c = seller THEN proceeds ELSE 0]
           bought == [c \in Characters |-> IF c = buyer THEN refund ELSE 0]
           before == delta[r]
           after == delta'[r]
<1>1. /\ quantity \in Int /\ price \in Int /\ limit \in Int
      /\ buyer \in Characters /\ seller \in Characters
  BY FillAmount, FillSides DEF IInv
<1>2. SalesTax(price, quantity) \in Int
  BY <1>1, RatesAreIntegers
<1>3. limit * quantity \in Int /\ price * quantity \in Int
  BY <1>1
<1>4. /\ refund = limit * quantity - price * quantity
      /\ proceeds = price * quantity - SalesTax(price, quantity)
  <2> HIDE DEF limit, price, quantity
  <2>1. (limit - price) * quantity = limit * quantity - price * quantity
    BY <1>1
  <2> QED BY <2>1 DEF BuyerRefund, SellerProceeds, EscrowConsumed
<1>5. proceeds \in Int /\ refund \in Int
  BY <1>2, <1>3, <1>4
<1>6. proceeds + refund = limit * quantity - SalesTax(price, quantity)
  BY <1>2, <1>3, <1>4
<1>7. \A c \in Characters : paid[c] = sold[c] + bought[c]
  BY DEF PaidByFill
<1>8. /\ DOMAIN before = Characters /\ DOMAIN after = Characters /\ DOMAIN paid = Characters
      /\ DOMAIN sold = Characters /\ DOMAIN bought = Characters
      /\ \A c \in Characters : before[c] \in Int /\ after[c] = before[c] + paid[c]
  BY DEF Fill, IInv, TypeOK
<1>9. /\ sold[seller] = proceeds /\ \A c \in Characters : c # seller => sold[c] = 0
      /\ bought[buyer] = refund /\ \A c \in Characters : c # buyer => bought[c] = 0
  BY <1>1
<1>10. before = delta[r] /\ after = delta'[r]
  OBVIOUS
<1> HIDE DEF paid, sold, bought, before, after, proceeds, refund, buyer, seller
<1>11. SumFunction(sold) = proceeds
  BY <1>1, <1>5, <1>8, <1>9, RequestsFinite, SumOfOne
<1>12. SumFunction(bought) = refund
  BY <1>1, <1>5, <1>8, <1>9, RequestsFinite, SumOfOne
<1>13. \A c \in Characters : sold[c] \in Int /\ bought[c] \in Int
  BY <1>5, <1>9
<1>14. SumFunction(paid) = SumFunction(sold) + SumFunction(bought)
  <2>1. \A c \in DOMAIN sold : sold[c] \in Int /\ bought[c] \in Int /\ paid[c] = sold[c] + bought[c]
    BY <1>7, <1>8, <1>13
  <2> QED BY <1>8, <2>1, RequestsFinite, SumAdds
<1>15. SumFunction(after) = SumFunction(before) + SumFunction(paid)
  <2>1. \A c \in DOMAIN before : before[c] \in Int /\ paid[c] \in Int /\ after[c] = before[c] + paid[c]
    BY <1>7, <1>8, <1>13
  <2> QED BY <1>8, <2>1, RequestsFinite, SumAdds
<1>16. SumFunction(before) \in Int
  BY <1>8, RequestsFinite, SumTyped
<1>17. SumFunction(after) = SumFunction(before) + (proceeds + refund)
  BY <1>5, <1>11, <1>12, <1>14, <1>15, <1>16
<1>18. SumFunction(after) = SumFunction(before) + (limit * quantity - SalesTax(price, quantity))
  BY <1>6, <1>17
<1> DEFINE released == limit * quantity
           tax == SalesTax(price, quantity)
<1>19. released \in Int /\ tax \in Int /\ SumFunction(after) = SumFunction(before) + (released - tax)
  BY <1>2, <1>3, <1>18
<1> HIDE DEF released, tax
<1>20. SumFunction(after) = SumFunction(before) + released - tax
  BY <1>16, <1>19
<1> QED BY <1>10, <1>20 DEF released, tax

(* It comes out of the buyer's escrow.                                       *)
LEMMA FillReleases ==
    ASSUME IInv, NEW r \in Requests, NEW o \in Requests, Fill(r, o)
    PROVE  SumFunction(Change(r))' = SumFunction(Change(r)) - BuyerOf(r, o).price * FillQuantity(r, o)
<1> DEFINE quantity == FillQuantity(r, o)
           price == entities[r][o].price
           released == BuyerOf(r, o).price * quantity
           before == Change(r)
           after == [p \in Requests |->
               IF p \in DOMAIN entities'[r] THEN entities'[r][p].escrow - HeldOf(orders, p) ELSE 0]
<1>0. TypeOK /\ ControlOK
  BY DEF IInv
<1>1. quantity \in Int /\ price \in Int /\ BuyerOf(r, o).price \in Int
  <2>1. quantity \in Nat
    BY <1>0, FillAmount
  <2>2. BuyerOf(r, o).price \in Int /\ price \in Int
    BY FillSides
  <2> QED BY <2>1, <2>2
<1>2. released \in Int
  BY <1>1
<1>3. PICK b \in {r, o} : /\ entities[r][b].side = "Buy" /\ BuyerOf(r, o) = entities[r][b]
                          /\ \A s \in {r, o} \ {b} : entities[r][s].side # "Buy"
  BY FillSides
<1>4. r \in DOMAIN entities[r] /\ o \in DOMAIN entities[r]
      /\ entities[r][r] \in Order /\ entities[r][o] \in Order
  BY <1>0, FillParties DEF Others
<1>5. TotalEscrowReleased(entities[r][b].price, price, quantity) = released
  BY <1>1, <1>3, ReleasedAtLimit
<1>6. /\ DOMAIN entities'[r] = DOMAIN entities[r]
      /\ \A p \in {r, o} : entities'[r][p] = AfterFill(entities[r][p], quantity, price)
      /\ \A p \in DOMAIN entities[r] : p \notin {r, o} => entities'[r][p] = entities[r][p]
  <2>1. TypeOK /\ ControlOK
    BY DEF IInv
  <2>2. entities'[r][r] = AfterFill(entities[r][r], quantity, price)
        /\ entities'[r][o] = AfterFill(entities[r][o], quantity, price)
    BY <2>1, FillParts
  <2>3. DOMAIN entities'[r] = DOMAIN entities[r]
    BY <2>1, FillParts
  <2>4. \A p \in DOMAIN entities[r] : p \notin {r, o} => entities'[r][p] = entities[r][p]
    BY <2>1, FillParts
  <2> HIDE DEF quantity, price
  <2> QED BY <2>2, <2>3, <2>4
<1>7. \A p \in {r, o} : AfterFill(entities[r][p], quantity, price).escrow =
            IF entities[r][p].side = "Buy"
            THEN entities[r][p].escrow - TotalEscrowReleased(entities[r][p].price, price, quantity)
            ELSE entities[r][p].escrow
  <2> SUFFICES ASSUME NEW x \in Order
               PROVE  AfterFill(x, quantity, price).escrow =
                          IF x.side = "Buy"
                          THEN x.escrow - TotalEscrowReleased(x.price, price, quantity)
                          ELSE x.escrow
    BY <1>4
  <2> HIDE DEF quantity, price
  <2> QED BY DEF AfterFill, Order
<1> HIDE DEF quantity, price, released
<1>8. /\ entities'[r][b].escrow = entities[r][b].escrow - released
      /\ \A p \in DOMAIN entities[r] : p # b => entities'[r][p].escrow = entities[r][p].escrow
  BY <1>3, <1>4, <1>5, <1>6, <1>7
<1>9. orders' = orders
  BY DEF Fill, dbVars
<1>10. Change(r)' = after
  BY <1>9 DEF Change, HeldOf
<1>11. b \in DOMAIN entities[r] /\ b \in Requests /\ entities[r][b].escrow \in Int
  BY <1>3, <1>4 DEF Order
<1>12. \A p \in Requests : HeldOf(orders, p) \in Int /\ before[p] \in Int
  BY ChangeTyped DEF IInv
<1>13. before[b] = entities[r][b].escrow - HeldOf(orders, b)
       /\ after[b] = entities[r][b].escrow - released - HeldOf(orders, b)
  BY <1>6, <1>8, <1>11 DEF Change
<1>14. after[b] = before[b] - released /\ after[b] \in Int
  BY <1>2, <1>11, <1>12, <1>13
<1>15. \A p \in Requests : p # b => after[p] = before[p]
  BY <1>6, <1>8 DEF Change
<1>16. DOMAIN before = Requests /\ DOMAIN after = Requests
  BY DEF Change
<1> HIDE DEF before, after
<1>17. \A p \in Requests : before[p] \in Int /\ after[p] \in Int
  BY <1>12, <1>14, <1>15
<1>18. SumFunction(after) = SumFunction(before) + after[b] - before[b]
  BY <1>11, <1>15, <1>16, <1>17, RequestsFinite, SumMoves
<1>19. SumFunction(before) \in Int
  BY <1>16, <1>17, RequestsFinite, SumTyped
<1>20. SumFunction(after) = SumFunction(before) - released
  BY <1>2, <1>11, <1>14, <1>17, <1>18, <1>19
<1> QED BY <1>10, <1>20 DEF before, released, quantity

(* And the tax of it is charged.                                             *)
LEMMA FillTaxed ==
    ASSUME IInv, NEW r \in Requests, NEW o \in Requests, Fill(r, o)
    PROVE  ChargesOf(r)' = ChargesOf(r) + SalesTax(entities[r][o].price, FillQuantity(r, o))
<1> USE DEF IInv
<1> DEFINE quantity == FillQuantity(r, o)
           before == [m \in Requests |->
               IF fills[r][m] > 0 THEN SalesTax(orders[m].price, fills[r][m]) ELSE 0]
           after == [m \in Requests |->
               IF fills'[r][m] > 0 THEN SalesTax(orders[m].price, fills'[r][m]) ELSE 0]
           tax == SalesTax(entities[r][o].price, quantity)
<1>1. /\ r \in DOMAIN entities[r] /\ DOMAIN entities'[r] = DOMAIN entities[r]
      /\ r \in DOMAIN call /\ call[r].op = "place" /\ o \in Others(r)
      /\ entities[r][r].remaining > 0 /\ entities[r][o].remaining > 0
  BY FillParties, FillEffect
<1>2. /\ orders' = orders /\ call' = call /\ seenBalance' = seenBalance /\ Running(r)
      /\ fills' = [fills EXCEPT ![r][o] = quantity]
  BY DEF Fill, dbVars, Running
<1>3. quantity \in Nat /\ quantity > 0 /\ entities[r][o].price \in Int
      /\ entities[r][o].price = orders[o].price
  BY FillAmount, FillSides
<1>4. fills[r][o] = 0
  <2>1. entities[r][o].remaining # 0 /\ entities[r][r].remaining # 0
    BY <1>1
  <2> QED BY <1>2, <2>1 DEF FilledOnce, FilledOf
<1>5. /\ fills'[r][o] = quantity
      /\ \A m \in Requests : m # o => fills'[r][m] = fills[r][m]
  BY <1>2 DEF TypeOK
<1>6. tax \in Int
  <2>1. quantity \in Int
    BY <1>3
  <2> QED BY <1>3, <2>1, RatesAreIntegers, Zenon
<1>7. \A m \in Requests : fills[r][m] > 0 => SalesTax(orders[m].price, fills[r][m]) \in Int
  BY <1>1, TaxTyped, TaxedTracked
<1>8. /\ DOMAIN before = Requests /\ DOMAIN after = Requests
      /\ before[o] = 0 /\ after[o] = tax
      /\ \A m \in Requests : m # o => after[m] = before[m]
      /\ \A m \in Requests : before[m] \in Int
  BY <1>3, <1>4, <1>5, <1>7
<1>9. TaxOf(r) = SumFunction(before) /\ TaxOf(r)' = SumFunction(after)
  BY <1>2 DEF TaxOf
<1> HIDE DEF before, after, tax, quantity
<1>10. \A m \in Requests : after[m] \in Int
  BY <1>6, <1>8
<1>11. SumFunction(after) = SumFunction(before) + after[o] - before[o]
  BY <1>8, <1>10, RequestsFinite, SumMoves
<1>12. SumFunction(before) \in Int
  BY <1>8, RequestsFinite, SumTyped
<1>13. TaxOf(r)' = TaxOf(r) + tax /\ TaxOf(r) \in Int
  BY <1>6, <1>8, <1>9, <1>11, <1>12
<1>14. FeeOf(r)' = FeeOf(r) /\ FeeOf(r) \in Int
  BY <1>1, <1>2, CostsTyped DEF FeeOf
<1>15. ChargesOf(r) = FeeOf(r) + TaxOf(r) /\ ChargesOf(r)' = FeeOf(r)' + TaxOf(r)'
  BY <1>1 DEF ChargesOf
<1>16. ChargesOf(r)' = ChargesOf(r) + tax
  BY <1>6, <1>13, <1>14, <1>15
<1> QED BY <1>16 DEF tax, quantity

LEMMA FillSettled ==
    ASSUME IInv, AllSettled, NEW r \in Requests, NEW o \in Requests, Fill(r, o)
    PROVE  SettledOf(r)'
<1> DEFINE released == BuyerOf(r, o).price * FillQuantity(r, o)
           tax == SalesTax(entities[r][o].price, FillQuantity(r, o))
<1>1. FillQuantity(r, o) \in Int /\ BuyerOf(r, o).price \in Int /\ entities[r][o].price \in Int
  BY FillAmount, FillSides DEF IInv
<1>2. released \in Int /\ tax \in Int
  <2>1. released \in Int
    BY <1>1
  <2>2. tax \in Int
    BY <1>1, RatesAreIntegers, Zenon
  <2> QED BY <2>1, <2>2
<1>3. /\ SumFunction(delta'[r]) = SumFunction(delta[r]) + released - tax
      /\ SumFunction(Change(r))' = SumFunction(Change(r)) - released
      /\ ChargesOf(r)' = ChargesOf(r) + tax
  BY FillPays, FillReleases, FillTaxed
<1> HIDE DEF released, tax
<1>4. SumFunction(delta[r]) \in Int /\ SumFunction(Change(r)) \in Int /\ ChargesOf(r) \in Int
  BY ChangeTyped, ChargesTyped DEF IInv
<1>5. SumFunction(delta[r]) + SumFunction(Change(r)) + ChargesOf(r) = 0
  BY DEF AllSettled, SettledOf
<1>6. SumFunction(delta'[r]) + SumFunction(Change(r))' + ChargesOf(r)' = 0
  BY <1>2, <1>3, <1>4, <1>5
<1> QED BY <1>6 DEF SettledOf

(* A cancelled order's escrow goes back whole.                               *)
LEMMA ReleaseSettled ==
    ASSUME IInv, AllSettled, NEW r \in Requests, Release(r)
    PROVE  SettledOf(r)'
<1> USE DEF IInv
<1> DEFINE o == call[r].order
           order == entities[r][o]
           escrow == order.escrow
           c == order.char
           before == Change(r)
           after == [p \in Requests |->
               IF p \in DOMAIN entities'[r] THEN entities'[r][p].escrow - HeldOf(orders, p) ELSE 0]
           f == delta[r]
           g == delta'[r]
<1>1. /\ r \notin DOMAIN entities[r] /\ o \in DOMAIN entities[r] /\ o \in Requests
      /\ orders' = orders
  BY DEF Release, ControlOK, ControlOf, Running, dbVars, TypeOK, IsPartialFn
<1>2. order \in Order /\ HoldsWhatItOwes(order)
  BY <1>1 DEF CopiesExact, TypeOK, IsPartialFn
<1>3. escrow \in Nat /\ c \in Characters
  <2> HIDE DEF order
  <2>1. /\ order.price \in Nat /\ order.remaining \in Nat /\ order.char \in Characters
        /\ order.escrow \in Int
    BY <1>2 DEF Order
  <2>2. order.price * order.remaining \in Nat
    BY <2>1, ProductNat
  <2>3. order.escrow = order.price * order.remaining \/ order.escrow = 0
    BY <1>2 DEF HoldsWhatItOwes, EscrowRequired, GrossValue
  <2> QED BY <2>1, <2>2, <2>3
<1>4. DOMAIN entities'[r] = DOMAIN entities[r] /\ entities'[r][o].escrow = 0
      /\ \A p \in DOMAIN entities[r] : p # o => entities'[r][p] = entities[r][p]
  <2>1. entities' = [entities EXCEPT ![r][o] = Closed(order)]
    BY DEF Release
  <2>2. Closed(order).escrow = 0
    BY <1>2 DEF Closed, Order
  <2> HIDE DEF order, o
  <2> QED BY <1>1, <2>1, <2>2 DEF TypeOK
<1>5. ChargesOf(r) = 0 /\ ChargesOf(r)' = 0
  BY <1>1, <1>4 DEF ChargesOf
<1>6. Change(r)' = after
  BY <1>1 DEF Change, HeldOf
<1>7. \A p \in Requests : HeldOf(orders, p) \in Int /\ before[p] \in Int
  BY ChangeTyped
<1>8. /\ DOMAIN before = Requests /\ DOMAIN after = Requests
      /\ before[o] = escrow - HeldOf(orders, o) /\ after[o] = 0 - HeldOf(orders, o)
      /\ \A p \in Requests : p # o => after[p] = before[p]
  BY <1>1, <1>4 DEF Change
<1>9. after[o] = before[o] - escrow
  BY <1>1, <1>3, <1>7, <1>8
<1>10. \/ escrow > 0 /\ delta' = [delta EXCEPT ![r][c] = @ + escrow]
       \/ escrow <= 0 /\ delta' = delta
  BY DEF Release
<1>11. /\ DOMAIN f = Characters /\ DOMAIN g = Characters
       /\ \A d \in Characters : f[d] \in Int
       /\ \A d \in Characters : d # c => g[d] = f[d]
       /\ g[c] = f[c] + escrow
  <2>0. delta \in [Requests -> [Characters -> Int]]
    BY DEF TypeOK
  <2> HIDE DEF escrow, c
  <2>1. CASE delta' = [delta EXCEPT ![r][c] = @ + escrow]
    BY <1>3, <2>0, <2>1
  <2>2. CASE escrow <= 0 /\ delta' = delta
    BY <1>3, <2>0, <2>2
  <2> QED BY <1>10, <2>1, <2>2
<1>12. f = delta[r] /\ g = delta'[r] /\ before = Change(r)
  OBVIOUS
<1> HIDE DEF o, order, escrow, c, before, after, f, g
<1>13. (\A d \in Characters : g[d] \in Int) /\ (\A p \in Requests : after[p] \in Int)
  BY <1>1, <1>3, <1>7, <1>8, <1>9, <1>11
<1>14. SumFunction(after) = SumFunction(before) + after[o] - before[o]
  BY <1>1, <1>7, <1>8, <1>13, RequestsFinite, SumMoves
<1>15. SumFunction(g) = SumFunction(f) + g[c] - f[c]
  BY <1>3, <1>11, <1>13, RequestsFinite, SumMoves
<1>16. SumFunction(f) \in Int /\ SumFunction(before) \in Int
  BY <1>7, <1>8, <1>11, RequestsFinite, SumTyped
<1>17. SumFunction(f) + SumFunction(before) + 0 = 0
  BY <1>5, <1>12 DEF AllSettled, SettledOf
<1>18. SumFunction(g) + SumFunction(after) + 0 = 0
  BY <1>1, <1>3, <1>7, <1>9, <1>11, <1>14, <1>15, <1>16, <1>17
<1> QED BY <1>5, <1>6, <1>12, <1>18 DEF SettledOf

LEMMA StaysSettled ==
    ASSUME NEW r \in Requests, SettledOf(r), r \notin DOMAIN entities[r],
           UNCHANGED <<orders, entities, delta>>
    PROVE  SettledOf(r)'
BY DEF SettledOf, Change, HeldOf, ChargesOf

LEMMA SettledStep ==
    ASSUME IInv, AllSettled, [Next]_vars
    PROVE  AllSettled'
<1> USE DEF IInv
<1>1. ASSUME Tick \/ UNCHANGED vars PROVE AllSettled'
  <2>1. UNCHANGED <<orders, entities, fills, call, seenBalance, delta>>
    BY <1>1 DEF Tick, vars, dbVars, txnVars
  <2> QED BY <2>1 DEF AllSettled, SettledOf, Change, HeldOf, ChargesOf, FeeOf, TaxOf
<1>2. SUFFICES ASSUME NEW r \in Requests,
                      \/ \E c \in Calls : Resolve(r, c)
                      \/ Step(r) \/ Disconnect(r)
               PROVE  SettledOf(r)'
  BY <1>1, OthersSettled DEF Next, AllSettled
<1>3. CASE Ends(r) \/ Commit(r)
  <2>1. EndTransaction(r)
    BY <1>3, EndsFacts DEF Rollback, Commit
  <2>2. DOMAIN entities'[r] = {} /\ delta'[r] = [c \in Characters |-> 0]
    BY <2>1, EmptyPartial DEF TypeOK, EndTransaction
  <2> QED BY <2>2, EndedSettled
<1>4. CASE (\E c \in Calls : Resolve(r, c)) \/ LockCharacter(r) \/ ReserveGoods(r) \/ Scan(r)
  <2>1. UNCHANGED <<orders, entities, delta>>
    BY <1>4 DEF Resolve, LockCharacter, ReserveGoods, Scan, dbVars, txnVars
  <2>2. r \notin DOMAIN entities[r]
    BY <1>4 DEF Resolve, LockCharacter, ReserveGoods, Scan, ControlOK, ControlOf, Running
  <2> QED BY <2>1, <2>2, StaysSettled DEF AllSettled
<1>5. CASE Flush(r)
  <2>1. UNCHANGED <<orders, entities, fills, call, seenBalance, delta>>
    BY <1>5 DEF Flush, dbVars, txnVars
  <2> QED BY <2>1 DEF AllSettled, SettledOf, Change, HeldOf, ChargesOf, FeeOf, TaxOf
<1> QED BY <1>2, <1>3, <1>4, <1>5, LockSettled, InsertSettled, FillSettled, ReleaseSettled
       DEF Step, PlaceStep, CancelStep, Ends

--------------------------------------------------------------------------------
(* What the commit brings to the balances, the book and the charges.         *)

(* What an order on the book was charged stays what it was.                  *)
LEMMA CallsKept ==
    ASSUME TypeOK, ControlOK, [Next]_vars, NEW t \in Requests, t \in DOMAIN orders, t \in DOMAIN call
    PROVE  t \in DOMAIN call' /\ call'[t] = call[t] /\ seenBalance'[t] = seenBalance[t]
<1>1. pc[t] = "done"
  BY DEF ControlOK, ControlOf
<1>2. ASSUME Tick \/ UNCHANGED vars
      PROVE  t \in DOMAIN call' /\ call'[t] = call[t] /\ seenBalance'[t] = seenBalance[t]
  BY <1>2 DEF Tick, vars
<1>3. ASSUME NEW r \in Requests,
             \/ \E c \in Calls : Resolve(r, c)
             \/ Step(r) \/ Disconnect(r)
      PROVE  t \in DOMAIN call' /\ call'[t] = call[t] /\ seenBalance'[t] = seenBalance[t]
  <2>1. r # t
    BY <1>1, <1>3, WaitingRuns
       DEF Running, Resolve, Step, PlaceStep, CancelStep, Disconnect, DeadlockVictim,
           LockCharacter, RefuseFunds, ReserveGoods, RefuseGoods, Scan, LockCandidate, InsertOrder,
           Fill, LockOrder, RefuseCancel, Release, Flush, FlushFails, AtFlush, Commit
  <2>2. seenBalance'[t] = seenBalance[t]
    BY <1>3, <2>1, OthersPaid
  <2>3. CASE \E c \in Calls : Resolve(r, c)
    BY <2>1, <2>2, <2>3 DEF Resolve, Put
  <2>4. CASE Rollback(r)
    BY <2>1, <2>2, <2>4 DEF Rollback
  <2>5. CASE ~(\E c \in Calls : Resolve(r, c)) /\ ~Rollback(r)
    <3>1. call' = call
      BY <1>3, <2>5, EndsFacts
         DEF Ends, Step, PlaceStep, CancelStep, LockCharacter, ReserveGoods, Scan, LockCandidate,
             InsertOrder, Fill, LockOrder, Release, Flush, Commit
    <3> QED BY <2>2, <3>1
  <2> QED BY <2>3, <2>4, <2>5
<1> QED BY <1>2, <1>3 DEF Next

LEMMA PlacersStep ==
    ASSUME IInv, PlacersKnown, InitialStays, [Next]_vars
    PROVE  PlacersKnown'
<1> USE DEF IInv
<1> SUFFICES ASSUME NEW t \in DOMAIN orders', t \notin DOMAIN InitialBook
             PROVE  t \in DOMAIN call' /\ call'[t].op = "place"
  BY DEF PlacersKnown
<1>1. CASE t \in DOMAIN orders
  BY <1>1, CallsKept, RequestsFinite DEF PlacersKnown
<1>2. CASE t \notin DOMAIN orders
  <2>1. t \in Requests /\ Commit(t) /\ t \in DOMAIN entities[t]
    BY <1>2, TermsKept
  <2>2. t \in DOMAIN call /\ call[t].op = "place"
    BY <2>1, CallTyped DEF ControlOK, ControlOf
  <2> QED BY <2>1, <2>2 DEF Commit
<1> QED BY <1>1, <1>2

LEMMA ChargesKept ==
    ASSUME IInv, PlacersKnown, InitialStays, [Next]_vars, NEW t \in DOMAIN orders \ DOMAIN InitialBook
    PROVE  FeeOf(t)' = FeeOf(t) /\ TaxOf(t)' = TaxOf(t) /\ FeeOf(t) \in Int /\ TaxOf(t) \in Int
<1> USE DEF IInv
<1>1. /\ t \in Requests /\ t \in DOMAIN call /\ call[t].op = "place"
      /\ fills'[t] = fills[t]
      /\ \A m \in Requests : fills[t][m] > 0 => m \in DOMAIN orders
  BY RequestsFinite, FillsKept DEF PlacersKnown, TradesAgreed
<1>2. FeeOf(t)' = FeeOf(t)
  BY <1>1, CallsKept DEF FeeOf
<1>3. \A m \in Requests : fills[t][m] > 0 => orders'[m].price = orders[m].price
  BY <1>1, TermsKept DEF SameTerms
<1>4. [m \in Requests |-> IF fills'[t][m] > 0 THEN SalesTax(orders'[m].price, fills'[t][m]) ELSE 0]
    = [m \in Requests |-> IF fills[t][m] > 0 THEN SalesTax(orders[m].price, fills[t][m]) ELSE 0]
  BY <1>1, <1>3
<1>5. TaxOf(t)' = TaxOf(t)
  BY <1>4 DEF TaxOf
<1> QED BY <1>1, <1>2, <1>5, CostsTyped, TaxTyped

LEMMA EscrowPadded ==
    ASSUME NEW book, IsPartialFn(book, Requests, Order)
    PROVE  /\ Escrowed(book) = SumFunction([o \in Requests |-> HeldOf(book, o)])
           /\ Escrowed(book) \in Int
           /\ \A o \in Requests : HeldOf(book, o) \in Int
<1> DEFINE f == [o \in DOMAIN book |-> book[o].escrow]
           g == [o \in Requests |-> HeldOf(book, o)]
<1>1. \A o \in DOMAIN book : book[o].escrow \in Int
  BY DEF IsPartialFn, Order
<1>2. \A o \in Requests : HeldOf(book, o) \in Int
  BY <1>1 DEF HeldOf
<1>3. /\ DOMAIN f = DOMAIN book /\ DOMAIN g = Requests /\ DOMAIN f \subseteq DOMAIN g
      /\ \A o \in DOMAIN f : f[o] \in Int /\ g[o] = f[o]
      /\ \A o \in DOMAIN g \ DOMAIN f : g[o] = 0
  BY <1>1 DEF IsPartialFn, HeldOf
<1>4. Escrowed(book) = SumFunction(f)
  BY DEF Escrowed
<1> HIDE DEF f
<1>5. IsFiniteSet(DOMAIN f) /\ IsFiniteSet(Requests)
  BY <1>3, RequestsFinite, FS_Subset
<1>6. SumFunction(f) \in Int
  BY <1>3, <1>5, SumTyped
<1>7. SumFunction(g) = SumFunction(f)
  <2> HIDE DEF g
  <2> QED BY <1>3, <1>5, SumPads
<1> QED BY <1>2, <1>4, <1>6, <1>7

LEMMA CommitCredits ==
    ASSUME IInv, IInv', NEW r \in Requests, Commit(r)
    PROVE  /\ SumFunction(balance') = SumFunction(balance) + SumFunction(delta[r])
           /\ SumFunction(balance) \in Int
           /\ Escrowed(orders') = Escrowed(orders) + SumFunction(Change(r))
           /\ Escrowed(orders) \in Int
<1> USE DEF IInv
<1>1. /\ DOMAIN balance = Characters /\ DOMAIN delta[r] = Characters /\ DOMAIN balance' = Characters
      /\ \A c \in Characters : /\ balance[c] \in Int /\ delta[r][c] \in Int
                               /\ balance'[c] = balance[c] + delta[r][c]
  BY DEF Commit, TypeOK
<1>2. SumFunction(balance') = SumFunction(balance) + SumFunction(delta[r])
  BY <1>1, RequestsFinite, SumAdds
<1>3. SumFunction(balance) \in Int
  BY <1>1, RequestsFinite, SumTyped
<1> DEFINE before == [o \in Requests |-> HeldOf(orders, o)]
           after == [o \in Requests |-> HeldOf(orders', o)]
           change == Change(r)
<1>4. IsPartialFn(orders, Requests, Order) /\ IsPartialFn(orders', Requests, Order)
  BY DEF TypeOK
<1>5. /\ Escrowed(orders) = SumFunction(before) /\ Escrowed(orders) \in Int
      /\ Escrowed(orders') = SumFunction(after)
      /\ \A o \in Requests : HeldOf(orders, o) \in Int /\ HeldOf(orders', o) \in Int
  BY <1>4, EscrowPadded
<1>6. \A o \in Requests : change[o] \in Int /\ HeldOf(orders', o) = HeldOf(orders, o) + change[o]
  <2> SUFFICES ASSUME NEW o \in Requests
               PROVE  change[o] \in Int /\ HeldOf(orders', o) = HeldOf(orders, o) + change[o]
    OBVIOUS
  <2>1. orders' = [p \in DOMAIN orders \cup DOMAIN entities[r] |->
                     IF p \in DOMAIN entities[r] THEN entities[r][p] ELSE orders[p]]
    BY DEF Commit
  <2>2. CASE o \in DOMAIN entities[r]
    <3>1. HeldOf(orders', o) = entities[r][o].escrow
      BY <2>1, <2>2 DEF HeldOf
    <3>2. change[o] = entities[r][o].escrow - HeldOf(orders, o)
      BY <2>2 DEF Change
    <3> QED BY <1>5, <3>1, <3>2
  <2>3. CASE o \notin DOMAIN entities[r]
    <3>1. HeldOf(orders', o) = HeldOf(orders, o)
      BY <2>1, <2>3 DEF HeldOf
    <3>2. change[o] = 0
      BY <2>3 DEF Change
    <3> QED BY <1>5, <3>1, <3>2
  <2> QED BY <2>2, <2>3
<1>7. /\ DOMAIN before = Requests /\ DOMAIN after = Requests /\ DOMAIN change = Requests
      /\ \A o \in Requests : before[o] \in Int /\ change[o] \in Int /\ after[o] = before[o] + change[o]
  BY <1>5, <1>6 DEF Change
<1>8. change = Change(r)
  OBVIOUS
<1> HIDE DEF before, after, change
<1>9. SumFunction(after) = SumFunction(before) + SumFunction(change)
  BY <1>7, RequestsFinite, SumAdds
<1> QED BY <1>2, <1>3, <1>5, <1>8, <1>9

LEMMA CommitCharges ==
    ASSUME IInv, PlacersKnown, InitialStays, NEW r \in Requests, Commit(r), [Next]_vars
    PROVE  Charged' = Charged + ChargesOf(r) /\ Charged \in Int
<1> USE DEF IInv
<1> DEFINE f == [o \in DOMAIN orders \ DOMAIN InitialBook |-> FeeOf(o) + TaxOf(o)]
           g == [o \in DOMAIN orders' \ DOMAIN InitialBook |-> FeeOf(o)' + TaxOf(o)']
<1>1. /\ r \notin DOMAIN orders /\ r \notin DOMAIN InitialBook
      /\ DOMAIN orders' = DOMAIN orders \cup (DOMAIN entities[r] \cap {r})
      /\ DOMAIN orders \subseteq DOMAIN orders'
  <2>1. r \notin DOMAIN orders
    BY DEF Commit, ControlOK, ControlOf
  <2>2. DOMAIN orders' = DOMAIN orders \cup DOMAIN entities[r]
    BY DEF Commit
  <2>3. DOMAIN entities[r] \ {r} \subseteq DOMAIN orders
    BY DEF LockedCopies, LockedOf, Others
  <2> QED BY <2>1, <2>2, <2>3 DEF InitialStays
<1>2. Charged = SumFunction(f) /\ Charged' = SumFunction(g)
  BY DEF Charged
<1>3. \A o \in DOMAIN f : f[o] \in Int /\ g[o] = f[o]
  <2> SUFFICES ASSUME NEW o \in DOMAIN orders \ DOMAIN InitialBook
               PROVE  f[o] \in Int /\ g[o] = f[o]
    OBVIOUS
  <2>1. FeeOf(o)' = FeeOf(o) /\ TaxOf(o)' = TaxOf(o) /\ FeeOf(o) \in Int /\ TaxOf(o) \in Int
    BY ChargesKept
  <2> QED BY <1>1, <2>1
<1>4. DOMAIN f = DOMAIN orders \ DOMAIN InitialBook /\ DOMAIN g = DOMAIN orders' \ DOMAIN InitialBook
      /\ (r \in DOMAIN g => g[r] = FeeOf(r)' + TaxOf(r)')
  OBVIOUS
<1> HIDE DEF f, g
<1>5. IsFiniteSet(DOMAIN f)
  BY <1>4, RequestsFinite, FS_Subset
<1>6. SumFunction(f) \in Int
  BY <1>3, <1>5, SumTyped
<1>7. CASE r \notin DOMAIN entities[r]
  <2>1. DOMAIN g = DOMAIN f
    BY <1>1, <1>4, <1>7
  <2>2. SumFunction(g) = SumFunction(f)
    BY <1>3, <1>5, <2>1, SumStays
  <2>3. ChargesOf(r) = 0
    BY <1>7 DEF ChargesOf
  <2> QED BY <1>2, <1>6, <2>2, <2>3
<1>8. CASE r \in DOMAIN entities[r]
  <2>1. DOMAIN g = DOMAIN f \cup {r} /\ r \notin DOMAIN f
    BY <1>1, <1>4, <1>8
  <2>2. FeeOf(r)' = FeeOf(r) /\ TaxOf(r)' = TaxOf(r)
    <3>1. \A m \in Requests : fills[r][m] > 0 => orders'[m].price = orders[m].price
      BY <1>8, TaxedTracked, TermsKept DEF SameTerms
    <3>2. fills' = fills /\ call' = call /\ seenBalance' = seenBalance
      BY DEF Commit
    <3>3. [m \in Requests |-> IF fills'[r][m] > 0 THEN SalesTax(orders'[m].price, fills'[r][m]) ELSE 0]
        = [m \in Requests |-> IF fills[r][m] > 0 THEN SalesTax(orders[m].price, fills[r][m]) ELSE 0]
      BY <3>1, <3>2
    <3> QED BY <3>2, <3>3 DEF FeeOf, TaxOf
  <2>3. g[r] = ChargesOf(r)
    BY <1>4, <1>8, <2>1, <2>2 DEF ChargesOf
  <2>4. g[r] \in Int
    BY <2>3, ChargesTyped
  <2>5. SumFunction(g) = SumFunction(f) + g[r]
    BY <1>3, <1>5, <2>1, <2>4, SumGrows
  <2> QED BY <1>2, <1>6, <2>3, <2>5
<1> QED BY <1>7, <1>8

(* Only a commit moves the balances or the book.                             *)
LEMMA BalanceChanges ==
    ASSUME [Next]_vars
    PROVE  (balance' = balance /\ orders' = orders) \/ \E r \in Requests : Commit(r)
<1>1. ASSUME NEW r \in Requests, Quiet(r) \/ Ends(r) \/ (\E o \in Requests : LockCandidate(r, o))
                                 \/ InsertOrder(r) \/ (\E o \in Requests : Fill(r, o))
                                 \/ LockOrder(r) \/ Release(r)
      PROVE  UNCHANGED dbVars
  <2>1. CASE Quiet(r)
    BY <2>1 DEF Quiet, Resolve, LockCharacter, ReserveGoods, Scan, Flush
  <2>2. CASE Ends(r)
    BY <2>2, EndsFacts DEF Rollback
  <2>3. CASE ~Quiet(r) /\ ~Ends(r)
    BY <1>1, <2>3 DEF LockCandidate, InsertOrder, Fill, LockOrder, Release
  <2> QED BY <2>1, <2>2, <2>3
<1>2. ASSUME Tick \/ UNCHANGED vars PROVE UNCHANGED dbVars
  BY <1>2 DEF Tick, vars
<1>3. UNCHANGED dbVars \/ \E r \in Requests : Commit(r)
  BY <1>1, <1>2, StepsSorted
<1> QED BY <1>3 DEF dbVars

LEMMA CreditsStep ==
    ASSUME IInv, IInv', AllSettled, PlacersKnown, InitialStays, CreditsConserved, [Next]_vars
    PROVE  CreditsConserved'
<1>1. CASE balance' = balance /\ orders' = orders
  <2>1. \A o \in DOMAIN orders \ DOMAIN InitialBook : FeeOf(o)' = FeeOf(o) /\ TaxOf(o)' = TaxOf(o)
    BY ChargesKept
  <2>2. [o \in DOMAIN orders' \ DOMAIN InitialBook |-> FeeOf(o)' + TaxOf(o)']
      = [o \in DOMAIN orders \ DOMAIN InitialBook |-> FeeOf(o) + TaxOf(o)]
    BY <1>1, <2>1
  <2>3. Charged' = Charged
    BY <2>2 DEF Charged
  <2> QED BY <1>1, <2>3 DEF CreditsConserved
<1>2. ASSUME NEW r \in Requests, Commit(r) PROVE CreditsConserved'
  <2>1. /\ SumFunction(balance') = SumFunction(balance) + SumFunction(delta[r])
        /\ SumFunction(balance) \in Int
        /\ Escrowed(orders') = Escrowed(orders) + SumFunction(Change(r))
        /\ Escrowed(orders) \in Int
    BY <1>2, CommitCredits
  <2>2. Charged' = Charged + ChargesOf(r) /\ Charged \in Int
    BY <1>2, CommitCharges
  <2>3. SumFunction(delta[r]) + SumFunction(Change(r)) + ChargesOf(r) = 0
    BY DEF AllSettled, SettledOf
  <2>4. SumFunction(delta[r]) \in Int /\ SumFunction(Change(r)) \in Int /\ ChargesOf(r) \in Int
    BY ChangeTyped, ChargesTyped DEF IInv
  <2>5. SumFunction(balance') + Escrowed(orders') + Charged'
          = SumFunction(balance) + Escrowed(orders) + Charged
    BY <2>1, <2>2, <2>3, <2>4
  <2> QED BY <2>5 DEF CreditsConserved, Escrowed
<1> QED BY <1>1, <1>2, BalanceChanges

--------------------------------------------------------------------------------
(* No order loses a unit, and no credit is lost.                              *)

SumInv == IInv /\ TakersAccount /\ InitialStays /\ OrdersAccountForTrades
               /\ AllSettled /\ PlacersKnown /\ CreditsConserved

LEMMA InitSumInv == Init => SumInv
<1> SUFFICES ASSUME Init PROVE SumInv
  OBVIOUS
<1>1. IInv
  BY InitIInv
<1>2. /\ orders = InitialBook /\ balance = InitialBalance
      /\ \A r \in Requests : DOMAIN entities[r] = {} /\ delta[r] = [c \in Characters |-> 0]
  BY EmptyPartial DEF Init
<1>3. TakersAccount /\ InitialStays /\ PlacersKnown
  BY <1>2 DEF TakersAccount, TakenOf, InitialStays, PlacersKnown
<1>4. OrdersAccountForTrades
  <2> SUFFICES ASSUME NEW o \in DOMAIN orders
               PROVE  TradedOf(o) = 0 /\ OfferedOf(o) = orders[o].remaining
                      /\ orders[o].remaining \in Int
                      /\ (orders[o].cancelled => orders[o].remaining = 0)
    BY DEF OrdersAccountForTrades
  <2> DEFINE f == [t \in DOMAIN orders |-> fills[t][o]]
             g == fills[o]
  <2>1. o \in Requests
    BY <1>1, RequestsFinite DEF IInv
  <2>2. (\A t \in Requests : fills[t][o] = 0 /\ fills[o][t] = 0) /\ DOMAIN fills[o] = Requests
    BY <2>1 DEF Init
  <2>3. DOMAIN f = DOMAIN orders /\ DOMAIN g = Requests
        /\ (\A t \in DOMAIN f : f[t] = 0) /\ (\A t \in DOMAIN g : g[t] = 0)
        /\ IsFiniteSet(DOMAIN f) /\ IsFiniteSet(DOMAIN g)
    BY <1>1, <2>2, RequestsFinite DEF IInv
  <2>4. TradedOf(o) = SumFunction(f) + SumFunction(g)
    BY DEF TradedOf
  <2> HIDE DEF f, g
  <2>5. SumFunction(f) = 0 /\ SumFunction(g) = 0
    BY <2>3, SumOfNoughts
  <2>6. OfferedOf(o) = orders[o].remaining
    BY <1>2 DEF OfferedOf
  <2>7. orders[o].remaining \in Int /\ (orders[o].cancelled => orders[o].remaining = 0)
    BY <1>2, MarketTxnAssumption DEF IsPartialFn, Order
  <2> QED BY <2>4, <2>5, <2>6, <2>7
<1>5. AllSettled
  <2> SUFFICES ASSUME NEW r \in Requests PROVE SettledOf(r)
    BY DEF AllSettled
  <2> DEFINE f == delta[r]
             g == Change(r)
  <2>1. DOMAIN f = Characters /\ (\A c \in DOMAIN f : f[c] = 0)
        /\ DOMAIN g = Requests /\ (\A o \in DOMAIN g : g[o] = 0)
        /\ IsFiniteSet(DOMAIN f) /\ IsFiniteSet(DOMAIN g) /\ ChargesOf(r) = 0
    BY <1>2, RequestsFinite DEF Change, ChargesOf
  <2>2. f = delta[r] /\ g = Change(r)
    OBVIOUS
  <2> HIDE DEF f, g
  <2>3. SumFunction(f) = 0 /\ SumFunction(g) = 0
    BY <2>1, SumOfNoughts
  <2> QED BY <2>1, <2>2, <2>3 DEF SettledOf
<1>6. CreditsConserved
  <2> DEFINE f == [o \in DOMAIN orders \ DOMAIN InitialBook |-> FeeOf(o) + TaxOf(o)]
  <2>1. DOMAIN f = {} /\ Charged = SumFunction(f)
    BY <1>2 DEF Charged
  <2> HIDE DEF f
  <2>2. Charged = 0
    BY <2>1, SumOfNothing
  <2>3. SumFunction(balance) \in Int /\ Escrowed(orders) \in Int
    <3>1. DOMAIN balance = Characters /\ \A c \in Characters : balance[c] \in Int
      BY <1>1 DEF IInv, TypeOK
    <3>2. IsPartialFn(orders, Requests, Order)
      BY <1>1 DEF IInv, TypeOK
    <3> QED BY <3>1, <3>2, RequestsFinite, SumTyped, EscrowPadded
  <2> QED BY <1>2, <2>2, <2>3 DEF CreditsConserved
<1> QED BY <1>1, <1>3, <1>4, <1>5, <1>6 DEF SumInv

LEMMA StepSumInv == SumInv /\ [Next]_vars => SumInv'
<1> SUFFICES ASSUME SumInv, [Next]_vars PROVE SumInv'
  OBVIOUS
<1>1. IInv'
  BY StepIInv DEF SumInv
<1>2. TakersAccount' /\ InitialStays'
  BY TakersStep, InitialStep DEF SumInv, IInv
<1>3. OrdersAccountForTrades' /\ AllSettled' /\ PlacersKnown'
  BY AccountsStep, SettledStep, PlacersStep DEF SumInv
<1>4. CreditsConserved'
  BY <1>1, CreditsStep DEF SumInv
<1> QED BY <1>1, <1>2, <1>3, <1>4 DEF SumInv

(* MarketService.cs: what a request has moved and not yet committed makes up   *)
(* for what the committed rows do not show.                                   *)
THEOREM SumsInvariant == Spec => []SumInv
BY InitSumInv, StepSumInv, PTL DEF Spec

(* What trades say left an order and what it still offers make up what it     *)
(* offered, whatever takers, cancels and failures interleave: no fill is lost *)
(* or counted twice.                                                         *)
THEOREM AccountsHeld == Spec => []OrdersAccountForTrades
<1>1. SumInv => OrdersAccountForTrades
  BY DEF SumInv
<1> QED BY <1>1, SumsInvariant, PTL

(* Fees and tax alone take credits out: through every placement, fill, refund *)
(* and cancel, balances, escrow and what was charged are what there was.     *)
THEOREM CreditsHeld == Spec => []CreditsConserved
<1>1. SumInv => CreditsConserved
  BY DEF SumInv
<1> QED BY <1>1, SumsInvariant, PTL

(* A fee and a tax take credits out; neither gives any.                       *)
LEMMA ChargesNotNegative ==
    ASSUME IInv, NEW r \in Requests
    PROVE  ChargesOf(r) \in Nat
<1> USE DEF IInv
<1>1. ASSUME r \in DOMAIN entities[r] PROVE FeeOf(r) \in Nat
  <2>1. r \in DOMAIN call /\ call[r].op = "place"
    BY <1>1, CallTyped DEF ControlOK, ControlOf
  <2>2. call[r].price \in Nat /\ call[r].quantity \in Nat
    BY <2>1, CallTyped
  <2>3. BrokerFeeBps \in Nat
    BY RatesAssumption
  <2>4. GrossValue(call[r].price, call[r].quantity) \in Nat
    BY <2>2, ProductNat DEF GrossValue
  <2>5. BrokerFee(call[r].price, call[r].quantity) \in Nat
    BY <2>3, <2>4, ChargedNoMoreThanDue DEF BrokerFee
  <2> QED BY <2>5 DEF FeeOf, EffectiveBrokerFee
<1>2. ASSUME r \in DOMAIN entities[r] PROVE TaxOf(r) \in Nat
  <2> DEFINE f == [m \in Requests |->
                      IF fills[r][m] > 0 THEN SalesTax(orders[m].price, fills[r][m]) ELSE 0]
  <2>1. \A m \in Requests : fills[r][m] > 0 => m \in DOMAIN orders
    BY <1>2, TaxedTracked
  <2>2. ASSUME NEW m \in Requests, fills[r][m] > 0
        PROVE  SalesTax(orders[m].price, fills[r][m]) \in Nat
    <3>1. orders[m].price \in Nat /\ fills[r][m] \in Nat
      BY <2>1, <2>2 DEF TypeOK, IsPartialFn, Order
    <3>2. \A p, q \in Nat : SalesTax(p, q) \in Nat
      <4>1. \A p, q \in Nat : GrossValue(p, q) \in Nat
        BY ProductNat DEF GrossValue
      <4> QED BY <4>1, SellerNeverOwes
    <3> QED BY <3>1, <3>2
  <2>3. DOMAIN f = Requests /\ \A m \in Requests : f[m] \in Nat
    BY <2>2
  <2>4. TaxOf(r) = SumFunction(f)
    BY DEF TaxOf
  <2> HIDE DEF f
  <2> QED BY <2>3, <2>4, RequestsFinite, SumNat DEF SumFunction
<1>3. CASE r \in DOMAIN entities[r]
  BY <1>1, <1>2, <1>3 DEF ChargesOf
<1>4. CASE r \notin DOMAIN entities[r]
  BY <1>4 DEF ChargesOf
<1> QED BY <1>3, <1>4

(* All the credits there are: in balances, and held by orders.                *)
CreditsThereAre == SumFunction(balance) + Escrowed(orders)

NothingMinted == [][CreditsThereAre' <= CreditsThereAre]_vars

(* No step creates credits: not a fill at a better price than the buyer's,    *)
(* which refunds, nor a cancel, nor a failure, nor requests that overlap.     *)
THEOREM NothingIsMinted == Spec => NothingMinted
<1>1. ASSUME SumInv, SumInv', [Next]_vars PROVE CreditsThereAre' <= CreditsThereAre
  <2>1. IInv /\ IInv' /\ AllSettled
    BY <1>1 DEF SumInv
  <2>2. SumFunction(balance) \in Int /\ Escrowed(orders) \in Int
    BY <2>1, RequestsFinite, SumTyped, EscrowPadded DEF IInv, TypeOK
  <2>3. CASE balance' = balance /\ orders' = orders
    BY <2>2, <2>3 DEF CreditsThereAre, Escrowed
  <2>4. ASSUME NEW r \in Requests, Commit(r) PROVE CreditsThereAre' <= CreditsThereAre
    <3>1. /\ SumFunction(balance') = SumFunction(balance) + SumFunction(delta[r])
          /\ Escrowed(orders') = Escrowed(orders) + SumFunction(Change(r))
      BY <2>1, <2>4, CommitCredits
    <3>2. SumFunction(delta[r]) + SumFunction(Change(r)) + ChargesOf(r) = 0
      BY <2>1 DEF AllSettled, SettledOf
    <3>3. /\ SumFunction(delta[r]) \in Int /\ SumFunction(Change(r)) \in Int
          /\ ChargesOf(r) \in Nat
      BY <2>1, ChangeTyped, ChargesNotNegative DEF IInv
    <3>4. SumFunction(balance') + Escrowed(orders') <= SumFunction(balance) + Escrowed(orders)
      BY <2>2, <3>1, <3>2, <3>3
    <3> QED BY <3>4 DEF CreditsThereAre, Escrowed
  <2> QED BY <1>1, <2>1, <2>3, <2>4, BalanceChanges
<1> QED BY <1>1, SumsInvariant, PTL DEF Spec, NothingMinted

--------------------------------------------------------------------------------
(* The atomic book.  A placement takes offers in the order the atomic one      *)
(* does, of what it was called with, at an id no other has.                   *)

(* What it has filled comes before what it could still take.                  *)
OrderedOf(r) ==
    r \in DOMAIN entities[r] =>
        \A p \in Others(r) : \A o \in Others(r) \ {p} :
            fills[r][p] # 0 /\ entities[r][o].remaining > 0 =>
                Better(call[r].side, entities[r][p], entities[r][o])

CalledOf(r) ==
    /\ r \in DOMAIN entities[r] =>
           entities[r][r].original = call[r].quantity /\ entities[r][r].id >= FirstId
    /\ pc[r] \in {"flush", "settle"} /\ call[r].op = "cancel" =>
           call[r].order \in DOMAIN entities[r]

FilledInOrder == \A r \in Requests : OrderedOf(r) /\ CalledOf(r)

Numbered == {s \in Requests : s \in DOMAIN entities[s] \/ pc[s] = "done"}
IdsLast == FirstId <= nextId /\ nextId <= FirstId + Cardinality(Numbered)

(* A request that locks rows tracks no order of its own yet.                  *)
LEMMA LocksNotOwn ==
    ASSUME TypeOK, ControlOK, CandidatesExist, NEW r \in Requests,
           (\E o \in Requests : LockCandidate(r, o)) \/ LockOrder(r)
    PROVE  r \notin DOMAIN entities'[r]
<1>1. r \notin DOMAIN entities[r] /\ r \notin DOMAIN orders
  BY DEF LockCandidate, LockOrder, ControlOK, ControlOf
<1>2. ASSUME NEW o \in Requests, LockCandidate(r, o) PROVE r \notin DOMAIN entities'[r]
  <2>1. o # r
    BY <1>1, <1>2 DEF LockCandidate, CandidatesExist
  <2>2. DOMAIN entities'[r] \subseteq DOMAIN entities[r] \cup {o}
    BY <1>2 DEF LockCandidate, TypeOK, Put
  <2> QED BY <1>1, <2>1, <2>2
<1>3. ASSUME LockOrder(r) PROVE r \notin DOMAIN entities'[r]
  <2>1. call[r].order # r
    BY <1>1, <1>3 DEF LockOrder, Cancellable
  <2>2. DOMAIN entities'[r] \subseteq DOMAIN entities[r] \cup {call[r].order}
    BY <1>3 DEF LockOrder, TypeOK, Put
  <2> QED BY <1>1, <2>1, <2>2
<1> QED BY <1>2, <1>3

(* What a fill leaves of the two orders.                                      *)
LEMMA FillLeaves ==
    ASSUME IInv, NEW r \in Requests, NEW o \in Requests, Fill(r, o)
    PROVE  /\ SameTerms(entities'[r][r], entities[r][r])
           /\ SameTerms(entities'[r][o], entities[r][o])
           /\ entities'[r][r].side = entities[r][r].side
           /\ entities'[r][o].side = entities[r][o].side
           /\ entities'[r][o].remaining = entities[r][o].remaining - FillQuantity(r, o)
           /\ fills'[r][o] = FillQuantity(r, o) /\ fills[r][o] = 0
           /\ \A p \in Requests : p # o => fills'[r][p] = fills[r][p]
           /\ call' = call /\ seenBalance' = seenBalance
<1> USE DEF IInv
<1> DEFINE quantity == FillQuantity(r, o)
           price == entities[r][o].price
<1>1. /\ o \in Others(r) /\ r \in DOMAIN entities[r]
      /\ entities[r][r] \in Order /\ entities[r][o] \in Order
      /\ entities[r][r].remaining > 0 /\ entities[r][o].remaining > 0
  BY FillParties
<1>2. /\ quantity \in Nat /\ price \in Int
      /\ quantity \in 0 .. entities[r][r].remaining /\ quantity \in 0 .. entities[r][o].remaining
      /\ entities'[r][r] = AfterFill(entities[r][r], quantity, price)
      /\ entities'[r][o] = AfterFill(entities[r][o], quantity, price)
      /\ HoldsWhatItOwes(entities[r][r]) /\ HoldsWhatItOwes(entities[r][o])
  <2>1. /\ entities'[r][r] = AfterFill(entities[r][r], quantity, price)
        /\ entities'[r][o] = AfterFill(entities[r][o], quantity, price)
    BY FillEffect
  <2>2. HoldsWhatItOwes(entities[r][r]) /\ HoldsWhatItOwes(entities[r][o])
    BY <1>1 DEF CopiesExact, Others
  <2>3. /\ quantity \in Nat /\ quantity <= entities[r][r].remaining
        /\ quantity <= entities[r][o].remaining
    BY FillAmount
  <2>4. price \in Int /\ entities[r][r].remaining \in Nat /\ entities[r][o].remaining \in Nat
    BY <1>1 DEF Order
  <2> HIDE DEF quantity, price
  <2> QED BY <2>1, <2>2, <2>3, <2>4
<1>3. /\ fills' = [fills EXCEPT ![r][o] = quantity] /\ call' = call /\ seenBalance' = seenBalance
      /\ fills \in [Requests -> [Requests -> Nat]] /\ Running(r)
  BY DEF Fill, TypeOK, Running
<1>4. fills[r][o] = 0
  BY <1>1, <1>3 DEF FilledOnce, FilledOf
<1> HIDE DEF quantity, price
<1>5. /\ SameTerms(AfterFill(entities[r][r], quantity, price), entities[r][r])
      /\ SameTerms(AfterFill(entities[r][o], quantity, price), entities[r][o])
      /\ AfterFill(entities[r][o], quantity, price).remaining = entities[r][o].remaining - quantity
  BY <1>1, <1>2, AfterFillExact
<1>6. /\ AfterFill(entities[r][r], quantity, price).side = entities[r][r].side
      /\ AfterFill(entities[r][o], quantity, price).side = entities[r][o].side
  BY <1>5 DEF SameTerms
<1> QED BY <1>2, <1>3, <1>4, <1>5, <1>6 DEF quantity

LEMMA OrderedStep ==
    ASSUME IInv, IdsLast, FilledInOrder, [Next]_vars
    PROVE  FilledInOrder'
<1> USE DEF IInv
<1>1. ASSUME Tick \/ UNCHANGED vars PROVE FilledInOrder'
  <2>1. /\ orders' = orders /\ entities' = entities /\ fills' = fills
        /\ pc' = pc /\ call' = call
    BY <1>1, IdleFacts
  <2> QED BY <2>1 DEF FilledInOrder, OrderedOf, CalledOf, Others
<1>2. SUFFICES ASSUME NEW r \in Requests,
                      \/ \E c \in Calls : Resolve(r, c)
                      \/ Step(r) \/ Disconnect(r)
               PROVE  OrderedOf(r)' /\ CalledOf(r)'
  <2>1. ASSUME NEW r \in Requests, NEW q \in Requests, q # r,
               \/ \E c \in Calls : Resolve(r, c)
               \/ Step(r) \/ Disconnect(r)
        PROVE  OrderedOf(q)' /\ CalledOf(q)'
    <3>1. /\ entities'[q] = entities[q] /\ fills'[q] = fills[q] /\ pc'[q] = pc[q]
          /\ q \in DOMAIN call => call'[q] = call[q]
      BY <2>1, OthersLocked
    <3>2. q \in DOMAIN entities[q] \/ pc[q] \in {"flush", "settle"} => q \in DOMAIN call
      BY DEF ControlOK, ControlOf, Running
    <3>3. OrderedOf(q) /\ CalledOf(q)
      BY DEF FilledInOrder
    <3> QED BY <3>1, <3>2, <3>3 DEF OrderedOf, CalledOf, Others
  <2> QED BY <1>1, <2>1 DEF Next, FilledInOrder
<1>3. CASE Ends(r) \/ Commit(r)
  <2>1. DOMAIN entities'[r] = {} /\ pc'[r] = "done"
    BY <1>3, EndsDone, EmptyPartial
  <2> QED BY <2>1 DEF OrderedOf, CalledOf
<1>4. CASE \E c \in Calls : Resolve(r, c)
  <2>1. entities' = entities /\ DOMAIN entities[r] = {} /\ pc'[r] \notin {"flush", "settle"}
    BY <1>4 DEF Resolve, txnVars, ControlOK, ControlOf, Running, GoTo, TypeOK
  <2> QED BY <2>1 DEF OrderedOf, CalledOf
<1>5. CASE LockCharacter(r) \/ ReserveGoods(r) \/ Scan(r)
  <2>1. entities' = entities /\ r \notin DOMAIN entities[r] /\ pc'[r] \notin {"flush", "settle"}
    BY <1>5 DEF LockCharacter, ReserveGoods, Scan, txnVars, ControlOK, ControlOf, GoTo, TypeOK
  <2> QED BY <2>1 DEF OrderedOf, CalledOf
<1>6. CASE (\E o \in Requests : LockCandidate(r, o)) \/ LockOrder(r)
  <2>1. r \notin DOMAIN entities'[r]
    BY <1>6, LocksNotOwn
  <2>2. pc'[r] \notin {"flush", "settle"}
    BY <1>6 DEF LockCandidate, LockOrder, GoTo, TypeOK
  <2> QED BY <2>1, <2>2 DEF OrderedOf, CalledOf
<1>7. CASE InsertOrder(r)
  <2>1. /\ r \in DOMAIN call /\ call[r].op = "place" /\ fills' = fills /\ call' = call
        /\ \A p \in Requests : fills[r][p] = 0
    BY <1>7 DEF InsertOrder, ControlOK, ControlOf, Running
  <2>2. entities'[r][r] = NewOrder(r) /\ DOMAIN entities'[r] \subseteq Requests
    BY <1>7 DEF InsertOrder, TypeOK, Put, IsPartialFn
  <2>3. NewOrder(r).original = call[r].quantity /\ NewOrder(r).id = nextId
    BY DEF NewOrder
  <2> QED BY <2>1, <2>2, <2>3 DEF OrderedOf, CalledOf, Others, IdsLast
<1>8. CASE Flush(r)
  <2>1. UNCHANGED <<entities, fills, call>> /\ pc[r] = "flush"
    BY <1>8 DEF Flush, txnVars
  <2> QED BY <2>1 DEF FilledInOrder, OrderedOf, CalledOf, Others
<1>9. CASE \E o \in Requests : Fill(r, o)
  <2>1. PICK o \in Requests : Fill(r, o)
    BY <1>9
  <2>2. /\ o \in Others(r) /\ r \in DOMAIN entities[r] /\ call[r].op = "place"
        /\ entities[r][r].remaining > 0 /\ entities[r][o].remaining > 0
    BY <2>1, FillParties
  <2>3. /\ DOMAIN entities'[r] = DOMAIN entities[r]
        /\ SameTerms(entities'[r][r], entities[r][r]) /\ SameTerms(entities'[r][o], entities[r][o])
        /\ \A p \in Others(r) : p # o => entities'[r][p] = entities[r][p]
        /\ \A p \in Requests : p # o => fills'[r][p] = fills[r][p]
        /\ call' = call
    <3>1. /\ DOMAIN entities'[r] = DOMAIN entities[r]
          /\ \A p \in DOMAIN entities[r] : p \notin {r, o} => entities'[r][p] = entities[r][p]
      BY <2>1, FillEffect
    <3>2. /\ SameTerms(entities'[r][r], entities[r][r]) /\ SameTerms(entities'[r][o], entities[r][o])
          /\ \A p \in Requests : p # o => fills'[r][p] = fills[r][p]
          /\ call' = call
      BY <2>1, FillLeaves
    <3> QED BY <3>1, <3>2 DEF Others
  <2>4. /\ \A p \in Others(r) : entities'[r][p].price = entities[r][p].price
                                /\ entities'[r][p].id = entities[r][p].id
        /\ \A p \in Others(r) : entities'[r][p].remaining > 0 => entities[r][p].remaining > 0
    BY <2>2, <2>3 DEF SameTerms
  <2>5. ASSUME NEW p \in Others(r), NEW m \in Others(r) \ {p},
               fills'[r][p] # 0, entities'[r][m].remaining > 0
        PROVE  Better(call[r].side, entities[r][p], entities[r][m])
    <3>1. p \in Requests /\ entities[r][m].remaining > 0
      BY <2>4, <2>5 DEF Others, TypeOK, IsPartialFn
    <3>2. CASE p = o
      BY <2>1, <2>5, <3>1, <3>2 DEF Fill, IsNext, Resting, Others
    <3>3. CASE p # o
      BY <2>2, <2>3, <2>5, <3>1, <3>3 DEF FilledInOrder, OrderedOf
    <3> QED BY <3>2, <3>3
  <2>6. OrderedOf(r)'
    <3>1. \A p, m : p \in Others(r) /\ m \in Others(r) /\ Better(call[r].side, entities[r][p], entities[r][m])
                      => Better(call[r].side, entities'[r][p], entities'[r][m])
      BY <2>4 DEF Better
    <3> QED BY <2>3, <2>5, <3>1 DEF OrderedOf, Others
  <2> QED BY <2>2, <2>3, <2>6 DEF FilledInOrder, CalledOf, SameTerms
<1>10. CASE Release(r)
  <2>1. /\ r \notin DOMAIN entities[r] /\ DOMAIN entities'[r] = DOMAIN entities[r] /\ call' = call
        /\ call[r].order \in DOMAIN entities[r]
    BY <1>10 DEF Release, ControlOK, ControlOf, Running, TypeOK
  <2> QED BY <2>1 DEF OrderedOf, CalledOf
<1> QED BY <1>2, <1>3, <1>4, <1>5, <1>6, <1>7, <1>8, <1>9, <1>10 DEF Step, PlaceStep, CancelStep, Ends

(* A step is of a request under way, or begins one.                          *)
LEMMA StepsRun ==
    ASSUME NEW r \in Requests,
           \/ \E c \in Calls : Resolve(r, c)
           \/ Step(r) \/ Disconnect(r)
    PROVE  pc[r] # "done"
<1>1. CASE \E c \in Calls : Resolve(r, c)
  BY <1>1 DEF Resolve
<1>2. CASE PlaceStep(r)
  BY <1>2 DEF PlaceStep, LockCharacter, RefuseFunds, ReserveGoods, RefuseGoods, Scan,
              LockCandidate, InsertOrder, Fill
<1>3. CASE CancelStep(r)
  BY <1>3 DEF CancelStep, LockOrder, RefuseCancel, Release
<1>4. CASE Flush(r) \/ FlushFails(r) \/ Commit(r)
  BY <1>4 DEF Flush, FlushFails, AtFlush, Commit
<1>5. CASE DeadlockVictim(r) \/ Disconnect(r)
  BY <1>5, WaitingRuns DEF DeadlockVictim, Disconnect, Running
<1>6. QED
  BY <1>1, <1>2, <1>3, <1>4, <1>5 DEF Step

(* Each id is the order's of another request.                                 *)
LEMMA NumberedGrows ==
    ASSUME IInv, [Next]_vars
    PROVE  /\ Numbered \subseteq Numbered'
           /\ nextId' # nextId => nextId' = nextId + 1 /\ \E r \in Numbered' : r \notin Numbered
<1> USE DEF IInv
<1>1. ASSUME Tick \/ UNCHANGED vars PROVE Numbered' = Numbered /\ nextId' = nextId
  BY <1>1, IdleFacts DEF Numbered
<1>2. ASSUME NEW r \in Requests,
             \/ \E c \in Calls : Resolve(r, c)
             \/ Step(r) \/ Disconnect(r)
      PROVE  /\ \A s \in Numbered : s # r => s \in Numbered'
             /\ pc[r] # "done"
             /\ r \in DOMAIN entities[r] => r \in Numbered'
             /\ nextId' = nextId \/ (InsertOrder(r) /\ nextId' = nextId + 1 /\ r \in Numbered')
  <2>1. \A s \in Numbered : s # r => s \in Numbered'
    BY <1>2, OthersLocked DEF Numbered
  <2>2. pc[r] # "done"
    BY <1>2, StepsRun
  <2>3. CASE Ends(r) \/ Commit(r)
    <3>1. pc'[r] = "done" /\ nextId' = nextId
      BY <2>3, EndsDone
    <3> QED BY <2>1, <2>2, <3>1 DEF Numbered
  <2>4. CASE Quiet(r)
    <3>1. entities' = entities /\ nextId' = nextId
      BY <2>4, QuietFacts
    <3> QED BY <2>1, <2>2, <3>1 DEF Numbered
  <2>5. CASE (\E o \in Requests : LockCandidate(r, o)) \/ LockOrder(r) \/ Release(r)
    <3>1. r \notin DOMAIN entities[r] /\ nextId' = nextId
      BY <2>5 DEF LockCandidate, LockOrder, Release, ControlOK, ControlOf, Running
    <3> QED BY <2>1, <2>2, <3>1
  <2>6. CASE InsertOrder(r)
    <3>1. r \in DOMAIN entities'[r] /\ nextId' = nextId + 1
      BY <2>6 DEF InsertOrder, TypeOK, Put
    <3> QED BY <2>1, <2>2, <2>6, <3>1 DEF Numbered
  <2>7. CASE \E o \in Requests : Fill(r, o)
    <3>1. PICK o \in Requests : Fill(r, o)
      BY <2>7
    <3>2. DOMAIN entities'[r] = DOMAIN entities[r]
      BY <3>1, FillEffect
    <3>3. nextId' = nextId
      BY <3>1 DEF Fill
    <3> QED BY <2>1, <2>2, <3>2, <3>3 DEF Numbered
  <2> QED BY <1>2, <2>3, <2>4, <2>5, <2>6, <2>7 DEF Step, PlaceStep, CancelStep, Ends, Quiet
<1>3. ASSUME NEW r \in Requests,
             \/ \E c \in Calls : Resolve(r, c)
             \/ Step(r) \/ Disconnect(r)
      PROVE  /\ Numbered \subseteq Numbered'
             /\ nextId' # nextId => nextId' = nextId + 1 /\ r \in Numbered' /\ r \notin Numbered
  <2>1. r \in Numbered => r \in DOMAIN entities[r]
    BY <1>2, <1>3 DEF Numbered
  <2>2. InsertOrder(r) => r \notin DOMAIN entities[r]
    BY DEF InsertOrder, ControlOK, ControlOf
  <2> QED BY <1>2, <1>3, <2>1, <2>2
<1> QED BY <1>1, <1>3 DEF Next

LEMMA IdsLastStep ==
    ASSUME IInv, IdsLast, [Next]_vars
    PROVE  IdsLast'
<1>1. Numbered \subseteq Numbered'
      /\ (nextId' # nextId => nextId' = nextId + 1 /\ \E r \in Numbered' : r \notin Numbered)
  BY NumberedGrows
<1>2. IsFiniteSet(Numbered) /\ IsFiniteSet(Numbered')
  BY RequestsFinite, FS_Subset DEF Numbered
<1>3. Cardinality(Numbered) \in Nat /\ Cardinality(Numbered') \in Nat
  BY <1>2, FS_CardinalityType
<1>4. nextId \in Nat /\ FirstId \in Nat
  BY MarketTxnAssumption DEF IInv, TypeOK
<1>5. Cardinality(Numbered) <= Cardinality(Numbered')
  BY <1>1, <1>2, FS_Subset
<1>6. CASE nextId' = nextId
  BY <1>3, <1>4, <1>5, <1>6 DEF IdsLast
<1>7. CASE nextId' # nextId
  <2>1. PICK r \in Numbered' : r \notin Numbered
    BY <1>1, <1>7
  <2>2. Numbered \cup {r} \subseteq Numbered'
    BY <1>1, <2>1
  <2>3. IsFiniteSet(Numbered \cup {r}) /\ Cardinality(Numbered \cup {r}) = Cardinality(Numbered) + 1
    BY <1>2, <2>1, FS_AddElement
  <2>4. Cardinality(Numbered \cup {r}) <= Cardinality(Numbered')
    BY <1>2, <2>2, FS_Subset
  <2> QED BY <1>1, <1>3, <1>4, <1>7, <2>3, <2>4 DEF IdsLast
<1> QED BY <1>6, <1>7

LEMMA IdsInRange ==
    ASSUME IInv, IdsLast
    PROVE  nextId <= FirstId + Cardinality(Requests) /\ Cardinality(Requests) \in Nat
<1>1. Numbered \subseteq Requests /\ IsFiniteSet(Requests)
  BY RequestsFinite DEF Numbered
<1>2. Cardinality(Numbered) <= Cardinality(Requests) /\ Cardinality(Numbered) \in Nat
      /\ Cardinality(Requests) \in Nat
  BY <1>1, FS_Subset, FS_CardinalityType
<1>3. nextId \in Nat /\ FirstId \in Nat
  BY MarketTxnAssumption DEF IInv, TypeOK
<1> QED BY <1>2, <1>3 DEF IdsLast

--------------------------------------------------------------------------------
(* What a request under way will have moved on each balance.                   *)

PaidAt(r, o, c) ==
    IF fills[r][o] = 0 THEN 0
    ELSE (IF c = SellerOf(r, o).char
          THEN SellerProceeds(entities[r][o].price, fills[r][o]) ELSE 0)
       + (IF c = BuyerOf(r, o).char
          THEN BuyerRefund(BuyerOf(r, o).price, entities[r][o].price, fills[r][o]) ELSE 0)
PaidOn(r, c) == SumFunction([o \in Requests |-> PaidAt(r, o, c)])

DeltaOf(r) ==
    \A c \in Characters :
        delta[r][c] =
            IF r \in DOMAIN entities[r]
            THEN PaidOn(r, c) - (IF c = call[r].char THEN FeeOf(r) + EscrowOf(r) ELSE 0)
            ELSE IF pc[r] \in {"flush", "settle"} /\ c = orders[call[r].order].char
            THEN orders[call[r].order].escrow ELSE 0
DeltasExplained == \A r \in Requests : DeltaOf(r)

(* A fill is paid by the terms of the two orders.                             *)
LEMMA PaidByTerms ==
    ASSUME NEW r \in Requests, NEW o \in Requests, NEW c,
           call'[r] = call[r], fills'[r][o] = fills[r][o],
           SameTerms(entities'[r][r], entities[r][r]), SameTerms(entities'[r][o], entities[r][o])
    PROVE  PaidAt(r, o, c)' = PaidAt(r, o, c)
<1>1. /\ SellerOf(r, o)'.char = SellerOf(r, o).char /\ BuyerOf(r, o)'.char = BuyerOf(r, o).char
      /\ BuyerOf(r, o)'.price = BuyerOf(r, o).price
      /\ entities'[r][o].price = entities[r][o].price
  BY DEF SellerOf, BuyerOf, SameTerms
<1> QED BY <1>1 DEF PaidAt

LEMMA PaidAtTyped ==
    ASSUME IInv, NEW r \in Requests, r \in DOMAIN entities[r], NEW o \in Requests, NEW c
    PROVE  PaidAt(r, o, c) \in Int
<1> USE DEF IInv
<1>1. CASE fills[r][o] = 0
  BY <1>1 DEF PaidAt
<1>2. CASE fills[r][o] # 0
  <2>1. Running(r)
    BY DEF ControlOK, ControlOf
  <2>2. o \in Others(r) /\ fills[r][o] \in Int
    BY <1>2, <2>1 DEF FilledOnce, FilledOf, TypeOK
  <2>3. entities[r][r] \in Order /\ entities[r][o] \in Order
    BY <2>2 DEF TypeOK, IsPartialFn, Others
  <2> DEFINE quantity == fills[r][o]
             price == entities[r][o].price
             limit == BuyerOf(r, o).price
  <2>4. price \in Int /\ limit \in Int /\ quantity \in Int
    BY <2>2, <2>3 DEF Order, BuyerOf
  <2>5. \A p \in Int, q \in Int : SalesTax(p, q) \in Int
    BY RatesAreIntegers
  <2>6. SalesTax(price, quantity) \in Int
    BY <2>4, <2>5
  <2>7. SellerProceeds(price, quantity) \in Int
    BY <2>4, <2>6 DEF SellerProceeds, EscrowConsumed
  <2>8. BuyerRefund(limit, price, quantity) \in Int
    BY <2>4 DEF BuyerRefund
  <2> QED BY <1>2, <2>7, <2>8 DEF PaidAt
<1> QED BY <1>1, <1>2

LEMMA PaidOnTyped ==
    ASSUME IInv, NEW r \in Requests, r \in DOMAIN entities[r], NEW c
    PROVE  PaidOn(r, c) \in Int
<1> DEFINE f == [o \in Requests |-> PaidAt(r, o, c)]
<1>1. DOMAIN f = Requests /\ \A o \in Requests : f[o] \in Int
  BY PaidAtTyped
<1>2. PaidOn(r, c) = SumFunction(f)
  BY DEF PaidOn
<1> HIDE DEF f
<1> QED BY <1>1, <1>2, RequestsFinite, SumTyped

LEMMA OthersDelta ==
    ASSUME IInv, FilledInOrder, DeltasExplained, NEW r \in Requests, NEW q \in Requests, q # r,
           \/ \E c \in Calls : Resolve(r, c)
           \/ Step(r) \/ Disconnect(r)
    PROVE  DeltaOf(q)'
<1> USE DEF IInv
<1>1. /\ entities'[q] = entities[q] /\ fills'[q] = fills[q] /\ pc'[q] = pc[q]
      /\ q \in DOMAIN call => call'[q] = call[q]
      /\ \A o \in Others(q) : orders'[o] = orders[o]
      /\ delta'[q] = delta[q] /\ seenBalance'[q] = seenBalance[q]
  BY OthersLocked, OthersPaid
<1>2. CASE q \in DOMAIN entities[q]
  <2>1. call'[q] = call[q]
    BY <1>1, <1>2 DEF ControlOK, ControlOf
  <2>2. FeeOf(q)' = FeeOf(q) /\ EscrowOf(q)' = EscrowOf(q)
    BY <1>1, <2>1 DEF FeeOf, EscrowOf
  <2>3. \A c \in Characters : PaidOn(q, c)' = PaidOn(q, c)
    <3> SUFFICES ASSUME NEW c \in Characters PROVE PaidOn(q, c)' = PaidOn(q, c)
      OBVIOUS
    <3>1. \A o \in Requests : PaidAt(q, o, c)' = PaidAt(q, o, c)
      BY <1>1, <2>1, PaidByTerms DEF SameTerms
    <3> QED BY <3>1 DEF PaidOn
  <2> QED BY <1>1, <1>2, <2>1, <2>2, <2>3 DEF DeltasExplained, DeltaOf
<1>3. CASE q \notin DOMAIN entities[q] /\ pc[q] \in {"flush", "settle"}
  <2>1. q \in DOMAIN call /\ call[q].op = "cancel"
    BY <1>3, CallTyped DEF ControlOK, ControlOf, Running
  <2>2. call[q].order \in Others(q) /\ call'[q] = call[q]
    BY <1>1, <1>3, <2>1 DEF FilledInOrder, CalledOf, Others
  <2> QED BY <1>1, <1>3, <2>2 DEF DeltasExplained, DeltaOf
<1>4. CASE q \notin DOMAIN entities[q] /\ pc[q] \notin {"flush", "settle"}
  BY <1>1, <1>4 DEF DeltasExplained, DeltaOf
<1> QED BY <1>2, <1>3, <1>4

LEMMA InsertDelta ==
    ASSUME IInv, DeltasExplained, NEW r \in Requests, InsertOrder(r)
    PROVE  DeltaOf(r)'
<1> USE DEF IInv
<1>1. /\ r \in DOMAIN call /\ call[r].op = "place" /\ r \notin DOMAIN entities[r]
      /\ \A p \in Requests : fills[r][p] = 0
      /\ call' = call /\ seenBalance' = seenBalance /\ fills' = fills
      /\ pc[r] = "lockOrders" /\ r \in DOMAIN entities'[r]
  BY DEF InsertOrder, ControlOK, ControlOf, Running, TypeOK, Put
<1>2. FeeOf(r) \in Int /\ EscrowOf(r) \in Int /\ FeeOf(r)' = FeeOf(r) /\ EscrowOf(r)' = EscrowOf(r)
  BY <1>1, CostsTyped DEF FeeOf, EscrowOf
<1>3. \A c \in Characters : delta[r][c] = 0
  BY <1>1 DEF DeltasExplained, DeltaOf
<1>4. \A c \in Characters :
          delta'[r][c] = 0 - (IF c = call[r].char THEN FeeOf(r) + EscrowOf(r) ELSE 0)
  <2>1. delta' = [delta EXCEPT ![r][call[r].char] = @ - FeeOf(r) - EscrowOf(r)]
        /\ delta \in [Requests -> [Characters -> Int]]
    BY DEF InsertOrder, TypeOK
  <2> QED BY <1>2, <1>3, <2>1
<1>5. \A c \in Characters : PaidOn(r, c)' = 0
  <2> SUFFICES ASSUME NEW c \in Characters PROVE PaidOn(r, c)' = 0
    OBVIOUS
  <2> DEFINE f == [o \in Requests |-> PaidAt(r, o, c)']
  <2>1. DOMAIN f = Requests /\ \A o \in Requests : f[o] = 0
    BY <1>1 DEF PaidAt
  <2>2. PaidOn(r, c)' = SumFunction(f)
    BY DEF PaidOn
  <2> HIDE DEF f
  <2> QED BY <2>1, <2>2, RequestsFinite, SumOfNoughts
<1> QED BY <1>1, <1>2, <1>4, <1>5 DEF DeltaOf

LEMMA FillDelta ==
    ASSUME IInv, DeltasExplained, NEW r \in Requests, NEW o \in Requests, Fill(r, o)
    PROVE  DeltaOf(r)'
<1> USE DEF IInv
<1>1. /\ r \in DOMAIN call /\ call[r].op = "place" /\ o \in Others(r) /\ r \in DOMAIN entities[r]
      /\ entities[r][r] \in Order /\ entities[r][o] \in Order
  BY FillParties
<1>2. /\ SameTerms(entities'[r][r], entities[r][r]) /\ SameTerms(entities'[r][o], entities[r][o])
      /\ fills'[r][o] = FillQuantity(r, o) /\ fills[r][o] = 0
      /\ \A p \in Requests : p # o => fills'[r][p] = fills[r][p]
      /\ call' = call /\ seenBalance' = seenBalance
  BY FillLeaves
<1>3. /\ DOMAIN entities'[r] = DOMAIN entities[r]
      /\ \A p \in DOMAIN entities[r] : p \notin {r, o} => entities'[r][p] = entities[r][p]
  BY FillEffect
<1>4. FillQuantity(r, o) \in Nat /\ FillQuantity(r, o) # 0
  BY FillAmount
<1>5. FeeOf(r)' = FeeOf(r) /\ EscrowOf(r)' = EscrowOf(r) /\ FeeOf(r) \in Int /\ EscrowOf(r) \in Int
  BY <1>1, <1>2, CostsTyped DEF FeeOf, EscrowOf
<1>6. ASSUME NEW c \in Characters
      PROVE  PaidOn(r, c)' = PaidOn(r, c) + PaidByFill(r, o, c) /\ PaidByFill(r, o, c) \in Int
  <2> DEFINE f == [p \in Requests |-> PaidAt(r, p, c)]
             g == [p \in Requests |-> PaidAt(r, p, c)']
  <2>1. PaidByFill(r, o, c) \in Int
    BY <1>1, <1>4, PaidTyped
  <2>2. PaidAt(r, o, c)' = PaidByFill(r, o, c)
    <3>1. /\ SellerOf(r, o)'.char = SellerOf(r, o).char /\ BuyerOf(r, o)'.char = BuyerOf(r, o).char
          /\ BuyerOf(r, o)'.price = BuyerOf(r, o).price
          /\ entities'[r][o].price = entities[r][o].price
      BY <1>2 DEF SellerOf, BuyerOf, SameTerms
    <3> QED BY <1>2, <1>4, <3>1 DEF PaidAt, PaidByFill
  <2>3. ASSUME NEW p \in Requests, p # o PROVE PaidAt(r, p, c)' = PaidAt(r, p, c)
    <3>1. CASE fills[r][p] = 0
      BY <1>2, <2>3, <3>1 DEF PaidAt
    <3>2. CASE fills[r][p] # 0
      <4>1. Running(r)
        BY DEF Fill, Running
      <4>2. p \in Others(r)
        BY <3>2, <4>1 DEF FilledOnce, FilledOf
      <4>3. SameTerms(entities'[r][p], entities[r][p])
        BY <1>3, <2>3, <4>2 DEF Others, SameTerms
      <4> QED BY <1>2, <2>3, <4>3, PaidByTerms
    <3> QED BY <3>1, <3>2
  <2>4. /\ DOMAIN f = Requests /\ DOMAIN g = Requests
        /\ f[o] = 0 /\ g[o] = PaidByFill(r, o, c)
        /\ \A p \in Requests : f[p] \in Int /\ (p # o => g[p] = f[p])
    <3>1. PaidAt(r, o, c) = 0
      BY <1>2 DEF PaidAt
    <3> QED BY <1>1, <2>2, <2>3, <3>1, PaidAtTyped
  <2>5. PaidOn(r, c) = SumFunction(f) /\ PaidOn(r, c)' = SumFunction(g)
    BY DEF PaidOn
  <2> HIDE DEF f, g
  <2>6. \A p \in Requests : g[p] \in Int
    BY <2>1, <2>4
  <2>7. SumFunction(g) = SumFunction(f) + g[o] - f[o]
    BY <2>4, <2>6, RequestsFinite, SumMoves
  <2>8. SumFunction(f) \in Int
    BY <2>4, RequestsFinite, SumTyped
  <2>9. SumFunction(g) = SumFunction(f) + PaidByFill(r, o, c)
    BY <2>1, <2>4, <2>7, <2>8
  <2> QED BY <2>1, <2>5, <2>9
<1>7. \A c \in Characters : delta'[r][c] = delta[r][c] + PaidByFill(r, o, c)
  BY DEF Fill, TypeOK
<1>8. ASSUME NEW c \in Characters
      PROVE  delta'[r][c] = PaidOn(r, c)' - (IF c = call'[r].char THEN FeeOf(r)' + EscrowOf(r)' ELSE 0)
  <2>1. delta[r][c] = PaidOn(r, c) - (IF c = call[r].char THEN FeeOf(r) + EscrowOf(r) ELSE 0)
    BY <1>1 DEF DeltasExplained, DeltaOf
  <2>2. PaidOn(r, c) \in Int
    BY <1>1, PaidOnTyped
  <2>3. call'[r].char = call[r].char
    BY <1>2
  <2> DEFINE due == IF c = call[r].char THEN FeeOf(r) + EscrowOf(r) ELSE 0
  <2>4. due \in Int /\ due = IF c = call'[r].char THEN FeeOf(r)' + EscrowOf(r)' ELSE 0
    BY <1>5, <2>3
  <2>5. delta[r][c] = PaidOn(r, c) - due
    BY <2>1
  <2> HIDE DEF due
  <2>6. delta'[r][c] = PaidOn(r, c)' - due
    BY <1>6, <1>7, <2>2, <2>4, <2>5
  <2> QED BY <2>4, <2>6
<1> QED BY <1>1, <1>3, <1>8 DEF DeltaOf

LEMMA ReleaseDelta ==
    ASSUME IInv, DeltasExplained, NEW r \in Requests, Release(r)
    PROVE  DeltaOf(r)'
<1> USE DEF IInv
<1> DEFINE o == call[r].order
           order == entities[r][o]
           escrow == order.escrow
<1>1. /\ r \in DOMAIN call /\ call[r].op = "cancel"
      /\ r \notin DOMAIN entities[r] /\ o \in DOMAIN entities[r] /\ pc[r] = "release"
      /\ orders' = orders /\ call' = call /\ r \notin DOMAIN entities'[r]
      /\ pc'[r] \in {"flush", "settle"}
  BY DEF Release, ControlOK, ControlOf, Running, dbVars, TypeOK, GoTo
<1>2. order \in Order /\ HoldsWhatItOwes(order) /\ order = orders[o]
  BY <1>1 DEF CopiesExact, TypeOK, IsPartialFn, LockedCopies, LockedOf, Others
<1>3. escrow \in Nat /\ order.char \in Characters
  <2> HIDE DEF order
  <2>1. /\ order.price \in Nat /\ order.remaining \in Nat /\ order.char \in Characters
        /\ order.escrow \in Int
    BY <1>2 DEF Order
  <2>2. order.price * order.remaining \in Nat
    BY <2>1, ProductNat
  <2>3. order.escrow = order.price * order.remaining \/ order.escrow = 0
    BY <1>2 DEF HoldsWhatItOwes, EscrowRequired, GrossValue
  <2> QED BY <2>1, <2>2, <2>3
<1>4. \/ escrow > 0 /\ delta' = [delta EXCEPT ![r][order.char] = @ + escrow]
      \/ escrow <= 0 /\ delta' = delta
  BY DEF Release
<1>5. \A c \in Characters : delta[r][c] = 0
  BY <1>1 DEF DeltasExplained, DeltaOf
<1>6. delta \in [Requests -> [Characters -> Int]]
  BY DEF TypeOK
<1>7. \A c \in Characters : delta'[r][c] = IF c = order.char THEN escrow ELSE 0
  <2> HIDE DEF order
  <2>1. CASE escrow > 0 /\ delta' = [delta EXCEPT ![r][order.char] = @ + escrow]
    BY <1>3, <1>5, <1>6, <2>1
  <2>2. CASE escrow <= 0 /\ delta' = delta
    BY <1>3, <1>5, <2>2
  <2> QED BY <1>4, <2>1, <2>2
<1> QED BY <1>1, <1>2, <1>7 DEF DeltaOf

LEMMA DeltaStep ==
    ASSUME IInv, FilledInOrder, DeltasExplained, [Next]_vars
    PROVE  DeltasExplained'
<1> USE DEF IInv
<1>1. ASSUME UNCHANGED <<orders, entities, fills, call, seenBalance, delta>>, NEW r \in Requests,
             pc'[r] \in {"flush", "settle"} <=> pc[r] \in {"flush", "settle"}
      PROVE  DeltaOf(r)'
  BY <1>1 DEF DeltasExplained, DeltaOf, PaidOn, PaidAt, BuyerOf, SellerOf, FeeOf, EscrowOf
<1>2. ASSUME Tick \/ UNCHANGED vars PROVE DeltasExplained'
  <2>1. UNCHANGED <<orders, entities, fills, call, seenBalance, delta, pc>>
    BY <1>2 DEF Tick, vars, dbVars, txnVars
  <2> QED BY <1>1, <2>1 DEF DeltasExplained
<1>3. SUFFICES ASSUME NEW r \in Requests,
                      \/ \E c \in Calls : Resolve(r, c)
                      \/ Step(r) \/ Disconnect(r)
               PROVE  DeltaOf(r)'
  BY <1>2, OthersDelta DEF Next, DeltasExplained
<1>4. ASSUME r \notin DOMAIN entities'[r], pc'[r] \notin {"flush", "settle"},
             \A c \in Characters : delta'[r][c] = 0
      PROVE  DeltaOf(r)'
  BY <1>4 DEF DeltaOf
<1>5. CASE Ends(r) \/ Commit(r)
  <2>1. EndTransaction(r)
    BY <1>5, EndsFacts DEF Rollback, Commit
  <2>2. DOMAIN entities'[r] = {} /\ delta'[r] = [c \in Characters |-> 0] /\ pc'[r] = "done"
    BY <2>1, EmptyPartial DEF TypeOK, EndTransaction, GoTo
  <2> QED BY <1>4, <2>2
<1>6. CASE (\E c \in Calls : Resolve(r, c)) \/ LockCharacter(r) \/ ReserveGoods(r) \/ Scan(r)
  <2>1. UNCHANGED <<orders, entities, delta>>
    BY <1>6 DEF Resolve, LockCharacter, ReserveGoods, Scan, dbVars, txnVars
  <2>2. r \notin DOMAIN entities[r] /\ pc[r] \notin {"flush", "settle"} /\ pc'[r] \notin {"flush", "settle"}
    BY <1>6 DEF Resolve, LockCharacter, ReserveGoods, Scan, ControlOK, ControlOf, Running, GoTo, TypeOK
  <2>3. \A c \in Characters : delta[r][c] = 0
    BY <2>2 DEF DeltasExplained, DeltaOf
  <2> QED BY <1>4, <2>1, <2>2, <2>3
<1>7. CASE (\E o \in Requests : LockCandidate(r, o)) \/ LockOrder(r)
  <2>1. r \notin DOMAIN entities[r] /\ pc[r] \notin {"flush", "settle"} /\ pc'[r] \notin {"flush", "settle"}
        /\ delta' = delta
    BY <1>7 DEF LockCandidate, LockOrder, ControlOK, ControlOf, Running, GoTo, TypeOK
  <2>2. \A c \in Characters : delta[r][c] = 0
    BY <2>1 DEF DeltasExplained, DeltaOf
  <2> QED BY <1>4, <1>7, <2>1, <2>2, LocksNotOwn
<1>8. CASE Flush(r)
  <2>1. UNCHANGED <<orders, entities, fills, call, seenBalance, delta>>
        /\ pc[r] = "flush" /\ pc'[r] = "settle"
    BY <1>8 DEF Flush, dbVars, txnVars, GoTo, TypeOK
  <2> QED BY <1>1, <2>1
<1> QED BY <1>3, <1>5, <1>6, <1>7, <1>8, InsertDelta, FillDelta, ReleaseDelta
       DEF Step, PlaceStep, CancelStep, Ends

--------------------------------------------------------------------------------
(* What a placement has taken is what the atomic one takes of the same offers. *)

(* The atomic book adds up as the requests do.                                *)
LEMMA BookSums ==
    ASSUME NEW f
    PROVE  Book!SumFunction(f) = SumFunction(f)
BY DEF Book!SumFunction, SumFunction, Book!SumFunctionOnSet, SumFunctionOnSet,
       Book!FoldFunctionOnSet, FoldFunctionOnSet, Book!MapThenFoldSet, MapThenFoldSet

TakenBy(r) == {o \in Others(r) : fills[r][o] # 0}

LEMMA TakenRows ==
    ASSUME IInv, NEW r \in Requests, r \in DOMAIN entities[r]
    PROVE  /\ IsFiniteSet(TakenBy(r)) /\ TakenBy(r) \subseteq DOMAIN orders \ {r}
           /\ r \in DOMAIN call /\ call[r].op = "place"
           /\ \A o \in Requests : fills[r][o] # 0 => o \in TakenBy(r)
           /\ \A o \in TakenBy(r) :
                  /\ o \in Requests
                  /\ orders[o] \in Order /\ entities[r][o] \in Order
                  /\ SameTerms(entities[r][o], orders[o])
                  /\ orders[o].remaining = entities[r][o].remaining + fills[r][o]
                  /\ fills[r][o] \in Nat /\ fills[r][o] > 0
                  /\ Agreed(call[r], orders[o])
                  /\ entities[r][o].remaining = 0 \/ entities[r][r].remaining = 0
<1> USE DEF IInv
<1>1. /\ Running(r) /\ r \in DOMAIN call
  BY DEF ControlOK, ControlOf
<1>2. call[r].op = "place"
  BY <1>1, CallTyped DEF ControlOK, ControlOf
<1>3. DOMAIN orders \subseteq Requests /\ IsFiniteSet(DOMAIN orders)
  BY RequestsFinite
<1>4. \A o \in Others(r) :
          /\ o \in DOMAIN orders /\ o \in Requests
          /\ SameTerms(entities[r][o], orders[o])
          /\ orders[o].remaining = entities[r][o].remaining + fills[r][o]
          /\ Agreed(call[r], orders[o])
  BY <1>1, <1>2, <1>3 DEF LockedCopies, LockedOf, MatchesAgreed, MatchedOf
<1>5. \A o \in Others(r) : orders[o] \in Order /\ entities[r][o] \in Order /\ fills[r][o] \in Nat
  BY <1>4 DEF TypeOK, IsPartialFn, Others
<1>6. \A o \in Requests : fills[r][o] # 0 =>
          o \in TakenBy(r) /\ (entities[r][o].remaining = 0 \/ entities[r][r].remaining = 0)
  BY <1>1 DEF FilledOnce, FilledOf, TakenBy
<1>7. TakenBy(r) \subseteq DOMAIN orders \ {r}
  BY <1>4 DEF TakenBy, Others
<1>8. IsFiniteSet(TakenBy(r))
  BY <1>3, <1>7, FS_Subset
<1> QED BY <1>1, <1>2, <1>4, <1>5, <1>6, <1>7, <1>8 DEF TakenBy

LEMMA BetterOrders ==
    ASSUME NEW side, NEW a \in Order, NEW b \in Order
    PROVE  ~(Better(side, a, b) /\ Better(side, b, a)) /\ ~Better(side, a, a)
BY DEF Better, Order

(* Of the same price and id, two rows rank alike.                             *)
LEMMA BetterOffers ==
    ASSUME NEW side, NEW a, NEW b, NEW m, NEW n,
           a.price = m.price, a.id = m.id, b.price = n.price, b.id = n.id
    PROVE  Better(side, a, b) <=> Better(side, m, n)
BY DEF Better

LEMMA SumOfFills ==
    ASSUME IInv, TakersAccount, FilledInOrder, NEW r \in Requests, r \in DOMAIN entities[r]
    PROVE  /\ SumFunction([o \in TakenBy(r) |-> fills[r][o]]) = SumFunction(fills[r])
           /\ call[r].quantity = entities[r][r].remaining + SumFunction(fills[r])
           /\ SumFunction(fills[r]) \in Int /\ entities[r][r].remaining \in Nat
<1> DEFINE S == TakenBy(r)
           f == [o \in S |-> fills[r][o]]
<1>1. /\ S \subseteq Requests /\ \A o \in S : fills[r][o] \in Nat
      /\ \A o \in Requests : fills[r][o] # 0 => o \in S
  BY TakenRows
<1>2. DOMAIN fills[r] = Requests /\ IsFiniteSet(Requests) /\ \A o \in Requests : fills[r][o] \in Nat
  BY RequestsFinite DEF IInv, TypeOK
<1>3. /\ DOMAIN f \subseteq DOMAIN fills[r]
      /\ \A x \in DOMAIN f : f[x] \in Int /\ fills[r][x] = f[x]
      /\ \A x \in DOMAIN fills[r] \ DOMAIN f : fills[r][x] = 0
  BY <1>1, <1>2
<1> HIDE DEF f, S
<1>4. SumFunction(fills[r]) = SumFunction(f)
  BY <1>2, <1>3, SumPads
<1>5. SumFunction(fills[r]) \in Int
  BY <1>2, SumTyped
<1>6. entities[r][r].remaining \in Nat
  BY DEF IInv, TypeOK, IsPartialFn, Order
<1>7. call[r].quantity = entities[r][r].remaining + SumFunction(fills[r])
  BY DEF TakersAccount, TakenOf, FilledInOrder, CalledOf
<1> QED BY <1>4, <1>5, <1>6, <1>7 DEF f, S

LEMMA TakenIsFilled ==
    ASSUME IInv, TakersAccount, FilledInOrder, NEW r \in Requests, r \in DOMAIN entities[r],
           NEW o \in TakenBy(r)
    PROVE  Book!Taken(TermsOf(call[r]), TakenBy(r), o) = fills[r][o]
<1> DEFINE S == TakenBy(r)
           side == call[r].side
           row == Offers(orders)
           better == {p \in S : Better(side, row[p], row[o])}
           ahead == [p \in better |-> row[p].remaining]
           taken == [p \in S |-> fills[r][p]]
           others == [p \in S \ {o} |-> fills[r][p]]
<1>1. /\ S \subseteq DOMAIN orders /\ S \subseteq Requests /\ IsFiniteSet(S)
      /\ \A p \in S : /\ orders[p] \in Order /\ entities[r][p] \in Order
                      /\ SameTerms(entities[r][p], orders[p])
                      /\ orders[p].remaining = entities[r][p].remaining + fills[r][p]
                      /\ fills[r][p] \in Nat /\ fills[r][p] > 0
                      /\ entities[r][p].remaining = 0 \/ entities[r][r].remaining = 0
  BY TakenRows
<1>2. \A p \in S : row[p].remaining = orders[p].remaining
                   /\ row[p].price = entities[r][p].price /\ row[p].id = entities[r][p].id
  BY <1>1 DEF Offers, Offer, SameTerms
<1>3. \A p, q \in S : Better(side, row[p], row[q]) <=> Better(side, entities[r][p], entities[r][q])
  BY <1>2, BetterOffers
<1>4. \A p, q \in S : p # q /\ entities[r][q].remaining > 0 => Better(side, entities[r][p], entities[r][q])
  BY <1>1 DEF FilledInOrder, OrderedOf, TakenBy, Others
<1>5. \A p, q \in S : ~(Better(side, entities[r][p], entities[r][q]) /\ Better(side, entities[r][q], entities[r][p]))
                      /\ ~Better(side, entities[r][p], entities[r][p])
  BY <1>1, BetterOrders
<1>6. better \subseteq S \ {o} /\ \A p \in better : entities[r][p].remaining = 0
  <2>1. \A p \in better : Better(side, entities[r][p], entities[r][o])
    BY <1>3
  <2>2. \A p \in S : entities[r][p].remaining \in Nat
    BY <1>1 DEF Order
  <2> HIDE DEF side
  <2> QED BY <1>4, <1>5, <2>1, <2>2
<1>7. Book!Taken(TermsOf(call[r]), S, o)
          = Min2(row[o].remaining, call[r].quantity - SumFunction(ahead))
  <2>1. Book!Ahead(TermsOf(call[r]), S, o) = Book!SumFunction(ahead)
    BY DEF Book!Ahead, Book!Better, Better, TermsOf
  <2>2. Book!SumFunction(ahead) = SumFunction(ahead)
    BY BookSums
  <2> QED BY <2>1, <2>2 DEF Book!Taken, Book!Min2, Min2, TermsOf
<1>8. /\ DOMAIN taken = S /\ DOMAIN others = S \ {o} /\ DOMAIN ahead = better
      /\ taken[o] = fills[r][o]
      /\ \A p \in S \ {o} : others[p] = taken[p]
      /\ \A p \in S : taken[p] \in Nat /\ taken[p] \in Int
      /\ \A p \in better : ahead[p] = fills[r][p] /\ ahead[p] = others[p]
  BY <1>1, <1>2, <1>6
<1>9. /\ SumFunction(taken) = SumFunction(fills[r])
      /\ call[r].quantity = entities[r][r].remaining + SumFunction(fills[r])
      /\ SumFunction(fills[r]) \in Int /\ entities[r][r].remaining \in Nat
  BY SumOfFills
<1> HIDE DEF ahead, taken, others, better, S
<1>10. SumFunction(taken) = SumFunction(others) + taken[o] /\ IsFiniteSet(S \ {o})
  <2>1. IsFiniteSet(S \ {o}) /\ S = (S \ {o}) \cup {o}
    BY <1>1, FS_Subset DEF S
  <2> QED BY <1>8, <2>1, SumGrows
<1>11. SumFunction(ahead) <= SumFunction(others) /\ SumFunction(ahead) \in Int /\ SumFunction(others) \in Int
  <2>1. \A p \in DOMAIN others : others[p] \in Nat
    BY <1>8
  <2> QED BY <1>6, <1>8, <1>10, <2>1, SumOfPart
<1>12. o \in S /\ row[o].remaining = entities[r][o].remaining + fills[r][o]
       /\ entities[r][o].remaining \in Nat /\ fills[r][o] \in Nat
  BY <1>1, <1>2 DEF Order, S
<1>13. CASE entities[r][o].remaining = 0
  <2>1. call[r].quantity - SumFunction(ahead) >= fills[r][o]
    BY <1>8, <1>9, <1>10, <1>11, <1>12
  <2> HIDE DEF row
  <2> QED BY <1>7, <1>9, <1>11, <1>12, <1>13, <2>1 DEF Min2, S
<1>14. CASE entities[r][o].remaining # 0
  <2>1. entities[r][r].remaining = 0
    BY <1>1, <1>12, <1>14
  <2>2. better = S \ {o}
    BY <1>3, <1>4, <1>6, <1>12, <1>14 DEF better
  <2>3. SumFunction(ahead) = SumFunction(others)
    BY <1>8, <1>10, <2>2, SumStays
  <2>4. call[r].quantity - SumFunction(ahead) = fills[r][o]
    BY <1>8, <1>9, <1>10, <1>11, <1>12, <2>1, <2>3
  <2> HIDE DEF row
  <2> QED BY <1>7, <1>12, <2>4 DEF Min2, S
<1> QED BY <1>13, <1>14

(* What was paid for what it took.                                            *)
LEMMA PaidIsPaid ==
    ASSUME IInv, TakersAccount, FilledInOrder, NEW r \in Requests, r \in DOMAIN entities[r], NEW c
    PROVE  Book!Paid(TermsOf(call[r]), TakenBy(r), c) = PaidOn(r, c)
<1> DEFINE S == TakenBy(r)
           terms == TermsOf(call[r])
           f == [o \in S |-> Book!PaidFor(terms, o, Book!Taken(terms, S, o), c)]
           g == [o \in Requests |-> PaidAt(r, o, c)]
<1>1. Book!Paid(terms, S, c) = SumFunction(f)
  <2>1. Book!Paid(terms, S, c) = Book!SumFunction(f)
    BY DEF Book!Paid
  <2>2. Book!SumFunction(f) = SumFunction(f)
    BY BookSums
  <2> QED BY <2>1, <2>2
<1>2. ASSUME NEW o \in S
      PROVE  Book!PaidFor(terms, o, Book!Taken(terms, S, o), c) = PaidAt(r, o, c)
  <2>1. Book!Taken(terms, S, o) = fills[r][o] /\ fills[r][o] # 0
    BY TakenIsFilled DEF TakenBy
  <2>2. /\ o \in DOMAIN orders /\ SameTerms(entities[r][o], orders[o])
        /\ r \in DOMAIN call /\ call[r].op = "place"
    BY TakenRows
  <2>3. /\ entities[r][r].char = call[r].char /\ entities[r][r].price = call[r].price
    BY <2>2 DEF IInv, ControlOK, ControlOf, MatchesAgreed, MatchedOf
  <2>4. /\ Offers(orders)[o].char = entities[r][o].char
        /\ Offers(orders)[o].price = entities[r][o].price
    BY <2>2 DEF Offers, Offer, SameTerms
  <2>5. /\ terms.side = call[r].side /\ terms.char = call[r].char /\ terms.price = call[r].price
    BY DEF TermsOf
  <2> HIDE DEF S, terms
  <2> QED BY <2>1, <2>3, <2>4, <2>5
          DEF Book!PaidFor, PaidAt, BuyerOf, SellerOf,
              Book!SellerProceeds, SellerProceeds, Book!BuyerRefund, BuyerRefund,
              Book!EscrowConsumed, EscrowConsumed, Book!SalesTax, SalesTax,
              Book!PercentRoundedUp, PercentRoundedUp, Book!GrossValue, GrossValue,
              Book!OneHundredPercent, OneHundredPercent
<1>3. \A o \in S : PaidAt(r, o, c) \in Int /\ o \in Requests
  BY TakenRows, PaidAtTyped
<1>4. \A o \in Requests : o \notin S => PaidAt(r, o, c) = 0
  BY TakenRows DEF PaidAt
<1>5. /\ DOMAIN f \subseteq DOMAIN g /\ IsFiniteSet(DOMAIN g)
      /\ \A x \in DOMAIN f : f[x] \in Int /\ g[x] = f[x]
      /\ \A x \in DOMAIN g \ DOMAIN f : g[x] = 0
  BY <1>2, <1>3, <1>4, RequestsFinite
<1>6. PaidOn(r, c) = SumFunction(g)
  BY DEF PaidOn
<1> HIDE DEF f, g
<1> QED BY <1>1, <1>5, <1>6, SumPads

LEMMA PlaceRows ==
    ASSUME IInv, TakersAccount, FilledInOrder, NEW r \in Requests, Commit(r), r \in DOMAIN entities[r]
    PROVE  LET terms == TermsOf(call[r])
               S == TakenBy(r)
               book == Offers(orders)
           IN  Offers(orders)' =
                   [o \in DOMAIN book \cup {r} |->
                       IF o = r
                       THEN [char |-> terms.char, side |-> terms.side, price |-> terms.price,
                             id |-> entities[r][r].id, original |-> terms.original,
                             remaining |-> Book!Unfilled(terms, S), cancelled |-> FALSE]
                       ELSE [book[o] EXCEPT !.remaining =
                                @ - (IF o \in S THEN Book!Taken(terms, S, o) ELSE 0)]]
<1> DEFINE terms == TermsOf(call[r])
           S == TakenBy(r)
           left == Book!Unfilled(terms, S)
           rest(o) == [Offers(orders)[o] EXCEPT !.remaining =
                          @ - (IF o \in S THEN Book!Taken(terms, S, o) ELSE 0)]
           new == [char |-> terms.char, side |-> terms.side, price |-> terms.price,
                   id |-> entities[r][r].id, original |-> terms.original,
                   remaining |-> left, cancelled |-> FALSE]
<1>1. /\ r \in DOMAIN call /\ r \notin DOMAIN orders
      /\ DOMAIN orders' = DOMAIN orders \cup {r}
      /\ \A o \in DOMAIN orders' :
             orders'[o] = IF o \in DOMAIN entities[r] THEN entities[r][o] ELSE orders[o]
      /\ call[r].op = "place" /\ Running(r)
  BY CommitRows DEF IInv
<1>2. Offers(orders)' = [o \in DOMAIN orders \cup {r} |-> Offer(orders'[o])]
  BY <1>1 DEF Offers, Offer
<1>3. /\ entities[r][r].char = terms.char /\ entities[r][r].side = terms.side
      /\ entities[r][r].price = terms.price
      /\ entities[r][r].original = terms.original /\ terms.original = call[r].quantity
      /\ entities[r][r].cancelled = FALSE
  <2>1. entities[r][r] \in Order /\ ~entities[r][r].cancelled
    BY DEF IInv, TypeOK, IsPartialFn, TakersAccount, TakenOf
  <2>2. entities[r][r].cancelled \in BOOLEAN
    BY <2>1 DEF Order
  <2> QED BY <1>1, <2>1, <2>2 DEF IInv, MatchesAgreed, MatchedOf, FilledInOrder, CalledOf, TermsOf
<1>4. left = entities[r][r].remaining
  <2> DEFINE f == [o \in S |-> Book!Taken(terms, S, o)]
             g == [o \in S |-> fills[r][o]]
  <2>1. left = terms.original - SumFunction(f)
    <3>1. left = terms.original - Book!SumFunction(f)
      BY DEF Book!Unfilled
    <3>2. Book!SumFunction(f) = SumFunction(f)
      BY BookSums
    <3> HIDE DEF f, left, terms
    <3> QED BY <3>1, <3>2
  <2>2. f = g
    BY TakenIsFilled
  <2>3. /\ SumFunction(g) = SumFunction(fills[r])
        /\ call[r].quantity = entities[r][r].remaining + SumFunction(fills[r])
        /\ SumFunction(fills[r]) \in Int /\ entities[r][r].remaining \in Nat
    BY SumOfFills
  <2> HIDE DEF f, g, left, terms
  <2> QED BY <1>3, <2>1, <2>2, <2>3
<1>5. Offer(orders'[r]) = new
  <2>1. orders'[r] = entities[r][r]
    BY <1>1
  <2> HIDE DEF terms, left
  <2> QED BY <1>3, <1>4, <2>1 DEF Offer
<1>6. ASSUME NEW o \in DOMAIN orders PROVE Offer(orders'[o]) = rest(o)
  <2>1. o # r /\ Offers(orders)[o] = Offer(orders[o]) /\ orders[o] \in Order
    BY <1>1 DEF Offers, IInv, TypeOK, IsPartialFn
  <2>2. CASE o \in S
    <3>1. /\ SameTerms(entities[r][o], orders[o]) /\ entities[r][o] \in Order
          /\ orders[o].remaining = entities[r][o].remaining + fills[r][o] /\ fills[r][o] \in Nat
      BY <2>2, TakenRows
    <3>2. o \in Others(r)
      BY <2>2 DEF TakenBy
    <3>3. orders[o].cancelled = entities[r][o].cancelled
      <4>1. ~orders[o].cancelled /\ ~entities[r][o].cancelled
        BY <1>1, <3>2 DEF IInv, LockedCopies, LockedOf
      <4>2. orders[o].cancelled \in BOOLEAN /\ entities[r][o].cancelled \in BOOLEAN
        BY <2>1, <3>1 DEF Order
      <4> QED BY <4>1, <4>2
    <3>4. orders'[o] = entities[r][o]
      BY <1>1, <3>2 DEF Others
    <3>5. entities[r][o].remaining = orders[o].remaining - fills[r][o]
      BY <3>1 DEF Order
    <3>6. Book!Taken(terms, S, o) = fills[r][o]
      BY <2>2, TakenIsFilled
    <3> HIDE DEF S, terms
    <3> QED BY <2>1, <2>2, <3>1, <3>3, <3>4, <3>5, <3>6 DEF Offer, SameTerms
  <2>3. CASE o \notin S
    <3>1. Offer(orders'[o]) = Offer(orders[o])
      <4>1. CASE o \in DOMAIN entities[r]
        <5>1. o \in Others(r) /\ fills[r][o] = 0
          BY <2>1, <2>3, <4>1 DEF Others, TakenBy
        <5>2. /\ SameTerms(entities[r][o], orders[o])
              /\ orders[o].remaining = entities[r][o].remaining + fills[r][o]
              /\ ~orders[o].cancelled /\ ~entities[r][o].cancelled
          BY <1>1, <5>1 DEF IInv, LockedCopies, LockedOf
        <5>3. entities[r][o] \in Order
          BY <4>1 DEF IInv, TypeOK, IsPartialFn
        <5>4. orders[o].cancelled = entities[r][o].cancelled /\ orders[o].remaining = entities[r][o].remaining
          BY <2>1, <5>1, <5>2, <5>3 DEF Order
        <5>5. orders'[o] = entities[r][o]
          BY <1>1, <4>1
        <5> QED BY <5>2, <5>4, <5>5 DEF Offer, SameTerms
      <4>2. CASE o \notin DOMAIN entities[r]
        BY <1>1, <4>2
      <4> QED BY <4>1, <4>2
    <3>2. orders[o].remaining - 0 = orders[o].remaining
      BY <2>1 DEF Order
    <3>3. [Offer(orders[o]) EXCEPT !.remaining = @ - 0] = Offer(orders[o])
      BY <3>2 DEF Offer
    <3> HIDE DEF S, terms
    <3> QED BY <2>1, <2>3, <3>1, <3>3
  <2> QED BY <2>2, <2>3
<1>7. DOMAIN Offers(orders) = DOMAIN orders
  BY DEF Offers
<1> HIDE DEF new, rest
<1>8. Offers(orders)' = [o \in DOMAIN Offers(orders) \cup {r} |-> IF o = r THEN new ELSE rest(o)]
  BY <1>1, <1>2, <1>5, <1>6, <1>7
<1> QED BY <1>8 DEF new, rest

(* The commit of a placement is the atomic one.                               *)
LEMMA PlacesAtOnce ==
    ASSUME IInv, TakersAccount, FilledInOrder, IdsLast, DeltasExplained,
           NEW r \in Requests, Commit(r), r \in DOMAIN entities[r]
    PROVE  Book!Next
<1> USE DEF IInv
<1> DEFINE terms == TermsOf(call[r])
           S == TakenBy(r)
           id == entities[r][r].id
<1>1. /\ r \in DOMAIN call /\ call[r].op = "place" /\ Running(r) /\ r \notin DOMAIN orders
      /\ call[r] \in Calls
      /\ entities[r][r] \in Order
  <2>1. /\ r \in DOMAIN call /\ call[r].op = "place" /\ Running(r) /\ r \notin DOMAIN orders
    BY CommitRows
  <2> QED BY <2>1, CallTyped DEF TypeOK, IsPartialFn
<1>2. DOMAIN Offers(orders) = DOMAIN orders
  BY DEF Offers
<1>3. Book!Meets(terms, S)
  <2> SUFFICES ASSUME NEW o \in S
               PROVE  /\ Offers(orders)[o].side = Book!Opposite(terms.side)
                      /\ Offers(orders)[o].char # terms.char
                      /\ Book!Crosses(terms.side, terms.price, Offers(orders)[o].price)
                      /\ Book!Taken(terms, S, o) > 0
    BY DEF Book!Meets
  <2>1. o \in DOMAIN orders /\ Agreed(call[r], orders[o]) /\ fills[r][o] > 0
    BY TakenRows
  <2>2. Book!Taken(terms, S, o) = fills[r][o]
    BY TakenIsFilled
  <2>3. /\ Offers(orders)[o].side = orders[o].side /\ Offers(orders)[o].char = orders[o].char
        /\ Offers(orders)[o].price = orders[o].price
        /\ terms.side = call[r].side /\ terms.char = call[r].char /\ terms.price = call[r].price
    BY <2>1 DEF Offers, Offer, TermsOf
  <2> HIDE DEF terms, S
  <2> QED BY <2>1, <2>2, <2>3 DEF Agreed, Book!Opposite, Opposite, Book!Crosses, Crosses
<1>4. balance' = [c \in DOMAIN balance |->
          balance[c] + Book!Paid(terms, S, c) - (IF c = terms.char THEN Book!UpFront(terms, FeeOf(r)) ELSE 0)]
  <2>1. balance' = [c \in Characters |-> balance[c] + delta[r][c]] /\ balance \in [Characters -> Int]
    BY DEF Commit, TypeOK
  <2>2. Book!UpFront(terms, FeeOf(r)) = FeeOf(r) + EscrowOf(r)
    BY DEF Book!UpFront, EscrowOf, TermsOf, Book!EscrowRequired, EscrowRequired,
           Book!GrossValue, GrossValue
  <2>3. FeeOf(r) + EscrowOf(r) \in Int
    BY <1>1, CostsTyped
  <2>4. ASSUME NEW c \in Characters
        PROVE  balance[c] + delta[r][c]
                   = balance[c] + Book!Paid(terms, S, c)
                       - (IF c = terms.char THEN Book!UpFront(terms, FeeOf(r)) ELSE 0)
    <3> DEFINE due == IF c = terms.char THEN Book!UpFront(terms, FeeOf(r)) ELSE 0
    <3>1. due \in Int
      BY <2>2, <2>3
    <3>2. delta[r][c] = PaidOn(r, c) - due
      BY <2>2 DEF DeltasExplained, DeltaOf, TermsOf
    <3>3. PaidOn(r, c) \in Int /\ balance[c] \in Int
      BY <2>1, PaidOnTyped
    <3>4. Book!Paid(terms, S, c) = PaidOn(r, c)
      BY PaidIsPaid
    <3> HIDE DEF due, terms, S
    <3>5. balance[c] + delta[r][c] = balance[c] + Book!Paid(terms, S, c) - due
      BY <3>1, <3>2, <3>3, <3>4
    <3> QED BY <3>5 DEF due
  <2> HIDE DEF terms, S
  <2> QED BY <2>1, <2>4
<1>5. Book!Place(r, terms, id, FeeOf(r), S)
  <2>1. Offers(orders)' =
            [o \in DOMAIN Offers(orders) \cup {r} |->
               IF o = r
               THEN [char |-> terms.char, side |-> terms.side, price |-> terms.price, id |-> id,
                     original |-> terms.original, remaining |-> Book!Unfilled(terms, S),
                     cancelled |-> FALSE]
               ELSE [Offers(orders)[o] EXCEPT !.remaining =
                        @ - (IF o \in S THEN Book!Taken(terms, S, o) ELSE 0)]]
    BY PlaceRows
  <2> HIDE DEF terms, S, id
  <2> QED BY <1>3, <1>4, <2>1 DEF Book!Place
<1>6. terms \in {TermsOf(c) : c \in Calls \cap PlaceCall}
  <2>1. call[r] \in PlaceCall
    BY <1>1, MarketTxnAssumption DEF CancelCall
  <2> QED BY <1>1, <2>1
<1>7. id \in FirstId .. FirstId + Cardinality(Requests)
  <2>1. id >= FirstId /\ id < nextId
    BY <1>1 DEF FilledInOrder, CalledOf, MatchesAgreed, MatchedOf
  <2>2. nextId <= FirstId + Cardinality(Requests) /\ Cardinality(Requests) \in Nat
    BY IdsInRange
  <2>3. id \in Nat /\ nextId \in Nat /\ FirstId \in Nat
    BY <1>1, MarketTxnAssumption DEF Order, TypeOK
  <2> HIDE DEF id
  <2> QED BY <2>1, <2>2, <2>3
<1>8. FeeOf(r) \in Book!Fees(terms)
  <2>1. FeeOf(r) = EffectiveBrokerFee(BrokerFee(call[r].price, call[r].quantity),
                                      seenBalance[r], call[r].side)
    BY DEF FeeOf
  <2>2. Book!BrokerFee(terms.price, terms.original) = BrokerFee(call[r].price, call[r].quantity)
    BY DEF TermsOf, Book!BrokerFee, BrokerFee, Book!PercentRoundedUp, PercentRoundedUp,
           Book!GrossValue, GrossValue, Book!OneHundredPercent, OneHundredPercent
  <2>3. terms.side = call[r].side
    BY DEF TermsOf
  <2> HIDE DEF terms
  <2> QED BY <2>1, <2>2, <2>3 DEF Book!Fees, EffectiveBrokerFee
<1>9. S \in SUBSET DOMAIN Offers(orders)
  BY <1>2, TakenRows
<1>10. DOMAIN Offers(orders)' = DOMAIN Offers(orders) \cup {r}
  BY <1>5 DEF Book!Place
<1> HIDE DEF terms, S, id
<1> QED BY <1>1, <1>2, <1>5, <1>6, <1>7, <1>8, <1>9, <1>10 DEF Book!Next

(* A cancel leaves an order's terms as they were.                              *)
LEMMA OfferTable ==
    ASSUME NEW a
    PROVE  LET s == {"char", "side", "price", "id", "original", "remaining", "cancelled"}
               o == Offer(a)
           IN  DOMAIN o = s /\ o = [k \in s |-> o[k]]
BY DEF Offer

LEMMA WithdrawnOffer ==
    ASSUME NEW a, NEW b, SameTerms(a, b), a.remaining = 0, a.cancelled = TRUE
    PROVE  Offer(a) = [Offer(b) EXCEPT !.remaining = 0, !.cancelled = TRUE]
<1> DEFINE f == Offer(b)
           g == Offer(a)
<1>1. f = [k \in DOMAIN f |-> f[k]] /\ g = [k \in DOMAIN f |-> g[k]]
      /\ DOMAIN f = {"char", "side", "price", "id", "original", "remaining", "cancelled"}
  BY OfferTable
<1>2. g.remaining = 0 /\ g.cancelled = TRUE
  BY DEF Offer
<1>3. \A k \in DOMAIN f : k \notin {"remaining", "cancelled"} => g[k] = f[k]
  <2>1. g.char = f.char /\ g.side = f.side /\ g.price = f.price /\ g.id = f.id /\ g.original = f.original
    BY DEF Offer, SameTerms
  <2> HIDE DEF f, g
  <2> QED BY <1>1, <2>1
<1> HIDE DEF f, g
<1>4. [f EXCEPT !.remaining = 0, !.cancelled = TRUE] = g
  BY <1>1, <1>2, <1>3
<1> QED BY <1>4 DEF f, g

(* So is that of a cancel.                                                    *)
LEMMA CancelsAtOnce ==
    ASSUME IInv, TakersAccount, FilledInOrder, DeltasExplained,
           NEW r \in Requests, Commit(r), r \notin DOMAIN entities[r]
    PROVE  Book!Next
<1> USE DEF IInv
<1> DEFINE o == call[r].order
           row == orders[o]
           refund == IF row.side = "Buy" THEN EscrowRequired(row.price, row.remaining) ELSE 0
<1>1. /\ r \in DOMAIN call /\ Running(r) /\ pc[r] = "settle"
      /\ DOMAIN orders' = DOMAIN orders
      /\ \A p \in DOMAIN orders' :
             orders'[p] = IF p \in DOMAIN entities[r] THEN entities[r][p] ELSE orders[p]
      /\ call[r].op \in {"place", "cancel"}
  BY CommitRows DEF Commit
<1>2. call[r].op = "cancel"
  BY <1>1 DEF ControlOK, ControlOf
<1>3. DOMAIN entities[r] = {o}
  BY <1>1, <1>2 DEF ControlOK, ControlOf, FilledInOrder, CalledOf
<1>4. o \in Others(r)
  BY <1>3 DEF Others
<1>5. /\ o \in DOMAIN orders /\ ~row.cancelled
      /\ entities[r][o] = Closed(row)
  BY <1>1, <1>2, <1>4 DEF LockedCopies, LockedOf
<1>6. row \in Order /\ HoldsWhatItOwes(row)
  BY <1>5 DEF TypeOK, IsPartialFn, CommitmentsExact
<1>7. row.escrow = refund /\ row.escrow \in Int /\ row.char \in Characters
  <2> HIDE DEF row
  <2>1. row.side \in {"Buy", "Sell"}
    BY <1>6 DEF Order, Side
  <2> QED BY <1>6, <2>1 DEF HoldsWhatItOwes, Order
<1>8. DOMAIN Offers(orders) = DOMAIN orders /\ Offers(orders)[o] = Offer(row)
  BY <1>5 DEF Offers
<1>9. /\ Offer(row).char = row.char /\ Offer(row).side = row.side /\ Offer(row).price = row.price
      /\ Offer(row).remaining = row.remaining /\ Offer(row).cancelled = row.cancelled
  BY DEF Offer
<1>10. balance' = [balance EXCEPT ![row.char] = @ + refund]
  <2>1. balance' = [c \in Characters |-> balance[c] + delta[r][c]] /\ balance \in [Characters -> Int]
    BY DEF Commit, TypeOK
  <2>2. \A c \in Characters : delta[r][c] = IF c = row.char THEN row.escrow ELSE 0
    BY <1>1 DEF DeltasExplained, DeltaOf
  <2> HIDE DEF row, refund
  <2>3. \A c \in Characters : balance[c] + delta[r][c] = IF c = row.char THEN balance[c] + refund ELSE balance[c]
    BY <1>7, <2>1, <2>2
  <2> QED BY <1>7, <2>1, <2>3
<1>11. Offers(orders)' = [Offers(orders) EXCEPT ![o].remaining = 0, ![o].cancelled = TRUE]
  <2>1. Offers(orders)' = [p \in DOMAIN orders |-> Offer(orders'[p])]
    BY <1>1 DEF Offers, Offer
  <2>2. Offer(orders'[o]) = [Offer(row) EXCEPT !.remaining = 0, !.cancelled = TRUE]
    <3>1. orders'[o] = Closed(row)
      BY <1>1, <1>3, <1>5
    <3>2. Closed(row).remaining = 0 /\ Closed(row).cancelled = TRUE /\ SameTerms(Closed(row), row)
      <4>1. Closed(row).cancelled \in BOOLEAN
        BY <1>6, ClosedExact DEF Order
      <4> QED BY <1>6, <4>1, ClosedExact
    <3> HIDE DEF row, o
    <3> QED BY <3>1, <3>2, WithdrawnOffer
  <2>3. \A p \in DOMAIN orders : p # o => Offer(orders'[p]) = Offers(orders)[p]
    BY <1>1, <1>3 DEF Offers
  <2> HIDE DEF row
  <2>4. \A p \in DOMAIN Offers(orders) :
            Offer(orders'[p]) = IF p = o THEN [Offers(orders)[o] EXCEPT !.remaining = 0, !.cancelled = TRUE]
                                ELSE Offers(orders)[p]
    BY <1>8, <2>2, <2>3
  <2>5. Offers(orders) = [p \in DOMAIN Offers(orders) |-> Offers(orders)[p]]
    BY DEF Offers
  <2>6. Offers(orders)' = [p \in DOMAIN Offers(orders) |->
            IF p = o THEN [Offers(orders)[o] EXCEPT !.remaining = 0, !.cancelled = TRUE]
            ELSE Offers(orders)[p]]
    BY <1>8, <2>1, <2>4
  <2> HIDE DEF o
  <2> QED BY <1>5, <1>8, <2>5, <2>6
<1>12. Book!Cancel(o)
  <2>1. (IF Offers(orders)[o].side = "Buy"
         THEN Book!EscrowRequired(Offers(orders)[o].price, Offers(orders)[o].remaining) ELSE 0) = refund
    BY <1>8, <1>9 DEF Book!EscrowRequired, EscrowRequired, Book!GrossValue, GrossValue
  <2>2. Offers(orders)[o].char = row.char /\ ~Offers(orders)[o].cancelled
    BY <1>5, <1>8, <1>9
  <2> HIDE DEF o, row, refund
  <2> QED BY <1>10, <1>11, <2>1, <2>2 DEF Book!Cancel
<1> QED BY <1>5, <1>8, <1>12 DEF Book!Next

--------------------------------------------------------------------------------
(* The refinement.  Its invariant says, besides what the sums need, in which   *)
(* order a request has filled, which id it has, and what its balance changes   *)
(* are made of.                                                               *)
BookInv == SumInv /\ FilledInOrder /\ IdsLast /\ DeltasExplained

LEMMA InitBookInv == Init => BookInv
<1> SUFFICES ASSUME Init PROVE BookInv
  OBVIOUS
<1>1. SumInv
  BY InitSumInv
<1>2. \A r \in Requests : /\ DOMAIN entities[r] = {} /\ pc[r] \in {"idle", "done"}
                          /\ delta[r] = [c \in Characters |-> 0]
  BY EmptyPartial DEF Init
<1>3. FilledInOrder
  BY <1>2 DEF FilledInOrder, OrderedOf, CalledOf
<1>4. DeltasExplained
  BY <1>2 DEF DeltasExplained, DeltaOf
<1>5. IdsLast
  <2>1. IsFiniteSet(Numbered)
    BY RequestsFinite, FS_Subset DEF Numbered
  <2>2. Cardinality(Numbered) \in Nat
    BY <2>1, FS_CardinalityType
  <2>3. nextId = FirstId /\ FirstId \in Nat
    BY MarketTxnAssumption DEF Init
  <2> QED BY <2>2, <2>3 DEF IdsLast
<1> QED BY <1>1, <1>3, <1>4, <1>5 DEF BookInv

LEMMA StepBookInv == BookInv /\ [Next]_vars => BookInv'
BY StepSumInv, OrderedStep, IdsLastStep, DeltaStep DEF BookInv, SumInv

(* MarketService.cs: in every reachable state, a request has filled best offers *)
(* first, under an id of its own, for what its balance changes say.           *)
THEOREM BookInvariant == Spec => []BookInv
BY InitBookInv, StepBookInv, PTL DEF Spec

(* A commit is one step of the atomic book; every other step leaves its        *)
(* balances and offers as they were.                                          *)
LEMMA InitImplements == Init => Book!Init
BY DEF Init, Book!Init

LEMMA StepImplements == BookInv /\ [Next]_vars => [Book!Next]_(Book!vars)
<1> SUFFICES ASSUME BookInv, [Next]_vars PROVE [Book!Next]_(Book!vars)
  OBVIOUS
<1>1. CASE balance' = balance /\ orders' = orders
  BY <1>1 DEF Book!vars, Offers
<1>2. ASSUME NEW r \in Requests, Commit(r) PROVE Book!Next
  BY <1>2, PlacesAtOnce, CancelsAtOnce DEF BookInv, SumInv
<1> QED BY <1>1, <1>2, BalanceChanges

(* Requests that wait, fail, overlap and read what is stale move credits and  *)
(* orders as one placement or one cancel after another would: a taker takes    *)
(* the offers it locked whole, best first, pays each maker by the maker's      *)
(* price, and what it leaves rests, paid for at its own limit                 *)
(* (MarketService.cs, PlaceOrderAsync and CancelOrderAsync).                  *)
THEOREM BookRefined == Spec => ImplementsAtomicBook
<1>1. Init => Book!Init
  BY InitImplements
<1>2. BookInv /\ [Next]_vars => [Book!Next]_(Book!vars)
  BY StepImplements
<1> QED BY <1>1, <1>2, BookInvariant, PTL DEF Spec, ImplementsAtomicBook, Book!Spec

================================================================================
