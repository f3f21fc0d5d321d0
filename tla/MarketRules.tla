------------------------------ MODULE MarketRules ------------------------------
(****************************************************************************)
(* The pure rules of the order book: fees, settlement and crossing           *)
(* (services/SpaceMMO.Domain/Market and Economy/Credits.cs).  Money is an    *)
(* integer number of minor units, rates are basis points.                    *)
(****************************************************************************)
EXTENDS Integers

CONSTANTS BrokerFeeBps,      \* DefaultBrokerFeeBasisPoints: 100 in the code
          SalesTaxBps,       \* DefaultSalesTaxBasisPoints: 200 in the code
          MaxWaivedBrokerFee \* 1 credit, so 100 minor units, in the code

OneHundredPercent == 10000

ASSUME RatesAssumption ==
    /\ BrokerFeeBps \in 0 .. 10000
    /\ SalesTaxBps \in 0 .. 10000
    /\ MaxWaivedBrokerFee \in Nat

Side == {"Buy", "Sell"}

Opposite(side) == IF side = "Buy" THEN "Sell" ELSE "Buy"

Min2(a, b) == IF a <= b THEN a ELSE b

(* Credits.PercentRoundedUp: whatever is charged is rounded up.              *)
PercentRoundedUp(amount, bps) ==
    (amount * bps + (OneHundredPercent - 1)) \div OneHundredPercent

GrossValue(price, quantity) == price * quantity

BrokerFee(price, quantity) == PercentRoundedUp(GrossValue(price, quantity), BrokerFeeBps)

SalesTax(price, quantity) == PercentRoundedUp(GrossValue(price, quantity), SalesTaxBps)

(* A seller who cannot pay a small fee is not charged it; a buyer always is. *)
EffectiveBrokerFee(grossFee, balance, side) ==
    IF side = "Sell" /\ balance < grossFee /\ grossFee <= MaxWaivedBrokerFee
    THEN 0
    ELSE grossFee

(* What a buy order locks when it is placed: everything at its own limit.    *)
EscrowRequired(limit, quantity) == GrossValue(limit, quantity)

(* Settlement.ForFill: where the escrow of `quantity` filled units goes.     *)
EscrowConsumed(fillPrice, quantity) == fillPrice * quantity
BuyerRefund(escrowPrice, fillPrice, quantity) == (escrowPrice - fillPrice) * quantity
SellerProceeds(fillPrice, quantity) ==
    EscrowConsumed(fillPrice, quantity) - SalesTax(fillPrice, quantity)

(* Fault: the escrow is reckoned at the fill price.                          *)
OnlyConsumedReleased(escrowPrice, fillPrice, quantity) ==
    EscrowConsumed(fillPrice, quantity)

TotalEscrowReleased(escrowPrice, fillPrice, quantity) ==
    EscrowConsumed(fillPrice, quantity) + BuyerRefund(escrowPrice, fillPrice, quantity)

(* An order of `side` limited at `limit` trades with a resting order on the  *)
(* other side asking `price`.                                                *)
Crosses(side, limit, price) ==
    IF side = "Buy" THEN price <= limit ELSE price >= limit

(* Price-time priority: what a taker of `side` matches first.  Order ids grow *)
(* with the time orders are placed, and break the ties of PlacedAt.          *)
Better(side, a, b) ==
    \/ IF side = "Buy" THEN a.price < b.price ELSE a.price > b.price
    \/ a.price = b.price /\ a.id < b.id

================================================================================
