------------------------------ MODULE MCMarketTxn ------------------------------
(* Instances of MarketTxn for TLC, and the atomic book they implement.        *)
EXTENDS MarketTxn

(* The book as traders see it: what an order holds follows from what is left. *)
Offer(order) ==
    [char |-> order.char, side |-> order.side, price |-> order.price, id |-> order.id,
     original |-> order.original, remaining |-> order.remaining, cancelled |-> order.cancelled]
Offers(rows) == [o \in DOMAIN rows |-> Offer(rows[o])]

TermsOf(c) == [char |-> c.char, side |-> c.side, price |-> c.price, original |-> c.quantity]

Book == INSTANCE AtomicBook WITH
            Names <- Requests,
            Terms <- {TermsOf(c) : c \in Calls \cap PlaceCall},
            Ids <- FirstId .. FirstId + Cardinality(Requests),
            StartBalance <- InitialBalance,
            StartBook <- Offers(InitialBook),
            credits <- balance,
            book <- Offers(orders)

(* Requests that wait, fail, overlap and read what is stale still move credits *)
(* and orders as one placement or one cancel after another would: every step *)
(* of theirs is a step of the atomic book or changes neither.                *)
ImplementsAtomicBook == Book!Spec

--------------------------------------------------------------------------------
MCCharacters == {"ada", "bob"}
PlaceC(c, side, price, quantity, goodFor) ==
    [op |-> "place", char |-> c, side |-> side, price |-> price,
     quantity |-> quantity, goodFor |-> goodFor]
CancelC(c, o) == [op |-> "cancel", char |-> c, order |-> o]

RestingOrder(c, side, price, quantity, id, expiresAt) ==
    [char |-> c, side |-> side, price |-> price, original |-> quantity,
     remaining |-> quantity,
     escrow |-> IF side = "Buy" THEN EscrowRequired(price, quantity) ELSE 0,
     reserved |-> IF side = "Sell" THEN quantity ELSE 0,
     id |-> id, expiresAt |-> expiresAt, cancelled |-> FALSE]

(* Each of ada and bob has an ask out, one at each price; ada's runs out.    *)
MCBook == <<RestingOrder("ada", "Sell", 110, 2, 1, 1), RestingOrder("bob", "Sell", 100, 2, 2, 9)>>

(* Buyers that take one ask or the other, a seller the buyers may meet, and  *)
(* cancels of a resting ask and of whatever the first request leaves.        *)
MCCalls ==
    { PlaceC("ada", "Buy", 110, 3, 1), PlaceC("bob", "Buy", 120, 3, 2),
      PlaceC("bob", "Sell", 110, 2, 2), CancelC("ada", 1), CancelC("bob", 3) }
MCBalance == [c \in MCCharacters |-> 400]
MCHangar == [c \in MCCharacters |-> IF c = "ada" THEN 0 ELSE 2]

(* Two requests that arrive together, on an empty book.                      *)
EmptyBook == EmptyFn
SpendTwice == { PlaceC("ada", "Buy", 100, 3, 2), PlaceC("ada", "Buy", 90, 4, 2) }

================================================================================
