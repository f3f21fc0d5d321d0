------------------------------- MODULE AtomicBook -------------------------------
(****************************************************************************)
(* What the order book promises: placing and cancelling an order each happen *)
(* at once.  A placement takes resting offers whole, best price first and    *)
(* then oldest first, until it is filled or has taken all it takes; money    *)
(* moves with the goods, and what is left rests on the book, paid for at its *)
(* own limit.  There are no requests, locks, transactions or escrow here:    *)
(* MCMarketTxn shows that the requests of MarketTxn do nothing else.         *)
(****************************************************************************)
EXTENDS MarketRules, Functions

CONSTANTS Names,          \* orders are named, as in MarketTxn
          Terms,          \* what may be placed: who, which side, limit, quantity
          Ids,            \* ids grow with time and break the ties of price
          StartBalance,
          StartBook

VARIABLES credits, book

vars == <<credits, book>>

Init == credits = StartBalance /\ book = StartBook

(* What placing an order charges for it up front.                            *)
UpFront(terms, fee) ==
    fee + (IF terms.side = "Buy" THEN EscrowRequired(terms.price, terms.original) ELSE 0)

(* The fee is the broker's, or nothing for a seller and a small one.         *)
Fees(terms) ==
    LET fee == BrokerFee(terms.price, terms.original)
    IN  IF terms.side = "Sell" /\ fee <= MaxWaivedBrokerFee THEN {fee, 0} ELSE {fee}

(* How much of each offer it takes, when the offers it meets are S.          *)
Ahead(terms, S, o) ==
    LET better == {p \in S : Better(terms.side, book[p], book[o])}
    IN  SumFunction([p \in better |-> book[p].remaining])
Taken(terms, S, o) == Min2(book[o].remaining, terms.original - Ahead(terms, S, o))

Meets(terms, S) ==
    \A o \in S : /\ book[o].side = Opposite(terms.side)
                 /\ book[o].char # terms.char
                 /\ Crosses(terms.side, terms.price, book[o].price)
                 /\ Taken(terms, S, o) > 0

Unfilled(terms, S) == terms.original - SumFunction([o \in S |-> Taken(terms, S, o)])

(* The seller is paid less tax; a buyer who had paid a better limit up front *)
(* gets the difference back.                                                 *)
PaidFor(terms, o, quantity, c) ==
    LET buyer == IF terms.side = "Buy" THEN terms ELSE book[o]
        seller == IF terms.side = "Buy" THEN book[o] ELSE terms
    IN  (IF c = seller.char THEN SellerProceeds(book[o].price, quantity) ELSE 0)
      + (IF c = buyer.char THEN BuyerRefund(buyer.price, book[o].price, quantity) ELSE 0)

Paid(terms, S, c) ==
    SumFunction([o \in S |-> PaidFor(terms, o, Taken(terms, S, o), c)])

Place(name, terms, id, fee, S) ==
    /\ Meets(terms, S)
    /\ credits' = [c \in DOMAIN credits |->
           credits[c] + Paid(terms, S, c) - (IF c = terms.char THEN UpFront(terms, fee) ELSE 0)]
    /\ book' = [o \in DOMAIN book \cup {name} |->
           IF o = name
           THEN [char |-> terms.char, side |-> terms.side, price |-> terms.price, id |-> id,
                 original |-> terms.original, remaining |-> Unfilled(terms, S), cancelled |-> FALSE]
           ELSE [book[o] EXCEPT !.remaining = @ - (IF o \in S THEN Taken(terms, S, o) ELSE 0)]]

(* What rests is withdrawn; a bid gets what it had paid for the rest back.   *)
Cancel(o) ==
    LET refund == IF book[o].side = "Buy" THEN EscrowRequired(book[o].price, book[o].remaining) ELSE 0
    IN  /\ ~book[o].cancelled
        /\ credits' = [credits EXCEPT ![book[o].char] = @ + refund]
        /\ book' = [book EXCEPT ![o].remaining = 0, ![o].cancelled = TRUE]

(* The order's name comes first, so that TLC sees at once when none is new.  *)
Next ==
    \/ \E name \in Names \ DOMAIN book :
          /\ DOMAIN book' = DOMAIN book \cup {name}
          /\ \E terms \in Terms : \E id \in Ids : \E fee \in Fees(terms) :
             \E S \in SUBSET DOMAIN book : Place(name, terms, id, fee, S)
    \/ \E o \in DOMAIN book : Cancel(o)

Spec == Init /\ [][Next]_vars

================================================================================
