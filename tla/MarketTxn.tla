------------------------------- MODULE MarketTxn -------------------------------
(****************************************************************************)
(* One station's book for one item, as the API's requests work it            *)
(* (services/SpaceMMO.Data/Market/MarketService.cs behind                    *)
(* services/SpaceMMO.Api/Endpoints/MarketEndpoints.cs).                      *)
(*                                                                           *)
(* A request is one EF Core context and one Postgres transaction at READ     *)
(* COMMITTED.  The module keeps apart what is committed (balance, hangar,    *)
(* orders), who holds which row lock, and what each request holds privately: *)
(* its tracked entities and its writes, which others see only at its commit. *)
(* A step of a request ends at the statement where it may have to wait.      *)
(*                                                                           *)
(* An order is named by the request that places it; its id is what the       *)
(* database gives it.                                                        *)
(****************************************************************************)
EXTENDS MarketRules, Transactions, FiniteSets, Functions

CONSTANTS Characters,
          Requests,        \* numbered in the order they arrive
          Calls,           \* the calls the requests may make
          InitialBalance,  \* [Characters -> Nat], minor units
          InitialHangar,   \* [Characters -> Nat], units of the item
          InitialBook,     \* orders that earlier requests left resting
          FirstId,         \* the next order's id
          MaxClock         \* bound on the clock that expires orders

PlaceCall == [op: {"place"}, char: Characters, side: Side,
              price: Nat \ {0}, quantity: Nat \ {0}, goodFor: Int]
CancelCall == [op: {"cancel"}, char: Characters, order: Requests]

Order == [char: Characters, side: Side, price: Nat \ {0}, original: Nat \ {0},
          remaining: Nat, escrow: Int, reserved: Int, id: Nat, expiresAt: Int,
          cancelled: BOOLEAN]

(* What an order holds is exactly what its unfilled part needs: a buy order  *)
(* the escrow of `remaining` units at its own limit, a sell order the units. *)
HoldsWhatItOwes(order) ==
    IF order.side = "Buy"
    THEN order.escrow = EscrowRequired(order.price, order.remaining) /\ order.reserved = 0
    ELSE order.reserved = order.remaining /\ order.escrow = 0

ASSUME MarketTxnAssumption ==
    /\ Requests \subseteq Nat \ {0} /\ IsFiniteSet(Requests) /\ IsFiniteSet(Characters)
    /\ Calls \subseteq PlaceCall \cup CancelCall
    /\ InitialBalance \in [Characters -> Nat]
    /\ InitialHangar \in [Characters -> Nat]
    /\ IsPartialFn(InitialBook, Requests, Order)
    /\ FirstId \in Nat
    /\ \A o \in DOMAIN InitialBook :
           /\ HoldsWhatItOwes(InitialBook[o]) /\ InitialBook[o].id < FirstId
           /\ InitialBook[o].cancelled => InitialBook[o].remaining = 0
    /\ MaxClock \in Nat

VARIABLES
    balance, hangar, orders, nextId, clock,  \* committed rows, the id sequence, the time
    charLock, orderLock, stackLock,          \* row locks: the request holding each row
    pc, call, start, seenBalance,            \* per request: where it is, what it was asked
    cand,                                    \*   crossing rows its query has yet to lock
    entities, stacks, delta,                 \*   tracked orders and stacks, balance changes
    fills                                    \*   what it took from each resting order

dbVars == <<balance, hangar, orders>>
lockVars == <<charLock, orderLock, stackLock>>
txnVars == <<cand, entities, stacks, delta, fills>>
vars == <<dbVars, nextId, clock, lockVars, pc, call, start, seenBalance, txnVars>>

(* A tracked stack: the quantity read, and the quantity that will be written. *)
Stack == [read: Nat, now: Nat]

Steps == {"idle", "lockCharacter", "reserveGoods", "scan", "lockOrders", "flush",
          "settle", "lockOrder", "release", "done"}

TypeOK ==
    /\ balance \in [Characters -> Int]
    /\ hangar \in [Characters -> Nat]
    /\ IsPartialFn(orders, Requests, Order)
    /\ nextId \in Nat
    /\ clock \in Nat
    /\ charLock \in [Characters -> Requests \cup {Nobody}]
    /\ orderLock \in [Requests -> Requests \cup {Nobody}]
    /\ stackLock \in [Characters -> Requests \cup {Nobody}]
    /\ pc \in [Requests -> Steps]
    /\ IsPartialFn(call, Requests, Calls)
    /\ start \in [Requests -> Nat]
    /\ seenBalance \in [Requests -> Int]
    /\ cand \in [Requests -> SUBSET Requests]
    /\ DOMAIN entities = Requests /\ DOMAIN stacks = Requests
    /\ \A r \in Requests : /\ IsPartialFn(entities[r], Requests, Order)
                          /\ IsPartialFn(stacks[r], Characters, Stack)
    /\ delta \in [Requests -> [Characters -> Int]]
    /\ fills \in [Requests -> [Requests -> Nat]]

Init ==
    /\ balance = InitialBalance
    /\ hangar = InitialHangar
    /\ orders = InitialBook
    /\ nextId = FirstId
    /\ clock = 0
    /\ charLock = [c \in Characters |-> Nobody]
    /\ orderLock = [o \in Requests |-> Nobody]
    /\ stackLock = [c \in Characters |-> Nobody]
    /\ pc = [r \in Requests |-> IF r \in DOMAIN InitialBook THEN "done" ELSE "idle"]
    /\ call = EmptyFn
    /\ start = [r \in Requests |-> 0]
    /\ seenBalance = [r \in Requests |-> 0]
    /\ cand = [r \in Requests |-> {}]
    /\ entities = [r \in Requests |-> EmptyFn]
    /\ stacks = [r \in Requests |-> EmptyFn]
    /\ delta = [r \in Requests |-> [c \in Characters |-> 0]]
    /\ fills = [r \in Requests |-> [o \in Requests |-> 0]]

--------------------------------------------------------------------------------
(* The end of a transaction.                                                 *)

GoTo(r, step) == pc' = [pc EXCEPT ![r] = step]

(* Commit or rollback: the locks go, and so does the context.                *)
EndTransaction(r) ==
    /\ GoTo(r, "done")
    /\ charLock' = Released(charLock, r)
    /\ orderLock' = Released(orderLock, r)
    /\ stackLock' = Released(stackLock, r)
    /\ cand' = [cand EXCEPT ![r] = {}]
    /\ entities' = [entities EXCEPT ![r] = EmptyFn]
    /\ stacks' = [stacks EXCEPT ![r] = EmptyFn]
    /\ delta' = [delta EXCEPT ![r] = [c \in Characters |-> 0]]
    /\ start' = [start EXCEPT ![r] = 0]
    /\ UNCHANGED <<nextId, clock>>

Rollback(r) ==
    /\ EndTransaction(r)
    /\ fills' = [fills EXCEPT ![r] = [o \in Requests |-> 0]]
    /\ call' = [s \in DOMAIN call \ {r} |-> call[s]]
    /\ seenBalance' = [seenBalance EXCEPT ![r] = 0]
    /\ UNCHANGED dbVars

(* Stack s as read by r: its tracked copy if it has one, the committed row if not. *)
StackOf(r, c) ==
    IF c \in DOMAIN stacks[r] THEN stacks[r][c] ELSE [read |-> hangar[c], now |-> hangar[c]]

(* AddAsync and RemoveAsync: a tracked stack changed in memory; a quantity of *)
(* zero deletes the row when it is flushed.                                   *)
ChangeStack(r, c, quantity) ==
    stacks' = [stacks EXCEPT
        ![r] = Put(stacks[r], c, [StackOf(r, c) EXCEPT !.now = @ + quantity])]

--------------------------------------------------------------------------------
(* PlaceOrder                                                                *)

(* The endpoint loads the caller's character before the service's            *)
(* transaction.  The context tracks it from here on, so the FOR UPDATE read  *)
(* below locks the row but gives back this balance.                          *)
Resolve(r, c) ==
    /\ pc[r] = "idle"
    /\ \A s \in Requests : s < r => pc[s] # "idle"
    /\ call' = Put(call, r, c)
    /\ seenBalance' = [seenBalance EXCEPT ![r] = balance[c.char]]
    /\ start' = [start EXCEPT ![r] = clock]
    /\ GoTo(r, IF c.op = "place" THEN "lockCharacter" ELSE "lockOrder")
    /\ UNCHANGED <<dbVars, nextId, clock, lockVars, txnVars>>

FeeOf(r) ==
    EffectiveBrokerFee(BrokerFee(call[r].price, call[r].quantity),
                       seenBalance[r], call[r].side)

EscrowOf(r) ==
    IF call[r].side = "Buy" THEN EscrowRequired(call[r].price, call[r].quantity) ELSE 0

CanAfford(r) == seenBalance[r] >= FeeOf(r) + EscrowOf(r)

(* LockAndReadBalance and the check of the upfront cost.  NOW() is the time  *)
(* the transaction began, which may be before it got the lock.               *)
LockCharacter(r) ==
    /\ pc[r] = "lockCharacter"
    /\ charLock[call[r].char] = Nobody
    /\ CanAfford(r)
    /\ charLock' = [charLock EXCEPT ![call[r].char] = r]
    /\ \E began \in start[r] .. clock : start' = [start EXCEPT ![r] = began]
    /\ GoTo(r, IF call[r].side = "Sell" THEN "reserveGoods" ELSE "scan")
    /\ UNCHANGED <<dbVars, nextId, clock, orderLock, stackLock, call, seenBalance, txnVars>>

RefuseFunds(r) ==
    /\ pc[r] = "lockCharacter"
    /\ charLock[call[r].char] = Nobody
    /\ ~CanAfford(r)
    /\ Rollback(r)

(* Fault: the quantity in the hangar is not checked.                         *)
HasGoodsUnchecked(r) == TRUE

HasGoods(r) == hangar[call[r].char] >= call[r].quantity

(* A sell order's goods leave the hangar stack, unflushed as yet.            *)
ReserveGoods(r) ==
    /\ pc[r] = "reserveGoods"
    /\ HasGoods(r)
    /\ ChangeStack(r, call[r].char, -call[r].quantity)
    /\ GoTo(r, "scan")
    /\ UNCHANGED <<dbVars, nextId, clock, lockVars, call, start, seenBalance,
                   cand, entities, delta, fills>>

RefuseGoods(r) ==
    /\ pc[r] = "reserveGoods"
    /\ ~HasGoods(r)
    /\ Rollback(r)

(* Fault: a character's own orders are not left out.                         *)
CandidateOwnToo(r, o) ==
    /\ orders[o].side = Opposite(call[r].side)
    /\ orders[o].remaining > 0
    /\ ~orders[o].cancelled
    /\ orders[o].expiresAt > start[r]
    /\ Crosses(call[r].side, call[r].price, orders[o].price)

(* The WHERE clause of LoadAndLockCandidates.                                *)
Candidate(r, o) ==
    LET row == orders[o] IN
    /\ row.side = Opposite(call[r].side)
    /\ row.remaining > 0
    /\ ~row.cancelled
    /\ row.expiresAt > start[r]
    /\ row.char # call[r].char
    /\ Crosses(call[r].side, call[r].price, row.price)

(* The statement's snapshot: the rows committed and crossing as it starts.   *)
Scan(r) ==
    /\ pc[r] = "scan"
    /\ cand' = [cand EXCEPT ![r] = {o \in DOMAIN orders : Candidate(r, o)}]
    /\ GoTo(r, "lockOrders")
    /\ UNCHANGED <<dbVars, nextId, clock, lockVars, call, start, seenBalance,
                   entities, stacks, delta, fills>>

(* Fault: the query without FOR UPDATE.                                      *)
ReadsUnlocked(r, o) == TRUE

CanLockOrder(r, o) == orderLock[o] = Nobody

(* FOR UPDATE locks row by row, in no stated order, and waits for a row      *)
(* another transaction holds.  Once it has a row it tests the row's latest   *)
(* version again and returns it only if it still qualifies.                  *)
LockCandidate(r, o) ==
    /\ pc[r] = "lockOrders"
    /\ o \in cand[r]
    /\ CanLockOrder(r, o)
    /\ orderLock' = [orderLock EXCEPT ![o] = r]
    /\ cand' = [cand EXCEPT ![r] = @ \ {o}]
    /\ entities' = [entities EXCEPT
           ![r] = IF Candidate(r, o) THEN Put(@, o, orders[o]) ELSE @]
    /\ UNCHANGED <<dbVars, nextId, clock, charLock, stackLock, pc, call, start,
                   seenBalance, stacks, delta, fills>>

NewOrder(r) ==
    [char |-> call[r].char, side |-> call[r].side, price |-> call[r].price,
     original |-> call[r].quantity, remaining |-> call[r].quantity,
     escrow |-> EscrowOf(r),
     reserved |-> IF call[r].side = "Sell" THEN call[r].quantity ELSE 0,
     id |-> nextId, expiresAt |-> clock + call[r].goodFor, cancelled |-> FALSE]

--------------------------------------------------------------------------------
(* SaveChanges writes each changed stack's row at its tracked quantity: an   *)
(* INSERT if none was read, an UPDATE or a DELETE if one was.  Writing a row *)
(* locks it until the transaction ends.                                      *)

Unflushed(r) == {c \in DOMAIN stacks[r] : stackLock[c] # r}

(* An INSERT that meets a row, or an UPDATE or DELETE that meets none, fails. *)
Conflict(r) == \E c \in Unflushed(r) : (stacks[r][c].read = 0) # (hangar[c] = 0)

CanFlush(r) == \A c \in Unflushed(r) : stackLock[c] = Nobody

WriteStacks(r) ==
    /\ CanFlush(r)
    /\ ~Conflict(r)
    /\ stackLock' = [c \in Characters |-> IF c \in Unflushed(r) THEN r ELSE stackLock[c]]

(* The incoming order is written with its seller's stack in one SaveChanges; *)
(* then its fee and its escrow are taken.  The row is written with what the  *)
(* match leaves unfilled; here that is counted down fill by fill, before the *)
(* commit lets anyone see it.                                                *)
InsertOrder(r) ==
    /\ pc[r] = "lockOrders"
    /\ cand[r] = {}
    /\ WriteStacks(r)
    /\ entities' = [entities EXCEPT ![r] = Put(@, r, NewOrder(r))]
    /\ nextId' = nextId + 1
    /\ delta' = [delta EXCEPT ![r][call[r].char] = @ - FeeOf(r) - EscrowOf(r)]
    /\ GoTo(r, "settle")
    /\ UNCHANGED <<dbVars, clock, charLock, orderLock, call, start, seenBalance,
                   cand, stacks, fills>>

(* The goods of the last fill or of a cancelled order.                       *)
Flush(r) ==
    /\ pc[r] = "flush"
    /\ WriteStacks(r)
    /\ GoTo(r, "settle")
    /\ UNCHANGED <<dbVars, nextId, clock, charLock, orderLock, call, start, seenBalance, txnVars>>

AtFlush(r) == pc[r] = "flush" \/ (pc[r] = "lockOrders" /\ cand[r] = {})

FlushFails(r) ==
    /\ AtFlush(r)
    /\ CanFlush(r)
    /\ Conflict(r)
    /\ Rollback(r)

--------------------------------------------------------------------------------
(* The fills, best candidate first                                           *)

Resting(r) == {o \in DOMAIN entities[r] \ {r} : entities[r][o].remaining > 0}

FillDue(r) ==
    /\ call[r].op = "place"
    /\ entities[r][r].remaining > 0
    /\ Resting(r) # {}

(* Fault: the rows are matched in the order the query gave them.             *)
AnyResting(r, o) == o \in Resting(r)

IsNext(r, o) ==
    /\ o \in Resting(r)
    /\ \A p \in Resting(r) \ {o} : Better(call[r].side, entities[r][o], entities[r][p])

FillQuantity(r, o) == Min2(entities[r][r].remaining, entities[r][o].remaining)

(* An order after `quantity` of it traded at `fillPrice`.                    *)
AfterFill(order, quantity, fillPrice) ==
    [order EXCEPT
        !.remaining = @ - quantity,
        !.escrow = IF order.side = "Buy"
                   THEN @ - TotalEscrowReleased(order.price, fillPrice, quantity)
                   ELSE @,
        !.reserved = IF order.side = "Sell" THEN @ - quantity ELSE @]

BuyerOf(r, o) == IF call[r].side = "Buy" THEN entities[r][r] ELSE entities[r][o]
SellerOf(r, o) == IF call[r].side = "Buy" THEN entities[r][o] ELSE entities[r][r]

(* Fault: only the seller is paid; a better price returns nothing.           *)
PaidWithoutRefund(r, o, c) ==
    IF c = SellerOf(r, o).char
    THEN SellerProceeds(entities[r][o].price, FillQuantity(r, o))
    ELSE 0

(* What the fill of o by r pays character c.                                 *)
PaidByFill(r, o, c) ==
    LET quantity == FillQuantity(r, o)
        price == entities[r][o].price
    IN  (IF c = SellerOf(r, o).char THEN SellerProceeds(price, quantity) ELSE 0)
      + (IF c = BuyerOf(r, o).char
         THEN BuyerRefund(BuyerOf(r, o).price, price, quantity) ELSE 0)

(* The rows AdjustBalance updates: a change of zero is not written.          *)
Credited(r, o) == {c \in Characters : PaidByFill(r, o, c) # 0}

CanCredit(r, o) == \A c \in Credited(r, o) : Free(charLock, c, r)

Fill(r, o) ==
    /\ pc[r] = "settle"
    /\ FillDue(r)
    /\ IsNext(r, o)
    /\ CanCredit(r, o)
    /\ entities' = [entities EXCEPT
           ![r][r] = AfterFill(@, FillQuantity(r, o), entities[r][o].price),
           ![r][o] = AfterFill(@, FillQuantity(r, o), entities[r][o].price)]
    /\ fills' = [fills EXCEPT ![r][o] = FillQuantity(r, o)]
    /\ charLock' = [c \in Characters |-> IF c \in Credited(r, o) THEN r ELSE charLock[c]]
    /\ delta' = [delta EXCEPT ![r] = [c \in Characters |-> @[c] + PaidByFill(r, o, c)]]
    /\ ChangeStack(r, BuyerOf(r, o).char, FillQuantity(r, o))
    /\ GoTo(r, "flush")
    /\ UNCHANGED <<dbVars, nextId, clock, orderLock, stackLock, call, start, seenBalance, cand>>

Commit(r) ==
    /\ pc[r] = "settle"
    /\ ~FillDue(r)
    /\ orders' = [o \in DOMAIN orders \cup DOMAIN entities[r] |->
                     IF o \in DOMAIN entities[r] THEN entities[r][o] ELSE orders[o]]
    /\ balance' = [c \in Characters |-> balance[c] + delta[r][c]]
    /\ hangar' = [c \in Characters |->
                     IF c \in DOMAIN stacks[r] THEN stacks[r][c].now ELSE hangar[c]]
    /\ EndTransaction(r)
    /\ UNCHANGED <<call, seenBalance, fills>>

--------------------------------------------------------------------------------
(* CancelOrder                                                               *)

Cancellable(r) ==
    LET o == call[r].order IN
    /\ o \in DOMAIN orders
    /\ orders[o].char = call[r].char
    /\ ~orders[o].cancelled

LockOrder(r) ==
    /\ pc[r] = "lockOrder"
    /\ CanLockOrder(r, call[r].order)
    /\ Cancellable(r)
    /\ orderLock' = [orderLock EXCEPT ![call[r].order] = r]
    /\ entities' = [entities EXCEPT ![r] = Put(@, call[r].order, orders[call[r].order])]
    /\ GoTo(r, "release")
    /\ UNCHANGED <<dbVars, nextId, clock, charLock, stackLock, call, start, seenBalance,
                   cand, stacks, delta, fills>>

(* No such order, not the caller's, or cancelled before.                     *)
RefuseCancel(r) ==
    /\ pc[r] = "lockOrder"
    /\ CanLockOrder(r, call[r].order)
    /\ ~Cancellable(r)
    /\ Rollback(r)

(* Fault: cancelled, but still on offer.                                     *)
ClosedButOffered(order) == [order EXCEPT !.escrow = 0, !.reserved = 0, !.cancelled = TRUE]

Closed(order) ==
    [order EXCEPT !.escrow = 0, !.reserved = 0, !.remaining = 0, !.cancelled = TRUE]

(* Escrow returns to the balance and reserved goods to the hangar; an order  *)
(* filled to the last unit has neither and is marked cancelled all the same. *)
Release(r) ==
    LET o == call[r].order
        order == entities[r][o]
        c == order.char
    IN  /\ pc[r] = "release"
        /\ \/ /\ order.escrow > 0
              /\ Free(charLock, c, r)
              /\ charLock' = [charLock EXCEPT ![c] = r]
              /\ delta' = [delta EXCEPT ![r][c] = @ + order.escrow]
           \/ /\ order.escrow <= 0
              /\ UNCHANGED <<charLock, delta>>
        /\ IF order.reserved > 0
           THEN ChangeStack(r, c, order.reserved)
           ELSE UNCHANGED stacks
        /\ entities' = [entities EXCEPT ![r][o] = Closed(order)]
        /\ GoTo(r, IF order.reserved > 0 THEN "flush" ELSE "settle")
        /\ UNCHANGED <<dbVars, nextId, clock, orderLock, stackLock, call, start,
                       seenBalance, cand, fills>>

--------------------------------------------------------------------------------
(* Deadlock, failure, time                                                   *)

(* Who holds the rows r waits for; {} when r is not waiting.                 *)
WaitsFor(r) ==
    CASE AtFlush(r) -> HoldersOf(stackLock, DOMAIN stacks[r], r)
      [] pc[r] = "lockCharacter" -> HoldersOf(charLock, {call[r].char}, r)
      [] pc[r] = "lockOrder" -> HoldersOf(orderLock, {call[r].order}, r)
      [] pc[r] = "lockOrders" /\ cand[r] # {} ->
            IF \E o \in cand[r] : orderLock[o] = Nobody THEN {}
            ELSE HoldersOf(orderLock, cand[r], r)
      [] pc[r] = "release" ->
            IF entities[r][call[r].order].escrow > 0
            THEN HoldersOf(charLock, {call[r].char}, r) ELSE {}
      [] pc[r] = "settle" ->
            HoldersOf(charLock, UNION {Credited(r, o) :
                          o \in {p \in Requests : FillDue(r) /\ IsNext(r, p)}}, r)
      [] OTHER -> {}

Deadlocked(r) == Stuck(r, [s \in Requests |-> WaitsFor(s)])

(* Postgres breaks a deadlock by failing one of its transactions; the        *)
(* service does not retry.                                                   *)
DeadlockVictim(r) == Deadlocked(r) /\ Rollback(r)

(* The caller goes away, the process dies or the connection drops: the       *)
(* transaction is disposed of uncommitted.                                   *)
Disconnect(r) == pc[r] \notin {"idle", "done"} /\ Rollback(r)

Tick ==
    /\ clock < MaxClock
    /\ clock' = clock + 1
    /\ UNCHANGED <<dbVars, nextId, lockVars, pc, call, start, seenBalance, txnVars>>

PlaceStep(r) ==
    \/ LockCharacter(r) \/ RefuseFunds(r)
    \/ ReserveGoods(r) \/ RefuseGoods(r)
    \/ Scan(r)
    \/ \E o \in Requests : LockCandidate(r, o)
    \/ InsertOrder(r)
    \/ \E o \in Requests : Fill(r, o)

CancelStep(r) == LockOrder(r) \/ RefuseCancel(r) \/ Release(r)

Step(r) ==
    \/ PlaceStep(r)
    \/ CancelStep(r)
    \/ Flush(r) \/ FlushFails(r)
    \/ Commit(r)
    \/ DeadlockVictim(r)

Next ==
    \/ \E r \in Requests : \/ \E c \in Calls : Resolve(r, c)
                           \/ Step(r)
                           \/ Disconnect(r)
    \/ Tick

Spec == Init /\ [][Next]_vars

(* The server runs every request it has taken on.                            *)
FairSpec == Spec /\ \A r \in Requests : WF_vars(Step(r))

--------------------------------------------------------------------------------
(* Properties                                                                *)

(* An order on the book always represents money or material that exists and  *)
(* has been committed (economy-design.md section 5), through fills at better *)
(* prices, concurrent takers, cancels and failures half-way.                 *)
CommitmentsExact == \A o \in DOMAIN orders : HoldsWhatItOwes(orders[o])

(* The fields no update touches.                                             *)
SameTerms(a, b) ==
    a.char = b.char /\ a.side = b.side /\ a.price = b.price /\ a.id = b.id
    /\ a.original = b.original /\ a.expiresAt = b.expiresAt

(* Between locking a resting order and committing, a placement's tracked     *)
(* copy never goes stale: the committed row is locked by it and still shows  *)
(* what the copy shows plus what this placement has taken.  It is why writing *)
(* absolute quantities back loses no fill.                                   *)
CopiesCurrent ==
    \A r \in Requests : \A o \in DOMAIN entities[r] \ {r} :
        /\ o \in DOMAIN orders
        /\ orderLock[o] = r
        /\ SameTerms(entities[r][o], orders[o])
        /\ call[r].op = "place" =>
               /\ orders[o].remaining = entities[r][o].remaining + fills[r][o]
               /\ orders[o].cancelled = entities[r][o].cancelled

(* Every recorded trade is one both orders agreed to: opposite sides,        *)
(* different characters, a resting price within the taker's limit, and an    *)
(* order that rested before the taker was placed.                            *)
TradesAgreed ==
    \A t \in DOMAIN orders : \A m \in Requests :
        fills[t][m] > 0 =>
            /\ m \in DOMAIN orders
            /\ orders[m].side = Opposite(orders[t].side)
            /\ orders[m].char # orders[t].char
            /\ Crosses(orders[t].side, orders[t].price, orders[m].price)
            /\ orders[m].id < orders[t].id

(* A filled or cancelled order stays closed: it never gets quantity, escrow  *)
(* or goods back, is never un-cancelled, and no placement that commits later *)
(* has traded against it.                                                    *)
ClosedForGood ==
    [][\A o \in DOMAIN orders : orders[o].remaining = 0 \/ orders[o].cancelled =>
           /\ orders'[o].remaining = orders[o].remaining
           /\ orders'[o].escrow = orders[o].escrow
           /\ orders'[o].reserved = orders[o].reserved
           /\ orders[o].cancelled => orders'[o].cancelled
           /\ \A t \in DOMAIN orders' \ DOMAIN orders : fills'[t][o] = 0]_vars

(* Every request taken on gets an answer: no wait for a row lasts for ever.  *)
EveryRequestEnds == \A r \in Requests : pc[r] # "idle" ~> pc[r] = "done"

(* Units of o that trades record: what was taken of it, and what it took.     *)
TradedOf(o) == SumFunction([t \in DOMAIN orders |-> fills[t][o]]) + SumFunction(fills[o])

OfferedOf(o) == IF o \in DOMAIN InitialBook THEN InitialBook[o].remaining ELSE orders[o].original

(* No order is overfilled or underfilled: what trades say left it and what it *)
(* still offers make up what it offered, and a cancelled one offers nothing.  *)
OrdersAccountForTrades ==
    \A o \in DOMAIN orders :
        IF orders[o].cancelled
        THEN orders[o].remaining = 0 /\ TradedOf(o) <= OfferedOf(o)
        ELSE orders[o].remaining + TradedOf(o) = OfferedOf(o)

TaxOf(t) ==
    SumFunction([m \in Requests |->
        IF fills[t][m] > 0 THEN SalesTax(orders[m].price, fills[t][m]) ELSE 0])

Escrowed(book) == SumFunction([o \in DOMAIN book |-> book[o].escrow])

Charged == SumFunction([o \in DOMAIN orders \ DOMAIN InitialBook |-> FeeOf(o) + TaxOf(o)])

(* Credits are destroyed by fees and tax alone: balances and escrow, with     *)
(* every broker fee and sales tax charged so far, are what there was.         *)
CreditsConserved ==
    SumFunction(balance) + Escrowed(orders) + Charged
        = SumFunction(InitialBalance) + Escrowed(InitialBook)

(* MarketService.cs:563-564: the lock keeps two orders of one character from *)
(* passing a check against the same credits and jointly overspending.        *)
NeverOverspent == \A c \in Characters : balance[c] >= 0

================================================================================
