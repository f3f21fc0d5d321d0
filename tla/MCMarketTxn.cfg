SPECIFICATION Spec
CONSTANTS
    BrokerFeeBps = 100
    SalesTaxBps = 200
    MaxWaivedBrokerFee = 100
    Characters <- MCCharacters
    Requests = {1, 2, 3, 4, 5}
    Calls <- MCCalls
    InitialBalance <- MCBalance
    InitialHangar <- MCHangar
    InitialBook <- MCBook
    FirstId = 3
    MaxClock = 1
INVARIANTS TypeOK CommitmentsExact CopiesCurrent TradesAgreed OrdersAccountForTrades CreditsConserved
PROPERTIES ClosedForGood ImplementsAtomicBook
CHECK_DEADLOCK FALSE
