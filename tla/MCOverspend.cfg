SPECIFICATION Spec
CONSTANTS
    BrokerFeeBps = 100
    SalesTaxBps = 200
    MaxWaivedBrokerFee = 100
    Characters <- MCCharacters
    Requests = {1, 2}
    Calls <- SpendTwice
    InitialBalance <- MCBalance
    InitialHangar <- MCHangar
    InitialBook <- EmptyBook
    FirstId = 1
    MaxClock = 0
INVARIANTS NeverOverspent
CHECK_DEADLOCK FALSE
