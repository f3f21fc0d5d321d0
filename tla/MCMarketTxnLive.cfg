SPECIFICATION FairSpec
CONSTANTS
    BrokerFeeBps = 100
    SalesTaxBps = 200
    MaxWaivedBrokerFee = 100
    Characters <- MCCharacters
    Requests = {1, 2, 3, 4, 5}
    Calls <- MCCalls
    InitialBalance <- MCBalance
    InitialHangar <- MCHangar
    InitialBook <- MCBook
    FirstId = 3
    MaxClock = 0
PROPERTIES EveryRequestEnds
CHECK_DEADLOCK FALSE
