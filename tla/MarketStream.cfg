CONSTANTS
    Tokens = {t1}
    MaxLogins = 1
    MaxTrades = 1
    MaxFaults = 1
SPECIFICATION FairSpec
INVARIANT TypeOK
INVARIANT NewestSpeaks
PROPERTY ReportsArrive
PROPERTY CallersReturn
PROPERTY SubscriptionsSettle
