CONSTANTS
    Pnls <- MCPnls
    ShockSleeve = 3
    MaxShocks = 2
    WindowEnd = 1
    LastBar <- MCLastBar
    MaxRevisions = 1
    Shares <- MCShares
    Levels <- MCLevels
    Waits <- MCWaits
    Lags <- MCLags
    MaxFills <- MCMaxFills
    MatchWithin = 4
    Portfolio <- MCPortfolio
SPECIFICATION Spec
INVARIANTS
    LogIsForwardTrades
    TallyIsOfTrades
    ConcurrencyIsPeak
    LedgerIsCash
    LabelsMatchEntries
