SPECIFICATION FeeSpec
CONSTANTS
    owner = owner
    squad = squad
    Key = {owner, squad}
    wallet = wallet
    Address = {wallet}
    usd = usd
    Mint = {usd}
    Supply = 3
    SwapAmounts = {999, 2500}
    Allocations <- MCAllocations
    Intervals = {3599, 3600}
    Thresholds = {2}
    Times = {3599, 3600}
    Bump <- MCBump
    Totals <- MCTotals
CHECK_DEADLOCK FALSE
INVARIANTS
    AccumulatedBacked
    SplitIsExact
