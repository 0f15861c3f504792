SPECIFICATION Spec
CONSTANTS
    a1 = a1
    a2 = a2
    e1 = e1
    e2 = e2
    o1 = o1
    o2 = o2
    t1 = t1
    t2 = t2
    ws = ws
    poll = poll
    Attempts = {a1, a2}
    Events = {e1, e2}
    Orders = {o1, o2}
    Trades = {t1, t2}
    Origins = {ws, poll}
    Fills <- MCFills
    TradeReports <- MCTradeReports
    OrderReports <- MCOrderReports
    NoOrder = NoOrder
    NoEvent = NoEvent
INVARIANTS
    TypeOK
    AtMostOneUnresolved
    VerdictHasEvidence
PROPERTIES
    TerminalIsFinal
    SubmittingNeedsAnswer
    RepeatsDoNotRefresh
