CONSTANTS
    f1 = f1
    f2 = f2
    f3 = f3
    Sockets = {s1, s2}
    NoSock = NoSock
    TabIds = {t1, t2, t3}
    Board = Board
    Files = {f1, f2, f3}
    SizeOf <- MCSizeOf
    PageNumbers = {1, 2}
    Tiers = {"none", "premium"}
    PdfTabLimit <- MCPdfTabLimit
    BytesLimit <- MCBytesLimit
    MaxTabs = 4
    MaxPages = 1
    MaxItems = 2
    Requests = {r1, r2}
SPECIFICATION Spec
INVARIANT LimitsHold
PROPERTY UntouchedWithoutHost
CONSTRAINT OneConcern
SYMMETRY Symmetry
CHECK_DEADLOCK FALSE
