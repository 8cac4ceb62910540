SPECIFICATION Spec
CONSTANTS
    e1 = e1  e2 = e2  p1 = p1  p2 = p2  x = x
    rel = rel  relx = relx  north = north  south = south  west = west
    Ep = {e1, e2}
    Offer = {p1, p2, x}
    EpsOf <- MCEpsOf
    Release <- MCRelease
    Size <- MCSize
    Provider <- MCProvider
    None = None
    Chosen = {{e1, e2}}
    Initial = {"downloaded"}
    MaxSnatch = 2  MaxAsk = 1
INVARIANTS TypeOK SnatchCanBeUndone ReportedIsBlocked FailedIsRetried
           BlamedIsOneSnatch
PROPERTIES RevertRestores
CHECK_DEADLOCK FALSE
SYMMETRY Twins
