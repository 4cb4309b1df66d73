INIT MCInit
NEXT MCNext
CONSTANTS
    Off = Off
    None = None
    Admins = {p, q}
    Devices = {d, e}
    Static = {s}
    Dynamic = {y}
    Threshold = 1
    Ids = {r1, r2}
    MaxVersions = 3
    Unreadable = Unreadable
    p = p
    q = q
    d = d
    e = e
    s = s
    y = y
    r1 = r1
    r2 = r2
    i = i
    j = j
    k = k
    u = u
    n1 = n1
    n2 = n2
CONSTRAINT Few
SYMMETRY Symmetry
CHECK_DEADLOCK FALSE
INVARIANTS
     CarriedOutOnce PackageStands ContainsWhatItSays

    
