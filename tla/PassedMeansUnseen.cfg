SPECIFICATION Spec
CONSTANTS
    Fingerprints = {f1}
    Location <- MCLocation
    Scans = {s1, s2}
    Clients = {c1}
    Requests = {r1}
    Acceptances = {}
    MaxVersion = 5
    None = None
PROPERTY PassedMeansUnseen
CHECK_DEADLOCK FALSE
