SPECIFICATION Spec
CONSTANTS
    Fingerprints = {f1}
    Location <- MCLocation
    Scans = {s1}
    Clients = {c1, c2}
    Requests = {r1, r2}
    Acceptances = {a1}
    MaxVersion = 5
    None = None
SYMMETRY Symmetry
INVARIANTS TypeOK OneOutstanding
PROPERTIES LegalLifecycle VerifiedByRetest
CHECK_DEADLOCK FALSE
