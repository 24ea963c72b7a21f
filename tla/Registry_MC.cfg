CONSTANTS
    Session = {s1, s2, s3, s4, s5}
    Fingerprint = {f1, f2}
    MaxPerFingerprint = 3
    MaxGlobal = 4
    Lines = 2
    None = None
SYMMETRY Symmetry
SPECIFICATION Spec
INVARIANTS
    CountsExact
    CapsHold
    LinesConsistent
    SnapshotExact
PROPERTY ImplementsAdmission
