CONSTANTS
    c1 = c1
    c2 = c2
    s1 = s1
    None = None

    SelfImprovement = si
    Ideas = {1, 2, 3, 4}
    Categories = {c1, c2, si}
    Stems = {s1}
    Texts <- MCTexts
    Runs = {server, trim}
    Server = server
    VerticalCap = 1
    DensityCap = 2
    BucketCap = 2
    Outside = 2
SPECIFICATION SiphonSpec
INVARIANTS Idempotent Represented
PROPERTIES AcceptedSpared
