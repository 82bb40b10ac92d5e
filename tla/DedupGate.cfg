CONSTANTS
    d1 = d1
    d2 = d2
    d3 = d3
    s1 = s1
    Drafts = {d1, d2, d3}
    Gens = {g1, g2}
    Stems = {s1}
    None = None
    VerticalCap = 1
    Texts <- MCTexts
    Watched = s1
    Alike = {d1, d2, d3}
SPECIFICATION Spec
PROPERTIES CapIsAdmission CopiesAreAdmitted NeverDisplacesKnown
CHECK_DEADLOCK FALSE
