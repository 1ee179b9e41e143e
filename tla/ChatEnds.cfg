SPECIFICATION FairSpec
CONSTANTS
    c1 = c1
    c2 = c2
    c3 = c3
    i1 = i1
    s1 = s1
    s2 = s2
    w1 = w1
    w2 = w2
    a = a
    b = b
    x = x
    z = z
    None = None
    Scrub <- MCScrub
    FamilyOf <- MCFamilyOf
    Similarity <- MCSimilarity
    Calls = {c1, c2}
    Purges = {i1}
    Spaces = {s1}
    Scopes = {w1, w2}
    Prompts = {a, b, x, z}
    Inputs <- HitInputs
    LiveThreshold = 90
    ShadowThreshold = 80
    MaxRetries = 1
    InFlight = 1
    SameStore = TRUE
INVARIANTS
    HitAnswersTheRequest
    UpstreamOnlyIfNeeded
PROPERTIES
    EverythingEnds
CHECK_DEADLOCK FALSE
