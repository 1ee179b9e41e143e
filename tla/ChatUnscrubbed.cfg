SPECIFICATION Spec
CONSTANTS
    c1 = c1
    c2 = c2
    c3 = c3
    i1 = i1
    s1 = s1
    s2 = s2
    w1 = w1
    w2 = w2
    a = a
    b = b
    x = x
    z = z
    None = None
    Scrub <- MCScrub
    FamilyOf <- MCFamilyOf
    Similarity <- MCSimilarity
    Calls = {c1, c2}
    Purges = {}
    Spaces = {s1, s2}
    Scopes = {w1, w2}
    Prompts = {a, b, x, z}
    Inputs <- AllInputs
    LiveThreshold = 90
    ShadowThreshold = 80
    MaxRetries = 1
    InFlight = 2
    SameStore = TRUE
INVARIANTS
    UpstreamIsScrubbed
CHECK_DEADLOCK FALSE
