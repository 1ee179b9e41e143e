SPECIFICATION Spec
CONSTANTS
    s1 = s1
    s2 = s2
    c1 = c1
    c2 = c2
    Unset = Unset
    Servers = {s1, s2}
    Calls = {c1, c2}
    Fields = {"semantic_hardening_preset", "semantic_threshold", "dlp_scrub_level"}
    PresetFields = {"semantic_threshold"}
    Values = {"conservative", "balanced", "0.90", "0.86", "technical", "off"}
    Configs <- MCConfigs
    Presets <- MCPresets
    Configured <- MCConfigured
    Production <- MCProduction
    Payloads <- MCPayloads
SYMMETRY IdSymmetry
INVARIANTS
    TypeOK
    ReadyIsShared
    AnsweredOverrideKept
