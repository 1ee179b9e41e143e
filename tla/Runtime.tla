------------------------------ MODULE Runtime ------------------------------
(***************************************************************************)
(* How a server process starts, what it falls back to when a backend does  *)
(* not answer, when it calls itself ready (src/app/core/lifecycle.py,      *)
(* posture.py), and the policy overrides an admin sets while servers start *)
(* and stop (src/app/core/policy_state.py).  The overrides are one row of  *)
(* the database; every writer reads it, changes its copy and writes the    *)
(* copy back whole.                                                        *)
(*                                                                         *)
(* An operator named Mut... is a plausible bug in the operation defined    *)
(* below it; it is part of no specification.                               *)
(***************************************************************************)
EXTENDS FiniteSets

CONSTANTS
    Servers,        \* app processes
    Calls,          \* POST /admin/policy calls that can be in progress at once
    Configs,        \* settings a process may be started with, its detectors well formed
    Fields,         \* of an override: semantic_hardening_preset and others
    PresetFields,   \* the fields a preset has a value for
    Values,
    Presets,        \* preset name -> its value of each field of PresetFields
    Configured,     \* what the settings say of each field
    Production,     \* PRODUCTION_POLICY_DEFAULTS
    Payloads,       \* the updates an admin may send
    Unset           \* None

PersistentFlags == {"request_event_logging_enabled", "request_ledger_enabled",
    "risk_event_logging_enabled", "shadow_savings_logging_enabled",
    "scoped_policy_enabled", "rollups_enabled", "billing_prep_enabled"}

PilotRequiredFlags == PersistentFlags \cup {
    "controlplane_identity_enabled", "controlplane_identity_seed_enabled",
    "identity_guard_enabled", "identity_strict_mode_enabled",
    "identity_partitioning_enabled", "multimodal_hard_alignment_enabled",
    "policy_timing_breakdown_enabled"}

Settings == [strictProfile : BOOLEAN, validated : BOOLEAN, redis : BOOLEAN, redisUrl : BOOLEAN,
             pgvector : BOOLEAN, semanticDsn : BOOLEAN, policyDsn : BOOLEAN,
             staticKey : BOOLEAN, flags : SUBSET PilotRequiredFlags]

Overrides == [Fields -> Values \cup {Unset}]
Complete == [Fields -> Values]

PresetNames == DOMAIN Presets

ASSUME RuntimeAssumption ==
    /\ "semantic_hardening_preset" \in Fields
    /\ PresetFields \subseteq Fields \ {"semantic_hardening_preset"}
    /\ Unset \notin Values /\ "custom" \notin PresetNames
    /\ Unset \notin Complete
    /\ Presets \in [PresetNames -> [PresetFields -> Values]]
    /\ PresetNames \subseteq Values
    /\ Configured \in Overrides /\ Production \in Complete
    /\ Production["semantic_hardening_preset"] \in PresetNames
    /\ Payloads \subseteq Overrides
    /\ \A p \in Payloads :
        p["semantic_hardening_preset"] \in PresetNames \cup {Unset}
    /\ Configs \subseteq Settings /\ Configs # {}

VARIABLES
    phase,      \* how far each process is with its start
    app,        \* app.state of each process
    read,       \* the overrides a starting process read, to write them back
    row,        \* the row 'default' of admin_policy_overrides, or Unset
    call,       \* what each admin call read and is to change
    settled     \* history: of each field, what the last update of it was answered with,
                \* Unset once another writer overlapped that update

vars == <<phase, app, read, row, call, settled>>

-----------------------------------------------------------------------------
(* The settings a process refuses to start with                            *)

PolicyDsn(cfg) == cfg.policyDsn \/ cfg.semanticDsn
StrictStartup(cfg) == cfg.validated \/ cfg.strictProfile

NeedsDsn(cfg) == "controlplane_identity_enabled" \in cfg.flags \/ cfg.flags \cap PersistentFlags # {}

Requires(cfg, flag, other) == flag \in cfg.flags => other \in cfg.flags

PostureOk(cfg) ==
    /\ NeedsDsn(cfg) => PolicyDsn(cfg)
    /\ "controlplane_identity_seed_enabled" \in cfg.flags => cfg.staticKey
    /\ Requires(cfg, "billing_prep_enabled", "request_ledger_enabled")
    /\ Requires(cfg, "rollups_enabled", "request_ledger_enabled")
    /\ Requires(cfg, "identity_strict_mode_enabled", "controlplane_identity_enabled")
    /\ Requires(cfg, "identity_partitioning_enabled", "controlplane_identity_enabled")
    /\ StrictStartup(cfg) /\ cfg.redis => cfg.redisUrl
    /\ StrictStartup(cfg) /\ cfg.pgvector => cfg.semanticDsn
    /\ cfg.strictProfile => cfg.redis /\ cfg.pgvector /\ cfg.staticKey
                            /\ cfg.flags = PilotRequiredFlags

-----------------------------------------------------------------------------
(* Overrides                                                               *)

NoOverrides == [f \in Fields |-> Unset]
MutMerge(current, updates) == updates
Merge(current, updates) ==
    [f \in Fields |-> IF updates[f] = Unset THEN current[f] ELSE updates[f]]

GetOverrides == IF row = Unset THEN NoOverrides ELSE row

MutWithDefaults(current) == Production
WithDefaults(current) == Merge(Production, current)

(* A preset fills the fields the payload leaves open. *)
WithPreset(updates) ==
    LET preset == updates["semantic_hardening_preset"] IN
    IF preset = Unset THEN updates
    ELSE [f \in Fields |-> IF updates[f] = Unset /\ f \in PresetFields
                           THEN Presets[preset][f] ELSE updates[f]]

InferPreset(policy) ==
    LET explicit == policy["semantic_hardening_preset"]
        matching == {p \in PresetNames : \A f \in PresetFields : policy[f] = Presets[p][f]}
    IN  IF explicit \in PresetNames THEN explicit
        ELSE IF matching = {} THEN "custom" ELSE CHOOSE p \in matching : TRUE

(* The policy an admin is shown: overrides, else the settings. *)
Resolved(overrides) ==
    LET policy == Merge(Configured, overrides)
    IN  [policy EXCEPT !["semantic_hardening_preset"] = InferPreset(policy)]

-----------------------------------------------------------------------------
(* A process starts                                                        *)

Phases == {"stopped", "semantic", "policy_read", "policy_write", "policy_reread",
           "policy_rewrite", "shadow", "cache", "identity", "repositories", "serving"}

AppStates == [cfg : Configs, cache : {"memory", "redis"}, cacheFallback : BOOLEAN,
              semantic : {"memory", "pgvector"}, semanticFallback : BOOLEAN,
              policy : {"memory", "postgres"}, overrides : Overrides, shadow : BOOLEAN,
              identity : {"disabled", "static", "static_fallback", "repository"},
              repositories : SUBSET PersistentFlags]

Defaults(cfg) ==
    [cfg |-> cfg, cache |-> "memory", cacheFallback |-> FALSE, semantic |-> "memory",
     semanticFallback |-> FALSE, policy |-> "memory", overrides |-> NoOverrides,
     shadow |-> FALSE, identity |-> "disabled", repositories |-> {}]

(* A process that is stopped has no state, of whatever settings. *)
NoApp == Defaults(CHOOSE cfg \in Configs : TRUE)

Start(s) ==
    /\ phase[s] = "stopped"
    /\ \E cfg \in Configs :
        /\ PostureOk(cfg)
        /\ app' = [app EXCEPT ![s] = Defaults(cfg)]
    /\ phase' = [phase EXCEPT ![s] = "semantic"]
    /\ UNCHANGED <<read, row, call, settled>>

InitializeSemanticStore(s) ==
    LET cfg == app[s].cfg IN
    /\ phase[s] = "semantic"
    /\ \E active \in (IF cfg.pgvector /\ cfg.semanticDsn THEN BOOLEAN ELSE {FALSE}) :
        app' = [app EXCEPT ![s].semantic = IF active THEN "pgvector" ELSE "memory",
                           ![s].semanticFallback = cfg.pgvector /\ ~active]
    /\ phase' = [phase EXCEPT ![s] = IF PolicyDsn(cfg) THEN "policy_read" ELSE "cache"]
    /\ UNCHANGED <<read, row, call, settled>>

(* ensure_default_policy_row, called by the warmup and again after it *)
ReadDefaults(s) ==
    \E again \in BOOLEAN :
        /\ phase[s] = IF again THEN "policy_reread" ELSE "policy_read"
        /\ read' = [read EXCEPT ![s] = GetOverrides]
        /\ phase' = [phase EXCEPT ![s] = IF again THEN "policy_rewrite" ELSE "policy_write"]
        /\ UNCHANGED <<app, row, call, settled>>

WriteDefaults(s) ==
    \E again \in BOOLEAN :
        /\ phase[s] = IF again THEN "policy_rewrite" ELSE "policy_write"
        /\ row' = WithDefaults(read[s])
        /\ phase' = [phase EXCEPT ![s] = IF again THEN "shadow" ELSE "policy_reread"]
        /\ app' = IF again THEN [app EXCEPT ![s].policy = "postgres"] ELSE app
        /\ read' = [read EXCEPT ![s] = NoOverrides]
        /\ UNCHANGED <<call, settled>>

WarmShadowAnalytics(s) ==
    /\ phase[s] = "shadow"
    /\ app' = [app EXCEPT ![s].shadow = TRUE]
    /\ phase' = [phase EXCEPT ![s] = "cache"]
    /\ UNCHANGED <<read, row, call, settled>>

(* The policy store or the shadow table does not answer: neither is used. *)
PolicyStoreFails(s) ==
    /\ phase[s] \in {"policy_read", "policy_write", "policy_reread", "policy_rewrite", "shadow"}
    /\ app' = [app EXCEPT ![s].policy = "memory"]
    /\ phase' = [phase EXCEPT ![s] = "cache"]
    /\ read' = [read EXCEPT ![s] = NoOverrides]
    /\ UNCHANGED <<row, call, settled>>

MutInitializeCache(s) ==
    LET cfg == app[s].cfg IN
    /\ phase[s] = "cache"
    /\ \E active \in (IF cfg.redis /\ cfg.redisUrl THEN BOOLEAN ELSE {FALSE}) :
        app' = [app EXCEPT ![s].cache = IF active THEN "redis" ELSE "memory",
                           ![s].cacheFallback = cfg.redis /\ ~cfg.redisUrl]
    /\ phase' = [phase EXCEPT ![s] = "identity"]
    /\ UNCHANGED <<read, row, call, settled>>

InitializeCache(s) ==
    LET cfg == app[s].cfg IN
    /\ phase[s] = "cache"
    /\ \E active \in (IF cfg.redis /\ cfg.redisUrl THEN BOOLEAN ELSE {FALSE}) :
        app' = [app EXCEPT ![s].cache = IF active THEN "redis" ELSE "memory",
                           ![s].cacheFallback = cfg.redis /\ ~active]
    /\ phase' = [phase EXCEPT ![s] = "identity"]
    /\ UNCHANGED <<read, row, call, settled>>

(* What the key repository then answers is the module ApiKeys. *)
IdentityModes(cfg) ==
    IF "controlplane_identity_enabled" \notin cfg.flags \/ ~cfg.staticKey THEN {"disabled"}
    ELSE IF ~PolicyDsn(cfg) THEN {"static"} ELSE {"repository", "static_fallback"}

BootstrapIdentity(s) ==
    /\ phase[s] = "identity"
    /\ \E mode \in IdentityModes(app[s].cfg) : app' = [app EXCEPT ![s].identity = mode]
    /\ phase' = [phase EXCEPT ![s] = "repositories"]
    /\ UNCHANGED <<read, row, call, settled>>

WarmRepositories(s) ==
    /\ phase[s] = "repositories"
    /\ app' = [app EXCEPT ![s].repositories =
                    IF PolicyDsn(app[s].cfg) THEN app[s].cfg.flags \cap PersistentFlags ELSE {}]
    /\ phase' = [phase EXCEPT ![s] = "serving"]
    /\ UNCHANGED <<read, row, call, settled>>

(* A shutdown, a crash, or a repository whose warmup raises *)
Stop(s) ==
    /\ phase[s] # "stopped"
    /\ phase' = [phase EXCEPT ![s] = "stopped"]
    /\ app' = [app EXCEPT ![s] = NoApp]
    /\ read' = [read EXCEPT ![s] = NoOverrides]
    /\ call' = [c \in Calls |-> IF call[c] # Unset /\ call[c].server = s THEN Unset ELSE call[c]]
    /\ UNCHANGED <<row, settled>>

Ready(s) ==
    /\ phase[s] = "serving"
    /\ ~app[s].cacheFallback /\ ~app[s].semanticFallback
    /\ "controlplane_identity_enabled" \in app[s].cfg.flags => app[s].identity = "repository"

-----------------------------------------------------------------------------
(* An admin sets overrides                                                 *)

Visible(s) == IF app[s].policy = "postgres" THEN GetOverrides ELSE app[s].overrides

(* The policy a chat request is handled with. *)
InForce(s) == Merge(Configured, Visible(s))

UpdateInMemory(s, updates) ==
    /\ phase[s] = "serving" /\ app[s].policy = "memory"
    /\ app' = [app EXCEPT ![s].overrides = Merge(@, WithPreset(updates))]
    /\ UNCHANGED <<phase, read, row, call, settled>>

ReadOverrides(c, s, updates) ==
    /\ call[c] = Unset
    /\ phase[s] = "serving" /\ app[s].policy = "postgres"
    /\ call' = [call EXCEPT ![c] =
                    [server |-> s, updates |-> WithPreset(updates), current |-> GetOverrides]]
    /\ UNCHANGED <<phase, app, read, row, settled>>

Alone(c) ==
    /\ \A d \in Calls \ {c} : call[d] = Unset
    /\ \A s \in Servers : phase[s] \notin {"policy_write", "policy_rewrite"}

WriteOverrides(c) ==
    /\ call[c] # Unset
    /\ LET updates == call[c].updates
           written == Merge(call[c].current, updates)
       IN  /\ row' = written
           /\ settled' = [f \in Fields |-> IF updates[f] = Unset THEN settled[f]
                                           ELSE IF Alone(c) THEN Resolved(written)[f] ELSE Unset]
    /\ call' = [call EXCEPT ![c] = Unset]
    /\ UNCHANGED <<phase, app, read>>

(* The database refuses the write: the admin is answered 500. *)
WriteFails(c) ==
    /\ call[c] # Unset
    /\ call' = [call EXCEPT ![c] = Unset]
    /\ UNCHANGED <<phase, app, read, row, settled>>

-----------------------------------------------------------------------------
Init ==
    /\ phase = [s \in Servers |-> "stopped"]
    /\ app = [s \in Servers |-> NoApp]
    /\ read = [s \in Servers |-> NoOverrides]
    /\ row = Unset
    /\ call = [c \in Calls |-> Unset]
    /\ settled = NoOverrides

Next ==
    \/ \E s \in Servers :
        \/ Start(s)
        \/ InitializeSemanticStore(s)
        \/ ReadDefaults(s)
        \/ WriteDefaults(s)
        \/ WarmShadowAnalytics(s)
        \/ PolicyStoreFails(s)
        \/ InitializeCache(s)
        \/ BootstrapIdentity(s)
        \/ WarmRepositories(s)
        \/ Stop(s)
        \/ \E updates \in Payloads : UpdateInMemory(s, updates)
    \/ \E c \in Calls :
        \/ \E s \in Servers, updates \in Payloads : ReadOverrides(c, s, updates)
        \/ WriteOverrides(c)
        \/ WriteFails(c)

Spec == Init /\ [][Next]_vars

-----------------------------------------------------------------------------
(* The row, once written, has a value for every field, and a process uses  *)
(* it only after it is written: update_overrides turns the shadow          *)
(* threshold it read into a float, which fails on a field still open       *)
(* (policy_state.py:92).                                                   *)
TypeOK ==
    /\ phase \in [Servers -> Phases]
    /\ app \in [Servers -> AppStates]
    /\ read \in [Servers -> Overrides]
    /\ row \in Complete \cup {Unset}
    /\ call \in [Calls -> [server : Servers, updates : Overrides, current : Complete] \cup {Unset}]
    /\ settled \in Overrides
    /\ \A s \in Servers : app[s].policy = "postgres" => row # Unset

(* A server that answers /ready with success has every backend its         *)
(* settings ask for, and under a strict profile every backend there is:    *)
(* two ready servers share cache, semantic store, keys and repositories.   *)
ReadyIsShared ==
    \A s \in Servers : Ready(s) =>
        LET cfg == app[s].cfg IN
        /\ cfg.redis \/ cfg.strictProfile => app[s].cache = "redis"
        /\ cfg.pgvector \/ cfg.strictProfile => app[s].semantic = "pgvector"
        /\ "controlplane_identity_enabled" \in cfg.flags \/ cfg.strictProfile
                => app[s].identity = "repository"
        /\ app[s].repositories = cfg.flags \cap PersistentFlags
        /\ cfg.strictProfile => app[s].repositories = PersistentFlags

(* An answered override is what every server that uses the database        *)
(* handles chats with and shows, until a later update of that field: it is *)
(* lost only to a writer that overlapped it, a start's default merge       *)
(* included.  The row is read and written back whole                       *)
(* (policy_state.py:75-93, 97-120).                                        *)
AnsweredOverrideKept ==
    \A s \in Servers, f \in Fields :
        phase[s] = "serving" /\ app[s].policy = "postgres" /\ settled[f] # Unset
            => InForce(s)[f] = settled[f] /\ Resolved(Visible(s))[f] = settled[f]
=============================================================================
