--------------------------- MODULE RuntimeProofs ---------------------------
(***************************************************************************)
(* The invariants of Runtime hold for any number of servers and of admin   *)
(* calls, any settings and any fields and presets.                         *)
(***************************************************************************)
EXTENDS Runtime, TLAPS

Preset == "semantic_hardening_preset"
Writing == {"policy_write", "policy_rewrite"}
SemanticKnown == Phases \ {"stopped", "semantic"}
CacheKnown == {"identity", "repositories", "serving"}

(* What has been decided so far of a process that starts *)
Started(s) ==
    LET st == app[s] IN
    /\ phase[s] # "stopped" => PostureOk(st.cfg)
    /\ phase[s] \in SemanticKnown /\ st.cfg.pgvector /\ ~st.semanticFallback
            => st.semantic = "pgvector"
    /\ phase[s] \in CacheKnown /\ st.cfg.redis /\ ~st.cacheFallback => st.cache = "redis"
    /\ phase[s] = "serving"
            => st.repositories = IF PolicyDsn(st.cfg) THEN st.cfg.flags \cap PersistentFlags ELSE {}

(* Every preset stored or about to be stored is one of the catalog. *)
Named ==
    /\ row # Unset => row[Preset] \in PresetNames
    /\ \A s \in Servers : read[s][Preset] \in PresetNames \cup {Unset}
    /\ \A c \in Calls : call[c] # Unset =>
            /\ call[c].updates[Preset] \in PresetNames \cup {Unset}
            /\ call[c].current[Preset] \in PresetNames

(* Whoever is to write the row back read what is settled. *)
Undisturbed ==
    \A f \in Fields : settled[f] # Unset =>
        /\ row # Unset /\ row[f] = settled[f]
        /\ \A s \in Servers : phase[s] \in Writing => read[s][f] = settled[f]
        /\ \A c \in Calls : call[c] # Unset => call[c].current[f] = settled[f]

IInv == TypeOK /\ (\A s \in Servers : Started(s)) /\ Named /\ Undisturbed

-----------------------------------------------------------------------------
(* Overrides                                                               *)

(* The overrides of a payload are laid over what is there. *)
LEMMA MergeType ==
    ASSUME NEW o \in Overrides, NEW u \in Overrides
    PROVE  /\ Merge(o, u) \in Overrides
           /\ o \in Complete => Merge(o, u) \in Complete
           /\ u \in Complete => Merge(o, u) \in Complete
           /\ \A f \in Fields : Merge(o, u)[f] = IF u[f] = Unset THEN o[f] ELSE u[f]
  BY RuntimeAssumption DEF Merge, Overrides, Complete

LEMMA CompleteIsOverrides == Complete \subseteq Overrides /\ NoOverrides \in Overrides
  BY DEF Complete, Overrides, NoOverrides

(* A payload with its preset filled in names no other preset. *)
LEMMA WithPresetType ==
    ASSUME NEW u \in Payloads
    PROVE  /\ WithPreset(u) \in Overrides
           /\ WithPreset(u)[Preset] \in PresetNames \cup {Unset}
<1>1. /\ u \in Overrides /\ u[Preset] \in PresetNames \cup {Unset} /\ Preset \in Fields
      /\ Preset \notin PresetFields
  BY RuntimeAssumption DEF Preset
<1>2. CASE u[Preset] = Unset
  BY <1>1, <1>2 DEF WithPreset, Preset
<1>3. CASE u[Preset] \in PresetNames /\ u[Preset] # Unset
  <2>1. \A f \in PresetFields : Presets[u[Preset]][f] \in Values
    BY <1>3, RuntimeAssumption
  <2>2. WithPreset(u) = [f \in Fields |-> IF u[f] = Unset /\ f \in PresetFields
                           THEN Presets[u[Preset]][f] ELSE u[f]]
    BY <1>3 DEF WithPreset, Preset
  <2> QED BY <1>1, <1>3, <2>1, <2>2 DEF Overrides
<1> QED BY <1>1, <1>2, <1>3

(* A complete policy with a preset of the catalog is shown as it is. *)
LEMMA ResolvedIsRow ==
    ASSUME NEW o \in Complete, o[Preset] \in PresetNames, NEW f \in Fields
    PROVE  Resolved(o)[f] = o[f]
<1>1. o \in Overrides /\ Configured \in Overrides
  BY CompleteIsOverrides, RuntimeAssumption
<1>2. \A g \in Fields : Merge(Configured, o)[g] = o[g]
  BY <1>1, MergeType, RuntimeAssumption DEF Complete
<1>3. InferPreset(Merge(Configured, o)) = o[Preset]
  BY <1>2, RuntimeAssumption DEF InferPreset, Preset
<1>4. Merge(Configured, o) \in [Fields -> Values \cup {Unset}]
  BY <1>1, MergeType DEF Overrides
<1> QED BY <1>2, <1>3, <1>4 DEF Resolved, Preset

LEMMA GetOverridesType ==
    ASSUME TypeOK
    PROVE  GetOverrides \in Overrides /\ (row # Unset => GetOverrides = row /\ row \in Complete)
  BY CompleteIsOverrides DEF TypeOK, GetOverrides

(* The default merge fills what is open and changes nothing else. *)
LEMMA WithDefaultsType ==
    ASSUME NEW o \in Overrides
    PROVE  /\ WithDefaults(o) \in Complete /\ WithDefaults(o) # Unset
           /\ \A f \in Fields : o[f] # Unset => WithDefaults(o)[f] = o[f]
           /\ o[Preset] \in PresetNames \cup {Unset}
                => WithDefaults(o)[Preset] \in PresetNames
<1>1. Production \in Complete /\ Production \in Overrides /\ Preset \in Fields
      /\ Production[Preset] \in PresetNames
  BY CompleteIsOverrides, RuntimeAssumption DEF Preset
<1>2. WithDefaults(o) \in Complete
  BY <1>1, MergeType DEF WithDefaults
<1>3. \A f \in Fields : WithDefaults(o)[f] = IF o[f] = Unset THEN Production[f] ELSE o[f]
  BY <1>1, MergeType DEF WithDefaults
<1> QED BY <1>1, <1>2, <1>3, RuntimeAssumption

LEMMA NoAppType ==
    /\ \A cfg \in Configs : Defaults(cfg) \in AppStates
    /\ NoApp \in AppStates /\ NoApp.policy = "memory"
<1>1. \A cfg \in Configs : Defaults(cfg) \in AppStates /\ Defaults(cfg).policy = "memory"
  BY CompleteIsOverrides DEF Defaults, AppStates
<1> QED BY <1>1, RuntimeAssumption DEF NoApp

(* A process sets fields of its state one by one. *)
LEMMA AppWith ==
    ASSUME NEW st \in AppStates, NEW b \in BOOLEAN
    PROVE  /\ \A x \in {"memory", "pgvector"} :
                [st EXCEPT !.semantic = x, !.semanticFallback = b] \in AppStates
           /\ \A x \in {"memory", "redis"} :
                [st EXCEPT !.cache = x, !.cacheFallback = b] \in AppStates
           /\ [st EXCEPT !.shadow = b] \in AppStates
  BY DEF AppStates

(* What a call writes back is complete and names a preset. *)
LEMMA WrittenType ==
    ASSUME TypeOK, Named, NEW c \in Calls, call[c] # Unset
    PROVE  /\ Merge(call[c].current, call[c].updates) \in Complete
           /\ Merge(call[c].current, call[c].updates)[Preset] \in PresetNames
           /\ \A f \in Fields : Merge(call[c].current, call[c].updates)[f]
                = IF call[c].updates[f] = Unset THEN call[c].current[f] ELSE call[c].updates[f]
<1>1. call[c].current \in Complete /\ call[c].updates \in Overrides
      /\ call[c].current \in Overrides
  BY CompleteIsOverrides DEF TypeOK
<1>2. /\ call[c].updates[Preset] \in PresetNames \cup {Unset}
      /\ call[c].current[Preset] \in PresetNames
      /\ Preset \in Fields
  BY RuntimeAssumption DEF Named, Preset
<1>3. \A f \in Fields : Merge(call[c].current, call[c].updates)[f]
                = IF call[c].updates[f] = Unset THEN call[c].current[f] ELSE call[c].updates[f]
  BY <1>1, MergeType
<1>4. Merge(call[c].current, call[c].updates) \in Complete
  BY <1>1, MergeType
<1> QED BY <1>2, <1>3, <1>4

-----------------------------------------------------------------------------
(* Type correctness                                                        *)

LEMMA InitHolds == Init => IInv
<1> SUFFICES ASSUME Init PROVE IInv
  OBVIOUS
<1>1. TypeOK
  BY NoAppType, CompleteIsOverrides DEF Init, TypeOK, Phases
<1>2. \A s \in Servers : Started(s)
  BY DEF Init, Started, SemanticKnown, CacheKnown
<1>3. Named
  BY RuntimeAssumption DEF Init, Named, NoOverrides, Preset
<1>4. Undisturbed
  BY DEF Init, Undisturbed, NoOverrides
<1> QED BY <1>1, <1>2, <1>3, <1>4 DEF IInv

LEMMA TypeStep ==
    ASSUME TypeOK, Named, [Next]_vars
    PROVE  TypeOK'
<1> USE DEF TypeOK
<1>1. ASSUME NEW s \in Servers, Start(s) PROVE TypeOK'
  BY <1>1, NoAppType DEF Start, Phases, Defaults
<1>2. ASSUME NEW s \in Servers, InitializeSemanticStore(s) PROVE TypeOK'
  <2>1. PICK active \in {"memory", "pgvector"}, fallback \in BOOLEAN :
            app' = [app EXCEPT ![s].semantic = active, ![s].semanticFallback = fallback]
    BY <1>2 DEF InitializeSemanticStore
  <2>3. app' \in [Servers -> AppStates]
    BY <2>1, AppWith
  <2>4. \A t \in Servers : app'[t].policy = app[t].policy
    BY <2>1 DEF AppStates
  <2> QED BY <1>2, <2>3, <2>4 DEF InitializeSemanticStore, Phases
<1>3. ASSUME NEW s \in Servers, ReadDefaults(s) PROVE TypeOK'
  BY <1>3, GetOverridesType DEF ReadDefaults, Phases
<1>4. ASSUME NEW s \in Servers, WriteDefaults(s) PROVE TypeOK'
  <2>1. row' \in Complete /\ row' # Unset
    BY <1>4, WithDefaultsType DEF WriteDefaults
  <2>2. app' \in [Servers -> AppStates]
    <3>1. CASE app' = app
      BY <3>1
    <3>2. CASE app' = [app EXCEPT ![s].policy = "postgres"]
      BY <3>2 DEF AppStates
    <3> QED BY <1>4, <3>1, <3>2 DEF WriteDefaults
  <2> QED BY <1>4, <2>1, <2>2, CompleteIsOverrides DEF WriteDefaults, Phases
<1>5. ASSUME NEW s \in Servers, WarmShadowAnalytics(s) PROVE TypeOK'
  <2>1. app' \in [Servers -> AppStates] /\ \A t \in Servers : app'[t].policy = app[t].policy
    <3>1. PICK b \in BOOLEAN : app' = [app EXCEPT ![s].shadow = b]
      BY <1>5 DEF WarmShadowAnalytics
    <3>2. app' \in [Servers -> AppStates]
      BY <3>1, AppWith
    <3> QED BY <3>1, <3>2 DEF AppStates
  <2> QED BY <1>5, <2>1 DEF WarmShadowAnalytics, Phases
<1>6. ASSUME NEW s \in Servers, PolicyStoreFails(s) PROVE TypeOK'
  <2>1. app' \in [Servers -> AppStates]
        /\ \A t \in Servers : app'[t].policy = "postgres" => app[t].policy = "postgres"
    BY <1>6 DEF PolicyStoreFails, AppStates
  <2> QED BY <1>6, <2>1, CompleteIsOverrides DEF PolicyStoreFails, Phases
<1>7. ASSUME NEW s \in Servers, InitializeCache(s) PROVE TypeOK'
  <2>1. PICK active \in {"memory", "redis"}, fallback \in BOOLEAN :
            app' = [app EXCEPT ![s].cache = active, ![s].cacheFallback = fallback]
    BY <1>7 DEF InitializeCache
  <2>3. app' \in [Servers -> AppStates]
    BY <2>1, AppWith
  <2>4. \A t \in Servers : app'[t].policy = app[t].policy
    BY <2>1 DEF AppStates
  <2> QED BY <1>7, <2>3, <2>4 DEF InitializeCache, Phases
<1>8. ASSUME NEW s \in Servers, BootstrapIdentity(s) PROVE TypeOK'
  <2>1. app' \in [Servers -> AppStates] /\ \A t \in Servers : app'[t].policy = app[t].policy
    BY SMTT(60), <1>8 DEF BootstrapIdentity, IdentityModes, AppStates
  <2> QED BY <1>8, <2>1 DEF BootstrapIdentity, Phases
<1>9. ASSUME NEW s \in Servers, WarmRepositories(s) PROVE TypeOK'
  <2>1. app' \in [Servers -> AppStates] /\ \A t \in Servers : app'[t].policy = app[t].policy
    BY SMTT(60), <1>9 DEF WarmRepositories, AppStates
  <2> QED BY <1>9, <2>1 DEF WarmRepositories, Phases
<1>10. ASSUME NEW s \in Servers, Stop(s) PROVE TypeOK'
  <2>1. app' \in [Servers -> AppStates]
        /\ \A t \in Servers : app'[t].policy = "postgres" => app[t].policy = "postgres"
    BY <1>10, NoAppType DEF Stop
  <2> QED BY <1>10, <2>1, CompleteIsOverrides DEF Stop, Phases
<1>11. ASSUME NEW s \in Servers, NEW updates \in Payloads, UpdateInMemory(s, updates)
       PROVE  TypeOK'
  <2>1. Merge(app[s].overrides, WithPreset(updates)) \in Overrides
    BY MergeType, WithPresetType DEF AppStates
  <2>2. app' \in [Servers -> AppStates] /\ \A t \in Servers : app'[t].policy = app[t].policy
    BY SMTT(60), <1>11, <2>1 DEF UpdateInMemory, AppStates
  <2> QED BY <1>11, <2>2 DEF UpdateInMemory
<1>12. ASSUME NEW c \in Calls, NEW s \in Servers, NEW updates \in Payloads,
              ReadOverrides(c, s, updates)
       PROVE  TypeOK'
  BY <1>12, GetOverridesType, WithPresetType DEF ReadOverrides
<1>13. ASSUME NEW c \in Calls, WriteOverrides(c) PROVE TypeOK'
  <2>1. call[c].current \in Complete /\ call[c].updates \in Overrides
    BY <1>13 DEF WriteOverrides
  <2>2. row' \in Complete /\ row' # Unset
    BY <1>13, <2>1, MergeType, CompleteIsOverrides, RuntimeAssumption DEF WriteOverrides
  <2>3. settled' \in Overrides
    <3>1. \A f \in Fields :
            Resolved(Merge(call[c].current, call[c].updates))[f] \in Values
      BY <1>13, WrittenType, ResolvedIsRow DEF WriteOverrides, Complete
    <3>2. settled' = [f \in Fields |->
                IF call[c].updates[f] = Unset THEN settled[f]
                ELSE IF Alone(c) THEN Resolved(Merge(call[c].current, call[c].updates))[f]
                ELSE Unset]
      BY <1>13 DEF WriteOverrides
    <3> QED BY <3>1, <3>2 DEF Overrides
  <2> QED BY <1>13, <2>2, <2>3 DEF WriteOverrides
<1>14. ASSUME NEW c \in Calls, WriteFails(c) PROVE TypeOK'
  BY <1>14 DEF WriteFails
<1>15. CASE UNCHANGED vars
  BY <1>15 DEF vars
<1> QED BY <1>1, <1>2, <1>3, <1>4, <1>5, <1>6, <1>7, <1>8, <1>9, <1>10, <1>11, <1>12,
           <1>13, <1>14, <1>15 DEF Next

-----------------------------------------------------------------------------
(* A start                                                                 *)

LEMMA StartedStep ==
    ASSUME TypeOK, \A s \in Servers : Started(s), [Next]_vars, NEW t \in Servers
    PROVE  Started(t)'
<1> USE DEF TypeOK
<1>0. /\ Started(t) /\ app[t] \in AppStates /\ phase[t] \in Phases
      /\ app \in [Servers -> AppStates] /\ phase \in [Servers -> Phases]
  OBVIOUS
<1>1. CASE phase'[t] = phase[t] /\ app'[t] = app[t]
  BY <1>0, <1>1 DEF Started
<1>2. CASE Start(t)
  <2>1. PICK cfg \in Configs : PostureOk(cfg) /\ app' = [app EXCEPT ![t] = Defaults(cfg)]
    BY <1>2 DEF Start
  <2>2. app'[t].cfg = cfg /\ phase'[t] = "semantic"
    BY <1>0, <1>2, <2>1 DEF Start, Defaults
  <2> QED BY <2>1, <2>2 DEF Started, SemanticKnown, CacheKnown
<1>3. CASE InitializeSemanticStore(t)
  <2>1. PICK active \in BOOLEAN :
            app' = [app EXCEPT ![t].semantic = IF active THEN "pgvector" ELSE "memory",
                               ![t].semanticFallback = app[t].cfg.pgvector /\ ~active]
    BY <1>3 DEF InitializeSemanticStore
  <2>2. /\ app'[t].cfg = app[t].cfg
        /\ app'[t].semantic = IF active THEN "pgvector" ELSE "memory"
        /\ app'[t].semanticFallback = (app[t].cfg.pgvector /\ ~active)
    BY <1>0, <2>1 DEF AppStates
  <2>3. phase'[t] \in {"policy_read", "cache"} /\ phase[t] # "stopped"
    BY <1>0, <1>3 DEF InitializeSemanticStore
  <2> QED BY <1>0, <2>2, <2>3 DEF Started, SemanticKnown, CacheKnown
<1>4. CASE ReadDefaults(t) \/ WriteDefaults(t) \/ WarmShadowAnalytics(t) \/ PolicyStoreFails(t)
  <2>1. /\ phase[t] \in SemanticKnown
        /\ phase'[t] \in SemanticKnown \ CacheKnown
    BY <1>0, <1>4 DEF ReadDefaults, WriteDefaults, WarmShadowAnalytics, PolicyStoreFails,
                      SemanticKnown, CacheKnown, Phases
  <2>2. /\ app'[t].cfg = app[t].cfg /\ app'[t].semantic = app[t].semantic
        /\ app'[t].semanticFallback = app[t].semanticFallback
    BY <1>0, <1>4 DEF ReadDefaults, WriteDefaults, WarmShadowAnalytics, PolicyStoreFails,
                      AppStates
  <2> QED BY <1>0, <2>1, <2>2 DEF Started, SemanticKnown, CacheKnown
<1>5. CASE InitializeCache(t)
  <2>1. PICK active \in BOOLEAN :
            app' = [app EXCEPT ![t].cache = IF active THEN "redis" ELSE "memory",
                               ![t].cacheFallback = app[t].cfg.redis /\ ~active]
    BY <1>5 DEF InitializeCache
  <2>2. /\ app'[t].cfg = app[t].cfg /\ app'[t].semantic = app[t].semantic
        /\ app'[t].semanticFallback = app[t].semanticFallback
        /\ app'[t].cache = IF active THEN "redis" ELSE "memory"
        /\ app'[t].cacheFallback = (app[t].cfg.redis /\ ~active)
    BY <1>0, <2>1 DEF AppStates
  <2>3. phase'[t] = "identity" /\ phase[t] = "cache"
    BY <1>0, <1>5 DEF InitializeCache
  <2> QED BY <1>0, <2>2, <2>3 DEF Started, SemanticKnown, CacheKnown, Phases
<1>6. CASE BootstrapIdentity(t)
  <2>1. /\ app'[t].cfg = app[t].cfg /\ app'[t].semantic = app[t].semantic
        /\ app'[t].semanticFallback = app[t].semanticFallback
        /\ app'[t].cache = app[t].cache /\ app'[t].cacheFallback = app[t].cacheFallback
    BY <1>0, <1>6 DEF BootstrapIdentity, AppStates
  <2>2. phase'[t] = "repositories" /\ phase[t] = "identity"
    BY <1>0, <1>6 DEF BootstrapIdentity
  <2> QED BY <1>0, <2>1, <2>2 DEF Started, SemanticKnown, CacheKnown, Phases
<1>7. CASE WarmRepositories(t)
  <2>1. /\ app'[t].cfg = app[t].cfg /\ app'[t].semantic = app[t].semantic
        /\ app'[t].semanticFallback = app[t].semanticFallback
        /\ app'[t].cache = app[t].cache /\ app'[t].cacheFallback = app[t].cacheFallback
        /\ app'[t].repositories = IF PolicyDsn(app[t].cfg)
                                  THEN app[t].cfg.flags \cap PersistentFlags ELSE {}
    BY <1>0, <1>7 DEF WarmRepositories, AppStates
  <2>2. phase'[t] = "serving" /\ phase[t] = "repositories"
    BY <1>0, <1>7 DEF WarmRepositories
  <2> QED BY <1>0, <2>1, <2>2 DEF Started, SemanticKnown, CacheKnown, Phases
<1>8. CASE Stop(t)
  <2>1. phase'[t] = "stopped"
    BY <1>0, <1>8 DEF Stop
  <2> QED BY <2>1 DEF Started, SemanticKnown, CacheKnown
<1>9. ASSUME NEW updates \in Payloads, UpdateInMemory(t, updates) PROVE Started(t)'
  <2>1. /\ app'[t].cfg = app[t].cfg /\ app'[t].semantic = app[t].semantic
        /\ app'[t].semanticFallback = app[t].semanticFallback
        /\ app'[t].cache = app[t].cache /\ app'[t].cacheFallback = app[t].cacheFallback
        /\ app'[t].repositories = app[t].repositories
    BY <1>0, <1>9 DEF UpdateInMemory, AppStates
  <2>2. phase'[t] = phase[t]
    BY <1>9 DEF UpdateInMemory
  <2> QED BY <1>0, <2>1, <2>2 DEF Started
<1>10. ASSUME NEW s \in Servers \ {t},
              \/ Start(s) \/ InitializeSemanticStore(s) \/ ReadDefaults(s) \/ WriteDefaults(s)
              \/ WarmShadowAnalytics(s) \/ PolicyStoreFails(s) \/ InitializeCache(s)
              \/ BootstrapIdentity(s) \/ WarmRepositories(s) \/ Stop(s)
              \/ \E updates \in Payloads : UpdateInMemory(s, updates)
       PROVE  phase'[t] = phase[t] /\ app'[t] = app[t]
  BY <1>0, <1>10 DEF Start, InitializeSemanticStore, ReadDefaults, WriteDefaults,
        WarmShadowAnalytics, PolicyStoreFails, InitializeCache, BootstrapIdentity,
        WarmRepositories, Stop, UpdateInMemory
<1>11. ASSUME \/ UNCHANGED vars
              \/ \E c \in Calls : \/ \E s \in Servers, u \in Payloads : ReadOverrides(c, s, u)
                                  \/ WriteOverrides(c) \/ WriteFails(c)
       PROVE  phase'[t] = phase[t] /\ app'[t] = app[t]
  BY <1>11 DEF vars, ReadOverrides, WriteOverrides, WriteFails
<1> HIDE DEF TypeOK
<1> QED BY <1>1, <1>2, <1>3, <1>4, <1>5, <1>6, <1>7, <1>8, <1>9, <1>10, <1>11 DEF Next

-----------------------------------------------------------------------------
(* The row                                                                 *)

(* The steps that neither read nor write the row, nor start a writer *)
Elsewhere ==
    /\ UNCHANGED <<row, settled>>
    /\ \A s \in Servers : \/ read'[s] = read[s]
                          \/ read'[s] = NoOverrides
    /\ \A s \in Servers : phase'[s] \in Writing => phase[s] = phase'[s] /\ read'[s] = read[s]
    /\ \A c \in Calls : call'[c] # Unset => call'[c] = call[c]

LEMMA StepsElsewhere ==
    ASSUME TypeOK, NEW s \in Servers,
           \/ Start(s) \/ InitializeSemanticStore(s) \/ WarmShadowAnalytics(s)
           \/ PolicyStoreFails(s) \/ InitializeCache(s) \/ BootstrapIdentity(s)
           \/ WarmRepositories(s) \/ Stop(s)
    PROVE  Elsewhere
<1> USE DEF TypeOK
<1>1. UNCHANGED <<row, settled>>
  BY DEF Start, InitializeSemanticStore, WarmShadowAnalytics, PolicyStoreFails,
         InitializeCache, BootstrapIdentity, WarmRepositories, Stop
<1>2. \A c \in Calls : call'[c] # Unset => call'[c] = call[c]
  BY DEF Start, InitializeSemanticStore, WarmShadowAnalytics, PolicyStoreFails,
         InitializeCache, BootstrapIdentity, WarmRepositories, Stop
<1>3. \A t \in Servers : read'[t] = read[t] \/ (t = s /\ read'[t] = NoOverrides)
  BY DEF Start, InitializeSemanticStore, WarmShadowAnalytics, PolicyStoreFails,
         InitializeCache, BootstrapIdentity, WarmRepositories, Stop
<1>4. \A t \in Servers \ {s} : phase'[t] = phase[t]
  BY DEF Start, InitializeSemanticStore, WarmShadowAnalytics, PolicyStoreFails,
         InitializeCache, BootstrapIdentity, WarmRepositories, Stop
<1>5. phase'[s] \notin Writing
  BY DEF Start, InitializeSemanticStore, WarmShadowAnalytics, PolicyStoreFails,
         InitializeCache, BootstrapIdentity, WarmRepositories, Stop, Writing
<1> QED BY <1>1, <1>2, <1>3, <1>4, <1>5 DEF Elsewhere

LEMMA ElsewhereKeeps ==
    ASSUME Named, Undisturbed, Elsewhere
    PROVE  Named' /\ Undisturbed'
<1>1. Named'
  BY RuntimeAssumption DEF Named, Elsewhere, NoOverrides, Preset
<1>2. Undisturbed'
  BY DEF Undisturbed, Elsewhere
<1> QED BY <1>1, <1>2

LEMMA RowStep ==
    ASSUME IInv, [Next]_vars
    PROVE  Named' /\ Undisturbed'
<1> USE DEF IInv
<1>0. Preset \in Fields
  BY RuntimeAssumption DEF Preset
<1>1. ASSUME NEW s \in Servers, ReadDefaults(s) PROVE Named' /\ Undisturbed'
  <2>1. /\ row' = row /\ settled' = settled /\ call' = call
        /\ read'[s] = GetOverrides
        /\ \A t \in Servers \ {s} : read'[t] = read[t] /\ phase'[t] = phase[t]
    BY <1>1 DEF ReadDefaults, TypeOK
  <2>2. GetOverrides[Preset] \in PresetNames \cup {Unset}
    BY <1>0 DEF Named, GetOverrides, NoOverrides
  <2>3. Named'
    BY <2>1, <2>2 DEF Named
  <2>4. \A f \in Fields : settled[f] # Unset => GetOverrides[f] = settled[f]
    BY DEF Undisturbed, GetOverrides
  <2>5. Undisturbed'
    BY <2>1, <2>4 DEF Undisturbed
  <2> QED BY <2>3, <2>5
<1>2. ASSUME NEW s \in Servers, WriteDefaults(s) PROVE Named' /\ Undisturbed'
  <2>1. /\ settled' = settled /\ call' = call
        /\ phase[s] \in Writing /\ phase'[s] \notin Writing
        /\ \A t \in Servers \ {s} : read'[t] = read[t] /\ phase'[t] = phase[t]
        /\ read'[s] = NoOverrides
    BY <1>2 DEF WriteDefaults, TypeOK, Writing
  <2>2. row' = WithDefaults(read[s]) /\ read[s] \in Overrides
    BY <1>2 DEF WriteDefaults, TypeOK
  <2>3. /\ row' # Unset
        /\ row'[Preset] \in PresetNames
        /\ \A f \in Fields : read[s][f] # Unset => row'[f] = read[s][f]
    BY <2>2, WithDefaultsType DEF Named
  <2>4. NoOverrides[Preset] = Unset
    BY <1>0 DEF NoOverrides
  <2>5. Named'
    BY <2>1, <2>3, <2>4 DEF Named
  <2>6. Undisturbed'
    BY <2>1, <2>3 DEF Undisturbed
  <2> QED BY <2>5, <2>6
<1>3. ASSUME NEW s \in Servers, NEW updates \in Payloads, UpdateInMemory(s, updates)
      PROVE  Named' /\ Undisturbed'
  <2>1. Elsewhere
    BY <1>3 DEF UpdateInMemory, Elsewhere
  <2> QED BY <2>1, ElsewhereKeeps
<1>4. ASSUME NEW c \in Calls, NEW s \in Servers, NEW updates \in Payloads,
             ReadOverrides(c, s, updates)
      PROVE  Named' /\ Undisturbed'
  <2>1. row # Unset /\ GetOverrides = row
    BY <1>4 DEF ReadOverrides, TypeOK, GetOverrides
  <2>2. /\ row' = row /\ settled' = settled /\ read' = read /\ phase' = phase
        /\ call'[c].updates = WithPreset(updates) /\ call'[c].current = row
        /\ \A d \in Calls \ {c} : call'[d] = call[d]
    BY <1>4, <2>1 DEF ReadOverrides, TypeOK
  <2>3. Named'
    BY <2>1, <2>2, WithPresetType DEF Named
  <2>4. Undisturbed'
    BY <2>1, <2>2 DEF Undisturbed
  <2> QED BY <2>3, <2>4
<1>5. ASSUME NEW c \in Calls, WriteOverrides(c) PROVE Named' /\ Undisturbed'
  <2> DEFINE written == Merge(call[c].current, call[c].updates)
  <2>1. /\ call[c] # Unset /\ row' = written
        /\ read' = read /\ phase' = phase /\ call'[c] = Unset
        /\ \A d \in Calls \ {c} : call'[d] = call[d]
        /\ \A f \in Fields : settled'[f] = IF call[c].updates[f] = Unset THEN settled[f]
                                ELSE IF Alone(c) THEN Resolved(written)[f] ELSE Unset
    BY <1>5 DEF WriteOverrides, TypeOK
  <2>2. /\ written \in Complete /\ written[Preset] \in PresetNames
        /\ \A f \in Fields : written[f] = IF call[c].updates[f] = Unset
                                          THEN call[c].current[f] ELSE call[c].updates[f]
        /\ \A f \in Fields : Resolved(written)[f] = written[f]
    BY <2>1, WrittenType, ResolvedIsRow
  <2> HIDE DEF written
  <2>3. written # Unset
    BY <2>2, RuntimeAssumption
  <2>4. Named'
    BY <2>1, <2>2 DEF Named
  <2>5. ASSUME NEW f \in Fields, settled'[f] # Unset
        PROVE  /\ row'[f] = settled'[f]
               /\ \A s \in Servers : phase'[s] \in Writing => read'[s][f] = settled'[f]
               /\ \A d \in Calls : call'[d] # Unset => call'[d].current[f] = settled'[f]
    <3>1. CASE call[c].updates[f] = Unset
      BY <2>1, <2>2, <2>5, <3>1 DEF Undisturbed
    <3>2. CASE call[c].updates[f] # Unset
      <4>1. Alone(c) /\ settled'[f] = written[f]
        BY <2>1, <2>2, <2>5, <3>2
      <4> QED BY <2>1, <4>1 DEF Alone, Writing
    <3> QED BY <3>1, <3>2
  <2>6. Undisturbed'
    BY <2>1, <2>3, <2>5 DEF Undisturbed
  <2> QED BY <2>4, <2>6
<1>6. ASSUME NEW c \in Calls, WriteFails(c) PROVE Named' /\ Undisturbed'
  <2>1. Elsewhere
    BY <1>6 DEF WriteFails, Elsewhere, TypeOK
  <2> QED BY <2>1, ElsewhereKeeps
<1>7. CASE UNCHANGED vars
  <2>1. Elsewhere
    BY <1>7 DEF vars, Elsewhere
  <2> QED BY <2>1, ElsewhereKeeps
<1>8. ASSUME NEW s \in Servers,
             \/ Start(s) \/ InitializeSemanticStore(s) \/ WarmShadowAnalytics(s)
             \/ PolicyStoreFails(s) \/ InitializeCache(s) \/ BootstrapIdentity(s)
             \/ WarmRepositories(s) \/ Stop(s)
      PROVE  Named' /\ Undisturbed'
  BY <1>8, StepsElsewhere, ElsewhereKeeps
<1> QED BY <1>1, <1>2, <1>3, <1>4, <1>5, <1>6, <1>7, <1>8 DEF Next

-----------------------------------------------------------------------------
(* The invariant holds in every reachable state. *)
THEOREM Inductive == Spec => []IInv
<1>1. Init => IInv
  BY InitHolds
<1>2. IInv /\ [Next]_vars => IInv'
  <2> SUFFICES ASSUME IInv, [Next]_vars PROVE IInv'
    OBVIOUS
  <2>1. TypeOK'
    BY TypeStep DEF IInv
  <2>2. \A t \in Servers : Started(t)'
    BY StartedStep DEF IInv
  <2>3. Named' /\ Undisturbed'
    BY RowStep
  <2> QED BY <2>1, <2>2, <2>3 DEF IInv
<1> QED BY <1>1, <1>2, PTL DEF Spec

(* The stored row always has a value for every field, and a process uses   *)
(* it only once it is there.                                               *)
THEOREM TypeCorrect == Spec => []TypeOK
<1>1. IInv => TypeOK
  BY DEF IInv
<1> QED BY <1>1, Inductive, PTL

(* A ready server has every backend its settings ask for; under a strict   *)
(* profile, every backend there is.                                        *)
THEOREM ReadyShares == Spec => []ReadyIsShared
<1>1. IInv => ReadyIsShared
  <2> SUFFICES ASSUME IInv, NEW s \in Servers, Ready(s)
               PROVE  LET cfg == app[s].cfg IN
                      /\ cfg.redis \/ cfg.strictProfile => app[s].cache = "redis"
                      /\ cfg.pgvector \/ cfg.strictProfile => app[s].semantic = "pgvector"
                      /\ "controlplane_identity_enabled" \in cfg.flags \/ cfg.strictProfile
                              => app[s].identity = "repository"
                      /\ app[s].repositories = cfg.flags \cap PersistentFlags
                      /\ cfg.strictProfile => app[s].repositories = PersistentFlags
    BY DEF ReadyIsShared
  <2>1. Started(s) /\ phase[s] = "serving"
    BY DEF IInv, Ready
  <2>2. PostureOk(app[s].cfg)
    BY <2>1 DEF Started
  <2>3. app[s].repositories = app[s].cfg.flags \cap PersistentFlags
    BY <2>1, <2>2 DEF Started, PostureOk, NeedsDsn
  <2>4. app[s].cfg.strictProfile =>
            /\ app[s].cfg.redis /\ app[s].cfg.pgvector
            /\ app[s].cfg.flags = PilotRequiredFlags
    BY <2>2 DEF PostureOk
  <2>5. PilotRequiredFlags \cap PersistentFlags = PersistentFlags
        /\ "controlplane_identity_enabled" \in PilotRequiredFlags
    BY DEF PilotRequiredFlags
  <2>6. /\ app[s].cfg.redis => app[s].cache = "redis"
        /\ app[s].cfg.pgvector => app[s].semantic = "pgvector"
    BY <2>1 DEF Started, Ready, SemanticKnown, CacheKnown, Phases
  <2>7. "controlplane_identity_enabled" \in app[s].cfg.flags => app[s].identity = "repository"
    BY DEF Ready
  <2> QED BY <2>3, <2>4, <2>5, <2>6, <2>7
<1> QED BY <1>1, Inductive, PTL

(* An answered override is lost only to a writer that overlapped it. *)
THEOREM OverridesKept == Spec => []AnsweredOverrideKept
<1>1. IInv => AnsweredOverrideKept
  <2> SUFFICES ASSUME IInv, NEW s \in Servers, NEW f \in Fields,
                      app[s].policy = "postgres", settled[f] # Unset
               PROVE  InForce(s)[f] = settled[f] /\ Resolved(Visible(s))[f] = settled[f]
    BY DEF AnsweredOverrideKept
  <2>1. row # Unset /\ row[f] = settled[f] /\ row \in Complete /\ row[Preset] \in PresetNames
    BY DEF IInv, TypeOK, Undisturbed, Named
  <2>2. Visible(s) = row
    BY <2>1 DEF Visible, GetOverrides
  <2>3. Resolved(row)[f] = row[f]
    BY <2>1, ResolvedIsRow
  <2>4. InForce(s)[f] = row[f]
    BY <2>1, <2>2, MergeType, CompleteIsOverrides, RuntimeAssumption DEF InForce, Complete
  <2> QED BY <2>1, <2>2, <2>3, <2>4
<1> QED BY <1>1, Inductive, PTL
=============================================================================
