---------------------------- MODULE ApiKeysProofs ----------------------------
(***************************************************************************)
(* Theorems about ApiKeys, for any sets of servers, configurations, ids,   *)
(* slugs, secrets, roles, admin calls and requests.                        *)
(***************************************************************************)
EXTENDS ApiKeys, TLAPS

-----------------------------------------------------------------------------
(* Types *)

ServerType == [mode : {"down", "disabled", "repository", "static_fallback"},
               enabled : BOOLEAN, static : Configs \cup {None}]

RowsType ==
    /\ tenant \in [Tenants -> Slugs \cup {None}]
    /\ workspace \in [Workspaces -> WorkspaceRows \cup {None}]
    /\ key \in [Keys -> KeyRows \cup {None}]
    /\ log \in [Keys -> SUBSET {"created", "revoked"}]
    /\ gone \subseteq Keys /\ moved \subseteq Workspaces

LEMMA Parts ==
  TypeOK <=> /\ RowsType
             /\ server \in [Servers -> ServerType]
             /\ admin \in [Admins -> AdminType]
             /\ request \in [Requests -> RequestType]
             /\ \A h \in Admins : Named(admin[h])
  BY DEF TypeOK, RowsType, ServerType

LEMMA OffType == Off \in AdminType /\ Off.at = "idle" /\ Off.kind = "none"
  BY DEF Off, AdminType, Steps

LEMMA RoleType ==
  \A role \in Roles : \A caps : DeriveRole(role, caps) \in Roles \cup {"tenant_admin", "tenant_reader"}
<1> SUFFICES ASSUME NEW role \in Roles, NEW caps
             PROVE  DeriveRole(role, caps) \in Roles \cup {"tenant_admin", "tenant_reader"}
  OBVIOUS
<1>1. role # None
  BY KeysAssumption
<1>2. QED
  BY <1>1 DEF DeriveRole

LEMMA KeyRowType ==
  ASSUME NEW t \in Tenants, NEW w \in Workspaces, NEW x \in Secrets,
         NEW p \in Prefixes,
         NEW role \in Roles \cup {"tenant_admin", "tenant_reader"}
  PROVE  KeyRow(t, w, x, p, role) \in KeyRows
  BY DEF KeyRow, KeyRows

-----------------------------------------------------------------------------
(* What no step undoes *)

Kept ==
    /\ \A t \in Tenants : t \notin Configured /\ tenant[t] # None => tenant'[t] = tenant[t]
    /\ \A w \in Workspaces : workspace[w] # None =>
         /\ workspace'[w] # None
         /\ w \notin Configured => workspace'[w] = workspace[w]
         /\ workspace'[w].tenant = workspace[w].tenant \/ w \in moved'
    /\ \A k \in Keys : key[k] # None =>
         /\ key'[k] # None
         /\ k \notin Configured => key'[k].tenant = key[k].tenant /\ key'[k].workspace = key[k].workspace
    /\ \A k \in Keys : log[k] \subseteq log'[k]
    /\ moved \subseteq moved'

LEMMA SettingIds ==
  ASSUME NEW cf \in Configs
  PROVE  /\ cf.tenant \in Tenants /\ cf.workspace \in Workspaces /\ cf.key \in Keys
         /\ cf.tslug \in Slugs /\ cf.wslug \in Slugs /\ cf.prefix \in Prefixes
         /\ cf.secret # None => cf.secret \in Secrets
         /\ {cf.tenant, cf.workspace, cf.key} \subseteq Configured
<1>1. cf \in Settings
  BY KeysAssumption
<1>2. {cf.tenant, cf.workspace, cf.key} \subseteq Configured
  BY DEF Configured
<1>3. QED
  BY <1>1, <1>2 DEF Settings

\* The steps that write a table.
LEMMA SeedRows ==
  ASSUME TypeOK, NEW cf \in Configs, cf.secret # None, Seed(cf)
  PROVE  RowsType' /\ Kept
<1> DEFINE ws == [tenant |-> cf.tenant, slug |-> cf.wslug]
           row == KeyRow(cf.tenant, cf.workspace, cf.secret, cf.prefix, "tenant_admin")
<1>2. ws \in WorkspaceRows /\ row \in KeyRows /\ row # None /\ ws # None
  BY SettingIds, KeysAssumption, KeyRowType DEF WorkspaceRows
<1>21. ws.tenant = cf.tenant
  OBVIOUS
<1>3. /\ cf.tenant \in Tenants /\ cf.workspace \in Workspaces /\ cf.key \in Keys
      /\ cf.tslug \in Slugs
      /\ cf.tenant \in Configured /\ cf.workspace \in Configured /\ cf.key \in Configured
  BY SettingIds
<1> HIDE DEF row
<1>4. /\ tenant' = [tenant EXCEPT ![cf.tenant] = cf.tslug]
      /\ workspace' = [workspace EXCEPT ![cf.workspace] = ws]
      /\ key' = [key EXCEPT ![cf.key] = row]
      /\ log' = [log EXCEPT ![cf.key] = @ \cup {"created"}]
      /\ gone' = gone \ {cf.key}
      /\ moved' = moved \cup Taken(cf)
  BY DEF Seed, LogRow, row
<1> HIDE DEF ws
<1>5. RowsType
  BY Parts
<1>51. Taken(cf) \subseteq {cf.workspace}
  BY DEF Taken
<1>6. RowsType'
  <2>1. /\ tenant' \in [Tenants -> Slugs \cup {None}] /\ gone' \subseteq Keys
        /\ moved' \subseteq Workspaces
    BY <1>3, <1>4, <1>5, <1>51 DEF RowsType
  <2>2. workspace' \in [Workspaces -> WorkspaceRows \cup {None}]
    BY <1>2, <1>3, <1>4, <1>5 DEF RowsType
  <2>3. key' \in [Keys -> KeyRows \cup {None}]
    BY <1>2, <1>3, <1>4, <1>5 DEF RowsType
  <2>4. log' \in [Keys -> SUBSET {"created", "revoked"}]
    BY <1>3, <1>4, <1>5 DEF RowsType
  <2>5. QED
    BY <2>1, <2>2, <2>3, <2>4 DEF RowsType
<1>8. Kept
  <2>1. \A t \in Tenants : t \notin Configured /\ tenant[t] # None => tenant'[t] = tenant[t]
    BY <1>3, <1>4, <1>5 DEF RowsType
  <2>2. ASSUME NEW w \in Workspaces, workspace[w] # None
        PROVE  /\ workspace'[w] # None
               /\ w \notin Configured => workspace'[w] = workspace[w]
               /\ workspace'[w].tenant = workspace[w].tenant \/ w \in moved'
    <3>1. CASE w = cf.workspace
      <4>1. workspace'[w] = ws
        BY <1>3, <1>4, <1>5, <3>1 DEF RowsType
      <4>2. workspace[w].tenant = cf.tenant \/ w \in Taken(cf)
        BY <2>2, <3>1 DEF Taken
      <4>3. QED
        BY <1>2, <1>21, <1>3, <1>4, <3>1, <4>1, <4>2
    <3>2. CASE w # cf.workspace
      BY <1>4, <1>5, <2>2, <3>2 DEF RowsType
    <3>3. QED
      BY <3>1, <3>2
  <2>3. \A k \in Keys : key[k] # None =>
         /\ key'[k] # None
         /\ k \notin Configured => key'[k].tenant = key[k].tenant /\ key'[k].workspace = key[k].workspace
    BY <1>2, <1>3, <1>4, <1>5 DEF RowsType
  <2>4. (\A k \in Keys : log[k] \subseteq log'[k]) /\ moved \subseteq moved'
    BY <1>3, <1>4, <1>5 DEF RowsType
  <2>5. QED
    BY <2>1, <2>2, <2>3, <2>4 DEF Kept
<1>9. QED
  BY <1>6, <1>8

LEMMA SameRows ==
  ASSUME TypeOK, UNCHANGED rows, UNCHANGED past
  PROVE  RowsType' /\ Kept
  BY Parts DEF RowsType, Kept, rows, past

LEMMA TenantRows ==
  ASSUME TypeOK, NEW h \in Admins, NEW t \in Tenants, InsertTenant(h, t)
  PROVE  RowsType' /\ Kept
<1>1. admin[h].slug \in Slugs
  BY Parts DEF InsertTenant, At, AdminType, Named
<1>2. /\ tenant[t] = None
      /\ tenant' = [tenant EXCEPT ![t] = admin[h].slug]
      /\ UNCHANGED <<workspace, key, log, gone, moved>>
  BY DEF InsertTenant, past
<1>3. QED
  BY <1>1, <1>2, Parts, KeysAssumption DEF RowsType, Kept

LEMMA WorkspaceRowsKept ==
  ASSUME TypeOK, NEW h \in Admins, NEW w \in Workspaces, InsertWorkspace(h, w)
  PROVE  RowsType' /\ Kept
<1> DEFINE ws == [tenant |-> admin[h].tenant, slug |-> admin[h].wslug]
<1>1. ws \in WorkspaceRows
  BY Parts DEF InsertWorkspace, At, AdminType, Named, WorkspaceRows
<1>2. /\ workspace[w] = None
      /\ workspace' = [workspace EXCEPT ![w] = ws]
      /\ UNCHANGED <<tenant, key, log, gone, moved>>
  BY DEF InsertWorkspace, past
<1> HIDE DEF ws
<1>3. QED
  BY <1>1, <1>2, Parts, KeysAssumption DEF RowsType, Kept

\* The row that InsertKey adds.
Issued(h, x) == KeyRow(admin[h].tenant, admin[h].workspace, x, KeyPrefix[x],
                       DeriveRole(admin[h].role, admin[h].caps))

LEMMA IssuedType ==
  ASSUME TypeOK, NEW h \in Admins, At(h, "insert_key"), NEW x \in Secrets
  PROVE  Issued(h, x) \in KeyRows /\ Issued(h, x) # None
<1>1. /\ admin[h].tenant \in Tenants /\ admin[h].workspace \in Workspaces
      /\ admin[h].role \in Roles
  BY Parts DEF At, AdminType, Named
<1>2. DeriveRole(admin[h].role, admin[h].caps) \in Roles \cup {"tenant_admin", "tenant_reader"}
  BY <1>1, RoleType
<1>3. QED
  BY <1>1, <1>2, KeyRowType, KeysAssumption DEF Issued

LEMMA IssueRows ==
  ASSUME TypeOK, NEW h \in Admins, NEW k \in Keys, NEW x \in Secrets, InsertKey(h, k, x)
  PROVE  RowsType' /\ Kept
<1>1. Issued(h, x) \in KeyRows /\ Issued(h, x) # None
  BY IssuedType DEF InsertKey
<1>2. /\ key[k] = None
      /\ key' = [key EXCEPT ![k] = Issued(h, x)]
      /\ log' = [log EXCEPT ![k] = @ \cup {"created"}]
      /\ UNCHANGED <<tenant, workspace, gone, moved>>
  BY DEF InsertKey, Issued, LogRow, past
<1>3. QED
  BY <1>1, <1>2, Parts, KeysAssumption DEF RowsType, Kept

LEMMA RevokeRows ==
  ASSUME TypeOK, NEW h \in Admins, RevokeKey(h)
  PROVE  RowsType' /\ Kept
<1> DEFINE k == admin[h].key
           row == [key[k] EXCEPT !.status = "revoked"]
<1>1. k \in Keys /\ key[k] # None
  BY Parts DEF RevokeKey, At, AdminType, Named
<1>2. key[k] \in KeyRows
  BY <1>1, Parts DEF RowsType
<1>3. /\ row \in KeyRows /\ row # None
      /\ row.tenant = key[k].tenant /\ row.workspace = key[k].workspace
  BY <1>2, KeysAssumption DEF KeyRows
<1>4. key' = [key EXCEPT ![k] = row] /\ UNCHANGED <<tenant, workspace, log, gone, moved>>
  BY <1>1, Parts DEF RevokeKey, RowsType, past
<1> HIDE DEF row
<1>5. QED
  BY <1>1, <1>3, <1>4, Parts, KeysAssumption DEF RowsType, Kept

LEMMA LogRows ==
  ASSUME TypeOK, NEW h \in Admins, LogRevocation(h)
  PROVE  RowsType' /\ Kept
<1>1. admin[h].key \in Keys
  BY Parts DEF LogRevocation, At, AdminType, Named
<1>2. /\ log' = [log EXCEPT ![admin[h].key] = @ \cup {"revoked"}]
      /\ UNCHANGED <<tenant, workspace, key, moved>>
      /\ gone' \subseteq Keys
  BY <1>1, Parts DEF LogRevocation, LogRow, RowsType
<1>3. QED
  BY <1>1, <1>2, Parts DEF RowsType, Kept

\* Every step keeps the types of the tables and what they hold.
LEMMA RowsKept ==
  ASSUME TypeOK, [Next]_vars
  PROVE  RowsType' /\ Kept
<1>1. ASSUME NEW s \in Servers, ServerStep(s) PROVE RowsType' /\ Kept
  <2>1. ASSUME NEW cf \in Configs, StartSeeding(s, cf) PROVE RowsType' /\ Kept
    BY <2>1, SeedRows DEF StartSeeding
  <2>2. ASSUME NEW cf \in Configs, StartDisabled(s, cf) \/ StartUnseeded(s, cf) \/ StartFallback(s, cf)
        PROVE  RowsType' /\ Kept
    BY <2>2, SameRows DEF StartDisabled, StartUnseeded, StartFallback
  <2>3. ASSUME Stop(s) PROVE RowsType' /\ Kept
    BY <2>3, SameRows DEF Stop
  <2>4. QED
    BY <1>1, <2>1, <2>2, <2>3 DEF ServerStep
<1>2. ASSUME NEW r \in Requests, RequestStep(r) PROVE RowsType' /\ Kept
  BY <1>2, SameRows DEF RequestStep, ResolveInRepository, ResolveStatically, RequestEnds
<1>3. ASSUME NEW h \in Admins, Ask(h) PROVE RowsType' /\ Kept
  <2>1. UNCHANGED rows /\ UNCHANGED past
    BY <1>3 DEF Ask, Call, CreateTenant, CreateWorkspace, IssueKey, Bootstrap, Revoke
  <2>2. QED
    BY <2>1, SameRows
<1>4. ASSUME NEW h \in Admins, AdminStep(h) PROVE RowsType' /\ Kept
  <2>1. ASSUME Look(h) \/ FindTenant(h) \/ FindWorkspace(h) \/ CheckWorkspace(h) \/ FindKey(h) \/ End(h)
        PROVE  RowsType' /\ Kept
    BY <2>1, SameRows DEF Look, FindTenant, FindWorkspace, CheckWorkspace, FindKey, End
  <2>2. QED
    BY <1>4, <2>1, TenantRows, WorkspaceRowsKept, IssueRows, RevokeRows, LogRows DEF AdminStep
<1>5. ASSUME UNCHANGED vars PROVE RowsType' /\ Kept
  BY <1>5, SameRows DEF vars, rows, past
<1>6. QED
  BY <1>1, <1>2, <1>3, <1>4, <1>5 DEF Next

-----------------------------------------------------------------------------
(* What a call in progress knows *)

Progress(h) ==
    LET o == admin[h]
    IN  /\ o.kind = "bootstrap" /\ o.at \in {"find_workspace", "insert_workspace",
                                             "check_workspace", "insert_key", "answered"} =>
              /\ o.tenant \in Tenants
              /\ o.tenant \notin Configured => tenant[o.tenant] = o.slug
        /\ o.kind = "bootstrap" /\ o.at \in {"check_workspace", "insert_key", "answered"} =>
              /\ o.workspace \in Workspaces
              /\ o.workspace \notin Configured =>
                    workspace[o.workspace] = [tenant |-> o.tenant, slug |-> o.wslug]
        /\ o.kind = "bootstrap" /\ o.at = "answered" =>
              /\ o.key \in Keys /\ key[o.key] # None
              /\ o.key \notin Configured =>
                    key[o.key].tenant = o.tenant /\ key[o.key].workspace = o.workspace
        /\ o.at = "insert_key" => Owner(o.tenant, o.workspace)
        /\ o.at \in {"find_key", "revoke", "log"} => o.kind = "revoke"

Good(h) == admin[h] \in AdminType /\ Named(admin[h]) /\ Progress(h)

CallsInv == admin \in [Admins -> AdminType] /\ \A h \in Admins : Named(admin[h]) /\ Progress(h)

LEMMA GoodCalls == CallsInv => \A h \in Admins : Good(h)
  BY DEF CallsInv, Good

LEMMA OwnerKept ==
  ASSUME Kept, NEW t, NEW w \in Workspaces, Owner(t, w)
  PROVE  workspace'[w] # None /\ (workspace'[w].tenant = t \/ w \in moved')
  BY DEF Kept, Owner

\* A call is not disturbed by what the others do.
LEMMA GoodKept ==
  ASSUME TypeOK, Kept, NEW h \in Admins, Good(h), admin'[h] = admin[h]
  PROVE  Good(h)'
<1>1. Named(admin[h])'
  BY DEF Good, Named, Kept, AdminType
<1>2. Progress(h)'
  <2> DEFINE o == admin[h]
  <2>1. o \in AdminType /\ Progress(h) /\ Named(o)
    BY DEF Good
  <2>2. \A t \in Tenants \ Configured : tenant[t] \in Slugs => tenant'[t] = tenant[t]
    BY KeysAssumption DEF Kept
  <2>3. o.kind = "bootstrap" => o.slug \in Slugs /\ o.wslug \in Slugs
    BY <2>1 DEF Named, AdminType
  <2>4. \A w \in Workspaces \ Configured : workspace[w] \in WorkspaceRows =>
            workspace'[w] = workspace[w]
    BY KeysAssumption DEF Kept
  <2>5. o.tenant \in Tenants /\ o.wslug \in Slugs =>
            [tenant |-> o.tenant, slug |-> o.wslug] \in WorkspaceRows
    BY DEF WorkspaceRows
  <2>51. o.at \in {"check_workspace", "insert_key", "answered"} =>
            o.at \in {"find_workspace", "insert_workspace", "check_workspace", "insert_key", "answered"}
    OBVIOUS
  <2>6. o.at = "insert_key" => o.workspace \in Workspaces
    BY <2>1 DEF Named, AdminType
  <2> HIDE DEF o
  <2>7. /\ o.kind = "bootstrap" /\ o.at \in {"find_workspace", "insert_workspace",
                                             "check_workspace", "insert_key", "answered"} =>
              /\ o.tenant \in Tenants
              /\ o.tenant \notin Configured => tenant'[o.tenant] = o.slug
    BY <2>1, <2>2, <2>3 DEF Progress, o
  <2>8. /\ o.kind = "bootstrap" /\ o.at \in {"check_workspace", "insert_key", "answered"} =>
              /\ o.workspace \in Workspaces
              /\ o.workspace \notin Configured =>
                    workspace'[o.workspace] = [tenant |-> o.tenant, slug |-> o.wslug]
    BY <2>1, <2>3, <2>4, <2>5, <2>51, <2>7 DEF Progress, o
  <2>9. /\ o.kind = "bootstrap" /\ o.at = "answered" =>
              /\ o.key \in Keys /\ key'[o.key] # None
              /\ o.key \notin Configured =>
                    key'[o.key].tenant = o.tenant /\ key'[o.key].workspace = o.workspace
    BY <2>1 DEF Progress, o, Kept
  <2>10. o.at = "insert_key" =>
              /\ workspace'[o.workspace] # None
              /\ workspace'[o.workspace].tenant = o.tenant \/ o.workspace \in moved'
    BY <2>1, <2>6, OwnerKept DEF Progress, o
  <2>11. o.at \in {"find_key", "revoke", "log"} => o.kind = "revoke"
    BY <2>1 DEF Progress, o
  <2>12. admin'[h] = o
    BY DEF o
  <2>13. QED
    BY <2>7, <2>8, <2>9, <2>10, <2>11, <2>12 DEF Progress, Owner
<1>3. QED
  BY <1>1, <1>2 DEF Good

LEMMA GoodOff == ASSUME NEW h \in Admins, admin'[h] = Off PROVE Good(h)'
  BY OffType DEF Good, Named, Progress, Off

\* What one call does to its own record.
LEMMA AskGood ==
  ASSUME TypeOK, CallsInv, NEW h \in Admins, Ask(h)
  PROVE  Good(h)' /\ \A g \in Admins \ {h} : admin'[g] = admin[g]
<1>0. admin \in [Admins -> AdminType] /\ None \notin Servers
  BY KeysAssumption DEF CallsInv
<1>1. PICK s \in Servers :
        \/ \E slug \in Slugs : CreateTenant(h, s, slug)
        \/ \E t \in Tenants, slug \in Slugs : CreateWorkspace(h, s, t, slug)
        \/ \E t \in Tenants, w \in Workspaces, role \in Roles, caps \in Capabilities :
             IssueKey(h, s, t, w, role, caps)
        \/ \E slug, wslug \in Slugs, role \in Roles, caps \in Capabilities :
             Bootstrap(h, s, slug, wslug, role, caps)
        \/ \E k \in Keys : Revoke(h, s, k)
  BY DEF Ask
<1>2. \A g \in Admins \ {h} : admin'[g] = admin[g]
  BY <1>0, <1>1 DEF Call, CreateTenant, CreateWorkspace, IssueKey, Bootstrap, Revoke
<1>3. CASE \E slug \in Slugs : CreateTenant(h, s, slug)
  <2>1. PICK slug \in Slugs : CreateTenant(h, s, slug)
    BY <1>3
  <2>2. /\ admin'[h] = [Off EXCEPT !.at = "find_tenant", !.server = s, !.kind = "tenant", !.slug = slug]
        /\ slug # None
    BY <1>0, <2>1, KeysAssumption DEF CreateTenant, Call
  <2>3. admin'[h] \in AdminType
    BY <2>2 DEF AdminType, Steps, Off
  <2>4. /\ admin'[h].at = "find_tenant" /\ admin'[h].kind = "tenant"
        /\ admin'[h].slug # None
    BY <2>2 DEF Off
  <2>5. QED
    BY <2>3, <2>4, <1>2 DEF Good, Named, Progress
<1>4. CASE \E t \in Tenants, slug \in Slugs : CreateWorkspace(h, s, t, slug)
  <2>1. PICK t \in Tenants, slug \in Slugs : CreateWorkspace(h, s, t, slug)
    BY <1>4
  <2>2. /\ admin'[h] = [Off EXCEPT !.at = "find_workspace", !.server = s, !.kind = "workspace",
                                   !.tenant = t, !.wslug = slug]
        /\ slug # None /\ t # None
    BY <1>0, <2>1, KeysAssumption DEF CreateWorkspace, Call
  <2>3. admin'[h] \in AdminType
    BY <2>2 DEF AdminType, Steps, Off
  <2>4. /\ admin'[h].at = "find_workspace" /\ admin'[h].kind = "workspace"
        /\ admin'[h].tenant # None /\ admin'[h].wslug # None
    BY <2>2 DEF Off
  <2>5. QED
    BY <2>3, <2>4, <1>2 DEF Good, Named, Progress
<1>5. CASE \E t \in Tenants, w \in Workspaces, role \in Roles, caps \in Capabilities :
             IssueKey(h, s, t, w, role, caps)
  <2>1. PICK t \in Tenants, w \in Workspaces, role \in Roles, caps \in Capabilities :
             IssueKey(h, s, t, w, role, caps)
    BY <1>5
  <2>2. /\ admin'[h] = [Off EXCEPT !.at = "check_workspace", !.server = s, !.kind = "issue",
                                   !.tenant = t, !.workspace = w, !.role = role, !.caps = caps]
        /\ t # None /\ w # None /\ role # None
    BY <1>0, <2>1, KeysAssumption DEF IssueKey, Call
  <2>3. admin'[h] \in AdminType
    BY <2>2 DEF AdminType, Steps, Off
  <2>4. /\ admin'[h].at = "check_workspace" /\ admin'[h].kind = "issue"
        /\ admin'[h].tenant # None /\ admin'[h].workspace # None /\ admin'[h].role # None
    BY <2>2 DEF Off
  <2>5. QED
    BY <2>3, <2>4, <1>2 DEF Good, Named, Progress
<1>6. CASE \E slug, wslug \in Slugs, role \in Roles, caps \in Capabilities :
             Bootstrap(h, s, slug, wslug, role, caps)
  <2>1. PICK slug \in Slugs, wslug \in Slugs, role \in Roles, caps \in Capabilities :
             Bootstrap(h, s, slug, wslug, role, caps)
    BY <1>6
  <2>2. /\ admin'[h] = [Off EXCEPT !.at = "look", !.server = s, !.kind = "bootstrap", !.slug = slug,
                                   !.wslug = wslug, !.role = role, !.caps = caps]
        /\ slug # None /\ wslug # None /\ role # None
    BY <1>0, <2>1, KeysAssumption DEF Bootstrap, Call
  <2>3. admin'[h] \in AdminType
    BY <2>2 DEF AdminType, Steps, Off
  <2>4. /\ admin'[h].at = "look" /\ admin'[h].kind = "bootstrap"
        /\ admin'[h].slug # None /\ admin'[h].wslug # None /\ admin'[h].role # None
    BY <2>2 DEF Off
  <2>5. QED
    BY <2>3, <2>4, <1>2 DEF Good, Named, Progress
<1>7. CASE \E k \in Keys : Revoke(h, s, k)
  <2>1. PICK k \in Keys : Revoke(h, s, k)
    BY <1>7
  <2>2. /\ admin'[h] = [Off EXCEPT !.at = "find_key", !.server = s, !.kind = "revoke", !.key = k]
        /\ k # None
    BY <1>0, <2>1, KeysAssumption DEF Revoke, Call
  <2>3. admin'[h] \in AdminType
    BY <2>2 DEF AdminType, Steps, Off
  <2>4. admin'[h].at = "find_key" /\ admin'[h].kind = "revoke" /\ admin'[h].key # None
    BY <2>2 DEF Off
  <2>5. QED
    BY <2>3, <2>4, <1>2 DEF Good, Named, Progress
<1>8. QED
  BY <1>1, <1>3, <1>4, <1>5, <1>6, <1>7

\* Moving on changes the step alone.
Moved(h, step) ==
    /\ admin'[h] \in AdminType
    /\ admin'[h].at = step
    /\ admin'[h].kind = admin[h].kind /\ admin'[h].slug = admin[h].slug
    /\ admin'[h].wslug = admin[h].wslug /\ admin'[h].role = admin[h].role
    /\ admin'[h].tenant = admin[h].tenant /\ admin'[h].workspace = admin[h].workspace
    /\ admin'[h].key = admin[h].key

LEMMA GotoMoves ==
  ASSUME CallsInv, NEW h \in Admins, NEW step \in Steps, Goto(h, step)
  PROVE  Moved(h, step)
<1>1. admin \in [Admins -> AdminType]
  BY DEF CallsInv
<1>2. admin[h] \in AdminType /\ admin'[h] = [admin[h] EXCEPT !.at = step]
  BY <1>1 DEF Goto
<1>3. QED
  BY <1>2 DEF Moved, AdminType

LEMMA OthersWait ==
  ASSUME CallsInv, NEW h \in Admins, AdminStep(h)
  PROVE  \A g \in Admins \ {h} : admin'[g] = admin[g]
  BY DEF CallsInv, AdminStep, Look, FindTenant, FindWorkspace, CheckWorkspace, InsertTenant,
         InsertWorkspace, InsertKey, FindKey, RevokeKey, LogRevocation, End, Goto, Fail

LEMMA FailGood ==
  ASSUME CallsInv, NEW h \in Admins, Fail(h) PROVE Good(h)'
<1>1. admin'[h] = Off
  BY DEF CallsInv, Fail
<1>2. QED
  BY <1>1, GoodOff

LEMMA LookGood ==
  ASSUME TypeOK, CallsInv, NEW h \in Admins, Look(h) \/ FindTenant(h) PROVE Good(h)'
<1>1. Good(h) /\ (At(h, "look") \/ At(h, "find_tenant"))
  BY GoodCalls DEF Look, FindTenant
<1>2. CASE Fail(h)
  BY <1>2, FailGood
<1>3. ASSUME NEW step \in {"find_tenant", "insert_tenant"}, Goto(h, step) PROVE Good(h)'
  <2>1. Moved(h, step)
    BY <1>3, GotoMoves DEF Steps
  <2>2. Good(h) /\ admin[h].slug # None
    BY GoodCalls DEF Look, FindTenant, At, Good, Named
  <2>3. QED
    BY <2>1, <2>2 DEF Moved, Good, Named, Progress
<1>4. QED
  BY <1>2, <1>3 DEF Look, FindTenant

LEMMA InsertTenantGood ==
  ASSUME TypeOK, CallsInv, NEW h \in Admins, NEW t \in Tenants, InsertTenant(h, t) PROVE Good(h)'
<1>1. /\ admin[h] \in AdminType /\ Good(h) /\ admin[h].at = "insert_tenant"
      /\ admin[h].slug # None
  BY GoodCalls DEF InsertTenant, At, Good, Named
<1>2. admin'[h] = [admin[h] EXCEPT !.at = Then(h, "find_workspace"), !.tenant = t]
  BY DEF InsertTenant, CallsInv
<1>3. tenant'[t] = admin[h].slug
  BY Parts DEF InsertTenant, RowsType
<1>4. /\ admin'[h] \in AdminType
      /\ admin'[h].at = Then(h, "find_workspace") /\ admin'[h].tenant = t
      /\ admin'[h].kind = admin[h].kind /\ admin'[h].slug = admin[h].slug
      /\ admin'[h].wslug = admin[h].wslug /\ admin'[h].role = admin[h].role
  BY ZenonT(60), <1>1, <1>2 DEF AdminType, Steps, Then
<1>5. t # None
  BY KeysAssumption
<1>6. QED
  BY <1>1, <1>3, <1>4, <1>5 DEF Good, Named, Progress, Then

LEMMA FindWorkspaceGood ==
  ASSUME TypeOK, CallsInv, NEW h \in Admins, FindWorkspace(h) PROVE Good(h)'
<1>1. Good(h) /\ admin[h].at = "find_workspace"
  BY GoodCalls DEF FindWorkspace, At
<1>2. CASE Fail(h)
  BY <1>2, FailGood
<1>3. CASE Goto(h, "insert_workspace")
  <2>1. Moved(h, "insert_workspace")
    BY <1>3, GotoMoves DEF Steps
  <2>2. UNCHANGED rows
    BY DEF FindWorkspace, rows
  <2>3. QED
    BY <1>1, <2>1, <2>2 DEF Moved, Good, Named, Progress, rows
<1>4. QED
  BY <1>2, <1>3 DEF FindWorkspace

LEMMA InsertWorkspaceGood ==
  ASSUME TypeOK, CallsInv, NEW h \in Admins, NEW w \in Workspaces, InsertWorkspace(h, w)
  PROVE  Good(h)'
<1>1. Good(h) /\ admin[h].at = "insert_workspace" /\ admin[h] \in AdminType
  BY GoodCalls DEF InsertWorkspace, At, Good
<1>2. admin'[h] = [admin[h] EXCEPT !.at = Then(h, "check_workspace"), !.workspace = w]
  BY DEF InsertWorkspace, CallsInv
<1>3. /\ workspace'[w] = [tenant |-> admin[h].tenant, slug |-> admin[h].wslug]
      /\ tenant' = tenant
  BY Parts DEF InsertWorkspace, RowsType
<1>4. /\ admin'[h] \in AdminType
      /\ admin'[h].at = Then(h, "check_workspace") /\ admin'[h].workspace = w
      /\ admin'[h].kind = admin[h].kind /\ admin'[h].slug = admin[h].slug
      /\ admin'[h].wslug = admin[h].wslug /\ admin'[h].role = admin[h].role
      /\ admin'[h].tenant = admin[h].tenant
  BY ZenonT(60), <1>1, <1>2 DEF AdminType, Steps, Then
<1>5. w # None
  BY KeysAssumption
<1>6. QED
  BY <1>1, <1>3, <1>4, <1>5 DEF Good, Named, Progress, Then

LEMMA CheckWorkspaceGood ==
  ASSUME TypeOK, CallsInv, NEW h \in Admins, CheckWorkspace(h) PROVE Good(h)'
<1>1. Good(h) /\ admin[h].at = "check_workspace"
  BY GoodCalls DEF CheckWorkspace, At
<1>2. CASE Fail(h)
  BY <1>2, FailGood
<1>3. CASE Goto(h, "insert_key") /\ ~Fail(h)
  <2>1. Moved(h, "insert_key")
    BY <1>3, GotoMoves DEF Steps
  <2>2. /\ UNCHANGED rows /\ UNCHANGED moved
        /\ workspace[admin[h].workspace] # None
        /\ workspace[admin[h].workspace].tenant = admin[h].tenant
    BY <1>3 DEF CheckWorkspace, rows, past
  <2>3. QED
    BY <1>1, <2>1, <2>2 DEF Moved, Good, Named, Progress, Owner, rows
<1>4. QED
  BY <1>2, <1>3 DEF CheckWorkspace

LEMMA InsertKeyGood ==
  ASSUME TypeOK, CallsInv, NEW h \in Admins, NEW k \in Keys, NEW x \in Secrets, InsertKey(h, k, x)
  PROVE  Good(h)'
<1>1. Good(h) /\ admin[h].at = "insert_key" /\ admin[h] \in AdminType
  BY GoodCalls DEF InsertKey, At, Good
<1>2. admin'[h] = [admin[h] EXCEPT !.at = "answered", !.key = k]
  BY DEF InsertKey, CallsInv
<1>3. /\ key'[k] = Issued(h, x) /\ Issued(h, x) # None
      /\ tenant' = tenant /\ workspace' = workspace
  BY Parts, IssuedType DEF InsertKey, RowsType, Issued
<1>4. /\ admin'[h] \in AdminType
      /\ admin'[h].at = "answered" /\ admin'[h].key = k
      /\ admin'[h].kind = admin[h].kind /\ admin'[h].slug = admin[h].slug
      /\ admin'[h].wslug = admin[h].wslug /\ admin'[h].role = admin[h].role
      /\ admin'[h].tenant = admin[h].tenant /\ admin'[h].workspace = admin[h].workspace
  BY ZenonT(60), <1>1, <1>2 DEF AdminType, Steps
<1>5. Issued(h, x).tenant = admin[h].tenant /\ Issued(h, x).workspace = admin[h].workspace
  BY DEF Issued, KeyRow
<1>6. QED
  BY <1>1, <1>3, <1>4, <1>5 DEF Good, Named, Progress

LEMMA RevokeGood ==
  ASSUME TypeOK, CallsInv, Kept, NEW h \in Admins, FindKey(h) \/ RevokeKey(h) \/ LogRevocation(h)
  PROVE  Good(h)'
<1>1. /\ Good(h) /\ admin[h].kind = "revoke" /\ admin[h].key \in Keys
      /\ admin[h].at \in {"find_key", "revoke", "log"}
  BY GoodCalls DEF FindKey, RevokeKey, LogRevocation, At, Good, Progress, Named, AdminType
<1>2. CASE Fail(h)
  BY <1>2, FailGood
<1>3. ASSUME NEW step \in {"revoke", "log", "answered"}, Goto(h, step), key[admin[h].key] # None
      PROVE  Good(h)'
  <2>1. Moved(h, step)
    BY <1>3, GotoMoves DEF Steps
  <2>2. key'[admin[h].key] # None
    BY <1>1, <1>3 DEF Kept
  <2>3. QED
    BY <1>1, <2>1, <2>2 DEF Moved, Good, Named, Progress
<1>4. QED
  BY <1>1, <1>2, <1>3 DEF FindKey, RevokeKey, LogRevocation, At, Good, Named

LEMMA CallsKept ==
  ASSUME TypeOK, CallsInv, [Next]_vars
  PROVE  CallsInv'
<1>1. Kept
  BY RowsKept
<1>2. \A h \in Admins : Good(h)
  BY GoodCalls
<1>3. (\A h \in Admins : Good(h)') /\ (\E f : admin' = [h \in Admins |-> f[h]])
  <2>1. ASSUME NEW h \in Admins, Ask(h) \/ AdminStep(h)
        PROVE  \A g \in Admins : Good(g)'
    <3>1. \A g \in Admins \ {h} : admin'[g] = admin[g]
      BY <2>1, AskGood, OthersWait
    <3>2. Good(h)'
      <4>1. CASE Ask(h)
        BY <4>1, AskGood
      <4>2. CASE AdminStep(h)
        <5>1. CASE End(h)
          BY <5>1, FailGood DEF End
        <5>2. QED
          BY <1>1, <4>2, <5>1, LookGood, InsertTenantGood, FindWorkspaceGood, InsertWorkspaceGood,
             CheckWorkspaceGood, InsertKeyGood, RevokeGood DEF AdminStep
      <4>3. QED
        BY <2>1, <4>1, <4>2
    <3>3. QED
      BY <1>1, <1>2, <3>1, <3>2, GoodKept
  <2>2. ASSUME UNCHANGED admin PROVE \A g \in Admins : Good(g)'
    BY <1>1, <1>2, <2>2, GoodKept
  <2>3. ASSUME NEW s \in Servers, Stop(s) PROVE \A g \in Admins : Good(g)'
    <3>1. \A g \in Admins : admin'[g] = Off \/ admin'[g] = admin[g]
      BY <2>3 DEF Stop
    <3>2. QED
      BY <1>1, <1>2, <3>1, GoodKept, GoodOff
  <2>4. \A g \in Admins : Good(g)'
    <3>1. ASSUME NEW s \in Servers, ServerStep(s) PROVE \A g \in Admins : Good(g)'
      BY <3>1, <2>2, <2>3 DEF ServerStep, StartDisabled, StartSeeding, StartUnseeded, StartFallback
    <3>2. ASSUME NEW r \in Requests, RequestStep(r) PROVE \A g \in Admins : Good(g)'
      BY <3>2, <2>2 DEF RequestStep, ResolveInRepository, ResolveStatically, RequestEnds
    <3>3. QED
      BY <2>1, <2>2, <3>1, <3>2 DEF Next, vars
  <2>5. admin' = [h \in Admins |-> admin'[h]]
    <3>1. admin = [h \in Admins |-> admin[h]]
      BY DEF CallsInv
    <3>2. ASSUME NEW h \in Admins, NEW o, admin' = [admin EXCEPT ![h] = o]
          PROVE  admin' = [g \in Admins |-> admin'[g]]
      BY <3>1, <3>2
    <3>3. ASSUME NEW h \in Admins, NEW step, Goto(h, step) \/ Fail(h)
          PROVE  admin' = [g \in Admins |-> admin'[g]]
      BY <3>1, <3>3 DEF Goto, Fail
    <3>4. ASSUME NEW s \in Servers, ServerStep(s) PROVE admin' = [g \in Admins |-> admin'[g]]
      <4>1. CASE Stop(s)
        BY <4>1 DEF Stop
      <4>2. QED
        BY <3>1, <3>4, <4>1 DEF ServerStep, StartDisabled, StartSeeding, StartUnseeded, StartFallback
    <3>5. ASSUME NEW r \in Requests, RequestStep(r) PROVE admin' = [g \in Admins |-> admin'[g]]
      BY <3>1, <3>5 DEF RequestStep, ResolveInRepository, ResolveStatically, RequestEnds
    <3>6. ASSUME NEW h \in Admins, Ask(h) PROVE admin' = [g \in Admins |-> admin'[g]]
      BY <3>2, <3>6 DEF Ask, Call, CreateTenant, CreateWorkspace, IssueKey, Bootstrap, Revoke
    <3>7. ASSUME NEW h \in Admins, AdminStep(h) PROVE admin' = [g \in Admins |-> admin'[g]]
      <4>1. ASSUME NEW t \in Tenants, InsertTenant(h, t) PROVE admin' = [g \in Admins |-> admin'[g]]
        BY <3>1, <4>1 DEF InsertTenant
      <4>2. ASSUME NEW w \in Workspaces, InsertWorkspace(h, w)
            PROVE  admin' = [g \in Admins |-> admin'[g]]
        BY <3>1, <4>2 DEF InsertWorkspace
      <4>3. ASSUME NEW k \in Keys, NEW x \in Secrets, InsertKey(h, k, x)
            PROVE  admin' = [g \in Admins |-> admin'[g]]
        BY <3>1, <4>3 DEF InsertKey
      <4>4. QED
        BY <3>3, <3>7, <4>1, <4>2, <4>3 DEF AdminStep, Look, FindTenant, FindWorkspace,
           CheckWorkspace, FindKey, RevokeKey, LogRevocation, End
    <3>8. QED
      BY <3>1, <3>4, <3>5, <3>6, <3>7 DEF Next, vars
  <2>6. QED
    BY <2>4, <2>5
<1>4. QED
  BY <1>3 DEF CallsInv, Good

-----------------------------------------------------------------------------
(* Servers and requests *)

ServersInv ==
    /\ server \in [Servers -> ServerType]
    /\ \A s \in Servers :
         server[s].mode = "static_fallback" => server[s].enabled /\ server[s].static \in Configs

LEMMA ServersKept ==
  ASSUME ServersInv, [Next]_vars PROVE ServersInv'
<1>1. ASSUME UNCHANGED server PROVE ServersInv'
  BY <1>1 DEF ServersInv
<1>2. ASSUME NEW s \in Servers, ServerStep(s) PROVE ServersInv'
  <2>1. Down \in ServerType /\ Down.mode = "down"
    BY DEF Down, ServerType
  <2>2. CASE Stop(s)
    BY <2>1, <2>2 DEF Stop, ServersInv
  <2>3. ASSUME NEW cf \in Configs,
               NEW mode \in {"disabled", "repository", "static_fallback"},
               StartsAs(s, cf, mode), mode = "static_fallback" => cf.enabled
        PROVE  ServersInv'
    <3> DEFINE st == IF mode = "static_fallback" THEN cf ELSE None
               o == [mode |-> mode, enabled |-> cf.enabled, static |-> st]
    <3>0. cf.enabled \in BOOLEAN
      BY KeysAssumption DEF Settings
    <3>1. o \in ServerType
      BY <3>0 DEF ServerType
    <3>2. o.mode = "static_fallback" => o.enabled /\ o.static \in Configs
      BY <2>3
    <3>3. server' = [server EXCEPT ![s] = o]
      BY <2>3 DEF StartsAs
    <3> HIDE DEF o
    <3>4. QED
      BY <3>1, <3>2, <3>3 DEF ServersInv
  <2>4. QED
    BY <1>2, <2>2, <2>3 DEF ServerStep, StartDisabled, StartSeeding, StartUnseeded, StartFallback
<1>3. QED
  <2>1. ASSUME NEW r \in Requests, RequestStep(r) PROVE UNCHANGED server
    BY <2>1 DEF RequestStep, ResolveInRepository, ResolveStatically, RequestEnds
  <2>2. ASSUME NEW h \in Admins, Ask(h) \/ AdminStep(h) PROVE UNCHANGED server
    BY <2>2 DEF Ask, Call, CreateTenant, CreateWorkspace, IssueKey, Bootstrap, Revoke, AdminStep,
       Look, FindTenant, FindWorkspace, CheckWorkspace, InsertTenant, InsertWorkspace, InsertKey,
       FindKey, RevokeKey, LogRevocation, End
  <2>3. QED
    BY <1>1, <1>2, <2>1, <2>2 DEF Next, vars

LEMMA RequestsKept ==
  ASSUME request \in [Requests -> RequestType], RowsType, ServersInv, [Next]_vars
  PROVE  request' \in [Requests -> RequestType]
<1>1. ASSUME NEW r \in Requests, RequestStep(r) PROVE request' \in [Requests -> RequestType]
  <2>1. ASSUME NEW s \in Servers, NEW x \in Secrets, NEW k \in Keys, ResolveInRepository(r, s, x, k)
        PROVE  request' \in [Requests -> RequestType]
    <3>1. key[k] \in KeyRows
      BY <2>1 DEF ResolveInRepository, Resolvable, RowsType
    <3>2. key[k].tenant \in Tenants /\ key[k].workspace \in Workspaces
      BY <3>1 DEF KeyRows
    <3>3. QED
      BY <2>1, <3>2 DEF ResolveInRepository, RequestType
  <2>2. ASSUME NEW s \in Servers, NEW x \in Secrets, ResolveStatically(r, s, x)
        PROVE  request' \in [Requests -> RequestType]
    <3>1. server[s].static \in Configs
      BY <2>2 DEF ResolveStatically, ServersInv
    <3>2. QED
      BY <2>2, <3>1, SettingIds DEF ResolveStatically, RequestType
  <2>3. ASSUME RequestEnds(r) PROVE request' \in [Requests -> RequestType]
    BY <2>3 DEF RequestEnds, RequestType, Waiting
  <2>4. QED
    BY <1>1, <2>1, <2>2, <2>3 DEF RequestStep
<1>2. ASSUME NEW s \in Servers, ServerStep(s) PROVE request' \in [Requests -> RequestType]
  <2>1. Waiting \in RequestType
    BY DEF Waiting, RequestType
  <2>2. QED
    BY <1>2, <2>1 DEF ServerStep, StartDisabled, StartSeeding, StartUnseeded, StartFallback, Seed, Stop
<1>3. ASSUME NEW h \in Admins, Ask(h) \/ AdminStep(h) PROVE UNCHANGED request
  BY <1>3 DEF Ask, Call, CreateTenant, CreateWorkspace, IssueKey, Bootstrap, Revoke, AdminStep,
     Look, FindTenant, FindWorkspace, CheckWorkspace, InsertTenant, InsertWorkspace, InsertKey,
     FindKey, RevokeKey, LogRevocation, End
<1>4. QED
  BY <1>1, <1>2, <1>3 DEF Next, vars

-----------------------------------------------------------------------------
(* The inductive invariant *)

Inv == RowsType /\ CallsInv /\ ServersInv /\ request \in [Requests -> RequestType]

LEMMA InvTyped == Inv => TypeOK
  BY Parts DEF Inv, CallsInv, ServersInv

LEMMA InvInit == Init => Inv
<1> SUFFICES ASSUME Init PROVE Inv
  OBVIOUS
<1>1. RowsType
  BY KeysAssumption DEF Init, RowsType
<1>2. CallsInv
  BY OffType DEF Init, CallsInv, Named, Progress, Off
<1>3. ServersInv
  BY DEF Init, ServersInv, Down, ServerType
<1>4. request \in [Requests -> RequestType]
  BY DEF Init, Waiting, RequestType
<1>5. QED
  BY <1>1, <1>2, <1>3, <1>4 DEF Inv

LEMMA InvStep == Inv /\ [Next]_vars => Inv' /\ Kept
  BY InvTyped, RowsKept, CallsKept, ServersKept, RequestsKept DEF Inv

THEOREM Inductive == Spec => []Inv
  BY InvInit, InvStep, PTL DEF Spec

\* The tables hold rows of their columns and every call names the rows its
\* next statement is about.
THEOREM TypeCorrect == Spec => []TypeOK
  BY Inductive, InvTyped, PTL

-----------------------------------------------------------------------------
(* The steps that write a table *)

Written ==
    \/ \E cf \in Configs : cf.secret # None /\ Seed(cf)
    \/ \E h \in Admins :
         \/ \E t \in Tenants : InsertTenant(h, t)
         \/ \E w \in Workspaces : InsertWorkspace(h, w)
         \/ \E k \in Keys, x \in Secrets : InsertKey(h, k, x)
         \/ RevokeKey(h)
         \/ LogRevocation(h)

LEMMA RowSteps == [Next]_vars => Written \/ UNCHANGED <<tenant, workspace, key, log, gone>>
<1> SUFFICES ASSUME [Next]_vars PROVE Written \/ UNCHANGED <<tenant, workspace, key, log, gone>>
  OBVIOUS
<1>1. ASSUME NEW s \in Servers, ServerStep(s)
      PROVE  Written \/ UNCHANGED <<tenant, workspace, key, log, gone>>
  <2>1. ASSUME NEW cf \in Configs, StartSeeding(s, cf) PROVE Written
    BY <2>1 DEF StartSeeding, Written
  <2>2. QED
    BY <1>1, <2>1 DEF ServerStep, StartDisabled, StartUnseeded, StartFallback, Stop, rows, past
<1>2. ASSUME NEW r \in Requests, RequestStep(r) PROVE UNCHANGED <<tenant, workspace, key, log, gone>>
  BY <1>2 DEF RequestStep, ResolveInRepository, ResolveStatically, RequestEnds, rows, past
<1>3. ASSUME NEW h \in Admins, Ask(h) PROVE UNCHANGED <<tenant, workspace, key, log, gone>>
  BY <1>3 DEF Ask, Call, CreateTenant, CreateWorkspace, IssueKey, Bootstrap, Revoke, rows, past
<1>4. ASSUME NEW h \in Admins, AdminStep(h)
      PROVE  Written \/ UNCHANGED <<tenant, workspace, key, log, gone>>
  <2>1. ASSUME Look(h) \/ FindTenant(h) \/ FindWorkspace(h) \/ CheckWorkspace(h) \/ FindKey(h)
               \/ End(h)
        PROVE  UNCHANGED <<tenant, workspace, key, log, gone>>
    BY <2>1 DEF Look, FindTenant, FindWorkspace, CheckWorkspace, FindKey, End, rows, past
  <2>2. QED
    BY <1>4, <2>1 DEF AdminStep, Written
<1>5. QED
  BY <1>1, <1>2, <1>3, <1>4 DEF Next, vars

\* A seed writes the rows of its ids.
LEMMA SeedWrites ==
  ASSUME RowsType, NEW cf \in Configs, cf.secret # None, Seed(cf)
  PROVE  /\ key' = [key EXCEPT ![cf.key] = key'[cf.key]]
         /\ key'[cf.key] \in KeyRows
         /\ key'[cf.key].tenant = cf.tenant /\ key'[cf.key].workspace = cf.workspace
         /\ workspace'[cf.workspace] = [tenant |-> cf.tenant, slug |-> cf.wslug]
         /\ log' = [log EXCEPT ![cf.key] = @ \cup {"created"}]
         /\ gone' = gone \ {cf.key}
<1> DEFINE row == KeyRow(cf.tenant, cf.workspace, cf.secret, cf.prefix, "tenant_admin")
<1>1. row.tenant = cf.tenant /\ row.workspace = cf.workspace
  BY DEF KeyRow
<1>2. row \in KeyRows
  BY SettingIds, KeyRowType
<1> HIDE DEF row
<1>3. key' = [key EXCEPT ![cf.key] = row]
  BY DEF Seed, row
<1>4. /\ workspace' = [workspace EXCEPT ![cf.workspace] =
                          [tenant |-> cf.tenant, slug |-> cf.wslug]]
      /\ log' = [log EXCEPT ![cf.key] = @ \cup {"created"}]
      /\ gone' = gone \ {cf.key}
  BY DEF Seed, LogRow
<1>5. QED
  BY <1>1, <1>2, <1>3, <1>4, SettingIds DEF RowsType

-----------------------------------------------------------------------------
(* Revoked keys *)

GoneInv ==
    \A k \in gone : key[k] # None /\ key[k].status = "revoked" /\ "revoked" \in log[k]

LEMMA GoneKept ==
  ASSUME Inv, GoneInv, [Next]_vars PROVE GoneInv'
<1>0. RowsType /\ CallsInv /\ TypeOK
  BY InvTyped DEF Inv
<1>1. ASSUME NEW cf \in Configs, cf.secret # None, Seed(cf) PROVE GoneInv'
  <2>1. /\ key' = [key EXCEPT ![cf.key] = key'[cf.key]] /\ gone' = gone \ {cf.key}
        /\ log' = [log EXCEPT ![cf.key] = @ \cup {"created"}]
    BY <1>0, <1>1, SeedWrites
  <2>2. gone \subseteq Keys /\ DOMAIN key = Keys /\ DOMAIN log = Keys
    BY <1>0 DEF RowsType
  <2>3. \A k \in gone' : k \in gone /\ key'[k] = key[k] /\ log'[k] = log[k]
    BY <2>1, <2>2
  <2>4. QED
    BY <2>3 DEF GoneInv
<1>2. ASSUME NEW h \in Admins, NEW t \in Tenants, InsertTenant(h, t) PROVE GoneInv'
  BY <1>2 DEF GoneInv, InsertTenant, past
<1>3. ASSUME NEW h \in Admins, NEW w \in Workspaces, InsertWorkspace(h, w) PROVE GoneInv'
  BY <1>3 DEF GoneInv, InsertWorkspace, past
<1>4. ASSUME NEW h \in Admins, NEW k \in Keys, NEW x \in Secrets, InsertKey(h, k, x) PROVE GoneInv'
  <2>1. /\ key[k] = None
        /\ key' = [key EXCEPT ![k] = Issued(h, x)]
        /\ log' = [log EXCEPT ![k] = @ \cup {"created"}]
        /\ gone' = gone
    BY <1>4 DEF InsertKey, Issued, LogRow, past
  <2>2. QED
    BY <1>0, <2>1 DEF GoneInv, RowsType
<1>5. ASSUME NEW h \in Admins, RevokeKey(h) PROVE GoneInv'
  <2> DEFINE row == [key[admin[h].key] EXCEPT !.status = "revoked"]
  <2>1. admin[h].key \in Keys /\ key[admin[h].key] # None
    BY <1>0, <1>5 DEF RevokeKey, At, CallsInv, AdminType, Named
  <2>2. key[admin[h].key] \in KeyRows
    BY <1>0, <2>1 DEF RowsType
  <2>3. row \in KeyRows /\ row # None /\ row.status = "revoked"
    BY <2>2, KeysAssumption DEF KeyRows
  <2>4. key' = [key EXCEPT ![admin[h].key] = row] /\ log' = log /\ gone' = gone
    BY <1>0, <1>5, <2>1 DEF RevokeKey, RowsType, past
  <2> HIDE DEF row
  <2>5. QED
    BY <1>0, <2>1, <2>3, <2>4 DEF GoneInv, RowsType
<1>6. ASSUME NEW h \in Admins, LogRevocation(h) PROVE GoneInv'
  <2>1. admin[h].key \in Keys /\ key[admin[h].key] # None
    BY <1>0, <1>6 DEF LogRevocation, At, CallsInv, AdminType, Named
  <2>2. QED
    BY <1>0, <1>6, <2>1 DEF GoneInv, LogRevocation, LogRow, RowsType
<1>7. ASSUME UNCHANGED <<tenant, workspace, key, log, gone>> PROVE GoneInv'
  BY <1>7 DEF GoneInv
<1>8. QED
  BY <1>1, <1>2, <1>3, <1>4, <1>5, <1>6, <1>7, RowSteps DEF Written

\* A start leaves the requests alone, and a stop ends those of its process.
LEMMA StartsOnly ==
  ASSUME NEW s \in Servers, ServerStep(s)
  PROVE  \A r \in Requests : request'[r] = request[r] \/ request'[r] = Waiting
<1>1. CASE Stop(s)
  BY <1>1 DEF Stop
<1>2. CASE request' = request
  BY <1>2
<1>3. QED
  BY <1>1, <1>2 DEF ServerStep, StartDisabled, StartSeeding, StartUnseeded, StartFallback

LEMMA RefusedStep ==
  ASSUME Inv, GoneInv, [Next]_vars, NEW r \in Requests,
         request[r].at = "idle", request'[r].at = "resolved", Ready(request'[r].server)
  PROVE  request'[r].key \notin gone
<1>0. /\ request \in [Requests -> RequestType] /\ ServersInv
  BY DEF Inv
<1>1. ASSUME NEW q \in Requests, NEW s \in Servers, NEW x \in Secrets, NEW k \in Keys,
             ResolveInRepository(q, s, x, k)
      PROVE  request'[r].key \notin gone
  <2>1. q = r
    BY <1>0, <1>1 DEF ResolveInRepository
  <2>2. request'[r].key = k /\ key[k].status = "active"
    BY <1>0, <1>1, <2>1 DEF ResolveInRepository, Resolvable
  <2>3. QED
    BY <2>2 DEF GoneInv
<1>2. ASSUME NEW q \in Requests, NEW s \in Servers, NEW x \in Secrets, ResolveStatically(q, s, x)
      PROVE  FALSE
  <2>1. q = r
    BY <1>0, <1>2 DEF ResolveStatically
  <2>2. request'[r].server = s
    BY <1>0, <1>2, <2>1 DEF ResolveStatically
  <2>3. QED
    BY <1>0, <1>2, <2>2 DEF ResolveStatically, Ready, ServersInv
<1>3. ASSUME NEW q \in Requests, RequestEnds(q) PROVE FALSE
  BY <1>0, <1>3 DEF RequestEnds, Waiting
<1>4. ASSUME NEW s \in Servers, ServerStep(s) PROVE FALSE
  BY <1>4, StartsOnly DEF Waiting
<1>5. ASSUME NEW h \in Admins, Ask(h) \/ AdminStep(h) PROVE FALSE
  <2>1. UNCHANGED request
    BY <1>5 DEF Ask, Call, CreateTenant, CreateWorkspace, IssueKey, Bootstrap, Revoke, AdminStep,
       Look, FindTenant, FindWorkspace, CheckWorkspace, InsertTenant, InsertWorkspace, InsertKey,
       FindKey, RevokeKey, LogRevocation, End
  <2>2. QED
    BY <2>1
<1>6. QED
  BY <1>1, <1>2, <1>3, <1>4, <1>5 DEF Next, vars, RequestStep

\* Once its revocation was answered, a key is refused by every server that is
\* ready, until a start seeds it again.
THEOREM Refused == Spec => RevokedIsRefused
<1>1. Init => GoneInv
  BY DEF Init, GoneInv
<1>2. Inv /\ GoneInv /\ [Next]_vars => GoneInv'
  BY GoneKept
<1>3. Inv /\ GoneInv /\ [Next]_vars =>
        [\A r \in Requests :
          request[r].at = "idle" /\ request'[r].at = "resolved" /\ Ready(request'[r].server) =>
              request'[r].key \notin gone]_vars
  BY RefusedStep
<1>4. QED
  BY Inductive, <1>1, <1>2, <1>3, PTL DEF Spec, RevokedIsRefused

-----------------------------------------------------------------------------
(* Keys and requests belong to the tenant that owns their workspace *)

Owned(k) == Owner(key[k].tenant, key[k].workspace) /\ "created" \in log[k]

KeysOwned == \A k \in Keys : key[k] # None => Owned(k)

RequestsOwned ==
    \A r \in Requests :
        request[r].source = "postgres" =>
            request[r].workspace \in Workspaces /\ Owner(request[r].tenant, request[r].workspace)

\* A key whose row keeps its tenant and workspace stays owned.
LEMMA OwnedKept ==
  ASSUME RowsType, Kept, NEW k \in Keys, key[k] # None, Owned(k),
         key'[k].tenant = key[k].tenant, key'[k].workspace = key[k].workspace
  PROVE  Owned(k)'
<1>1. key[k].workspace \in Workspaces
  BY DEF RowsType, KeyRows
<1>2. /\ workspace'[key[k].workspace] # None
      /\ workspace'[key[k].workspace].tenant = key[k].tenant \/ key[k].workspace \in moved'
  BY <1>1, OwnerKept DEF Owned
<1>3. "created" \in log'[k]
  BY DEF Owned, Kept
<1>4. QED
  BY <1>2, <1>3 DEF Owned, Owner

LEMMA KeysOwnedKept ==
  ASSUME Inv, KeysOwned, [Next]_vars PROVE KeysOwned'
<1>0. RowsType /\ CallsInv /\ TypeOK /\ Kept
  BY InvTyped, InvStep DEF Inv
<1>1. ASSUME NEW cf \in Configs, cf.secret # None, Seed(cf) PROVE KeysOwned'
  <2>1. Owned(cf.key)'
    <3>1. /\ key'[cf.key].tenant = cf.tenant /\ key'[cf.key].workspace = cf.workspace
          /\ workspace'[cf.workspace] = [tenant |-> cf.tenant, slug |-> cf.wslug]
          /\ "created" \in log'[cf.key]
      BY <1>0, <1>1, SeedWrites, SettingIds DEF RowsType
    <3>2. [tenant |-> cf.tenant, slug |-> cf.wslug] # None
      BY KeysAssumption, SettingIds DEF WorkspaceRows
    <3>3. QED
      BY <3>1, <3>2 DEF Owned, Owner
  <2>2. \A k \in Keys \ {cf.key} : key'[k] = key[k]
    BY <1>0, <1>1, SeedWrites, SettingIds DEF RowsType
  <2>3. QED
    BY <1>0, <2>1, <2>2, OwnedKept DEF KeysOwned
<1>2. ASSUME UNCHANGED key PROVE KeysOwned'
  BY <1>0, <1>2, OwnedKept DEF KeysOwned
<1>3. ASSUME NEW h \in Admins, NEW k \in Keys, NEW x \in Secrets, InsertKey(h, k, x) PROVE KeysOwned'
  <2>1. /\ key' = [key EXCEPT ![k] = Issued(h, x)]
        /\ log' = [log EXCEPT ![k] = @ \cup {"created"}]
        /\ workspace' = workspace /\ moved' = moved
    BY <1>3 DEF InsertKey, Issued, LogRow, past
  <2>2. Issued(h, x).tenant = admin[h].tenant /\ Issued(h, x).workspace = admin[h].workspace
    BY DEF Issued, KeyRow
  <2>3. Owner(admin[h].tenant, admin[h].workspace)
    BY <1>0, <1>3 DEF InsertKey, At, CallsInv, Progress
  <2>4. Owned(k)'
    BY <1>0, <2>1, <2>2, <2>3 DEF Owned, Owner, RowsType
  <2>5. \A j \in Keys \ {k} : key'[j] = key[j]
    BY <1>0, <2>1 DEF RowsType
  <2>6. QED
    BY <1>0, <2>4, <2>5, OwnedKept DEF KeysOwned
<1>4. ASSUME NEW h \in Admins, RevokeKey(h) PROVE KeysOwned'
  <2>1. admin[h].key \in Keys /\ key[admin[h].key] # None
    BY <1>0, <1>4 DEF RevokeKey, At, CallsInv, AdminType, Named
  <2>2. key[admin[h].key] \in KeyRows
    BY <1>0, <2>1 DEF RowsType
  <2>3. \A k \in Keys : key'[k].tenant = key[k].tenant /\ key'[k].workspace = key[k].workspace
    BY <1>0, <1>4, <2>1, <2>2 DEF RevokeKey, RowsType, KeyRows
  <2>4. \A k \in Keys : key'[k] # None => key[k] # None
    BY <1>0, <1>4, <2>1 DEF RevokeKey, RowsType
  <2>5. QED
    BY <1>0, <2>3, <2>4, OwnedKept DEF KeysOwned
<1>5. QED
  BY <1>1, <1>2, <1>3, <1>4, RowSteps DEF Written, InsertTenant, InsertWorkspace, LogRevocation

LEMMA RequestsOwnedKept ==
  ASSUME Inv, KeysOwned, RequestsOwned, [Next]_vars PROVE RequestsOwned'
<1>0. RowsType /\ Kept /\ request \in [Requests -> RequestType]
  BY InvStep DEF Inv
<1>1. ASSUME NEW r \in Requests, request'[r] = request[r], request'[r].source = "postgres"
      PROVE  /\ request'[r].workspace \in Workspaces
             /\ Owner(request[r].tenant, request[r].workspace)'
  <2>1. /\ request[r].workspace \in Workspaces
        /\ Owner(request[r].tenant, request[r].workspace)
    BY <1>1 DEF RequestsOwned
  <2>2. QED
    BY <1>0, <1>1, <2>1, OwnerKept DEF Owner
<1>2. ASSUME NEW r \in Requests, RequestStep(r) PROVE RequestsOwned'
  <2>0. \A q \in Requests \ {r} : request'[q] = request[q]
    BY <1>0, <1>2 DEF RequestStep, ResolveInRepository, ResolveStatically, RequestEnds
  <2>1. ASSUME NEW s \in Servers, NEW x \in Secrets, NEW k \in Keys, ResolveInRepository(r, s, x, k)
        PROVE  RequestsOwned'
    <3>1. key[k] # None /\ key[k] \in KeyRows
      BY <1>0, <2>1 DEF ResolveInRepository, Resolvable, RowsType
    <3>2. /\ request'[r].workspace = key[k].workspace /\ request'[r].tenant = key[k].tenant
          /\ workspace' = workspace /\ moved' = moved
      BY <1>0, <2>1 DEF ResolveInRepository, rows, past
    <3>3. Owned(k) /\ key[k].workspace \in Workspaces
      BY <3>1 DEF KeysOwned, KeyRows
    <3>4. QED
      BY <1>1, <2>0, <3>2, <3>3 DEF RequestsOwned, Owned, Owner
  <2>2. ASSUME NEW s \in Servers, NEW x \in Secrets, ResolveStatically(r, s, x) PROVE RequestsOwned'
    <3>1. request'[r].source = "static"
      BY <1>0, <2>2 DEF ResolveStatically
    <3>2. QED
      BY <1>1, <2>0, <3>1 DEF RequestsOwned
  <2>3. ASSUME RequestEnds(r) PROVE RequestsOwned'
    <3>1. request'[r].source = "none"
      BY <1>0, <2>3 DEF RequestEnds, Waiting
    <3>2. QED
      BY <1>1, <2>0, <3>1 DEF RequestsOwned
  <2>4. QED
    BY <1>2, <2>1, <2>2, <2>3 DEF RequestStep
<1>3. ASSUME NEW s \in Servers, ServerStep(s) PROVE RequestsOwned'
  <2>1. \A r \in Requests : request'[r] = request[r] \/ request'[r].source = "none"
    BY <1>3, StartsOnly DEF Waiting
  <2>2. QED
    BY <1>1, <2>1 DEF RequestsOwned
<1>4. ASSUME UNCHANGED request PROVE RequestsOwned'
  BY <1>1, <1>4 DEF RequestsOwned
<1>5. ASSUME NEW h \in Admins, Ask(h) \/ AdminStep(h) PROVE UNCHANGED request
  BY <1>5 DEF Ask, Call, CreateTenant, CreateWorkspace, IssueKey, Bootstrap, Revoke, AdminStep,
     Look, FindTenant, FindWorkspace, CheckWorkspace, InsertTenant, InsertWorkspace, InsertKey,
     FindKey, RevokeKey, LogRevocation, End
<1>6. QED
  BY <1>2, <1>3, <1>4, <1>5 DEF Next, vars

\* Whatever settings the starts have: every key and every request acts for
\* the tenant that owns its workspace, unless a seed has taken the workspace
\* from its tenant; and the log has a row for every key and every answered revocation.
THEOREM AccountedFor == Spec => []KeysAccountedFor
<1> DEFINE All == Inv /\ GoneInv /\ KeysOwned /\ RequestsOwned
<1>1. Init => All
  BY InvInit DEF Init, GoneInv, KeysOwned, RequestsOwned, Waiting
<1>2. All /\ [Next]_vars => All'
  BY InvStep, GoneKept, KeysOwnedKept, RequestsOwnedKept
<1>3. All => KeysAccountedFor
  BY DEF KeysAccountedFor, KeysOwned, Owned, RequestsOwned, GoneInv
<1> HIDE DEF All
<1>4. QED
  BY <1>1, <1>2, <1>3, PTL DEF Spec

-----------------------------------------------------------------------------
(* Bootstrap *)

Unique ==
    /\ \A t, u \in Tenants : t # u /\ tenant[t] # None => tenant[t] # tenant[u]
    /\ \A w, v \in Workspaces : w # v /\ workspace[w] # None => workspace[w] # workspace[v]

LEMMA UniqueKept ==
  ASSUME Inv, Unique, [Next]_vars PROVE Unique'
<1>0. RowsType /\ CallsInv /\ TypeOK
  BY InvTyped DEF Inv
<1>1. ASSUME NEW cf \in Configs, cf.secret # None, Seed(cf) PROVE Unique'
  <2>1. /\ tenant' = [tenant EXCEPT ![cf.tenant] = cf.tslug]
        /\ \A t \in Tenants \ {cf.tenant} : tenant[t] # cf.tslug
    BY <1>1 DEF Seed, CanSeed, SlugFree
  <2> DEFINE ws == [tenant |-> cf.tenant, slug |-> cf.wslug]
  <2>2. /\ workspace' = [workspace EXCEPT ![cf.workspace] = ws]
        /\ \A w \in Workspaces \ {cf.workspace} : workspace[w] # ws
    BY <1>1 DEF Seed, CanSeed, WorkspaceFree
  <2> HIDE DEF ws
  <2>3. \A t, u \in Tenants : t # u /\ tenant'[t] # None => tenant'[t] # tenant'[u]
    BY <1>0, <2>1 DEF Unique, RowsType
  <2>4. \A w, v \in Workspaces : w # v /\ workspace'[w] # None => workspace'[w] # workspace'[v]
    BY <1>0, <2>2 DEF Unique, RowsType
  <2>5. QED
    BY <2>3, <2>4 DEF Unique
<1>2. ASSUME NEW h \in Admins, NEW t \in Tenants, InsertTenant(h, t) PROVE Unique'
  <2>1. /\ tenant' = [tenant EXCEPT ![t] = admin[h].slug] /\ workspace' = workspace
        /\ tenant[t] = None
        /\ \A u \in Tenants : tenant[u] = admin[h].slug => u = None
    BY <1>2 DEF InsertTenant, SlugFree
  <2>2. QED
    BY <1>0, <2>1, KeysAssumption DEF Unique, RowsType
<1>3. ASSUME NEW h \in Admins, NEW w \in Workspaces, InsertWorkspace(h, w) PROVE Unique'
  <2> DEFINE ws == [tenant |-> admin[h].tenant, slug |-> admin[h].wslug]
  <2>1. /\ workspace' = [workspace EXCEPT ![w] = ws] /\ tenant' = tenant
        /\ workspace[w] = None
        /\ \A v \in Workspaces : workspace[v] = ws => v = None
    BY <1>3 DEF InsertWorkspace, WorkspaceFree
  <2> HIDE DEF ws
  <2>2. QED
    BY <1>0, <2>1, KeysAssumption DEF Unique, RowsType
<1>4. ASSUME UNCHANGED <<tenant, workspace>> PROVE Unique'
  BY <1>4 DEF Unique
<1>5. QED
  BY <1>1, <1>2, <1>3, <1>4, RowSteps DEF Written, InsertKey, RevokeKey, LogRevocation

\* A bootstrap that was answered is whole, and its names are no other's,
\* unless a setting names what it made.
THEOREM Whole == Spec => []BootstrapWhole
<1>1. Init => Unique
  BY DEF Init, Unique
<1>2. Inv /\ Unique /\ [Next]_vars => Unique'
  BY UniqueKept
<1>3. Inv /\ Unique => BootstrapWhole
  <2> SUFFICES ASSUME Inv, Unique, NEW h \in Admins, At(h, "answered"), admin[h].kind = "bootstrap",
                      {admin[h].tenant, admin[h].workspace, admin[h].key} \cap Configured = {}
               PROVE  LET t == admin[h].tenant
                          w == admin[h].workspace
                          k == admin[h].key
                      IN  /\ tenant[t] = admin[h].slug /\ SlugFree(admin[h].slug, t)
                          /\ workspace[w] = [tenant |-> t, slug |-> admin[h].wslug]
                          /\ WorkspaceFree(t, admin[h].wslug, w)
                          /\ key[k] # None /\ key[k].tenant = t /\ key[k].workspace = w
    BY DEF BootstrapWhole
  <2>1. Named(admin[h]) /\ Progress(h) /\ admin[h] \in AdminType /\ RowsType
    BY DEF Inv, CallsInv
  <2>2. admin[h].slug # None /\ admin[h].wslug \in Slugs
    BY <2>1 DEF Named, AdminType
  <2>3. admin[h].tenant \in Tenants /\ tenant[admin[h].tenant] = admin[h].slug
    BY <2>1 DEF Progress, At
  <2>4. /\ admin[h].workspace \in Workspaces
        /\ workspace[admin[h].workspace] = [tenant |-> admin[h].tenant, slug |-> admin[h].wslug]
    BY <2>1 DEF Progress, At
  <2>5. workspace[admin[h].workspace] # None
    BY <2>2, <2>3, <2>4, KeysAssumption DEF WorkspaceRows
  <2>6. SlugFree(admin[h].slug, admin[h].tenant)
    BY <2>2, <2>3 DEF SlugFree, Unique
  <2>7. WorkspaceFree(admin[h].tenant, admin[h].wslug, admin[h].workspace)
    BY <2>4, <2>5 DEF WorkspaceFree, Unique
  <2>8. QED
    BY <2>1, <2>3, <2>4, <2>6, <2>7 DEF Progress, At
<1>4. QED
  BY Inductive, <1>1, <1>2, <1>3, PTL DEF Spec
=============================================================================
