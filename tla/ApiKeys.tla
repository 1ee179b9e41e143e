------------------------------- MODULE ApiKeys -------------------------------
(***************************************************************************)
(* Tenants, workspaces and API keys: the admin calls that create, issue    *)
(* and revoke (src/app/controlplane/repositories/api_keys.py), what a      *)
(* server makes of its configuration when it starts                        *)
(* (src/app/controlplane/services/identity_service.py), and whom a         *)
(* presented secret is resolved to.  A call commits statement by           *)
(* statement, except where the code opens a transaction; servers start,    *)
(* stop and share the database.                                            *)
(*                                                                         *)
(* An operator named Mut... is a plausible bug in the operation defined    *)
(* below it; it is part of no specification.                               *)
(***************************************************************************)
EXTENDS TenantRoles

CONSTANTS
    Servers,            \* app processes
    Configs,            \* the settings a process may be started with
    Tenants, Workspaces, Keys,      \* ids of rows
    Generated,          \* the ids the API may generate; a setting names any id
    Slugs,
    Secrets,            \* plaintext keys; equal exactly if their hashes are
    Prefixes,           \* what a key is listed under
    KeyPrefix,          \* the prefix of a generated secret
    Roles, Capabilities,    \* what an admin may ask for a key
    Admins,             \* admin calls that can be in progress at once
    Requests            \* requests that can be in progress at once

WorkspaceRows == [tenant : Tenants, slug : Slugs]
KeyRows == [tenant : Tenants, workspace : Workspaces, secret : Secrets,
            prefix : Prefixes,
            role : Roles \cup {"tenant_admin", "tenant_reader"}, status : {"active", "revoked"}]

\* The identity settings: each start may have other ones.
Settings == [enabled : BOOLEAN, secret : Secrets \cup {None}, dsn : BOOLEAN, seed : BOOLEAN,
             tenant : Tenants, tslug : Slugs, workspace : Workspaces, wslug : Slugs,
             key : Keys, prefix : Prefixes]

ASSUME KeysAssumption ==
    /\ Configs \subseteq Settings
    /\ KeyPrefix \in [Secrets -> Prefixes]
    /\ None \notin Tenants \cup Workspaces \cup Keys \cup Slugs \cup Secrets \cup Servers
                   \cup Roles \cup WorkspaceRows \cup KeyRows \cup Settings

VARIABLES
    tenant,     \* tenants: the slug, or None
    workspace,  \* workspaces: tenant and slug, or None
    key,        \* api_keys: tenant, workspace, secret, prefix, role, status; or None
    log,        \* api_key_lifecycle_log: the events recorded of each key
    server,     \* what each process resolves keys with
    admin,      \* what each admin call is doing
    request,    \* what each request was resolved to
    gone,       \* history: keys whose revocation was answered and not undone by a seed
    moved       \* history: workspaces that a seed has taken from one tenant to another

rows == <<tenant, workspace, key, log>>
past == <<gone, moved>>
vars == <<tenant, workspace, key, log, server, admin, request, gone, moved>>

-----------------------------------------------------------------------------
(* Unique constraints: tenants.slug, workspaces (tenant_id, slug),         *)
(* api_keys.key_prefix                                                     *)

SlugFree(slug, id) == \A t \in Tenants \ {id} : tenant[t] # slug
WorkspaceFree(t, slug, id) ==
    \A w \in Workspaces \ {id} : workspace[w] # [tenant |-> t, slug |-> slug]
PrefixFree(prefix, id) ==
    \A k \in Keys \ {id} : key[k] # None => key[k].prefix # prefix
SecretUnused(x) == \A k \in Keys : key[k] # None => key[k].secret # x

KeyRow(t, w, x, prefix, role) ==
    [tenant |-> t, workspace |-> w, secret |-> x, prefix |-> prefix, role |-> role,
     status |-> "active"]

LogRow(k, event) == log' = [log EXCEPT ![k] = @ \cup {event}]

-----------------------------------------------------------------------------
(* Starting and stopping *)

Down == [mode |-> "down", enabled |-> FALSE, static |-> None]
Off == [at |-> "idle", server |-> None, kind |-> "none", slug |-> None, wslug |-> None,
        tenant |-> None, workspace |-> None, key |-> None, role |-> None, caps |-> {}]
Waiting == [at |-> "idle", server |-> None, tenant |-> None, workspace |-> None,
            key |-> None, source |-> "none"]

\* assess_startup_posture, as far as identity goes: with these errors the
\* process does not start.
PostureOk(cf) ==
    /\ cf.enabled => cf.dsn
    /\ cf.seed => cf.secret # None

\* The static resolver is kept only where the repository is not.
StartsAs(s, cf, mode) ==
    server' = [server EXCEPT ![s] =
                 [mode |-> mode, enabled |-> cf.enabled,
                  static |-> IF mode = "static_fallback" THEN cf ELSE None]]

StartDisabled(s, cf) ==
    /\ server[s].mode = "down"
    /\ PostureOk(cf)
    /\ ~cf.enabled \/ cf.secret = None
    /\ StartsAs(s, cf, "disabled")
    /\ UNCHANGED <<rows, admin, request, past>>

CanSeed(cf) ==
    /\ SlugFree(cf.tslug, cf.tenant)
    /\ WorkspaceFree(cf.tenant, cf.wslug, cf.workspace)
    /\ PrefixFree(cf.prefix, cf.key)

\* The row another tenant has of the workspace a seed names: it is re-parented.
Taken(cf) == {w \in {cf.workspace} : workspace[w] # None /\ workspace[w].tenant # cf.tenant}

\* seed_static_identity: one transaction of upserts by id; the workspace
\* becomes the tenant's, the key active and unrevoked, whatever they were.
Seed(cf) ==
    /\ CanSeed(cf)
    /\ tenant' = [tenant EXCEPT ![cf.tenant] = cf.tslug]
    /\ workspace' = [workspace EXCEPT ![cf.workspace] = [tenant |-> cf.tenant, slug |-> cf.wslug]]
    /\ key' = [key EXCEPT ![cf.key] =
                 KeyRow(cf.tenant, cf.workspace, cf.secret, cf.prefix, "tenant_admin")]
    /\ LogRow(cf.key, "created")
    /\ gone' = gone \ {cf.key}
    /\ moved' = moved \cup Taken(cf)

StartSeeding(s, cf) ==
    /\ server[s].mode = "down"
    /\ PostureOk(cf) /\ cf.enabled /\ cf.secret # None /\ cf.seed
    /\ Seed(cf)
    /\ StartsAs(s, cf, "repository")
    /\ UNCHANGED <<admin, request>>

StartUnseeded(s, cf) ==
    /\ server[s].mode = "down"
    /\ PostureOk(cf) /\ cf.enabled /\ cf.secret # None /\ ~cf.seed
    /\ StartsAs(s, cf, "repository")
    /\ UNCHANGED <<rows, admin, request, past>>

\* The database cannot be reached, or the seed meets a unique constraint.
StartFallback(s, cf) ==
    /\ server[s].mode = "down"
    /\ PostureOk(cf) /\ cf.enabled /\ cf.secret # None
    /\ StartsAs(s, cf, "static_fallback")
    /\ UNCHANGED <<rows, admin, request, past>>

\* The calls of the process end with it.
Stop(s) ==
    /\ server[s].mode # "down"
    /\ server' = [server EXCEPT ![s] = Down]
    /\ admin' = [h \in Admins |-> IF admin[h].server = s THEN Off ELSE admin[h]]
    /\ request' = [r \in Requests |-> IF request[r].server = s THEN Waiting ELSE request[r]]
    /\ UNCHANGED <<rows, past>>

\* evaluate_runtime_readiness: GET /ready is answered with 200.
Ready(s) ==
    /\ server[s].mode # "down"
    /\ server[s].enabled => server[s].mode = "repository"

-----------------------------------------------------------------------------
(* Requests: POST /v1/chat/completions and the tenant billing routes *)

Resolvable(k, x) == key[k] # None /\ key[k].secret = x /\ key[k].status = "active"

MutResolveAnyStatus(r, s, x, k) ==
    /\ request[r].at = "idle"
    /\ server[s].mode = "repository"
    /\ key[k] # None /\ key[k].secret = x
    /\ request' = [request EXCEPT ![r] = [at |-> "resolved", server |-> s, source |-> "postgres",
                      tenant |-> key[k].tenant, workspace |-> key[k].workspace, key |-> k]]
    /\ UNCHANGED <<rows, server, admin, past>>

\* resolve_key; without such a row the answer is 401.
ResolveInRepository(r, s, x, k) ==
    /\ request[r].at = "idle"
    /\ server[s].mode = "repository"
    /\ Resolvable(k, x)
    /\ request' = [request EXCEPT ![r] = [at |-> "resolved", server |-> s, source |-> "postgres",
                      tenant |-> key[k].tenant, workspace |-> key[k].workspace, key |-> k]]
    /\ UNCHANGED <<rows, server, admin, past>>

\* StaticKeyResolver: the configured key, whatever the database says of it.
ResolveStatically(r, s, x) ==
    /\ request[r].at = "idle"
    /\ server[s].mode = "static_fallback"
    /\ server[s].static.secret = x
    /\ request' = [request EXCEPT ![r] = [at |-> "resolved", server |-> s, source |-> "static",
                      tenant |-> server[s].static.tenant,
                      workspace |-> server[s].static.workspace, key |-> server[s].static.key]]
    /\ UNCHANGED <<rows, server, admin, past>>

RequestEnds(r) ==
    /\ request[r].at # "idle"
    /\ request' = [request EXCEPT ![r] = Waiting]
    /\ UNCHANGED <<rows, server, admin, past>>

-----------------------------------------------------------------------------
(* Admin calls: without a repository the answer is 503 *)

At(h, step) == admin[h].at = step
Goto(h, step) == admin' = [admin EXCEPT ![h].at = step]
Fail(h) == admin' = [admin EXCEPT ![h] = Off]

Call(h, s, o) ==
    /\ At(h, "idle")
    /\ server[s].mode = "repository"
    /\ admin' = [admin EXCEPT ![h] = o]
    /\ UNCHANGED <<rows, server, request, past>>

CreateTenant(h, s, slug) ==
    Call(h, s, [Off EXCEPT !.at = "find_tenant", !.server = s, !.kind = "tenant", !.slug = slug])
CreateWorkspace(h, s, t, slug) ==
    Call(h, s, [Off EXCEPT !.at = "find_workspace", !.server = s, !.kind = "workspace",
                           !.tenant = t, !.wslug = slug])
IssueKey(h, s, t, w, role, caps) ==
    Call(h, s, [Off EXCEPT !.at = "check_workspace", !.server = s, !.kind = "issue",
                           !.tenant = t, !.workspace = w, !.role = role, !.caps = caps])
Bootstrap(h, s, slug, wslug, role, caps) ==
    Call(h, s, [Off EXCEPT !.at = "look", !.server = s, !.kind = "bootstrap", !.slug = slug,
                           !.wslug = wslug, !.role = role, !.caps = caps])
Revoke(h, s, k) ==
    Call(h, s, [Off EXCEPT !.at = "find_key", !.server = s, !.kind = "revoke", !.key = k])

MutThenSkipsWorkspace(h, next) ==
    IF admin[h].kind = "bootstrap" THEN "check_workspace" ELSE "answered"

\* What follows a step that succeeded: bootstrap goes on with the next
\* repository call, any other call is answered.
Then(h, next) == IF admin[h].kind = "bootstrap" THEN next ELSE "answered"

\* bootstrap_tenant_environment looks first, then create_tenant looks again.
Look(h) ==
    /\ At(h, "look")
    /\ \/ SlugFree(admin[h].slug, None) /\ Goto(h, "find_tenant")
       \/ ~SlugFree(admin[h].slug, None) /\ Fail(h)
    /\ UNCHANGED <<rows, server, request, past>>

FindTenant(h) ==
    /\ At(h, "find_tenant")
    /\ \/ SlugFree(admin[h].slug, None) /\ Goto(h, "insert_tenant")
       \/ ~SlugFree(admin[h].slug, None) /\ Fail(h)
    /\ UNCHANGED <<rows, server, request, past>>

MutInsertTenantNoIndex(h, t) ==
    /\ At(h, "insert_tenant")
    /\ t \in Generated /\ tenant[t] = None
    /\ tenant' = [tenant EXCEPT ![t] = admin[h].slug]
    /\ admin' = [admin EXCEPT ![h].at = Then(h, "find_workspace"), ![h].tenant = t]
    /\ UNCHANGED <<workspace, key, log, server, request, past>>

InsertTenant(h, t) ==
    /\ At(h, "insert_tenant")
    /\ t \in Generated /\ tenant[t] = None
    /\ SlugFree(admin[h].slug, None)
    /\ tenant' = [tenant EXCEPT ![t] = admin[h].slug]
    /\ admin' = [admin EXCEPT ![h].at = Then(h, "find_workspace"), ![h].tenant = t]
    /\ UNCHANGED <<workspace, key, log, server, request, past>>

\* SELECT the tenant, SELECT the slug.
FindWorkspace(h) ==
    /\ At(h, "find_workspace")
    /\ IF tenant[admin[h].tenant] # None /\ WorkspaceFree(admin[h].tenant, admin[h].wslug, None)
         THEN Goto(h, "insert_workspace")
         ELSE Fail(h)
    /\ UNCHANGED <<rows, server, request, past>>

InsertWorkspace(h, w) ==
    /\ At(h, "insert_workspace")
    /\ w \in Generated /\ workspace[w] = None
    /\ WorkspaceFree(admin[h].tenant, admin[h].wslug, None)
    /\ workspace' = [workspace EXCEPT ![w] = [tenant |-> admin[h].tenant, slug |-> admin[h].wslug]]
    /\ admin' = [admin EXCEPT ![h].at = Then(h, "check_workspace"), ![h].workspace = w]
    /\ UNCHANGED <<tenant, key, log, server, request, past>>

MutCheckExistsOnly(h) ==
    /\ At(h, "check_workspace")
    /\ IF workspace[admin[h].workspace] # None THEN Goto(h, "insert_key") ELSE Fail(h)
    /\ UNCHANGED <<rows, server, request, past>>

CheckWorkspace(h) ==
    /\ At(h, "check_workspace")
    /\ LET w == admin[h].workspace
       IN  IF workspace[w] # None /\ workspace[w].tenant = admin[h].tenant
             THEN Goto(h, "insert_key")
             ELSE Fail(h)
    /\ UNCHANGED <<rows, server, request, past>>

\* The key and its log row, in one transaction; the secret is new.
InsertKey(h, k, x) ==
    /\ At(h, "insert_key")
    /\ k \in Generated /\ key[k] = None
    /\ SecretUnused(x) /\ \A cf \in Configs : cf.secret # x
    /\ PrefixFree(KeyPrefix[x], k)
    /\ key' = [key EXCEPT ![k] =
                 KeyRow(admin[h].tenant, admin[h].workspace, x, KeyPrefix[x],
                        DeriveRole(admin[h].role, admin[h].caps))]
    /\ LogRow(k, "created")
    /\ admin' = [admin EXCEPT ![h].at = "answered", ![h].key = k]
    /\ UNCHANGED <<tenant, workspace, server, request, past>>

FindKey(h) ==
    /\ At(h, "find_key")
    /\ IF key[admin[h].key] # None THEN Goto(h, "revoke") ELSE Fail(h)
    /\ UNCHANGED <<rows, server, request, past>>

RevokeKey(h) ==
    /\ At(h, "revoke")
    /\ key' = [key EXCEPT ![admin[h].key].status = "revoked"]
    /\ Goto(h, "log")
    /\ UNCHANGED <<tenant, workspace, log, server, request, past>>

\* The log row, and the answer; a seed may have come between and undone it.
LogRevocation(h) ==
    /\ At(h, "log")
    /\ LogRow(admin[h].key, "revoked")
    /\ Goto(h, "answered")
    /\ gone' = IF key[admin[h].key].status = "revoked" THEN gone \cup {admin[h].key} ELSE gone
    /\ UNCHANGED <<tenant, workspace, key, server, request, moved>>

\* The client has its answer; or a statement fails (a unique constraint, the
\* connection): what was committed stays.
End(h) ==
    /\ ~At(h, "idle")
    /\ Fail(h)
    /\ UNCHANGED <<rows, server, request, past>>

-----------------------------------------------------------------------------

Init ==
    /\ tenant = [t \in Tenants |-> None]
    /\ workspace = [w \in Workspaces |-> None]
    /\ key = [k \in Keys |-> None]
    /\ log = [k \in Keys |-> {}]
    /\ server = [s \in Servers |-> Down]
    /\ admin = [h \in Admins |-> Off]
    /\ request = [r \in Requests |-> Waiting]
    /\ gone = {} /\ moved = {}

ServerStep(s) ==
    \/ \E cf \in Configs : StartDisabled(s, cf) \/ StartSeeding(s, cf)
                           \/ StartUnseeded(s, cf) \/ StartFallback(s, cf)
    \/ Stop(s)

RequestStep(r) ==
    \/ \E s \in Servers, x \in Secrets :
         (\E k \in Keys : ResolveInRepository(r, s, x, k)) \/ ResolveStatically(r, s, x)
    \/ RequestEnds(r)

Ask(h) ==
    \E s \in Servers :
        \/ \E slug \in Slugs : CreateTenant(h, s, slug)
        \/ \E t \in Tenants, slug \in Slugs : CreateWorkspace(h, s, t, slug)
        \/ \E t \in Tenants, w \in Workspaces, role \in Roles, caps \in Capabilities :
             IssueKey(h, s, t, w, role, caps)
        \/ \E slug, wslug \in Slugs, role \in Roles, caps \in Capabilities :
             Bootstrap(h, s, slug, wslug, role, caps)
        \/ \E k \in Keys : Revoke(h, s, k)

AdminStep(h) ==
    \/ Look(h) \/ FindTenant(h) \/ FindWorkspace(h) \/ CheckWorkspace(h)
    \/ \E t \in Tenants : InsertTenant(h, t)
    \/ \E w \in Workspaces : InsertWorkspace(h, w)
    \/ \E k \in Keys, x \in Secrets : InsertKey(h, k, x)
    \/ FindKey(h) \/ RevokeKey(h) \/ LogRevocation(h)
    \/ End(h)

Next ==
    \/ \E s \in Servers : ServerStep(s)
    \/ \E r \in Requests : RequestStep(r)
    \/ \E h \in Admins : Ask(h) \/ AdminStep(h)

Spec == Init /\ [][Next]_vars

-----------------------------------------------------------------------------
(* Properties *)

Steps == {"idle", "look", "find_tenant", "insert_tenant", "find_workspace", "insert_workspace",
          "check_workspace", "insert_key", "find_key", "revoke", "log", "answered"}

AdminType == [at : Steps, server : Servers \cup {None},
              kind : {"none", "tenant", "workspace", "issue", "bootstrap", "revoke"},
              slug : Slugs \cup {None}, wslug : Slugs \cup {None}, tenant : Tenants \cup {None},
              workspace : Workspaces \cup {None}, key : Keys \cup {None},
              role : Roles \cup {None}, caps : Capabilities \cup {{}}]
RequestType == [at : {"idle", "resolved"}, server : Servers \cup {None},
                tenant : Tenants \cup {None}, workspace : Workspaces \cup {None},
                key : Keys \cup {None}, source : {"none", "static", "postgres"}]

Named(o) ==
    /\ o.at \in {"look", "find_tenant", "insert_tenant"} => o.slug # None
    /\ o.at \in {"find_workspace", "insert_workspace"} => o.tenant # None /\ o.wslug # None
    /\ o.at \in {"check_workspace", "insert_key"} =>
          o.tenant # None /\ o.workspace # None /\ o.role # None
    /\ o.at \in {"find_key", "revoke", "log"} => o.key # None
    /\ o.at \in {"revoke", "log"} => key[o.key] # None
    /\ o.kind = "bootstrap" => o.slug # None /\ o.wslug # None /\ o.role # None

\* The tables hold rows of their columns, and a call names the rows its next
\* statement is about.
TypeOK ==
    /\ tenant \in [Tenants -> Slugs \cup {None}]
    /\ workspace \in [Workspaces -> WorkspaceRows \cup {None}]
    /\ key \in [Keys -> KeyRows \cup {None}]
    /\ log \in [Keys -> SUBSET {"created", "revoked"}]
    /\ server \in [Servers -> [mode : {"down", "disabled", "repository", "static_fallback"},
                               enabled : BOOLEAN, static : Configs \cup {None}]]
    /\ admin \in [Admins -> AdminType]
    /\ request \in [Requests -> RequestType]
    /\ gone \subseteq Keys /\ moved \subseteq Workspaces
    /\ \A h \in Admins : Named(admin[h])

\* Once its revocation was answered, a key is resolved by no ready server,
\* whenever it was started, until a start seeds the key again.  A server that
\* fell back to its configured key is not ready; one with identity off is
\* ready but resolves no key: it serves any bearer as nobody.
RevokedIsRefused ==
    [][\A r \in Requests :
          request[r].at = "idle" /\ request'[r].at = "resolved" /\ Ready(request'[r].server) =>
              request'[r].key \notin gone]_vars

\* The ids some setting names: a start with it may write their rows again.
Configured == UNION {{cf.tenant, cf.workspace, cf.key} : cf \in Configs}

\* Two bootstraps of the same names, other creations and restarts may overlap:
\* one that was answered has its tenant, a workspace of that tenant and a key
\* in that workspace, and no other tenant or workspace has the names; unless
\* a setting names the rows that were made, so that a start may take them.
BootstrapWhole ==
    \A h \in Admins :
        /\ At(h, "answered") /\ admin[h].kind = "bootstrap"
        /\ {admin[h].tenant, admin[h].workspace, admin[h].key} \cap Configured = {}
        => LET t == admin[h].tenant
                w == admin[h].workspace
                k == admin[h].key
            IN  /\ tenant[t] = admin[h].slug /\ SlugFree(admin[h].slug, t)
                /\ workspace[w] = [tenant |-> t, slug |-> admin[h].wslug]
                /\ WorkspaceFree(t, admin[h].wslug, w)
                /\ key[k] # None /\ key[k].tenant = t /\ key[k].workspace = w

\* The tenant that a key or a request acts for owns the workspace it acts in;
\* the exception is a workspace that a start with other settings has taken
\* from its tenant: the keys issued there before go on acting for the former
\* one.  Every key has its row in the log, and so has every revocation that
\* was answered.
Owner(t, w) == workspace[w] # None /\ (workspace[w].tenant = t \/ w \in moved)
KeysAccountedFor ==
    /\ \A k \in Keys :
         key[k] # None => Owner(key[k].tenant, key[k].workspace) /\ "created" \in log[k]
    /\ \A k \in gone : "revoked" \in log[k]
    /\ \A r \in Requests :
         request[r].source = "postgres" => Owner(request[r].tenant, request[r].workspace)
=============================================================================
