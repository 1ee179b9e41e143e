----------------------------- MODULE TenantRoles -----------------------------
(***************************************************************************)
(* The roles of tenants' keys and the capabilities they carry              *)
(* (src/app/core/tenant_authorization.py).                                 *)
(***************************************************************************)
CONSTANT None

RoleCapabilities(role) ==
    CASE role = "tenant_admin" -> {"billing:read", "billing:scope:read",
                                   "billing:history:read", "billing:adjustments:read"}
      [] role = "tenant_reader" -> {"billing:read", "billing:scope:read"}
      [] OTHER -> {}

\* A recognized role is kept; otherwise the capabilities may make up a role;
\* otherwise the role is kept as it is, and with none given it is an admin's.
DeriveRole(role, capabilities) ==
    CASE role \in {"tenant_admin", "tenant_reader"} -> role
      [] RoleCapabilities("tenant_admin") \subseteq capabilities -> "tenant_admin"
      [] RoleCapabilities("tenant_reader") \subseteq capabilities -> "tenant_reader"
      [] role # None -> role
      [] OTHER -> "tenant_admin"

\* normalize_tenant_capabilities
AllCapabilities(role, capabilities) == RoleCapabilities(role) \cup capabilities
=============================================================================
