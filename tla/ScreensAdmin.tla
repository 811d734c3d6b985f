---------------------------- MODULE ScreensAdmin ----------------------------
(***************************************************************************)
(* The screens of administration, and the public status page.              *)
(***************************************************************************)
EXTENDS Screens

-----------------------------------------------------------------------------
(* Users, members and roles                                                *)

InviteModal ==
    Part({Pane("invite", Page)}, {},
         {Write("POST /admin/users", "invite", {"admin-users"}, {"busy", "closes"})})

RoleCell ==
    Part({Pane("user role", Page)}, {},
         {Write("PATCH /admin/users/role", "user role", {"admin-users"},
                {"busy", "shared", "closes"})})

\* One question for the three of them; an error leaves it open.
UserActions ==
    Part({Pane("deactivate user", Page), Pane("reactivate user", Page),
          Pane("remove user", Page)},
         {Polled("admin-users", "GET /admin/users", Page)},
         {Write("POST /admin/users/deactivate", "deactivate user", {"admin-users"},
                {"busy", "shared", "closes"}),
          Write("POST /admin/users/reactivate", "reactivate user", {"admin-users"},
                {"busy", "shared", "closes"}),
          Write("DELETE /admin/users", "remove user", {"admin-users"},
                {"busy", "shared", "closes"})})

UsersAdminPage == Screen("users", "tenant:admin", {InviteModal, RoleCell, UserActions})

\* Once the user exists the dialog shows the password instead of the form.
CreateUserModal ==
    Part({Pane("create user", Page), Pane("user form", "create user")}, {},
         {Write("POST /platform/users", "user form", {"team-members"},
                {"busy", "shared", "closes"})})

MembersSection ==
    Part({Pane("member role", Page)},
         {Polled("team-members", "GET /tenant/members", Page)},
         {Write("POST /tenant/members/revoke", Page, {"team-members"}, {"busy"}),
          Write("PATCH /tenant/members", "member role", {"team-members"},
                {"busy", "shared", "closes"})})

RolesSection ==
    Part({Pane("role form", Page)},
         {Polled("tenant-roles", "GET /tenant/roles", Page)},
         {Write("POST /tenant/roles", "role form", {"tenant-roles"},
                {"busy", "shared", "closes"}),
          Write("POST /tenant/roles/retire", Page, {"tenant-roles"}, {"busy"})})

TeamPage == Screen("team", "tenant:admin", {CreateUserModal, MembersSection, RolesSection})

-----------------------------------------------------------------------------
(* API keys                                                                *)

\* The Enter key creates a key whether or not one is being created.
CreateKeyForm ==
    Part({Pane("key form", Page)}, {},
         {Write("POST /api-keys", "key form", {"api-keys"}, {"shared", "closes"})})

KeyList ==
    Part({}, {Fetched("api-keys", "GET /api-keys", Page)},
         {Write("DELETE /api-keys", Page, {"api-keys"}, {"busy"})})

ApiKeysPage == Screen("apikeys", "tenant:admin", {CreateKeyForm, KeyList})

-----------------------------------------------------------------------------
(* The audit log                                                           *)

AuditPage ==
    Screen("audit", "audit:read",
           {Part({}, {Polled("audit-events", "GET /observability/audit-events", Page)}, {})})

-----------------------------------------------------------------------------
(* Branding and status page                                                *)

\* The Shell itself watches the branding, on every screen (useBranding).
BrandingCard ==
    Part({Pane("edit branding", Page)},
         {Fetched("branding", "GET /platform/branding", Page)},
         {Write("PUT /platform/branding", "edit branding", {"branding"},
                {"busy", "shared", "closes"})})

StatusPageCard ==
    Part({Pane("edit status page", Page)},
         {Fetched("status-page-cfg", "GET /platform/status-page", Page)},
         {Write("PUT /platform/status-page", "edit status page", {"status-page-cfg"},
                {"busy", "shared", "closes"})})

StatusPageComponentsCard ==
    Part({}, {Fetched("status-page-cfg", "GET /platform/status-page", Page)},
         {Write("PUT /platform/status-page", Page, {"status-page-cfg"}, {"busy"})})

PlatformHealth ==
    Part({}, {Polled("health-ready", "GET /health/ready", Page),
              Fetched("health-live", "GET /health", Page),
              Fetched("release-outcomes", "GET /release/outcomes", Page)}, {})

PlatformPage ==
    Screen("platform", Anyone,
           {BrandingCard, StatusPageCard, StatusPageComponentsCard, PlatformHealth})

StatusPublicPage ==
    BareScreen("status", {Part({}, {Polled("public-status", "GET /public/status", Page)}, {})})

-----------------------------------------------------------------------------
(* The platform                                                            *)

CreateOrgModal ==
    Part({Pane("org form", "orgs")}, {},
         {Write("POST /platform/organizations", "org form", {"platform-organizations"},
                {"busy", "closes"})})

OrgsTab ==
    Part({Pane("orgs", Page), Pane("suspend org", "orgs")},
         {Fetched("platform-organizations", "GET /platform/organizations", "orgs")},
         {Write("PATCH /platform/organizations/state", "suspend org",
                {"platform-organizations"}, {"busy", "shared", "closes", "settles"})})

CreateTenantModal ==
    Part({Pane("tenant form", "tenants")}, {},
         {Write("POST /platform/tenants", "tenant form", {"platform-tenants"},
                {"busy", "closes"})})

TenantsTab ==
    Part({Pane("tenants", Page)},
         {Fetched("platform-tenants", "GET /platform/tenants", "tenants"),
          Fetched("platform-organizations", "GET /platform/organizations", "tenants")}, {})

CreateContractModal ==
    Part({Pane("contract form", "contracts")}, {},
         {Write("POST /platform/contracts", "contract form",
                {"platform-commercial-accounts"}, {"busy", "closes"})})

CreateEntitlementModal ==
    Part({Pane("entitlement form", "contracts")}, {},
         {Write("POST /platform/entitlements", "entitlement form",
                {"platform-commercial-accounts"}, {"busy", "closes"})})

ContractsTab ==
    Part({Pane("contracts", Page)},
         {Fetched("platform-commercial-accounts", "GET /platform/commercial-accounts",
                  "contracts")}, {})

HealthTab ==
    Part({Pane("health", Page)},
         {Fetched("platform-organizations", "GET /platform/organizations", "health"),
          Fetched("platform-tenants", "GET /platform/tenants", "health"),
          Fetched("platform-health", "GET /platform/health", "health"),
          Fetched("platform-usage", "GET /platform/usage", "health")}, {})

\* The navigation offers it to administrators of a tenant as well.
PlatformAdminPage ==
    Screen("platform-admin", "tenant:admin",
           {CreateOrgModal, OrgsTab, CreateTenantModal, TenantsTab, CreateContractModal,
            CreateEntitlementModal, ContractsTab, HealthTab})

-----------------------------------------------------------------------------
AdminScreens ==
    {UsersAdminPage, TeamPage, ApiKeysPage, AuditPage, PlatformPage, StatusPublicPage,
     PlatformAdminPage}
=============================================================================
