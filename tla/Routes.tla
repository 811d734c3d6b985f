------------------------------- MODULE Routes -------------------------------
(***************************************************************************)
(* The calls the web console makes, as the API and the BFF in front of it  *)
(* answer them: the permission a call needs, the tables it reads or        *)
(* changes, and whether its answer has a body.  A call is named by its     *)
(* method and path, without the prefix /api/v1 and without identifiers.  A *)
(* call that is not in Served reaches no route.                            *)
(***************************************************************************)
EXTENDS FiniteSets

Route(call, needs, tables, body) ==
    [call |-> call, needs |-> needs, tables |-> tables, body |-> body]

\* A call answered with a body.
Answers(call, needs, tables) == Route(call, needs, tables, TRUE)

\* 204: done, and an answer without a body.
AnswersEmpty(call, needs, tables) == Route(call, needs, tables, FALSE)

-----------------------------------------------------------------------------
(* Who may call                                                            *)

Anyone == "anyone"          \* any session bound to the tenant
PlatformAdmin == "platform" \* a principal of the kind platform_admin_principal
AdminRole == "admin role"   \* the role admin itself, whatever it permits

Permissions == {"tenant:read", "tenant:admin", "monitoring:read", "monitoring:operate",
                "alerting:read", "alerting:operate", "observability:read", "audit:read"}

ReadAll == {"tenant:read", "monitoring:read", "alerting:read", "observability:read"}

\* What the role templates give.
RolePermissions ==
    [admin    |-> Permissions \cup {AdminRole},
     operator |-> Permissions \ {"tenant:admin"},
     viewer   |-> ReadAll,
     auditor  |-> (ReadAll \ {"alerting:read"}) \cup {"audit:read"}]

\* A platform administrator has every permission in every tenant.
PlatformRights(granted) == granted \cup Permissions \cup {PlatformAdmin}

\* A template alone, and the platform administrator who is admin as well.
Templates ==
    {RolePermissions[r] : r \in DOMAIN RolePermissions}
        \cup {PlatformRights(RolePermissions.admin)}

\* A custom role has any of the permissions, and a delegated grant may add any
\* to a role: all that a member of a tenant may come to hold.
Grants == Templates \cup (SUBSET Permissions) \cup {PlatformRights({})}

\* Either of two permissions will do.
OperateOrAdmin == "monitoring:operate or tenant:admin"

AnyOf(needs) ==
    IF needs = OperateOrAdmin THEN {"monitoring:operate", "tenant:admin"} ELSE {needs}

Holds(rights, needs) == needs = Anyone \/ AnyOf(needs) \cap rights # {}

-----------------------------------------------------------------------------
(* The routers                                                             *)

AiopsRouter ==
    {Answers("GET /aiops/findings", Anyone, {"finding"}),
     Answers("POST /aiops/findings/dismiss", Anyone, {"finding"})}

AlertPolicyRouter ==
    {Answers("GET /alerting/policies", "alerting:read", {"alert_policy"}),
     Answers("POST /alerting/policies", "alerting:operate", {"alert_policy"}),
     Answers("POST /alerting/policies/effective", "alerting:operate", {"alert_policy"})}

AlertRouter ==
    {Answers("GET /alerting/alerts", "alerting:read", {"alert", "alert_snooze"}),
     Answers("GET /alerting/alert", "alerting:read", {"alert", "alert_transition"}),
     Answers("POST /alerting/alerts/snooze", "alerting:operate", {"alert_snooze"}),
     Answers("POST /alerting/alerts/unsnooze", "alerting:operate", {"alert_snooze"}),
     Answers("POST /alerting/alerts/acknowledge", "alerting:operate", {"alert"})}

\* The list of sources does not show the token that a rotation replaces.
AlertmanagerRouter ==
    {Answers("GET /sources/alertmanager", Anyone, {"alertmanager_source"}),
     Answers("POST /sources/alertmanager", Anyone, {"alertmanager_source"}),
     Answers("POST /sources/alertmanager/rotate-token", Anyone, {"alertmanager_token"}),
     AnswersEmpty("DELETE /sources/alertmanager", Anyone, {"alertmanager_source"}),
     Answers("GET /sources/alertmanager/events", Anyone, {"alertmanager_event"})}

ApiKeyRouter ==
    {Answers("GET /api-keys", Anyone, {"api_key"}),
     Answers("POST /api-keys", "tenant:admin", {"api_key"}),
     Answers("DELETE /api-keys", "tenant:admin", {"api_key"})}

AutomationRouter ==
    {Answers("GET /automation/scripts", Anyone, {"automation_script"}),
     Answers("POST /automation/scripts", OperateOrAdmin, {"automation_script"}),
     Answers("POST /automation/scripts/trigger", OperateOrAdmin, {"automation_run"}),
     Answers("GET /automation/schedules", Anyone,
             {"automation_schedule", "automation_script"}),
     Answers("POST /automation/schedules", OperateOrAdmin, {"automation_schedule"}),
     AnswersEmpty("DELETE /automation/schedules", OperateOrAdmin,
                  {"automation_schedule"}),
     Answers("GET /automation/runs", Anyone, {"automation_run"})}

\* A change's own row and its tasks and approvals are read together.
ChangeRouter ==
    {Answers("GET /itsm/changes", Anyone, {"change_request"}),
     Answers("POST /itsm/changes", Anyone, {"change_request"}),
     Answers("GET /itsm/change", Anyone,
             {"change_request", "change_task", "change_approval"}),
     Answers("PUT /itsm/changes", Anyone, {"change_request"}),
     Answers("POST /itsm/changes/tasks", Anyone, {"change_task"}),
     Answers("PUT /itsm/changes/tasks", Anyone, {"change_task"}),
     Answers("POST /itsm/changes/approvals", Anyone, {"change_request", "change_approval"})}

EscalationRouter ==
    {Answers("GET /alerting/escalation-policies", "alerting:read",
             {"escalation_policy", "policy_link"}),
     Answers("PATCH /alerting/escalation-policies", "alerting:operate", {"policy_link"}),
     Answers("POST /alerting/escalation-policies", "alerting:operate", {"escalation_policy"}),
     Answers("DELETE /alerting/escalation-policies", "alerting:operate",
             {"escalation_policy"}),
     Answers("GET /alerting/escalation-policy", "alerting:read",
             {"escalation_policy", "escalation_step"}),
     Answers("POST /alerting/escalation-policies/steps", "alerting:operate",
             {"escalation_step"}),
     Answers("DELETE /alerting/escalation-policies/steps", "alerting:operate",
             {"escalation_step"})}

FinopsRouter ==
    {Answers("GET /finops/summary", Anyone,
             {"commercial_account", "contract", "entitlement", "usage_meter"}),
     Answers("GET /finops/usage", Anyone, {"usage_meter"}),
     Answers("GET /billing/status", Anyone, {"billing"})}

IncidentRouter ==
    {Answers("GET /alerting/incident-response-policy", "alerting:read", {"ir_policy"}),
     Answers("PUT /alerting/incident-response-policy", "alerting:operate", {"ir_policy"}),
     Answers("GET /alerting/application-error-events", "alerting:read", {"error_event"}),
     Answers("PATCH /alerting/application-error-events", "alerting:operate",
             {"error_event"})}

InfraRouter ==
    {Answers("GET /infra/certs", Anyone, {"cert_tracker"}),
     Answers("POST /infra/certs", Anyone, {"cert_tracker"}),
     Answers("POST /infra/certs/recheck", Anyone, {"cert_tracker"}),
     AnswersEmpty("DELETE /infra/certs", Anyone, {"cert_tracker"}),
     Answers("GET /infra/assets", Anyone, {"infra_asset"}),
     Answers("POST /infra/assets", Anyone, {"infra_asset"}),
     Answers("PUT /infra/assets", Anyone, {"infra_asset"}),
     AnswersEmpty("DELETE /infra/assets", Anyone, {"infra_asset"})}

KnowledgeRouter ==
    {Answers("GET /kb/categories", Anyone, {"kb_category"}),
     Answers("POST /kb/categories", Anyone, {"kb_category"}),
     AnswersEmpty("DELETE /kb/categories", Anyone, {"kb_category"}),
     Answers("GET /kb/articles", Anyone, {"kb_article", "kb_category"}),
     Answers("GET /kb/article", Anyone, {"kb_article", "kb_article_incident", "kb_category"}),
     Answers("POST /kb/articles", Anyone, {"kb_article"}),
     Answers("PUT /kb/articles", Anyone, {"kb_article"}),
     AnswersEmpty("DELETE /kb/articles", Anyone, {"kb_article"}),
     Answers("POST /kb/articles/incidents", Anyone, {"kb_article_incident"}),
     AnswersEmpty("DELETE /kb/articles/incidents", Anyone, {"kb_article_incident"})}

MaintenanceRouter ==
    {Answers("GET /maintenance/windows", Anyone, {"maintenance_window"}),
     Answers("POST /maintenance/windows", OperateOrAdmin, {"maintenance_window"}),
     Answers("DELETE /maintenance/windows", OperateOrAdmin, {"maintenance_window"})}

\* A new token, a withdrawn one and a recheck change no row of the source:
\* a worker does, when it next validates the source.
MonitoringRouter ==
    {Answers("GET /monitoring/sources", "monitoring:read", {"monitoring_source"}),
     Answers("POST /monitoring/sources", "monitoring:operate", {"monitoring_source"}),
     Answers("POST /monitoring/sources/recheck", Anyone, {"sync_operation"}),
     Answers("PUT /monitoring/sources/credential", "monitoring:operate",
             {"credential", "sync_operation"}),
     Answers("DELETE /monitoring/sources/credential", "monitoring:operate", {"credential"}),
     Answers("GET /monitoring/resources", "monitoring:read", {"resource"}),
     Answers("GET /monitoring/resource", "monitoring:read", {"resource"}),
     Answers("GET /monitoring/resource/current", "monitoring:read", {"metric_state"}),
     Answers("GET /monitoring/resource/problems", "monitoring:read", {"problem"}),
     Answers("GET /monitoring/metrics/history", "monitoring:read", {"metric_history"}),
     Answers("GET /layout", Anyone, {"user_layout"}),
     Answers("PUT /layout", Anyone, {"user_layout"})}

MspRouter ==
    {Answers("GET /msp/clients", Anyone, {"alert", "monitoring_source"}),
     Answers("GET /msp/clients/detail", Anyone, {"alert", "monitoring_source"})}

ChannelRouter ==
    {Answers("GET /alerting/notifications", "alerting:read", {"notification_intent"}),
     Answers("GET /alerting/notification-channels", "alerting:read", {"destination"}),
     Answers("POST /alerting/notification-channels", "alerting:operate", {"destination"}),
     Answers("DELETE /alerting/notification-channels", "alerting:operate", {"destination"})}

AuditRouter ==
    {Answers("GET /observability/audit-events", "observability:read", {"audit_event"})}

PlatformRouter ==
    {Answers("GET /platform/organizations", PlatformAdmin, {"organization"}),
     Answers("POST /platform/organizations", PlatformAdmin, {"organization"}),
     Answers("PATCH /platform/organizations/state", PlatformAdmin,
             {"organization", "tenant"}),
     Answers("GET /platform/tenants", PlatformAdmin, {"tenant"}),
     Answers("POST /platform/tenants", PlatformAdmin, {"tenant"}),
     Answers("GET /platform/commercial-accounts", PlatformAdmin, {"commercial_account"}),
     Answers("POST /platform/contracts", PlatformAdmin, {"contract"}),
     Answers("POST /platform/entitlements", PlatformAdmin, {"entitlement"}),
     Answers("GET /platform/health", PlatformAdmin, {"organization", "tenant", "principal"}),
     Answers("GET /platform/usage", PlatformAdmin, {"usage_meter"}),
     Answers("POST /platform/users", PlatformAdmin, {"principal", "membership"})}

BrandingRouter ==
    {Answers("GET /platform/branding", Anyone, {"tenant_branding"}),
     Answers("PUT /platform/branding", "tenant:admin", {"tenant_branding"}),
     Answers("GET /platform/status-page", Anyone, {"tenant_status_config"}),
     Answers("PUT /platform/status-page", Anyone, {"tenant_status_config"}),
     Answers("GET /health/ready", Anyone, {"process"}),
     Answers("GET /health", Anyone, {"process"}),
     Answers("GET /release/outcomes", Anyone, {"release"})}

ReportRouter ==
    {Answers("GET /reports/templates", Anyone, {"report_template"}),
     Answers("POST /reports/templates", OperateOrAdmin, {"report_template"}),
     AnswersEmpty("DELETE /reports/templates", OperateOrAdmin, {"report_template"}),
     Answers("POST /reports/templates/trigger", OperateOrAdmin, {"report_delivery"}),
     Answers("GET /reports/schedules", Anyone, {"report_schedule", "report_template"}),
     Answers("POST /reports/schedules", OperateOrAdmin, {"report_schedule"}),
     AnswersEmpty("DELETE /reports/schedules", OperateOrAdmin, {"report_schedule"}),
     Answers("GET /reports/schedules/subscribers", Anyone, {"delivery_email"}),
     Answers("POST /reports/schedules/subscribers", OperateOrAdmin, {"delivery_email"}),
     AnswersEmpty("DELETE /reports/schedules/subscribers", OperateOrAdmin,
                  {"delivery_email"}),
     Answers("GET /reports/deliveries", Anyone, {"report_delivery"})}

SlaRouter ==
    {Answers("GET /sla/policies", Anyone, {"sla_policy"}),
     Answers("POST /sla/policies", "tenant:admin", {"sla_policy"}),
     Answers("PUT /sla/policies", "tenant:admin", {"sla_policy"}),
     Answers("GET /sla/trackers", Anyone, {"sla_tracker", "sla_policy"}),
     Answers("GET /sla/breaches", Anyone, {"sla_breach", "sla_policy"})}

TenantRouter ==
    {Answers("GET /tenant/members", "tenant:read", {"membership"}),
     Answers("PATCH /tenant/members", "tenant:admin", {"membership"}),
     Answers("POST /tenant/members/revoke", "tenant:admin", {"membership"}),
     Answers("GET /tenant/roles", "tenant:read", {"tenant_role"}),
     Answers("POST /tenant/roles", "tenant:admin", {"tenant_role"}),
     Answers("POST /tenant/roles/retire", "tenant:admin", {"tenant_role"})}

\* Served by the BFF itself, which asks for the role and not for a permission.
UserRouter ==
    {Answers("GET /admin/users", AdminRole, {"admin_user"}),
     Answers("POST /admin/users", AdminRole, {"admin_user"}),
     Answers("PATCH /admin/users/role", AdminRole, {"admin_user"}),
     Answers("POST /admin/users/deactivate", AdminRole, {"admin_user"}),
     Answers("POST /admin/users/reactivate", AdminRole, {"admin_user"}),
     Answers("DELETE /admin/users", AdminRole, {"admin_user"}),
     Answers("GET /public/status", Anyone, {"tenant_status_config", "alert"})}

Served ==
    UNION {AiopsRouter, AlertPolicyRouter, AlertRouter, AlertmanagerRouter, ApiKeyRouter,
           AutomationRouter, ChangeRouter, EscalationRouter, FinopsRouter, IncidentRouter,
           InfraRouter, KnowledgeRouter, MaintenanceRouter, MonitoringRouter, MspRouter,
           ChannelRouter, AuditRouter, PlatformRouter, BrandingRouter, ReportRouter,
           SlaRouter, TenantRouter, UserRouter}

RouteOf == [call \in {r.call : r \in Served} |-> CHOOSE r \in Served : r.call = call]

Routed(call) == call \in DOMAIN RouteOf

\* Whether carrying out a write shows in the answer to a query.
ShowsIn(write, query) ==
    /\ Routed(write)
    /\ RouteOf[write].tables \cap RouteOf[query].tables # {}
=============================================================================
