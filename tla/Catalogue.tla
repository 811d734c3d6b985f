------------------------------ MODULE Catalogue ------------------------------
(***************************************************************************)
(* The web console as a whole: its screens, and what the frame around them *)
(* watches; and where they are known not to fit the API they call.         *)
(***************************************************************************)
EXTENDS ScreensOps, ScreensChange, ScreensAssets, ScreensAdmin

\* The counts in the navigation, each under a key of its own.
NavBadges ==
    {Polled("nav-badge-alerts", "GET /alerting/alerts", Page),
     Polled("nav-badge-incidents", "GET /alerting/application-error-events", Page),
     Polled("nav-badge-changes", "GET /itsm/changes", Page),
     Polled("nav-badge-sla", "GET /sla/breaches", Page),
     Polled("nav-badge-monitoring", "GET /monitoring/sources", Page),
     Polled("nav-badge-maintenance", "GET /maintenance/windows", Page),
     Polled("nav-badge-channels", "GET /alerting/notifications", Page),
     Polled("nav-badge-critical", "GET /alerting/alerts", Page)}

\* Brand and colour, and whether there are clients to show.
useBranding == Fetched("branding", "GET /platform/branding", Page)

MspCheck == Fetched("msp-clients-check", "GET /msp/clients", Page)

ShellReads == NavBadges \cup {useBranding, MspCheck}

AllScreens == OpsScreens \cup ChangeScreens \cup AssetScreens \cup AdminScreens

-----------------------------------------------------------------------------
(* Known misfits                                                           *)

\* Views with a lasting copy: what a success of the write changes is cached
\* under a key that it does not invalidate.
Missed ==
    {<<"PUT /layout", "device-layout">>,
     <<"PUT /itsm/changes", "itsm-changes">>,
     <<"POST /reports/templates/trigger", "report-deliveries">>,
     <<"PATCH /platform/organizations/state", "platform-tenants">>,
     <<"PATCH /platform/organizations/state", "platform-health">>,
     <<"POST /platform/organizations", "platform-health">>,
     <<"POST /platform/tenants", "platform-health">>}

\* Pairs that are as bare of a refresh, but whose view is of something older
\* than what the write adds, or shows no part of what it changes.
Unseen ==
    {<<"POST /itsm/changes", "itsm-rfc">>,
     <<"POST /alerting/escalation-policies", "esc-policy">>,
     <<"DELETE /alerting/escalation-policies", "esc-policy">>,
     <<"POST /sla/policies", "sla-trackers">>,
     <<"POST /sla/policies", "sla-breaches">>,
     <<"PUT /sla/policies", "sla-trackers">>,
     <<"PUT /sla/policies", "sla-breaches">>,
     <<"POST /automation/scripts", "automation-schedules">>,
     <<"POST /reports/templates", "report-schedules">>,
     <<"POST /kb/categories", "kb-articles">>,
     <<"POST /kb/categories", "kb-article">>,
     <<"POST /kb/articles", "kb-article">>}

KnownGaps == Missed \cup Unseen

\* Controls that are shown to the holders of some role template whom the API
\* refuses.
Overoffered ==
    {"POST /sla/policies", "PUT /sla/policies",
     "POST /monitoring/sources",
     "PUT /monitoring/sources/credential", "DELETE /monitoring/sources/credential",
     "PUT /alerting/incident-response-policy",
     "PATCH /alerting/application-error-events",
     "PUT /platform/branding",
     "POST /platform/users",
     "POST /platform/organizations", "PATCH /platform/organizations/state",
     "POST /platform/tenants",
     "POST /platform/contracts", "POST /platform/entitlements"}

\* Shown with monitoring:operate, but the API asks for alerting:operate, which
\* no template separates from it.
AlertingOveroffered ==
    {"POST /alerting/policies", "POST /alerting/policies/effective",
     "POST /alerting/alerts/snooze", "POST /alerting/alerts/unsnooze",
     "POST /alerting/alerts/acknowledge",
     "POST /alerting/escalation-policies", "PATCH /alerting/escalation-policies",
     "DELETE /alerting/escalation-policies",
     "POST /alerting/escalation-policies/steps",
     "DELETE /alerting/escalation-policies/steps",
     "POST /alerting/notification-channels", "DELETE /alerting/notification-channels"}

\* Shown with tenant:admin, but the BFF asks for the role admin.
AdminOveroffered ==
    {"POST /admin/users", "PATCH /admin/users/role",
     "POST /admin/users/deactivate", "POST /admin/users/reactivate",
     "DELETE /admin/users"}

\* Calls no router answers.
Unserved == {"DELETE /alerting/policies", "DELETE /automation/scripts"}

KnownOverreach == Overoffered \cup Unserved

KnownCustomOverreach == AlertingOveroffered \cup AdminOveroffered
=============================================================================
