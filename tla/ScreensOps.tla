----------------------------- MODULE ScreensOps -----------------------------
(***************************************************************************)
(* The screens of daily operation: alerts and the rules that raise them,   *)
(* incidents, maintenance, and where notifications go.                     *)
(***************************************************************************)
EXTENDS Screens

-----------------------------------------------------------------------------
(* The NOC.  Its alerts and sources are no queries: see Shell.         *)

NOCDashboard ==
    Part({}, {Polled("maintenance-windows", "GET /maintenance/windows", Page)}, {})

-----------------------------------------------------------------------------
(* Alerts                                                                  *)

\* The menu of durations closes as one is chosen.
SnoozeControl ==
    Part({Pane("snooze", Page)}, {},
         {Write("POST /alerting/alerts/snooze", "snooze", {"alerts"},
                {"busy", "shared", "leaves"}),
          Write("POST /alerting/alerts/unsnooze", Page, {"alerts"}, {"busy"})})

\* The list is watched under an open alert as well.
AlertsList == Part({}, {Polled("alerts", "GET /alerting/alerts", Page)}, {})

AlertDetailActions ==
    ForOperators(
        Part({Pane("alert", Page)},
             {Fetched("alert", "GET /alerting/alert", "alert")},
             {Write("POST /alerting/alerts/acknowledge", "alert", {"alert", "alerts"},
                    {"busy"}),
              Write("POST /itsm/changes", "alert", {"itsm-changes"}, {"busy"})}))

\* A note is a change request of its own; nothing on this screen shows it.
AlertDetailNotes ==
    Part({Pane("note", "alert")},
         {Fetched("kb-search", "GET /kb/articles", "alert")},
         {Write("POST /itsm/changes", "note", {}, {"busy", "shared", "closes"})})

AlertsPage ==
    Screen("alerts", Anyone,
           {AlertsList, ForOperators(SnoozeControl), AlertDetailActions, AlertDetailNotes})

-----------------------------------------------------------------------------
(* Alert policies                                                          *)

PolicyForm ==
    Part({Pane("policy form", Page)}, {},
         {Write("POST /alerting/policies", "policy form", {"alert-policies"},
                {"busy", "closes"})})

AlertPolicyList ==
    Part({Pane("delete policy", Page)},
         {Polled("alert-policies", "GET /alerting/policies", Page),
          Fetched("monitoring-sources-for-policy", "GET /monitoring/sources", Page)},
         {Write("POST /alerting/policies/effective", Page, {"alert-policies"}, {"busy"}),
          Write("DELETE /alerting/policies", "delete policy", {"alert-policies"},
                {"busy", "shared", "closes", "settles"})})

AlertPoliciesPage ==
    Screen("policies", Anyone, {ForOperators(PolicyForm), ForOperators(AlertPolicyList)})

-----------------------------------------------------------------------------
(* Incident response                                                       *)

EventDetail ==
    Part({Pane("event", "events tab"), Pane("assign", "event")}, {},
         {Write("POST /itsm/changes", "event", {"itsm-changes"}, {"busy"}),
          Write("PATCH /alerting/application-error-events", "event", {"ir-events"},
                {"busy", "closes"}),
          Write("POST /itsm/changes", "assign", {"itsm-changes"},
                {"busy", "shared", "closes"})})

EventsTab ==
    Part({Pane("events tab", Page)},
         {Polled("ir-events", "GET /alerting/application-error-events", "events tab")}, {})

\* The channels that NotificationChannelsPage lists, under a key of its own.
ChannelPicker ==
    Part({}, {Fetched("notif-channels", "GET /alerting/notification-channels",
                      "policy tab")}, {})

ScriptPicker ==
    Part({}, {Fetched("automation-scripts", "GET /automation/scripts", "policy tab")}, {})

PolicyTab ==
    Part({Pane("policy tab", Page), Pane("policy changes", "policy tab")},
         {Fetched("ir-policy", "GET /alerting/incident-response-policy", "policy tab")},
         {Write("PUT /alerting/incident-response-policy", "policy changes", {"ir-policy"},
                {"busy", "shared", "closes"})})

IncidentResponsePage ==
    Screen("incidents", Anyone,
           {EventDetail, EventsTab, ChannelPicker, ScriptPicker, PolicyTab})

-----------------------------------------------------------------------------
(* Maintenance windows                                                     *)

WindowCard ==
    Part({}, {},
         {Write("DELETE /maintenance/windows", Page, {"maintenance-windows"}, {"busy"})})

MaintenanceForm ==
    Part({Pane("window form", Page)},
         {Polled("maintenance-windows", "GET /maintenance/windows", Page)},
         {Write("POST /maintenance/windows", "window form", {"maintenance-windows"},
                {"busy", "shared", "closes"})})

MaintenancePage ==
    Screen("maintenance", "monitoring:operate",
           {ForOperators(MaintenanceForm), ForOperators(WindowCard)})

-----------------------------------------------------------------------------
(* Notification channels                                                   *)

AddDestinationForm ==
    Part({Pane("destination form", Page)}, {},
         {Write("POST /alerting/notification-channels", "destination form",
                {"notification-channels"}, {"busy", "closes"})})

\* An error leaves the question open.
DestinationList ==
    Part({Pane("delete destination", Page)},
         {Fetched("notification-channels", "GET /alerting/notification-channels", Page)},
         {Write("DELETE /alerting/notification-channels", "delete destination",
                {"notification-channels"}, {"busy", "shared", "closes"})})

NotificationChannelsPage ==
    Screen("channels", "monitoring:operate",
           {ForOperators(AddDestinationForm), ForOperators(DestinationList)})

-----------------------------------------------------------------------------
(* Escalation                                                              *)

AddStepForm ==
    Part({Pane("step form", "escalation")}, {},
         {Write("POST /alerting/escalation-policies/steps", "step form", {"esc-policy"},
                {"busy", "closes"})})

LinkAlertPolicyModal ==
    Part({Pane("link", Page)},
         {Fetched("alert-policies", "GET /alerting/policies", "link")},
         {Write("PATCH /alerting/escalation-policies", "link", {"esc-policies"},
                {"busy", "closes"})})

PolicyDetailView ==
    Part({Pane("escalation", Page), Pane("delete step", "escalation")},
         {Fetched("esc-policy", "GET /alerting/escalation-policy", "escalation")},
         {Write("DELETE /alerting/escalation-policies/steps", "delete step", {"esc-policy"},
                {"busy", "shared", "closes", "settles"})})

EscalationList ==
    Part({Pane("escalation form", Page), Pane("delete escalation", Page)},
         {Fetched("esc-policies", "GET /alerting/escalation-policies", Page)},
         {Write("POST /alerting/escalation-policies", "escalation form", {"esc-policies"},
                {"busy", "shared", "closes"}),
          Write("DELETE /alerting/escalation-policies", "delete escalation",
                {"esc-policies"}, {"busy", "shared", "closes", "settles"})})

EscalationPage ==
    Screen("escalation", "monitoring:operate",
           {ForOperators(AddStepForm), ForOperators(LinkAlertPolicyModal),
            ForOperators(PolicyDetailView), ForOperators(EscalationList)})

-----------------------------------------------------------------------------
OpsScreens ==
    {Screen("noc", Anyone, {NOCDashboard}), AlertsPage, AlertPoliciesPage,
     IncidentResponsePage, MaintenancePage, NotificationChannelsPage, EscalationPage}
=============================================================================
