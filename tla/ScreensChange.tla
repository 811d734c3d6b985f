---------------------------- MODULE ScreensChange ----------------------------
(***************************************************************************)
(* The screens about change and service: change requests, SLAs,            *)
(* automation, reports, knowledge, findings, costs and clients.            *)
(***************************************************************************)
EXTENDS Screens

-----------------------------------------------------------------------------
(* Change requests                                                         *)

CreateRFCForm ==
    Part({Pane("rfc form", Page)}, {},
         {Write("POST /itsm/changes", "rfc form", {"itsm-changes"}, {"busy", "closes"})})

\* The state of a task is a menu: it stays usable while a choice is pending.
RFCDetail ==
    Part({PaneBefore("rfc", Page, {"itsm-changes"}), Pane("task form", "rfc"),
          Pane("approval form", "rfc")},
         {Fetched("itsm-rfc", "GET /itsm/change", "rfc")},
         {Write("PUT /itsm/changes", "rfc", {"itsm-rfc"}, {"busy"}),
          Write("POST /itsm/changes/tasks", "task form", {"itsm-rfc"},
                {"busy", "shared", "closes"}),
          Write("PUT /itsm/changes/tasks", "rfc", {"itsm-rfc"}, {}),
          Write("POST /itsm/changes/approvals", "approval form",
                {"itsm-rfc", "itsm-changes"}, {"busy", "shared", "closes"})})

\* The list is watched under an open change request as well.
RFCList == Part({}, {Fetched("itsm-changes", "GET /itsm/changes", Page)}, {})

ITSMPage == Screen("changes", "monitoring:operate", {CreateRFCForm, RFCDetail, RFCList})

-----------------------------------------------------------------------------
(* Service levels                                                          *)

CreatePolicyForm ==
    Part({Pane("sla form", "sla policies")}, {},
         {Write("POST /sla/policies", "sla form", {"sla-policies"}, {"busy", "closes"})})

SLAPolicies ==
    Part({Pane("sla policies", Page)},
         {Fetched("sla-policies", "GET /sla/policies", Page)},
         {Write("PUT /sla/policies", "sla policies", {"sla-policies"},
                {"busy", "shared"})})

SLATabs ==
    Part({Pane("sla active", Page), Pane("sla breached", Page)},
         {Polled("sla-trackers", "GET /sla/trackers", "sla active"),
          Fetched("sla-breaches", "GET /sla/breaches", "sla breached")}, {})

SLAPage ==
    Screen("sla", "monitoring:operate",
           {ForOperators(CreatePolicyForm), ForOperators(SLAPolicies), SLATabs})

-----------------------------------------------------------------------------
(* Automation                                                              *)

CreateScriptForm ==
    Part({Pane("script form", "scripts")}, {},
         {Write("POST /automation/scripts", "script form", {"automation-scripts"},
                {"busy", "closes"})})

AddScheduleForm ==
    Part({Pane("schedule form", "schedules")}, {},
         {Write("POST /automation/schedules", "schedule form", {"automation-schedules"},
                {"busy", "closes"})})

AutomationScripts ==
    Part({Pane("scripts", Page), Pane("delete script", "scripts")},
         {Fetched("automation-scripts", "GET /automation/scripts", Page)},
         {Write("POST /automation/scripts/trigger", "scripts", {"automation-runs"},
                {"busy", "shared"}),
          Write("DELETE /automation/scripts", "delete script", {"automation-scripts"},
                {"busy", "shared", "closes", "settles"})})

AutomationSchedules ==
    Part({Pane("schedules", Page), Pane("delete schedule", "schedules"),
          Pane("runs", Page)},
         {Fetched("automation-schedules", "GET /automation/schedules", "schedules"),
          Polled("automation-runs", "GET /automation/runs", "runs")},
         {Write("DELETE /automation/schedules", "delete schedule",
                {"automation-schedules"}, {"busy", "shared", "closes", "settles"})})

AutomationPage ==
    Screen("automation", "monitoring:operate",
           {ForOperators(CreateScriptForm), ForOperators(AddScheduleForm),
            ForOperators(AutomationScripts), ForOperators(AutomationSchedules)})

-----------------------------------------------------------------------------
(* Reports                                                                 *)

CreateTemplateForm ==
    Part({Pane("template form", "templates")}, {},
         {Write("POST /reports/templates", "template form", {"report-templates"},
                {"busy", "closes"})})

AddReportScheduleForm ==
    Part({Pane("schedule form", "schedules")}, {},
         {Write("POST /reports/schedules", "schedule form", {"report-schedules"},
                {"busy", "closes"})})

\* The Enter key adds a subscriber whether or not one is being added.
ScheduleSubscribersPanel ==
    Part({Pane("subscribers", "schedules"), Pane("email", "subscribers")},
         {Fetched("schedule-subscribers", "GET /reports/schedules/subscribers",
                  "subscribers")},
         {Write("POST /reports/schedules/subscribers", "email", {"schedule-subscribers"},
                {"shared", "closes"}),
          Write("DELETE /reports/schedules/subscribers", "subscribers",
                {"schedule-subscribers"}, {"busy"})})

\* Starting a report refreshes nothing.
ReportTemplates ==
    Part({Pane("templates", Page), Pane("delete template", "templates")},
         {Fetched("report-templates", "GET /reports/templates", Page)},
         {Write("POST /reports/templates/trigger", "templates", {}, {"busy", "shared"}),
          Write("DELETE /reports/templates", "delete template", {"report-templates"},
                {"busy", "shared", "closes", "settles"})})

ReportSchedules ==
    Part({Pane("schedules", Page), Pane("delete schedule", "schedules"),
          Pane("history", Page)},
         {Fetched("report-schedules", "GET /reports/schedules", "schedules"),
          Fetched("report-deliveries", "GET /reports/deliveries", "history")},
         {Write("DELETE /reports/schedules", "delete schedule", {"report-schedules"},
                {"busy", "shared", "closes", "settles"})})

ReportsPage ==
    Screen("reports", "monitoring:operate",
           {CreateTemplateForm, AddReportScheduleForm, ScheduleSubscribersPanel,
            ReportTemplates, ReportSchedules})

-----------------------------------------------------------------------------
(* Knowledge base                                                          *)

\* Save stays usable while it is pending.  The mutations are the page's.
ArticleModal ==
    Part({Pane("new article", Page), Pane("edit article", "article")}, {},
         {Write("POST /kb/articles", "new article", {"kb-articles"}, {"shared", "closes"}),
          Write("PUT /kb/articles", "edit article", {"kb-articles", "kb-article"},
                {"shared", "closes"})})

\* The question is closed before the article is deleted.
ArticleDetailView ==
    Part({Pane("article", Page), Pane("incident", "article"),
          Pane("delete article", "article")}, {},
         {Write("POST /kb/articles/incidents", "incident", {"kb-article"},
                {"busy", "shared", "closes"}),
          Write("DELETE /kb/articles/incidents", "article", {"kb-article"}, {}),
          Write("DELETE /kb/articles", "delete article", {"kb-articles"},
                {"shared", "leaves"})})

KnowledgeBaseLists ==
    Part({}, {Fetched("kb-categories", "GET /kb/categories", Page),
              Fetched("kb-articles", "GET /kb/articles", Page),
              Fetched("kb-article", "GET /kb/article", "article")}, {})

KnowledgeBaseCategories ==
    Part({Pane("category form", Page), Pane("delete category", Page)}, {},
         {Write("POST /kb/categories", "category form", {"kb-categories"},
                {"busy", "shared", "closes"}),
          Write("DELETE /kb/categories", "delete category", {"kb-categories"},
                {"busy", "shared", "closes", "settles"})})

\* Reached by a link of an alert: the navigation does not list it.
KnowledgeBasePage ==
    Screen("kb", Anyone,
           {ArticleModal, ArticleDetailView, KnowledgeBaseLists, KnowledgeBaseCategories})

-----------------------------------------------------------------------------
(* Findings, costs, clients                                                *)

AIOpsPage ==
    Screen("aiops", Anyone,
           {ForOperators(
                Part({}, {Polled("aiops-findings", "GET /aiops/findings", Page)},
                     {Write("POST /aiops/findings/dismiss", Page, {"aiops-findings"},
                            {"busy"})}))})

FinOpsPage ==
    Screen("finops", Anyone,
           {Part({}, {Polled("finops-summary", "GET /finops/summary", Page),
                      Polled("finops-usage", "GET /finops/usage", Page),
                      Fetched("billing-status", "GET /billing/status", Page)}, {})})

ClientDetailPanel ==
    Part({Pane("client", Page)},
         {Polled("msp-client-detail", "GET /msp/clients/detail", "client")}, {})

\* Shown to those who have clients, whatever they may do.
MSPOverviewPage ==
    Screen("msp", Anyone,
           {ClientDetailPanel, Part({}, {Polled("msp-clients", "GET /msp/clients", Page)}, {})})

-----------------------------------------------------------------------------
ChangeScreens ==
    {ITSMPage, SLAPage, AutomationPage, ReportsPage, KnowledgeBasePage, AIOpsPage,
     FinOpsPage, MSPOverviewPage}
=============================================================================
