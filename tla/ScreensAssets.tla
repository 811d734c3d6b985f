---------------------------- MODULE ScreensAssets ----------------------------
(***************************************************************************)
(* The screens about what is watched: the monitoring sources, the          *)
(* inventory they report, certificates and assets, Alertmanager.           *)
(***************************************************************************)
EXTENDS Screens

-----------------------------------------------------------------------------
(* Monitoring sources                                                      *)

AddSourceModal ==
    Part({Pane("add source", Page)}, {},
         {Write("POST /monitoring/sources", "add source", {"sources"},
                {"busy", "closes"})})

RotateTokenModal ==
    Part({Pane("rotate token", Page)}, {},
         {Write("PUT /monitoring/sources/credential", "rotate token", {"sources"},
                {"busy", "closes"})})

\* A revocation that fails leaves the question open.
SourceCard ==
    Part({Pane("revoke token", Page)}, {},
         {Write("POST /monitoring/sources/recheck", Page, {"sources"}, {"busy", "later"}),
          Write("DELETE /monitoring/sources/credential", "revoke token", {"sources"},
                {"busy", "shared", "closes"})})

SourceList == Part({}, {Polled("sources", "GET /monitoring/sources", Page)}, {})

MonitoringPage ==
    Screen("monitoring", Anyone, {AddSourceModal, RotateTokenModal, SourceCard, SourceList})

-----------------------------------------------------------------------------
(* A device                                                                *)

\* The layout is fetched once and kept for good; a change is saved in the
\* background, without a word of it to the cached layout.
DeviceLayout ==
    Part({Pane("device", Page)},
         {Kept("device-layout", "GET /layout", "device")},
         {Write("PUT /layout", "device", {}, {})})

DeviceQueries ==
    Part({}, {Fetched("resource-detail", "GET /monitoring/resource", "device"),
              Polled("resource-current", "GET /monitoring/resource/current", "device"),
              Polled("resource-problems", "GET /monitoring/resource/problems", "device")}, {})

\* The curve of one metric, shared by every chart that draws it.
MetricCurve(pane) ==
    {Fetched("metric-history", "GET /monitoring/metrics/history", pane)}

MetricChart(pane) == Part({}, MetricCurve(pane), {})

DualLineChart(pane) == Part({}, MetricCurve(pane), {})

\* Only the card that is expanded draws its chart.
MetricCard == Part({Pane("metric", "device")}, MetricCurve("metric"), {})

\* Processor, memory, disk and network, each as far as its metric was found.
DeviceOverview ==
    Part({Pane("overview", "device")},
         MetricChart("overview").reads \cup DualLineChart("overview").reads, {})

-----------------------------------------------------------------------------
(* Inventory                                                               *)

\* The lists are watched under an open device as well.
InventoryLists ==
    Part({}, {Fetched("sources", "GET /monitoring/sources", Page),
              Polled("resources", "GET /monitoring/resources", Page)}, {})

InventoryPage ==
    Screen("inventory", Anyone,
           {InventoryLists, DeviceLayout, DeviceQueries, MetricCard, DeviceOverview})

-----------------------------------------------------------------------------
(* Certificates and assets                                                 *)

CertsTab ==
    Part({Pane("certs", Page), Pane("cert form", "certs"), Pane("remove cert", "certs")},
         {Polled("infra-certs", "GET /infra/certs", "certs")},
         {Write("POST /infra/certs", "cert form", {"infra-certs"},
                {"busy", "shared", "closes"}),
          Write("DELETE /infra/certs", "remove cert", {"infra-certs"},
                {"busy", "shared", "closes", "settles"}),
          Write("POST /infra/certs/recheck", "certs", {"infra-certs"}, {"busy", "later"})})

AssetsList ==
    Part({Pane("assets", Page), Pane("asset form", "assets")},
         {Fetched("infra-assets", "GET /infra/assets", "assets")},
         {Write("POST /infra/assets", "asset form", {"infra-assets"},
                {"busy", "shared", "closes"})})

\* An error keeps the edited asset open, and closes the question.
AssetEditor ==
    Part({Pane("edit asset", "assets"), Pane("remove asset", "assets")}, {},
         {Write("PUT /infra/assets", "edit asset", {"infra-assets"},
                {"busy", "shared", "closes"}),
          Write("DELETE /infra/assets", "remove asset", {"infra-assets"},
                {"busy", "shared", "closes", "settles"})})

InfraPage == Screen("infra", "monitoring:operate", {CertsTab, AssetsList, AssetEditor})

-----------------------------------------------------------------------------
(* Alertmanager                                                            *)

EventsPanel ==
    Part({Pane("source", Page)},
         {Polled("amgr-events", "GET /sources/alertmanager/events", "source")}, {})

CreateSourceForm ==
    Part({Pane("source form", Page)}, {},
         {Write("POST /sources/alertmanager", "source form", {"amgr-sources"},
                {"busy", "shared", "closes"})})

\* An error does not close the question of whether to disable a source.
AlertmanagerSources ==
    Part({Pane("disable source", "source")},
         {Fetched("amgr-sources", "GET /sources/alertmanager", Page)},
         {Write("POST /sources/alertmanager/rotate-token", "source", {},
                {"busy", "shared"}),
          Write("DELETE /sources/alertmanager", "disable source", {"amgr-sources"},
                {"busy", "shared", "closes"})})

AlertmanagerPage ==
    Screen("alertmanager", "monitoring:operate",
           {EventsPanel, CreateSourceForm, AlertmanagerSources})

-----------------------------------------------------------------------------
AssetScreens == {MonitoringPage, InventoryPage, InfraPage, AlertmanagerPage}
=============================================================================
