------------------------------ MODULE WebPages -------------------------------
(***************************************************************************)
(* What the pages of the web client show and change: their queries, the    *)
(* requests they make, and the cached answers they then invalidate.        *)
(*                                                                         *)
(* A request is the set of what its answer shows or what it changes.  Of   *)
(* documents merely named in an answer nothing is said.                    *)
(***************************************************************************)
EXTENDS ApiValues

api_listClients       == {"clients"}
api_getClient         == {"clients"}
api_createClient      == {"clients"}
api_updateClient      == {"clients"}
api_listContacts      == {"contacts"}
api_createContact     == {"contacts"}
api_updateContact     == {"contacts"}
api_deleteContact     == {"contacts"}
api_listDevices       == {"devices"}
api_getDevice         == {"devices", "metrics", "agents", "activity"}
api_getDeviceMetrics  == {"metrics"}
api_createDevice      == {"devices"}
api_updateDevice      == {"devices"}
api_listDeviceGroups  == {"device-groups"}
api_listAlertRules    == {"alert-rules"}
api_createAlertRule   == {"alert-rules"}
api_updateAlertRule   == {"alert-rules"}
api_deleteAlertRule   == {"alert-rules"}
api_listAlerts        == {"alerts"}
api_acknowledgeAlert  == {"alerts"}
api_resolveAlert      == {"alerts"}
api_createTicketFromAlert == {"alerts", "tickets"}   \* the alert keeps the ticket's id
api_listTickets       == {"tickets"}
api_getTicket         == {"tickets"}
api_createTicket      == {"tickets"}
api_assignTicket      == {"tickets"}
api_resolveTicket     == {"tickets"}
api_closeTicket       == {"tickets"}
api_reopenTicket      == {"tickets"}
api_listTicketComments == {"ticket-comments"}
api_addTicketComment  == {"ticket-comments", "tickets"}   \* a first response is stamped
api_listSlaPolicies   == {"sla-policies"}
api_listNotifications == {"notifications"}
api_markNotificationRead     == {"notifications"}
api_markAllNotificationsRead == {"notifications"}
api_listScripts       == {"scripts"}
api_createScript      == {"scripts"}
api_updateScript      == {"scripts"}
api_deleteScript      == {"scripts"}
api_runScriptOnDevice == {"script-executions"}
api_runScriptOnGroup  == {"script-executions"}
api_scheduleScript    == {"scheduled-jobs"}
api_listScriptExecutions    == {"script-executions"}
api_listScheduledScriptJobs == {"scheduled-jobs"}
api_listAutomations   == {"automations"}
api_createAutomation  == {"automations"}
api_updateAutomation  == {"automations"}
api_deleteAutomation  == {"automations"}
api_listAutomationLogs == {"automation-logs"}
api_listUsers         == {"users"}
api_getDashboardOverview == {"clients", "contacts", "devices", "metrics", "alerts", "tickets",
                             "script-executions", "automation-logs"}
api_getMe             == {"me"}
api_listKnowledgeBaseArticles  == {"articles"}
api_getKnowledgeBaseArticle    == {"articles"}
api_createKnowledgeBaseArticle == {"articles"}
api_updateKnowledgeBaseArticle == {"articles"}
api_deleteKnowledgeBaseArticle == {"articles"}
api_listContracts     == {"contracts"}
api_createContract    == {"contracts"}
api_listInvoices      == {"invoices"}
api_createInvoice     == {"invoices"}
api_listSubscriptions == {"subscriptions"}
api_createSubscription == {"subscriptions"}
api_billingMonthlySummary == {"invoices", "subscriptions"}
api_listAuditLogs     == {"audit-logs"}
api_listPatchPolicies == {"patch-policies"}
api_createPatchPolicy == {"patch-policies"}
api_listPatches       == {"patches"}
api_simulatePatchScan == {"patches"}
api_approvePatch      == {"patches"}
api_schedulePatch     == {"patches"}
api_executePatch      == {"patches"}
api_listRemoteSessions  == {"remote-sessions"}
api_getRemoteSession    == {"remote-sessions"}
api_createRemoteSession == {"remote-sessions"}
api_startRemoteSession  == {"remote-sessions"}
api_endRemoteSession    == {"remote-sessions"}
api_updateRemoteSessionInteractionMode == {"remote-sessions"}
api_listIntegrations  == {"integrations"}
api_createIntegration == {"integrations"}
api_deleteIntegration == {"integrations"}
api_testWebhookIntegration == {"integrations"}   \* a delivery or its error is kept
api_testEmailIntegration   == {"integrations"}
api_listSettings      == {"settings"}
api_upsertSetting     == {"settings"}
api_listApiKeys       == {"api-keys"}
api_createApiKey      == {"api-keys"}
api_revokeApiKey      == {"api-keys"}
api_reportTicketsByPeriod      == {"tickets"}
api_reportAlertsBySeverity     == {"alerts"}
api_reportAssetsByClient       == {"clients", "devices", "contacts"}
api_reportSlaCompliance        == {"tickets"}
api_reportScriptExecutionStats == {"script-executions"}
api_reportRevenueSummary       == {"invoices", "subscriptions"}
api_portalMe                   == {"me"}
api_portalListTickets          == {"tickets"}
api_portalCreateTicket         == {"tickets"}
api_portalGetTicket            == {"tickets"}
api_portalListTicketComments   == {"ticket-comments"}
api_portalAddTicketComment     == {"ticket-comments"}

-----------------------------------------------------------------------------
(* Keys of the cache.  Parameters chosen on a page ("filters") make other  *)
(* entries of one query; of things with an id, one is looked at.           *)

Key1(a)    == <<a>>
Of(a)      == <<a, "id">>
ByFilter(a) == <<a, "filters">>

Query(key, shows) == [key |-> key, shows |-> shows, polls |-> FALSE]

\* A request that changes something, and the keys it invalidates when answered.
Change(changes, names) == [changes |-> changes, names |-> {Key1(n) : n \in names}]
ChangeOf(changes, names, ids) ==
  [changes |-> changes, names |-> {Key1(n) : n \in names} \cup {Of(i) : i \in ids}]

\* What a page's socket events write into and invalidate.
Socket(writes, names) == [writes |-> writes, names |-> {Key1(n) : n \in names}]
NoSocket == {}

Page(queries, changes, sockets) ==
  [queries |-> queries, changes |-> changes, sockets |-> sockets]

me == Query(Key1("me"), api_getMe)

protected_shell == Page({me}, {}, NoSocket)

notification_center == Page(
  {[Query(<<"notifications", "topbar">>, api_listNotifications) EXCEPT !.polls = TRUE]},
  {Change(api_markNotificationRead, {"notifications"}),
   Change(api_markAllNotificationsRead, {"notifications"})},
  NoSocket)

\* The pages of the application have the shell and its top bar around them.
AppPage(queries, changes, sockets) == Page(
  queries \cup protected_shell.queries \cup notification_center.queries,
  changes \cup notification_center.changes,
  sockets)

alerts_page == AppPage(
  {Query(ByFilter("alerts"), api_listAlerts)},
  {Change(api_acknowledgeAlert, {"alerts", "dashboard-overview"}),
   Change(api_resolveAlert, {"alerts", "dashboard-overview"}),
   Change(api_createTicketFromAlert, {"alerts", "tickets", "dashboard-overview", "notifications"})},
  NoSocket)

alert_rules_page == AppPage(
  {Query(ByFilter("alert-rules"), api_listAlertRules)},
  {Change(r, {"alert-rules"}) : r \in {api_createAlertRule, api_updateAlertRule, api_deleteAlertRule}},
  NoSocket)

api_keys_page == AppPage(
  {Query(Key1("api-keys"), api_listApiKeys)},
  {Change(r, {"api-keys"}) : r \in {api_createApiKey, api_revokeApiKey}},
  NoSocket)

audit_page == AppPage({Query(ByFilter("audit-logs"), api_listAuditLogs)}, {}, NoSocket)

automations_page == AppPage(
  {Query(ByFilter("automations"), api_listAutomations),
   Query(Key1("automation-logs"), api_listAutomationLogs)},
  {Change(r, {"automations", "automation-logs", "dashboard-overview"}) :
     r \in {api_createAutomation, api_updateAutomation}}
  \cup {Change(api_deleteAutomation, {"automations"})},
  NoSocket)

billing_page == AppPage(
  {Query(Key1("billing-clients"), api_listClients),
   Query(Key1("billing-contracts"), api_listContracts),
   Query(Key1("billing-invoices"), api_listInvoices),
   Query(Key1("billing-subscriptions"), api_listSubscriptions),
   Query(Of("billing-summary"), api_billingMonthlySummary)},
  {Change(api_createInvoice, {"billing-invoices", "billing-summary"}),
   Change(api_createSubscription, {"billing-subscriptions", "billing-summary"})},
  NoSocket)

client_page == AppPage(
  {Query(Of("client"), api_getClient),
   Query(<<"contacts", "id", "filters">>, api_listContacts)},
  {ChangeOf(r, {}, {"contacts"}) : r \in {api_createContact, api_updateContact, api_deleteContact}},
  NoSocket)

clients_page == AppPage(
  {Query(ByFilter("clients"), api_listClients)},
  {Change(r, {"clients"}) : r \in {api_createClient, api_updateClient}},
  NoSocket)

contracts_page == AppPage(
  {Query(Key1("contracts"), api_listContracts),
   Query(Key1("contracts-clients"), api_listClients)},
  {Change(api_createContract, {"contracts"})},
  NoSocket)

device_page == AppPage(
  {Query(Of("device"), api_getDevice),
   Query(<<"device-metrics", "id", "filters">>, api_getDeviceMetrics)},
  {ChangeOf(api_updateDevice, {"devices"}, {"device"})},
  {Socket({Of("device")}, {"dashboard-overview"})})

devices_page == AppPage(
  {Query(Key1("client-options"), api_listClients),
   Query(ByFilter("devices"), api_listDevices)},
  {Change(r, {"devices", "dashboard-overview"}) : r \in {api_createDevice, api_updateDevice}},
  {Socket({Key1("devices"), Key1("device")}, {"dashboard-overview"})})

integrations_page == AppPage(
  {Query(Key1("integrations"), api_listIntegrations)},
  {Change(r, {"integrations"}) :
     r \in {api_createIntegration, api_deleteIntegration, api_testWebhookIntegration}}
  \cup {Change(api_testEmailIntegration, {})},
  NoSocket)

article_page == AppPage(
  {Query(Of("knowledge-base"), api_getKnowledgeBaseArticle)},
  {ChangeOf(api_updateKnowledgeBaseArticle, {"knowledge-base"}, {"knowledge-base"}),
   Change(api_deleteKnowledgeBaseArticle, {"knowledge-base"})},
  NoSocket)

knowledge_base_page == AppPage(
  {Query(ByFilter("knowledge-base"), api_listKnowledgeBaseArticles)},
  {Change(api_createKnowledgeBaseArticle, {"knowledge-base"})},
  NoSocket)

patch_management_page == AppPage(
  {Query(Key1("patch-policies"), api_listPatchPolicies),
   Query(Key1("patches"), api_listPatches),
   Query(Key1("patch-devices"), api_listDevices)},
  {Change(r, {"patches"}) :
     r \in {api_simulatePatchScan, api_approvePatch, api_schedulePatch, api_executePatch}}
  \cup {Change(api_createPatchPolicy, {"patch-policies"})},
  NoSocket)

live_bridge == Page({},
  {ChangeOf(api_updateRemoteSessionInteractionMode, {"remote-sessions"}, {"remote-session"})},
  NoSocket)

remote_session_page == AppPage(
  {Query(Of("remote-session"), api_getRemoteSession)},
  {ChangeOf(r, {"remote-sessions"}, {"remote-session"}) :
     r \in {api_startRemoteSession, api_endRemoteSession}} \cup live_bridge.changes,
  NoSocket)

remote_access_page == AppPage(
  {Query(Key1("remote-devices"), api_listDevices),
   Query(Key1("remote-sessions"), api_listRemoteSessions)},
  {Change(r, {"remote-sessions"}) :
     r \in {api_createRemoteSession, api_startRemoteSession, api_endRemoteSession}},
  NoSocket)

reports_page == AppPage(
  {Query(Key1("reports-tickets"), api_reportTicketsByPeriod),
   Query(Key1("reports-alerts"), api_reportAlertsBySeverity),
   Query(Key1("reports-assets"), api_reportAssetsByClient),
   Query(Key1("reports-sla"), api_reportSlaCompliance),
   Query(Key1("reports-scripts"), api_reportScriptExecutionStats),
   Query(Key1("reports-revenue"), api_reportRevenueSummary)},
  {}, NoSocket)

executions_page == AppPage(
  {Query(Key1("script-options"), api_listScripts),
   Query(Key1("script-device-options"), api_listDevices),
   Query(Key1("script-group-options"), api_listDeviceGroups),
   Query(ByFilter("script-executions"), api_listScriptExecutions),
   Query(Key1("script-scheduled"), api_listScheduledScriptJobs)},
  {Change(r, {"script-executions", "dashboard-overview"}) :
     r \in {api_runScriptOnDevice, api_runScriptOnGroup}}
  \cup {Change(api_scheduleScript, {"script-scheduled"})},
  {Socket({Key1("script-executions")}, {"dashboard-overview"})})

scripts_page == AppPage(
  {Query(ByFilter("scripts"), api_listScripts)},
  {Change(r, {"scripts", "dashboard-overview"}) : r \in {api_createScript, api_updateScript}}
  \cup {Change(api_deleteScript, {"scripts"})},
  NoSocket)

settings_page == AppPage(
  {Query(Key1("settings"), api_listSettings)},
  {Change(api_upsertSetting, {"settings"})},
  NoSocket)

\* Mutant of ticket_page: a comment refreshes the comments and the list only.
ticket_page_CommentsOnly == AppPage(
  {Query(Of("ticket"), api_getTicket),
   Query(Of("ticket-comments"), api_listTicketComments)},
  {ChangeOf(api_addTicketComment, {"tickets"}, {"ticket-comments"})},
  NoSocket)

ticket_page == AppPage(
  {Query(Of("ticket"), api_getTicket),
   Query(Of("ticket-comments"), api_listTicketComments),
   Query(Key1("ticket-detail-users"), api_listUsers)},
  {ChangeOf(api_assignTicket, {"tickets", "notifications"}, {"ticket"}),
   ChangeOf(api_addTicketComment, {"tickets"}, {"ticket-comments", "ticket"})}
  \cup {ChangeOf(r, {"tickets", "dashboard-overview"}, {"ticket"}) :
          r \in {api_resolveTicket, api_closeTicket, api_reopenTicket}},
  NoSocket)

tickets_page == AppPage(
  {Query(ByFilter("tickets"), api_listTickets),
   Query(Key1("ticket-clients-options"), api_listClients),
   Query(Key1("ticket-devices-options"), api_listDevices),
   Query(Key1("ticket-users-options"), api_listUsers),
   Query(Key1("ticket-sla-options"), api_listSlaPolicies)},
  {Change(api_createTicket, {"tickets", "dashboard-overview", "notifications"})},
  NoSocket)

dashboard_page == AppPage(
  {Query(Key1("dashboard-overview"), api_getDashboardOverview),
   Query(Key1("dashboard-billing-summary"), api_billingMonthlySummary),
   Query(Key1("dashboard-patches"), api_listPatches),
   Query(Key1("dashboard-remote-sessions"), api_listRemoteSessions)},
  {}, {Socket({}, {"dashboard-overview", "devices"})})

portal_shell == Page({Query(Key1("portal-me"), api_portalMe)}, {}, NoSocket)

PortalPage(queries, changes) ==
  Page(queries \cup portal_shell.queries, changes, NoSocket)

portal_ticket_page == PortalPage(
  {Query(Of("portal-ticket"), api_portalGetTicket),
   Query(Of("portal-ticket-comments"), api_portalListTicketComments)},
  {ChangeOf(api_portalAddTicketComment, {}, {"portal-ticket-comments"})})

portal_tickets_page == PortalPage(
  {Query(Key1("portal-tickets"), api_portalListTickets)},
  {Change(api_portalCreateTicket, {"portal-tickets"})})

WebPages ==
  {alerts_page, alert_rules_page, api_keys_page, audit_page, automations_page, billing_page,
   client_page, clients_page, contracts_page, device_page, devices_page, integrations_page,
   article_page, knowledge_base_page, patch_management_page, remote_session_page,
   remote_access_page, reports_page, executions_page, scripts_page, settings_page, ticket_page,
   tickets_page, dashboard_page, portal_ticket_page, portal_tickets_page}
=============================================================================
