--------------------------------- MODULE Api ---------------------------------
(***************************************************************************)
(* The routers of the application in the order in which a request meets    *)
(* them, each with the middleware that all its requests pass.              *)
(***************************************************************************)
EXTENDS Handlers, Routes

Mounted(at, guards, routes) == [at |-> at, guards |-> guards, routes |-> routes]

\* The admin router: its own routes, then its routers, mounted below it.
AdminMounts ==
  << Mounted(<<"api", "admin">>, Open, DashboardRoutes),
     Mounted(<<"api", "admin", "auth">>, Open, StaffLogin \o StaffReset),
     Mounted(<<"api", "admin", "management">>, Open,
         StaffUserLists \o StaffActivities \o StaffProfile \o StaffUpdate \o RoleRoutes \o
         RoleDetails \o PermissionRoutes \o RoleDelete \o DepartmentRoutes),
     Mounted(<<"api", "admin", "customers">>, Open,
         CustomerLists \o CustomerDetails \o CustomerStatus),
     Mounted(<<"api", "admin", "transactions">>, Open,
         TransactionLists \o BuySell \o ReceiveDetails \o Decisions \o DocumentDecisions \o
         Settle),
     Mounted(<<"api", "admin", "agent">>, Open,
         AgentLists \o AgentExport \o AgentTransactions \o AgentDownloads \o
         AgentOneTransaction \o AgentApproval),
     Mounted(<<"api", "admin", "outlet">>, Open,
         FranchiseRoutes \o FranchiseBranches \o FranchiseTransactions \o FranchiseDetails \o
         PickupRoutes \o PickupDetails \o BranchLists \o BranchCities \o BranchDetails \o
         BranchStatus \o BranchAgents),
     Mounted(<<"api", "admin", "settlement">>, Open, EscrowRoutes \o BankRoutes),
     Mounted(<<"api", "admin", "workflow">>, Open,
         WorkflowLists \o TemplateRoutes \o WorkflowManagement),
     Mounted(<<"api", "admin", "tickets">>, Open,
         TicketLists \o TicketExport \o TicketChanges \o TicketComments),
     Mounted(<<"api", "admin", "rate">>, Open, RateLists \o RateChanges),
     Mounted(<<"api", "admin", "audit">>, Open, TrailRoutes),
     Mounted(<<"api", "admin", "reports">>, Open, ReportModules \o ReportGenerate),
     Mounted(<<"api", "admin", "regulatory">>, Open,
         ComplianceReports \o TrmsRoutes \o CbnReports \o AuditLogs \o RegulatoryLogs),
     Mounted(<<"api", "admin", "notifications">>, Open, StaffNoticeRoutes) >>

\* app.ts: the routers before the admin router and those after it.
FirstMounts ==
  << Mounted(<<"api", "agent", "customer-auth">>, AgentGuards,
         AgentSignupStart \o AgentSignupOtp \o AgentSignupEmail \o AgentSignupEnd),
     Mounted(<<"api", "agent", "auth">>, AgentGuards, AgentAccessRoutes),
     Mounted(<<"api", "agent", "notifications">>, AgentGuards,
         AgentPreferences \o AgentNoticeRoutes),
     Mounted(<<"api", "agent", "rates">>, AgentGuards, AgentRateRoutes),
     Mounted(<<"api", "auth">>, Open,
         SignupBvn \o SignupBvnOtp \o SignupEmailOtp \o SignupEmailCheck \o NigerianPassport \o
         TouristOtp \o TouristAccount \o ExpatriateStart \o ExpatriateOtp \o ExpatriateLogin \o
         AgentLogin \o OtpRefresh \o LogoutKyc \o ProfileRoute \o ResetRoutes),
     Mounted(<<"api", "payments">>, Open,
         PaymentStart \o PaymentStatus \o NewExchangeRate \o DepositRoutes \o
         PaymentSettlement) >>
LastMounts ==
  << Mounted(<<"api", "customer">>, Token,
         OrderCreate \o OrderDocuments \o OrderList \o OrderExport \o OrderRates \o
         OrderDetails \o PickupPlaces \o PickupTerminals \o PickupSlots \o OrderTotals),
     Mounted(<<"api", "agent">>, AgentGuards,
         AgentCustomerList \o AgentCustomerOne \o AgentCustomerOrders \o AgentCustomerUpdate),
     Mounted(<<"api", "agent", "transactions">>, AgentGuards,
         AgentOrderStats \o AgentOrderList \o AgentOrderOne \o AgentOrderCreate \o
         AgentOrderReceipt),
     Mounted(<<"api", "agent", "support">>, AgentGuards, AgentTickets \o AgentTicket),
     Mounted(<<"api", "customer", "support">>, Token,
         SupportCreate \o SupportList \o SupportOne \o SupportReference),
     Mounted(<<"api", "documents">>, Open, DocumentUpload \o DocumentGet \o DocumentList),
     Mounted(<<"api", "audit">>, Open, EventRoutes \o ActivityRoutes),
     Mounted(<<"api", "notifications">>, Token, DeviceRoutes \o NoticeRoutes \o TopicRoutes),
     Mounted(<<"api", "webhooks", "providus">>, Open, WebhookRoutes),
     Mounted(<<"api", "admin", "virtual-accounts">>, Token,
         AccountDeskRoutes \o DepositDeskRoutes),
     Mounted(<<"api", "customer">>, Token, CustomerAccountRoutes),
     Mounted(<<"api", "admin", "settlement-management">>, Token, SettlementRoutes),
     Mounted(<<"api", "agent", "dashboard">>, AgentGuards,
         RecentTransactions \o TransactionsByType) >>
ApiMounts == FirstMounts \o AdminMounts \o LastMounts
=============================================================================
