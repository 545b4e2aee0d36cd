------------------------------ MODULE Handlers -------------------------------
(***************************************************************************)
(* What the controllers do with a request, one record a handler: how it    *)
(* may answer, what it wants to know of its caller, and where its failures *)
(* go.  What it makes of the data is the business of the other modules.    *)
(***************************************************************************)

\* A handler that answers with a status of ok when its services do, and gives
\* whatever they throw to the next error handler: by next(error) in a catch, or
\* because asyncHandler wraps it.
Handler(ok) == [ok |-> ok, own |-> {}, caller |-> "ignored", fails |-> {"next"}]
Serves(status) == Handler({status})
\* It reads req.user?.userId and goes on without.
Uses(status) == [Serves(status) EXCEPT !.caller = "used"]
\* It throws error at a caller it does not know.
Needs(status, error) == [Serves(status) EXCEPT !.caller = error]
\* It also answers some requests with a status of own itself.
Or(own, handler) == [handler EXCEPT !.own = own]
\* It asks no service.
Healthy == [Serves(200) EXCEPT !.fails = {}]
\* The bank's webhooks answer 200 to what they could not process.
Acknowledges == [Serves(200) EXCEPT !.fails = {"self"}]
\* A remote file is piped into the answer: once it flows, nobody hears that it
\* breaks off, and the answer does not end.
Streams == [Serves(200) EXCEPT !.fails = {"next", "nobody"}]

-----------------------------------------------------------------------------
(* auth: auth.controller                                                   *)

Signup ==
  [ signup |-> Serves(201), verifyBvn |-> Serves(200), sendBvnOtp |-> Serves(200),
    validateBvnOtp |-> Serves(200), sendNigerianEmailOtp |-> Serves(200),
    validateNigerianEmailOtp |-> Serves(200), createNigerianAccount |-> Serves(201),
    verifyPassport |-> Serves(200), sendPassportOtp |-> Serves(200),
    validatePassportOtp |-> Serves(200), createTouristAccount |-> Serves(201),
    verifyExpatriatePassport |-> Serves(200), sendExpatriateOtp |-> Serves(200) ]

Login ==
  [ validateExpatriateOtp |-> Serves(200), createExpatriateAccount |-> Serves(201),
    login |-> Serves(200), loginAgent |-> Serves(200), createAgentPassword |-> Serves(200),
    verifyAgentLogin |-> Serves(200), sendOtp |-> Serves(200), validateOtp |-> Serves(200),
    logout |-> Needs(200, "Error"), refreshToken |-> Serves(200),
    verifyKyc |-> Needs(200, "Error"), getProfile |-> Needs(200, "Error") ]

Recovery ==
  [ uploadPassport |-> Serves(200), getPassportVerificationStatus |-> Needs(200, "Error"),
    forgotPassword |-> Serves(200), verifyResetOtp |-> Serves(200),
    resetPassword |-> Serves(200), healthCheck |-> Healthy ]

-----------------------------------------------------------------------------
(* agents: agent-customer.controller                                       *)

AgentCustomers ==
  [ createCustomerAccount |-> Needs(201, "VALIDATION_ERROR"),
    listAgentCustomers |-> Needs(200, "VALIDATION_ERROR"),
    getCustomerStats |-> Needs(200, "VALIDATION_ERROR"),
    getAgentCustomerDetails |-> Needs(200, "VALIDATION_ERROR"),
    listCustomerTransactions |-> Needs(200, "VALIDATION_ERROR"),
    updateAgentCustomer |-> Needs(200, "VALIDATION_ERROR") ]

-----------------------------------------------------------------------------
(* agents: agent-auth.controller                                           *)

AgentAccess ==
  [ changeAgentPassword |-> Needs(200, "VALIDATION_ERROR"),
    getProfile |-> Needs(200, "VALIDATION_ERROR") ]

-----------------------------------------------------------------------------
(* agents: agent-notification.controller                                   *)

AgentNotices ==
  [ listNotifications |-> Needs(200, "VALIDATION_ERROR"),
    markNotificationRead |-> Needs(200, "VALIDATION_ERROR"),
    getNotificationPreferences |-> Needs(200, "VALIDATION_ERROR"),
    updateNotificationPreferences |-> Needs(200, "VALIDATION_ERROR") ]

-----------------------------------------------------------------------------
(* agents: agent-rate.controller                                           *)

AgentRates ==
  [ getActiveRates |-> Serves(200), calculateAmount |-> Or({400}, Serves(200)) ]

-----------------------------------------------------------------------------
(* payments: payment.controller                                            *)

Payments ==
  [ getExchangeRate |-> Serves(200), initiateDeposit |-> Serves(201),
    confirmDeposit |-> Uses(200), getSettlement |-> Serves(200),
    initializePayment |-> Serves(201), paymentCallback |-> Uses(200),
    getPaymentHistory |-> Serves(200), getPaymentStatus |-> Serves(200),
    createExchangeRate |-> Uses(201), health |-> Healthy ]

-----------------------------------------------------------------------------
(* admin: admin.controller                                                 *)

Dashboard ==
  [ getDashboard |-> Serves(200), getPendingApprovals |-> Uses(200), getAuditLog |-> Serves(200),
    seedAdmin |-> Handler({200, 201}), health |-> Healthy ]

-----------------------------------------------------------------------------
(* admin: admin-auth.controller                                            *)

StaffAccess ==
  [ login |-> Serves(200), verifyLogin |-> Serves(200), forgotPassword |-> Serves(200),
    validateResetOtp |-> Serves(200), submitNewPassword |-> Serves(200),
    resendOtp |-> Serves(200), logout |-> Uses(200), resendForgotPassword |-> Serves(200),
    verifyOldPassword |-> Uses(200), submitPasswordChange |-> Uses(200) ]

-----------------------------------------------------------------------------
(* admin: user-management.controller                                       *)

StaffUsers ==
  [ addUser |-> Uses(200), updateUser |-> Uses(200), toggleUserActive |-> Uses(200),
    getAllUsers |-> Serves(200), listAllUsers |-> Serves(200), getUserStats |-> Serves(200),
    getProfile |-> Uses(200), createRole |-> Uses(200), getRoles |-> Serves(200),
    getRoleStats |-> Serves(200), getRole |-> Serves(200), updateRole |-> Uses(200),
    toggleRoleActive |-> Uses(200) ]

StaffRoles ==
  [ deleteRole |-> Uses(200), getRolePermissions |-> Serves(200), getUser |-> Serves(200),
    getUserActivities |-> Serves(200), exportUserActivitiesCsv |-> Serves(200),
    getLookups |-> Serves(200), exportUsersCsv |-> Serves(200), exportRolesCsv |-> Serves(200),
    exportDepartmentsCsv |-> Serves(200), createDepartment |-> Uses(200),
    getDepartments |-> Serves(200) ]

Departments ==
  [ getDepartment |-> Serves(200), updateDepartment |-> Uses(200),
    deleteDepartment |-> Uses(200), getDepartmentStats |-> Serves(200),
    toggleDepartmentActive |-> Uses(200), getPermissions |-> Serves(200),
    getPermissionModules |-> Serves(200) ]

-----------------------------------------------------------------------------
(* admin: customer.controller                                              *)

CustomerDesk ==
  [ listCustomers |-> Serves(200), listAllCustomers |-> Serves(200),
    getCustomerCounts |-> Serves(200), getCustomer |-> Serves(200), createFlag |-> Uses(201),
    listCustomerFlags |-> Serves(200), listAllFlags |-> Serves(200),
    updateFlagStatus |-> Uses(200), deactivateCustomer |-> Uses(200),
    toggleActiveStatus |-> Uses(200), getCustomerTransactions |-> Serves(200) ]

CustomerExport ==
  [ exportCustomersCsv |-> Serves(200) ]

-----------------------------------------------------------------------------
(* admin: admin-transactions.controller                                    *)

TransactionDesk ==
  [ stats |-> Serves(200), list |-> Serves(200), listBuy |-> Serves(200),
    listSell |-> Serves(200), listReceive |-> Serves(200), exportCsv |-> Serves(200),
    get |-> Serves(200), requestInfo |-> Uses(200), review |-> Uses(200), approve |-> Uses(200),
    reject |-> Uses(200), approveDocument |-> Uses(200) ]

DocumentDesk ==
  [ rejectDocument |-> Uses(200), requestMoreInfoOnDocument |-> Uses(200), settle |-> Uses(200) ]

-----------------------------------------------------------------------------
(* admin: agent.controller                                                 *)

AgentDesk ==
  [ create |-> Uses(201), stats |-> Serves(200), list |-> Serves(200), listAll |-> Serves(200),
    getTransactions |-> Serves(200), exportTransactionsCsv |-> Serves(200),
    getTransaction |-> Serves(200), downloadTransactionReceipt |-> Streams,
    downloadTransactionDocument |-> Streams, get |-> Serves(200) ]

AgentStatus ==
  [ updateStatus |-> Uses(200), updateApproval |-> Uses(200), update |-> Uses(200),
    deactivate |-> Uses(200), exportCsv |-> Serves(200) ]

-----------------------------------------------------------------------------
(* admin: outlet.controller                                                *)

Franchises ==
  [ franchiseStats |-> Serves(200), listFranchises |-> Serves(200),
    listPickupStations |-> Serves(200), exportPickupStations |-> Serves(200),
    createFranchise |-> Uses(200), createPickupStation |-> Uses(200),
    updateFranchiseStatus |-> Uses(200), updateFranchise |-> Uses(200),
    getPickupStation |-> Serves(200), updatePickupStation |-> Uses(200),
    deletePickupStation |-> Uses(200) ]

FranchiseViews ==
  [ approveFranchise |-> Uses(200), getFranchise |-> Serves(200),
    exportFranchises |-> Serves(200), exportBranches |-> Serves(200),
    branchStats |-> Serves(200), listBranches |-> Serves(200), listAllBranches |-> Serves(200),
    listFranchiseBranches |-> Serves(200), listFranchiseBranchesAll |-> Serves(200),
    exportFranchiseBranches |-> Serves(200), listFranchiseTransactions |-> Serves(200),
    exportFranchiseTransactions |-> Serves(200), listBranchTransactions |-> Serves(200) ]

Branches ==
  [ createBranch |-> Uses(200), getBranch |-> Serves(200), listNigeriaStates |-> Serves(200),
    listNigeriaCitiesByState |-> Serves(200), updateBranchStatus |-> Uses(200),
    updateBranch |-> Uses(200), listBranchAgents |-> Serves(200),
    exportBranchAgents |-> Serves(200), addAgents |-> Uses(200) ]

-----------------------------------------------------------------------------
(* admin: settlement.controller                                            *)

Escrow ==
  [ stats |-> Serves(200), discrepancies |-> Serves(200), pendingReconciliations |-> Serves(200),
    escrowAccounts |-> Serves(200), fundingTransactions |-> Serves(200),
    createEscrowAccount |-> Needs(201, "VALIDATION_ERROR"), bankList |-> Serves(200),
    verifyBankAccount |-> Serves(200) ]

-----------------------------------------------------------------------------
(* admin: workflow.controller                                              *)

Workflow ==
  [ stats |-> Serves(200), actions |-> Serves(200), exportActionsCsv |-> Serves(200),
    createTemplate |-> Uses(200), saveDraft |-> Uses(200), listTemplates |-> Serves(200),
    getTemplate |-> Serves(200), updateTemplate |-> Serves(200), publishTemplate |-> Serves(200),
    managementStats |-> Serves(200), managementList |-> Serves(200),
    activateTemplate |-> Serves(200), deactivateTemplate |-> Serves(200),
    exportTemplates |-> Uses(200) ]

-----------------------------------------------------------------------------
(* admin: tickets.controller                                               *)

TicketDesk ==
  [ stats |-> Serves(200), caseTypes |-> Serves(200), statuses |-> Serves(200),
    list |-> Serves(200), get |-> Serves(200), update |-> Uses(200), create |-> Uses(201),
    updateStatus |-> Uses(200) ]

TicketThread ==
  [ assignTo |-> Uses(200), comment |-> Uses(201), comments |-> Serves(200),
    exportCsv |-> Serves(200) ]

-----------------------------------------------------------------------------
(* admin: rate.controller                                                  *)

Rates ==
  [ stats |-> Serves(200), list |-> Serves(200), get |-> Serves(200), create |-> Uses(201),
    update |-> Uses(200), deactivate |-> Uses(200), export |-> Serves(200) ]

-----------------------------------------------------------------------------
(* admin: audit.controller                                                 *)

Trail ==
  [ list |-> Serves(200), export |-> Serves(200) ]

-----------------------------------------------------------------------------
(* admin: report.controller                                                *)

Reports ==
  [ modules |-> Serves(200), generate |-> Uses(200) ]

-----------------------------------------------------------------------------
(* admin: regulatory.controller                                            *)

Regulatory ==
  [ complianceDashboard |-> Serves(200), complianceReportsList |-> Serves(200),
    complianceReportDetails |-> Serves(200), trmsStats |-> Serves(200), trmsList |-> Serves(200),
    trmsDetails |-> Serves(200), trmsSubmit |-> Serves(200), trmsCheckStatus |-> Serves(200),
    exportSubmissions |-> Uses(200), fnWindowStats |-> Serves(200),
    fnWindowRates |-> Serves(200), fnWindowRate |-> Serves(200),
    cbnFnReportsList |-> Serves(200), cbnFnReportDetails |-> Serves(200),
    auditLogsList |-> Serves(200), auditLogDetails |-> Serves(200),
    regulatoryLogsList |-> Serves(200), regulatoryLogDetails |-> Serves(200),
    exportAuditLogs |-> Serves(200) ]

RegulatoryExport ==
  [ exportRegulatoryLogs |-> Serves(200) ]

-----------------------------------------------------------------------------
(* admin: admin-notification.controller                                    *)

StaffNotices ==
  [ listAll |-> Needs(200, "VALIDATION_ERROR"), listUnread |-> Needs(200, "VALIDATION_ERROR"),
    markAsRead |-> Needs(200, "VALIDATION_ERROR") ]

-----------------------------------------------------------------------------
(* customer: customer-transaction.controller                               *)

Orders ==
  [ createTransaction |-> Or({400, 401}, Uses(201)),
    uploadDocuments |-> Or({400, 401}, Uses(200)), getActiveRates |-> Serves(200),
    calculateAmount |-> Or({400}, Serves(200)), getPickupPoints |-> Serves(200),
    getMyTransactions |-> Or({400, 401}, Uses(200)) ]

Pickup ==
  [ exportMyTransactions |-> Or({400, 401}, Uses(200)),
    getTransactionDetails |-> Or({400, 401}, Uses(200)), getPickupStates |-> Serves(200),
    getPickupCities |-> Or({400}, Serves(200)), getPickupTerminals |-> Or({400}, Serves(200)) ]

Terminals ==
  [ checkTerminalAvailability |-> Or({400}, Serves(200)),
    getTerminalAvailabilitySlots |-> Or({400}, Serves(200)),
    getTransactionTotals |-> Or({400, 401}, Uses(200)) ]

-----------------------------------------------------------------------------
(* agents: agent-transaction.controller                                    *)

AgentOrders ==
  [ createTransaction |-> Needs(201, "VALIDATION_ERROR"),
    listTransactions |-> Needs(200, "VALIDATION_ERROR"),
    getTransactionStats |-> Needs(200, "VALIDATION_ERROR"),
    getTransactionById |-> Needs(200, "VALIDATION_ERROR"),
    uploadDocuments |-> Or({400}, Needs(200, "VALIDATION_ERROR")) ]

Disbursement ==
  [ exportTransactions |-> Needs(200, "VALIDATION_ERROR"),
    recordDisbursement |-> Needs(200, "VALIDATION_ERROR") ]

-----------------------------------------------------------------------------
(* agents: agent-support.controller                                        *)

AgentSupport ==
  [ createTicket |-> Needs(201, "VALIDATION_ERROR"),
    listTickets |-> Needs(200, "VALIDATION_ERROR"),
    getTicketDetails |-> Needs(200, "VALIDATION_ERROR") ]

-----------------------------------------------------------------------------
(* customer: customer-support.controller                                   *)

Support ==
  [ createTicket |-> Or({400, 401}, Uses(201)), getMyTickets |-> Or({401}, Uses(200)),
    getTicketDetails |-> Or({401}, Uses(200)), getTicketByReference |-> Or({401}, Uses(200)) ]

-----------------------------------------------------------------------------
(* documents: document.controller                                          *)

Uploads ==
  [ uploadSingle |-> Serves(201), uploadMultiple |-> Serves(201), getDocument |-> Serves(200),
    getTransactionDocuments |-> Serves(200) ]

UserDocuments ==
  [ getUserDocuments |-> Serves(200), deleteDocument |-> Serves(200) ]

-----------------------------------------------------------------------------
(* audit: audit.controller                                                 *)

Events ==
  [ listEvents |-> Serves(200), getEvent |-> Serves(200), listSecurityEvents |-> Serves(200),
    resolveSecurityEvent |-> Serves(200), securitySummary |-> Serves(200),
    getStats |-> Serves(200) ]

Activity ==
  [ getEventTypeFrequency |-> Serves(200), getHourlyVolume |-> Serves(200),
    getUserActivity |-> Serves(200), getResourceHistory |-> Serves(200),
    getComplianceTimeline |-> Serves(200), getCorrelationTrace |-> Serves(200) ]

-----------------------------------------------------------------------------
(* notifications: notification.controller                                  *)

Devices ==
  [ registerDevice |-> Needs(200, "UNAUTHORIZED"), unregisterDevice |-> Serves(200),
    getDevices |-> Needs(200, "UNAUTHORIZED"), getPreferences |-> Needs(200, "UNAUTHORIZED"),
    updatePreferences |-> Needs(200, "UNAUTHORIZED") ]

Notices ==
  [ getNotifications |-> Needs(200, "UNAUTHORIZED"),
    getUnreadCount |-> Needs(200, "UNAUTHORIZED"), markAsRead |-> Needs(200, "UNAUTHORIZED"),
    markAllAsRead |-> Needs(200, "UNAUTHORIZED"),
    sendTestNotification |-> Needs(200, "UNAUTHORIZED") ]

Topics ==
  [ subscribeToTopic |-> Needs(200, "UNAUTHORIZED"),
    unsubscribeFromTopic |-> Needs(200, "UNAUTHORIZED") ]

-----------------------------------------------------------------------------
(* payments: providus-webhook.controller                                   *)

Webhooks ==
  [ handleDepositNotification |-> Acknowledges, handleSettlementNotification |-> Acknowledges,
    healthCheck |-> Healthy ]

-----------------------------------------------------------------------------
(* admin: virtual-account.controller                                       *)

AccountDesk ==
  [ createVirtualAccount |-> Serves(201), getVirtualAccountByTransaction |-> Serves(200),
    getVirtualAccountByNumber |-> Serves(200), blacklistAccount |-> Serves(200),
    unblacklistAccount |-> Serves(200), manualVerifyDeposit |-> Serves(200) ]

DepositDesk ==
  [ getTransactionDeposits |-> Serves(200), deactivateExpiredAccounts |-> Serves(200) ]

-----------------------------------------------------------------------------
(* customer: customer-virtual-account.controller                           *)

CustomerAccount ==
  [ createTransactionVirtualAccount |-> [Handler({200, 201}) EXCEPT !.caller = "UNAUTHORIZED"] ]

Instructions ==
  [ getTransactionVirtualAccount |-> Needs(200, "UNAUTHORIZED"),
    getDepositInstructions |-> Needs(200, "UNAUTHORIZED") ]

DepositStatus ==
  [ getDepositStatus |-> Needs(200, "UNAUTHORIZED") ]

-----------------------------------------------------------------------------
(* admin: settlement-management.controller                                 *)

Settlements ==
  [ createSettlement |-> Needs(201, "UNAUTHORIZED"), createBatch |-> Needs(201, "UNAUTHORIZED"),
    approveSettlement |-> Needs(200, "UNAUTHORIZED"),
    approveBatch |-> Needs(200, "UNAUTHORIZED"), processSettlement |-> Needs(200, "UNAUTHORIZED") ]

SettlementViews ==
  [ processBatch |-> Needs(200, "UNAUTHORIZED"), completeSettlement |-> Serves(200),
    getSettlement |-> Serves(200), getBatch |-> Serves(200), listSettlements |-> Serves(200),
    listBatches |-> Serves(200) ]

Reconciling ==
  [ reconcileSettlement |-> Needs(200, "UNAUTHORIZED"),
    reconcileBatch |-> Needs(200, "UNAUTHORIZED"),
    resolveVariance |-> Needs(200, "UNAUTHORIZED"), getPendingReconciliations |-> Serves(200),
    getReconciliationReport |-> Serves(200) ]

-----------------------------------------------------------------------------
(* agents: agent-dashboard.controller                                      *)

AgentDashboard ==
  [ listRecentTransactions |-> Needs(200, "VALIDATION_ERROR"),
    getTransactionsByType |-> Needs(200, "VALIDATION_ERROR") ]

-----------------------------------------------------------------------------
(* The controllers, under the names by which the routes know them.         *)

ApiControllers ==
  [ Signup |-> Signup, Login |-> Login, Recovery |-> Recovery,
    AgentCustomers |-> AgentCustomers, AgentAccess |-> AgentAccess,
    AgentNotices |-> AgentNotices, AgentRates |-> AgentRates, Payments |-> Payments,
    Dashboard |-> Dashboard, StaffAccess |-> StaffAccess, StaffUsers |-> StaffUsers,
    StaffRoles |-> StaffRoles, Departments |-> Departments, CustomerDesk |-> CustomerDesk,
    CustomerExport |-> CustomerExport, TransactionDesk |-> TransactionDesk,
    DocumentDesk |-> DocumentDesk, AgentDesk |-> AgentDesk, AgentStatus |-> AgentStatus,
    Franchises |-> Franchises, FranchiseViews |-> FranchiseViews, Branches |-> Branches,
    Escrow |-> Escrow, Workflow |-> Workflow, TicketDesk |-> TicketDesk,
    TicketThread |-> TicketThread, Rates |-> Rates, Trail |-> Trail, Reports |-> Reports,
    Regulatory |-> Regulatory, RegulatoryExport |-> RegulatoryExport,
    StaffNotices |-> StaffNotices, Orders |-> Orders, Pickup |-> Pickup,
    Terminals |-> Terminals, AgentOrders |-> AgentOrders, Disbursement |-> Disbursement,
    AgentSupport |-> AgentSupport, Support |-> Support, Uploads |-> Uploads,
    UserDocuments |-> UserDocuments, Events |-> Events, Activity |-> Activity,
    Devices |-> Devices, Notices |-> Notices, Topics |-> Topics, Webhooks |-> Webhooks,
    AccountDesk |-> AccountDesk, DepositDesk |-> DepositDesk,
    CustomerAccount |-> CustomerAccount, Instructions |-> Instructions,
    DepositStatus |-> DepositStatus, Settlements |-> Settlements,
    SettlementViews |-> SettlementViews, Reconciling |-> Reconciling,
    AgentDashboard |-> AgentDashboard ]
=============================================================================
