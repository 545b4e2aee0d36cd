------------------------------- MODULE Routes --------------------------------
(***************************************************************************)
(* The routes of each router, in the order of declaration: verb, path      *)
(* below the router (":" is a parameter), middleware, controller and       *)
(* handler, and the statuses of success on its page of the documentation.  *)
(***************************************************************************)
EXTENDS Sequences

Guard(kind, roles, checked) == [kind |-> kind, roles |-> roles, checked |-> checked]
Authenticate == Guard("authenticate", {}, FALSE)
Authorize(roles) == Guard("authorize", roles, FALSE)
\* Staff log in as ADMIN, for whom no permission is looked up; the others have
\* no AdminUser row and no permission.
RequirePermission == Guard("permission", {"SUPER_ADMIN", "ADMIN"}, FALSE)
Upload == Guard("upload", {}, FALSE)
CheckedUpload == Guard("upload", {}, TRUE)
Validate == Guard("validate", {}, FALSE)

Open == <<>>
Token == <<Authenticate>>
Permitted == <<Authenticate, RequirePermission>>
AdminOnly == <<Authenticate, Authorize({"SUPER_ADMIN", "ADMIN"})>>
AdminOrCompliance == <<Authenticate, Authorize({"SUPER_ADMIN", "ADMIN", "COMPLIANCE_OFFICER"})>>
AdminOrOperations == <<Authenticate, Authorize({"ADMIN", "SUPER_ADMIN", "OPERATIONS"})>>
AgentGuards == <<Authenticate, Authorize({"AGENT"})>>

\* A page: the statuses with which it says that the route succeeds.
Unlisted == {}

Route(verb, path, guards, controller, handler, page) ==
  [verb |-> verb, path |-> path, guards |-> guards,
   controller |-> controller, handler |-> handler, page |-> page]
Get(path, guards, controller, handler, page) ==
  Route("GET", path, guards, controller, handler, page)
Post(path, guards, controller, handler, page) ==
  Route("POST", path, guards, controller, handler, page)
Put(path, guards, controller, handler, page) ==
  Route("PUT", path, guards, controller, handler, page)
Patch(path, guards, controller, handler, page) ==
  Route("PATCH", path, guards, controller, handler, page)
Delete(path, guards, controller, handler, page) ==
  Route("DELETE", path, guards, controller, handler, page)

-----------------------------------------------------------------------------
(* agents: agent-customer-auth.routes                                      *)

AgentSignupStart ==
  << Post(<<"verify-bvn">>, Open, "Signup", "verifyBvn", {200}),
     Post(<<"send-otp">>, Open, "Signup", "sendBvnOtp", {200}) >>

AgentSignupOtp ==
  << Post(<<"resend-otp">>, Open, "Signup", "sendBvnOtp", {200}),
     Post(<<"validate-otp">>, Open, "Signup", "validateBvnOtp", {200}) >>

AgentSignupEmail ==
  << Post(<<"send-email-otp">>, Open, "Signup", "sendNigerianEmailOtp", {200}),
     Post(<<"resend-email-otp">>, Open, "Signup", "sendNigerianEmailOtp", {200}) >>

AgentSignupEnd ==
  << Post(<<"validate-email-otp">>, Open, "Signup", "validateNigerianEmailOtp", {200}),
     Post(<<"create-account">>, Open, "AgentCustomers", "createCustomerAccount", {201}) >>

-----------------------------------------------------------------------------
(* agents: agent-auth.routes                                               *)

AgentAccessRoutes ==
  << Get(<<"profile">>, Open, "AgentAccess", "getProfile", Unlisted),
     Post(<<"change-password">>, Open, "AgentAccess", "changeAgentPassword", Unlisted) >>

-----------------------------------------------------------------------------
(* agents: agent-notifications.routes                                      *)

AgentPreferences ==
  << Get(<<"preferences">>, Open, "AgentNotices", "getNotificationPreferences", {200}),
     Put(<<"preferences">>, Open, "AgentNotices", "updateNotificationPreferences", {200}) >>

AgentNoticeRoutes ==
  << Get(<<>>, Open, "AgentNotices", "listNotifications", {200}),
     Post(<<":", "read">>, Open, "AgentNotices", "markNotificationRead", {200}) >>

-----------------------------------------------------------------------------
(* agents: agent-rate.routes                                               *)

AgentRateRoutes ==
  << Get(<<>>, Open, "AgentRates", "getActiveRates", {200}),
     Post(<<"calculate">>, Open, "AgentRates", "calculateAmount", {200}) >>

-----------------------------------------------------------------------------
(* auth: auth.routes                                                       *)

SignupBvn ==
  << Post(<<"signup">>, Open, "Signup", "signup", {201}),
     Post(<<"signup", "nigerian", "verify-bvn">>, Open, "Signup", "verifyBvn", {200}) >>

SignupBvnOtp ==
  << Post(<<"signup", "nigerian", "send-otp">>, Open, "Signup", "sendBvnOtp", {200}),
     Post(<<"signup", "nigerian", "resend-otp">>, Open, "Signup", "sendBvnOtp", {200}) >>

SignupEmailOtp ==
  << Post(<<"signup", "nigerian", "validate-otp">>, Open, "Signup", "validateBvnOtp", {200}),
     Post(<<"signup", "nigerian", "send-email-otp">>, Open,
       "Signup", "sendNigerianEmailOtp", {200}) >>

SignupEmailCheck ==
  << Post(<<"signup", "nigerian", "resend-email-otp">>, Open,
       "Signup", "sendNigerianEmailOtp", {200}),
     Post(<<"signup", "nigerian", "validate-email-otp">>, Open,
       "Signup", "validateNigerianEmailOtp", {200}) >>

NigerianPassport ==
  << Post(<<"signup", "nigerian", "create-account">>, Open,
       "Signup", "createNigerianAccount", {201}),
     Post(<<"signup", "tourist", "verify-passport">>, Open, "Signup", "verifyPassport", {200}) >>

TouristOtp ==
  << Post(<<"signup", "tourist", "send-otp">>, Open, "Signup", "sendPassportOtp", {200}),
     Post(<<"signup", "tourist", "resend-otp">>, Open, "Signup", "sendPassportOtp", {200}) >>

TouristAccount ==
  << Post(<<"signup", "tourist", "validate-otp">>, Open, "Signup", "validatePassportOtp", {200}),
     Post(<<"signup", "tourist", "create-account">>, Open,
       "Signup", "createTouristAccount", {201}) >>

ExpatriateStart ==
  << Post(<<"signup", "expatriate", "verify-passport">>, Open,
       "Signup", "verifyExpatriatePassport", {200}),
     Post(<<"signup", "expatriate", "send-otp">>, Open, "Signup", "sendExpatriateOtp", {200}) >>

ExpatriateOtp ==
  << Post(<<"signup", "expatriate", "resend-otp">>, Open, "Signup", "sendExpatriateOtp", {200}),
     Post(<<"signup", "expatriate", "validate-otp">>, Open,
       "Login", "validateExpatriateOtp", {200}) >>

ExpatriateLogin ==
  << Post(<<"signup", "expatriate", "create-account">>, Open,
       "Login", "createExpatriateAccount", {201}),
     Post(<<"login">>, Open, "Login", "login", {200}) >>

AgentLogin ==
  << Post(<<"agent", "login">>, Open, "Login", "loginAgent", {200}),
     Post(<<"agent", "verify-login">>, Open, "Login", "verifyAgentLogin", {200}),
     Post(<<"agent", "create-password">>, Open, "Login", "createAgentPassword", {200}) >>

OtpRefresh ==
  << Post(<<"otp", "send">>, Open, "Login", "sendOtp", {200}),
     Post(<<"otp", "validate">>, Open, "Login", "validateOtp", {200}),
     Post(<<"refresh">>, Open, "Login", "refreshToken", {200}) >>

LogoutKyc ==
  << Post(<<"logout">>, Token, "Login", "logout", {200}),
     Post(<<"kyc", "verify">>, Open, "Login", "verifyKyc", {200}),
     Post(<<"kyc", "passport", "upload">>, <<Upload>>, "Recovery", "uploadPassport", {200}),
     Get(<<"kyc", "passport", "status">>, Token,
       "Recovery", "getPassportVerificationStatus", {200}) >>

\* Mutant: the route without its authenticate.
OpenProfileRoute ==
  << Get(<<"profile">>, Open, "Login", "getProfile", {200}) >>

ProfileRoute ==
  << Get(<<"profile">>, Token, "Login", "getProfile", {200}) >>

ResetRoutes ==
  << Post(<<"forgot-password">>, Open, "Recovery", "forgotPassword", {200}),
     Post(<<"verify-reset-otp">>, Open, "Recovery", "verifyResetOtp", {200}),
     Post(<<"reset-password">>, Open, "Recovery", "resetPassword", {200}),
     Get(<<"health">>, Open, "Recovery", "healthCheck", {200}) >>

-----------------------------------------------------------------------------
(* payments: payment.routes                                                *)

PaymentStart ==
  << Post(<<"initialize">>, Token, "Payments", "initializePayment", {201}),
     Post(<<"callback">>, Open, "Payments", "paymentCallback", {200}),
     Get(<<"history">>, Token, "Payments", "getPaymentHistory", {200}) >>

PaymentStatus ==
  << Get(<<"status", ":">>, Token, "Payments", "getPaymentStatus", {200}),
     Post(<<"exchange-rate">>, Open, "Payments", "getExchangeRate", {200}) >>

NewExchangeRate ==
  << Post(<<"exchange-rate", "create">>, AdminOrOperations,
       "Payments", "createExchangeRate", {201}) >>

DepositRoutes ==
  << Post(<<"deposit", "initiate">>, Token, "Payments", "initiateDeposit", {201}),
     Post(<<"deposit", "confirm">>, Token, "Payments", "confirmDeposit", {200}) >>

PaymentSettlement ==
  << Get(<<"settlement", ":">>, Token, "Payments", "getSettlement", {200}),
     Get(<<"health">>, Open, "Payments", "health", {200}) >>

-----------------------------------------------------------------------------
(* admin: admin.routes                                                     *)

DashboardRoutes ==
  << Get(<<"dashboard">>, Open, "Dashboard", "getDashboard", {200}),
     Get(<<"pending-approvals">>, Open, "Dashboard", "getPendingApprovals", {200}),
     Get(<<"audit-log">>, Permitted, "Dashboard", "getAuditLog", {200}),
     Get(<<"health">>, Open, "Dashboard", "health", {200}),
     Post(<<"seed-admin">>, Open, "Dashboard", "seedAdmin", Unlisted) >>

-----------------------------------------------------------------------------
(* admin: admin-auth.routes                                                *)

StaffLogin ==
  << Post(<<"login">>, Open, "StaffAccess", "login", {200}),
     Post(<<"verify-login">>, Open, "StaffAccess", "verifyLogin", {200}),
     Post(<<"forgot-password">>, Open, "StaffAccess", "forgotPassword", {200}),
     Post(<<"otp", "validate">>, Open, "StaffAccess", "validateResetOtp", {200}) >>

StaffReset ==
  << Post(<<"reset-password">>, Open, "StaffAccess", "submitNewPassword", {200}),
     Post(<<"forgot-password", "resend">>, Open, "StaffAccess", "resendForgotPassword", {200}),
     Post(<<"resend-otp">>, Open, "StaffAccess", "resendOtp", {200}),
     Post(<<"logout">>, Token, "StaffAccess", "logout", {200}),
     Post(<<"password", "verify-old">>, Token, "StaffAccess", "verifyOldPassword", {200}),
     Post(<<"password", "change">>, Token, "StaffAccess", "submitPasswordChange", {200}) >>

-----------------------------------------------------------------------------
(* admin: user-management.routes                                           *)

\* Mutant: /users/:id declared before the lists beside it.
UserBeforeLists ==
  << Get(<<"users", ":">>, Permitted, "StaffRoles", "getUser", {200}),
     Get(<<"users", "stats">>, Permitted, "StaffUsers", "getUserStats", {200}),
     Get(<<"users">>, Permitted, "StaffUsers", "getAllUsers", {200}),
     Get(<<"users", "all">>, Permitted, "StaffUsers", "listAllUsers", {200}),
     Get(<<"users", "export">>, Permitted, "StaffRoles", "exportUsersCsv", {200}) >>

StaffUserLists ==
  << Get(<<"users", "stats">>, Permitted, "StaffUsers", "getUserStats", {200}),
     Get(<<"users">>, Permitted, "StaffUsers", "getAllUsers", {200}),
     Get(<<"users", "all">>, Permitted, "StaffUsers", "listAllUsers", {200}),
     Get(<<"users", "export">>, Permitted, "StaffRoles", "exportUsersCsv", {200}),
     Get(<<"users", ":">>, Permitted, "StaffRoles", "getUser", {200}) >>

StaffActivities ==
  << Get(<<"users", ":", "activities">>, Permitted, "StaffRoles", "getUserActivities", {200}),
     Get(<<"users", ":", "activities", "export">>, Permitted,
       "StaffRoles", "exportUserActivitiesCsv", {200}),
     Get(<<"roles", "export">>, Permitted, "StaffRoles", "exportRolesCsv", {200}),
     Get(<<"departments", "export">>, Permitted, "StaffRoles", "exportDepartmentsCsv", {200}),
     Get(<<"lookups">>, Permitted, "StaffRoles", "getLookups", {200}) >>

StaffProfile ==
  << Get(<<"profile">>, Token, "StaffUsers", "getProfile", {200}),
     Post(<<"add-user">>, Permitted \o <<Validate>>, "StaffUsers", "addUser", {200}),
     Patch(<<"users", ":", "status">>, Permitted, "StaffUsers", "toggleUserActive", {200}) >>

StaffUpdate ==
  << Patch(<<"users", ":">>, Permitted, "StaffUsers", "updateUser", {200}) >>

RoleRoutes ==
  << Post(<<"roles">>, Permitted, "StaffUsers", "createRole", {200}),
     Get(<<"roles">>, Permitted, "StaffUsers", "getRoles", {200}) >>

RoleDetails ==
  << Get(<<"roles", "stats">>, Permitted, "StaffUsers", "getRoleStats", {200}),
     Get(<<"roles", ":">>, Permitted, "StaffUsers", "getRole", {200}),
     Get(<<"roles", ":", "permissions">>, Permitted, "StaffRoles", "getRolePermissions", {200}),
     Patch(<<"roles", ":", "status">>, Permitted, "StaffUsers", "toggleRoleActive", {200}) >>

PermissionRoutes ==
  << Get(<<"permissions">>, Permitted, "Departments", "getPermissions", {200}),
     Get(<<"modules">>, Open, "Departments", "getPermissionModules", {200}),
     Put(<<"roles", ":">>, Permitted, "StaffUsers", "updateRole", {200}) >>

RoleDelete ==
  << Delete(<<"roles", ":">>, Permitted, "StaffRoles", "deleteRole", {200}),
     Post(<<"departments">>, Permitted, "StaffRoles", "createDepartment", {200}),
     Get(<<"departments">>, Permitted, "StaffRoles", "getDepartments", {200}),
     Get(<<"departments", "stats">>, Permitted, "Departments", "getDepartmentStats", {200}) >>

DepartmentRoutes ==
  << Patch(<<"departments", ":", "status">>, Permitted,
       "Departments", "toggleDepartmentActive", {200}),
     Get(<<"departments", ":">>, Permitted, "Departments", "getDepartment", {200}),
     Put(<<"departments", ":">>, Permitted, "Departments", "updateDepartment", {200}),
     Delete(<<"departments", ":">>, Permitted, "Departments", "deleteDepartment", {200}) >>

-----------------------------------------------------------------------------
(* admin: customer.routes                                                  *)

CustomerLists ==
  << Get(<<>>, Permitted, "CustomerDesk", "listCustomers", {200}),
     Get(<<"all">>, Permitted, "CustomerDesk", "listAllCustomers", {200}),
     Get(<<"export">>, Permitted, "CustomerExport", "exportCustomersCsv", {200}) >>

CustomerDetails ==
  << Get(<<"counts">>, Permitted, "CustomerDesk", "getCustomerCounts", {200}),
     Get(<<"flags", "all">>, Permitted, "CustomerDesk", "listAllFlags", Unlisted),
     Patch(<<"flags", ":", "status">>, Permitted, "CustomerDesk", "updateFlagStatus", Unlisted),
     Get(<<":">>, Permitted, "CustomerDesk", "getCustomer", {200}),
     Get(<<":", "flags">>, Permitted, "CustomerDesk", "listCustomerFlags", {200}),
     Patch(<<":", "deactivate">>, Permitted, "CustomerDesk", "deactivateCustomer", {200}) >>

CustomerStatus ==
  << Patch(<<":", "status">>, Permitted, "CustomerDesk", "toggleActiveStatus", {200}),
     Post(<<":", "flags">>, Permitted, "CustomerDesk", "createFlag", {201}),
     Get(<<":", "transactions">>, Permitted, "CustomerDesk", "getCustomerTransactions", {200}) >>

-----------------------------------------------------------------------------
(* admin: transaction.routes                                               *)

TransactionLists ==
  << Get(<<"stats">>, Permitted, "TransactionDesk", "stats", {200}),
     Get(<<>>, Permitted, "TransactionDesk", "list", {200}),
     Get(<<"export">>, Permitted, "TransactionDesk", "exportCsv", {200}) >>

BuySell ==
  << Get(<<"buy">>, Permitted, "TransactionDesk", "listBuy", {200}),
     Get(<<"sell">>, Permitted, "TransactionDesk", "listSell", {200}) >>

ReceiveDetails ==
  << Get(<<"receive">>, Permitted, "TransactionDesk", "listReceive", {200}),
     Get(<<":">>, Permitted, "TransactionDesk", "get", {200}),
     Post(<<":", "request-info">>, Permitted, "TransactionDesk", "requestInfo", {200}) >>

Decisions ==
  << Post(<<":", "review">>, Permitted, "TransactionDesk", "review", {200}),
     Post(<<":", "approve">>, Permitted, "TransactionDesk", "approve", {200}),
     Post(<<":", "reject">>, Permitted, "TransactionDesk", "reject", {200}) >>

DocumentDecisions ==
  << Post(<<":", "documents", ":", "approve">>, Permitted,
       "TransactionDesk", "approveDocument", {200}),
     Post(<<":", "documents", ":", "reject">>, Permitted, "DocumentDesk", "rejectDocument", {200}),
     Post(<<":", "documents", ":", "request-info">>, Permitted,
       "DocumentDesk", "requestMoreInfoOnDocument", {200}) >>

Settle ==
  << Post(<<":", "settle">>, Permitted, "DocumentDesk", "settle", {200}) >>

-----------------------------------------------------------------------------
(* admin: agent.routes                                                     *)

AgentLists ==
  << Get(<<"stats">>, Permitted, "AgentDesk", "stats", {200}),
     Get(<<>>, Permitted, "AgentDesk", "list", {200}),
     Get(<<"all">>, Permitted, "AgentDesk", "listAll", {200}) >>

AgentExport ==
  << Get(<<"export">>, Permitted, "AgentStatus", "exportCsv", {200}),
     Post(<<>>, Permitted \o <<CheckedUpload>>, "AgentDesk", "create", {201}),
     Get(<<":">>, Permitted, "AgentDesk", "get", {200}) >>

AgentTransactions ==
  << Patch(<<":">>, Permitted \o <<CheckedUpload>>, "AgentStatus", "update", {200}),
     Get(<<":", "transactions">>, Permitted, "AgentDesk", "getTransactions", {200}),
     Get(<<":", "transactions", "export">>, Permitted,
       "AgentDesk", "exportTransactionsCsv", {200}) >>

AgentDownloads ==
  << Get(<<":", "transactions", ":", "receipt", "download">>, Permitted,
       "AgentDesk", "downloadTransactionReceipt", {200}),
     Get(<<":", "transactions", ":", "documents", ":", "download">>, Permitted,
       "AgentDesk", "downloadTransactionDocument", {200}) >>

AgentOneTransaction ==
  << Get(<<":", "transactions", ":">>, Permitted, "AgentDesk", "getTransaction", {200}),
     Patch(<<":", "status">>, Permitted, "AgentStatus", "updateStatus", {200}) >>

AgentApproval ==
  << Patch(<<":", "deactivate">>, Permitted, "AgentStatus", "deactivate", {200}),
     Patch(<<":", "approval">>, Permitted, "AgentStatus", "updateApproval", {200}) >>

-----------------------------------------------------------------------------
(* admin: outlet.routes                                                    *)

FranchiseRoutes ==
  << Get(<<"franchises", "stats">>, Permitted, "Franchises", "franchiseStats", {200}),
     Get(<<"franchises">>, Permitted, "Franchises", "listFranchises", {200}),
     Post(<<"franchises">>, Permitted, "Franchises", "createFranchise", {201}),
     Patch(<<"franchises", ":", "status">>, Permitted,
       "Franchises", "updateFranchiseStatus", {200}) >>

FranchiseBranches ==
  << Patch(<<"franchises", ":", "approve">>, Permitted,
       "FranchiseViews", "approveFranchise", {200}),
     Get(<<"franchises", ":", "branches">>, Permitted,
       "FranchiseViews", "listFranchiseBranches", {200}),
     Get(<<"franchises", ":", "branches", "export">>, Permitted,
       "FranchiseViews", "exportFranchiseBranches", {200}),
     Get(<<"franchises", ":", "branches", "all">>, Permitted,
       "FranchiseViews", "listFranchiseBranchesAll", {200}) >>

FranchiseTransactions ==
  << Get(<<"franchises", ":", "transactions">>, Permitted,
       "FranchiseViews", "listFranchiseTransactions", {200}),
     Get(<<"franchises", ":", "transactions", "export">>, Permitted,
       "FranchiseViews", "exportFranchiseTransactions", {200}) >>

FranchiseDetails ==
  << Get(<<"franchises", "export">>, Permitted, "FranchiseViews", "exportFranchises", {200}),
     Get(<<"franchises", ":">>, Permitted, "FranchiseViews", "getFranchise", {200}),
     Put(<<"franchises", ":">>, Permitted, "Franchises", "updateFranchise", {200}) >>

PickupRoutes ==
  << Get(<<"pickup-stations">>, Permitted, "Franchises", "listPickupStations", {200}),
     Get(<<"pickup-stations", "export">>, Permitted, "Franchises", "exportPickupStations", {200}),
     Post(<<"pickup-stations">>, Permitted, "Franchises", "createPickupStation", {201}) >>

PickupDetails ==
  << Get(<<"pickup-stations", ":">>, Permitted, "Franchises", "getPickupStation", {200}),
     Put(<<"pickup-stations", ":">>, Permitted, "Franchises", "updatePickupStation", {200}),
     Delete(<<"pickup-stations", ":">>, Permitted, "Franchises", "deletePickupStation", {200}) >>

BranchLists ==
  << Get(<<"branches">>, Permitted, "FranchiseViews", "listBranches", {200}),
     Get(<<"branches", "export">>, Permitted, "FranchiseViews", "exportBranches", {200}),
     Get(<<"branches", "all">>, Permitted, "FranchiseViews", "listAllBranches", {200}),
     Get(<<"states">>, Open, "Branches", "listNigeriaStates", {200}) >>

BranchCities ==
  << Get(<<"states", ":", "cities">>, Open, "Branches", "listNigeriaCitiesByState", {200}),
     Get(<<"branches", "stats">>, Permitted, "FranchiseViews", "branchStats", {200}),
     Post(<<"branches">>, Permitted, "Branches", "createBranch", {201}),
     Get(<<"branches", ":">>, Permitted, "Branches", "getBranch", {200}) >>

BranchDetails ==
  << Put(<<"branches", ":">>, Permitted, "Branches", "updateBranch", {200}),
     Get(<<"branches", ":", "transactions">>, Permitted,
       "FranchiseViews", "listBranchTransactions", {200}) >>

BranchStatus ==
  << Patch(<<"branches", ":", "status">>, Permitted, "Branches", "updateBranchStatus", {200}),
     Get(<<"branches", ":", "agents">>, Permitted, "Branches", "listBranchAgents", {200}),
     Get(<<"branches", ":", "agents", "export">>, Permitted,
       "Branches", "exportBranchAgents", {200}) >>

BranchAgents ==
  << Post(<<"branches", ":", "agents">>, Permitted, "Branches", "addAgents", {200}) >>

-----------------------------------------------------------------------------
(* admin: settlement.routes                                                *)

EscrowRoutes ==
  << Get(<<"stats">>, Permitted, "Escrow", "stats", {200}),
     Get(<<"discrepancies">>, Permitted, "Escrow", "discrepancies", {200}),
     Get(<<"pending-reconciliations">>, Permitted, "Escrow", "pendingReconciliations", {200}),
     Get(<<"escrow-accounts">>, Permitted, "Escrow", "escrowAccounts", {200}),
     Post(<<"escrow-accounts">>, Permitted, "Escrow", "createEscrowAccount", {201}) >>

BankRoutes ==
  << Get(<<"banks">>, Permitted, "Escrow", "bankList", {200}),
     Post(<<"banks", "verify">>, Permitted, "Escrow", "verifyBankAccount", {200}),
     Get(<<"funding-transactions">>, Permitted, "Escrow", "fundingTransactions", {200}) >>

-----------------------------------------------------------------------------
(* admin: workflow.routes                                                  *)

WorkflowLists ==
  << Get(<<"stats">>, Permitted, "Workflow", "stats", {200}),
     Get(<<"actions">>, Permitted, "Workflow", "actions", {200}),
     Get(<<"actions", "export">>, Permitted, "Workflow", "exportActionsCsv", Unlisted),
     Post(<<"templates">>, Permitted, "Workflow", "createTemplate", {200}),
     Post(<<"templates", "draft">>, Permitted, "Workflow", "saveDraft", {200}) >>

TemplateRoutes ==
  << Get(<<"templates">>, Permitted, "Workflow", "listTemplates", {200}),
     Get(<<"templates", ":">>, Permitted, "Workflow", "getTemplate", {200}),
     Patch(<<"templates", ":">>, Permitted, "Workflow", "updateTemplate", {200}),
     Post(<<"templates", ":", "publish">>, Permitted, "Workflow", "publishTemplate", {200}),
     Get(<<"management", "stats">>, Permitted, "Workflow", "managementStats", {200}) >>

WorkflowManagement ==
  << Get(<<"management", "list">>, Permitted, "Workflow", "managementList", {200}),
     Post(<<"templates", ":", "activate">>, Permitted, "Workflow", "activateTemplate", {200}),
     Post(<<"templates", ":", "deactivate">>, Permitted, "Workflow", "deactivateTemplate", {200}),
     Post(<<"templates", "export">>, Permitted, "Workflow", "exportTemplates", {200}) >>

-----------------------------------------------------------------------------
(* admin: tickets.routes                                                   *)

TicketLists ==
  << Get(<<"stats">>, Permitted, "TicketDesk", "stats", {200}),
     Get(<<"case-types">>, Permitted, "TicketDesk", "caseTypes", {200}),
     Get(<<"statuses">>, Permitted, "TicketDesk", "statuses", {200}),
     Get(<<>>, Permitted, "TicketDesk", "list", {200}) >>

TicketExport ==
  << Get(<<"export">>, Permitted, "TicketThread", "exportCsv", {200}),
     Post(<<>>, Permitted \o <<CheckedUpload>>, "TicketDesk", "create", {201}),
     Get(<<":">>, Permitted, "TicketDesk", "get", {200}) >>

TicketChanges ==
  << Patch(<<":">>, Permitted \o <<CheckedUpload>>, "TicketDesk", "update", {200}),
     Patch(<<":", "status">>, Permitted, "TicketDesk", "updateStatus", {200}),
     Post(<<":", "assign">>, Permitted, "TicketThread", "assignTo", {200}) >>

TicketComments ==
  << Get(<<":", "comments">>, Permitted, "TicketThread", "comments", {200}),
     Post(<<":", "comments">>, Permitted, "TicketThread", "comment", {201}) >>

-----------------------------------------------------------------------------
(* admin: rate.routes                                                      *)

RateLists ==
  << Get(<<"stats">>, Permitted, "Rates", "stats", {200}),
     Get(<<"export">>, Permitted, "Rates", "export", {200}),
     Get(<<>>, Permitted, "Rates", "list", {200}) >>

RateChanges ==
  << Get(<<":">>, Permitted, "Rates", "get", {200}),
     Post(<<>>, Permitted, "Rates", "create", {201}),
     Put(<<":">>, Permitted, "Rates", "update", {200}),
     Patch(<<":", "deactivate">>, Permitted, "Rates", "deactivate", {200}) >>

-----------------------------------------------------------------------------
(* admin: audit.routes                                                     *)

TrailRoutes ==
  << Get(<<"trail">>, Permitted, "Trail", "list", {200}),
     Get(<<"trail", "export">>, Permitted, "Trail", "export", {200}) >>

-----------------------------------------------------------------------------
(* admin: report.routes                                                    *)

ReportModules ==
  << Get(<<"modules">>, Permitted, "Reports", "modules", {200}) >>

ReportGenerate ==
  << Post(<<"generate">>, Permitted, "Reports", "generate", {200}) >>

-----------------------------------------------------------------------------
(* admin: regulatory.routes                                                *)

ComplianceReports ==
  << Get(<<"compliance", "dashboard">>, Permitted, "Regulatory", "complianceDashboard", {200}),
     Get(<<"compliance", "reports">>, Permitted, "Regulatory", "complianceReportsList", {200}),
     Get(<<"compliance", "reports", ":">>, Permitted,
       "Regulatory", "complianceReportDetails", {200}),
     Post(<<"compliance", "reports", "export">>, Permitted,
       "Regulatory", "exportSubmissions", {200}),
     Get(<<"trms", "stats">>, Permitted, "Regulatory", "trmsStats", {200}) >>

TrmsRoutes ==
  << Get(<<"trms", "list">>, Permitted, "Regulatory", "trmsList", {200}),
     Get(<<"trms", "details", ":">>, Permitted, "Regulatory", "trmsDetails", {200}),
     Post(<<"trms", "submit", ":">>, Permitted, "Regulatory", "trmsSubmit", {200}),
     Get(<<"trms", "status", ":">>, Permitted, "Regulatory", "trmsCheckStatus", {200}),
     Post(<<"trms", "export">>, Permitted, "Regulatory", "exportSubmissions", {200}),
     Get(<<"cbn-fn", "stats">>, Permitted, "Regulatory", "fnWindowStats", {200}) >>

CbnReports ==
  << Get(<<"cbn-fn", "reports">>, Permitted, "Regulatory", "cbnFnReportsList", {200}),
     Get(<<"cbn-fn", "reports", ":">>, Permitted, "Regulatory", "cbnFnReportDetails", {200}),
     Get(<<"cbn-fn", "rates">>, Permitted, "Regulatory", "fnWindowRates", {200}),
     Get(<<"cbn-fn", "rates", ":", ":">>, Permitted, "Regulatory", "fnWindowRate", {200}) >>

AuditLogs ==
  << Get(<<"logs", "audit">>, Permitted, "Regulatory", "auditLogsList", {200}),
     Get(<<"logs", "audit", "export">>, Permitted, "Regulatory", "exportAuditLogs", {200}),
     Get(<<"logs", "audit", ":">>, Permitted, "Regulatory", "auditLogDetails", {200}) >>

RegulatoryLogs ==
  << Get(<<"logs", "regulatory">>, Permitted, "Regulatory", "regulatoryLogsList", {200}),
     Get(<<"logs", "regulatory", "export">>, Permitted,
       "RegulatoryExport", "exportRegulatoryLogs", {200}),
     Get(<<"logs", "regulatory", ":">>, Permitted, "Regulatory", "regulatoryLogDetails", {200}) >>

-----------------------------------------------------------------------------
(* admin: admin-notification.routes                                        *)

StaffNoticeRoutes ==
  << Get(<<>>, Token, "StaffNotices", "listAll", {200}),
     Get(<<"unread">>, Token, "StaffNotices", "listUnread", {200}),
     Post(<<":", "read">>, Token, "StaffNotices", "markAsRead", {200}) >>

-----------------------------------------------------------------------------
(* customer: customer-transaction.routes                                   *)

OrderCreate ==
  << Post(<<"transactions">>, Open, "Orders", "createTransaction", {201}) >>

OrderDocuments ==
  << Post(<<"transactions", ":", "documents">>, <<Upload>>, "Orders", "uploadDocuments", {200}) >>

OrderList ==
  << Get(<<"transactions">>, Open, "Orders", "getMyTransactions", {200}) >>

OrderExport ==
  << Get(<<"transactions", "export">>, Open, "Pickup", "exportMyTransactions", {200}),
     Get(<<"transactions", "rates">>, Open, "Orders", "getActiveRates", {200}) >>

OrderRates ==
  << Post(<<"transactions", "rates", "calculate">>, Open, "Orders", "calculateAmount", {200}),
     Get(<<"transactions", "pickup-points">>, Open, "Orders", "getPickupPoints", {200}) >>

OrderDetails ==
  << Get(<<"transactions", ":">>, Open, "Pickup", "getTransactionDetails", {200}) >>

PickupPlaces ==
  << Get(<<"transactions", "pickup-locations", "states">>, Open,
       "Pickup", "getPickupStates", {200}),
     Get(<<"transactions", "pickup-locations", "cities">>, Open,
       "Pickup", "getPickupCities", {200}) >>

PickupTerminals ==
  << Get(<<"transactions", "pickup-locations", "terminals">>, Open,
       "Pickup", "getPickupTerminals", {200}) >>

PickupSlots ==
  << Get(<<"transactions", "pickup-locations", "check-availability">>, Open,
       "Terminals", "checkTerminalAvailability", {200}),
     Get(<<"transactions", "pickup-locations", "availability-slots">>, Open,
       "Terminals", "getTerminalAvailabilitySlots", {200}) >>

OrderTotals ==
  << Post(<<"transactions", "totals">>, Open, "Terminals", "getTransactionTotals", {200}) >>

-----------------------------------------------------------------------------
(* agents: agent-customer.routes                                           *)

AgentCustomerList ==
  << Get(<<"customers">>, Open, "AgentCustomers", "listAgentCustomers", {200}),
     Get(<<"customers", "stats">>, Open, "AgentCustomers", "getCustomerStats", {200}) >>

AgentCustomerOne ==
  << Get(<<"customers", ":">>, Open, "AgentCustomers", "getAgentCustomerDetails", {200}) >>

AgentCustomerOrders ==
  << Get(<<"customers", ":", "transactions">>, Open,
       "AgentCustomers", "listCustomerTransactions", {200}) >>

AgentCustomerUpdate ==
  << Patch(<<"customers", ":">>, Open, "AgentCustomers", "updateAgentCustomer", {200}) >>

-----------------------------------------------------------------------------
(* agents: agent-transaction.routes                                        *)

AgentOrderStats ==
  << Get(<<"stats">>, Open, "AgentOrders", "getTransactionStats", {200}),
     Get(<<"export">>, Open, "Disbursement", "exportTransactions", {200}) >>

AgentOrderList ==
  << Get(<<>>, Open, "AgentOrders", "listTransactions", {200}) >>

AgentOrderOne ==
  << Get(<<":">>, Open, "AgentOrders", "getTransactionById", {200}) >>

AgentOrderCreate ==
  << Post(<<>>, Open, "AgentOrders", "createTransaction", {201}) >>

AgentOrderReceipt ==
  << Post(<<":", "documents">>, <<Upload>>, "AgentOrders", "uploadDocuments", {200}),
     Post(<<":", "disbursement", "record">>, <<CheckedUpload>>,
       "Disbursement", "recordDisbursement", {200}) >>

-----------------------------------------------------------------------------
(* agents: agent-support.routes                                            *)

AgentTickets ==
  << Post(<<"tickets">>, <<CheckedUpload>>, "AgentSupport", "createTicket", {201}),
     Get(<<"tickets">>, Open, "AgentSupport", "listTickets", {200}) >>

AgentTicket ==
  << Get(<<"tickets", ":">>, Open, "AgentSupport", "getTicketDetails", {200}) >>

-----------------------------------------------------------------------------
(* customer: customer-support.routes                                       *)

SupportCreate ==
  << Post(<<"tickets">>, <<CheckedUpload>>, "Support", "createTicket", {201}) >>

SupportList ==
  << Get(<<"tickets">>, Open, "Support", "getMyTickets", {200}) >>

SupportOne ==
  << Get(<<"tickets", ":">>, Open, "Support", "getTicketDetails", {200}) >>

SupportReference ==
  << Get(<<"tickets", "reference", ":">>, Open, "Support", "getTicketByReference", {200}) >>

-----------------------------------------------------------------------------
(* documents: document.routes                                              *)

DocumentUpload ==
  << Post(<<"upload">>, <<Upload>>, "Uploads", "uploadSingle", {201}),
     Post(<<"upload", "multiple">>, <<Upload>>, "Uploads", "uploadMultiple", {201}) >>

DocumentGet ==
  << Get(<<":">>, Open, "Uploads", "getDocument", {200}),
     Get(<<"transaction", ":">>, Open, "Uploads", "getTransactionDocuments", {200}) >>

DocumentList ==
  << Get(<<>>, Open, "UserDocuments", "getUserDocuments", {200}),
     Delete(<<":">>, Open, "UserDocuments", "deleteDocument", {200}) >>

-----------------------------------------------------------------------------
(* audit: audit.routes                                                     *)

EventRoutes ==
  << Get(<<"events">>, AdminOnly, "Events", "listEvents", {200}),
     Get(<<"events", ":">>, AdminOnly, "Events", "getEvent", {200}),
     Get(<<"security">>, AdminOnly, "Events", "listSecurityEvents", {200}),
     Get(<<"security", "summary">>, AdminOnly, "Events", "securitySummary", {200}),
     Patch(<<"security", ":", "resolve">>, AdminOnly, "Events", "resolveSecurityEvent", {200}),
     Get(<<"stats">>, AdminOnly, "Events", "getStats", {200}),
     Get(<<"stats", "event-types">>, AdminOnly, "Activity", "getEventTypeFrequency", {200}) >>

ActivityRoutes ==
  << Get(<<"stats", "volume">>, AdminOnly, "Activity", "getHourlyVolume", {200}),
     Get(<<"users", ":", "activity">>, AdminOnly, "Activity", "getUserActivity", {200}),
     Get(<<"resources", ":", ":">>, AdminOrCompliance, "Activity", "getResourceHistory", {200}),
     Get(<<"compliance", "timeline">>, AdminOrCompliance,
       "Activity", "getComplianceTimeline", {200}),
     Get(<<"trace", ":">>, AdminOnly, "Activity", "getCorrelationTrace", {200}),
     Get(<<"trail">>, AdminOnly, "Events", "listEvents", Unlisted),
     Get(<<"trail", "user", ":">>, AdminOnly, "Activity", "getUserActivity", Unlisted),
     Get(<<"trail", ":", ":">>, AdminOrCompliance, "Activity", "getResourceHistory", Unlisted),
     Get(<<"security-events">>, AdminOnly, "Events", "listSecurityEvents", Unlisted) >>

-----------------------------------------------------------------------------
(* notifications: notification.routes                                      *)

DeviceRoutes ==
  << Post(<<"devices">>, Open, "Devices", "registerDevice", {200}),
     Delete(<<"devices">>, Open, "Devices", "unregisterDevice", {200}),
     Get(<<"devices">>, Open, "Devices", "getDevices", {200}),
     Get(<<"preferences">>, Open, "Devices", "getPreferences", {200}),
     Put(<<"preferences">>, Open, "Devices", "updatePreferences", {200}) >>

NoticeRoutes ==
  << Get(<<>>, Open, "Notices", "getNotifications", {200}),
     Get(<<"unread", "count">>, Open, "Notices", "getUnreadCount", {200}),
     Post(<<":", "read">>, Open, "Notices", "markAsRead", {200}),
     Post(<<"read-all">>, Open, "Notices", "markAllAsRead", {200}),
     Post(<<"test">>, Open, "Notices", "sendTestNotification", {200}),
     Post(<<"topics", "subscribe">>, Open, "Topics", "subscribeToTopic", {200}) >>

TopicRoutes ==
  << Post(<<"topics", "unsubscribe">>, Open, "Topics", "unsubscribeFromTopic", {200}) >>

-----------------------------------------------------------------------------
(* payments: providus-webhook.routes                                       *)

WebhookRoutes ==
  << Post(<<"deposit">>, Open, "Webhooks", "handleDepositNotification", {200}),
     Post(<<"settlement">>, Open, "Webhooks", "handleSettlementNotification", {200}),
     Get(<<"health">>, Open, "Webhooks", "healthCheck", {200}) >>

-----------------------------------------------------------------------------
(* admin: virtual-account.routes                                           *)

AccountDeskRoutes ==
  << Post(<<>>, Open, "AccountDesk", "createVirtualAccount", {201}),
     Get(<<"transaction", ":">>, Open, "AccountDesk", "getVirtualAccountByTransaction", {200}),
     Get(<<":">>, Open, "AccountDesk", "getVirtualAccountByNumber", {200}),
     Post(<<":", "blacklist">>, Open, "AccountDesk", "blacklistAccount", {200}),
     Post(<<":", "unblacklist">>, Open, "AccountDesk", "unblacklistAccount", {200}),
     Post(<<"deactivate-expired">>, Open, "DepositDesk", "deactivateExpiredAccounts", {200}) >>

DepositDeskRoutes ==
  << Post(<<"deposits", "verify">>, Open, "AccountDesk", "manualVerifyDeposit", Unlisted),
     Get(<<"deposits", "transaction", ":">>, Open,
       "DepositDesk", "getTransactionDeposits", Unlisted) >>

-----------------------------------------------------------------------------
(* customer: customer-virtual-account.routes                               *)

CustomerAccountRoutes ==
  << Post(<<"transactions", ":", "virtual-account">>, Open,
       "CustomerAccount", "createTransactionVirtualAccount", {200, 201}),
     Get(<<"transactions", ":", "virtual-account">>, Open,
       "Instructions", "getTransactionVirtualAccount", {200}),
     Get(<<"transactions", ":", "deposit-instructions">>, Open,
       "Instructions", "getDepositInstructions", {200}),
     Get(<<"transactions", ":", "deposit-status">>, Open,
       "DepositStatus", "getDepositStatus", {200}) >>

-----------------------------------------------------------------------------
(* admin: settlement-management.routes                                     *)

SettlementRoutes ==
  << Post(<<>>, Open, "Settlements", "createSettlement", Unlisted),
     Get(<<>>, Open, "SettlementViews", "listSettlements", Unlisted),
     Get(<<":">>, Open, "SettlementViews", "getSettlement", Unlisted),
     Post(<<":", "approve">>, Open, "Settlements", "approveSettlement", Unlisted),
     Post(<<":", "process">>, Open, "Settlements", "processSettlement", Unlisted),
     Post(<<":", "complete">>, Open, "SettlementViews", "completeSettlement", Unlisted),
     Post(<<":", "reconcile">>, Open, "Reconciling", "reconcileSettlement", Unlisted),
     Post(<<"batches">>, Open, "Settlements", "createBatch", Unlisted),
     Get(<<"batches">>, Open, "SettlementViews", "listBatches", Unlisted),
     Get(<<"batches", ":">>, Open, "SettlementViews", "getBatch", Unlisted),
     Post(<<"batches", ":", "approve">>, Open, "Settlements", "approveBatch", Unlisted),
     Post(<<"batches", ":", "process">>, Open, "SettlementViews", "processBatch", Unlisted),
     Post(<<"batches", ":", "reconcile">>, Open, "Reconciling", "reconcileBatch", Unlisted),
     Get(<<"reconciliations", "pending">>, Open,
       "Reconciling", "getPendingReconciliations", Unlisted),
     Get(<<"reconciliations", "report">>, Open, "Reconciling", "getReconciliationReport", Unlisted),
     Post(<<"reconciliations", ":", "resolve">>, Open,
       "Reconciling", "resolveVariance", Unlisted) >>

-----------------------------------------------------------------------------
(* agents: agent-dashboard.routes                                          *)

RecentTransactions ==
  << Get(<<"recent-transactions">>, Open, "AgentDashboard", "listRecentTransactions", {200}) >>

TransactionsByType ==
  << Get(<<"transactions-by-type">>, Open, "AgentDashboard", "getTransactionsByType", {200}) >>
=============================================================================
