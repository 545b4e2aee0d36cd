# Verification of sohcahtoa

TLA+ models of the foreign-exchange platform in `src/`, the TLC runs that check
them on small instances, and TLAPS proofs of what holds for any instance.

The platform is one Node.js process (Express, Prisma over PostgreSQL, Redis, an
in-memory event bus). It has no tests and few database transactions: a handler
runs until it awaits, another may run then, and what two handlers do to a row is
decided by the order of their awaited statements, by the unique keys of the
schema, and by status guards, most of which are read in one statement and relied
on in a later one. That is what the models are about.

## Inventory

Each part: its state; what changes it; what is hard; what makes it correct.

| Part | State | Changed by | Hard | Correct when | Modules |
|---|---|---|---|---|---|
| deposits (`deposit-verification`, `payment`, `admin` services) | ProvidusDeposit, Settlement, Transaction.status | bank webhook, verification, manual verification, staff confirmation | repeated and overlapping notifications, failure after each write, crash | a credit names a transfer the bank answered for, and an account and an amount that one source gave; nothing is credited twice; a notified deposit does not stay PENDING | Deposits, CreditLedger |
| virtual accounts (`virtual-account`, its controllers) | VirtualAccount, the bank's own accounts | customer and staff requests, blacklisting, expiry job | slow bank call between guard and write, lost answer | a transaction awaiting a deposit has an account the bank opened for it; its number is kept | VirtualAccounts |
| outbound settlements (`settlement`, `recordDisbursement`) | OutboundSettlement, SettlementBatch, Transaction.status | approval, processing singly and by batch, completion | read-then-write guards, partial failure of a batch, retries | nothing is paid unapproved or twice; a SUBMITTED batch is paid | Payouts |
| reconciliation (`settlement-reconciliation`) | SettlementReconciliation, OutboundSettlement.status | staff, by hand or by batch | find-then-create around a bank call, zero amount, a tolerance on doubles, two statements for one outcome | a record's verdict is that of its amount; a settlement is completed for a reported amount within a cent only | Reconciliation |
| transactions and their review (`customer-transaction`, `agent-transaction`, `admin-transactions`) | Transaction.status and step, documents, pickup, step log, history | creation, uploads, staff decisions, disbursement | several statements without a transaction, steps written from stale reads, no guard on the current status | a decision about a document stands; an approval covers every document; an approval is recorded | Transactions |
| exchange rates (`payment`, `rate`) | ExchangeRate, the cached pair | staff, reads that fill the cache, time | invalidation racing a fill; a second service that does not invalidate | a quote was the database's answer less than 300 s and one request ago | RateCache, FreshRate |
| passwords and sessions (`auth`, `agent-auth`) | User, UserCredential, Agent, Session, reset tokens | login, logout, reset, agents' passwords | increments in memory, get-then-delete, one password in two rows | an old password opens nothing; guesses are bounded; a token works once | Sessions |
| one-time codes (`auth`) | OtpLog, two Redis keys a code | sendOtp, validateOtp, time | three copies written and deleted apart | an accepted code was sent there within its life | Otp |
| signup (`auth`, `agent-customer`) | User, UserKyc, verification sessions | signup by customers and agents, KYC update | check-then-insert, resumed accounts | a verified document is one a service examined, as far as the code looks; a session makes one account | Signup |
| staff accounts (`admin-auth`, `user-management`) | AdminUser, Token | invitation, login code, reset, change | end-then-create of tokens, find-then-use | one live token of a kind, each used once | StaffTokens |
| roles and departments (`user-management`) | Role, Department, RolePermission | staff | permissions kept twice, one default | what a role shows is what it grants | StaffRoles |
| workflow templates (`workflow`) | template, stages, assignees | staff | delete and make again without a transaction | the stages are those of the last plan | WorkflowTemplates |
| tickets (`tickets`, `support`) | Ticket, thread, attachment | staff, customers, agents | note chosen from a stale read | the thread tells the status | Tickets |
| outlets and agents (`outlet`, `agent`) | Branch, PickupStation, Agent | staff | check then create, move of an agent by e-mail or phone | the agent named for a branch works there | Outlets |
| notifications (`notification`, `push-notification`) | preferences, device tokens, Notification.status | every service, devices, the push provider | several channels on one row, tokens that change hands | pushes reach their user; the token table is cleaned of dead tokens only | Notifications |
| routing and middleware (`app.ts`, `*.routes.ts`, controllers, `shared/middleware`, audit middleware) | the request on its way, AuditEvent | each request | routes and routers that hide one another, order of guards, controllers that rely on a guard elsewhere | a request reaches its own handler and no guard is passed by | Handlers, Routes, Api, Dispatch |
| outbox and event bus | OutboxEvent | creation of staff | nothing imports the worker that would publish the rows | - | not modelled |
| document verification, compliance, regulatory returns, reports, integrations | see "Not modelled" | | | | not modelled |

The parts interact through the rows: `Transaction.status` is written by nine
services, `Settlement` by three, `OutboundSettlement` by three. Calls to the
bank are awaited HTTP requests with a 30 s timeout (`providus.service.ts:99`).
Where a module sees another's writes it has an action for them that does what the
other module's does: `ReviewTransaction` of Deposits, `PaymentsWrite` of
Transactions, `ReconcileMatched` of Payouts, and the accepted one-time codes that
are an input of Sessions.

The plan was to take the parts in the order of the table, the money first. All
modules of it are written; what is left out of each is under "Not modelled".

## How the code is modelled

An action is the part of a handler between two awaits whose order others can
observe. Statements that write nothing anyone reads (logs, columns no decision
reads) are part of the action before or after them. `req[w]` is the local state of
the handler that runs as worker `w`: `pc` names the statement it will do next, the
other fields are the variables it still uses. A unique key is a test in the
insert. A Prisma `$transaction` is one action. A call that fails is an action
that follows the code's `catch` (`VerifyFails`, `BankFails`, ...), or that ends the
handler at any statement (`StepFails`, `Die`), which is also what a crash of the
process does to it. Deposits and Payouts have `Crash`, which ends all handlers at
once; none is resumed at start. A variable marked
"history" records what happened, for the properties only; no action is
guarded by one, except by the bound on `calls`.

`calm` is such a history: it is true as long as no two requests have overlapped
and, in the modules that say so, none has failed. A property of the form
`calm => ...` says what the code keeps when requests come one at a time, for any
sequence of them. Where the property is false without `calm` the code has a race
that the section "Where the code and its documents part" names; the runs
always explore the overlapping requests too.

### Deposits

`deposit[s]` is the row of the bank's session `s`, `settlement[t]` the inbound
settlement (`ref` is the paymentReference: a session, or `Staff`), `account[t]`
the blacklisting. `ReceiveWebhook`, `LookupDeposit`, `InsertDeposit` are
`handleDepositWebhook`; `VerifyDeposit`, `VerifyFails`, `MarkFailed` are
`verifyDeposit`; `SettleDeposit` to `NotifyConfirmed`, with `ConfirmFails`, are
`confirmTransactionDeposit`; `ManualVerify`, `ManualInsert` are
`manualVerifyDeposit`; `InitiateDeposit`, `ConfirmSettlement`, `AdminConfirm` and
`AdminSetConfirmed` are the other two services. Reviews by staff and payouts
appear as `ReviewTransaction`, which writes a status unconditionally, as they do.
Amounts are integers compared for equality, as the code compares them.

What a notification says is taken at its word: the webhook checks no signature
(`providus-webhook.controller.ts:14-49`), the row is made with its account and
its amount, and neither is compared with the bank's answer afterwards
(`deposit-verification.service.ts:42-44`, `68-74`, `128-145`). So the payloads that
may arrive are a constant of their own, `Notices`, apart from what the bank answers
(`AccountOf`, `Posted`). A row made by hand is made of the bank's answer. `answered` is a
history of the sessions the bank has answered for. `CreditBacked` says what the code
keeps of a credit: the bank knows the session, and account and amount come together from one
source (`Pays`, `Sourced`). That the source is right is the assumption
`TruthfulNotices`; `TruthfulNoticesSuffice` proves what follows from it.

`CreditLedger` says what the settlement rows promise: a transaction's credit is
set by a transfer that may pay for it only when there is none; staff may set it
at any time. `LedgerSpec` is checked and proved as a refinement.

### VirtualAccounts

`row[t]` is the VirtualAccount row, `bank[n]` the bank's account number `n`: who
it was opened for and whether it is blocked. A bank call and the statement after
it are two actions. `CustomerRequest` to `Deactivate` are the customer's
controller, `LookupAccount` to `SetAwaitingDeposit` are `createVirtualAccount`,
`AskBank` and `MarkRow` are `blacklistAccount` and `unblacklistAccount`. With
overlap or failure the rows and the bank need not agree, and nothing in the code
repairs it: `BankAgrees` and `NoOrphan` are about calm sequences.

### Payouts

`payout[p]` is an OutboundSettlement (`approved`: approvedBy is set; `reference`:
paymentReference is set), `batch[b]` a SettlementBatch with the members counted
in its metadata. A payout and the transaction it is linked to share a name.
`processSettlement` runs alone or in the loop of `processSettlementBatch`; a
handler with `batch` set returns to the loop. That the guard's own error is
caught by the same `catch`, which marks the payout FAILED, is in `AfterRead`.

### Reconciliation

`record[r]` is a SettlementReconciliation row (`manual`: `reconcileSettlement`
made it, `AUTO` otherwise), `payout[s]` the status of the settlement as far as
this service writes it, `reported[s]` a history of the amounts staff gave or the
bank answered. `Reconcile` to `CompletePayout` are `reconcileSettlement`: the bank
is asked if a session is given and its error is swallowed, a record is looked for,
then updated or made, and only a match goes on to the settlement.
`ReconcileBatch`, `AutoRecord`, `AutoFails` are `reconcileBatch` with
`createReconciliation`, which never looks for a record. That an amount of 0 counts
as none is in `NoAmount`. Amounts are counted in parts of a cent, `Cent` of them to 0.01,
the tolerance: less off is a match, and exactly a cent off may be one or not, since
the difference is one of doubles (10.03 - 10.02 comes out below 0.01, 1.01 - 1 does
not). The columns keep two decimals (`Nearest`), so that a match may be stored with a
variance.

### Transactions

`trx[t]` has the status and the current step of a Transaction, `doc[d]` a
TransactionDocument, `pickup` the transactions with a CashPickup, `trail[t]` what
TransactionStepLog and TransactionHistory record. `Create` to `CreatePickup` are
`createTransaction` of customers and, for them, of agents: one statement each,
with nothing undone when a later one fails. `Upload`, `StoreFile`, `MoveStep` and
`LogUpload` are `uploadDocuments`, which reads the step before the files are stored
and writes the next one afterwards. `RequestInformation`, `Review`, `Approve`, `Reject`,
`Settle` and the decisions on one document are `AdminTransactionsService`, whose
guards look at ids and not at the current status; an approval sweeps the documents
that are PENDING at the moment of `VerifyPending` by one conditional update, which is why
a rejection in between stands. `Disburse` is the agent's disbursement.

### RateCache and FreshRate

`row[r]` is an ExchangeRate row with the minutes between which it is valid,
`cache` the pair's key in Redis. `Lookup`, `Query`, `Fill` are `getExchangeRate`,
which reads the cache, then the table, then sets the key; `CreateRate` and `Clear`
are the payment service's `createExchangeRate`, which deletes the key after the
insert; `Schedule`, `Update` and `Deactivate` are `RateService`, which does not know
of the key. `Tick` is a minute; it waits for a request that is older than `Delay`.
`FreshRate` is what can be promised all the same: a quote was the database's
answer at most `TTL + Delay` ago. RateCache implements it by keeping, as history,
when each rate was last that answer.

### Sessions

`user[u]` joins User and UserCredential, `copy[a]` is Agent.password, `session[s]`
a Session with the password it was asked for, `token[k]` the reset token in Redis.
A password is the number of the write that set it. `Login`, `CountFailure`,
`ClearFailures`, `OpenSession` are `login`: one read, then the count or the
session. `VerifyResetOtp`, `IssueToken`, `ResetPassword`, `SpendToken`,
`WriteReset`, `EndSessions` are the reset. The agents' first and changed passwords write the
Agent row and then the User row. `LockPasses`, `TokenExpires` are time.

### Otp

`row[i]` is an OtpLog row, `mailKey` and `codeKey` the two Redis keys of one
purpose. `CreateRow`, `SetMailKey`, `SetCodeKey` are `sendOtp`; `Validate` to `Use`
are `validateOtp`, which asks the key of the code (without an e-mail), the key of
the e-mail, and then the table, and deletes what it found. `Life` is the ten minutes,
`Delay` how long a request may take between two statements.

### Signup

`user[u]` joins User and UserKyc, `token[k]` a verification session. `VerifyDocument`
and `OpenSession` are the verification of a BVN or a passport, which resumes an
unfinished account of the same document; `CreateAccount` to `Assign` turn the session
into an account, for an agent also into his customer. `SignUp`, `VerifyKyc` and
`UpdatePhone` write the same rows beside it. The number kept of a passport is the
one the caller typed, when there is one, and is not compared with the one on the image
(`auth.service.ts:1037`): `Seen` is what a service has looked at, the BVN itself or some
passport, and `examined`, with the e-mail of its answer, is history.

### StaffTokens, StaffRoles

`row[t]` is a Token of type OTP (LOGIN, RESET_OTP, WELCOME) or PASSWORD_RESET
(RESET, CHANGE). `AddUser` and `Invite`, `InitiateLogin` to `VerifyLogin`,
`ForgotPassword` to `SubmitNewPassword`, `VerifyOldPassword` to
`SubmitPasswordChange` are the services' operations; those that replace tokens in a
`$transaction` are one step, the login's are several. StaffRoles has `row[x]` for
roles and departments and `grant` for RolePermission; `ClearDefault`, `Check`, `Insert`,
`Change`, `Remove` are the statements of creation, update and deletion.

### WorkflowTemplates, Tickets, Outlets, Notifications

WorkflowTemplates: an update writes the row, deletes the stages and makes them again,
each stage before its assignees. Tickets: `ReadStatus` then `WriteStatus`, a
transaction that writes the status and the note chosen from what was read.
Outlets: the checks of name and e-mail, the insert, then `HireAgent` or `MoveAgent`
for the agent that a request names, whose failure is swallowed. Notifications:
`CheckPreferences`, `CreateNotification`, and the channels, one or the three of ALL in
`Promise.allSettled`, each of which writes the outcome on the one row (PENDING for SMS, which
is not sent); the push
reads the devices, sends, and deactivates the tokens the provider calls invalid.

### Handlers, Routes, Api, Dispatch

Handlers has one record for each handler of each controller: the statuses of its
success, those it refuses with itself, whether it wants to know its caller, and where its
failures go. Routes has each router's routes in the order of declaration: verb,
path, middleware, controller and handler, and the statuses of success on the
route's page of the API documentation. Api has the routers in the order in which
Express meets them. Dispatch carries one request through such a table: `Enter`,
`Match`, `Leave` are Express's routing, which takes the path of the router from
`req.url` and gives it back (external, modelled from how `app.ts` uses it);
`CheckToken` to `CheckBody` the middleware; `Serve` to `FailOpen` what handlers do;
`HandleError` and `NoMount` the last two handlers of `app.ts`; each answer may leave the event of
`auditMiddleware`.

## Runs

| Run | Instance | Shows |
|---|---|---|
| `deposits_race` | one transaction, two full transfers, two handlers, no crash; weak fairness | the losers of the race for `Settlement.transactionId` end FAILED; PENDING is always resolved |
| `deposits_crash` | two transactions with a transfer each, one without an expected amount; notifications with too low an amount and with another account than the bank's; the process may die anywhere | what is credited or confirmed is backed by a session the bank answered for and an account and amount from one source; the credit ledger is implemented |
| `payouts_batch` | two payouts, a batch, two handlers, crashes | nothing is paid unapproved; a SUBMITTED batch is paid |
| `payouts_live` | two payouts in two batches, one handler at a time; weak fairness | every member is counted |
| `payouts_double` | one payout, two handlers | violation: two overlapping requests submit it twice |
| `reconciliation_race` | two settlements of one cent, reported for one exactly a cent and two cents off, for the other nothing and a third of a cent off; two records, two handlers, any statement failing | a verdict is that of a reported amount; a calm settlement gets one record by hand and a match completes it |
| `transactions_live` | one transaction, two documents, two handlers, four requests; weak fairness, no failure | decisions stand, approvals cover; an approval is recorded in the end |
| `configuration` | two rates, two requests, a key of two minutes, four minutes; one template, three stages, four plans | quotes are fresh; the stages are those of a plan |
| `identity` | a customer and an agent, two sessions, two tokens, two attempts; two e-mails and codes; a BVN and two passports, two people | the properties of Sessions, Otp, Signup |
| `customers` | two transactions and numbers; two users, two devices, one notification; two places, two agents | the properties of VirtualAccounts, Notifications, Outlets |
| `back_office` | all routes, callers CUSTOMER, AGENT, ADMIN and none; two members of staff, three tokens; two roles, two departments; one ticket | the properties of Dispatch, StaffTokens, StaffRoles, Tickets |
| `requests_audit` | all routes | violation: an answered request is not filed under its part of the API |

`configuration`, `identity`, `customers` and `back_office` each check modules that
share no state side by side (their compositions are Configuration, Identity, Customers and
BackOffice; the MC modules add the small sets): `focus`, chosen at the start, says which of them moves, and the
others stay at their initial state. Their union is what separate runs would
explore. `MaxCalls` bounds the requests of a behaviour, to two validations in Otp, three in
Notifications and Outlets and four elsewhere.

Why the bounds are enough. A race is between two handlers at one row; a third
adds no new order of two statements, so two handlers and two rows of a kind make
each race happen. Sequences of calls that go wrong need a few calls: a token is
asked for, replaced, and used; a template is made and updated twice. In
`transactions_live` four requests let a customer create and upload between two
decisions. In `configuration` the key lives two minutes of a clock of four, so
that it expires, is filled again and outlives the rate it holds; a request may take one
minute. In `identity` two attempts make the limit, the lock and its
passing happen, and two equal codes may be drawn for two e-mails. Of signups, a service knows two people: an answer
with the e-mail of one and the phone of another comes about through plain signups and
changes of the phone. `payouts_batch` has one batch; that two take members over from each
other is explored in `payouts_live`, where requests do not overlap, and covered by the
theorem `PaidNeedsApproval`, for any number of batches and requests. In
`reconciliation_race` an insert beyond the two records does not happen: two overlapping
reconciliations of one settlement make one each, and a third request finds
either. The table of routes is the whole one. Symmetry is
used only in runs without liveness, over sets no constant tells apart.
The proofs cover any number of everything.

Fairness. The event loop resumes every handler and every call returns or times
out, so each handler's own next steps are weakly fair: in Deposits, in Payouts, and
in Transactions. Nobody has to send a request, and no failure has to happen. In
Deposits and Payouts the failures belong to the steps that must go on, with the one
assumption that the statement in the `catch` succeeds. `transactions_live` is
about the service while nothing fails (`Work`): no `catch` of that code goes on, so a
failure leaves an approval unrecorded. The invariants of that run are therefore model-checked
without failures only, and proved with them.

### Properties that hold for calm sequences only

`BankAgrees`, `NoOrphan`, `OneManualRecord`, `MatchedIsCompleted`, `GuessesBounded`,
`CopiesAgree`, `TokenOnce`, the login part of `OneOfAKind`, `UsedOnce`,
`StagesAreThePlan`, the open part of `ThreadTellsStatus`, `PushesReachTheirUser`,
`LiveTokensActive`, `NamedAgentWorksThere`. Each is over all sequences of requests;
each is lost as soon as two requests overlap at the statements its comment names.

## What is proved

For any sets of transactions, sessions, payouts, users, codes, plans, places, devices,
routers and handlers, and with failures or crashes, from the assumptions named in
the modules: the values used for "none" are not ids, amounts and times are integers,
a key lives at least a minute, and the stages of a plan are lists of staff
(`TemplatesAssumption`). Every inductive invariant was checked by TLC on the small
instances first.

A part's module states its properties; the modules Customers, Identity, Configuration
and BackOffice put the parts that are checked together side by side, and the theorems
about a part are in the proof module of its composition, about the part's own
`Spec`. `CustomersImplements`, `IdentityImplements`, `ConfigurationImplements` and
`BackOfficeImplements` carry them over: a step of the composition is one of the part
in focus and leaves the others alone. `CustomersKeeps`, `IdentityKeeps`,
`ConfigurationKeeps` and `BackOfficeKeeps` put it together: everything their runs check,
under the specification their runs check, for every value of the constants.

Money.

- Deposits (DepositsProofs): `TypeCorrect`, `DepositInvariant`, `CreditIsBacked`,
  `ConfirmationIsBacked`, `ImplementsLedger`, when the process does not die
  `SettledMeansCredited`, and, if notifications say what the bank says,
  `TruthfulNoticesSuffice`: a credit is then a transfer the bank made to that account. That the settlement inserted is backed depends on what
  the handler learnt two statements earlier, so `DepositInv` adds, for each program
  point, what a handler knows of its row (`HandlerOK`), and that rows keep it
  (`RowsOK`): no statement changes an amount or takes a row back to PENDING.
- Payouts (PayoutsProofs): `PayoutInvariant`, `PaidNeedsApproval`,
  `SubmittedBatchesArePaid`. The invariant adds that approvals and references are never
  taken back (`RowsKept`) and that PROCESSING is written together with the approver.
- Reconciliation (ReconciliationProofs): `RecordsInvariant`, `CompletedNeedsReport`,
  `VerdictsAreReported`. The invariant adds that a handler's amount was reported for its
  own settlement, that the record it found stays that settlement's, and that it completes
  at an amount within a cent; both survive other handlers because rows keep their settlement
  and reports are never taken back (`Kept`). `CalmInvariant`, `OneRecordEach`,
  `MatchedCompletes`: while nothing meets or fails, a handler that found no record
  is right until it writes one, and a match that is not completed yet is the one its handler
  is about to complete.
- VirtualAccounts (CustomersProofs): `AccountInvariant`, `AwaitingNeedsAccount`,
  `BlacklistedStaysInactive`, `NumbersAreKept`. The invariant adds that a handler
  about to insert holds a number the bank opened for its own transaction.
  `CalmInvariant`, `BankAndRowsAgree`, `NoAccountIsLost`: the row and the bank
  differ only between the two statements of the one handler at work.
- RateCache (ConfigurationProofs): `CacheInvariant`, `CacheImplementsFreshRate`. A rate
  on its way to the cache was read at most `Delay` ago, so the life of the key counts from a
  moment the history knows; every step maps to a step of FreshRate or to a stutter.
- Transactions (TransactionsProofs): `TransactionsInvariant`, `WordStandsAlways`,
  `ApprovalCoversAlways`. The invariant adds that a request has its new
  rows to itself (`Apart`), that an approval carries documents of its own transaction, none of them
  PENDING once the sweep is done.

Identity (IdentityProofs).

- Sessions: `SessionsInvariant`, `SessionsCurrentAlways`, `GuessesAreBounded`,
  `CopiesAlwaysAgree`, `TokensWorkOnce`. The invariant has a part that holds always
  (what a handler knows of the role, the copy, the token) and one that holds while
  requests are calm (`CalmOK`: at most one handler at work, the count of failures is that
  of the guesses, what was read still stands).
- Otp: `OtpInvariant`, `AcceptedCodesWereSent`. A key is written up to `Delay` after the
  row it copies, or twice that, and lives `Life` from then on; so the invariant
  says of each key and of each handler that a row with its code and e-mail was sent no
  longer ago than these add up to. Rows are never taken away, which is why no
  later code can spoil an earlier one's witness.
- Signup: `SignupInvariant`, `VerifiedAreExamined`, `OneAccountEach`. The e-mail a session or
  a request holds with a document is one a service gave for it, or that of an account there
  is already (`DataOK`); and whoever holds the data of a session that made an account
  meets an account with its e-mail (`MadeOnce`), so that the unique key refuses a second insert.
  That needs no calm: it holds however requests overlap.

Staff and their tools (BackOfficeProofs, ConfigurationProofs).

- Dispatch: `RequestInvariant`, `HandlersAreGuarded`, `UrlComesBack`, for every table of
  routers. The invariant counts the guards passed (`ChainPassed`); that they stay passed
  needs that the caller, once read, does not change. `RoutesAreReached` is about the
  tables whose routes are apart (`RoutesAreApart`: the first route of a router that takes a
  route's path is that route, the routers before it take nothing and refuse nobody whom its own
  guards admit); that this application's table is one of them is a part of `TablesAgree`, which
  the run `back_office` checks. The invariant (`OnItsWay`) says that a request is
  never past its router, and in the chain of no other route. `FilesAgree` derives the
  rest of `TablesAgree`, which is about requests, from what the files say (`Tables`): that a
  handler that throws at an unknown caller is on a route whose own guards or its router's read a
  token (`TokensAreRead`), and that what a controller answers is on the route's page
  (`PagesAgree`). It needs that an answer below 400 can only be the handler's own, that
  of the route the request is at (`AnswerInv`); the error handler and the guards answer
  400 or more, whatever was thrown. TLC finds `Tables` true of the program's tables.
- StaffTokens: `StaffTokensInvariant`, `OneTokenEach`, `EachIsSpentOnce`. What is issued in
  one `$transaction` needs no calm; the login's code, ended and made in two statements, does.
- StaffRoles: `GrantsFollowRoles`, by an invariant on the columns of a role and its grants
  (`Columns`) that each statement keeps.
- Tickets: `ThreadsTell`. The invariant adds what the handler that chose a note has read.
- WorkflowTemplates: `TemplatesInvariant`, `StagesFollowThePlan`, `AssigneesAreGiven`.
  Whoever fills a stage is at its place in a plan given for its template, or another has deleted
  it and its id is not given again while he works (`AtWork`, `OneFiller`). A request alone at
  work has placed the first stages of the last plan, each once, and no others (`Progress`); `Placed`
  says so by places, not by a count, so that it can be reasoned about for plans of any length.

Customers (CustomersProofs).

- Outlets: `OutletsInvariant`, `BranchHasItsAgent`. While requests are calm, whichever row the
  search by e-mail or phone has found is the agent named, and when it found none, none stands in the
  way of the insert (`PlaceKnows`).
- Notifications: `NotesInvariant`, `NoPushStrays`, `TokensAreCleanedUp`. While requests are calm, the
  devices a push has read are still its user's, and a token in use is nobody's only if the answer
  being cleaned up calls it invalid (`PushKnows`).

The proofs have lemmas for the rows, for a handler's own step and for the other
handlers, whose knowledge survives because rows change only in ways that keep it.

Model-checked only:

- `PendingIsResolved`, `EveryMemberCounted`, `ApprovalIsRecorded`: liveness under
  fairness, which the prover does not reach.
- `Tables`, that is, `RoutesAreApart`, `TokensAreRead` and `PagesAgree`: they are about the one
  table of routes, controllers and pages that the program has, which TLC goes through as a
  part of `TablesAgree`; the theorems of Dispatch take them as hypotheses.

## Where the code and its documents part

Two runs state a sentence of the source and show a behaviour of the code that
breaks it (`PROJECT.json` quotes both): `payouts_double`, a status guard read two awaits
before the write it guards, and `requests_audit`, a path read when the
router has already taken its mount from it.

The models follow the code in more places where it and its documents, comments or
messages part, or where one statement undoes another. No run is spent on them.

Deposits and accounts. A transaction stays DEPOSIT_CONFIRMED with no confirmed
settlement when `initiateDeposit` made its one settlement first
(`payment.service.ts:69`), or when the process dies before the insert
(`deposit-verification.service.ts:246`); `manualVerifyDeposit` credits a blacklisted account
(`deposit-verification.service.ts:336`) and, for a session that is known, verifies it
again (`:328`), which takes the transaction's status back; the account and the amount are the notification's and not
those the bank answers (`:201`); overlapping requests open two bank accounts for one transaction;
the renewal of an expired account returns it
(`customer-virtual-account.controller.ts:80`); AWAITING_DEPOSIT is written over a rejection
(`virtual-account.service.ts:113`).

Payouts. A payout with a reference is marked FAILED when the notification after it
throws (`settlement.service.ts:323`); a payout is completed without an approval
(`:423`); overlapping reconciliations make two records; a receipt uploaded while the
transaction is completed takes it back to DISBURSEMENT_IN_PROGRESS
(`agent-transaction.service.ts:606`).

Transactions. An upload that read the first step moves the transaction to
DOCUMENT_UPLOAD when its files are stored, whatever staff or payments have made of it
meanwhile (`customer-transaction.service.ts:658`). Of two members of staff who decide at once the last writer wins
(`admin-transactions.service.ts:408`); the ten pickups of a slot are counted apart
from the insert (`customer-transaction.service.ts:1642`); `getPickupPoints`
asks branches for the status 'Active' (`customer-transaction.service.ts:844`), the
terminals' list for 'APPROVED' (`:1445`); the comment at `:873` puts
TOURIST_FX in the BUY and SELL groups, the table below it in none.

Identity. A signup resumed from an unfinished account cannot be finished, since the
insert finds that account's e-mail (`auth.service.ts:606`), though the comment at `:997`
says it continues; a passport is kept as verified under the number the caller typed (`:1037`); `passportNumber` has no unique key;
`POST /api/auth/kyc/verify` reads the caller but no guard of the route reads a token, so
it always answers 500 (`Tokenless`); an invalid `customerType` of an agent's customer is
refused after the account was made (`agent-customer.service.ts:45`).

Staff. The code of an invitation (WELCOME) is found by the reset's lookup for another
purpose and refused (`admin-auth.service.ts:291`); a wrong reset code, given without an e-mail,
raises the attempts of everybody's open codes (`:264`); the first password activates a user who
was deactivated meanwhile (`:378`); the event of a new user waits for a worker that never
runs (`user-management.service.ts:71`); the old default role or department is cleared
before the new one is validated (`:527`), and `deleteDepartment` does not look whether it
is the default (`:1203`).

The rest. Names and e-mails of branches are unique only without overlap
(`outlet.service.ts:808`); an attachment given with the update of an agent is
made twice (`agent.service.ts:345`, `:366`); the channels of a notification overwrite one
status (`notification.service.ts:104`) and a failed check of the preferences counts as
leave to send (`:334`).

Routes. `GET /api/admin/settlement-management/batches` is taken by `/:id`, declared
before it (`settlement-management.routes.ts:14`, `:24`), against
`docs/PROVIDUS_SETTLEMENT_COMPLETE.md:132`; it is the one member of `Shadowed`. The
creation of franchises, pickup stations and branches is documented with 201 and
answers 200 (`Misstated`). Pages describe routes that are not declared
(`/api/admin/deposits/verify`, `/api/admin/deposits/transaction/{id}`,
`/api/admin/reports/jobs` and `/{id}`, `/api/admin/outlet` and `/{name}`). Plain
errors of `verifyBvn` and `verifyPassport`, refusals of zod thrown in controllers and multer's
size limit outside of the checked uploads answer 500 where 400 is documented. The
webhooks answer 200 to what they could not process, so the bank does not repeat
it. A download that breaks off after its first bytes is never ended.

## Not modelled

- `/health`, the documentation pages, body limits, request logging; the rate
  limiters and the CBN compliance middleware, which no route uses; the security
  schemes on the documentation pages.
- Code that nothing the program starts imports: the outbox worker,
  `verification.service`, `compliance.service`. It has no behaviour to model.
- Queries: lists, statistics, exports, reports, the audit trail; regulatory returns,
  whose one write (the TRMS number) no decision reads.
- The integrations' protocols (bank, BVN and passport services, mail, SMS, push,
  storage): their answers are nondeterministic choices of the modules that ask.
- Formatting, wording, logging, and columns no decision reads: reasons, notes,
  rates and fees of a transaction, the profile of a user, franchises, the address of a branch,
  topics and read flags of notifications, `updateAccountName`, token refresh.
- Prisma statements are atomic and PostgreSQL is at its default isolation. A settlement
  status of another service's enum that no modelled handler writes (CANCELLED,
  REQUIRES_APPROVAL) does not occur.
- Two processes: the program is started as one. Redis is assumed to answer or to fail, not
  to lose a key before its time.
