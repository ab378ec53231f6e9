# Verification of deverif-backend

TLA+ models of the backend in this repository, the TLC configurations that check
them on small instances, and TLAPS proofs of the properties that matter most for
every instance. Paths are relative to the repository (`src/src/...` is its source).

## How to run

    tlc -workers 2 -config sub_refunds.cfg MCSubscription
    tlapm Subscription_proofs.tla

Every configuration names its module in the table of runs below.

## 1. Inventory

The backend is an Express server over one MySQL database, with no queue or cache of
its own. What happens concurrently are its requests, which are interleaved at every
`await`, the webhooks of the payment gateway (Safepay), two timers of the process
(subscription maintenance every hour, email every five seconds), and other processes
of the same server. Its transactions protect what they lock with `FOR UPDATE`, and
what they change by a conditional `UPDATE`; everything else is read, checked and
written in separate statements.

| Component | State it keeps | Operations | What is hard | What makes it correct |
|---|---|---|---|---|
| Subscription rules (`utils/subscriptionTransition.js`) | none, pure | decide and apply a plan change | a renewal, a downgrade and an upgrade are told apart by tier; Free has no expiry | paid time is never lost; only Free is without an end |
| Checkout, payment, refund (`services/subscriptionCheckout.service.js`, `payment.service.js`, `safepay.service.js`, `controllers/paymentWebhook.controller.js`) | `subscription_checkouts`, `payment`, the billing columns of `organizations` | buy, webhook, reconcile, cancel with refund, confirm a refund | webhooks repeated, late, out of order; several awaits between claim, gateway call and record; a crash between any two | a charge is captured, granted, returned and recorded in this order and once |
| Lifecycle sweep (`services/subscriptionLifecycle.service.js`) | the billing columns | apply a scheduled change, lapse to Free, repair | runs late, races with purchases and status pages | what ran out is resolved; a change on record as refunded is never granted |
| Manual billing (`controllers/admin/organizations.controller.js`, `controllers/subscription.controller.js`, `controllers/admin/subscription.controller.js`) | `self_subscription_requests`, `custom_plan_requests` | request, confirm, cancel, set, approve, deny | two rows that must agree; statements outside a transaction | who waits for a payment has a request that can be confirmed |
| Email outbox (`services/notificationEmail.*.js`) | `email_outbox` | enqueue by key, claim, send, retry, reclaim | a slow send is reclaimed by another process; a crash after the send | a mail is enqueued once, in the end sent or given up, and not taken back once sent |
| Approval workflow (`services/approvalWorkflow.service.js`) | `approval_requests`, `approval_step_history`, steps and approvers | start, decide, cancel, set the policy | roles change while a request is pending; nobody left to decide | one live request per entity; no self-approval; final states stay |
| Expenses and payroll (`services/expenses.service.js`, `controllers/salary.controller.js`, `controllers/org/salaryHistory.controller.js`) | `expense_claims`, `salary_records`, `employee_salary_history` | submit, review, pay, generate, delete a period; raise, edit and delete a salary | a claim changes between read and write of a payroll run; neighbouring salary periods are read in a snapshot | a claim is paid once and by a record that exists; an employee has one active salary |
| Verification and quota (`controllers/verification.controller.js`, `utils/requestQuota.js`, `utils/autoMatch.js`) | `verification_requests`, `daily_request_usage` | create, decide, lock, match | quota at its limit under concurrency; org, admin and automatic decisions meet | no day counts more than the largest quota in force; no request falls between the queues; a person's decision is not overwritten by the matcher |
| Recruitment (`services/recruitment.service.js`) | `candidates`, `job_openings`, `interviews` | stages, offer, hire | mail before the row says so; two hires at once | one employee per candidate; the offer that counts is the one mailed |
| Offboarding and assets (`services/offboarding.service.js`, `assets.service.js`) | `exit_requests`, `final_settlements`, `assets`, `asset_assignments`, maintenance | approve, clear, settle, complete, assign, return, repair, retire | read, check, then unconditional update | one exit in flight; no exit completes uncleared or unsettled; what somebody holds is not offered to another |
| HR letters (`services/hrLetters.service.js`) | `hr_letters`, their links, templates | draft, issue, revoke, revert, delete, verify | revert and delete against an issue; a link outlives its letter's text | a live link attests the text that was signed, a revoked one does not verify |
| Leave, attendance, overtime (`controllers/leave.controller.js`, `attendance.controller.js`, `org/overtime.controller.js`) | `leave_requests`, `leave_allocations`, `attendance_records`, `overtime_requests` | allocate, request, decide, check in and out, claim hours | a balance under two decisions and an allocation set meanwhile | the days taken are those of the approved requests; no more hours than claimed |
| Login, codes, sessions (`utils/otp.js`, `controllers/auth.refresh.controller.js`) | `login_otps`, `refresh_tokens` | issue, consume, rotate | read, then write without a condition | guesses and uses of a code stay within its limit and the requests in progress |
| Users and employees (`controllers/admin/users.controller.js`, `org/adminUsers.controller.js`, `admin/employees.controller.js`, `services/employeeAccess.service.js`) | `users`, `employees`, invitation and reset links | invite, link, set a password, give access, cancel, remove | an invitation is accepted between a check and a DELETE | an account in use stays; portal access belongs to an account that exists |
| Support (`controllers/support.controller.js`) | tickets, replies | create, reply, set the status | a reply meets a status change | only the raiser and the owning tier take part |
| Document catalogue (`controllers/admin/documentTypes.controller.js`, `services/documentTypeSync.js`) | `document_types`, and the copy the document service keeps in memory | edit, push, push at boot with retries | pushes are not awaited and not ordered | the service gets the catalogue as it is (section 6 says where it may not) |
| Leads, notifications, rendering, export, upload, audit, middleware | single rows, files | read and write one row, render | little | uniqueness is the database's |

The components interact through the database, and with the outside through Safepay,
SMTP and the document service. Billing writes the billing columns that
the quota and the feature middleware read; a payroll run consumes approved claims; several
services enqueue mails. An exit looks at the open
assignments of the asset register. Verification requests are created in the transaction
that counts them against the quota. The approval workflow engine has no caller yet beside
the controller of its policies: expenses, offers and exits decide by their own columns.

## 2. Plan

The modules in their order, the most important behaviour first. All of them are written.

1. Billing: `SubscriptionRules`, `ChargeLedger` (abstract), `Subscription` (implements
   it), `MCSubscription`; `Subscription_proofs`, `Subscription_refinement`.
2. Email: `MailDelivery` (abstract), `EmailOutbox` (implements it), `MCEmailOutbox`,
   `EmailOutbox_proofs`.
3. Claims and salaries: `ExpensePayroll`, `MCExpensePayroll`, `ExpensePayroll_proofs`;
   `SalaryHistory`.
4. `Approvals`: a request is decided once, and not by its requester.
5. `Verification`, and the quota as a module of its own, `RequestQuota`.
6. `CustomPlan`: negotiation, approval and payment of plans.
7. `Offboarding` with `Assets`; `Recruitment`, `MCRecruitment`; `Sessions`; `Accounts`;
   `HrLetters`; `Leave`; `Attendance`; `Support`; `DocumentCatalogue`. They, 4 to 6 and
   `SalaryHistory` extend `Server`, and `MCDesks` puts them side by side.
8. The proofs about the desks, by theme: `Hiring_proofs` (recruitment, accounts, letters),
   `Employment_proofs` (assets and exits, salary periods, leave), `Customers_proofs`
   (verification, quota, custom plans, codes and sessions), and `Desks_proofs` (approvals,
   the small desks, and all desks together).

What would come next, were the project continued: properties for `Attendance`, `Support`
and `DocumentCatalogue` beyond their types, and action properties of the desks whose
invariants are proved (what a decision, a payment or a signature may never undo). Modules
that are proved about use no RECURSIVE operator, name their assumptions on constants and
state their invariants in named parts.

## 3. What is modelled

### SubscriptionRules

The pure decisions. A plan is a model value with a tier (`comparePlanTier` orders by
Free flag, daily quota and price; the model keeps the resulting rank) and a period.
The code compares `subscription_expiry` with `NOW()`, so the model keeps only the
difference `left` in ticks: positive is running, zero is *due* for the sweep (`<=`) but
not yet *past* for the status pages (`<`), `NoExpiry` is SQL NULL.

### Subscription

One organization. The variables are its row (`org`), the checkout rows (`checkout`), the
trackers in the payment table (`payment`), the pending manual request (`selfRequest`),
the gateway's own record (`gateway`), the webhooks it still owes (`events`), the requests
in progress (`handler`) and one history variable (`scheduledBy`: the checkout whose
payment set the pending plan; no guard reads it).

A transaction that locks the organization row is one step. A handler that awaits
between statements outside a transaction is several, with the values it read kept in
`handler[h]`:

| Code | Actions |
|---|---|
| `createOrgCheckout` | `CreateOrgCheckout` (the transaction), `OpenSession` (after the commit) |
| `handlePaymentWebhook` | `WebhookSucceeded`, `WebhookFailed`, `WebhookRefunded` then `ConfirmRead`, `ConfirmRefund`; `WebhookRefundedUnconfirmed` |
| `getOrgSubscriptionStatus` | `StatusRead`, `StatusFlip`, `StatusReconcile`, `ReconcilePaid` or `ReconcileUnpaid` |
| `refundScheduledChange` | `CancelWithoutRefund`, or `CancelRead`, then `ClaimRefund`, `SubmitRefund`, `RollBackClaim` or `InquireRefund`, `SettleRefund`; or `CancelRecheck`, `ConfirmRead`, `ConfirmRefund` |
| `applyDueSubscriptionChanges` | `ApplyScheduledChange`, `ApplyLapseToFree`, `RepairPlanlessOrganization` |
| `selfSubscribe`, `confirm-`, `cancelSelfSubscriptionRequest` | the actions of the same names |
| `setOrganizationSubscription` | `SetOrganizationSubscription` |
| `cancelOrganizationSubscription` | `CancelOrganizationSubscription`, `VoidSelfRequest` (two autocommitted statements) |
| process death | `Crash` of a request, at any of its steps |

External and modelled from how the code uses it: the gateway (`CustomerPays`,
`GatewayCaptures`, `GatewayDeclines`, `GatewaySettlesRefund`), which delivers webhooks in
any order and repeats them, and may accept a refund whose answer is lost
(`GatewayFaults`).

Abstractions. The sweep's select and its batch limit disappear, since each organization
is checked again under its lock; `myPlan` and the administrators' list share the flip of
the status page; the amount, currency and signature checks of the webhook are taken as
passed; a price is positive and the organization has a user, so
`recordSubscriptionPayment` inserts a row; the database's own deadlock errors are the
crash of a request. Which of the pending checkouts are older than two hours is left
open. `refund_pending` (status) and `failed` (refund status) exist in the schema and no
code writes them.

### ChargeLedger

What billing promises about each charge, without handlers, webhooks or rows: captured,
then granted, then at most once paid back, then recorded, and from then on its plan is
not waiting. `Subscription` implements it under the mapping in `Ledger`
(captured = the gateway has the money, granted = the tracker is in the payment table,
paidBack = refunds the gateway accepted, recorded = `refund_status` is refunded, queued =
the checkout whose plan waits). The mapping needs the gateway's answers to arrive; that
they may be lost is what `sub_lost_answer` is about.

### EmailOutbox

The table `email_outbox` by event key (`outbox`: status, id, attempts, ticks until
`available_at`, ticks since `claimed_at`) and the worker of every server process
(`drain`: where it is, the rest of its batch as the SELECT returned it, the row it is
sending). Histories, which no guard of the code's steps reads: `delivered` (how often
SMTP took a mail) and `lost` (attempts whose outcome the row was not told).

Every statement of `drainEmailOutbox` is autocommitted, so every statement is an action:

| Code | Actions |
|---|---|
| `queueNotificationEmail` | `QueueNotificationEmail` (INSERT IGNORE by event key) |
| `drainEmailOutbox`: reclaim, select, claim | `Reclaim`, `SelectBatch`, `Claim` (won or lost) |
| `sendWorkflowNotificationEmail` | taken, refused, or taken with the answer lost |
| the UPDATE after the send | `RecordSent`; if it fails, the catch runs, as for a refused mail |
| the catch | `RecordFailure`; if its UPDATE fails, the drain is over and the row stays claimed |
| process death, or a failure outside the try | `Crash` |

A tick is 30 seconds, the first retry delay. `Exclusive` says that no send outlasts its
claim (`~SlowSends`) or that there is one process. With several processes and a send of
more than ten minutes a mail is sent twice at the same time and a late UPDATE may
overwrite a newer one; that is listed as a hazard and no property is stated for it. The
text of the mail, its recipient and the recipient's preferences are data.

### MailDelivery

What the outbox promises about each mail: it is queued once, offered until it is settled,
counted as sent only after it arrived, and never offered again afterwards. `EmailOutbox`
implements it under the mapping in `Delivery` (a claimed row is still queued).

### ExpensePayroll

The expense claims (`claim`: status, payment mode and the record that paid it), the
salary records of one period with their `auto_expense` lines (`payslip`), and the requests
in progress with what they read (`request`). A record is named by its employee and a
number, so that the uuids of a deleted record and of its replacement differ. A payslip's
line sums several claims; the model counts how often each claim is in the sum. `discarded`
is a history: claims whose record was deleted, or replaced by a run that had not seen it.

| Code | Actions |
|---|---|
| `createClaim`, then `autoApproveClaim` | `SubmitClaim`, `AutoApproveClaim` (approved, or refused with the claim filed) |
| `reviewClaim` | `ReviewRead`, `ReviewWrite` (the conditional UPDATE may match nothing) |
| `markClaimPaid`, `bulkMarkClaimsPaid` | `PayRead`, `PayWrite`, one claim after the other |
| `generatePayroll` | `RunBegin`, `RunCommit`; `Abandon` if it rolls back |
| `deleteSalaryPeriod`, `deleteSalaryRecord` | `DeleteSalaryRecords` |
| process death, rollback | `Abandon` |

`generatePayroll` is one transaction and nothing in the code sets an isolation level, so
MySQL's REPEATABLE READ holds: its SELECTs see the snapshot of the first one (`RunBegin`),
its DELETE, INSERTs and UPDATEs the present (`RunCommit`). In between anybody may decide
claims, and another run may replace or delete the same records. Two runs for the same
employee wait for each other at the DELETE or at the unique key `uk_salary_employee_month`
until the commit, so all the writes are one step.

Abstractions. Refusals by receipt, limit, authority or category are choices; the roster and
its deletions are constant; amounts are left out, with the rest of the payslip. Claims of
different periods never meet. `autoApproveClaim` updates the columns `auto_approved` and
`auto_approved_by_uuid`, which no migration of the repository creates: against that schema
the statement fails and the claim stays pending, which is the refusal of the model.

### Server and the desks

Outside billing, mail and payroll the system is a set of *desks*: tables with the handlers
that read and write them. `Server` has what they share, the requests in progress. A
handler begins with what it reads first (`Begin`), goes on with the values it keeps
(`Go`) and ends (`End`); a transaction in progress or a chain of autocommitted statements
may be left at any step (`Abandon`: an error, a refusal that is not modelled, the death of
the process). Where a handler locks its row first (`FOR UPDATE`) and does everything under
that lock, it is one action; where it reads and writes in statements of their own, or
awaits mail or a comparison under its lock, it is several. `request[h]` then holds what
the later ones still believe.

| Module | Code | Actions |
|---|---|---|
| `Approvals` | `startApproval` | `StartApprovalRead`, `StartApprovalInsert` (the unique index over `live_entity_uuid` is `OneLive`) |
| | `decideApproval`, `cancelApproval` | `DecideApprovalRead` (takes the row lock), `DecideApprovalCommit`; `CancelApproval` |
| | `setApprovalPolicy`, the user pages | `SetApprovalPolicy`, `ChangeRole` |
| `RequestQuota` | `enforceRequestQuota` and its caller's commit | `ConsumeQuota`, `CommitCreation` |
| | plan activation, sweep, an edited plan, expiry, midnight | `ActivatePlan` (deletes the day's row); `SweepPlan`, `EditPlanQuota` (keep it); `PlanLapses`, `NextDay` |
| `Verification` | `createRequest` | `SubmitRead` (stages the match, finds a repeat), `SubmitInsert` |
| | `runAutoMatchChecks`, `processOne` | `MatchRead`, `MatchWrite` (under its condition) |
| | `updateMySentRequest`, `deleteMySentRequest`, `deleteRequest` | `EditRequestRead`, `-Write`; `DeleteMySentRequest`, `DeleteRequest`, `DeleteRequestWrite` |
| | `verifyRequest`, `adminActOnSlaRequest`, `adminVerifyUnmatchedRequest` | the actions of these names, `DecideRequestWrite`, `DecideRequestUnqueue` |
| | `acceptNullOrganizationRequest`, reference documents | `AssignUnmatched`, `ChangeReference` |
| `CustomPlan` | `requestCustomPlan`, `denyCustomPlanRequest` | `AskPlanRead`, `AskPlanInsert`; `DenyPlanRead`, `DenyPlanWrite` |
| | `approveCustomPlanRequest`, `createCustomPlanCheckout` | `ApprovePlan`; `PayAgainRead`, `PayAgainWrite`; `OpenSession` after either commit |
| | `expireStaleCheckouts`, `finalizeSuccessfulCheckout`, `markCheckoutFailed` | `ExpireStale`, `PayCustomPlan` (of any session whose row is not completed), `FailCustomPlan` |
| `Assets` | `assignAsset`, `returnAsset`, `reportMaintenance`, `retireAsset`, `reinstateAsset` | one action each, under the lock of the asset |
| | `completeMaintenance` | `CloseJobRead`, `CloseJobCommit` (locks the job only) |
| | categories, `createAsset` | `PutCategory`, `CountCategory`, `DeleteCategory`; `CreateAssetRead`, `CreateAssetInsert` |
| `Offboarding` | `createExitRequest` | `CreateExitRead`, `CreateExitInsert` (the index `uq_open_exit` is `UniqueOpenExit`) |
| | `decideExitRequest`, `clearChecklistItem`, `saveSettlement` | `DecideExitRead`, `-Write`; `ClearTaskRead`, `-Write`; `DraftRead`, `DraftInsert` |
| | `processSettlement` | `SettleRead`, `SettleAssets`, `SettleWrite` |
| | `completeExit` | `CompleteRead`, `CompleteAssets`, `CompleteChecklist`, `CompleteSettlement`, `CompleteWrite`, `CompleteRoster` |
| | `updateEmployee`, `archiveReference` | `UpdateEmployee`, `ArchiveReference` (the status by hand, with or without an exit) |
| `Recruitment` | openings, `createCandidate`, `updateCandidate` | `SwitchOpening`, `ResizeRead`, `-Write`; `ApplyRead`, `ApplyInsert`; `EditRead`, `EditWrite` |
| | `updateCandidateStage`, interviews | `MoveRead`, `MoveWrite`; `ScheduleInterview`, `RecordFeedback` |
| | `startCandidateOffer`, `sendOffer` | `PrepareRead`, `PrepareWrite`; `SendRead` (lock), `SendMail`, `SendCommit` |
| | `hireCandidateInTransaction` | `HireRead` (lock), `HireCommit` |
| `Sessions` | `issueOtp`, `storeOtp` | `IssueCode`, `AdminLogin`, `ResendCode`, then `IssueRetire`, `IssueInsert`, `IssueMail` |
| | `consumeOtp` | `ConsumeRead`, `ConsumeSpend`, `ConsumeCount`, `ConsumeCompare`, `ConsumeMark`, then `Enter` |
| | `refreshAccessToken`, logout | `RefreshVerify`, `RefreshRevoke`; `Logout` |
| `Accounts` | invitations and portal access | `InviteRead`, `InviteInsert`; `PortalRead`, `PortalInsert`; `CreateEmployeeRead`, `-Insert` |
| | links | `ResendInvite`, `EmployeeRelinkRead`, `-Retire`, `RelinkInsert`; `ForgotPassword`, `ForgotInsert` |
| | `setPassword`, `resetPassword` | `SetPasswordRead`, `-Commit`; `ResetPasswordRead`, `-Commit` |
| | cancel, remove, revoke, update | `CancelRead`, `CancelCommit`, `RemoveCommit`, `RevokeAdminUser`, `UpdateUser`, `DeleteEmployeeRead`, `-Write` |
| `HrLetters` | `createDraftLetter`, `issueLetter` | `CreateDraftRead`, `-Insert`; `IssueRead` (lock), `IssueCommit` |
| | `revokeLetter`, `revertLetterToDraft` | `RevokeLetter`, `RevertLetter` (conditional updates) |
| | `deleteLetter`, templates | `DeleteLetterRead`, `-Write`; `UpdateTemplate`, `DeleteTemplate` |
| `Leave` | types, policies, allocation by hand | `CreateLeaveType`, `DeleteLeaveType`, `SetDesignationAllocation`, `ApplyDesignationPolicies`, `SetAllocationRead`, `-Write` |
| | `createLeave`, `decideLeave` | `CreateLeaveRead`, `-Insert`; `DecideLeaveRead`, then `ApproveLeave` (a transaction) or `RejectLeave` |
| `Attendance` | check in and out, manual entry, addresses | `CheckInRead`, `-Insert`; `CheckOutRead`, `-Write`; `ManualEntry`; `AddAllowedIp`, `RemoveAllowedIp` |
| | overtime | `CreateOvertime`; `DecideOvertimeRead`, `-Write` |
| `Support` | tickets and replies | `CreateTicket`; `AddOrgReply`, `AddAdminReply`, `AddReplyInsert`; `SetStatusRead`, `-Write` |
| `DocumentCatalogue` | edits, pushes, start of either process | `CreateDocumentType`, `UpdateRead`, `-Write`, `DeleteDocumentType`; `PushRead`, `PushArrives`, `PushFails`; `BackendRestarts`, `ServiceStarts`, `ServiceStops` |
| `SalaryHistory` | `incrementEmployeeSalary`, edits, deletions | `RaiseRead`, `-Commit`; `EditPeriodRead`, `-Commit`; `DeletePeriodRead`, `-Commit` |

The head of each module says which locks and unique indexes its actions stand on. Some
variables are histories that no condition of the code reads: `vouched` (what a verified
request has shown), `createdToday` (the requests committed since the day's row was begun,
which also carries the bound `MaxCreated`), `largestQuota` (the largest quota in force
since then), `released` (whom the completion of an exit made an ex-employee), `mailed` and
`employed` (offers that went out, employees made), `minted` (what a public link attested,
which also tells the random tokens still unused), `opened` in the rows of codes (how often
a code opened the account).

Abstractions. A desk is one tenant's: one organization with its quota, one opening, one
employee's leave, day and salary. Dates are days `0 .. MaxDay`; the outcome of a text
comparison, of a mail and of a call is a choice; a code is right or wrong when it is
entered; a letter's text is a body and its snapshot the body it was issued with. Lists,
filters, notifications and audit rows are left out. In `SalaryHistory`, `UtcDay` is what
`asDateStr` does to a local midnight: with `Shift = 1` the server's clock is east of UTC.

Three actions allow more than the code does, which no property minds: `ChangeRole` gives an
account any role (the code switches accounts off and on, and makes new ones),
`ToggleAccount` and `ChangeReference` happen at any time.

`MCDesks` extends all the desks and begins a run at one of them (`desk`); they share no
table, so every desk has the server to itself, and each disjunct of `Next` is one desk.
`Offboarding` and `Assets` are one desk, because an exit reads the open assignments.
`MCRecruitment` is the recruitment desk with two candidates for one seat.

## 4. Runs

| Run | Instance | Shows |
|---|---|---|
| `sub_refunds` | 2 checkouts, 2 requests, checkout and cancel requests, up to 2 refunds per charge accepted by the gateway | `IInv`, `RefundedChangeNeverQueued`, `RefundedAtMostOnce`, `ChargesFollowTheLedger`, `CompletedOnce` |
| `sub_billing` | 1 checkout, 2 requests, all requests but the admin's cancel, lost answers | `PaidTimeKept`, `PendingPaymentHasRequest`, `OnlyFreeIsUnlimited` |
| `sub_progress` | 1 checkout, 1 request, every kind of request, fairness, every answer of the gateway arrives | `LapseResolved`, `CapturedIsGranted`, `RefundIsRecorded` |
| `sub_expired` | 1 checkout, 1 request, fairness | `ExpiredIsResolved` fails: a late flip to 'expired' lands on a Free row and stays |
| `sub_lost_answer` | 1 checkout, lost answers | `RefundedAtMostOnce` fails: a lost answer is treated as a refusal |
| `sub_other_change` | 2 checkouts | `RefundDropsOnlyItsChange` fails: a late refund clears another paid change |
| `outbox_cluster` | 2 mails, 2 processes, batches of 2, no send outlasts its claim, 2 faults | `IInv`, `OneSender`, `DuplicateNeedsLoss`, `MailIsDelivered` |
| `outbox_single` | 2 mails, 1 process, batches of 1, sends of any length, 2 faults, fairness | `TriesBounded`, `GivenUpLate`, `EveryMailEnds` |
| `claims_payroll` | 2 claims of 2 employees, 2 requests, 3 records for each employee | `IInv`, `PaidOnce`, `ReimbursementKept`, `DecisionStands` |
| `claims_trace` | 2 claims of 2 employees, 1 request, 2 records for each employee | `TracedToItsPayslip` fails: two payslips regenerated in one request, and both claims name the first one's record |
| `desks` | each of the fourteen desks, 2 requests, 2 rows and 2 of whoever else takes part | the type invariants and the properties below |
| `hire_seats` | 2 candidates, one seat, 2 requests | `SeatsSuffice` fails: two hires count before either commits |

The `sub_` runs are of `MCSubscription`, the `outbox_` runs of `MCEmailOutbox`, the
`claims_` runs of `MCExpensePayroll`; `desks` is of `MCDesks` and `hire_seats` of
`MCRecruitment`.

Some properties say less than one might wish, because the code does less:

- `RefundedChangeNeverQueued` begins with the record of the refund. Between the gateway's
  answer and the record the sweep may grant the change that is being paid back.
- `PaidTimeKept` lets one step take a running paid period out of 'active': the flip of a
  status page that read the row before a payment renewed it.
- `RefundIsRecorded` needs the gateway's answers to arrive (`GatewayFaults = FALSE` in
  `sub_progress`). If the inquiry behind a refund event fails, the event is answered with
  200 all the same, is not sent again, and only another cancel records the refund.
- `OnePendingCheckout` is about rows. The session of a row that was cancelled, expired or
  failed can still be paid, and is then granted.
- `ClosedExitIsSettled` is about exits. HR may make anybody an ex-employee by hand.

What `desks` checks, beside the type invariants (`DesksTypeOK`, which also
bounds approved overtime by the hours claimed and a leave balance by zero):

| Property | What could go wrong |
|---|---|
| `CustodyShown` | a maintenance job that closes overwrites the status of an asset somebody holds |
| `OneOpenExit`, `ClosedExitIsSettled` | two exits of one employee; an exit completed, or its employee released, on what was read before |
| `ChainIsSound`, `ResolvedIsFinal` | a step skipped, signed twice or by the requester; a decision on a resolved request |
| `OneEmployeePerCandidate`, `SentIsWhatWasMailed` | a candidate hired again after a stale edit; an offer 'sent' whose terms nobody was mailed |
| `QuotaKept` | the last slot of the day taken twice, or burnt by a rollback; more counted than the largest quota in force since the day's row was begun |
| `NothingFallsBetween`, `RepeatOfSamePerson`, `HumanDecisionStands` | a request in nobody's queue; a repeat trusted for another person; a reviewer overruled by the matcher |
| `CodeHasLimits` | more guesses or uses of a code than its limit and the requests in progress |
| `AcceptedAccountStays` | an account accepted between the check and the DELETE disappears |
| `LinksMeanWhatTheySay` | a revoked link verifies, or a live one attests a text nobody signed |
| `OnlyApprovedCounts` | leave days deducted twice, or lost when the allocation is set |
| `OnePendingCheckout` | two checkout rows pending after a second approval or a second purchase, one of which the status page never looks at (of their sessions it says nothing) |
| `OneActiveSalary` | two active salary periods, or none |

**Bounds.** Three plans (Free and two tiers) give every relation between two plans,
renewal included. Two checkouts are what a refund of one needs to meet the change of
another; a third only repeats the second. Two requests race for one claim. A period of
one tick with the sweep at most `MaxLate` ticks behind covers running, due and past, and
a renewal that is due again when it starts. `MaxRefunds` is 2 so that a double refund can
happen. The runs stop where all checkouts are used up, so deadlock is not checked:
nothing obliges an organization to act. Requests are interchangeable, which the symmetry
uses in the two runs without liveness.

For the outbox, two processes are what a claim can be contested by, and two mails what a
batch can be stale about; `MaxAttempts` is 2 of 6, so that a first attempt is retried and
a second one is the last; a `Lease` of one tick distinguishes a fresh claim, one that is
about to run out and one that is taken back; delays of one and two ticks are the doubling
and the cap. `MaxFaults` bounds crashes, lost answers and failed statements together;
two of them lose the outcome of both attempts of a mail, or of one attempt of each.

For payroll, two requests are a run and whatever crosses it, a second run included; three
records let two overlapping runs replace a first one, or a regeneration be regenerated.
Two claims of two employees are what one run needs to confuse them. The runs stop when the
records are used up and every claim is settled, so deadlock is not checked.

For the desks, two requests are what one race takes; more of them repeat it, since every
property is about the row two of them meet in. Two rows make a second attempt (exit,
approval, account, link, period) distinct from the first. `PlanQuotas` {1, 2} and
`MaxCreated` 4 reach the limit with requests left over and let the quota fall below what
was used, `Grants` {0, 2} has an allocation of no days, `MaxTries` 1 and `MaxCodes` 2 the
last guess and a second code; `MaxLetters`, `MaxReplies`, `MaxPushes`, `MaxSeats` and
`MaxHours` are 2, `BootAttempts` and `MaxCheckouts` 3: one that is tried again, and one
after that. `MaxDay` and `MaxPeriods` 3 leave a period with a neighbour on either side.
Requests, rows and things are each interchangeable, which the symmetry uses. Rows, codes
and numbers run out and nobody is obliged to act, so deadlock is not checked. Every action
of every desk was seen to fire (TLC's coverage of the run).

**Fairness** (`FairSpec`). The maintenance timer runs every hour and handles every row it
selects (weak fairness of the three sweep actions and of time); Safepay resends an event
until it is answered and settles what it accepted; a request that has begun goes on
unless its process dies (weak fairness of `Proceed`). Confirming a refund is strongly
fair: the process does not die each time it gets there, and the bound on concurrent
requests, which the server does not have, is free now and then. Nothing obliges a
customer, an administrator or a status page to act. For the outbox: the interval timers
keep firing and statements and sends come back (weak fairness of `Tick` and of each
`Work(p)`); that a process does not die for ever is the bound on faults.

## 5. Proofs

`Subscription_proofs` proves for every set of plans, number of checkouts, set of requests
and bound:

- `Invariance`: `Spec => []IInv`
- `TypeCorrect`: `Spec => []TypeOK`
- `RefundSafety`: `Spec => []RefundedChangeNeverQueued`, also with a faulty gateway
- `SingleRefund`: `ASSUME ~GatewayFaults PROVE Spec => []RefundedAtMostOnce`
- `UnlimitedIsFree`: `Spec => []OnlyFreeIsUnlimited`
- `PaidTimeIsKept`: `Spec => PaidTimeKept`
- `WaitingIsForARequest`: `ASSUME "admin_cancel" \notin Requests PROVE Spec =>
  []PendingPaymentHasRequest`
- `CompletionIsOnce`: `Spec => CompletedOnce`

They rest on `PlanAssumption` (Free is the lowest tier, periods are positive) and
`BoundAssumption`. `RefundedChangeNeverQueued` is not inductive: a request that is about
to record a refund acts on what it read steps ago. `IInv` adds what makes that safe:
`RowsAgree` (the checkout row never runs ahead of the gateway), `HandlersAgree` (what a
request read is still true where it matters: a request at `settle` knows a settled refund,
and the plan it will clear is the one the charge produced), `QueueAgrees` (the plan that
waits is the result of a charge that is granted and not refunded) and `ClaimsAgree`
(without faults, only the request holding the claim can be asking for a refund, and
nothing was accepted before). The lemmas follow one pattern: `HandlersStep`, `ClaimsStep`
and `CalmStep` say when a part survives a step that changes little, and there is one
lemma per action. `sub_refunds` checks `IInv` itself.

The last four rest on `IInv`, three of them also on `Billed`: what a step may do to the
billing row (`NextBills`, over all actions). `OnlyFreeIsUnlimited` becomes inductive with
the fact that status `none` goes with no plan (`BillingInv`). `PaidTimeKept` follows from
the ways the row can change while a paid period runs; that it stays active is shown of every
one but `StatusFlip`, whose guard is about a row read earlier. `WaitingInv` adds that no cancelling
administrator is between its two statements; the assumption of `WaitingIsForARequest` says
why: with that request the property fails while the two statements are apart.
`CompletesOnce` is the step of `CompletedOnce`: besides the grant itself, no statement
writes a checkout's status but to keep it or to leave `completed`.

`Subscription_refinement` proves `ASSUME ~GatewayFaults PROVE Spec =>
ChargesFollowTheLedger`: with `Invariance`, every step of the billing code is a step of
`ChargeLedger` or leaves its variables alone, again one lemma per action.
What the ledger's own steps add up to (`LedgerInv`: a charge is paid back at most once
and only after it was granted, one that is recorded was paid back, and its plan does not
wait) then holds of the code: `ChargesAreConsistent`, `ASSUME ~GatewayFaults PROVE
Spec => []Ledger!Consistent`.

`EmailOutbox_proofs` proves for every set of mails and of processes, every limit, lease,
delay and batch size, from `OutboxAssumption` and `Exclusive`:

- `Invariance`: `Spec => []IInv`
- `SingleSender`: `Spec => []OneSender`
- `DuplicatesAreLosses`: `Spec => []DuplicateNeedsLoss`
- `NoEarlyGivingUp`: `Spec => []GivenUpLate`
- `Refinement`: `Spec => MailIsDelivered`

The condition `status='pending'` of the claim does not make `OneSender` inductive: a
worker that sends must still find its row claimed (`ClaimsHold`), which needs its claim to
be younger than the lease that lets others take it back. `BatchesLag` bounds what a stale
batch may know, which is what keeps `GivenUpLate`, and `Accounted` says where every
delivered mail is booked: lost, recorded, or about to be.

For one process (`OneProcess`, which implies `Exclusive`) `TriesAreBounded` proves
`Spec => []TriesBounded`. The bound alone is not inductive: `Room` keeps one attempt free
for every mail that will be tried again, and `Exact` says that what the only worker read
is what the rows say. With more processes the number the worker read may lag, and then a
mail can be tried more often; `Exact` is what fails.

`ExpensePayroll_proofs` proves for every set of claims, employees and requests and every
bound, from `PayrollAssumption`:

- `Invariance`: `Spec => []IInv`
- `ClaimPaidOnce`: `Spec => []PaidOnce`
- `ReimbursementSurvives`: `Spec => []ReimbursementKept`
- `DecisionIsFinal`: `Spec => DecisionStands`

The comment at the head of `expenses.service.js` rests the promise on the condition of
each UPDATE. That is not inductive: a payroll run writes its lines from a snapshot and does not
look at how many claims its UPDATE matched. `FreshIsPayable` says why this is safe (a claim
that was payable by payroll can meanwhile only have been paid by payroll, since its mode
is fixed with the decision), `CarriedIsPaid` that carried lines are reimbursements already
made and none the run adds, and `SnapshotsAgree` that a record still there under the number
the run saw is the record it saw.

The desks have one proof pattern. An invariant fails to be inductive because a handler
acts on what it read some steps ago; the strengthening says, for each request in progress,
which part of what it read still holds, and why (a lock, a row that never goes back, a
condition of the UPDATE). There is one lemma per action or per group of actions that
change the same thing, `Init...` and `Step...` lemmas for the whole, and one theorem per
property.

`Hiring_proofs`, for every set of candidates, terms, accounts, employees, links, letters,
tokens and requests:

- `HiredOnce`: `RecruitmentSpec => []OneEmployeePerCandidate`, from `ConversionsCounted`:
  the flag `converted`, which is never taken back, counts the employees.
- `SentAsMailed`: `RecruitmentSpec => []SentIsWhatWasMailed`, from `SendersAgree`: between
  the mail and the commit of `sendOffer` the terms stay what was mailed, for the row is
  locked.
- `AcceptanceLasts`: `AccountsSpec => AcceptedAccountStays`. The check before the DELETE
  reads what its condition tests again; `PortalHasAccount` needs that only accounts that
  exist have open links or are accepted (`OpenLinkHasName`, `AcceptedExists`).
- `LinksAreMeant`: `HrLettersSpec => []LinksMeanWhatTheySay`. `TokenSound` says that a
  letter has a token exactly while it verifies and that its snapshot is the body that was
  signed, `TokenPlaced` that a live token is on one letter, and `IssuersAgree` that whoever
  issues holds the row of a draft, alone.

`Employment_proofs`, for every set of assets, employees, exits, tasks, requests, every
bound on dates and periods and every finite set of leave requests:

- `CustodyIsShown`: `OffboardingSpec => []CustodyShown`. `JobsBeingClosed`: a job that is
  being closed is open, has one closer, and its asset can be returned but not handed out.
- `OneExitInFlight` and `GoneIsSettled`: `[]OneOpenExit`, `[]ClosedExitIsSettled`.
  `CompletionsChecked` carries what `completeExit` has checked through its statements: a
  cleared task is never unchecked, and a settlement never goes back to a draft. The employee
  pages write `left` at will, so the theorem speaks of completed exits and of `released`.
- `ASalaryIsOne`: `SalarySpec => []OneActiveSalary`. `OneActivePeriod` counts the periods
  without an end, `RowsAreHeld` and `ReadsHold` say what the locks keep for each handler:
  which rows are its own and what of the neighbours it read is still so. `DatesEntered`
  bounds the dates, so that the day after the last one sees the active period alone.
- `TakenIsApproved`: `LeaveSpec => []OnlyApprovedCounts`. `UsedIsApproved` states it with
  `Sum`, a sum over a finite set; `FoldIsSum` shows that the fold of the model is that
  sum. `NothingUsedUngiven` is what `applyDesignationLeavePolicies` needs. An allocation
  may be of no days, and is then a row like any other.

`Customers_proofs`, for every set of submissions, organizations, people, files, wishes,
codes, tokens and requests, and every quota:

- `EveryRequestIsListed`, `RepeatIsVouchedFor`, `DecisionStands`: `VerificationSpec =>
  []NothingFallsBetween`, `RepeatOfSamePerson`, `HumanDecisionStands`. `OpenIsListed` holds
  of rows; `LateToUnqueue` says that a decision that has yet to take a row off the queue is
  about a row that is closed, and `VouchedFor` that what a request in progress is trusted
  for is in the history.
- `QuotaIsKept`: `RequestQuotaSpec => []QuotaKept`. A transaction counts on what it read,
  so `QuotaInv` adds that one request at a time is between its count and its commit, which
  the lock on the organization gives, that the slot it found is still free, and that the
  quota in force is none above `largestQuota`. A quota that falls keeps the day's row, so
  the bound is by the largest one and not by the present one.
- `OneCheckoutPends`: `CustomPlanSpec => []OnePendingCheckout`, with `ApprovedHasPlan`:
  paying again finds the plan that the approval made, and `SessionHasRow`: only
  rows that were opened have a session, so that a payment or a failure, which comes from a
  session, brings no row to life that was never there.
- `GuessesAreLimited`: `SessionsSpec => []CodeHasLimits`. `AttemptsToCome` adds to the
  attempts counted the requests that have read the code and will count one more, so that
  the bound is kept by reading, not by counting; `OpeningsToCome` does so for the uses.

`Desks_proofs`:

- `ChainStaysSound`: `ApprovalsSpec => []ChainIsSound` and `DecisionsAreFinal`:
  `ApprovalsSpec => ResolvedIsFinal`, for every chain, set of users, rows and requests.
  `ChainIsSound` is the conjunction of `OnePending` and `RowSound` (who has signed which
  step); what makes it inductive is `DecidersAgree`: a request between its locked read and
  its commit is alone on its row, the row is still pending, and the actor is not its
  requester.
- `DesksAreTyped`: `Spec => []DesksTypeOK`, where `Spec` is the specification of `MCDesks`,
  the one `desks.cfg` checks. Each desk's inductive invariant holds while the run takes
  place there (`DesksInv`). For attendance this includes that no more overtime is approved
  than claimed, which needs it of the decisions in progress (`HoursClaimed`).
- `DesksKeepTheirPromises`: `Spec => []DesksPromise`, every invariant of `desks.cfg`
  wherever the run takes place: at its desk by that desk's invariant, elsewhere because the
  promise is about tables that do not change.
- `DesksUndoNothing`: the four action properties of `desks.cfg` hold of `Spec` as well.

Two facts on data are proved from the well-founded order of the subsets of a finite set,
by looking at a smallest subset for which the claim fails (`SmallestSubset`): that the
recursive function behind `MapThenSumSet` exists and is unique (`SumsExist`, `SumsUnique`),
and that one member more adds its value, whichever member `CHOOSE` takes first
(`SumOfMember`). The library's induction theorems, which take the claim as an operator,
are out of the provers' reach; a set of counterexamples in place of the operator is not.

Assumptions on the constants are those of the modules: bounds are positive, the values for
"nobody" or "none" are not among the real ones, `Requests` is finite where requests are
counted (`SessionsAssumption`) and `Leaves` where days are summed (`LeaveAssumption`), `NoEnd`
is not a day and `NoDays` no number of days; days granted may be 0.

Only model-checked: the liveness properties (`LapseResolved`, `CapturedIsGranted`,
`RefundIsRecorded` without lost answers, `EveryMailEnds`), since fairness and ENABLED are
beyond the prover. Every other property that a passing run checks has a theorem. What the
failing runs refute is refuted on their small instances. What the models leave to data
(which plan a price ranks where, what a match compares) is neither checked nor proved.

## 6. What is not modelled

`PROJECT.json` lists every component with its status and what of it is left out, and every
hazard with the properties that watch it. Left out altogether: rendering, export, upload
and audit (input and output); routing, permissions and middleware (no state, but for the
quota, which is modelled); leads and notifications (single rows); migrations and scripts
(run by hand before the server starts). Of the desks: the text comparison behind a match,
the amounts of a settlement, the totals of a payslip, attendance hours and holidays,
passwords and hashes, the soft delete of users by a platform administrator, and creating,
deleting and editing plans (but for the quota of one).

### Where the code differs from what it says

Five disagreements have a run that shows them (section 4, "fails"). The following were met
while modelling; the models behave like the code, and no property excludes them.

Billing and plans:

- A checkout that is cancelled, expired or failed ends as a row only: its session stays open
  at the gateway, and `finalizeSuccessfulCheckout` refuses nothing but 'completed'
  (`payment.service.js:107`), so that its payment is taken and granted. The comment at
  `admin/subscription.controller.js:155-156` and the test at
  `tests/customPlanApprovalGatedOnPayment.test.js:218` say that two live sessions cannot be.
- A denial after an approval leaves the checkout of the approval payable; requests for a
  custom plan are doubled by two at once (`requestCustomPlan` checks, then inserts); a
  checkout opened by `createCustomPlanCheckout` may be for terms a new approval has just
  replaced.
- `payment.failed` after a refund marks the checkout failed; a second scheduled purchase
  replaces a paid change that still waits.
- The sweep may grant a scheduled period between the gateway's answer to its refund and the
  record (`subscriptionCheckout.service.js:544-556`), although the customer was told that
  the renewal will be dropped (`:382`).
- A flip to 'expired' decided on an old read may land on a period renewed since
  (`subscriptionCheckout.service.js:182`), although only a lapsed plan "does get flipped"
  (`:172`).
- A refund event that could not be confirmed is answered with 200
  (`paymentWebhook.controller.js:178-209`); the retry its comment counts on never comes.
- A plan that changes by the sweep, or whose quota is edited, keeps the day's usage, also
  when that is more than the new quota: the next request is refused, nothing is taken back.
- `deletePlan` looks at `subscription_plan_id` only, so a scheduled plan or one being paid
  for is deleted (its foreign key becomes NULL). `updatePlan` may take the Free flag off the
  Free plan, although `createPlan` calls "exactly one Free plan" a hard invariant.
- Cancelling a subscription by an administrator is two autocommitted statements.

Mail: a send longer than the reclaim time is made twice; of the scans in
`notificationEmail.scheduler.js`, an interview is not reminded of again after it was moved
(the event key stays, :32), and the attendance digest is skipped for everybody once one
administrator has it queued (:94), so a crash in between loses the others; the mail of an
overdue request is sent twice by two page loads at once.

Salaries: `asDateStr` and the start of a raise use `toISOString` on a local midnight
(`salaryHistory.controller.js:121-123`, `:182-185`), which the comment at `:73-84` and
`tests/salaryHistoryDateShift.test.js` call a bug for the list: editing only the amount
moves the start a day back east of UTC. Editing the start of a closed period may leave a
gap or an overlap before it.

Exits and assets: the employee pages set and take back 'ex_employee' with or without an
exit, as `offboarding.service.js:826-828` says itself; `completeMaintenance` locks only
the job, so an asset returned meanwhile stays 'assigned' to nobody; `deleteCategory`
counts, then deletes; `assignAsset` accepts an ex-employee; a drafted settlement keeps its
deduction for an asset that was returned; a late request sets a paid settlement back to
processed, or pays it twice; a late decision on an exit overwrites another.

Recruitment: `updateCandidate` writes back the stage it read; the offer is mailed before
the commit, which may fail.

Approvals: the requester may not decide, so a request whose only approver is its requester
waits for ever (`approvalWorkflow.service.js:544`).

Verification: the matcher may send a request to an organization its owner just left; the
handlers of administrators and verifiers test for 'verified' and 'unverified' only, so an
automatic approval can be deleted or decided again; `updateMySentRequest` updates by id
alone.

Leave, overtime, support, letters: `setLeaveAllocation` writes a remainder from the used
days it read; two decisions on an overtime claim are both written; a reply lands on a
ticket closed in between; `deleteLetter` reads the status, then deletes whatever the row is
by then. The comment of `buildReferenceNumber` (`hrLetters.service.js:192-196`) promises a
retry of the INSERT that `createDraftLetter` does not have: two drafts at once give one of
them a 409.

Accounts and sessions: `createEmployee` without an invitation does not look at
`users.email`, and `employees.email` is not unique; a password set after `cancelInvite` has
read re-activates the account; two `resendInvite` at once leave two live links, and two
`storeOtp` two live codes; `refreshAccessToken` deletes the token before it looks at the
account; `revokeAllRefreshTokens` has no caller.

Document service: pushes of the catalogue may arrive out of order and leave the service
with the older one until the next edit or start of the backend.

Migrations: a first run that dies in the middle on an empty database makes the next one
record all files as applied.

