---------------------------- MODULE AdminLists ----------------------------
(* The list pages of the admin panel (src/frontend/admin/src/pages). *)
EXTENDS Screens

(* Block or unblock: the row on screen takes the answer. *)
ToggleUser == Op("none", "patch")

(* The dialog shows what the account holds; its action deletes. *)
DeleteUser == Op("dialog", "reload")

(* What a row of the table and of the cards offers. *)
UserRowOps == {ToggleUser, DeleteUser}

(* Typing in the search box waits 300 ms; every answer is taken. *)
Users == [List(UserRowOps) EXCEPT !.by = "pause", !.blank = TRUE]

(* One customer and their orders: another id empties the page first. *)
UserOrders == [List({DeleteUser}) EXCEPT !.by = "pick", !.blank = TRUE]

(* A dry run first, then the dialog with what will go. *)
PurgeUsers == Op("preview", "reload")

(* The selection bar, the rows and the summary of a purge. *)
ArchiveOps == {PurgeUsers}

(* Deleted accounts: filters take effect when applied. *)
ArchiveList == [List(ArchiveOps) EXCEPT !.by = "pick", !.blank = TRUE]

(* Bring a deleted account back. *)
RestoreUser == Op("dialog", "reload")

(* One deleted account. *)
ArchiveDetail == [List({RestoreUser}) EXCEPT !.fails = "kept"]

(* Sync with the panel, then load again with the filter of the click. *)
SyncAll == Op("none", "reload")

(* Sync one service: its row takes the answer. *)
SyncOne == Op("none", "patch")

(* Reset the usage of one service. *)
ResetUsage == Op("dialog", "patch")

(* A new subscription link. *)
RevokeLink == Op("dialog", "patch")

(* The row leaves the list. *)
DeleteService == Op("dialog", "patch")

(* Disabling asks, enabling does not. *)
SetServiceStatus == Op("dialog", "patch")

(* What the menu of a row offers. *)
ServiceRowOps == {SyncOne, ResetUsage, RevokeLink, DeleteService, SetServiceStatus}

(* Every keystroke of the search loads; the old rows stay meanwhile. *)
Services == [List(ServiceRowOps \cup {SyncAll}) EXCEPT !.by = "pick"]

(* The customer a service is made for: looked up while typing. *)
ServiceOwnerPicker == [List({}) EXCEPT !.by = "pause"]

(* Accounts of the chosen panel, looked up while typing. *)
PanelAccountSearch == [List({}) EXCEPT !.by = "pause"]

(* The totals of a date range. *)
TxStats == [List({}) EXCEPT !.by = "pick"]

(* What the deletion undoes is asked first and shown in the dialog. *)
DeleteTx == Op("preview", "reload")

(* Bring a hidden transaction back. *)
RestoreTx == Op("dialog", "reload")

(* Several rows at once; the ones that failed are reported. *)
BulkTx == Op("dialog", "reload")

(* Take back a rounded payment. *)
UndoRounded == Op("preview", "reload")

(* What the rows and the selection offer. *)
TxRowOps == {DeleteTx, RestoreTx, UndoRounded, BulkTx}

(* The transactions: search, status, card, range, hidden or not. *)
TxTable == [List(TxRowOps) EXCEPT !.by = "pause", !.blank = TRUE]

(* A status that needs no question. *)
CommitStatus == Op("none", "reload")

(* The dialog loads the page again inside its action. *)
ConfirmStatus == Op("dialog", "reload")

(* The status card and the actions below it. *)
TransactionOps == {CommitStatus, ConfirmStatus, DeleteTx, UndoRounded, RestoreTx}

(* One order with its payment. *)
TransactionDetail == [List(TransactionOps) EXCEPT !.fails = "kept"]

(* The picture of a receipt; an answer after unmounting is dropped. *)
ReceiptBlob == [List({}) EXCEPT !.late = "dropped"]

(* Approve; warnings are shown in the dialog. *)
ApprovePayment == Op("dialog", "reload")

(* Reject with a reason, and load the queue again. *)
RejectPayment == Op("dialog", "reload")

(* What a receipt of the queue offers, with its warnings. *)
PaymentOps == {ApprovePayment, RejectPayment}

(* Receipts to review; the live feed asks for a new load. *)
PaymentQueue == [List(PaymentOps) EXCEPT !.fails = "kept", !.heard = "push"]

(* The orders a deposit may pay are asked for first. *)
AttachDeposit == Op("preview", "reload")

(* Take a deposit off its order. *)
UnlinkDeposit == Op("dialog", "reload")

(* What a deposit offers: candidates, attaching, taking it off. *)
DepositOps == {AttachDeposit, UnlinkDeposit}

(* The bank deposits of a filter; a new one loads the list again. *)
BluDeposits == [List(DepositOps) EXCEPT !.by = "pick", !.fails = "kept", !.heard = "push"]

(* Received messages, page after page; "more" appends. *)
SmsLog == [List({}) EXCEPT !.by = "pick", !.blank = TRUE, !.fails = "kept", !.more = TRUE]

(* Enable or disable a code. *)
ToggleDiscount == Op("none", "reload")

(* The codes with their uses. *)
Discounts == [List({ToggleDiscount}) EXCEPT !.by = "pause"]

(* The customers of a personal code. *)
CustomerPicker == [List({}) EXCEPT !.by = "pause"]

(* The uses of one code. *)
DiscountReport == List({})

(* Delete a plan. *)
DeletePlan == Op("dialog", "reload")

(* Shown at once; a refusal loads the list again. *)
QuickToggleActive == Op("none", "undo")

(* What a plan card offers. *)
PlanRowOps == {DeletePlan, QuickToggleActive}

(* All plans once; tabs and search filter on the spot. *)
Plans == List(PlanRowOps)

(* The row on screen takes the answer. *)
ToggleCard == Op("none", "patch")

(* Delete a bank card. *)
DeleteCard == Op("dialog", "reload")

(* The bank cards and their totals. *)
Cards == List({ToggleCard, DeleteCard})

(* Cancel an unpaid manual invoice. *)
CancelInvoice == Op("dialog", "reload")

(* The manual invoices of one customer. *)
ManualInvoicesCard == List({CancelInvoice})

(* The books of a period. *)
Accounting == [List({}) EXCEPT !.by = "pick", !.blank = TRUE]

(* The same answer split by card, plan and agency. *)
AccountingBreakdown == [List({}) EXCEPT !.by = "pick", !.blank = TRUE]

(* The inbox, page after page; the live feed asks for a new load. *)
Tickets == [List({}) EXCEPT !.by = "pause", !.fails = "kept", !.heard = "push", !.more = TRUE]

(* Status, priority, assignee: the page takes the answer. *)
TicketAct == Op("none", "answer")

(* Closing asks. *)
CloseTicket == Op("dialog", "answer")

(* The menus of status, priority and assignee. *)
TicketPaneOps == {TicketAct, CloseTicket}

(* One ticket: another id in the URL mounts another pane (it is keyed by the id). *)
TicketPane == [List(TicketPaneOps) EXCEPT !.fails = "kept", !.heard = "push"]

(* The customer of the ticket, with services and orders: a part of the pane. *)
TicketCustomer == List({})

(* Forget the Telegram account of a customer. *)
UnlinkTelegram == Op("none", "reload")

(* The Telegram account of a customer. *)
TelegramLink == List({UnlinkTelegram})

(* Delete a topic or a canned reply. *)
DeleteTopic == Op("dialog", "reload")

(* Topics, canned replies and settings of tickets. *)
TicketTopics == List({DeleteTopic})

(* Cases to work on. *)
CrmQueue == [List({}) EXCEPT !.by = "pause"]

(* Customers whose services ended. *)
CrmWinback == [List({}) EXCEPT !.by = "pause"]

(* One field of a case. *)
PatchCase == Op("none", "reload")

(* Close a case with its outcome. *)
CloseCase == Op("dialog", "reload")

(* One case with its timeline. *)
CrmCase == List({PatchCase, CloseCase})

(* Tags and notes of a customer. *)
PatchCustomer == Op("none", "reload")

(* Everything of one customer; a referrer is one click away. *)
Customer360 == [List({PatchCustomer}) EXCEPT !.by = "hop"]

(* A case for a lead, and on to it. *)
OpenLeadCase == Op("none", "nothing")

(* Visitors who never bought. *)
CrmLeads == [List({OpenLeadCase}) EXCEPT !.by = "pause"]

(* The reports of a period. *)
CrmReports == [List({}) EXCEPT !.by = "pick"]

(* Delete a tag, template or rule. *)
DeleteCrmItem == Op("dialog", "reload")

(* Tags, templates and rules. *)
CrmSimpleList == List({DeleteCrmItem})

(* Who a message is for. *)
NotifyUserPicker == [List({}) EXCEPT !.by = "pause"]

(* Enable or disable an SMS sender. *)
ToggleSource == Op("none", "patch")

(* Delete an SMS sender. *)
DeleteSource == Op("dialog", "reload")

(* The senders whose messages are read. *)
SmsSources == List({ToggleSource, DeleteSource})

(* Enable or disable a phone. *)
ToggleDevice == Op("none", "patch")

(* Delete a phone. *)
DeleteDevice == Op("dialog", "reload")

(* The phones that upload messages. *)
SmsDevices == List({ToggleDevice, DeleteDevice})

(* Try the connection. *)
TestPanel == Op("none", "nothing")

(* Delete a panel. *)
DeletePanel == Op("dialog", "reload")

(* Try every panel. *)
CheckAllHealth == Op("none", "nothing")

(* What a panel offers. *)
PanelRowOps == {TestPanel, DeletePanel}

(* The panels and their health. *)
PanelConnection == List(PanelRowOps \cup {CheckAllHealth})

(* The counters of the bots. *)
BotMetrics == List({})

(* Membership rules: shown at once, loaded again when refused. *)
SetEnforcement == Op("none", "undo")

(* Delete a required channel. *)
DeleteChannel == Op("dialog", "reload")

(* Ask Telegram whether the bot is an admin there. *)
TestChannel == Op("none", "reload")

(* The channels a customer must join. *)
RequiredChannels == List({SetEnforcement, DeleteChannel, TestChannel})

(* Use this theme from now on. *)
ActivateTheme == Op("none", "reload")

(* The themes. *)
Themes == List({ActivateTheme})

(* Delete a content page. *)
DeletePage == Op("dialog", "reload")

(* The content pages. *)
ContentPages == List({DeletePage})

(* Delete a role. *)
DeleteRole == Op("dialog", "reload")

(* Delete a staff account. *)
DeleteStaff == Op("dialog", "reload")

(* What the rows of roles and staff offer. *)
RoleOps == {DeleteRole, DeleteStaff}

(* Roles and staff accounts. *)
Roles == List(RoleOps)

(* Move the paths: the page takes the answer and watches. *)
SubmitPaths == Op("dialog", "answer")

(* The panel's paths: watched while the server still moves them. *)
PathsSettings == [List({SubmitPaths}) EXCEPT !.fails = "kept", !.heard = "watch"]

(* A step that runs at once. *)
DomainAct == Op("none", "answer")

(* A step that asks first. *)
ConfirmedAct == Op("dialog", "answer")

(* The domain wizard: watched while a job runs on the server. *)
DomainSettings == [List({DomainAct, ConfirmedAct}) EXCEPT !.fails = "kept", !.heard = "watch"]

(* Ask for a backup and load again a little later. *)
RunBackup == Op("none", "reload")

(* The server's state, loaded again on a timer. *)
LegacyMonitoring == [List({RunBackup}) EXCEPT !.fails = "kept", !.heard = "poll"]

(* Ask for a backup and load again a little later. *)
RunBackupCaspian == Op("none", "reload")

(* The same page of the other theme. *)
CaspianMonitoring == [List({RunBackupCaspian}) EXCEPT !.fails = "kept", !.heard = "poll"]

(* Key numbers of a period. *)
AnalyticsOverview == [List({}) EXCEPT !.by = "pick", !.blank = TRUE]

(* Income of a period. *)
AnalyticsFinance == [List({}) EXCEPT !.by = "pick", !.blank = TRUE]

(* Customers who came back. *)
AnalyticsRetention == [List({}) EXCEPT !.by = "pick", !.blank = TRUE]

(* Tickets of a period. *)
AnalyticsSupport == [List({}) EXCEPT !.by = "pick", !.blank = TRUE]

(* The first page of the panel. *)
Dashboard == List({})

(* A diagram is drawn after the page; a late one is dropped. *)
DocsDiagram == [List({}) EXCEPT !.late = "dropped"]

(* The manual, one page at a time. *)
Docs == [List({}) EXCEPT !.by = "pick", !.blank = TRUE]

(* The picture of a QR code. *)
QrThumb == [List({}) EXCEPT !.late = "dropped", !.fails = "kept"]

(* The install token of the chosen phone. *)
IosInstall == [List({}) EXCEPT !.by = "pick"]

(* The apps customers may install. *)
Apps == List({})

(* A small receipt picture. *)
ReceiptThumb == [List({}) EXCEPT !.late = "dropped"]

(* The cards to filter by, loaded when the sheet opens. *)
BankFilterSheet == List({})

(* Accounts waiting for approval: pushed, and asked every 30 s. *)
LiveApprovals == [List({}) EXCEPT !.fails = "kept", !.heard = "poll"]

(* All of them. *)
AdminListsCatalogue == {Users, UserOrders, ArchiveList, ArchiveDetail, Services,
   ServiceOwnerPicker, PanelAccountSearch, TxStats, TxTable, TransactionDetail, ReceiptBlob,
   PaymentQueue, BluDeposits, SmsLog, Discounts, CustomerPicker, DiscountReport, Plans, Cards,
   ManualInvoicesCard, Accounting, AccountingBreakdown, Tickets, TicketPane, TicketCustomer,
   TelegramLink, TicketTopics, CrmQueue, CrmWinback, CrmCase, Customer360, CrmLeads, CrmReports,
   CrmSimpleList, NotifyUserPicker, SmsSources, SmsDevices, PanelConnection, BotMetrics,
   RequiredChannels, Themes, ContentPages, Roles, PathsSettings, DomainSettings, LegacyMonitoring,
   CaspianMonitoring, AnalyticsOverview, AnalyticsFinance, AnalyticsRetention, AnalyticsSupport,
   Dashboard, DocsDiagram, Docs, QrThumb, IosInstall, Apps, ReceiptThumb, BankFilterSheet,
   LiveApprovals}
=============================================================================
