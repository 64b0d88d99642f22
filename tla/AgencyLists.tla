---------------------------- MODULE AgencyLists ----------------------------
(* The list pages of the agency (admin panel), of group managers and of the notification bells. *)
EXTENDS Screens

(* The state of the agency. *)
AgencyDashboard == [List({}) EXCEPT !.fails = "kept"]

(* The panel admins, with their limits. *)
AgencyAdmins == [List({}) EXCEPT !.by = "pause", !.fails = "kept"]

(* Allow, pause or reset the limit of an admin. *)
LimitAct == Op("dialog", "reload")

(* Delete the admin and leave. *)
DeletePanelAdmin == Op("dialog", "nothing")

(* One admin; every link to another one is on another page. *)
AgencyAdminDetail == [List({LimitAct, DeletePanelAdmin}) EXCEPT !.fails = "kept"]

(* The sign-in link of an admin. *)
PortalLinkCard == List({})

(* Delete a group. *)
RemoveGroup == Op("dialog", "reload")

(* Take an admin out: the whole list of members is sent. *)
DropMember == Op("dialog", "reload")

(* The groups and their members. *)
AgencyGroups == [List({RemoveGroup, DropMember}) EXCEPT !.fails = "kept"]

(* What the syncs did, page after page. *)
AgencySyncLogs == [List({}) EXCEPT !.by = "pick", !.blank = TRUE, !.fails = "kept", !.more = TRUE]

(* A new password, shown once. *)
ResetManagerPw == Op("dialog", "reload")

(* Enable or disable a manager. *)
ToggleManager == Op("dialog", "reload")

(* The managers. *)
AgencyManagers == [List({ResetManagerPw, ToggleManager}) EXCEPT !.fails = "kept"]

(* Approve one account. *)
ApproveAccount == Op("dialog", "reload")

(* Reject one account. *)
RejectAccount == Op("dialog", "reload")

(* The ticked accounts. *)
BulkApprovals == Op("dialog", "reload")

(* Accounts managers made beyond their right. *)
AgencyApprovals == [List({ApproveAccount, RejectAccount, BulkApprovals}) EXCEPT !.by = "pick",
     !.fails = "kept"]

(* What the managers of a group did. *)
GroupActivity == [List({}) EXCEPT !.fails = "kept"]

(* The debt of each group. *)
GroupsLedger == [List({}) EXCEPT !.fails = "kept"]

(* The statement of a group for a range. *)
GroupStatement == [List({}) EXCEPT !.by = "pick", !.blank = TRUE, !.fails = "kept"]

(* The roles and groups of the chosen panel. *)
AdminOptions == [List({}) EXCEPT !.by = "pick", !.blank = TRUE, !.fails = "kept"]

(* Void an entry; the card takes the answer. *)
VoidEntry == Op("dialog", "answer")

(* The ledger of an admin; a change of an invoice loads it again. *)
LedgerCard == [List({VoidEntry}) EXCEPT !.fails = "kept", !.heard = "push"]

(* Who owes what. *)
LedgerOverview == List({})

(* Sales of a range. *)
AgencyReports == [List({}) EXCEPT !.by = "pick", !.blank = TRUE]

(* Every change of a limit. *)
AgencyLimitHistory == [List({}) EXCEPT !.blank = TRUE]

(* Void an invoice with a reason, and tell the ledger card. *)
VoidInvoice == Op("dialog", "reload")

(* Paid outside the system. *)
SettleOutside == Op("dialog", "reload")

(* What an invoice offers. *)
InvoiceRowOps == {VoidInvoice, SettleOutside}

(* Invoices by status. *)
AgencyInvoices == [List(InvoiceRowOps) EXCEPT !.by = "pick", !.blank = TRUE]

(* The picture of an agency receipt. *)
AgencyReceipt == List({})

(* Approve an agency payment. *)
ApproveAgencyPayment == Op("dialog", "reload")

(* Reject it with a reason. *)
RejectAgencyPayment == Op("dialog", "reload")

(* Agency payments by status. *)
AgencyPayments == [List({ApproveAgencyPayment, RejectAgencyPayment}) EXCEPT !.by = "pick",
     !.blank = TRUE, !.heard = "push"]

(* The card takes the answer. *)
SetPortalAccess == Op("none", "answer")

(* Whether an admin may sign in to the portal. *)
PortalAccessCard == List({SetPortalAccess})

(* One invoice over the rest of the debt. *)
Settle == Op("dialog", "reload")

(* The invoices of an admin; a change of the ledger loads them again. *)
AdminInvoicesCard == [List({VoidInvoice, SettleOutside, Settle}) EXCEPT !.heard = "push"]

(* Open, stop or resume a store. *)
SetStore == Op("dialog", "reload")

(* The store of an admin. *)
AgencyStoreCard == List({SetStore})

(* The debt of the chosen group. *)
GroupDebt == [List({}) EXCEPT !.by = "pick"]

(* The invoices of a manager's admins. *)
ManagerInvoices == List({})

(* The invoices and requests of the signed-in admin. *)
PortalBilling == List({})

(* What the manager may see, loaded once. *)
GroupManager == [List({}) EXCEPT !.fails = "kept"]

(* The accounts of an admin. *)
GmAdminUsers == [List({}) EXCEPT !.by = "pause", !.blank = TRUE]

(* Live usage of the admins on the page. *)
GmLive == [List({}) EXCEPT !.late = "dropped", !.fails = "kept"]

(* The numbers of one admin. *)
GmAdminStats == List({})

(* Enable or disable an admin. *)
GmSetStatus == Op("dialog", "reload")

(* What the card of an admin offers on the list itself. *)
GmAdminOps == {GmSetStatus}

(* The admins of the group: an answer that a newer request overtook is dropped. *)
GmAdmins == [List(GmAdminOps) EXCEPT !.by = "pause", !.late = "dropped"]

(* The books of the chosen group. *)
GmAccounting == [List({}) EXCEPT !.by = "pick", !.blank = TRUE]

(* The statement of an admin for a range. *)
GmStatement == [List({}) EXCEPT !.by = "pick"]

(* What happened, filtered and paged. *)
GmActivity == [List({}) EXCEPT !.by = "pick", !.late = "dropped"]

(* Read at once on screen; a failure is not taken back. *)
AdminBellRead == Op("none", "optimistic")

(* The bell: asked every 45 s and on an event. *)
AdminBell == [List({AdminBellRead}) EXCEPT !.fails = "kept", !.heard = "poll"]

(* All notifications, paged. *)
AdminNotifications == [List({AdminBellRead}) EXCEPT !.by = "pick", !.heard = "push"]

(* Read at once on screen; a failure is not taken back. *)
PortalBellRead == Op("none", "optimistic")

(* The bell: asked every 45 s and on an event. *)
PortalBell == [List({PortalBellRead}) EXCEPT !.fails = "kept", !.heard = "poll"]

(* All notifications, paged. *)
PortalNotifications == [List({PortalBellRead}) EXCEPT !.by = "pick", !.heard = "push"]

(* All of them. *)
AgencyListsCatalogue == {AgencyDashboard, AgencyAdmins, AgencyAdminDetail, PortalLinkCard,
   AgencyGroups, AgencySyncLogs, AgencyManagers, AgencyApprovals, GroupActivity, GroupsLedger,
   GroupStatement, AdminOptions, LedgerCard, LedgerOverview, AgencyReports, AgencyLimitHistory,
   AgencyInvoices, AgencyReceipt, AgencyPayments, PortalAccessCard, AdminInvoicesCard,
   AgencyStoreCard, GroupDebt, ManagerInvoices, PortalBilling, GroupManager, GmAdminUsers, GmLive,
   GmAdminStats, GmAdmins, GmAccounting, GmStatement, GmActivity, AdminBell, AdminNotifications,
   PortalBell, PortalNotifications}
=============================================================================
