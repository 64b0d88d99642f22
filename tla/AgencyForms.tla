---------------------------- MODULE AgencyForms ----------------------------
(* The forms of the agency pages and of group managers. *)
EXTENDS Screens

(* More volume for an admin: the amount is confirmed, then sent. *)
GmAddVolume == Form("blank")

(* A new password for an admin. *)
GmPassword == Form("blank")

(* Another role for an admin. *)
GmRoleChange == Form("row")

(* A new admin of the group. *)
GmNewAdmin == Form("blank")

(* Name and note of an admin. *)
GmAdminSettings == Form("fetch")

(* Sound and push of the manager. *)
GmNotifyCard == [Form("fetch") EXCEPT !.locks = FALSE, !.done = "stays"]

(* The manager's own password. *)
GmOwnPassword == [Form("blank") EXCEPT !.done = "resets"]

(* A limit with its preview: what the last answer was for is sent. *)
SetLimitForm == [Form("blank") EXCEPT !.preview = "quoted"]

(* A group and its members. *)
GroupForm == Form("either")

(* One key at a time. *)
AgencySettings == [Form("fetch") EXCEPT !.sends = "changed", !.locks = FALSE, !.done = "refills"]

(* A manager, the groups and the roles in them. *)
ManagerForm == Form("either")

(* The fields of a panel admin. *)
AdminFields == Form("blank")

(* A new panel admin. *)
AgencyAdminCreate == Form("blank")

(* What changed of a panel admin. *)
AdminSettingsTab == [Form("fetch") EXCEPT !.sends = "changed", !.done = "refills"]

(* A payment or correction by hand. *)
LedgerEntry == Form("blank")

(* The invoices an entry pays. *)
InvoicePick == Form("blank")

(* The name of a store. *)
StoreForm == [Form("fetch") EXCEPT !.locks = FALSE, !.done = "refills"]

(* Ask for volume: the price shown is of the last answer, the volume sent is the typed one. *)
AdminVolumeRequest == [Form("blank") EXCEPT !.done = "resets", !.preview = "typed"]

(* Pay all that is owed: the server refuses another total than the one shown. *)
ManagerPay == [Form("blank") EXCEPT !.preview = "agreed"]

(* Pay the chosen items: invoices for the old balances first, then one payment; nothing stops a
   second click, and no total is sent. *)
ManagerPaySelected == [Form("blank") EXCEPT !.locks = FALSE, !.second = "rest"]

(* Ask for volume for an admin of the group. *)
ManagerRequest == [Form("blank") EXCEPT !.done = "resets", !.preview = "typed"]

(* The receipt of an agency payment. *)
AdminCheckoutReceipt == [Form("blank") EXCEPT !.done = "resets"]

(* All of them. *)
AgencyFormsCatalogue == {GmAddVolume, GmPassword, GmRoleChange, GmNewAdmin, GmAdminSettings,
   GmNotifyCard, GmOwnPassword, SetLimitForm, GroupForm, AgencySettings, ManagerForm, AdminFields,
   AgencyAdminCreate, AdminSettingsTab, LedgerEntry, InvoicePick, StoreForm, AdminVolumeRequest,
   ManagerPay, ManagerPaySelected, ManagerRequest, AdminCheckoutReceipt}
=============================================================================
