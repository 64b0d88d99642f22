---------------------------- MODULE CustomerForms ----------------------------
(* The forms of the customer's site and of the agency portal. *)
EXTENDS Screens

(* Ask for volume. *)
PortalVolumeRequest == [Form("blank") EXCEPT !.done = "resets", !.preview = "typed"]

(* Pay all that is owed. *)
PortalPay == [Form("blank") EXCEPT !.preview = "agreed"]

(* Pay one invoice. *)
PortalPayOne == [Form("blank") EXCEPT !.locks = FALSE]

(* Pay the chosen items: invoices for the old balances, then one payment. *)
PortalPaySelected == [Form("blank") EXCEPT !.locks = FALSE, !.second = "rest"]

(* The receipt of an agency payment. *)
PortalCheckoutReceipt == [Form("blank") EXCEPT !.done = "resets"]

(* A new ticket with its files. *)
TicketNew == Form("blank")

(* An answer in a ticket. *)
MyReply == [Form("blank") EXCEPT !.done = "resets"]

(* Name, phone and e-mail. *)
SaveInfo == [Form("row") EXCEPT !.done = "stays"]

(* A new password. *)
ChangePassword == [Form("blank") EXCEPT !.done = "resets"]

(* Sound and push. *)
NotifyPrefs == [Form("row") EXCEPT !.locks = FALSE, !.done = "stays"]

(* A new account. *)
Register == Form("blank")

(* A code by mail, then the new password. *)
ResetPassword == [Form("blank") EXCEPT !.done = "stays"]

(* Signing in. *)
LoginForm == Form("blank")

(* Signing in to the portal. *)
PortalLogin == Form("blank")

(* Sound and push of the portal. *)
PortalSettings == [Form("row") EXCEPT !.locks = FALSE, !.done = "stays"]

(* All of them. *)
CustomerFormsCatalogue == {PortalVolumeRequest, PortalPay, PortalPayOne, PortalPaySelected,
   PortalCheckoutReceipt, TicketNew, MyReply, SaveInfo, ChangePassword, NotifyPrefs, Register,
   ResetPassword, LoginForm, PortalLogin, PortalSettings}
=============================================================================
