---------------------------- MODULE CustomerLists ----------------------------
(* The list pages of the customer's site and of the agency portal (src/frontend/user/src). *)
EXTENDS Screens

(* Fresh usage for one card. *)
RefreshService == Op("none", "patch")

(* A new link; the card takes the answer. *)
RevokeService == Op("dialog", "patch")

(* What a service card offers. *)
ServiceCardOps == {RefreshService, RevokeService}

(* The customer's services, asked again while one is being built. *)
MyServices == [List(ServiceCardOps) EXCEPT !.fails = "kept", !.heard = "poll"]

(* The QR code of a service; a failure leaves the spinner. *)
QrOfService == [List({}) EXCEPT !.late = "dropped", !.fails = "stuck"]

(* The plans a service can be renewed with; answers of two clicks may cross. *)
RenewInfo == [List({}) EXCEPT !.by = "pick"]

(* The customer's orders and receipts. *)
MyOrders == List({})

(* An order for the invoice, and on to checkout. *)
PayManualInvoice == Op("none", "nothing")

(* Invoices staff made for the customer. *)
MyManualInvoices == List({PayManualInvoice})

(* The customer's tickets. *)
MyTickets == [List({}) EXCEPT !.heard = "push"]

(* Open a closed ticket again. *)
ReopenTicket == Op("none", "reload")

(* Close: loads again inside the dialog. *)
CloseMyTicket == Op("dialog", "reload")

(* One ticket: pushed, and asked every 30 s. *)
TicketChat == [List({ReopenTicket, CloseMyTicket}) EXCEPT !.fails = "kept", !.heard = "poll"]

(* A picture of a message; a failure leaves the spinner. *)
TicketFile == [List({}) EXCEPT !.late = "dropped", !.fails = "stuck"]

(* The plans for sale. *)
Store == List({})

(* Who is signed in to the portal. *)
AgencyPortal == List({})

(* The statement of a range. *)
PortalStatement == [List({}) EXCEPT !.by = "pick"]

(* Volume requests of the admin. *)
PortalRequests == List({})

(* Invoices, payments and debt of the admin. *)
PortalInvoices == List({})

(* A picture that needs the session. *)
AuthImage == [List({}) EXCEPT !.late = "dropped"]

(* All of them. *)
CustomerListsCatalogue == {MyServices, QrOfService, RenewInfo, MyOrders, MyManualInvoices,
   MyTickets, TicketChat, TicketFile, Store, AgencyPortal, PortalStatement, PortalRequests,
   PortalInvoices, AuthImage}
=============================================================================
