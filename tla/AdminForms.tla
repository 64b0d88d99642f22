---------------------------- MODULE AdminForms ----------------------------
(* The forms of the admin panel. *)
EXTENDS Screens

(* Profile first, then the password when one was typed. *)
UserModal == [Form("either") EXCEPT !.second = "secret", !.secret = TRUE]

(* A service by hand, for a customer and a panel account. *)
ManualCreate == Form("blank")

(* What a receipt says. *)
ReceiptInfo == [Form("row") EXCEPT !.done = "stays"]

(* An answer with its files. *)
TicketReply == [Form("blank") EXCEPT !.done = "resets"]

(* Try to build the account again, the name only when it was changed. *)
ProvisionFailed == [Form("row") EXCEPT !.sends = "changed", !.done = "stays"]

(* The fields that differ from the answer it was filled with; a change to `on hold' sends the days
   as well. *)
ServiceEdit == [Form("fetch") EXCEPT !.sends = "linked", !.done = "refills"]

(* A ticket topic; nothing stops a second click. *)
TopicForm == [Form("either") EXCEPT !.locks = FALSE]

(* A canned reply. *)
CannedForm == [Form("either") EXCEPT !.locks = FALSE]

(* One key at a time, when its input is left. *)
TicketSettings == [Form("fetch") EXCEPT !.sends = "changed", !.locks = FALSE, !.done = "refills"]

(* A message to a customer. *)
CrmMessage == [Form("blank") EXCEPT !.locks = FALSE, !.done = "resets"]

(* A tag, template or rule. *)
CrmItemForm == [Form("either") EXCEPT !.locks = FALSE]

(* One key at a time. *)
RetentionSettings == [Form("fetch") EXCEPT !.sends = "changed", !.locks = FALSE, !.done = "refills"]

(* One key at a time. *)
CrmSettings == [Form("fetch") EXCEPT !.sends = "changed", !.locks = FALSE, !.done = "refills"]

(* A sender of bank messages. *)
SmsSourceModal == Form("either")

(* A phone; a new one stays open with its token. *)
SmsDeviceModal == Form("either")

(* The whole form is sent, the keys of other pages with it. *)
SettingsForm == [Form("fetch") EXCEPT !.done = "refills"]

(* A panel; an empty password means the stored one. *)
PanelCard == [Form("either") EXCEPT !.secret = TRUE]

(* The tokens of the bots, then a setting kept elsewhere. *)
Bots == [Form("fetch") EXCEPT !.locks = FALSE, !.second = "rest", !.done = "refills",
     !.secret = TRUE]

(* A required channel. *)
ChannelForm == [Form("either") EXCEPT !.locks = FALSE]

(* A content page. *)
PageModal == Form("either")

(* A role and its permissions. *)
RoleModal == Form("either")

(* A staff account, then what it may see. *)
StaffModal == [Form("either") EXCEPT !.second = "rest", !.secret = TRUE]

(* A plan. *)
PlanForm == [Form("either") EXCEPT !.locks = FALSE]

(* Its fields; another panel clears the groups. *)
PlanFormFields == [Form("either") EXCEPT !.locks = FALSE]

(* A discount code. *)
DiscountEditor == Form("either")

(* Names, colours and pictures. *)
Branding == [Form("fetch") EXCEPT !.done = "refills"]

(* The mail server; an empty password means the stored one. *)
EmailSettings == [Form("fetch") EXCEPT !.done = "refills", !.secret = TRUE]

(* How the panel is reached. *)
AccessMode == [Form("fetch") EXCEPT !.done = "refills"]

(* A message to customers. *)
Notifications == [Form("blank") EXCEPT !.done = "resets"]

(* An invoice made by hand. *)
ManualInvoiceForm == Form("blank")

(* When deleted accounts go for good. *)
AutoPurge == [Form("fetch") EXCEPT !.sends = "changed", !.done = "refills"]

(* Whether rounded payments are accepted. *)
RoundedPay == [Form("fetch") EXCEPT !.sends = "changed", !.done = "refills"]

(* An app customers may install. *)
AppCard == [Form("row") EXCEPT !.done = "stays"]

(* A bank card. *)
CardModal == Form("either")

(* The account whose deposits are read. *)
BluSettings == [Form("row") EXCEPT !.done = "refills"]

(* Sound and volume, saved as they change. *)
SoundPrefs == [Form("row") EXCEPT !.locks = FALSE, !.done = "stays"]

(* Signing in to the panel. *)
AdminLogin == Form("blank")

(* All of them. *)
AdminFormsCatalogue == {UserModal, ManualCreate, ReceiptInfo, TicketReply, ProvisionFailed,
   ServiceEdit, TopicForm, CannedForm, TicketSettings, CrmMessage, CrmItemForm, RetentionSettings,
   CrmSettings, SmsSourceModal, SmsDeviceModal, SettingsForm, PanelCard, Bots, ChannelForm,
   PageModal, RoleModal, StaffModal, PlanForm, PlanFormFields, DiscountEditor, Branding,
   EmailSettings, AccessMode, Notifications, ManualInvoiceForm, AutoPurge, RoundedPay, AppCard,
   CardModal, BluSettings, SoundPrefs, AdminLogin}
=============================================================================
