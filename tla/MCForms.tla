------------------------------ MODULE MCForms ------------------------------
(* Instances of Forms for TLC: every form of the two front ends. *)
EXTENDS Forms, AdminForms, AgencyForms, CustomerForms
CONSTANTS plain, rest, secret, m1, m2

AllForms == AdminFormsCatalogue \cup AgencyFormsCatalogue \cup CustomerFormsCatalogue
=============================================================================
