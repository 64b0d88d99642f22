------------------------------ MODULE MCPages ------------------------------
(* Instances of Pages for TLC: every list page of the two front ends. *)
EXTENDS Pages, AdminLists, AgencyLists, CustomerLists
CONSTANTS f1, f2, m, x

AllLists == AdminListsCatalogue \cup AgencyListsCatalogue \cup CustomerListsCatalogue
=============================================================================
