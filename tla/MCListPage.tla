----------------------------- MODULE MCListPage -----------------------------
(* ListPage with two filters, a list of four pages and three fetches. *)
EXTENDS ListPage
=============================================================================
