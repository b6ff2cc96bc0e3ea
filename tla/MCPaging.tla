------------------------------ MODULE MCPaging ------------------------------
(* Paging on a small machine: eleven entries in a table, so that a program  *)
(* of ten pages needs a second page table.                                  *)
EXTENDS Paging

MCInUse == {CorePdt, CorePt, LowFrame}
=============================================================================
