------------------------------ MODULE MCTcbList ------------------------------
(* TcbList as it is.                                                        *)
EXTENDS TcbList
=============================================================================
