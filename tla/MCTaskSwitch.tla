---------------------------- MODULE MCTaskSwitch ----------------------------
(* Four programs, started by CALL or JMP in any order.                      *)
EXTENDS TaskSwitch
=============================================================================
