------------------------------- MODULE MCAio -------------------------------
(* Small instances of AioClient for TLC.                                    *)
EXTENDS AioClient

CONSTANTS Main      \* the aio on which every operation is used

AllOps == Action \ {"none", "data"}
MCOps(a) == IF a = Main THEN AllOps ELSE {"read"}

(* A socket holds one unit at a time, so two come in two events.            *)
MCWants(a, op) ==
    CASE a # Main \/ op = "cint" -> {1}
      [] a = Main /\ op = "writen" -> {0, 2}
      [] a = Main /\ op \notin {"cint", "writen"} -> {2}
=============================================================================
