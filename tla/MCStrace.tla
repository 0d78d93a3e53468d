------------------------------ MODULE MCStrace ------------------------------
(* Instances of Strace for TLC: read(), exit_group() and a number the table  *)
(* of names does not have; results that are fine, an error and -ENOSYS.      *)
EXTENDS Strace

MCCalls == {0, EXIT, 400}
MCRets == {1, -2, -ENOSYS}
MCErrors == {1, -2}
MCArgs == {0, 257}
=============================================================================
