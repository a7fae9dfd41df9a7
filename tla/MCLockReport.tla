---------------------------- MODULE MCLockReport ----------------------------
(***************************************************************************)
(* Three sessions and as many locks as the cfg names: enough for a queue   *)
(* of two, for a chain of three, for a deadlock and for a prepared         *)
(* transaction in front of any of them.                                    *)
(***************************************************************************)
EXTENDS LockReport

MCSessions == 1..3
MCVisible == 1..3
=============================================================================
