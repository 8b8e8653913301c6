----------------------------- MODULE MCLaunchMb1 -----------------------------
(* Every way to launch, with up to three tags, multiboot v1 on AArch64      *)
(* included; what follows the launch is kept small.                         *)
EXTENDS Launch

MCItems == BoundedSeq(Tags, 3)
MCImages == {<<[load |-> TRUE, file |-> 0, virt |-> 0, fsize |-> 1, msize |-> 1]>>}
=============================================================================
