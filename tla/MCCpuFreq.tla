----------------------------- MODULE MCCpuFreq -----------------------------
(* CpuFreq with frequencies on both sides of the one of power saving; which *)
(* process is which makes no difference.                                   *)
EXTENDS CpuFreq, TLC

AnyPid == Permutations(Pids)
=============================================================================
