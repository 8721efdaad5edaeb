------------------------------ MODULE MCKernel ------------------------------
(***************************************************************************)
(* Module Kernel for TLC: init, child and other are user threads, ktaskd   *)
(* and wk kernel tasks (wk is the one ktaskd spawns), ksem is ktaskd's     *)
(* semaphore.                                                              *)
(***************************************************************************)
EXTENDS KernelInv, TLC

CONSTANTS init, child, other, ktaskd, wk, sem, ksem

OneConsumer == sem :> {child} @@ ksem :> {ktaskd}

TwoConsumers == sem :> {init, child} @@ ksem :> {ktaskd}

CpuSymmetry == Permutations(Cpus)
=============================================================================
