---------------------------- MODULE MCKernelLoader ----------------------------
(***************************************************************************)
(* KernelLoader with model values for its callers.  They are symmetric,    *)
(* but a symmetry set would be unsound for the liveness the run checks.    *)
(***************************************************************************)
EXTENDS KernelLoader
=============================================================================
