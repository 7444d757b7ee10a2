---------------------------- MODULE KernelService ----------------------------
(***************************************************************************)
(* What kernel.js promises to its callers, and no more: the page learns    *)
(* whether the compiled kernel is the pinned binary, and once it is, the   *)
(* kernel becomes usable.  Neither piece of news is ever taken back.  A    *)
(* fetch or an instantiation that fails leaves the service where it was,   *)
(* so a later caller may do better.                                        *)
(*                                                                         *)
(*   "absent"    no identity verdict yet                                   *)
(*   "mismatch"  the bytes served are not the pinned kernel                *)
(*   "hashed"    the bytes are the pinned kernel, not instantiated yet     *)
(*   "ready"     the pinned kernel is instantiated                         *)
(*                                                                         *)
(* KernelLoader implements this; CheckerPage consults it.                  *)
(***************************************************************************)
VARIABLE kernel

KernelStates == {"absent", "mismatch", "hashed", "ready"}

\* What a caller that consults the service in state k may find.
Consult(k) ==
  {k} \cup (CASE k = "absent"   -> {"mismatch", "hashed", "ready"}
              [] k = "hashed"   -> {"ready"}
              [] k = "mismatch" -> {}
              [] k = "ready"    -> {})

Init == kernel = "absent"

Next == kernel' \in Consult(kernel)

Spec == Init /\ [][Next]_kernel
=============================================================================
