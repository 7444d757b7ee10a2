--------------------------- MODULE CheckerPromise ---------------------------
(***************************************************************************)
(* What the page promises a visitor, as if the check took no time: a       *)
(* verdict appears only for the text and the key the fields hold at that   *)
(* moment, is the one an honest check gives with the kernel as it is then, *)
(* and goes in the same step in which a field changes.  There are no       *)
(* timers, requests or generations here; CheckerPage, which has them all,  *)
(* implements this.                                                        *)
(***************************************************************************)
EXTENDS Receipts

VARIABLES box, signerKey, kernel, content

vars == <<box, signerKey, kernel, content>>

Kernel == INSTANCE KernelService

Init ==
  /\ box = NoText
  /\ signerKey = NoKey
  /\ kernel = "absent"
  /\ content = Blank

\* The fields may change, and whatever was shown is withdrawn or replaced by
\* an error.
Ask ==
  /\ box' \in Texts
  /\ signerKey' \in Keys
  /\ content' \in {Blank, Failure}
  /\ kernel' \in Kernel!Consult(kernel)

\* The verdict on what the fields hold appears.
Answer ==
  /\ content = Blank
  /\ Verifiable(box)
  /\ kernel' \in Kernel!Consult(kernel)
  /\ ~Unjudgeable(box, kernel')
  /\ content' = Result(box, KeyRead(box, signerKey),
                       Judge(box, signerKey, kernel'))
  /\ UNCHANGED <<box, signerKey>>

\* News of the kernel changes nothing that is shown.
KernelNews ==
  /\ Kernel!Next
  /\ UNCHANGED <<box, signerKey, content>>

Next == Ask \/ Answer \/ KernelNews

Spec == Init /\ [][Next]_vars
=============================================================================
