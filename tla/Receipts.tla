------------------------------ MODULE Receipts ------------------------------
(***************************************************************************)
(* What the page's control flow can tell apart about a text.  A text       *)
(* stands for the receipt document it denotes: the raw JSON, or the        *)
(* base64url link or blob that carries it.                                 *)
(*                                                                         *)
(*   Family[t]    where the router sends the text                          *)
(*     "unreadable"  blank, or a blob that does not decode: refused before *)
(*                   the router sees a document                            *)
(*     "malformed"   refused by the document scan                          *)
(*     "other"       ambiguous, unknown format or no discriminator         *)
(*     "spine", "protect"   whole-receipt signatures, checked under a key  *)
(*                   the visitor supplies                                  *)
(*     "decision"    replayed through the kernel                           *)
(*   Grade[t]     what an honest check of the document would find          *)
(*     "genuine"      everything it claims, the kernel's answer included   *)
(*     "unreplayable" a decision receipt whose request nobody can parse    *)
(*                    again, and everything else it claims: the kernel is  *)
(*                    identified but not asked (receipt.js 289-303)        *)
(*     "tampered"     something it claims is not so                        *)
(*     "unsearchable" its policy makes the look-up of a grant throw, after *)
(*                    the kernel was identified (receipt.js 286)           *)
(*     "control"      bypass is set, which the page looks at before the    *)
(*                    format errors (app.js 363-364)                       *)
(*     "illformed"    refused by the field table, or makes it throw        *)
(*                    (receipt-format.js 104-111)                          *)
(*   SignerOf[t]  the key that signed it (for spine and protect)           *)
(***************************************************************************)
CONSTANTS Texts, Keys, NoText, NoKey, Family, Grade, SignerOf

Families == {"unreadable", "malformed", "other", "spine", "protect", "decision"}
Grades   == {"genuine", "unreplayable", "tampered", "unsearchable", "control",
             "illformed"}

\* What the texts of a run must be.
TextsTyped ==
  /\ NoText \in Texts
  /\ NoKey \in Keys
  /\ Family \in [Texts -> Families]
  /\ Grade \in [Texts -> Grades]
  /\ SignerOf \in [Texts -> Keys]
  /\ \A t \in Texts : Grade[t] = "genuine" => SignerOf[t] # NoKey
  /\ Family[NoText] = "unreadable"

ASSUME TextsAssumption == TextsTyped

\* The families renderSignedFamilyReceipt serves.
Signed(t) == Family[t] \in {"spine", "protect"}

\* The families that end in an asynchronous verification.
Verifiable(t) == Signed(t) \/ Family[t] = "decision"

\* Only a signed family reads the signer-key field.
KeyRead(t, k) == IF Signed(t) THEN k ELSE NoKey

\* May the check of t reach the kernel?  Shape errors, control receipts and
\* Spine receipts never do.
NeedsKernel(t) ==
  /\ Family[t] \in {"decision", "protect"}
  /\ Grade[t] \notin {"control", "illformed"}

\* The states of the kernel service in which the check of t can end in a pass:
\* a replay needs the instance, a receipt that is not replayed its identity.
KernelFor(t) == IF Grade[t] = "unreplayable" THEN {"hashed", "ready"} ELSE {"ready"}

\* Does the check of t end in a pass, the kernel service being in state ker?
Passes(t, k, ker) ==
  /\ Grade[t] \in {"genuine", "unreplayable"}
  /\ Signed(t) => k = SignerOf[t]
  /\ Family[t] \in {"decision", "protect"} => ker \in KernelFor(t)

\* Mutant of Judge: a replay on a kernel that was never identified counts.
JudgeOnAnyKernel(t, k, ker) ==
  IF Family[t] = "decision" /\ Grade[t] = "control" THEN "control"
  ELSE IF Passes(t, k, ker) \/ Passes(t, k, "ready") THEN "pass" ELSE "fail"

Judge(t, k, ker) ==
  IF Family[t] = "decision" /\ Grade[t] = "control" THEN "control"
  ELSE IF Passes(t, k, ker) THEN "pass" ELSE "fail"

\* A decision receipt whose check ends in an error and not in a verdict: a
\* shape refusal, a look-up that throws, or a kernel that could not be fetched.
Unjudgeable(t, ker) ==
  /\ Family[t] = "decision"
  /\ \/ Grade[t] \in {"illformed", "unsearchable"}
     \/ NeedsKernel(t) /\ ker = "absent"

-----------------------------------------------------------------------------
\* What the result area can show.
PageVerdicts == {"pass", "fail", "control"}

View(kind, t, k, v) == [kind |-> kind, doc |-> t, key |-> k, verdict |-> v]

Blank   == View("blank", NoText, NoKey, "none")
Failure == View("error", NoText, NoKey, "none")
Result(t, k, v) == View("result", t, k, v)

Views == {Blank, Failure} \cup
         {Result(t, k, v) : t \in Texts, k \in Keys, v \in PageVerdicts}
=============================================================================
