-------------------------- MODULE ReceiptConsumers --------------------------
(***************************************************************************)
(* What the two shipped callers of verifyReceipt say of its result: the    *)
(* page (renderVerifiedReceipt, renderControlReceipt, renderCheckTable and *)
(* plainFailures in app.js) and the command line verifier                  *)
(* (test/verify-file.cjs).  The page says it three times over: a list of   *)
(* marked lines, a table of marked rows and, under a refusal, the list of  *)
(* what failed.                                                            *)
(***************************************************************************)
EXTENDS ReceiptVerify

VARIABLES
  shown,  \* what the page shows
  exit    \* the exit code of the command line verifier

cvars == <<vars, shown, exit>>

Topics == Checks \cup {"signature", "replay", "document", "authority"}
Unmarked == [t \in Topics |-> "none"]
Page(kind, list, table, fails) ==
  [kind |-> kind, list |-> list, table |-> table, fails |-> fails]
Nothing == Page("nothing", Unmarked, Unmarked, {})

ConsumersTypeOK ==
  /\ TypeOK
  /\ shown \in [kind : {"nothing", "error", "control", "refusal", "acceptance"},
                list : [Topics -> Marks], table : [Topics -> Marks],
                fails : SUBSET Topics]
  /\ exit \in {"none", "0", "1", "3", "4"}

ConsumersInit == Init /\ shown = Nothing /\ exit = "none"

-----------------------------------------------------------------------------
Untrusted == out.authority = "untrusted"

\* The lines of rv-checks.  A boolean of the result is ticked or crossed,
\* anything else is a bullet.
ListMark(t) ==
  CASE t \in {"format", "grants", "commitment", "document"} -> "none"
    [] t = "signature" -> Mark(out.signatureValid)
    [] t = "replay" -> IF Unparseable THEN "none" ELSE Mark(out.replayConsistent)
    [] t = "authority" -> IF out.authority = "trusted" THEN "pass"
                          ELSE IF Untrusted THEN "fail" ELSE "none"
    [] OTHER -> out.check[t]

\* The rows of the check table: the signature row is not reached unless the
\* binding and the grants were good, and authority is never a green tick.
TableMark(t) ==
  CASE t \in {"format", "grants", "replay"} -> "none"
    [] t = "signature" ->
         IF ~Bound \/ out.verifier = "unavailable" THEN "none"
         ELSE Mark(out.signatureValid)
    [] t = "document" -> IF out.documentChecked THEN "pass" ELSE "none"
    [] t = "authority" -> IF Untrusted THEN "fail" ELSE "none"
    [] OTHER -> out.check[t]

\* Mutant of PlainFailures: the kernel's own commitment is forgotten.
PlainFailuresUncommitted ==
  {c \in Checks \ {"commitment"} : out.check[c] = "fail"}
    \cup (IF ~out.signatureValid /\ out.verifier # "unavailable"
          THEN {"signature"} ELSE {})
    \cup (IF Untrusted THEN {"authority"} ELSE {})

PlainFailures ==
  {c \in Checks : out.check[c] = "fail"}
    \cup (IF ~out.signatureValid /\ out.verifier # "unavailable"
          THEN {"signature"} ELSE {})
    \cup (IF Untrusted THEN {"authority"} ELSE {})

Accepted == out.outcome \notin {"failure", "crypto_unavailable"}

\* Mutant of Rendering: the format errors are looked at first.
RenderingFormatFirst ==
  IF pc = "rejected" \/ receipt.shape # "ok"
    THEN Page("error", Unmarked, Unmarked, {})
  ELSE IF receipt.bypass
    THEN Page("control", [Unmarked EXCEPT !["request"] = "pass"], Unmarked, {})
  ELSE Page(IF Accepted THEN "acceptance" ELSE "refusal",
            [t \in Topics |-> ListMark(t)], [t \in Topics |-> TableMark(t)],
            IF out.outcome = "failure" THEN PlainFailures ELSE {})

\* renderVerifiedReceipt: bypass is looked at before the format errors.
Rendering ==
  IF pc = "rejected" \/ receipt.shape = "unreadable"
    THEN Page("error", Unmarked, Unmarked, {})
  ELSE IF receipt.bypass
    THEN Page("control", [Unmarked EXCEPT !["request"] = "pass"], Unmarked, {})
  ELSE IF out.check["format"] = "fail"
    THEN Page("error", Unmarked, Unmarked, {})
  ELSE Page(IF Accepted THEN "acceptance" ELSE "refusal",
            [t \in Topics |-> ListMark(t)], [t \in Topics |-> TableMark(t)],
            IF out.outcome = "failure" THEN PlainFailures ELSE {})

PageRenders ==
  /\ use.who = "page" /\ shown = Nothing
  /\ pc \in {"done", "rejected"}
  /\ shown' = Rendering
  /\ UNCHANGED <<vars, exit>>

\* Mutant of ExitCode: a reduced-scope receipt counts as authorised.
ExitCodeCollapsed ==
  IF pc = "rejected" \/ ~receipt.roundtrips THEN "1"
  ELSE CASE out.outcome \in {"authorised", "authorised-unparseable"} -> "0"
         [] out.outcome = "unpinned" -> "3"
         [] OTHER -> "1"

\* A file that assembleReceiptV2 does not write back byte for byte is refused.
ExitCode ==
  IF pc = "rejected" \/ ~receipt.roundtrips THEN "1"
  ELSE CASE out.outcome = "authorised" -> "0"
         [] out.outcome = "authorised-unparseable" -> "4"
         [] out.outcome = "unpinned" -> "3"
         [] OTHER -> "1"

CliExits ==
  /\ use.who = "cli" /\ exit = "none"
  /\ pc \in {"done", "rejected"}
  /\ exit' = ExitCode
  /\ UNCHANGED <<vars, shown>>

Verify == Next /\ UNCHANGED <<shown, exit>>

ConsumersNext == Verify \/ PageRenders \/ CliExits

ConsumersSpec == ConsumersInit /\ [][ConsumersNext]_cvars

-----------------------------------------------------------------------------
\* What a mark beside each topic tells the visitor, as a fact about the
\* receipt and the kernel of this browser.
Replayed == Ruling[<<kernel, receipt.kernelConfig, receipt.call, GrantedTargets>>]

EmittedAgain ==
  /\ Replayed.verdict = receipt.emitted.verdict
  /\ Replayed.certs = receipt.emitted.certs

Fact(t) ==
  CASE t = "kernel" -> kernel = Audited /\ receipt.kernelSha = kernel
    [] t = "request" -> receipt.call # None /\ receipt.canonicalSha = CanonicalLine
    [] t = "binding" -> receipt.payload = Compact(receipt.kernelConfig)
    [] t = "signature" -> SignedAndShown
    [] t = "verdict" -> Replayed.verdict = receipt.verdict
    [] t = "emitted" -> EmittedAgain
    [] t = "replay" -> EmittedAgain /\ Replayed.verdict = receipt.verdict
    [] t = "commitment" -> Committed
    [] t = "material" -> receipt.emitted.verdict = receipt.verdict
    [] t = "document" -> use.form = "text"
    [] t = "authority" -> use.pin = receipt.pubkey
    [] OTHER -> TRUE

Ticked(t) == shown.list[t] = "pass" \/ shown.table[t] = "pass"

\* In the rendering of a mediated receipt every tick is beside something true
\* of the document and of the kernel that ran (app.js 377-425, 112-231).
ResultTicksAreTrue ==
  shown.kind \in {"refusal", "acceptance"} =>
    \A t \in Topics : Ticked(t) => Fact(t)

\* No red row stands under a reassuring headline, and every red row is in the
\* list of what failed (app.js 86-102, 112-231, 459-489).
NoFailureHidden ==
  /\ shown.kind = "acceptance" =>
       \A t \in Topics : shown.list[t] # "fail" /\ shown.table[t] # "fail"
  /\ {t \in Topics : shown.table[t] = "fail"} \subseteq shown.fails

\* Exit 0 is a replayed receipt of the pinned signer, 4 one that cannot be
\* replayed, 3 one nobody was pinned for; 1 is everything else
\* (verify-file.cjs 12-22).
ExitIsExact ==
  exit # "none" =>
    LET good == Supported /\ receipt.roundtrips /\ pc = "done"
        pinned == use.pin = receipt.pubkey
    IN  /\ exit = "0" <=> good /\ pinned /\ ~Unparseable
        /\ exit = "4" <=> good /\ pinned /\ Unparseable
        /\ exit = "3" <=> good /\ use.pin = None

\* Every tick the page shows, a control receipt's too, was checked: a bypass
\* receipt is to be rendered "honestly, NOT as a passed verification"
\* (app.js 305).
EveryTickIsTrue ==
  shown.kind # "nothing" => \A t \in Topics : Ticked(t) => Fact(t)

\* What the headline lists as failed did fail, and was not merely left
\* unchecked: "null and undefined mean not applicable, never a failure"
\* (app.js 86-88); the table below it has the same check in red.
ListedFailuresFailed ==
  \A t \in shown.fails \ {"format", "grants"} : shown.table[t] = "fail"

-----------------------------------------------------------------------------
\* The receipt as the checker page's model sees it (Receipts): what an honest
\* check would find.  An answer of the kernel that nobody can read reproduces
\* nothing.
Graded ==
  IF receipt.shape = "unreadable" \/ FieldTableThrows THEN "illformed"
  ELSE IF receipt.bypass THEN "control"
  ELSE IF receipt.shape # "ok" THEN "illformed"
  ELSE IF Unsearchable THEN "unsearchable"
  ELSE IF ~Genuine \/ (judged # None /\ out.rederiveError = "threw") THEN "tampered"
  ELSE IF Unparseable THEN "unreplayable" ELSE "genuine"

Text == INSTANCE Receipts
  WITH Texts <- {receipt, None}, NoText <- None,
       Keys <- Signers \cup {None}, NoKey <- None,
       Family <- [t \in {receipt, None} |->
                    IF t = None THEN "unreadable" ELSE "decision"],
       Grade <- [t \in {receipt, None} |->
                   IF t = None THEN "illformed" ELSE Graded],
       SignerOf <- [t \in {receipt, None} |->
                      IF t = None THEN None ELSE receipt.signedBy]

\* The states of the kernel service the check can have met, or left behind.
Services ==
  IF kernel = None
    THEN IF pc = "rejected" /\ out.mediated = "pass" THEN {"absent"}
         ELSE {"absent", "mismatch", "hashed", "ready"}
  ELSE IF kernel # Audited THEN {"mismatch"}
  ELSE IF judged # None THEN {"ready"}
  ELSE IF out.rederiveError = "threw" THEN {"hashed"}
  ELSE {"hashed", "ready"}

Headline(ker) ==
  IF Text!Unjudgeable(receipt, ker) THEN "error"
  ELSE CASE Text!Judge(receipt, None, ker) = "pass"    -> "acceptance"
         [] Text!Judge(receipt, None, ker) = "fail"    -> "refusal"
         [] Text!Judge(receipt, None, ker) = "control" -> "control"

\* What the model of the page takes for granted about a check that runs on its
\* own is what the sections of verifyReceipt and the page make of the receipt:
\* the headline follows from its grade and the state of the kernel service, and
\* only a receipt that is said to need the kernel gets as far as asking for it
\* (app.js 355-425, receipt.js 166-377).
ShownAsJudged ==
  /\ shown # Nothing => \A ker \in Services : shown.kind = Headline(ker)
  /\ out.mediated = "pass" => Text!NeedsKernel(receipt)
=============================================================================
