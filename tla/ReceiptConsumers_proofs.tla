---------------------- MODULE ReceiptConsumers_proofs ----------------------
(***************************************************************************)
(* What the command line verifier and the page say of a result, for any    *)
(* receipts, policies, kernels and pins.  It is said once verifyReceipt    *)
(* has settled, and then nothing it depends on moves any more; so what     *)
(* VInv says of the result is also what the exit code and the marks say.   *)
(***************************************************************************)
EXTENDS ReceiptConsumers, ReceiptVerify_proofs

Settled == pc \in {"done", "rejected"}

EInv ==
  /\ VInv
  /\ use \in Uses
  /\ exit # "none" => use.who = "cli" /\ Settled /\ exit = ExitCode

\* verifyReceipt takes no step after it has settled.
LEMMA SettledStays == Next => ~Settled /\ use' = use
  BY DEF Next, Settled, ValidateShape, ResolveAuthority, IdentifyKernel,
     DeriveRequest, BindConfig, GrantsThrow, ResolveGrants, CheckUnparseable,
     SkipReplay, ReplayRefused, ReplayThrows, Replay, Conclude

LEMMA InitEInv == ConsumersInit => EInv
  BY InitVInv DEF ConsumersInit, Init, EInv

LEMMA NextEInv == EInv /\ [ConsumersNext]_cvars => EInv'
<1> SUFFICES ASSUME EInv, [ConsumersNext]_cvars PROVE EInv'
  OBVIOUS
<1>1. CASE UNCHANGED vars
  <2>1. VInv'
    BY <1>1, NextVInv DEF EInv
  <2>2. Settled' = Settled /\ ExitCode' = ExitCode /\ use' = use
    BY <1>1 DEF vars, Settled, ExitCode
  <2>3. exit' = exit \/ (use.who = "cli" /\ Settled /\ exit' = ExitCode)
    <3>1. CASE UNCHANGED cvars
      BY <3>1 DEF cvars
    <3>2. CASE Verify
      BY <3>2 DEF Verify
    <3>3. CASE PageRenders
      BY <3>3 DEF PageRenders
    <3>4. CASE CliExits
      BY <3>4 DEF CliExits, Settled
    <3> QED
      BY <3>1, <3>2, <3>3, <3>4 DEF ConsumersNext
  <2> QED
    BY <2>1, <2>2, <2>3 DEF EInv
<1>2. CASE Verify
  <2>1. ~Settled /\ use' = use /\ exit' = exit
    BY <1>2, SettledStays DEF Verify
  <2>2. VInv'
    BY <1>2, NextVInv DEF Verify, EInv
  <2> QED
    BY <2>1, <2>2 DEF EInv
<1> QED
  BY <1>1, <1>2 DEF ConsumersNext, cvars, PageRenders, CliExits

\* The outcome and the round trip decide the code, and the command line always
\* hands over a text.
LEMMA ExitFollows == EInv => ExitIsExact
<1> SUFFICES ASSUME EInv, exit # "none" PROVE ExitIsExact
  BY DEF ExitIsExact
<1>1. use.form = "text" /\ Settled /\ exit = ExitCode
  BY InputAssumption DEF EInv, InputAssumption
<1>2. CASE pc = "rejected" \/ ~receipt.roundtrips
  <2>1. exit = "1"
    BY <1>1, <1>2 DEF ExitCode
  <2> QED
    BY <1>2, <2>1 DEF ExitIsExact
<1>3. CASE pc = "done" /\ receipt.roundtrips
  <2>1. OutcomeIsExact
    BY OutcomeFollows DEF EInv
  <2>2. /\ exit = "0" <=> out.outcome = "authorised"
        /\ exit = "4" <=> out.outcome = "authorised-unparseable"
        /\ exit = "3" <=> out.outcome = "unpinned"
    BY <1>1, <1>3 DEF ExitCode
  <2> QED
    BY <1>1, <1>3, <2>1, <2>2 DEF ExitIsExact, OutcomeIsExact
<1> QED
  BY <1>1, <1>2, <1>3 DEF Settled

\* The command line's exit code says exactly what the receipt deserves, for
\* every receipt and every pin (verify-file.cjs 92-148).
THEOREM ExitExact == ConsumersSpec => []ExitIsExact
<1>1. ConsumersInit => EInv
  BY InitEInv
<1>2. EInv /\ [ConsumersNext]_cvars => EInv'
  BY NextEInv
<1>3. EInv => ExitIsExact
  BY ExitFollows
<1> QED
  BY <1>1, <1>2, <1>3, PTL DEF ConsumersSpec

-----------------------------------------------------------------------------
\* The page, too, speaks only once verifyReceipt has settled.
CInv ==
  /\ EInv
  /\ shown # Nothing => use.who = "page" /\ Settled /\ shown = Rendering

LEMMA RenderingStays == UNCHANGED vars => Rendering' = Rendering
<1> SUFFICES ASSUME UNCHANGED vars PROVE Rendering' = Rendering
  OBVIOUS
<1>1. out' = out /\ receipt' = receipt /\ pc' = pc
  BY DEF vars
<1>2. /\ \A t \in Topics : ListMark(t)' = ListMark(t)
      /\ \A t \in Topics : TableMark(t)' = TableMark(t)
      /\ PlainFailures' = PlainFailures /\ Accepted' = Accepted
  BY <1>1 DEF ListMark, TableMark, PlainFailures, Accepted, Untrusted, Bound,
     Unparseable
<1>3. /\ [t \in Topics |-> ListMark(t)]' = [t \in Topics |-> ListMark(t)]
      /\ [t \in Topics |-> TableMark(t)]' = [t \in Topics |-> TableMark(t)]
  BY <1>2
<1> QED
  BY <1>1, <1>2, <1>3 DEF Rendering

LEMMA InitCInv == ConsumersInit => CInv
  BY InitEInv DEF ConsumersInit, CInv

LEMMA NextCInv == CInv /\ [ConsumersNext]_cvars => CInv'
<1> SUFFICES ASSUME CInv, [ConsumersNext]_cvars PROVE CInv'
  OBVIOUS
<1>0. EInv'
  BY NextEInv DEF CInv
<1>1. CASE UNCHANGED vars
  <2>1. Settled' = Settled /\ Rendering' = Rendering /\ use' = use
    BY <1>1, RenderingStays DEF vars, Settled
  <2>2. shown' = shown \/ (use.who = "page" /\ Settled /\ shown' = Rendering)
    <3>1. CASE UNCHANGED cvars
      BY <3>1 DEF cvars
    <3>2. CASE Verify
      BY <3>2 DEF Verify
    <3>3. CASE PageRenders
      BY <3>3 DEF PageRenders, Settled
    <3>4. CASE CliExits
      BY <3>4 DEF CliExits
    <3> QED
      BY <3>1, <3>2, <3>3, <3>4 DEF ConsumersNext
  <2> QED
    BY <1>0, <2>1, <2>2 DEF CInv
<1>2. CASE Verify
  <2>1. ~Settled /\ use' = use /\ shown' = shown
    BY <1>2, SettledStays DEF Verify
  <2> QED
    BY <1>0, <2>1 DEF CInv
<1> QED
  BY <1>1, <1>2 DEF ConsumersNext, cvars, PageRenders, CliExits

LEMMA ConsumersInvariant == ConsumersSpec => []CInv
<1>1. ConsumersInit => CInv
  BY InitCInv
<1>2. CInv /\ [ConsumersNext]_cvars => CInv'
  BY NextCInv
<1> QED
  BY <1>1, <1>2, PTL DEF ConsumersSpec

-----------------------------------------------------------------------------
\* Every mark is one of the three, and what is listed is a topic.
LEMMA MarksTyped ==
  ASSUME TypeOK, NEW t \in Topics
  PROVE  ListMark(t) \in Marks /\ TableMark(t) \in Marks
<1>1. /\ \A c \in Checks : out.check[c] \in Marks
      /\ \A b : Mark(b) \in Marks
      /\ {"pass", "fail", "none"} = Marks
  BY DEF TypeOK, Results, Mark, Marks
<1>2. t \in Checks \/ t \in {"signature", "replay", "document", "authority"}
  BY DEF Topics
<1>3. ListMark(t) \in Marks
  BY <1>1, <1>2 DEF ListMark
<1>4. TableMark(t) \in Marks
  BY <1>1, <1>2 DEF TableMark
<1> QED
  BY <1>3, <1>4

LEMMA RenderingTyped ==
  ASSUME TypeOK
  PROVE  Rendering \in
           [kind : {"nothing", "error", "control", "refusal", "acceptance"},
            list : [Topics -> Marks], table : [Topics -> Marks],
            fails : SUBSET Topics]
<1>1. Unmarked \in [Topics -> Marks]
      /\ [Unmarked EXCEPT !["request"] = "pass"] \in [Topics -> Marks]
  BY DEF Unmarked, Marks
<1>2. /\ [t \in Topics |-> ListMark(t)] \in [Topics -> Marks]
      /\ [t \in Topics |-> TableMark(t)] \in [Topics -> Marks]
  BY MarksTyped
<1>3. PlainFailures \subseteq Topics
  BY DEF PlainFailures, Topics
<1> QED
  BY <1>1, <1>2, <1>3 DEF Rendering, Page

LEMMA NothingTyped ==
  Nothing \in
    [kind : {"nothing", "error", "control", "refusal", "acceptance"},
     list : [Topics -> Marks], table : [Topics -> Marks], fails : SUBSET Topics]
<1>1. Unmarked \in [Topics -> Marks]
  BY DEF Unmarked, Marks
<1> QED
  BY <1>1 DEF Nothing, Page

\* What the two callers say keeps its type, for any receipts and pins.
THEOREM ConsumersTypeCorrect == ConsumersSpec => []ConsumersTypeOK
<1>1. CInv => ConsumersTypeOK
  <2> SUFFICES ASSUME CInv PROVE ConsumersTypeOK
    OBVIOUS
  <2>1. TypeOK
    BY DEF CInv, EInv, VInv
  <2>2. exit \in {"none", "0", "1", "3", "4"}
    BY DEF CInv, EInv, ExitCode
  <2> QED
    BY <2>1, <2>2, RenderingTyped, NothingTyped DEF CInv, ConsumersTypeOK
<1> QED
  BY <1>1, ConsumersInvariant, PTL

-----------------------------------------------------------------------------
\* A result is rendered with marks only when the pipeline ran to its end.
LEMMA MarkedIsConcluded ==
  ASSUME CInv, shown.kind \in {"refusal", "acceptance"}
  PROVE  /\ Concluded
         /\ shown.list = [t \in Topics |-> ListMark(t)]
         /\ shown.table = [t \in Topics |-> TableMark(t)]
         /\ shown.kind = "acceptance" <=> Accepted
         /\ shown.fails = (IF out.outcome = "failure" THEN PlainFailures ELSE {})
         /\ "tweetnacl" \in use.verifiers
<1>1. shown # Nothing
  BY DEF Nothing, Page
<1>2. shown = Rendering /\ Settled /\ use.who = "page" /\ use \in Uses
  BY <1>1 DEF CInv, EInv
<1>3. /\ pc # "rejected" /\ receipt.shape # "unreadable" /\ ~receipt.bypass
      /\ out.check["format"] # "fail"
      /\ shown = Page(IF Accepted THEN "acceptance" ELSE "refusal",
                      [t \in Topics |-> ListMark(t)],
                      [t \in Topics |-> TableMark(t)],
                      IF out.outcome = "failure" THEN PlainFailures ELSE {})
  BY <1>2 DEF Rendering, Page
<1>4. Concluded
  BY <1>2, <1>3 DEF CInv, EInv, VInv, Progress, Settled
<1>5. "tweetnacl" \in use.verifiers
  BY <1>2, InputAssumption DEF InputAssumption
<1> QED
  BY <1>3, <1>4, <1>5 DEF Page

\* When the kernel ran, what it emitted is what the facts below speak of.
LEMMA ReplayedIsRaw ==
  ASSUME VInv, Concluded, WasReplayed
  PROVE  Raw = Replayed /\ Raw \in Bytes /\ receipt.emitted \in Bytes
<1>1. /\ receipt \in ReceiptParts
      /\ KernelDone /\ BindingDone /\ GrantsDone
      /\ Bound /\ ~Unparseable
  BY DEF VInv, TypeOK, Progress, WasReplayed
<1>2. Approvals = GrantedTargets /\ Parsed(receipt.payload) = receipt.kernelConfig
  BY <1>1, BoundMeaning
<1>3. Judgement \in Judgements
  BY <1>1, JudgementTyped
<1>4. <<kernel, Parsed(receipt.payload), receipt.call, Approvals>>
        \in Kernels \X Policies \X Calls \X SUBSET Targets
  BY <1>1, <1>3 DEF KernelDone, Judgement, Judgements
<1>5. Raw \in Bytes
  BY <1>4, VerifyAssumption DEF Raw, VerifyAssumption
<1>6. Raw = Replayed
  BY <1>2 DEF Raw, Replayed
<1> QED
  BY <1>1, <1>5, <1>6 DEF ReceiptParts

\* One topic at a time: a tick is beside something true.
LEMMA TickIsTrue ==
  ASSUME VInv, Concluded, NEW t \in Topics,
         ListMark(t) = "pass" \/ TableMark(t) = "pass"
  PROVE  Fact(t)
<1>1. /\ receipt \in ReceiptParts
      /\ AuthorityDone /\ KernelDone /\ RequestDone /\ BindingDone /\ GrantsDone
      /\ ReplayDone /\ out.documentChecked = (use.form = "text")
  BY DEF VInv, TypeOK, Progress
<1>2. Bound /\ SignatureVerifies => SignedAndShown
  BY <1>1, BoundMeaning
<1>3. out.signatureValid => SignedAndShown
  BY <1>1, <1>2 DEF ReplayDone, ReadDirectly, NotReplayed, WasReplayed,
     DirectlyVerified, InitAccepts
<1>4. SameButCommitment(Raw, receipt.emitted) /\ WasReplayed => EmittedAgain
  <2> SUFFICES ASSUME SameButCommitment(Raw, receipt.emitted), WasReplayed
               PROVE  EmittedAgain
    OBVIOUS
  <2>1. Raw = Replayed /\ Raw \in Bytes /\ receipt.emitted \in Bytes
    BY ReplayedIsRaw
  <2>2. receipt.emitted.commits # None
    BY DEF SameButCommitment
  <2>3. Raw.verdict = receipt.emitted.verdict /\ Raw.certs = receipt.emitted.certs
    BY <2>1, <2>2, SubstitutionMeaning
  <2> QED
    BY <2>1, <2>3 DEF EmittedAgain
<1>5. CASE t = "kernel"
  BY <1>1, <1>5 DEF ListMark, TableMark, Fact, KernelDone, Mark
<1>6. CASE t = "request"
  BY <1>1, <1>6 DEF ListMark, TableMark, Fact, RequestDone, Mark, Unparseable
<1>7. CASE t = "binding"
  <2>1. BindingErrors = {}
    BY <1>1, <1>7 DEF ListMark, TableMark, BindingDone, Mark
  <2> QED
    BY <1>1, <1>7, <2>1, BindingMeaning DEF Fact
<1>8. CASE t = "signature"
  BY <1>3, <1>8 DEF ListMark, TableMark, Fact, Mark
<1>9. CASE t = "verdict"
  <2>1. out.check["verdict"] = "pass"
    BY <1>9 DEF ListMark, TableMark
  <2>2. WasReplayed /\ Raw.verdict = receipt.verdict
    BY <1>1, <2>1 DEF ReplayDone, ReadDirectly, NotReplayed, WasReplayed,
       Unreplayed, Uncompared, Mark
  <2> QED
    BY <1>9, <2>2, ReplayedIsRaw DEF Fact
<1>10. CASE t = "emitted"
  <2>1. out.check["emitted"] = "pass"
    BY <1>10 DEF ListMark, TableMark
  <2>2. WasReplayed /\ SameButCommitment(Raw, receipt.emitted)
    BY <1>1, <2>1 DEF ReplayDone, ReadDirectly, NotReplayed, WasReplayed,
       Unreplayed, Uncompared, Mark
  <2> QED
    BY <1>4, <1>10, <2>2 DEF Fact
<1>11. CASE t = "replay"
  <2>1. ~Unparseable /\ out.replayConsistent
    BY <1>11 DEF ListMark, TableMark, Mark
  <2>2. WasReplayed /\ Raw.verdict = receipt.verdict
        /\ SameButCommitment(Raw, receipt.emitted)
    BY <1>1, <2>1 DEF ReplayDone, ReadDirectly, NotReplayed, WasReplayed
  <2> QED
    BY <1>4, <1>11, <2>2, ReplayedIsRaw DEF Fact
<1>12. CASE t = "commitment"
  <2>1. out.check["commitment"] = "pass"
    BY <1>12 DEF ListMark, TableMark
  <2>2. Committed
    BY <1>1, <2>1 DEF ReplayDone, ReadDirectly, NotReplayed, WasReplayed,
       Uncompared, Mark, Committed
  <2> QED
    BY <1>12, <2>2 DEF Fact
<1>13. CASE t = "material"
  <2>1. out.check["material"] = "pass"
    BY <1>13 DEF ListMark, TableMark
  <2>2. receipt.emitted.verdict = receipt.verdict
    BY <1>1, <2>1 DEF ReplayDone, ReadDirectly, NotReplayed, WasReplayed,
       Uncompared, Mark
  <2> QED
    BY <1>13, <2>2 DEF Fact
<1>14. CASE t = "document"
  BY <1>1, <1>14 DEF ListMark, TableMark, Fact
<1>15. CASE t = "authority"
  <2>1. out.authority = "trusted"
    BY <1>15 DEF ListMark, TableMark, Untrusted
  <2>2. use.pin = receipt.pubkey
    BY <1>1, <2>1 DEF AuthorityDone
  <2> QED
    BY <1>15, <2>2 DEF Fact
<1>16. CASE t \in {"format", "grants"}
  BY <1>16 DEF ListMark, TableMark
<1> QED
  BY <1>5, <1>6, <1>7, <1>8, <1>9, <1>10, <1>11, <1>12, <1>13, <1>14, <1>15,
     <1>16 DEF Topics, Checks

\* In the list and the table of a mediated receipt every tick is beside
\* something true of the document and of the kernel that ran, whatever the
\* receipt (app.js 377-425, 112-231).
THEOREM ResultTicksSafe == ConsumersSpec => []ResultTicksAreTrue
<1>1. CInv => ResultTicksAreTrue
  <2> SUFFICES ASSUME CInv, shown.kind \in {"refusal", "acceptance"},
                      NEW t \in Topics, Ticked(t)
               PROVE  Fact(t)
    BY DEF ResultTicksAreTrue
  <2>1. /\ Concluded
        /\ shown.list = [u \in Topics |-> ListMark(u)]
        /\ shown.table = [u \in Topics |-> TableMark(u)]
    BY MarkedIsConcluded
  <2>2. ListMark(t) = "pass" \/ TableMark(t) = "pass"
    BY <2>1 DEF Ticked
  <2> QED
    BY <2>1, <2>2, TickIsTrue DEF CInv, EInv
<1> QED
  BY <1>1, ConsumersInvariant, PTL

-----------------------------------------------------------------------------
\* An acceptance has no cross anywhere.
LEMMA AcceptedHasNoCross ==
  ASSUME VInv, Concluded, Accepted, NEW t \in Topics
  PROVE  ListMark(t) # "fail" /\ TableMark(t) # "fail"
<1>1. out.outcome = Outcome /\ RequestDone /\ ReplayDone
  BY DEF VInv, Progress
<1>2. ChecksPassed /\ out.authority # "untrusted" /\ out.verifier # "unavailable"
  BY <1>1 DEF Outcome, Accepted
<1>3. /\ out.check["kernel"] = "pass" /\ out.check["binding"] = "pass"
      /\ out.check["commitment"] = "pass" /\ out.signatureValid
      /\ out.check["request"] # "fail"
  BY <1>1, <1>2 DEF ChecksPassed, RequestDone
<1>4. ~Unparseable => out.replayConsistent
  BY <1>2 DEF ChecksPassed
<1>5. /\ out.check["verdict"] # "fail" /\ out.check["emitted"] # "fail"
      /\ out.check["material"] # "fail"
  BY <1>1, <1>2, <1>4 DEF ReplayDone, ReadDirectly, NotReplayed, WasReplayed,
     Unreplayed, Uncompared, Mark, ChecksPassed
<1>6. t \in {"kernel", "binding", "commitment", "request", "verdict", "emitted",
             "material", "format", "grants", "signature", "replay", "document",
             "authority"}
  BY DEF Topics, Checks
<1> QED
  BY <1>2, <1>3, <1>4, <1>5, <1>6 DEF ListMark, TableMark, Mark, Untrusted

\* No receipt gets a reassuring headline over a red row, and no red row is left
\* out of the list of what failed (app.js 86-102, 112-231, 459-489).
THEOREM NoFailureHiddenSafe == ConsumersSpec => []NoFailureHidden
<1>1. CInv => NoFailureHidden
  <2> SUFFICES ASSUME CInv PROVE NoFailureHidden
    OBVIOUS
  <2>1. CASE shown.kind \in {"refusal", "acceptance"}
    <3>1. /\ Concluded
          /\ shown.list = [t \in Topics |-> ListMark(t)]
          /\ shown.table = [t \in Topics |-> TableMark(t)]
          /\ shown.kind = "acceptance" <=> Accepted
          /\ shown.fails = (IF out.outcome = "failure" THEN PlainFailures ELSE {})
          /\ "tweetnacl" \in use.verifiers
      BY <2>1, MarkedIsConcluded
    <3>2. VInv /\ ReplayDone /\ out.outcome = Outcome
      BY <3>1 DEF CInv, EInv, VInv, Progress
    <3>3. out.verifier # "unavailable"
      BY <3>1, <3>2 DEF ReplayDone, ReadDirectly, NotReplayed, WasReplayed, Verifier
    <3>4. CASE Accepted
      BY <3>1, <3>2, <3>4, AcceptedHasNoCross DEF NoFailureHidden
    <3>5. CASE ~Accepted
      <4>1. out.outcome = "failure"
        BY <3>2, <3>3, <3>5 DEF Accepted, Outcome
      <4>2. \A t \in Topics : TableMark(t) = "fail" => t \in PlainFailures
        <5> SUFFICES ASSUME NEW t \in Topics, TableMark(t) = "fail"
                     PROVE  t \in PlainFailures
          OBVIOUS
        <5>1. t \in Checks \/ t \in {"signature", "replay", "document", "authority"}
          BY DEF Topics
        <5>2. CASE t \in Checks
          BY <5>2 DEF TableMark, PlainFailures, Checks
        <5>3. CASE t = "signature"
          BY <3>3, <5>3 DEF TableMark, PlainFailures, Mark
        <5>4. CASE t = "authority"
          BY <5>4 DEF TableMark, PlainFailures
        <5>5. CASE t \in {"replay", "document"}
          BY <5>5 DEF TableMark
        <5> QED
          BY <5>1, <5>2, <5>3, <5>4, <5>5
      <4> QED
        BY <3>1, <3>5, <4>1, <4>2 DEF NoFailureHidden
    <3> QED
      BY <3>4, <3>5
  <2>2. CASE shown.kind \notin {"refusal", "acceptance"}
    <3>1. shown = Nothing \/ shown = Rendering
      BY DEF CInv
    <3>2. shown.table = Unmarked
      BY <2>2, <3>1 DEF Nothing, Rendering, Page
    <3>3. \A t \in Topics : shown.table[t] = "none"
      BY <3>2 DEF Unmarked
    <3> QED
      BY <2>2, <3>3 DEF NoFailureHidden
  <2> QED
    BY <2>1, <2>2
<1> QED
  BY <1>1, ConsumersInvariant, PTL

\* The callers only watch: what the theorems about verifyReceipt say of its
\* result they say of the result each caller is handed.
THEOREM ConsumersVerify == ConsumersSpec => Spec
<1>1. ConsumersInit => Init
  BY DEF ConsumersInit
<1>2. [ConsumersNext]_cvars => [Next]_vars
  BY DEF ConsumersNext, cvars, Verify, PageRenders, CliExits
<1> QED
  BY <1>1, <1>2, PTL DEF ConsumersSpec, Spec

-----------------------------------------------------------------------------
\* Where a check was rejected, and what passed the two look-ups in a policy.
Mediated == receipt.shape = "ok" /\ ~receipt.bypass

Reached ==
  /\ pc \in {"shape", "authority", "kernel"} => kernel = None
  /\ out.mediated = "pass" => Mediated
  /\ pc = "rejected" =>
       IF out.mediated = "pass" THEN kernel = None \/ Unsearchable
       ELSE FieldTableThrows /\ kernel = None
  /\ pc \in Pipeline \cup {"done"} \/ out.mediated = "pass" => ~FieldTableThrows
  /\ pc \in {"replay", "conclude"} \/ Concluded => ~Unsearchable

LEMMA InitReached == Init => Reached
  BY DEF Init, Reached, Concluded, Pipeline

LEMMA NextReached == VInv /\ Reached /\ [Next]_vars => Reached'
<1> SUFFICES ASSUME VInv, Reached, [Next]_vars PROVE Reached'
  OBVIOUS
<1>1. pc \in Pipeline => Mediated
  BY DEF VInv, Progress, FormatDone, Mediated
<1>2. receipt' = receipt
  BY DEF Next, vars, ValidateShape, ResolveAuthority, IdentifyKernel,
     DeriveRequest, BindConfig, GrantsThrow, ResolveGrants, CheckUnparseable,
     SkipReplay, ReplayRefused, ReplayThrows, Replay, Conclude
<1>3. /\ Mediated' <=> Mediated
      /\ Unsearchable' <=> Unsearchable
      /\ FieldTableThrows' <=> FieldTableThrows
  BY <1>2 DEF Mediated, Unsearchable, Parsed, FieldTableThrows
<1>12. /\ out \in Results
       /\ pc \in Pipeline => out.mediated = "pass" /\ ~FieldTableThrows
  BY DEF VInv, TypeOK, Progress, Reached
<1>4. CASE ValidateShape
  <2>1. pc = "shape" /\ kernel' = kernel /\ kernel = None /\ out.mediated = "none"
    BY <1>4 DEF ValidateShape, Reached, VInv, Progress
  <2>2. \/ pc' = "rejected" /\ out' = out /\ FieldTableThrows
        \/ pc' = "done" /\ out'.mediated # "pass" /\ ~FieldTableThrows
        \/ pc' = "authority" /\ Mediated /\ ~FieldTableThrows
    BY <1>4, <1>12, <2>1 DEF ValidateShape, Results, Mediated
  <2> QED
    BY <1>3, <2>1, <2>2 DEF Reached, Concluded, Pipeline
<1>11. CASE ResolveAuthority
  <2>1. out'.mediated = out.mediated
    BY <1>11, <1>12 DEF ResolveAuthority, Results
  <2> QED
    BY <1>3, <1>11, <1>12, <2>1 DEF ResolveAuthority, Reached, Concluded, Pipeline
<1>5. CASE IdentifyKernel
  <2>1. out'.mediated = out.mediated
    BY <1>5, <1>12 DEF IdentifyKernel, Results
  <2> QED
    BY <1>3, <1>5, <1>12, <2>1 DEF IdentifyKernel, Reached, Concluded, Pipeline
<1>6. CASE DeriveRequest \/ BindConfig
  <2>1. out'.mediated = out.mediated
    BY <1>6, <1>12 DEF DeriveRequest, BindConfig, Results
  <2> QED
    BY <1>3, <1>6, <1>12, <2>1 DEF DeriveRequest, BindConfig, Reached, Concluded,
       Pipeline
<1>7. CASE GrantsThrow \/ ResolveGrants
  <2>1. out'.mediated = out.mediated
    BY <1>7, <1>12 DEF GrantsThrow, ResolveGrants, Results
  <2> QED
    BY <1>3, <1>7, <1>12, <2>1 DEF GrantsThrow, ResolveGrants, Reached, Concluded,
       Pipeline
<1>8. CASE CheckUnparseable \/ SkipReplay \/ ReplayRefused \/ ReplayThrows \/ Replay
  <2>1. pc = "replay" /\ pc' = "conclude" /\ kernel' = kernel
    BY <1>8 DEF CheckUnparseable, SkipReplay, ReplayRefused, ReplayThrows, Replay
  <2>2. out'.mediated = out.mediated
    BY <1>8, <1>12 DEF CheckUnparseable, SkipReplay, ReplayRefused, ReplayThrows,
       Replay, Results
  <2> QED
    BY <1>3, <1>12, <2>1, <2>2 DEF Reached, Concluded, Pipeline
<1>9. CASE Conclude
  <2>1. out'.mediated = out.mediated
    BY <1>9, <1>12 DEF Conclude, Results
  <2> QED
    BY <1>3, <1>9, <1>12, <2>1 DEF Conclude, Reached, Concluded, Pipeline
<1>10. CASE UNCHANGED vars
  BY <1>3, <1>10 DEF vars, Reached, Concluded
<1> QED
  BY <1>4, <1>5, <1>6, <1>7, <1>8, <1>9, <1>10, <1>11 DEF Next

\* Seen through Text, a receipt is one of the texts Receipts is about.
LEMMA ReceiptIsAText == TypeOK => Text!TextsTyped
<1> SUFFICES ASSUME TypeOK PROVE Text!TextsTyped
  OBVIOUS
<1>1. receipt # None /\ receipt.signedBy \in Signers /\ None \notin Signers
  BY VerifyAssumption DEF TypeOK, ReceiptParts, VerifyAssumption
<1>2. Graded \in Text!Grades
  BY DEF Graded, Text!Grades
<1> QED
  BY <1>1, <1>2 DEF Text!TextsTyped, Text!Families, Text!Grades

\* The headline, by grade.
LEMMA HeadlineByGrade ==
  ASSUME TypeOK, NEW ker
  PROVE  /\ Text!NeedsKernel(receipt) <=> Graded \notin {"control", "illformed"}
         /\ Headline(ker) =
              IF \/ Graded \in {"illformed", "unsearchable"}
                 \/ Graded # "control" /\ ker = "absent" THEN "error"
              ELSE IF Graded = "control" THEN "control"
              ELSE IF \/ Graded = "genuine" /\ ker = "ready"
                      \/ Graded = "unreplayable" /\ ker \in {"hashed", "ready"}
                   THEN "acceptance" ELSE "refusal"
<1>1. receipt # None
  BY VerifyAssumption DEF TypeOK, VerifyAssumption
<1>2. Text!NeedsKernel(receipt) <=> Graded \notin {"control", "illformed"}
  BY <1>1 DEF Text!NeedsKernel
<1>3. Text!Unjudgeable(receipt, ker) <=>
        \/ Graded \in {"illformed", "unsearchable"}
        \/ Graded # "control" /\ ker = "absent"
  BY <1>1, <1>2 DEF Text!Unjudgeable
<1>4. Text!Judge(receipt, None, ker) =
        IF Graded = "control" THEN "control"
        ELSE IF \/ Graded = "genuine" /\ ker = "ready"
                \/ Graded = "unreplayable" /\ ker \in {"hashed", "ready"}
             THEN "pass" ELSE "fail"
  BY <1>1 DEF Text!Judge, Text!Passes, Text!Signed, Text!KernelFor
<1> QED
  BY <1>2, <1>3, <1>4 DEF Headline

\* A conclusion shown by the page accepts exactly what is supported.
LEMMA AcceptedIsSupported ==
  ASSUME CInv, Concluded, use.who = "page"
  PROVE  Accepted <=> Supported
<1>1. use.pin = None /\ use.form = "text" /\ TypeOK /\ OutcomeIsExact
  BY InputAssumption, OutcomeFollows DEF CInv, EInv, VInv, InputAssumption
<1>2. out.outcome \in Outcomes
  BY <1>1 DEF TypeOK, Results
<1>3. out.outcome = "unpinned" <=> Supported
  BY <1>1 DEF OutcomeIsExact, Concluded
<1>4. /\ out.outcome = "authorised" => Supported
      /\ out.outcome = "authorised-unparseable" => Supported
      /\ out.outcome = "unverified-document" => Supported
  BY <1>1 DEF OutcomeIsExact, Concluded
<1> QED
  BY <1>2, <1>3, <1>4 DEF Accepted, Outcomes

LEMMA JudgedIsSomething ==
  ASSUME TypeOK, BindingDone, GrantsDone, Bound, ~Unparseable, judged = Judgement
  PROVE  judged # None
  BY JudgementTyped, VerifyAssumption DEF TypeOK, VerifyAssumption

\* What is supported is what grade and kernel service together let pass.
LEMMA SupportedByGrade ==
  ASSUME CInv, Concluded, ~Unsearchable, ~FieldTableThrows,
         use.who = "page", NEW ker \in Services
  PROVE  /\ Graded \in {"genuine", "unreplayable", "tampered"}
         /\ ker # "absent"
         /\ Supported <=> \/ Graded = "genuine" /\ ker = "ready"
                          \/ Graded = "unreplayable" /\ ker \in {"hashed", "ready"}
<1>1. /\ Mediated /\ KernelDone /\ ReplayDone
      /\ TypeOK /\ "tweetnacl" \in use.verifiers
  BY InputAssumption
     DEF CInv, EInv, VInv, Progress, Concluded, FormatDone, Mediated, InputAssumption
<1>2. kernel # None /\ Audited # None
  BY <1>1, VerifyAssumption DEF KernelDone, VerifyAssumption
<1>3. ker # "absent" /\ (kernel # Audited => ker = "mismatch")
  BY <1>2 DEF Services
<1>4. Graded = IF ~Genuine \/ (judged # None /\ out.rederiveError = "threw")
                 THEN "tampered"
               ELSE IF Unparseable THEN "unreplayable" ELSE "genuine"
  BY <1>1 DEF Graded, Mediated
<1>5. CASE kernel # Audited
  BY <1>3, <1>4, <1>5 DEF Supported
<1>6. CASE kernel = Audited /\ Unparseable
  <2>1. judged = None
    BY <1>1, <1>6 DEF ReplayDone, ReadDirectly, NotReplayed, WasReplayed
  <2>2. ker \in {"hashed", "ready"}
    BY <1>2, <1>6, <2>1 DEF Services
  <2> QED
    BY <1>1, <1>3, <1>4, <1>6, <2>1, <2>2 DEF Supported
<1>7. CASE kernel = Audited /\ ~Unparseable
  <2>1. CASE out.rederiveError = "threw"
    BY <1>2, <1>3, <1>4, <1>7, <2>1 DEF Supported, Services
  <2>2. CASE out.rederiveError # "threw"
    <3>1. Genuine => judged # None
      <4>1. SUFFICES ASSUME Genuine, NotReplayed PROVE FALSE
        <5>1. WasReplayed => judged # None
          BY <1>1, JudgedIsSomething DEF WasReplayed, CInv, EInv, VInv, Progress
        <5> QED
          BY <1>1, <1>7, <5>1 DEF ReplayDone, ReadDirectly
      <4>2. SignedAndShown /\ GrantsResolve /\ receipt.kernelConfig \in Loadable
        BY <1>7, <4>1 DEF Genuine
      <4>3. BindingDone /\ GrantsDone /\ receipt \in ReceiptParts
        BY DEF CInv, EInv, VInv, TypeOK, Progress
      <4>4. Bound /\ InitAccepts
        BY <4>2, <4>3, BoundMeaning DEF InitAccepts
      <4> QED
        BY <2>2, <4>1, <4>4 DEF NotReplayed
    <3>2. judged # None => ker = "ready"
      BY <1>2, <1>7 DEF Services
    <3> QED
      BY <1>3, <1>4, <1>7, <2>2, <3>1, <3>2 DEF Supported
  <2> QED
    BY <2>1, <2>2
<1> QED
  BY <1>3, <1>4, <1>5, <1>6, <1>7

LEMMA ShownFollows == CInv /\ Reached => ShownAsJudged
<1> SUFFICES ASSUME CInv, Reached PROVE ShownAsJudged
  OBVIOUS
<1>1. TypeOK
  BY DEF CInv, EInv, VInv
<1>2. ASSUME out.mediated = "pass" PROVE Text!NeedsKernel(receipt)
  <2>1. Mediated /\ ~FieldTableThrows
    BY <1>2 DEF Reached
  <2>2. Graded \notin {"control", "illformed"}
    BY <2>1 DEF Graded, Mediated
  <2> QED
    BY <1>1, <2>2, HeadlineByGrade
<1>3. ASSUME shown # Nothing, NEW ker \in Services
      PROVE  shown.kind = Headline(ker)
  <2>1. use.who = "page" /\ Settled /\ shown = Rendering
    BY <1>3 DEF CInv
  <2>5. CASE pc = "rejected" /\ out.mediated # "pass"
    <3>1. shown.kind = "error" /\ Graded = "illformed"
      BY <2>1, <2>5 DEF Rendering, Page, Reached, Graded
    <3> QED
      BY <1>1, <3>1, HeadlineByGrade
  <2>2. CASE pc = "rejected" /\ out.mediated = "pass"
    <3>1. shown.kind = "error"
      BY <2>1, <2>2 DEF Rendering, Page
    <3>2. Mediated /\ ~FieldTableThrows /\ (kernel = None \/ Unsearchable)
      BY <2>2 DEF Reached
    <3>3. Graded # "control" /\ (Unsearchable => Graded = "unsearchable")
      BY <3>2 DEF Graded, Mediated
    <3>4. kernel = None => ker = "absent"
      BY <1>3, <2>2 DEF Services
    <3> QED
      BY <1>1, <3>1, <3>2, <3>3, <3>4, HeadlineByGrade
  <2>3. CASE pc = "done" /\ ~Concluded
    <3>1. /\ (receipt.shape # "ok" /\ out.check["format"] = "fail") \/ receipt.bypass
          /\ ~FieldTableThrows
      BY <2>3 DEF CInv, EInv, VInv, Progress, Reached
    <3>2. CASE receipt.shape = "unreadable"
      <4>1. Graded = "illformed" /\ shown.kind = "error"
        BY <2>1, <3>2 DEF Graded, Rendering, Page
      <4> QED
        BY <1>1, <4>1, HeadlineByGrade
    <3>3. CASE receipt.shape # "unreadable" /\ receipt.bypass
      <4>1. Graded = "control" /\ shown.kind = "control"
        BY <2>1, <2>3, <3>1, <3>3 DEF Graded, Rendering, Page
      <4> QED
        BY <1>1, <4>1, HeadlineByGrade
    <3>4. CASE receipt.shape # "unreadable" /\ ~receipt.bypass
      <4>1. Graded = "illformed" /\ shown.kind = "error"
        BY <2>1, <2>3, <3>1, <3>4 DEF Graded, Rendering, Page
      <4> QED
        BY <1>1, <4>1, HeadlineByGrade
    <3> QED
      BY <3>2, <3>3, <3>4
  <2>4. CASE Concluded
    <3>1. /\ ~Unsearchable /\ ~FieldTableThrows /\ FormatDone
          /\ pc # "rejected"
      BY <2>4 DEF Reached, CInv, EInv, VInv, Progress, Concluded
    <3>2. shown.kind = IF Accepted THEN "acceptance" ELSE "refusal"
      BY <2>1, <3>1 DEF FormatDone, Rendering, Page
    <3>3. Accepted <=> Supported
      BY <2>1, <2>4, AcceptedIsSupported
    <3>4. /\ Graded \in {"genuine", "unreplayable", "tampered"} /\ ker # "absent"
          /\ Supported <=> \/ Graded = "genuine" /\ ker = "ready"
                           \/ Graded = "unreplayable" /\ ker \in {"hashed", "ready"}
      BY <1>3, <2>1, <2>4, <3>1, SupportedByGrade
    <3> QED
      BY <1>1, <3>2, <3>3, <3>4, HeadlineByGrade
  <2> QED
    BY <2>1, <2>2, <2>3, <2>4, <2>5 DEF Settled
<1> QED
  BY <1>2, <1>3 DEF ShownAsJudged

\* What the model of the page assumes of a check of a decision receipt is what
\* verifyReceipt concludes and the page says, for any receipts, policies and
\* kernels: the headline follows from the grade of the receipt and the state of
\* the kernel service alone (app.js 350-425, receipt.js 166-377).  A
\* policy that makes the field table throw is an error here and there, a control
\* receipt's too.
THEOREM DecisionShownAsJudged == ConsumersSpec => []ShownAsJudged
<1> DEFINE I == CInv /\ Reached
<1>1. ConsumersInit => I
  BY InitCInv, InitReached DEF ConsumersInit
<1>2. I /\ [ConsumersNext]_cvars => I'
  <2>1. [ConsumersNext]_cvars => [Next]_vars
    BY DEF ConsumersNext, cvars, Verify, PageRenders, CliExits
  <2> QED
    BY <2>1, NextCInv, NextReached DEF CInv, EInv
<1>3. I => ShownAsJudged
  BY ShownFollows
<1> QED
  BY <1>1, <1>2, <1>3, PTL DEF ConsumersSpec
=============================================================================
