------------------------ MODULE ReceiptVerify_proofs ------------------------
(***************************************************************************)
(* Proofs about ReceiptVerify, for any policies, calls, grants and kernels *)
(* and whatever a kernel may emit.                                         *)
(***************************************************************************)
EXTENDS ReceiptVerify, TLAPS

\* The pipeline ran to its end.
Concluded == pc = "done" /\ out.mediated = "pass"

\* What each section leaves in the result for the ones after it.
FormatDone ==
  /\ receipt.shape = "ok" /\ ~receipt.bypass
  /\ out.check["format"] = "pass"
AuthorityDone ==
  out.authority = IF use.pin = "malformed" \/ receipt.pubkey = None
                    THEN "untrusted"
                  ELSE IF use.pin = None THEN "unpinned"
                  ELSE IF use.pin = receipt.pubkey THEN "trusted"
                  ELSE "untrusted"
KernelDone ==
  /\ kernel \in Kernels
  /\ out.check["kernel"] = Mark(kernel = Audited /\ receipt.kernelSha = kernel)
RequestDone ==
  out.check["request"] = IF Unparseable THEN "none"
                         ELSE Mark(receipt.canonicalSha = CanonicalLine)
BindingDone == out.check["binding"] = Mark(BindingErrors = {})
GrantsDone  == out.check["grants"] = Mark(None \notin Approvals)

\* Nothing has been asked of the kernel or of a signature.
Unreplayed == out.check["verdict"] = "none" /\ out.check["emitted"] = "none"
Uncompared ==
  Unreplayed /\ out.check["commitment"] = "none" /\ out.check["material"] = "none"
Untried ==
  /\ judged = None /\ Uncompared
  /\ out.signatureValid = FALSE /\ out.verifier = "none"
  /\ out.replayConsistent = FALSE
  /\ out.freshness = None /\ out.rederiveError = "none"

\* The ways section 5 can end.
DirectlyVerified == Bound /\ Verifier # "unavailable" /\ SignatureVerifies
ReadDirectly ==
  /\ Unparseable /\ Unreplayed
  /\ judged = None
  /\ out.signatureValid = DirectlyVerified
  /\ out.verifier = (IF Bound THEN Verifier ELSE "none")
  /\ out.freshness = (IF DirectlyVerified THEN Epoch[Parsed(receipt.payload)]
                      ELSE None)
  /\ out.check["material"] = Mark(
       /\ receipt.emitted.verdict = receipt.verdict
       /\ receipt.emitted.certs = receipt.certs)
  /\ out.check["commitment"] = Mark(
       /\ receipt.emitted.commits # None
       /\ receipt.emitted.commits = receipt.requestSha)
NotReplayed ==
  /\ ~Unparseable /\ Uncompared
  /\ out.replayConsistent = FALSE
  /\ out.signatureValid = FALSE /\ out.verifier = "none"
  /\ out.freshness = None
  /\ \/ ~Bound /\ judged = None
     \/ Bound /\ ~InitAccepts /\ judged = None
     \/ /\ Bound /\ out.rederiveError = "threw"
        /\ judged = None \/ (InitAccepts /\ judged = Judgement)
Raw == Ruling[<<kernel, Parsed(receipt.payload), receipt.call, Approvals>>]
WasReplayed ==
  /\ ~Unparseable /\ Bound /\ InitAccepts
  /\ judged = Judgement
  /\ out.signatureValid = TRUE /\ out.verifier = "kernel"
  /\ out.freshness = Epoch[Parsed(receipt.payload)]
  /\ out.check["commitment"] = Mark(receipt.emitted.commits =
       IF receipt.requestSha # None THEN receipt.requestSha ELSE CanonicalLine)
  /\ out.check["verdict"] = Mark(Raw.verdict = receipt.verdict)
  /\ out.check["emitted"] = Mark(SameButCommitment(Raw, receipt.emitted))
  /\ out.check["material"] = "none"
  /\ out.replayConsistent = (Raw.verdict = receipt.verdict
                             /\ SameButCommitment(Raw, receipt.emitted))
  /\ out.rederiveError = "none"
ReplayDone == ReadDirectly \/ NotReplayed \/ WasReplayed

Pipeline == {"authority", "kernel", "request", "binding", "grants", "replay",
             "conclude"}

\* Where the pipeline is, and what that implies of the result.
Progress ==
  /\ pc = "shape" => out.mediated = "none"
  /\ pc \in Pipeline => out.mediated = "pass"
  /\ out.mediated = "pass" => FormatDone
  /\ pc = "done" /\ ~Concluded =>
       (receipt.shape # "ok" /\ out.check["format"] = "fail") \/ receipt.bypass
  /\ pc \in Pipeline \ {"authority"} \/ Concluded => AuthorityDone
  /\ pc \in Pipeline \ {"authority", "kernel"} \/ Concluded => KernelDone
  /\ pc \in {"binding", "grants", "replay", "conclude"} \/ Concluded => RequestDone
  /\ pc \in {"grants", "replay", "conclude"} \/ Concluded => BindingDone
  /\ pc \in {"replay", "conclude"} \/ Concluded => GrantsDone
  /\ IF pc = "conclude" \/ Concluded THEN ReplayDone ELSE Untried
  /\ IF Concluded
     THEN /\ out.outcome = Outcome
          /\ out.core = (out.documentChecked /\ ChecksPassed)
     ELSE out.outcome = "failure" /\ out.core = FALSE
  /\ out.documentChecked = (use.form = "text")

VInv == TypeOK /\ Progress

-----------------------------------------------------------------------------
LEMMA PayloadFacts ==
  ASSUME receipt \in ReceiptParts
  PROVE  /\ receipt.payload = None \/
              (receipt.payload \in Payloads /\ receipt.payload # None)
         /\ Parsed(receipt.payload) \in Policies \cup {None}
         /\ receipt.kernelConfig \in Policies
         /\ receipt.kernelConfig # None
         /\ receipt.grants \subseteq Targets \cup GrantNames
BY VerifyAssumption DEF ReceiptParts, Payloads, Parsed, VerifyAssumption, Grants

LEMMA CompactFacts ==
  ASSUME NEW k \in Policies
  PROVE  /\ Compact(k) # None
         /\ Compact(k).policy = k
         /\ k # None
         /\ Parsed(Compact(k)) = k
<1>1. Compact(k) \in Payloads /\ Compact(k).policy = k
  BY DEF Compact, Payloads
<1>2. None \notin Payloads /\ None \notin Policies
  BY VerifyAssumption DEF VerifyAssumption
<1>3. Compact(k) # None /\ k # None
  BY <1>1, <1>2
<1> QED
  BY <1>1, <1>3 DEF Parsed

\* The four comparisons of section 4 come to one: the payload is the spelling
\* of the displayed configuration.
LEMMA BindingMeaning ==
  ASSUME receipt \in ReceiptParts
  PROVE  BindingErrors = {} <=>
           /\ receipt.payload = Compact(receipt.kernelConfig)
           /\ receipt.policyHash \in {None, receipt.payload}
           /\ Epoch[receipt.kernelConfig] # None
<1> DEFINE p == receipt.payload
           k == receipt.kernelConfig
<1>1. /\ p = None \/ (p \in Payloads /\ p # None)
      /\ k \in Policies /\ k # None
  BY PayloadFacts
<1>2. Compact(k) # None /\ Compact(k).policy = k /\ Parsed(Compact(k)) = k
  BY <1>1, CompactFacts
<1>3. ASSUME BindingErrors = {}
      PROVE  /\ p = Compact(k)
             /\ receipt.policyHash \in {None, p}
             /\ Epoch[k] # None
  <2>1. p # None
    BY <1>3 DEF BindingErrors
  <2>2. Parsed(p) # None
    BY <1>3, <2>1 DEF BindingErrors
  <2>3. p = Compact(k)
    BY <1>3, <2>2 DEF BindingErrors
  <2>4. receipt.policyHash \in {None, p}
    BY <1>3, <2>2 DEF BindingErrors
  <2>5. Epoch[Parsed(p)] # None
    BY <1>3, <2>2 DEF BindingErrors
  <2> QED
    BY <2>3, <2>4, <2>5, <1>2
<1>4. ASSUME p = Compact(k), receipt.policyHash \in {None, p}, Epoch[k] # None
      PROVE  BindingErrors = {}
  <2>1. p # None /\ Parsed(p) = k
    BY <1>2, <1>4
  <2> QED
    BY <1>1, <1>4, <2>1 DEF BindingErrors
<1> QED
  BY <1>3, <1>4

\* Under the displayed configuration, grants resolve to what they grant.
LEMMA GrantsMeaning ==
  ASSUME receipt \in ReceiptParts,
         receipt.payload = Compact(receipt.kernelConfig)
  PROVE  /\ None \notin Approvals <=> GrantsResolve
         /\ Approvals = GrantedTargets
         /\ Parsed(receipt.payload) = receipt.kernelConfig
<1>1. /\ receipt.kernelConfig \in Policies /\ receipt.kernelConfig # None
      /\ receipt.grants \subseteq Targets \cup GrantNames
  BY PayloadFacts
<1>2. Parsed(receipt.payload) = receipt.kernelConfig
  BY <1>1, CompactFacts
<1>3. \A g \in receipt.grants :
        TargetOf(g) = IF g \in Targets THEN g ELSE Resolve[receipt.kernelConfig][g]
  BY <1>1, <1>2 DEF TargetOf
<1>4. Targets \cap GrantNames = {} /\ None \notin Targets
  BY VerifyAssumption DEF VerifyAssumption
<1>5. Approvals = GrantedTargets
  BY <1>1, <1>3, <1>4 DEF Approvals, GrantedTargets
<1>6. None \notin Approvals <=> GrantsResolve
  BY <1>1, <1>3, <1>4 DEF Approvals, GrantsResolve
<1> QED
  BY <1>2, <1>5, <1>6

-----------------------------------------------------------------------------
\* The values of the helpers lie where the result expects them.
LEMMA HelperTypes ==
  ASSUME receipt \in ReceiptParts, use \in Callers
  PROVE  /\ \A b : Mark(b) \in Marks
         /\ Verifier \in {"none", "webcrypto", "tweetnacl", "unavailable"}
         /\ \A p \in Policies : Epoch[p] \in Nat \cup {None}
<1>1. \A b : Mark(b) \in Marks
  BY DEF Mark, Marks
<1>2. Verifier \in {"none", "webcrypto", "tweetnacl", "unavailable"}
  BY DEF Verifier
<1>3. \A p \in Policies : Epoch[p] \in Nat \cup {None}
  BY VerifyAssumption DEF VerifyAssumption
<1> QED
  BY <1>1, <1>2, <1>3

\* Once the binding is good, the payload is read and has an epoch.
LEMMA BoundIsRead ==
  ASSUME receipt \in ReceiptParts, BindingDone, Bound
  PROVE  /\ Parsed(receipt.payload) = receipt.kernelConfig
         /\ receipt.kernelConfig \in Policies
         /\ receipt.payload = Compact(receipt.kernelConfig)
         /\ receipt.policyHash \in {None, receipt.payload}
         /\ Epoch[receipt.kernelConfig] \in Nat
<1>1. BindingErrors = {}
  BY DEF BindingDone, Bound, Mark
<1>2. receipt.kernelConfig \in Policies
  BY PayloadFacts
<1>3. Epoch[receipt.kernelConfig] \in Nat \cup {None}
  BY <1>2, VerifyAssumption DEF VerifyAssumption
<1> QED
  BY <1>1, <1>2, <1>3, BindingMeaning, CompactFacts

\* And once the grants are good too, what is judged has its type.
LEMMA JudgementTyped ==
  ASSUME receipt \in ReceiptParts, BindingDone, GrantsDone, Bound, ~Unparseable
  PROVE  Judgement \in Judgements
<1>1. /\ Parsed(receipt.payload) = receipt.kernelConfig
      /\ receipt.kernelConfig \in Policies
      /\ receipt.payload = Compact(receipt.kernelConfig)
  BY BoundIsRead
<1>2. receipt.call \in Calls
  BY DEF ReceiptParts, Unparseable
<1>3. None \notin Approvals
  BY DEF GrantsDone, Bound, Mark
<1>4. Approvals \subseteq Targets
  <2>1. receipt.grants \subseteq Targets \cup GrantNames
    BY PayloadFacts
  <2>2. \A g \in GrantNames :
          Resolve[receipt.kernelConfig][g] \in Targets \cup {None}
    BY <1>1, VerifyAssumption DEF VerifyAssumption
  <2>3. receipt.kernelConfig # None
    BY PayloadFacts
  <2>4. \A g \in receipt.grants : TargetOf(g) \in Targets \cup {None}
    BY <1>1, <2>1, <2>2, <2>3 DEF TargetOf
  <2> QED
    BY <1>3, <2>4 DEF Approvals
<1> QED
  BY <1>1, <1>2, <1>4 DEF Judgement, Judgements

LEMMA InitVInv == Init => VInv
<1> SUFFICES ASSUME Init PROVE VInv
  OBVIOUS
<1>1. receipt \in ReceiptParts /\ use \in Callers
  BY InputAssumption DEF Init, InputAssumption
<1>2. (use.form = "text") \in BOOLEAN
  OBVIOUS
<1>3. TypeOK
  BY <1>1, <1>2 DEF Init, TypeOK, Results, Marks, Outcomes
<1>4. Progress
  BY DEF Init, Progress, Concluded, Pipeline, Untried, Uncompared, Unreplayed, Checks
<1> QED
  BY <1>3, <1>4 DEF VInv

-----------------------------------------------------------------------------
\* What depends on the receipt and the call alone stays as it is.
LEMMA InputStays ==
  ASSUME receipt' = receipt, use' = use
  PROVE  /\ Unparseable' = Unparseable
         /\ CanonicalLine' = CanonicalLine
         /\ BindingErrors' = BindingErrors
         /\ Approvals' = Approvals
         /\ Judgement' = Judgement
         /\ SignatureVerifies' = SignatureVerifies
         /\ InitAccepts' = InitAccepts
         /\ Verifier' = Verifier
<1>1. Unparseable' = Unparseable
  BY DEF Unparseable
<1>2. BindingErrors' = BindingErrors
  BY DEF BindingErrors, Parsed
<1>3. Approvals' = Approvals
  BY DEF Approvals, TargetOf, Parsed
<1>4. Judgement' = Judgement
  BY <1>3 DEF Judgement, Parsed
<1>5. SignatureVerifies' = SignatureVerifies
  BY DEF SignatureVerifies
<1>6. InitAccepts' = InitAccepts
  BY <1>5 DEF InitAccepts, Parsed
<1>7. Verifier' = Verifier
  BY DEF Verifier
<1>8. CanonicalLine' = CanonicalLine
  BY DEF CanonicalLine, Unparseable
<1> QED
  BY <1>1, <1>2, <1>3, <1>4, <1>5, <1>6, <1>7, <1>8

\* The sections before the replay: each sets one field of the result.
LEMMA EarlySteps ==
  ASSUME VInv,
         ValidateShape \/ ResolveAuthority \/ IdentifyKernel \/ DeriveRequest
           \/ BindConfig \/ GrantsThrow \/ ResolveGrants
  PROVE  VInv'
<1> USE DEF VInv
<1>0. receipt' = receipt /\ use' = use
  BY DEF ValidateShape, ResolveAuthority, IdentifyKernel, DeriveRequest,
         BindConfig, GrantsThrow, ResolveGrants
<1>1. CASE ValidateShape
  <2>0. pc = "shape" /\ ~Concluded
    BY <1>1 DEF ValidateShape, Concluded
  <2>1. CASE ~FieldTableThrows /\ receipt.shape # "ok"
    <3>1. out' = [out EXCEPT !.check["format"] = "fail"] /\ pc' = "done"
      BY <1>1, <2>1 DEF ValidateShape
    <3>2. TypeOK'
      BY <1>1, <3>1 DEF ValidateShape, TypeOK, Results, Marks, Checks
    <3>3. ~Concluded'
      BY <2>0, <3>1 DEF TypeOK, Results, Progress, Concluded
    <3>4. Progress'
      BY <1>0, <1>1, <2>0, <2>1, <3>1, <3>3 DEF ValidateShape, TypeOK, Results,
         Progress, Pipeline, Untried, Uncompared, Unreplayed, Checks
    <3> QED
      BY <3>2, <3>4
  <2>2. CASE ~FieldTableThrows /\ receipt.shape = "ok" /\ receipt.bypass
    <3>1. /\ out' = [out EXCEPT !.check["format"] = "pass", !.mediated = "fail"]
          /\ pc' = "done"
      BY <1>1, <2>2 DEF ValidateShape
    <3>2. TypeOK'
      BY <1>1, <3>1 DEF ValidateShape, TypeOK, Results, Marks, Checks
    <3>3. ~Concluded' /\ out'.mediated # "pass"
      BY <2>0, <3>1 DEF TypeOK, Results, Progress, Concluded
    <3>4. Progress'
      BY <1>0, <1>1, <2>0, <2>2, <3>1, <3>3 DEF ValidateShape, TypeOK, Results,
         Progress, Pipeline, Untried, Uncompared, Unreplayed, Checks
    <3> QED
      BY <3>2, <3>4
  <2>3. CASE ~FieldTableThrows /\ receipt.shape = "ok" /\ ~receipt.bypass
    <3>1. /\ out' = [out EXCEPT !.check["format"] = "pass", !.mediated = "pass"]
          /\ pc' = "authority"
      BY <1>1, <2>3 DEF ValidateShape
    <3>2. TypeOK'
      BY <1>1, <3>1 DEF ValidateShape, TypeOK, Results, Marks, Checks
    <3>3. ~Concluded'
      BY <3>1 DEF Concluded
    <3>4. FormatDone'
      BY <1>0, <2>3, <3>1 DEF FormatDone, TypeOK, Results, Checks
    <3>5. Progress'
      BY <1>0, <1>1, <2>0, <3>1, <3>3, <3>4 DEF ValidateShape, TypeOK, Results,
         Progress, Pipeline, Untried, Uncompared, Unreplayed, Checks
    <3> QED
      BY <3>2, <3>5
  <2>4. CASE FieldTableThrows
    <3>1. /\ pc' = "rejected" /\ out' = out /\ receipt' = receipt
          /\ use' = use /\ kernel' = kernel /\ judged' = judged
      BY <1>1, <2>4 DEF ValidateShape
    <3>2. TypeOK'
      BY <3>1 DEF TypeOK
    <3>3. ~Concluded' /\ Untried'
      BY <2>0, <3>1 DEF Progress, Concluded, Untried, Uncompared, Unreplayed
    <3>4. Progress'
      BY <2>0, <3>1, <3>3 DEF Progress, Pipeline
    <3> QED
      BY <3>2, <3>4
  <2> QED
    BY <2>1, <2>2, <2>3, <2>4
<1>2. CASE ResolveAuthority
  <2>1. TypeOK'
    BY <1>2 DEF ResolveAuthority, TypeOK, Results
  <2>2. Progress'
    BY <1>0, <1>2 DEF ResolveAuthority, TypeOK, Results, Progress, Concluded, Pipeline,
       FormatDone, AuthorityDone, Untried, Uncompared, Unreplayed, Checks
  <2> QED
    BY <2>1, <2>2
<1>3. CASE IdentifyKernel
  <2>1. TypeOK'
    BY <1>3, HelperTypes DEF IdentifyKernel, TypeOK, Results, Checks
  <2>2. Progress'
    BY <1>0, <1>3 DEF IdentifyKernel, TypeOK, Results, Checks, Progress, Concluded,
       Pipeline, FormatDone, AuthorityDone, KernelDone, Untried, Uncompared, Unreplayed
  <2> QED
    BY <2>1, <2>2
<1>4. CASE DeriveRequest
  <2>1. TypeOK'
    BY <1>4, HelperTypes DEF DeriveRequest, TypeOK, Results, Checks, Marks
  <2>2. Progress'
    BY <1>0, <1>4, InputStays DEF DeriveRequest, TypeOK, Results, Checks, Progress,
       Concluded, Pipeline, FormatDone, AuthorityDone, KernelDone, RequestDone,
       Untried, Uncompared, Unreplayed
  <2> QED
    BY <2>1, <2>2
<1>5. CASE BindConfig
  <2>1. TypeOK'
    BY <1>5, HelperTypes DEF BindConfig, TypeOK, Results, Checks
  <2>2. Progress'
    BY <1>0, <1>5, InputStays DEF BindConfig, TypeOK, Results, Checks, Progress,
       Concluded, Pipeline, FormatDone, AuthorityDone, KernelDone, RequestDone,
       BindingDone, Untried, Uncompared, Unreplayed
  <2> QED
    BY <2>1, <2>2
<1>6. CASE ResolveGrants
  <2>1. TypeOK'
    BY <1>6, HelperTypes DEF ResolveGrants, TypeOK, Results, Checks
  <2>2. Progress'
    BY <1>0, <1>6, InputStays DEF ResolveGrants, TypeOK, Results, Checks, Progress,
       Concluded, Pipeline, FormatDone, AuthorityDone, KernelDone, RequestDone,
       BindingDone, GrantsDone, Untried, Uncompared, Unreplayed
  <2> QED
    BY <2>1, <2>2
<1>7. CASE GrantsThrow
  <2>1. TypeOK'
    BY <1>7 DEF GrantsThrow, TypeOK
  <2>2. Progress'
    <3>1. /\ pc = "grants" /\ pc' = "rejected" /\ receipt' = receipt
          /\ out' = out /\ judged' = judged
      BY <1>7 DEF GrantsThrow
    <3>2. ~Concluded /\ ~Concluded' /\ Untried' /\ FormatDone
      BY <3>1 DEF Progress, Concluded, Pipeline, Untried, Uncompared, Unreplayed
    <3> QED
      BY <1>0, <3>1, <3>2 DEF Progress, FormatDone, Pipeline
  <2> QED
    BY <2>1, <2>2
<1> QED
  BY <1>1, <1>2, <1>3, <1>4, <1>5, <1>6, <1>7

\* A section that only adds to the result what section 5 adds.
LEMMA ReplayStep ==
  ASSUME VInv, pc = "replay", pc' = "conclude",
         receipt' = receipt, use' = use, kernel' = kernel,
         out' \in Results,
         judged' \in Judgements \cup {None},
         \A c \in {"format", "kernel", "request", "binding", "grants"} :
           out'.check[c] = out.check[c],
         out'.mediated = out.mediated, out'.authority = out.authority,
         out'.documentChecked = out.documentChecked,
         out'.core = out.core, out'.outcome = out.outcome,
         ReplayDone'
  PROVE  VInv'
<1>1. TypeOK'
  BY DEF VInv, TypeOK
<1>2. ~Concluded /\ ~Concluded'
  BY DEF Concluded
<1>3. /\ FormatDone' /\ AuthorityDone' /\ KernelDone' /\ RequestDone'
      /\ BindingDone' /\ GrantsDone' /\ out.mediated = "pass"
  BY InputStays DEF VInv, Progress, Pipeline, FormatDone, AuthorityDone,
     KernelDone, RequestDone, BindingDone, GrantsDone
<1>4. /\ out'.outcome = "failure" /\ out'.core = FALSE
      /\ out'.documentChecked = (use'.form = "text")
  BY <1>2 DEF VInv, Progress
<1>5. Progress'
  BY <1>2, <1>3, <1>4 DEF Progress, Pipeline
<1> QED
  BY <1>1, <1>5 DEF VInv

LEMMA UnparseableStep == ASSUME VInv, CheckUnparseable PROVE VInv'
<1> DEFINE ok == DirectlyVerified
<1>1. /\ pc = "replay" /\ pc' = "conclude" /\ Unparseable
      /\ receipt' = receipt /\ use' = use /\ kernel' = kernel /\ judged' = judged
  BY DEF CheckUnparseable
<1>2. judged = None /\ BindingDone /\ Unreplayed
  BY <1>1 DEF VInv, Progress, Concluded, Untried, Uncompared
<1>3. receipt \in ReceiptParts /\ use \in Callers
  BY DEF VInv, TypeOK
<1>4. ok => Epoch[Parsed(receipt.payload)] \in Nat
  BY <1>2, <1>3, BoundIsRead DEF DirectlyVerified
<1>5. /\ ok \in BOOLEAN
      /\ (IF Bound THEN Verifier ELSE "none")
           \in {"none", "webcrypto", "tweetnacl", "unavailable"}
      /\ (IF ok THEN Epoch[Parsed(receipt.payload)] ELSE None) \in Nat \cup {None}
  BY <1>3, <1>4, HelperTypes DEF DirectlyVerified
<1> DEFINE m == Mark(/\ receipt.emitted.verdict = receipt.verdict
                     /\ receipt.emitted.certs = receipt.certs)
           k == Mark(/\ receipt.emitted.commits # None
                     /\ receipt.emitted.commits = receipt.requestSha)
           v == IF Bound THEN Verifier ELSE "none"
           f == IF ok THEN Epoch[Parsed(receipt.payload)] ELSE None
<1>6. out' = [out EXCEPT !.signatureValid = ok, !.verifier = v, !.freshness = f,
                         !.check["material"] = m, !.check["commitment"] = k]
  BY DEF CheckUnparseable, DirectlyVerified
<1>7. m \in Marks /\ k \in Marks
  BY <1>3, HelperTypes
<1> HIDE DEF ok, m, k, v, f
<1>8. /\ out'.signatureValid = ok /\ out'.verifier = v /\ out'.freshness = f
      /\ out'.check["material"] = m /\ out'.check["commitment"] = k
      /\ Unreplayed'
      /\ \A c \in {"format", "kernel", "request", "binding", "grants"} :
           out'.check[c] = out.check[c]
  BY <1>2, <1>6 DEF VInv, TypeOK, Results, Checks, Unreplayed
<1>9. Bound' = Bound
  BY <1>8 DEF Bound
<1>10. ReadDirectly'
  <2>1. DirectlyVerified' = DirectlyVerified
    BY <1>1, <1>9, InputStays DEF DirectlyVerified
  <2> QED
    BY <1>1, <1>2, <1>8, <1>9, <2>1, InputStays
       DEF ReadDirectly, ok, m, k, v, f, Parsed
<1>11. /\ out'.mediated = out.mediated /\ out'.authority = out.authority
       /\ out'.documentChecked = out.documentChecked
       /\ out'.core = out.core /\ out'.outcome = out.outcome
       /\ out' \in Results
  <2>1. v \in {"none", "webcrypto", "tweetnacl", "unavailable"} /\ ok \in BOOLEAN
        /\ f \in Nat \cup {None}
    BY <1>5 DEF v, f
  <2> QED
    BY <1>6, <1>7, <2>1 DEF VInv, TypeOK, Results, Checks
<1> QED
  BY <1>1, <1>2, <1>8, <1>10, <1>11, ReplayStep DEF ReplayDone

LEMMA SkippedStep == ASSUME VInv, SkipReplay \/ ReplayRefused PROVE VInv'
<1>1. /\ pc = "replay" /\ pc' = "conclude" /\ ~Unparseable
      /\ receipt' = receipt /\ use' = use /\ kernel' = kernel /\ judged' = judged
  BY DEF SkipReplay, ReplayRefused
<1>2. judged = None /\ Untried
  BY <1>1 DEF VInv, Progress, Concluded, Untried
<1>3. /\ out'.check = out.check /\ out'.signatureValid = FALSE
      /\ out'.replayConsistent = FALSE
      /\ out'.verifier = out.verifier /\ out'.freshness = out.freshness
      /\ out'.mediated = out.mediated /\ out'.authority = out.authority
      /\ out'.documentChecked = out.documentChecked
      /\ out'.core = out.core /\ out'.outcome = out.outcome
      /\ out' \in Results
  BY <1>2 DEF SkipReplay, ReplayRefused, VInv, TypeOK, Results, Untried
<1>4. ~Bound \/ (Bound /\ ~InitAccepts)
  BY DEF SkipReplay, ReplayRefused
<1>5. Bound' = Bound
  BY <1>3 DEF Bound
<1>6. NotReplayed'
  BY <1>1, <1>2, <1>3, <1>4, <1>5, InputStays DEF NotReplayed, Untried, Uncompared, Unreplayed
<1> QED
  BY <1>1, <1>2, <1>3, <1>6, ReplayStep DEF ReplayDone

LEMMA ThrowingStep == ASSUME VInv, ReplayThrows PROVE VInv'
<1>1. /\ pc = "replay" /\ pc' = "conclude" /\ ~Unparseable /\ Bound
      /\ receipt' = receipt /\ use' = use /\ kernel' = kernel
      /\ out' = [out EXCEPT !.rederiveError = "threw"]
      /\ judged' = judged \/ (InitAccepts /\ judged' = Judgement)
  BY DEF ReplayThrows
<1>2. judged = None /\ Untried /\ BindingDone /\ GrantsDone
  BY <1>1 DEF VInv, Progress, Concluded, Untried
<1>3. /\ out'.check = out.check /\ out'.signatureValid = FALSE
      /\ out'.replayConsistent = FALSE
      /\ out'.verifier = out.verifier /\ out'.freshness = out.freshness
      /\ out'.mediated = out.mediated /\ out'.authority = out.authority
      /\ out'.documentChecked = out.documentChecked
      /\ out'.core = out.core /\ out'.outcome = out.outcome
      /\ out'.rederiveError = "threw"
      /\ out' \in Results
  BY <1>1, <1>2 DEF VInv, TypeOK, Results, Untried
<1>4. receipt \in ReceiptParts
  BY DEF VInv, TypeOK
<1>5. judged' \in Judgements \cup {None}
  BY <1>1, <1>2, <1>4, JudgementTyped
<1>6. Bound' = Bound
  BY <1>3 DEF Bound
<1>7. NotReplayed'
  BY <1>1, <1>2, <1>3, <1>6, InputStays DEF NotReplayed, Untried, Uncompared, Unreplayed
<1> QED
  BY <1>1, <1>3, <1>5, <1>7, ReplayStep DEF ReplayDone

LEMMA ReplayingStep == ASSUME VInv, Replay PROVE VInv'
<1> DEFINE e == IF receipt.requestSha # None THEN receipt.requestSha
                ELSE CanonicalLine
           v == Mark(Raw.verdict = receipt.verdict)
           k == Mark(receipt.emitted.commits = e)
           b == Mark(SameButCommitment(Raw, receipt.emitted))
           r == (Raw.verdict = receipt.verdict)
                  /\ SameButCommitment(Raw, receipt.emitted)
           f == Epoch[Parsed(receipt.payload)]
<1>1. /\ pc = "replay" /\ pc' = "conclude" /\ ~Unparseable /\ Bound /\ InitAccepts
      /\ receipt' = receipt /\ use' = use /\ kernel' = kernel
      /\ judged' = Judgement
  BY DEF Replay
<1>2. out' = [out EXCEPT
        !.signatureValid = TRUE, !.verifier = "kernel", !.freshness = f,
        !.check["verdict"] = v, !.check["commitment"] = k, !.check["emitted"] = b,
        !.replayConsistent = r]
  BY DEF Replay, Raw
<1>3. Untried /\ BindingDone /\ GrantsDone
  BY <1>1 DEF VInv, Progress, Concluded
<1>4. receipt \in ReceiptParts /\ use \in Callers
  BY DEF VInv, TypeOK
<1>5. f \in Nat \cup {None} /\ v \in Marks /\ k \in Marks /\ b \in Marks
      /\ r \in BOOLEAN
  BY <1>1, <1>3, <1>4, BoundIsRead, HelperTypes
<1>6. judged' \in Judgements \cup {None}
  BY <1>1, <1>3, <1>4, JudgementTyped
<1> HIDE DEF v, k, b, r, f
<1>7. /\ out'.signatureValid = TRUE /\ out'.verifier = "kernel"
      /\ out'.freshness = f /\ out'.check["commitment"] = k
      /\ out'.check["verdict"] = v /\ out'.check["emitted"] = b
      /\ out'.check["material"] = "none"
      /\ out'.replayConsistent = r /\ out'.rederiveError = "none"
      /\ \A c \in {"format", "kernel", "request", "binding", "grants"} :
           out'.check[c] = out.check[c]
  BY <1>2, <1>3 DEF VInv, TypeOK, Results, Checks, Untried, Uncompared
<1>8. /\ out'.mediated = out.mediated /\ out'.authority = out.authority
      /\ out'.documentChecked = out.documentChecked
      /\ out'.core = out.core /\ out'.outcome = out.outcome
      /\ out' \in Results
  BY <1>2, <1>5 DEF VInv, TypeOK, Results, Checks
<1>9. Bound' = Bound
  BY <1>7 DEF Bound
<1>10. Raw' = Raw
  BY <1>1, InputStays DEF Raw, Parsed
<1>11. WasReplayed'
  BY <1>1, <1>7, <1>9, <1>10, InputStays
     DEF WasReplayed, k, r, f, v, b, Parsed, SameButCommitment
<1> QED
  BY <1>1, <1>6, <1>7, <1>8, <1>11, ReplayStep DEF ReplayDone

LEMMA ConcludingStep == ASSUME VInv, Conclude PROVE VInv'
<1> DEFINE g == out.documentChecked /\ ChecksPassed
           o == Outcome
<1>1. /\ pc = "conclude" /\ pc' = "done"
      /\ receipt' = receipt /\ use' = use /\ kernel' = kernel /\ judged' = judged
      /\ out' = [out EXCEPT !.core = g, !.outcome = o]
  BY DEF Conclude
<1>2. out \in Results
  BY DEF VInv, TypeOK
<1>3. g \in BOOLEAN /\ o \in Outcomes
  BY <1>2 DEF Results, ChecksPassed, Outcome, Outcomes
<1> HIDE DEF g, o
<1>4. TypeOK'
  BY <1>1, <1>2, <1>3 DEF VInv, TypeOK, Results
<1>5. /\ out'.check = out.check /\ out'.signatureValid = out.signatureValid
      /\ out'.verifier = out.verifier /\ out'.freshness = out.freshness
      /\ out'.mediated = out.mediated /\ out'.authority = out.authority
      /\ out'.documentChecked = out.documentChecked
      /\ out'.replayConsistent = out.replayConsistent
      /\ out'.rederiveError = out.rederiveError
      /\ out'.core = g /\ out'.outcome = o
  BY <1>1, <1>2 DEF Results
<1>6. /\ FormatDone /\ AuthorityDone /\ KernelDone /\ RequestDone
      /\ BindingDone /\ GrantsDone /\ ReplayDone
      /\ out.mediated = "pass" /\ out.documentChecked = (use.form = "text")
  BY <1>1 DEF VInv, Progress, Pipeline
<1>7. /\ FormatDone' /\ AuthorityDone' /\ KernelDone' /\ RequestDone'
      /\ BindingDone' /\ GrantsDone'
  BY <1>1, <1>5, <1>6, InputStays DEF FormatDone, AuthorityDone, KernelDone,
     RequestDone, BindingDone, GrantsDone
<1>8. Bound' = Bound
  BY <1>5 DEF Bound
<1>9. ReplayDone'
  <2>1. Raw' = Raw
    BY <1>1, InputStays DEF Raw, Parsed
  <2>2. ReadDirectly => ReadDirectly'
    <3>1. DirectlyVerified' = DirectlyVerified
      BY <1>1, <1>8, InputStays DEF DirectlyVerified
    <3> QED
      BY <1>1, <1>5, <1>8, <3>1, InputStays DEF ReadDirectly, Unreplayed, Parsed
  <2>3. NotReplayed => NotReplayed'
    BY <1>1, <1>5, <1>8, InputStays DEF NotReplayed, Uncompared, Unreplayed
  <2>4. WasReplayed => WasReplayed'
    BY <1>1, <1>5, <1>8, <2>1, InputStays
       DEF WasReplayed, Parsed, SameButCommitment
  <2> QED
    BY <1>6, <2>2, <2>3, <2>4 DEF ReplayDone
<1>10. ChecksPassed' = ChecksPassed
  BY <1>5, InputStays, <1>1 DEF ChecksPassed
<1>11. Outcome' = Outcome
  BY <1>1, <1>5, <1>10, InputStays DEF Outcome
<1>12. Concluded'
  BY <1>1, <1>5, <1>6 DEF Concluded
<1>13. Progress'
  BY <1>1, <1>5, <1>6, <1>7, <1>9, <1>10, <1>11, <1>12
     DEF Progress, Pipeline, g, o
<1> QED
  BY <1>4, <1>13 DEF VInv

LEMMA NextVInv == VInv /\ [Next]_vars => VInv'
<1> SUFFICES ASSUME VInv, [Next]_vars PROVE VInv'
  OBVIOUS
<1>1. CASE UNCHANGED vars
  <2>1. /\ receipt' = receipt /\ use' = use /\ kernel' = kernel
        /\ judged' = judged /\ out' = out /\ pc' = pc
    BY <1>1 DEF vars
  <2>2. TypeOK'
    BY <2>1 DEF VInv, TypeOK
  <2>3. Concluded' = Concluded /\ Bound' = Bound /\ Raw' = Raw
    BY <2>1, InputStays DEF Concluded, Bound, Raw, Parsed
  <2>4. ReplayDone' = ReplayDone
    BY <2>1, <2>3, InputStays DEF ReplayDone, ReadDirectly, NotReplayed,
       WasReplayed, DirectlyVerified, Uncompared, Unreplayed, Parsed,
       SameButCommitment
  <2>5. Outcome' = Outcome /\ ChecksPassed' = ChecksPassed
    BY <2>1, InputStays DEF Outcome, ChecksPassed
  <2>6. /\ FormatDone' = FormatDone /\ AuthorityDone' = AuthorityDone
        /\ KernelDone' = KernelDone /\ RequestDone' = RequestDone
        /\ BindingDone' = BindingDone /\ GrantsDone' = GrantsDone
        /\ Untried' = Untried
    BY <2>1, InputStays DEF FormatDone, AuthorityDone, KernelDone, RequestDone,
       BindingDone, GrantsDone, Untried, Uncompared, Unreplayed
  <2>7. Progress'
    BY <2>1, <2>3, <2>4, <2>5, <2>6 DEF VInv, Progress
  <2> QED
    BY <2>2, <2>7 DEF VInv
<1>2. CASE Next
  BY <1>2, EarlySteps, UnparseableStep, SkippedStep, ThrowingStep,
     ReplayingStep, ConcludingStep DEF Next
<1> QED
  BY <1>1, <1>2

-----------------------------------------------------------------------------
\* What the two gates of section 5 say of the receipt.
LEMMA BoundMeaning ==
  ASSUME receipt \in ReceiptParts, BindingDone, GrantsDone
  PROVE  /\ Bound /\ SignatureVerifies <=> SignedAndShown /\ GrantsResolve
         /\ Bound => /\ Approvals = GrantedTargets
                     /\ Parsed(receipt.payload) = receipt.kernelConfig
<1>1. Bound <=> BindingErrors = {} /\ None \notin Approvals
  BY DEF Bound, BindingDone, GrantsDone, Mark
<1>2. BindingErrors = {} => (None \notin Approvals <=> GrantsResolve)
  BY BindingMeaning, GrantsMeaning
<1>3. Bound => /\ Approvals = GrantedTargets
               /\ Parsed(receipt.payload) = receipt.kernelConfig
  BY <1>1, BindingMeaning, GrantsMeaning
<1>4. BindingErrors = {} /\ SignatureVerifies <=> SignedAndShown
  BY BindingMeaning DEF SignedAndShown, SignatureVerifies
<1> QED
  BY <1>1, <1>2, <1>3, <1>4

\* The substitution of the one token, said of the parts of the bytes.
LEMMA SubstitutionMeaning ==
  ASSUME NEW raw \in Bytes, NEW stored \in Bytes, stored.commits # None
  PROVE  SameButCommitment(raw, stored) <=>
           /\ raw.verdict = stored.verdict
           /\ raw.certs = stored.certs
           /\ raw.commits \notin {None, raw.certs}
BY DEF Bytes, SameButCommitment

\* The whole of section 5 and the conjunction that follows it.
LEMMA ChecksMeaning ==
  ASSUME VInv, Concluded
  PROVE  ChecksPassed <=> Supported
<1>1. /\ receipt \in ReceiptParts /\ use \in Callers
      /\ FormatDone /\ KernelDone /\ RequestDone /\ BindingDone /\ GrantsDone
      /\ ReplayDone
  BY DEF VInv, TypeOK, Progress, Concluded
<1>2. /\ Bound /\ SignatureVerifies <=> SignedAndShown /\ GrantsResolve
      /\ Bound => /\ Approvals = GrantedTargets
                  /\ Parsed(receipt.payload) = receipt.kernelConfig
  BY <1>1, BoundMeaning
<1>3. out.check["kernel"] = "pass" <=> kernel = Audited /\ receipt.kernelSha = Audited
  BY <1>1 DEF KernelDone, Mark
<1>4. receipt.shape = "ok" /\ ~receipt.bypass /\ out.check["format"] = "pass"
  BY <1>1 DEF FormatDone
<1>5. CASE ReadDirectly
  <2>1. Unparseable /\ out.signatureValid = DirectlyVerified
    BY <1>5 DEF ReadDirectly
  <2>2. SignatureVerifies => (Verifier # "unavailable" <=> use.verifiers # {})
    <3>1. SignatureVerifies => receipt.pubkey # None
      BY <1>1, VerifyAssumption
         DEF ReceiptParts, SignatureVerifies, VerifyAssumption
    <3> QED
      BY <1>1, <3>1 DEF Callers, Verifier
  <2>3. out.check["commitment"] = "pass" <=>
          receipt.requestSha # None /\ Committed
    BY <1>5 DEF ReadDirectly, Mark, Committed, CanonicalLine
  <2>4. out.check["material"] = "pass" <=>
          /\ receipt.emitted.verdict = receipt.verdict
          /\ receipt.emitted.certs = receipt.certs
    BY <1>5 DEF ReadDirectly, Mark
  <2> QED
    BY <1>2, <1>3, <1>4, <2>1, <2>2, <2>3, <2>4
       DEF ChecksPassed, Genuine, Supported, DirectlyVerified, Bound
<1>6. CASE NotReplayed
  <2>1. ~ChecksPassed
    BY <1>6 DEF NotReplayed, ChecksPassed
  <2>2. ~Unparseable /\ (out.rederiveError = "threw" \/ ~Bound \/ ~InitAccepts)
    BY <1>6 DEF NotReplayed
  <2>3. ASSUME Supported PROVE FALSE
    <3>1. SignedAndShown /\ GrantsResolve /\ receipt.kernelConfig \in Loadable
          /\ out.rederiveError # "threw"
      BY <2>2, <2>3 DEF Genuine, Supported
    <3>2. Bound /\ SignatureVerifies
      BY <1>2, <3>1
    <3>3. InitAccepts
      BY <1>2, <3>1, <3>2 DEF InitAccepts
    <3> QED
      BY <2>2, <3>1, <3>2, <3>3
  <2> QED
    BY <2>1, <2>3
<1>7. CASE WasReplayed
  <2>1. /\ ~Unparseable /\ Bound /\ SignatureVerifies
        /\ Parsed(receipt.payload) \in Loadable
        /\ out.signatureValid /\ out.rederiveError # "threw"
    BY <1>7 DEF WasReplayed, InitAccepts
  <2>2. /\ SignedAndShown /\ GrantsResolve
        /\ Parsed(receipt.payload) = receipt.kernelConfig
        /\ Approvals = GrantedTargets
    BY <1>2, <2>1
  <2>3. out.check["commitment"] = "pass" <=> Committed
    BY <1>7 DEF WasReplayed, Mark, Committed
  <2>4. out.check["request"] = "pass" <=> receipt.canonicalSha = CanonicalLine
    BY <1>1, <2>1 DEF RequestDone, Mark
  <2>5. ASSUME kernel = Audited, Committed
        PROVE  out.replayConsistent <=> Reproduced
    <3>1. receipt.emitted \in Bytes /\ receipt.call \in Calls
      BY <1>1, <2>1 DEF ReceiptParts, Unparseable
    <3>2. CanonicalLine \in Lines /\ None \notin Lines
      BY <2>1, <3>1, VerifyAssumption DEF CanonicalLine, VerifyAssumption
    <3>3. receipt.emitted.commits # None
      BY <2>5, <3>2 DEF Committed
    <3>4. Judgement \in Judgements
      BY <1>1, <2>1, JudgementTyped
    <3>5. <<kernel, Parsed(receipt.payload), receipt.call, Approvals>>
            \in Kernels \X Policies \X Calls \X SUBSET Targets
      BY <1>1, <3>4 DEF KernelDone, Judgement, Judgements
    <3>6. Raw \in Bytes
      BY <3>5, VerifyAssumption DEF Raw, VerifyAssumption
    <3>7. Raw = Ruling[<<Audited, receipt.kernelConfig, receipt.call,
                         GrantedTargets>>]
      BY <2>2, <2>5 DEF Raw
    <3>8. out.replayConsistent <=> /\ Raw.verdict = receipt.verdict
                                  /\ SameButCommitment(Raw, receipt.emitted)
      BY <1>7 DEF WasReplayed
    <3>9. SameButCommitment(Raw, receipt.emitted) <=>
            /\ Raw.verdict = receipt.emitted.verdict
            /\ Raw.certs = receipt.emitted.certs
            /\ Raw.commits \notin {None, Raw.certs}
      BY <3>1, <3>3, <3>6, SubstitutionMeaning
    <3> QED
      BY <3>7, <3>8, <3>9 DEF Reproduced
  <2> QED
    BY <1>3, <1>4, <2>1, <2>2, <2>3, <2>4, <2>5
       DEF ChecksPassed, Genuine, Supported, Bound
<1> QED
  BY <1>1, <1>5, <1>6, <1>7 DEF ReplayDone

-----------------------------------------------------------------------------
THEOREM VerifyInvariant == Spec => []VInv
<1>1. Init => VInv
  BY InitVInv
<1>2. VInv /\ [Next]_vars => VInv'
  BY NextVInv
<1> QED
  BY <1>1, <1>2, PTL DEF Spec

\* The result object of verifyReceipt and everything it is computed from keep
\* their types, whatever receipt is read and whatever the kernel does.
THEOREM VerifyTypeCorrect == Spec => []TypeOK
<1>1. VInv => TypeOK
  BY DEF VInv
<1> QED
  BY <1>1, VerifyInvariant, PTL

LEMMA JudgedFollows == VInv => JudgedIsShown
<1> SUFFICES ASSUME VInv, judged # None PROVE JudgedIsShown
  BY DEF JudgedIsShown
<1>1. pc = "conclude" \/ Concluded
  BY DEF VInv, Progress, Untried
<1>2. BindingDone /\ GrantsDone /\ ReplayDone /\ receipt \in ReceiptParts
  BY <1>1 DEF VInv, TypeOK, Progress
<1>3. Bound /\ InitAccepts /\ judged = Judgement
  BY <1>2 DEF ReplayDone, ReadDirectly, NotReplayed, WasReplayed
<1> QED
  BY <1>2, <1>3, BoundMeaning DEF JudgedIsShown, InitAccepts, Judgement

\* The kernel never judges under a configuration, a call or approvals other
\* than the ones the receipt displays, nor under an unsigned one: no binding
\* failure reaches seal_decide (receipt.js 247-309).
THEOREM JudgedIsShownSafe == Spec => []JudgedIsShown
BY VerifyInvariant, JudgedFollows, PTL

LEMMA FreshnessFollows == VInv => FreshnessIsSigned
<1> SUFFICES ASSUME VInv, out.freshness # None PROVE FreshnessIsSigned
  BY DEF FreshnessIsSigned
<1>1. pc = "conclude" \/ Concluded
  BY DEF VInv, Progress, Untried
<1>2. BindingDone /\ GrantsDone /\ ReplayDone /\ receipt \in ReceiptParts
  BY <1>1 DEF VInv, TypeOK, Progress
<1>3. /\ Bound /\ SignatureVerifies
      /\ out.freshness = Epoch[Parsed(receipt.payload)]
  BY <1>2 DEF ReplayDone, ReadDirectly, NotReplayed, WasReplayed,
     DirectlyVerified, InitAccepts
<1> QED
  BY <1>2, <1>3, BoundMeaning DEF FreshnessIsSigned

\* A reported epoch comes out of the displayed configuration, with its
\* signature verified (receipt.js 299, 316).
THEOREM FreshnessSafe == Spec => []FreshnessIsSigned
BY VerifyInvariant, FreshnessFollows, PTL

LEMMA CeilingFollows == VInv => ObjectCeiling
<1> SUFFICES ASSUME VInv, use.form = "object" PROVE ObjectCeiling
  BY DEF ObjectCeiling
<1>1. out.documentChecked = FALSE
  BY DEF VInv, Progress
<1>2. CASE Concluded
  BY <1>1, <1>2 DEF VInv, Progress, Outcome, ObjectCeiling
<1>3. CASE ~Concluded
  BY <1>3 DEF VInv, Progress, ObjectCeiling
<1> QED
  BY <1>2, <1>3

\* However genuine, a parsed object is never called verified: the ceiling of
\* the object path (receipt.js 160-165, 358-369).
THEOREM ObjectCeilingSafe == Spec => []ObjectCeiling
BY VerifyInvariant, CeilingFollows, PTL

LEMMA OutcomeFollows == VInv => OutcomeIsExact
<1> SUFFICES ASSUME VInv, pc = "done" PROVE OutcomeIsExact
  BY DEF OutcomeIsExact
<1>1. CASE ~Concluded
  <2>1. out.outcome = "failure" /\ ~Supported
    BY <1>1 DEF VInv, Progress, Genuine, Supported
  <2> QED
    BY <2>1 DEF OutcomeIsExact
<1>2. CASE Concluded
  <2>1. ChecksPassed <=> Supported
    BY <1>2, ChecksMeaning
  <2>2. /\ out.outcome = Outcome /\ AuthorityDone /\ ReplayDone
        /\ out.documentChecked = (use.form = "text")
    BY <1>2 DEF VInv, Progress
  <2>3. receipt \in ReceiptParts /\ use \in Callers
    BY DEF VInv, TypeOK
  <2>4. out.verifier = "unavailable" => ~ChecksPassed
    BY <2>2 DEF ReplayDone, ReadDirectly, NotReplayed, WasReplayed,
       DirectlyVerified, Verifier, ChecksPassed
  <2>5. Supported => receipt.pubkey \in Signers
    BY <2>3 DEF Genuine, Supported, SignedAndShown, ReceiptParts
  <2>6. Supported =>
          /\ out.authority = "trusted" <=> use.pin = receipt.pubkey
          /\ out.authority = "unpinned" <=> use.pin = None
          /\ out.authority \in {"trusted", "unpinned", "untrusted"}
    BY <2>2, <2>5, VerifyAssumption DEF AuthorityDone, VerifyAssumption
  <2>7. use.form \in {"text", "object"}
    BY <2>3 DEF Callers
  <2>8. ~Supported => out.outcome \in {"crypto_unavailable", "failure"}
    BY <2>1, <2>2 DEF Outcome
  <2>9. Supported =>
          out.outcome = IF out.authority = "untrusted" THEN "failure"
                        ELSE IF use.form # "text" THEN "unverified-document"
                        ELSE IF out.authority = "unpinned" THEN "unpinned"
                        ELSE IF Unparseable THEN "authorised-unparseable"
                        ELSE "authorised"
    BY <2>1, <2>2, <2>4 DEF Outcome
  <2>10. CASE Supported
    <3>1. receipt.pubkey # None
      BY <2>5, <2>10, VerifyAssumption DEF VerifyAssumption
    <3> QED
      BY <2>6, <2>7, <2>9, <2>10, <3>1 DEF OutcomeIsExact
  <2>11. CASE ~Supported
    BY <2>8, <2>11 DEF OutcomeIsExact
  <2> QED
    BY <2>10, <2>11
<1> QED
  BY <1>1, <1>2

\* The outcome of verifyReceipt is the one the receipt deserves, in both
\* directions: no acceptance without every obligation met by the receipt
\* itself and by the audited kernel, and no refusal of one that meets them
\* all (receipt.js 166-382).  The clock is among them only through what the
\* kernel rules at that time: Line need not tell two clocks apart.
THEOREM OutcomeExact == Spec => []OutcomeIsExact
BY VerifyInvariant, OutcomeFollows, PTL
=============================================================================
