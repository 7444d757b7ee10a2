------------------------- MODULE SignedReceipts_proofs -------------------------
(***************************************************************************)
(* Proofs about SignedReceipts.  The invariant says what is known of the   *)
(* receipt at each check: everything that was checked before holds.        *)
(***************************************************************************)
EXTENDS SignedReceipts, TLAPS

\* The checks behind each place of the Spine chain.
SpineKnown ==
  /\ pc \in {"decision", "tool", "args", "effect", "sig", "key", "verify"} => Body.sealed
  /\ pc \in {"tool", "args", "effect", "sig", "key", "verify"}
     => Body.decisionSha = Body.decision
  /\ pc \in {"args", "effect", "sig", "key", "verify"} => Body.toolSha = Body.tool
  /\ pc \in {"effect", "sig", "key", "verify"} => Body.argsSha = Body.args
  /\ pc \in {"sig", "key", "verify"} => Body.effectSha = <<Body.tool, Body.args>>
  /\ pc \in {"key", "verify"} => Sig \notin {None, Malformed}
  /\ pc = "verify" => use.key # None

\* A signature that was present and could be checked did verify.
SignatureKnown ==
  /\ Sig # Malformed
  /\ signature <=> Sig # None /\ use.key # None
  /\ signature => Verifies

\* The checks behind each place of the Protect chain.
ProtectKnown ==
  /\ pc \notin {"read", "refused"} => Body.shape # "repeated"
  /\ pc \notin {"read", "validate", "refused"} => Body.shape = "ok"
  /\ pc \notin {"read", "validate", "commitArgs", "refused"}
     => Body.argsSha = Body.args
  /\ pc \notin {"read", "validate", "commitArgs", "commitConfig", "refused"}
     => Body.configSha = Body.config
  /\ pc \in {"inert", "replay", "action", "accepted"} => SignatureKnown
  /\ pc \in {"replay", "action", "accepted"} => ~Body.inert
  /\ pc \in {"action", "accepted"} =>
       /\ use.kernel = "pinned" /\ Body.config \in Loadable
       /\ Replayed = Body.verdict
  /\ pc = "accepted" => (Body.action = "ALLOW" => Replayed = "ALLOW")

SpinePcs == {"seal", "decision", "tool", "args", "effect", "sig", "key", "verify"}
ProtectPcs ==
  {"read", "validate", "commitArgs", "commitConfig", "options", "signature",
   "inert", "replay", "action"}

Deserves ==
  /\ WellFormed /\ Committed /\ Verifies
  /\ Body.family = "protect" => Reproduced

Places ==
  /\ Body.family = "spine" => pc \in SpinePcs \cup {"accepted", "refused"}
  /\ Body.family = "protect" => pc \in ProtectPcs \cup {"accepted", "refused"}
  /\ Body.family \in {"spine", "protect"} /\ use \in Uses

\* The answer, once there is one.
Answered ==
  /\ pc = "accepted" => (signature <=> Deserves)
  /\ pc = "refused" /\ use.who # "library" => ~Deserves
  /\ shown # "nothing" =>
       /\ use.who = "page" /\ pc \in {"accepted", "refused"}
       /\ shown = "valid" <=> Good
  /\ exit # "none" =>
       /\ use.who = "cli" /\ pc \in {"accepted", "refused"}
       /\ exit = "3" <=> Good

SInv ==
  /\ TypeOK /\ Places /\ Answered /\ BlameIsRight
  /\ Body.family = "spine" => SpineKnown
  /\ Body.family = "protect" => ProtectKnown

\* Whatever is said of the receipt and of the caller alone stays so.
LEMMA Same ==
  ASSUME receipt' = receipt, use' = use
  PROVE  /\ Body' = Body /\ Sig' = Sig /\ Replayed' = Replayed
         /\ (Verifies' <=> Verifies)
         /\ (Committed' <=> Committed)
         /\ (Reproduced' <=> Reproduced)
         /\ (WellFormed' <=> WellFormed)
         /\ (Deserves' <=> Deserves)
  <1>1. Body' = Body /\ Sig' = Sig
    BY DEF Body, Sig
  <1>2. Replayed' = Replayed
    BY <1>1 DEF Replayed
  <1>3. Verifies' <=> Verifies
    BY <1>1 DEF Verifies
  <1>4. Committed' <=> Committed
    BY <1>1 DEF Committed
  <1>5. Reproduced' <=> Reproduced
    BY <1>1 DEF Reproduced
  <1>6. WellFormed' <=> WellFormed
    BY <1>1 DEF WellFormed
  <1> QED
    BY <1>1, <1>2, <1>3, <1>4, <1>5, <1>6 DEF Deserves

LEMMA SInitially == Init => SInv
  <1> SUFFICES ASSUME Init PROVE SInv
    OBVIOUS
  <1>1. receipt \in Documents /\ use \in Callers
    BY SignedAssumption DEF Init
  <1>2. Body.family \in {"spine", "protect"}
    BY <1>1 DEF Documents, Bodies, SpineBodies, ProtectBodies, Body
  <1>3. pc = IF Body.family = "spine" THEN "seal" ELSE "read"
    BY DEF Init, Body
  <1>4. TypeOK
    BY <1>1, <1>3 DEF Init, TypeOK
  <1> QED
    BY <1>1, <1>2, <1>3, <1>4 DEF Init, SInv, Places, Answered, BlameIsRight,
         SpineKnown, ProtectKnown, SpinePcs, ProtectPcs

LEMMA SStep == SInv /\ [Next]_vars => SInv'
  <1> SUFFICES ASSUME SInv, [Next]_vars PROVE SInv'
    OBVIOUS
  <1>t. TypeOK /\ Places /\ Answered /\ BlameIsRight
    BY DEF SInv
  <1>k. /\ Body.family = "spine" => SpineKnown
        /\ Body.family = "protect" => ProtectKnown
    BY DEF SInv
  <1>u. UNCHANGED <<receipt, use>>
    BY DEF Next, vars, Seal, BindDecision, BindTool, BindArguments, BindEffect,
         SignatureFormed, KeyUsable, VerifySeal, Read, Validate,
         CommitArguments, CommitConfig, Options, CheckSignature, NoInertInput,
         Replay, ActionAllowed, PageShows, CliExits, Check, Proceed, Refuse
  <1>s. /\ Body' = Body /\ Sig' = Sig /\ Replayed' = Replayed
        /\ (Verifies' <=> Verifies)
        /\ (Committed' <=> Committed)
        /\ (Reproduced' <=> Reproduced)
        /\ (WellFormed' <=> WellFormed)
        /\ (Deserves' <=> Deserves)
    BY <1>u, Same
  <1>v. Verifies => use.key # None /\ Sig \notin {None, Malformed}
    <2> SUFFICES ASSUME Verifies
                 PROVE  use.key # None /\ Sig \notin {None, Malformed}
      OBVIOUS
    <2>1. use.key \in Signers /\ Body \in Bodies
      BY <1>t DEF Verifies, TypeOK, Callers, Documents, Body
    <2>2. Sig \in [by : Signers, over : Bodies]
      BY <2>1 DEF Verifies
    <2> QED
      BY <2>2, SignedAssumption DEF Verifies
  <1>w. use.who # "library" => ~use.root /\ "tweetnacl" \in use.verifiers
    BY <1>t, SignedAssumption DEF Places
  <1>1. CASE Seal \/ BindDecision \/ BindTool \/ BindArguments \/ BindEffect
             \/ SignatureFormed \/ KeyUsable \/ VerifySeal
    <2> USE DEF Seal, BindDecision, BindTool, BindArguments, BindEffect,
                SignatureFormed, KeyUsable, VerifySeal, Check, Proceed, Refuse
    <2>1. Body.family = "spine" /\ Body.family # "protect" /\ pc \in SpinePcs
      BY <1>1, <1>t DEF Places, SpinePcs, ProtectPcs
    <2>2. TypeOK'
      BY <1>1, <1>t, <1>u DEF TypeOK, Codes
    <2>3. pc' \in SpinePcs \cup {"accepted", "refused"} /\ SpineKnown'
      BY <1>1, <1>k, <1>s, <1>u, <1>v, <2>1 DEF SpineKnown, SpinePcs
    <2>4. shown = "nothing" /\ exit = "none" /\ UNCHANGED <<shown, exit>>
      BY <1>1, <1>t DEF Answered
    <2>5. /\ pc' = "accepted" => signature' /\ Deserves
          /\ pc' = "refused" => (~Deserves \/ (code' = "crypto_unavailable" /\ ~Available))
      BY <1>1, <1>k, <1>v, <2>1
         DEF SpineKnown, SpinePcs, Deserves, WellFormed, Committed, Available
    <2>6. BlameIsRight'
      BY <1>1, <1>t, <1>k, <1>s, <1>u, <1>v, <2>1
         DEF BlameIsRight, SpineKnown, SpinePcs, Committed, Available
    <2> QED
      BY <1>s, <1>t, <1>u, <1>w, <2>1, <2>2, <2>3, <2>4, <2>5, <2>6
         DEF SInv, Places, Answered, Available
  <1>2. CASE Read \/ Validate \/ CommitArguments \/ CommitConfig \/ Options
             \/ NoInertInput \/ Replay \/ ActionAllowed
    <2> USE DEF Read, Validate, CommitArguments, CommitConfig, Options,
                NoInertInput, Replay, ActionAllowed, Check, Proceed, Refuse
    <2>1. Body.family = "protect" /\ Body.family # "spine" /\ pc \in ProtectPcs
      BY <1>2, <1>t DEF Places, SpinePcs, ProtectPcs
    <2>2. TypeOK'
      BY <1>2, <1>t, <1>u DEF TypeOK, Codes
    <2>3. pc' \in ProtectPcs \cup {"accepted", "refused"} /\ ProtectKnown'
      BY <1>2, <1>k, <1>s, <1>u, <2>1 DEF ProtectKnown, SignatureKnown, ProtectPcs
    <2>4. shown = "nothing" /\ exit = "none" /\ UNCHANGED <<shown, exit>>
      BY <1>2, <1>t DEF Answered
    <2>5. /\ pc' = "accepted" => (signature' <=> Deserves)
          /\ pc' = "refused" /\ use.who # "library" => ~Deserves
      BY <1>2, <1>k, <1>v, <1>w, <2>1
         DEF ProtectKnown, SignatureKnown, ProtectPcs, Deserves, WellFormed,
             Committed, Reproduced, Replayed
    <2>6. BlameIsRight'
      BY <1>2, <1>t, <1>k, <1>s, <1>u, <2>1
         DEF BlameIsRight, ProtectKnown, SignatureKnown, ProtectPcs, Committed,
             Reproduced, Replayed
    <2> QED
      BY <1>s, <1>t, <1>u, <2>1, <2>2, <2>3, <2>4, <2>5, <2>6
         DEF SInv, Places, Answered
  <1>3. CASE CheckSignature
    <2>1. Body.family = "protect" /\ Body.family # "spine" /\ pc = "signature"
      BY <1>3, <1>t DEF CheckSignature, Places, SpinePcs
    <2>2. TypeOK'
      BY <1>3, <1>t, <1>u DEF CheckSignature, Refuse, TypeOK, Codes
    <2>3. shown = "nothing" /\ exit = "none" /\ shown' = shown /\ exit' = exit
      BY <1>3, <1>t, <2>1 DEF CheckSignature, Refuse, Answered
    <2>4. Committed
      BY <2>1, <1>k DEF ProtectKnown, Committed
    <2>5. CASE Sig = Malformed \/ (Sig # None /\ use.key # None /\ ~Verifies)
      <3>1. pc' = "refused" /\ code' = "signature_mismatch"
        BY <1>3, <2>5 DEF CheckSignature, Refuse
      <3>2. Sig # None /\ ~Verifies
        BY <2>5, <1>v, SignedAssumption
      <3> QED
        BY <3>1, <3>2, <1>t, <1>k, <1>s, <1>u, <2>1, <2>2, <2>3, <2>4
           DEF Places, Answered, Good, BlameIsRight, ProtectKnown,
               SignatureKnown, ProtectPcs, Deserves, SInv
    <2>6. CASE ~(Sig = Malformed \/ (Sig # None /\ use.key # None /\ ~Verifies))
      <3>1. pc' = "inert" /\ code' = code
        BY <1>3, <2>6 DEF CheckSignature
      <3>2. signature' <=> Sig # None /\ use.key # None
        BY <1>3, <2>6 DEF CheckSignature
      <3>3. SignatureKnown'
        BY <3>2, <2>6, <1>s, <1>u DEF SignatureKnown
      <3> QED
        BY <3>1, <3>3, <1>t, <1>k, <1>s, <1>u, <2>1, <2>2, <2>3
           DEF Places, Answered, Good, BlameIsRight, ProtectKnown,
               ProtectPcs, Deserves, SInv
    <2> QED
      BY <2>5, <2>6
  <1>4. CASE PageShows
    <2>1. TypeOK'
      BY <1>4, <1>t DEF PageShows, TypeOK
    <2> QED
      BY <1>4, <1>t, <1>k, <1>s, <1>u, <1>v, <1>w, <2>1
         DEF PageShows, SInv, Places, Answered, Good, BlameIsRight, SpineKnown,
             ProtectKnown, SignatureKnown
  <1>5. CASE CliExits
    <2>1. TypeOK'
      BY <1>5, <1>t DEF CliExits, TypeOK
    <2> QED
      BY <1>5, <1>t, <1>k, <1>s, <1>u, <1>v, <1>w, <2>1
         DEF CliExits, SInv, Places, Answered, Good, BlameIsRight, SpineKnown,
             ProtectKnown, SignatureKnown
  <1>6. CASE UNCHANGED vars
    BY <1>6, <1>t, <1>k, <1>s
       DEF vars, SInv, TypeOK, Places, Answered, Good, BlameIsRight,
           SpineKnown, ProtectKnown, SignatureKnown
  <1> QED
    BY <1>1, <1>2, <1>3, <1>4, <1>5, <1>6 DEF Next

LEMMA SInvariant == Spec => []SInv
  BY SInitially, SStep, PTL DEF Spec

LEMMA SInvExact == SInv => SignedIsExact
  <1> SUFFICES ASSUME SInv PROVE SignedIsExact
    OBVIOUS
  <1>1. pc \in {"accepted", "refused"} /\ use.who # "library"
        => (Good <=> Deserves)
    BY DEF SInv, Answered, Good
  <1> QED
    BY <1>1 DEF SInv, Answered, SignedIsExact, Deserves

-----------------------------------------------------------------------------
\* Seen through Text, a receipt is one of the texts Receipts is about.
LEMMA ReceiptIsAText == TypeOK => Text!TextsTyped
  <1> SUFFICES ASSUME TypeOK PROVE Text!TextsTyped
    OBVIOUS
  <1>1. receipt # None /\ Body \in Bodies /\ Sig \in Signatures
    BY SignedAssumption DEF TypeOK, Documents, Body, Sig
  <1>2. Body.family \in {"spine", "protect"}
    BY <1>1 DEF Bodies, SpineBodies, ProtectBodies
  <1>3. Signer \in Signers \cup {None}
    BY <1>1 DEF Signatures, Signer, SignedOver
  <1>4. Graded = "genuine" => Signer # None
    <2>1. Graded = "genuine" => SignedOver
      BY DEF Graded
    <2>2. SignedOver => Sig.by \in Signers
      BY <1>1 DEF Signatures, SignedOver
    <2> QED
      BY <2>1, <2>2, SignedAssumption DEF Signer
  <1>5. Graded \in Text!Grades
    BY DEF Graded, Text!Grades
  <1> QED
    BY <1>1, <1>2, <1>3, <1>4, <1>5
       DEF Text!TextsTyped, Text!Families, Text!Grades

\* The key in the field made the signature exactly when it is the signer's.
LEMMA VerifiesIsSigner ==
  TypeOK => (Verifies <=> SignedOver /\ use.key = Signer)
  <1> SUFFICES ASSUME TypeOK
               PROVE  Verifies <=> SignedOver /\ use.key = Signer
    OBVIOUS
  <1>1. Body \in Bodies /\ Sig \in Signatures /\ use.key \in Signers \cup {None}
    BY DEF TypeOK, Documents, Callers, Body, Sig
  <1>2. ASSUME Verifies PROVE SignedOver /\ use.key = Signer
    <2>1. use.key \in Signers /\ Sig = [by |-> use.key, over |-> Body]
      BY <1>1, <1>2 DEF Verifies
    <2>2. Sig \in [by : Signers, over : Bodies]
      BY <1>1, <2>1
    <2>3. SignedOver
      BY <2>1, <2>2, SignedAssumption DEF SignedOver
    <2> QED
      BY <2>1, <2>3 DEF Signer
  <1>3. ASSUME SignedOver, use.key = Signer PROVE Verifies
    <2>1. Sig \in [by : Signers, over : Bodies]
      BY <1>1, <1>3 DEF SignedOver, Signatures
    <2>2. use.key = Sig.by /\ Sig.over = Body
      BY <1>3 DEF SignedOver, Signer
    <2>3. Sig = [by |-> use.key, over |-> Body]
      BY <2>1, <2>2
    <2> QED
      BY <2>1, <2>2, <2>3, SignedAssumption DEF Verifies
  <1> QED
    BY <1>2, <1>3

\* What the grade, the key and the kernel service say together is what the
\* receipt deserves.
LEMMA JudgedByGrade ==
  ASSUME TypeOK, NEW ker \in Services
  PROVE  Deserves <=> Text!Judge(receipt, use.key, ker) = "pass"
  <1>1. receipt # None /\ Body.family \in {"spine", "protect"}
    BY SignedAssumption DEF TypeOK, Documents, Bodies, SpineBodies, ProtectBodies, Body
  <1>2. Text!Judge(receipt, use.key, ker) = "pass"
        <=> /\ Graded = "genuine" /\ use.key = Signer
            /\ Body.family = "protect" => ker = "ready"
    BY <1>1 DEF Text!Judge, Text!Passes, Text!Signed, Text!KernelFor, Graded
  <1>3. ker = "ready" <=> use.kernel = "pinned"
    BY DEF Services, TypeOK, Callers
  <1>4. Deserves <=> /\ Graded = "genuine" /\ Verifies
                     /\ Body.family = "protect" => use.kernel = "pinned"
    BY <1>1, VerifiesIsSigner DEF Deserves, Graded, Reproduced, Replayed
  <1>5. Graded = "genuine" => SignedOver
    BY DEF Graded
  <1> QED
    BY <1>2, <1>3, <1>4, <1>5, VerifiesIsSigner

LEMMA SInvJudged == SInv => ShownAsJudged
  <1> SUFFICES ASSUME SInv PROVE ShownAsJudged
    OBVIOUS
  <1>1. TypeOK
    BY DEF SInv
  <1>2. ASSUME shown # "nothing", NEW ker \in Services
        PROVE  shown = "valid" <=> Text!Judge(receipt, use.key, ker) = "pass"
    <2>1. shown = "valid" <=> Deserves
      BY <1>2 DEF SInv, Answered, Good
    <2> QED
      BY <1>1, <2>1, JudgedByGrade
  <1>3. ASSUME pc \in {"replay", "action"} PROVE Text!NeedsKernel(receipt)
    <2>1. Body.family = "protect" /\ WellFormed
      BY <1>1, <1>3 DEF SInv, Places, SpinePcs, ProtectKnown, WellFormed, TypeOK,
         Documents, Bodies, SpineBodies, ProtectBodies, Body
    <2>2. receipt # None
      BY <1>1, SignedAssumption DEF TypeOK
    <2> QED
      BY <2>1, <2>2 DEF Text!NeedsKernel, Graded
  <1> QED
    BY <1>2, <1>3 DEF ShownAsJudged

-----------------------------------------------------------------------------
\* Both chains keep their types.
THEOREM SignedTypeCorrect == Spec => []TypeOK
  BY SInvariant, PTL DEF SInv

\* Whatever was done to a Spine or Protect receipt, "valid" on the page and
\* exit 3 are said of exactly those that deserve it.
THEOREM SignedIsExactSafe == Spec => []SignedIsExact
  BY SInvariant, SInvExact, PTL

\* A refusal blames what is to blame.
THEOREM BlameIsRightSafe == Spec => []BlameIsRight
  BY SInvariant, PTL DEF SInv

\* What the model of the page assumes of a check of a signed receipt is what
\* the check concludes, for any receipts, keys and kernels.
THEOREM SignedShownAsJudged == Spec => []ShownAsJudged
  BY SInvariant, SInvJudged, PTL
=============================================================================
