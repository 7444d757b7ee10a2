---------------------------- MODULE SignedReceipts ----------------------------
(***************************************************************************)
(* The two families that are signed as a whole: Spine receipts             *)
(* (spine-receipt.js) and Protect receipts (protect-receipt.js), and what  *)
(* the page and the command line verifier make of the answer.  Each        *)
(* verifier is a chain of checks; the first that fails refuses with its    *)
(* code, and where a check has several codes the first stands for all.  A  *)
(* commitment stands for what it is the hash of, a signature for its       *)
(* signer and the body it was made over.                                   *)
(***************************************************************************)
CONSTANTS
  Values,     \* arguments and tool names
  Configs,    \* kernel configurations
  Loadable,   \* those seal_init accepts
  Verdicts,   \* what a receipt records, "ALLOW" among them
  Ruling,     \* what the pinned kernel says of a configuration and arguments
  Signers,
  None,
  Malformed   \* a signature that is not one

SpineBodies ==
  [family : {"spine"},
   sealed : BOOLEAN,                  \* form, algorithm and members are there
   decision : Verdicts, tool : Values, args : Values,
   decisionSha : Verdicts, toolSha : Values, argsSha : Values,
   effectSha : Values \X Values]

\* Of the judged call only the arguments vary; approvals, votes and the clock
\* are as the Ruling has them.
ProtectBodies ==
  [family : {"protect"},
   shape : {"ok", "bad", "repeated"},
   args : Values, config : Configs, argsSha : Values, configSha : Configs,
   inert : BOOLEAN,                   \* grants or forecasts are not empty
   verdict : Verdicts, action : Verdicts \cup {None}]

Bodies == SpineBodies \cup ProtectBodies
Signatures == [by : Signers, over : Bodies] \cup {None, Malformed}
Documents == [body : Bodies, sig : Signatures]

\* A key that is not 64 lowercase hex digits, or absent, is None.  Only a
\* library call brings an authority root; both programs have TweetNaCl.
Callers ==
  [who : {"page", "cli", "library"}, key : Signers \cup {None},
   root : BOOLEAN, kernel : {"pinned", "other", "absent"},
   verifiers : SUBSET {"subtle", "ed25519", "tweetnacl"}]

CONSTANTS Inputs, Uses
ASSUME SignedAssumption ==
  /\ Loadable \subseteq Configs /\ "ALLOW" \in Verdicts
  /\ Ruling \in [Configs \X Values -> Verdicts]
  /\ None \notin Signers /\ None \notin Verdicts
  /\ None \notin [by : Signers, over : Bodies]
  /\ Malformed \notin [by : Signers, over : Bodies] /\ None # Malformed
  /\ None \notin Documents
  /\ Inputs \subseteq Documents /\ Uses \subseteq Callers
  /\ \A u \in Uses : u.who # "library" => ~u.root /\ "tweetnacl" \in u.verifiers

VARIABLES
  receipt, use,
  pc,         \* the next check, or "accepted" or "refused"
  code,       \* of the refusal
  signature,  \* result.signature: did the signature verify?
  shown,      \* the page's headline
  exit        \* the exit code of the command line verifier

vars == <<receipt, use, pc, code, signature, shown, exit>>

Body == receipt.body
Sig  == receipt.sig

Codes ==
  {"unsealed", "decision_binding_mismatch", "tool_binding_mismatch",
   "arguments_binding_mismatch", "effect_binding_mismatch",
   "signature_malformed", "pubkey_invalid", "crypto_unavailable",
   "signature_invalid", "duplicate_member", "invalid_receipt",
   "commitment_mismatch", "signature_mismatch",
   "inert_input", "verification_error", "verdict_mismatch",
   "action_verdict_mismatch"}

TypeOK ==
  /\ receipt \in Documents /\ use \in Callers
  /\ pc \in {"seal", "decision", "tool", "args", "effect", "sig", "key",
             "verify", "read", "validate", "commitArgs", "commitConfig",
             "options", "signature", "inert", "replay", "action",
             "accepted", "refused"}
  /\ code \in Codes \cup {"none"}
  /\ signature \in BOOLEAN
  /\ shown \in {"nothing", "valid", "refused", "unverified"}
  /\ exit \in {"none", "1", "3"}

\* The router of either program looks at the family.
Init ==
  /\ receipt \in Inputs /\ use \in Uses
  /\ pc = IF receipt.body.family = "spine" THEN "seal" ELSE "read"
  /\ code = "none" /\ signature = FALSE
  /\ shown = "nothing" /\ exit = "none"

-----------------------------------------------------------------------------
Refuse(c) ==
  /\ pc' = "refused" /\ code' = c
  /\ UNCHANGED <<receipt, use, signature, shown, exit>>

Proceed(next) ==
  /\ pc' = next
  /\ UNCHANGED <<receipt, use, code, signature, shown, exit>>

Check(at, ok, c, next) ==
  pc = at /\ IF ok THEN Proceed(next) ELSE Refuse(c)

Seal == Check("seal", Body.sealed, "unsealed", "decision")

BindDecision == Check("decision", Body.decisionSha = Body.decision,
                      "decision_binding_mismatch", "tool")

BindTool == Check("tool", Body.toolSha = Body.tool,
                  "tool_binding_mismatch", "args")

BindArguments == Check("args", Body.argsSha = Body.args,
                       "arguments_binding_mismatch", "effect")

\* Mutant of BindEffect: the key is asked for first.
BindEffectAfterKey ==
  /\ pc = "effect"
  /\ IF use.key = None THEN Refuse("pubkey_invalid")
     ELSE Check("effect", Body.effectSha = <<Body.tool, Body.args>>,
                "effect_binding_mismatch", "sig")

BindEffect == Check("effect", Body.effectSha = <<Body.tool, Body.args>>,
                    "effect_binding_mismatch", "sig")

SignatureFormed == Check("sig", Sig \notin {None, Malformed},
                         "signature_malformed", "key")

KeyUsable == Check("key", use.key # None, "pubkey_invalid", "verify")

\* SubtleCrypto may lack Ed25519 and throw; TweetNaCl steps in.
Available ==
  {"subtle", "ed25519"} \subseteq use.verifiers \/ "tweetnacl" \in use.verifiers

\* The signature is over the whole body under the key supplied.
Verifies == use.key # None /\ Sig = [by |-> use.key, over |-> Body]

VerifySeal ==
  /\ pc = "verify"
  /\ IF ~Available THEN Refuse("crypto_unavailable")
     ELSE IF ~Verifies THEN Refuse("signature_invalid")
     ELSE /\ pc' = "accepted" /\ signature' = TRUE
          /\ UNCHANGED <<receipt, use, code, shown, exit>>

-----------------------------------------------------------------------------
Read == Check("read", Body.shape # "repeated", "duplicate_member", "validate")

Validate == Check("validate", Body.shape = "ok", "invalid_receipt", "commitArgs")

CommitArguments == Check("commitArgs", Body.argsSha = Body.args,
                         "commitment_mismatch", "commitConfig")

CommitConfig == Check("commitConfig", Body.configSha = Body.config,
                      "commitment_mismatch", "options")

Options == Check("options", ~use.root, "invalid_receipt", "signature")

\* Mutant of CheckSignature: a result that is merely undefined.
CheckSignatureUndefined ==
  /\ pc = "signature"
  /\ IF Sig = Malformed \/ (Sig # None /\ use.key # None /\ ~Verifies)
       THEN Refuse("signature_mismatch")
     ELSE /\ pc' = "inert"
          /\ signature' = IF Sig = None THEN None ELSE use.key # None
          /\ UNCHANGED <<receipt, use, code, shown, exit>>

\* Without a signature, or without a usable key, nothing is refused: the
\* result says that the signature is not verified.  A malformed one is refused
\* before the key is looked at.
CheckSignature ==
  /\ pc = "signature"
  /\ IF Sig = Malformed \/ (Sig # None /\ use.key # None /\ ~Verifies)
       THEN Refuse("signature_mismatch")
     ELSE /\ pc' = "inert" /\ signature' = (Sig # None /\ use.key # None)
          /\ UNCHANGED <<receipt, use, code, shown, exit>>

NoInertInput == Check("inert", ~Body.inert, "inert_input", "replay")

Replayed == Ruling[<<Body.config, Body.args>>]

\* replayProtectRaw throws unless the kernel is the pinned one and accepts the
\* configuration.
Replay ==
  /\ pc = "replay"
  /\ IF use.kernel # "pinned" \/ Body.config \notin Loadable
       THEN Refuse("verification_error")
     ELSE IF Replayed # Body.verdict THEN Refuse("verdict_mismatch")
     ELSE Proceed("action")

ActionAllowed == Check("action", Body.action = "ALLOW" => Replayed = "ALLOW",
                       "action_verdict_mismatch", "accepted")

-----------------------------------------------------------------------------
\* Mutant of Good: a result that was not refused is good.
GoodUnlessRefused == pc = "accepted"

\* What both programs ask of the result: validate, signature and replay.
Good == pc = "accepted" /\ signature

PageShows ==
  /\ use.who = "page" /\ shown = "nothing"
  /\ pc \in {"accepted", "refused"}
  /\ shown' = IF Good THEN "valid"
              ELSE IF pc = "refused" THEN "refused" ELSE "unverified"
  /\ UNCHANGED <<receipt, use, pc, code, signature, exit>>

CliExits ==
  /\ use.who = "cli" /\ exit = "none"
  /\ pc \in {"accepted", "refused"}
  /\ exit' = IF Good THEN "3" ELSE "1"
  /\ UNCHANGED <<receipt, use, pc, code, signature, shown>>

Next ==
  \/ Seal \/ BindDecision \/ BindTool \/ BindArguments \/ BindEffect
  \/ SignatureFormed \/ KeyUsable \/ VerifySeal
  \/ Read \/ Validate \/ CommitArguments \/ CommitConfig \/ Options
  \/ CheckSignature \/ NoInertInput \/ Replay \/ ActionAllowed
  \/ PageShows \/ CliExits

Spec == Init /\ [][Next]_vars

-----------------------------------------------------------------------------
Committed ==
  /\ Body.argsSha = Body.args
  /\ Body.family = "spine" =>
       /\ Body.decisionSha = Body.decision /\ Body.toolSha = Body.tool
       /\ Body.effectSha = <<Body.tool, Body.args>>
  /\ Body.family = "protect" => Body.configSha = Body.config

WellFormed ==
  IF Body.family = "spine" THEN Body.sealed ELSE Body.shape = "ok" /\ ~Body.inert

\* The pinned kernel of this device says what the receipt records, and the
\* recorded action does not claim more.
Reproduced ==
  /\ use.kernel = "pinned" /\ Body.config \in Loadable
  /\ Ruling[<<Body.config, Body.args>>] = Body.verdict
  /\ Body.action = "ALLOW" => Body.verdict = "ALLOW"

\* The page's headline and exit 3 say the same of the same receipt: it is well
\* formed, commits to what it shows, the holder of the supplied key signed all
\* of it and, for Protect, its verdict is reproduced; nothing else is said to
\* be valid (app.js 594-614, verify-file.cjs 69-90).
SignedIsExact ==
  LET good == /\ WellFormed /\ Committed /\ Verifies
              /\ Body.family = "protect" => Reproduced
  IN  /\ shown # "nothing" => (shown = "valid" <=> good)
      /\ exit # "none" => (exit = "3" <=> good)

\* A refusal blames what is to blame: a signature or a key only where the
\* document is of one piece, the kernel's answer only where no signature was
\* wrong, a differing verdict only on the pinned kernel (spine-receipt.js
\* 47-48, 61-84, protect-receipt.js 92-119).
BlameIsRight ==
  /\ code \in {"signature_malformed", "pubkey_invalid", "crypto_unavailable"}
     => Committed
  /\ code \in {"signature_invalid", "signature_mismatch"}
     => Committed /\ Sig # None /\ ~Verifies
  /\ code \in {"inert_input", "verification_error", "verdict_mismatch",
               "action_verdict_mismatch"}
     => /\ Committed /\ Sig # Malformed
        /\ Verifies \/ Sig = None \/ use.key = None
  /\ code = "verdict_mismatch" => use.kernel = "pinned" /\ ~Reproduced

-----------------------------------------------------------------------------
\* The receipt as the checker page's model sees it (Receipts): who signed all
\* of it, and what an honest check finds, whoever asks and on whatever device.
SignedOver == Sig \notin {None, Malformed} /\ Sig.over = Body
Signer == IF SignedOver THEN Sig.by ELSE None

Graded ==
  IF ~WellFormed THEN "illformed"
  ELSE IF /\ Committed /\ SignedOver
          /\ Body.family = "protect" =>
               /\ Body.config \in Loadable /\ Replayed = Body.verdict
               /\ Body.action = "ALLOW" => Body.verdict = "ALLOW"
         THEN "genuine" ELSE "tampered"

Text == INSTANCE Receipts
  WITH Texts <- {receipt, None}, NoText <- None,
       Keys <- Signers \cup {None}, NoKey <- None,
       Family <- [t \in {receipt, None} |->
                    IF t = None THEN "unreadable" ELSE Body.family],
       Grade <- [t \in {receipt, None} |->
                   IF t = None THEN "illformed" ELSE Graded],
       SignerOf <- [t \in {receipt, None} |-> IF t = None THEN None ELSE Signer]

\* The states of the kernel service a device can be in.
Services == CASE use.kernel = "pinned" -> {"ready"}
              [] use.kernel = "other"  -> {"mismatch"}
              [] use.kernel = "absent" -> {"absent", "hashed"}

\* What the model of the page takes for granted about a check that runs on its
\* own is what the chain of checks concludes: the verdict follows from the
\* receipt's grade, the key in the field and the state of the kernel service,
\* and a receipt that is said not to need the kernel never asks it (app.js
\* 575-614, protect-receipt.js 86-119, spine-receipt.js 44-84).
ShownAsJudged ==
  /\ shown # "nothing" =>
       \A ker \in Services :
         shown = "valid" <=> Text!Judge(receipt, use.key, ker) = "pass"
  /\ pc \in {"replay", "action"} => Text!NeedsKernel(receipt)
=============================================================================
