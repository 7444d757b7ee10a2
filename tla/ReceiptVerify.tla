---------------------------- MODULE ReceiptVerify ----------------------------
(***************************************************************************)
(* verifyReceipt (receipt.js): what a verifier concludes about one         *)
(* decision receipt.  The receipt is split into the parts the checks       *)
(* compare; a hash stands for what it is the hash of, a signature for the  *)
(* signer and the text it was made over.  What a call and its canonical    *)
(* line have in common is less than the call: see Line.  The steps are the *)
(* numbered sections of the function, in its order; a check is "none"      *)
(* until its section has run, and stays so when the section is skipped.    *)
(***************************************************************************)
EXTENDS Naturals

CONSTANTS
  None,        \* an absent field, an absent pin
  Policies,    \* kernel configurations
  Calls,       \* (tool, arguments, now ?? 1000): what the kernel is asked
  Lines,       \* request lines, canonical or as a host put them before it
  Line,        \* call -> its canonical line, which leaves the clock out
  Signers,
  Kernels, Audited,
  Targets,     \* capability targets, carried as opaque grants
  GrantNames,  \* grants to be resolved by the policy
  Verdicts,
  Certs,       \* what the audit says beside its verdict and its commitment
  Epoch,       \* policy -> its epoch, None unless a non-negative integer
  Loadable,    \* the policies seal_init accepts under a good signature
  Ragged,      \* policy, name: searching its tools for that name throws
  Resolve,     \* policy, grant name -> its target, None if unresolvable
  Ruling       \* what a kernel emits for a policy, a call and approvals

\* A payload is a text: the policy it parses to, if any, and whether it is
\* spelt as JSON.stringify spells it.
Payloads == [policy : Policies \cup {None}, compact : BOOLEAN]
Compact(p) == [policy |-> p, compact |-> TRUE]

Grants == Targets \cup GrantNames
Bytes  == [verdict : Verdicts, commits : Lines \cup {None}, certs : Certs]

ReceiptParts ==
  [shape : {"ok", "bad", "unreadable"}, roundtrips : BOOLEAN,
   extras : BOOLEAN,                  \* v2 or v3, and not refused before it
   bypass : BOOLEAN,
   call : Calls \cup {None},          \* None: request_parse_error
   canonicalSha : Lines \cup {None},
   requestSha : Lines \cup {None},
   payload : Payloads \cup {None}, pubkey : Signers \cup {None},
   signedBy : Signers, signedText : Payloads,
   kernelConfig : Policies, policyHash : Payloads \cup {None},
   grants : SUBSET Grants, kernelSha : Kernels \cup {None},
   verdict : Verdicts, certs : Certs, emitted : Bytes]

\* "malformed" is a pin that is not 64 lowercase hex digits.
Callers == [who : {"page", "cli", "library"}, form : {"text", "object"},
            pin : Signers \cup {None, "malformed"},
            verifiers : SUBSET {"webcrypto", "tweetnacl"}]

\* What seal_decide can be given.
Judgements == [policy : Policies, call : Calls, approvals : SUBSET Targets]

ASSUME VerifyAssumption ==
  /\ "malformed" \notin Signers /\ None \notin Signers /\ None # "malformed"
  /\ None \notin Payloads /\ None \notin Lines /\ None \notin Targets
  /\ None \notin Policies /\ None \notin ReceiptParts
  /\ None \notin Judgements /\ None \notin Calls
  /\ Line \in [Calls -> Lines]
  /\ Targets \cap GrantNames = {}
  /\ Audited \in Kernels /\ None \notin Kernels
  /\ Loadable \subseteq Policies
  /\ Ragged \subseteq Policies \X (Calls \cup GrantNames \cup {None})
  /\ Epoch \in [Policies -> Nat \cup {None}]
  /\ Resolve \in [Policies -> [GrantNames -> Targets \cup {None}]]
  /\ Ruling \in [Kernels \X Policies \X Calls \X SUBSET Targets -> Bytes]

CONSTANTS Inputs, Uses   \* the receipts and the uses of a run
ASSUME InputAssumption ==
  /\ Inputs \subseteq ReceiptParts
  /\ Uses \subseteq Callers
  /\ \A u \in Uses :   \* the page pins nobody; both callers have TweetNaCl,
       /\ u.who # "library" => u.form = "text" /\ "tweetnacl" \in u.verifiers
       /\ u.who = "page" => u.pin = None
       /\ u.who = "cli" => u.pin # "malformed"   \* a usage error, exit 2

VARIABLES
  receipt,   \* the parts of the received receipt
  use,       \* who calls, with what options
  kernel,    \* the binary verifyKernelSha hashed, and decideSignedRaw runs
  judged,    \* history: what seal_decide was given
  out,       \* the result object
  pc

vars == <<receipt, use, kernel, judged, out, pc>>

Marks == {"pass", "fail", "none"}
Mark(b) == IF b THEN "pass" ELSE "fail"
Outcomes == {"authorised", "authorised-unparseable", "unpinned",
             "unverified-document", "crypto_unavailable", "failure"}

Checks == {"format", "kernel", "request", "binding", "grants", "verdict",
           "emitted", "commitment", "material"}

Results ==
  [check : [Checks -> Marks],
   mediated : Marks,                 \* "fail": NOT MEDIATED
   authority : {"trusted", "untrusted", "unpinned"},
   signatureValid : BOOLEAN,
   verifier : {"none", "webcrypto", "tweetnacl", "kernel", "unavailable"},
   replayConsistent : BOOLEAN,
   freshness : Nat \cup {None},
   documentChecked : BOOLEAN,
   rederiveError : {"none", "init", "threw"},
   core : BOOLEAN,                   \* verificationCore
   outcome : Outcomes]

TypeOK ==
  /\ receipt \in ReceiptParts
  /\ use \in Callers
  /\ kernel \in Kernels \cup {None}
  /\ judged \in Judgements \cup {None}
  /\ out \in Results
  /\ pc \in {"shape", "authority", "kernel", "request", "binding", "grants",
             "replay", "conclude", "done", "rejected"}

Init ==
  /\ receipt \in Inputs
  /\ use \in Uses
  /\ kernel = None
  /\ judged = None
  /\ out = [check |-> [c \in Checks |-> "none"], mediated |-> "none",
            authority |-> "untrusted", signatureValid |-> FALSE,
            verifier |-> "none", replayConsistent |-> FALSE,
            freshness |-> None, documentChecked |-> use.form = "text",
            rederiveError |-> "none", core |-> FALSE, outcome |-> "failure"]
  /\ pc = "shape"

-----------------------------------------------------------------------------
Unparseable == receipt.call = None

\* canonicalRequest, of the tool and the arguments alone: two calls that differ
\* in their clock have one line.
CanonicalLine == IF Unparseable THEN None ELSE Line[receipt.call]

\* signedPayload: the policy the payload parses to, None when it does not.
Parsed(payload) == IF payload = None THEN None ELSE payload.policy

\* paymentDeclFor: the field table of v2 and v3 searches the displayed policy
\* for the tool of the call, in a bypass receipt too.
FieldTableThrows ==
  /\ receipt.shape # "unreadable" /\ receipt.extras
  /\ <<receipt.kernelConfig, receipt.call>> \in Ragged

\* validateReceipt, whose exception is verifyReceipt's own, and the two early
\* returns that follow it.
ValidateShape ==
  /\ pc = "shape"
  /\ \/ /\ FieldTableThrows
        /\ pc' = "rejected"
        /\ UNCHANGED out
     \/ /\ ~FieldTableThrows /\ receipt.shape # "ok"
        /\ out' = [out EXCEPT !.check["format"] = "fail"]
        /\ pc' = "done"
     \/ /\ ~FieldTableThrows /\ receipt.shape = "ok" /\ receipt.bypass
        /\ out' = [out EXCEPT !.check["format"] = "pass", !.mediated = "fail"]
        /\ pc' = "done"
     \/ /\ ~FieldTableThrows /\ receipt.shape = "ok" /\ ~receipt.bypass
        /\ out' = [out EXCEPT !.check["format"] = "pass", !.mediated = "pass"]
        /\ pc' = "authority"
  /\ UNCHANGED <<receipt, use, kernel, judged>>

\* Mutant of ResolveAuthority: a receipt without a config leaves it unset.
ResolveAuthorityUnset ==
  /\ pc = "authority"
  /\ out' = [out EXCEPT !.authority =
               IF use.pin = "malformed" THEN "untrusted"
               ELSE IF receipt.pubkey = None THEN None
               ELSE IF use.pin = None THEN "unpinned"
               ELSE IF use.pin = receipt.pubkey THEN "trusted" ELSE "untrusted"]
  /\ pc' = "kernel"
  /\ UNCHANGED <<receipt, use, kernel, judged>>

ResolveAuthority ==
  /\ pc = "authority"
  /\ out' = [out EXCEPT !.authority =
               IF use.pin = "malformed" \/ receipt.pubkey = None THEN "untrusted"
               ELSE IF use.pin = None THEN "unpinned"
               ELSE IF use.pin = receipt.pubkey THEN "trusted" ELSE "untrusted"]
  /\ pc' = "kernel"
  /\ UNCHANGED <<receipt, use, kernel, judged>>

\* 2. verifyKernelSha answers, or its rejection is verifyReceipt's own.
IdentifyKernel ==
  /\ pc = "kernel"
  /\ \/ \E k \in Kernels :
          /\ kernel' = k
          /\ out' = [out EXCEPT !.check["kernel"] =
                       Mark(k = Audited /\ receipt.kernelSha = k)]
          /\ pc' = "request"
     \/ /\ pc' = "rejected"
        /\ UNCHANGED <<kernel, out>>
  /\ UNCHANGED <<receipt, use, judged>>

\* Mutant of DeriveRequest: undefined === undefined is a match.
DeriveRequestUndefined ==
  /\ pc = "request"
  /\ out' = [out EXCEPT !.check["request"] =
               Mark(receipt.canonicalSha = CanonicalLine)]
  /\ pc' = "binding"
  /\ UNCHANGED <<receipt, use, kernel, judged>>

\* 3. The canonical line is derived from what will be replayed; where it
\* cannot be, that is neither a match nor a mismatch.
DeriveRequest ==
  /\ pc = "request"
  /\ out' = [out EXCEPT !.check["request"] =
               IF Unparseable THEN "none"
               ELSE Mark(receipt.canonicalSha = CanonicalLine)]
  /\ pc' = "binding"
  /\ UNCHANGED <<receipt, use, kernel, judged>>

\* 4. The five things pushed to bindingErrors.  What follows the parse is not
\* looked at when it throws.
BindingErrors ==
  LET payload == receipt.payload
      policy  == Parsed(payload)
  IN  {e \in {"unavailable", "not json", "not compact", "not kernel_config",
              "not policy_hash", "no epoch"} :
         \/ e = "unavailable" /\ payload = None
         \/ e = "not json" /\ payload # None /\ policy = None
         \/ /\ policy # None
            /\ \/ e = "not compact" /\ payload # Compact(policy)
               \/ e = "not kernel_config"
                    /\ payload # Compact(receipt.kernelConfig)
               \/ e = "not policy_hash"
                    /\ receipt.policyHash \notin {None, payload}
               \/ e = "no epoch" /\ Epoch[policy] = None}

\* Mutant of BindConfig: the epoch is reported before any signature is seen.
BindConfigReportsEpoch ==
  /\ pc = "binding"
  /\ out' = [out EXCEPT
       !.check["binding"] = Mark(BindingErrors = {}),
       !.freshness = IF Parsed(receipt.payload) = None THEN None
                     ELSE Epoch[Parsed(receipt.payload)]]
  /\ pc' = "grants"
  /\ UNCHANGED <<receipt, use, kernel, judged>>

BindConfig ==
  /\ pc = "binding"
  /\ out' = [out EXCEPT !.check["binding"] = Mark(BindingErrors = {})]
  /\ pc' = "grants"
  /\ UNCHANGED <<receipt, use, kernel, judged>>

\* capabilityTargetsFromPolicy: an opaque grant is its own target, a named one
\* has a target only in a policy that was read.
TargetOf(g) ==
  LET policy == Parsed(receipt.payload)
  IN  IF g \in Targets THEN g
      ELSE IF policy = None THEN None
      ELSE Resolve[policy][g]

Approvals == {TargetOf(g) : g \in receipt.grants}

\* Looking a name up there throws, and outside verifyReceipt's own try.
Unsearchable ==
  \E g \in receipt.grants \cap GrantNames :
    <<Parsed(receipt.payload), g>> \in Ragged

GrantsThrow ==
  /\ pc = "grants" /\ Unsearchable
  /\ pc' = "rejected"
  /\ UNCHANGED <<receipt, use, kernel, judged, out>>

ResolveGrants ==
  /\ pc = "grants" /\ ~Unsearchable
  /\ out' = [out EXCEPT !.check["grants"] = Mark(None \notin Approvals)]
  /\ pc' = "replay"
  /\ UNCHANGED <<receipt, use, kernel, judged>>

-----------------------------------------------------------------------------
\* The Ed25519 check, whoever performs it.
SignatureVerifies ==
  /\ receipt.signedBy = receipt.pubkey
  /\ receipt.signedText = receipt.payload

\* verifyConfigSignature: WebCrypto, else TweetNaCl, else nobody; without a
\* well-formed key it asks no one.
Verifier == IF receipt.pubkey = None THEN "none"
            ELSE IF "webcrypto" \in use.verifiers THEN "webcrypto"
            ELSE IF "tweetnacl" \in use.verifiers THEN "tweetnacl"
            ELSE "unavailable"

\* Nothing unbound is judged, or has its signature looked at.
Bound == out.check["binding"] = "pass" /\ out.check["grants"] = "pass"

\* 5. A line nobody can parse again: the signature is checked directly, and
\* the kernel material against itself.
CheckUnparseable ==
  /\ pc = "replay" /\ Unparseable
  /\ LET ok == Bound /\ Verifier # "unavailable" /\ SignatureVerifies
     IN  out' = [out EXCEPT
           !.signatureValid = ok,
           !.verifier = IF Bound THEN Verifier ELSE "none",
           !.freshness = IF ok THEN Epoch[Parsed(receipt.payload)] ELSE None,
           !.check["material"] = Mark(
               /\ receipt.emitted.verdict = receipt.verdict
               /\ receipt.emitted.certs = receipt.certs),
           !.check["commitment"] = Mark(
               /\ receipt.emitted.commits # None
               /\ receipt.emitted.commits = receipt.requestSha)]
  /\ pc' = "conclude"
  /\ UNCHANGED <<receipt, use, kernel, judged>>

SkipReplay ==
  /\ pc = "replay" /\ ~Unparseable /\ ~Bound
  /\ pc' = "conclude"
  /\ UNCHANGED <<receipt, use, kernel, judged, out>>

InitAccepts ==
  SignatureVerifies /\ Parsed(receipt.payload) \in Loadable

\* seal_init refuses the envelope: a bad signature, or a policy it rejects.
ReplayRefused ==
  /\ pc = "replay" /\ ~Unparseable /\ Bound /\ ~InitAccepts
  /\ out' = [out EXCEPT !.signatureValid = FALSE, !.rederiveError = "init"]
  /\ pc' = "conclude"
  /\ UNCHANGED <<receipt, use, kernel, judged>>

Judgement == [policy |-> Parsed(receipt.payload), call |-> receipt.call,
              approvals |-> Approvals]

\* The module cannot be had, or what the kernel returned cannot be read.
ReplayThrows ==
  /\ pc = "replay" /\ ~Unparseable /\ Bound
  /\ judged' \in {judged} \cup (IF InitAccepts THEN {Judgement} ELSE {})
  /\ out' = [out EXCEPT !.rederiveError = "threw"]
  /\ pc' = "conclude"
  /\ UNCHANGED <<receipt, use, kernel>>

\* Mutant of SameButCommitment: every occurrence of the token is replaced.
SameEverywhere(raw, stored) ==
  /\ raw.commits # None /\ stored.commits # None
  /\ stored = [raw EXCEPT !.commits = stored.commits,
                 !.certs = IF @ = raw.commits THEN stored.commits ELSE @]

\* The bytes agree modulo the audit's request_sha256, whose token must occur
\* once in the replayed bytes.
SameButCommitment(raw, stored) ==
  /\ raw.commits # None /\ stored.commits # None
  /\ raw.certs # raw.commits
  /\ stored = [raw EXCEPT !.commits = stored.commits]

\* Mutant of Replay: a binding or grant failure does not stop the kernel.
ReplayUnbound ==
  /\ pc = "replay" /\ ~Unparseable /\ InitAccepts
  /\ judged' = Judgement
  /\ pc' = "conclude"
  /\ UNCHANGED <<receipt, use, kernel, out>>

Replay ==
  /\ pc = "replay" /\ ~Unparseable /\ Bound /\ InitAccepts
  /\ judged' = Judgement
  /\ LET raw == Ruling[<<kernel, Parsed(receipt.payload), receipt.call,
                         Approvals>>]
         expected == IF receipt.requestSha # None THEN receipt.requestSha
                     ELSE CanonicalLine
         sameVerdict == raw.verdict = receipt.verdict
         sameBytes   == SameButCommitment(raw, receipt.emitted)
     IN  out' = [out EXCEPT
           !.signatureValid = TRUE,
           !.verifier = "kernel",
           !.freshness = Epoch[Parsed(receipt.payload)],
           !.check["verdict"] = Mark(sameVerdict),
           !.check["commitment"] = Mark(receipt.emitted.commits = expected),
           !.check["emitted"] = Mark(sameBytes),
           !.replayConsistent = sameVerdict /\ sameBytes]
  /\ pc' = "conclude"
  /\ UNCHANGED <<receipt, use, kernel>>

-----------------------------------------------------------------------------
ChecksPassed ==
  /\ \A c \in {"format", "kernel", "binding", "grants", "commitment"} :
       out.check[c] = "pass"
  /\ out.signatureValid
  /\ IF Unparseable THEN out.check["material"] = "pass"
     ELSE out.check["request"] = "pass" /\ out.replayConsistent

\* Mutant of Outcome: the document path is asked for after the pin.
OutcomeAsksDocumentLast ==
  IF out.verifier = "unavailable" THEN "crypto_unavailable"
  ELSE IF ~ChecksPassed \/ out.authority = "untrusted" THEN "failure"
  ELSE IF out.authority = "unpinned" THEN "unpinned"
  ELSE IF ~out.documentChecked THEN "unverified-document"
  ELSE IF Unparseable THEN "authorised-unparseable" ELSE "authorised"

Outcome ==
  IF out.verifier = "unavailable" THEN "crypto_unavailable"
  ELSE IF ~ChecksPassed \/ out.authority = "untrusted" THEN "failure"
  ELSE IF ~out.documentChecked THEN "unverified-document"
  ELSE IF out.authority = "unpinned" THEN "unpinned"
  ELSE IF Unparseable THEN "authorised-unparseable" ELSE "authorised"

Conclude ==
  /\ pc = "conclude"
  /\ out' = [out EXCEPT !.core = out.documentChecked /\ ChecksPassed,
                        !.outcome = Outcome]
  /\ pc' = "done"
  /\ UNCHANGED <<receipt, use, kernel, judged>>

Next ==
  \/ ValidateShape
  \/ ResolveAuthority
  \/ IdentifyKernel
  \/ DeriveRequest
  \/ BindConfig
  \/ GrantsThrow
  \/ ResolveGrants
  \/ CheckUnparseable
  \/ SkipReplay
  \/ ReplayRefused
  \/ ReplayThrows
  \/ Replay
  \/ Conclude

Spec == Init /\ [][Next]_vars

-----------------------------------------------------------------------------
\* What the receipt is, whatever was checked about it.

\* The configuration it displays is the one its signer signed, byte for byte.
SignedAndShown ==
  /\ receipt.payload = Compact(receipt.kernelConfig)
  /\ receipt.signedText = receipt.payload
  /\ receipt.signedBy = receipt.pubkey
  /\ receipt.policyHash \in {None, receipt.payload}
  /\ Epoch[receipt.kernelConfig] # None

\* Its grants mean something under that configuration.
GrantsResolve ==
  \A g \in receipt.grants \cap GrantNames :
    Resolve[receipt.kernelConfig][g] # None

GrantedTargets ==
  (receipt.grants \cap Targets)
    \cup {Resolve[receipt.kernelConfig][g] : g \in receipt.grants \cap GrantNames}

\* The audited kernel, given the displayed configuration, call and grants,
\* emits what the receipt says it emitted, except that the line it commits to
\* is the one the host put before it.
Reproduced ==
  LET raw == Ruling[<<Audited, receipt.kernelConfig, receipt.call, GrantedTargets>>]
  IN  /\ raw.verdict = receipt.verdict
      /\ raw.verdict = receipt.emitted.verdict
      /\ raw.certs = receipt.emitted.certs
      /\ raw.commits \notin {None, raw.certs}

\* The kernel's own commitment names the request of the receipt.
Committed ==
  receipt.emitted.commits = IF receipt.requestSha # None THEN receipt.requestSha
                            ELSE CanonicalLine

\* Everything the verifier's obligations ask of the receipt, the authority of
\* the signer left aside.  Of the clock they ask only what the kernel makes of
\* it: no hash covers it, so it may be any that gives the same bytes.
Genuine ==
  /\ receipt.shape = "ok" /\ ~receipt.bypass
  /\ receipt.kernelSha = Audited
  /\ SignedAndShown /\ GrantsResolve /\ Committed
  /\ IF Unparseable
     THEN /\ receipt.requestSha # None
          /\ receipt.emitted.verdict = receipt.verdict
          /\ receipt.emitted.certs = receipt.certs
     ELSE /\ receipt.canonicalSha = CanonicalLine
          /\ receipt.kernelConfig \in Loadable
          /\ Reproduced

\* It was checked with the audited kernel, and with what its check needs.
Supported ==
  /\ Genuine /\ kernel = Audited
  /\ IF Unparseable THEN use.verifiers # {} ELSE out.rederiveError # "threw"

\* The outcome says no more than the receipt supports, and no less: each
\* outcome that is not a refusal is reached exactly by the receipts that
\* deserve it (the conclusion of receipt.js 351-377 over the whole pipeline).
OutcomeIsExact ==
  pc = "done" =>
    LET pinned == use.pin = receipt.pubkey
        text   == use.form = "text"
    IN  /\ out.outcome = "authorised" <=>
             Supported /\ text /\ pinned /\ ~Unparseable
        /\ out.outcome = "authorised-unparseable" <=>
             Supported /\ text /\ pinned /\ Unparseable
        /\ out.outcome = "unpinned" <=>
             Supported /\ text /\ use.pin = None
        /\ out.outcome = "unverified-document" <=>
             Supported /\ ~text /\ (pinned \/ use.pin = None)

\* What reaches seal_decide is what the receipt displays, and was signed:
\* "no binding failure is allowed to reach seal_decide" (receipt.js 248).
JudgedIsShown ==
  judged # None =>
    /\ SignedAndShown /\ GrantsResolve
    /\ judged = [policy |-> receipt.kernelConfig, call |-> receipt.call,
                 approvals |-> GrantedTargets]

\* A parsed object never reads as a verified document, however genuine it is
\* (receipt.js 160-165 and 358-369).
ObjectCeiling ==
  use.form = "object" =>
    /\ out.outcome \notin {"authorised", "authorised-unparseable", "unpinned"}
    /\ ~out.core

\* An epoch is reported only out of a configuration whose signature was
\* verified (receipt.js 299, 316).
FreshnessIsSigned ==
  out.freshness # None =>
    SignedAndShown /\ out.freshness = Epoch[receipt.kernelConfig]
=============================================================================
