# Verification of seal-check

seal-check is a static web page that checks receipts. A visitor opens a link
that carries a receipt in its fragment, pastes one, or chooses a file. The page
re-hashes the request, replays the decision through a compiled kernel
(`wasm/seal.wasm`) whose SHA-256 is pinned in the source, checks signatures, and
says what it found. Nothing leaves the browser. What is hard about it is not
the wording of a verdict but *which document the verdict is about*: boot, links,
keystrokes, file reads, an example fetch and verifications all race to fill the
same result area, and all of them share one kernel instance that can hold one
session at a time.

## Inventory

| Part | Source | State it keeps | Operations |
| --- | --- | --- | --- |
| checker page | `app.js`, `index.html` | `LOCKED`, `SHA`, `locationRenderVersion`, `pasteTimer`, the two fields, the fragment, the result area | `boot`, `renderLocationReceiptOrExample`, `onPasteInput`, `checkPasted`, the file handlers, `renderBundledExampleReceipt`, `renderClassifiedReceiptDocument`, `renderVerifiedReceipt`, `renderSignedFamilyReceipt` |
| kernel loader | `kernel.js` | `_kernelBytesPromise`, `_modPromise`, `_shaCache`, the session inside the wasm instance | `kernelBytes`, `mod`, `ready`, `verifyKernelSha`, `decideRaw`, `decideSignedRaw`, `decideSeqRaw`, `replayProtectRaw` |
| decision receipt verification | `receipt.js` | none | `verifyReceipt` and its pipeline of checks |
| receipt format | `receipt-format.js` | none | `classifyReceiptDocument`, `validateReceipt`, `assembleReceiptV2`, canonical forms |
| Protect and Spine receipts | `protect-receipt.js`, `spine-receipt.js` | none | `verify` and `checkSpineReceipt`, two chains of checks that stop at the first that fails |
| transport | `fragment-classifier.js`, `receipt-input.js`, `receipt-decoder.js` | none | what a fragment or a pasted text denotes |
| command line | `test/verify-file.cjs` | none | one file, one exit code |
| legacy redirect | `legacy-tools-redirect.js`, `tools.html`, `index.html` | one entry in session storage, the notice | `rememberLegacyToolsNavigation`, `revealMissingLegacyToolsFragment` |
| tooltips | `tooltip.js` | `OPEN`, the class `tip-pinned`, what is hidden | the pointer, focus, click and key handlers; the tables that replace tips |
| theme | `theme.js` | one attribute | one button |
| presentation, shaping, data | `receipt-summary.js`, `page-claims.js`, `seal-config.js`, `seal-wasm.js`, `corpus.js` | none | none that change state |
| kernel, cryptography, tooling | `wasm/`, `vendor/nacl.js`, `scripts/`, `differential/`, `test/` | | external |

How they interact: `app.js` calls the verifiers, which call `kernel.js`; every
call may await, and after each await the page asks whether the generation it
works for is still the current one. `kernel.js` memoises *promises*, so that
concurrent callers share one fetch and one instantiation, and forgets them on
failure. The two exported wasm calls `seal_init` and `seal_decide` share the
instance's one session.

What each part has to get right:

- *page*: a verdict is only ever beside the text and key it is about; a pass is
  deserved; a superseded continuation leaves no trace; every request is answered;
- *loader*: one fetch and one instance; the hash that is reported is the hash of
  what runs; no decision in another caller's session; failures are not sticky;
- *verification*: the outcome is what the receipt deserves, no better and no worse;
- *format*: one document, one reading;
- *signed receipts*: "valid" exactly for what was signed as a whole under the key
  supplied, and a refusal blames what is to blame;
- *redirect*: who followed a link to a section that is gone is told so, and nobody else;
- *tooltips*: no explanation stays in the way, and a pinned one stays.

## Modules

| Module | Models | Main correspondence |
| --- | --- | --- |
| `KernelService` | what `kernel.js` promises the page | one variable that only grows from `absent` to `mismatch`, or to `hashed` and `ready` |
| `KernelLoader` | `kernel.js` | `bytes`, `module`, `sha` are the three memos; `pc[c]` is where caller c awaits; `session` and `running` are the instance's |
| `Receipts` | what routing and checking tell apart about a text | constants `Family`, `Grade`, `SignerOf`; `Judge` is the verdict, and `ShownAsJudged` in the two modules of the verifiers says that it is theirs |
| `CheckerPromise` | what the page promises its visitor | a checker that takes no time and has no timers or generations |
| `CheckerPage` | `app.js` | `version` is `locationRenderVersion`, `timer` the generation `pasteTimer` was armed for, `task[v]` the continuation that belongs to generation v |
| `ReceiptVerify` | `verifyReceipt` in `receipt.js`, the grants of `receipt-format.js` | `out` is the result object, `pc` the numbered section that comes next, `judged` what `seal_decide` was given |
| `ReceiptDocument` | `scanReceiptDocument`, `classifyReceiptDocument`, `validateReceipt` in `receipt-format.js` | `topLevel` is the scanner's map, `at` the member it reads next, `family` and `version` the two answers |
| `ReceiptConsumers` | what `app.js` and `test/verify-file.cjs` say of the result | `shown` holds the marks of the list, the table and the list of failures; `exit` the exit code |
| `SignedReceipts` | `checkSpineReceipt`, `verify` of `protect-receipt.js`, and what both programs make of the answer | `pc` is the check that comes next, `code` the refusal's, `signature` is `result.signature`; `shown` and `exit` as above |
| `Tooltip` | `tooltip.js` | `OPEN` is the module's set, `pinned` the class, `shown` the bodies not hidden; `pointer`, `focus` and `dom` are the browser's |
| `LegacyRedirect` | `legacy-tools-redirect.js` and the scripts of the two pages | `storage` is the session entry, `fragment` and `referrer` what `location` and `document` say, `notice` the text that is unhidden |
| `X_proofs` | theorems about `X`: `CheckerPage`, `KernelLoader`, `ReceiptVerify`, `ReceiptConsumers`, `ReceiptDocument`, `SignedReceipts`, `Tooltip`, `LegacyRedirect` | |
| `MCX` | instances for TLC: `MCCheckerPage`, `MCKernelLoader`, `MCReceiptConsumers`, `MCReceiptDocument`, `MCSignedReceipts`, `MCTooltip`, `MCLegacyRedirect` | |

`CheckerPage` consults the loader through `KernelService` only, and
`KernelLoader` is shown, by TLC and by proof, to implement `KernelService`;
`CheckerPage` is shown to implement `CheckerPromise`. The verifiers enter the page
as `Receipts!Judge`, a function of a text's grade, the key and the state of the
kernel; `ReceiptConsumers` and `SignedReceipts` grade each of their receipts
(`Graded`), instantiate `Receipts` for it and are shown to end in that verdict
(`ShownAsJudged`). That is how the detailed modules compose without multiplying
their states.

### How an action corresponds to code

A step is one synchronous run of JavaScript from one await or event to the
next. In `CheckerPage`, `ChangeHash` is the `hashchange` event with the whole of
`renderLocationReceiptOrExample` up to its first await; `EditBox` and `EditKey`
are `onPasteInput`; `PasteTimerFires` is the timer's `checkPasted`; `PickFile`
and `FileDone` are the two halves of the file handlers; `FetchDone` and
`VerifyDone` are what follows the example fetch and the verifiers. The helpers
(`Route`, `CheckPasted`, `RenderLocation`, ...) are the functions called in the
middle, and take the fields as they are *after* the step, because the code
assigns them first.

In `KernelLoader` the three deciders are finer: each wasm call is a step, and
`running` says which caller's synchronous run we are inside. No other step is
enabled then; that is run-to-completion, and it is what `JudgedInOwnSession` rests
on. Each wasm call may also trap or answer what cannot be parsed, and then its
caller fails and the session stays as the call left it. A memo passes through
`rejecting`, because the handler that clears it runs before those who await it
see the error.

In `ReceiptVerify` a receipt is a record of the parts that the checks compare
with one another, each of which may be anything: a hash stands for what was
hashed, a signature for its signer and its text, and a payload for the policy it
parses to together with whether it is spelt as `JSON.stringify` would. A call is
what the kernel is asked: tool, arguments and clock (`now ?? 1000`, line 308). Its
canonical line is made of the first two only (`canonicalRequest`), so `Line`
maps calls to lines and need not be injective: a receipt with another clock keeps
all its fingerprints, and is noticed only if a kernel rules differently at that
time, and that is what `OutcomeIsExact` and `ExitIsExact` say of it. The instance has two calls that differ in the clock alone, a policy under which that matters and
one under which it does not. What the kernel emits is split in three, since the code
compares it modulo one of its tokens. Each numbered section of `verifyReceipt`
is one action, in the code's order; the replay has the three ways it can end. Two
look-ups in a policy's list of tools can throw, and neither is inside a `try`
of `verifyReceipt`: the payment declaration of the field table of v2 and v3
(`FieldTableThrows`; `receipt-format.js` 106-108 and 780), which precedes the
early return for a control receipt, and that of a named grant (`GrantsThrow`). The constant
`Ragged` holds the pairs of a policy and a name for which the search throws: a list with
a `null` in it throws only if the name is not found before. `extras` says of a receipt
that its version has the first of the two.
The properties do not ask the pipeline: they are stated against `Supported`,
which says of the receipt itself, without any check, what it would have to be.

In `ReceiptDocument` a document is the sequence of its members, each with the
name it denotes, whether the name is spelt with an escape, the spelling of its
value, and whether it belongs to the root. One turn of `readObject`'s loop is a
step. `Record` is what `JSON.parse` makes of the text; `Reading` adds two other
readers, one that keeps the first of two members and one that looks for names and
numbers as they are spelt. The page classifies and then the verifier validates;
both scan the text, with one result, so the model scans once. String values are
read alike by every reader.

`ReceiptConsumers` adds the two callers. `ListMark`, `TableMark` and
`PlainFailures` are the three places where the page says what became of a check,
and `Fact` is what a tick beside it claims.

In `SignedReceipts` each check of the two verifiers is an action, in the code's
order, and refuses with its code. A receipt is a body, which may commit to other
values than it shows, and a signature over a body, which may be that of another
version. `Good` is the conjunction by which the page and the command line decide;
`Reproduced` says, without the pipeline, what a replay on the pinned kernel gives.

In `Tooltip` one step is one thing the visitor or a rendering does, with all the
events it raises: leaving a part and entering another is `mouseout` and
`mouseover`, in that order. Nodes that a rendering replaces vanish without an
event, which is why the pointer and the focus are variables and not inputs.

In `LegacyRedirect` a step is a navigation, one of the two inline scripts, or a
change to the fragment that loads nothing. The environment decides whether storage
can be written or touched at all, whether the host serves `index.html` under
another URL, whether a redirect arrives, and whether it sends a referrer.
`arrival` and `last` are history variables.

Choices and abstractions:

- A text stands for the document it denotes, so a link and the raw document are
  one value. `Family` and `Grade` are constants: the runs fix them, the proofs do
  not. Every family of the router is in the instance, and every verdict. Two grades
  are of decision receipts only: `unreplayable`, whose request nobody can parse
  again, is accepted once the kernel is *identified*, since nothing is replayed
  (`receipt.js` 289-303), so it passes in one more state of the kernel service;
  `unsearchable`, whose policy makes the look-up of a grant throw (`receipt.js`
  286), ends in an error and not in a verdict. Where the validation itself throws,
  the receipt is `illformed` to the page: an error, whatever the kernel's state.
  The page's instance has no `unsearchable` text and no ill-formed decision receipt:
  an absent kernel gives the same error, `verify_safety` has both, and the proofs have all grades.
- A page opened over `file://` is locked at once, and the browser lets it fetch
  neither the kernel nor the example (`app.js` 30): its `bootPc` is `file`, and
  what needs the kernel ends in an error there (`OverFile`, `ConsultKernel`).
- Painting is taken not to throw. `boot` awaits its own rendering inside its `try`
  (`app.js` 37-54), so an exception out of the painting of a receipt that boot was
  given would lock the page; a field of the wrong type in the unchecked parts of a
  control receipt could be a cause. Errors of the verifiers are caught before and are modelled.
- The kernel pill and `SHA` are functions of `locked`, `bootPc` and `kernel`, so
  they are not variables. What tables and banners say is reduced to the view they show
  (`content` is what `paintReceiptState` clears, `banner` what it keeps).
- Continuations of different tasks may interleave in any order. The event loop
  gives fewer orders; the safety results hold for all.
- `edit` is a history variable and no guard reads it.
- The command of a visitor costs a generation; `MaxVersion` bounds them. The
  guard `MayAct` reserves one for boot.

## Runs

| Run | Question | Instance |
| --- | --- | --- |
| `page_safety` | is what is shown about what the fields hold, and is it deserved? does the page implement `CheckerPromise`? is every request answered or superseded? | 9 texts, 2 keys, 3 generations |
| `loader_safety` | do concurrent callers share one kernel without confusion? does the loader implement `KernelService`? does every call end, and is failure forgotten? | 2 callers, 2 binaries |
| `verify_safety` | does an outcome, a mark or an exit code ever say more, or less, than the receipt deserves? is the headline what the page's model takes it for? | 10 original receipts with up to two parts changed to anything else, 7 uses, 2 kernels, 4 policies |
| `document_safety` | can one document be read, routed or accepted as two things? | every document of up to 3 members out of 32, as a text and as an object |
| `signed_safety` | is a Spine or Protect receipt called valid exactly when it was signed as a whole and reproduced, and is the right thing blamed? is the verdict what the page's model takes it for? | 16 original receipts with up to two parts of the body changed before or after signing, 3 keys, 3 kernels |
| `tooltip_safety` | can an explanation be left that no event hides, or a pinned one vanish? | 3 tips (symmetric) |
| `redirect_safety` | is a missing section told to whom asked for it, and to nobody else? | 4 fragments, none and a bare `#`; storage that works, cannot be written or is denied; the host moved or not |
| `verify_ticks`, `verify_failures` | two statements about marks that the code does not keep | as `verify_safety` |
| `page_banner`, `page_typed`, `page_locked` | three statements of the source that the code does not keep | 4 texts, 2 keys, 3 generations |

Three generations are enough for a superseded task, the current task that
superseded it, and boot's own render between them; the proofs below remove
that bound and the bounds on texts and keys. The texts cover every route and every
outcome: a genuine, a tampered, a control and an unreplayable decision receipt, a
Spine and a Protect receipt, a text of another format, one that is too large and
refused, and the empty one. A wrong key and a blank one are refused alike, so
one stands for both. Two callers are enough
for one to fail, wait or decide while the other is in any of its places, and
the proofs are for any number of them; two binaries let the server
change its answer. Three tips are one pinned, one hovered and one replaced by a
rendering. The four fragments are an id of both pages, one that has gone, one
whose namesake on `index.html` is something else, and that one's replacement; two of
a kind would behave alike, since the code compares a fragment only with the ids of
the page and with the memory. `CheckerPage` may stop
(the visitor has no further wish, or the bound is reached), so its runs do not
check deadlock, and a verification or a scan ends, so the `verify`, `signed`
and `document` runs do not check it either. `KernelLoader`, `Tooltip` and
`LegacyRedirect` never stop, and their runs check it.

The receipts of the `verify` runs are what a producer writes (with and without
approval, with a wire line of its own, without an epoch, under a policy the
kernel rejects, with audit material that quotes the request a second time, with
an unreadable request, with the gate off, of version 1 and of later ones, with and
without a gate under a policy whose tools cannot be searched) and everything that differs from
one of them in one or two parts, within what the field table lets through. Two
changes are what it takes to make one check agree with a tampered part while
another should notice. The proofs cover every receipt.

What the page properties say: `ShownResultIsOfFields` (the verdict is about the
text and key on the screen), `PassIsEarned` (a pass is what an honest check
gives now, with the kernel verified), `SignerControlsFollowResult`,
`EditStands` (typed text is not replaced by something begun earlier),
`SupersededIsInert` (an old timer or continuation changes nothing visible, not
even by an error), `ImplementsPromise`, `EveryRequestAnswered`. The loader's:
`SingleFlight`, `HashedIsRunning`, `JudgedInOwnSession`, `ReplayRunsPinned`,
`ImplementsService`, `EveryCallSettles`, `FailureIsForgotten`. The verifier's:
`OutcomeIsExact` (each accepting outcome is reached exactly by the receipts that
deserve it), `JudgedIsShown` (the kernel is asked about what is displayed and
signed, and nothing else), `ObjectCeiling`, `FreshnessIsSigned`,
`ResultTicksAreTrue`, `NoFailureHidden`, `ExitIsExact`, `ShownAsJudged` (the
headline follows from the receipt's grade and the state of the kernel alone, and a
receipt that is said not to need the kernel never asks for it). The document's:
`OneVersion` (an accepted text claims one version under every reading),
`NoDowngrade` (what anyone could take for v3 has its signature verified),
`RoutedByEveryReading`, `HonestIsRead` (no plain document is refused). Three members are
enough for a host record (two discriminators) with one of them repeated or
another family beside them. The signed receipts': `SignedIsExact` and
`BlameIsRight` (the signature is blamed only when the document is of one piece, the
kernel's answer only when no signature was wrong), and their `ShownAsJudged`. The tooltips': `NoneStuck` (what is shown
can be dismissed and has a reason to be shown) and `PinStands`. The redirect's:
`MissingIsTold` and `NoticeIsDue`, which leave out reloads (see below).

### Fairness

`CheckerPage` assumes that the event loop runs: while boot, the timer or a task can
move, one of them does in the end (weak fairness of their disjunction, not of each).
Timers fire and promises settle, by a result or an error; which first is open. A
generation that something newer supersedes need not be answered, so
no more is needed, and no more is assumed. The visitor
owes nothing. `KernelLoader` assumes that a request and an instantiation end, one
way or the other, and that a continuation which becomes able to run again and
again does run (strong fairness, since `Idle` is false during another caller's
wasm calls; the job queue is first in, first out).
`FailureIsForgotten` is conditional: *if* the network does not fail for ever,
instantiation does not fail for ever and the visitor keeps coming back, the
kernel gets loaded.

### What the code does not keep

- `paintReceiptState` (`app.js` 253) leaves the headline, its class and the list
  of failures. While a new text is debounced and verified, and for good when a
  locked page refuses it, the previous verdict's headline stands above it. The
  comment at 257 promises the opposite for every mutable field.
- A text typed while the kernel loads is overwritten when boot renders the
  location (`app.js` 44), although the comment at 649 says that window is closed.
- On a page that boot locked because the kernel's hash is not the pinned one
  ("receipts disabled", `app.js` 48), the paste route refuses and the fragment route
  (`app.js` 525) does not: following a link gives a verdict on a document which the
  box refuses. The verdicts it shows are still the deserved ones
  (`PassIsEarned` holds on locked pages too), but 554 says that both routes are
  treated alike.
- A control receipt is ticked for "request bytes match the receipt's
  fingerprint" (`app.js` 332), which nothing compared: `verifyReceipt` returns
  before it derives a hash, and the field table looks only at the fingerprint's shape.
- `signature_valid` is `false` from the start. When the binding or a grant failed,
  nobody looks at the signature; the table says so, and the list of failures
  (`app.js` 96) tells the visitor that something was changed after signing. The
  comment at 86-88 promises that what did not apply is never listed.

Each of these has a run. Four more observations have none, and the
properties of `LegacyRedirect` are stated so that they do not depend on them:

- `tools.html` 17 and `index.html` 202 pass `sessionStorage` as an argument. Where
  storage is denied the getter throws before the callee's `try` is entered, so the
  script of `tools.html` dies before `location.replace`, although the comment at
  `legacy-tools-redirect.js` 45 names the referrer as the fallback for
  that case. The model has it (`RunTools`, `RevealDies`): nobody is redirected.
- A reloaded page keeps its referrer. After a redirect, a change of the fragment and a
  reload, the notice is about a fragment that no legacy link named.
- The memory of a redirect that was lost on the network is consumed by the next
  visit to the same URL in that tab (`NoticeIsDue` allows it as `late`).
- Without storage a bare `#` cannot be told from no fragment, so its notice is
  not shown (`MissingIsTold` asks for it only while storage works).

Also, `LEGACY_TOOLS_ANCHOR_TARGETS[oldId] ?? oldId` (line 36) finds the names that every
object inherits; no link of the former page has such a name, and the model's table
is a plain function.

## Proofs

All theorems are for any finite set of callers, any binaries, any texts, keys
and families, any `MaxVersion`, any receipts, policies and kernel, documents of any
length, any tips and any fragments; they assume
only the named assumptions `TextsAssumption`, `PageAssumption`,
`LoaderAssumption`, `VerifyAssumption`, `InputAssumption`, `DocumentAssumption`,
`SignedAssumption`, `TipAssumption` and `RedirectAssumption`, which say of what
kind the constants are and that the markers of absence are no values.

*Page.* The inductive invariant `IInv` adds to the types: a pending task, timer or
boot belongs to a generation already begun (so a fresh generation is free); the
task that verifies *for the current generation* carries the text that is in the box
and the key that was read; and a shown verdict is the one `Judge` gives. The
third is the crux: the guard after each await compares generations, and a
comparison of generations only tells something about texts because every change of a field
starts a generation. From it follow `TypeCorrect`, `ShownResultSafe`,
`PassSafe`, `SignerControlsSafe`, `SupersededSafe` and the refinement
`PageImplementsPromise`. `EditStandsSafe` needs one thing more, `EditKept`: in the
generation that a keystroke began there is no continuation of the two kinds that
write into the box (`MayReplaceBox`), because the ways such a continuation begins
all begin a generation of their own.

The refinement is worth as much as the abstract specification. `PromiseIsStrong`
proves of `CheckerPromise` alone that whatever keeps it shows only verdicts about
the fields and only deserved passes, and `PageUsesService` that the page uses the
kernel as `KernelService` allows, which is what `LoaderImplementsService` proves
the loader to provide. `NothingForgottenSafe` is the safety half of
`EveryRequestAnswered`: in every state in which the newest generation has neither a
verdict nor an error, nor is refused by a locked page, its timer is armed or its
continuation is pending. Each way to start a generation arms something
or answers at once (`RouteTells` and its companions, one per helper), and only
the continuation itself or a newer generation ends it. Together with fairness,
what is left to model checking is that pending things are not postponed for ever.

*Loader.* `LInv` adds: a request is in flight exactly while its memo is pending;
whatever was made from the bytes was made from the bytes that are kept; the
caller in its wasm run owns the session; a verdict was made in its caller's own
session, on the finished module; a replay past its identity check saw the pinned
digest. From it follow `LoaderTypeCorrect`, `SingleFlightSafe`,
`HashedIsRunningSafe`, `JudgedInOwnSessionSafe`, `ReplayRunsPinnedSafe` and the
refinement `LoaderImplementsService`. `NobodyIsStrandedSafe` is the safety half of
`EveryCallSettles`: who awaits the bytes or the module awaits a memo that is
still to be settled, or has been and is not cleared under them. The invariant behind
it, `MemosStand`, holds because a memo passes through `rejecting`: the step that clears
it is the step that tells those who hold it.

*Verification.* `VInv` says, for each place in the pipeline, what every section
passed so far has left in the result, as a function of the receipt and the
kernel alone (`FormatDone`, `AuthorityDone`, ..., and for the replay one of
`ReadDirectly`, `NotReplayed`, `WasReplayed`). That removes the pipeline; what
is left is that the conjunction of the checks means `Supported`. The heart is
`BoundMeaning`: once the five comparisons of the binding agree, payload,
displayed configuration and grants determine one another, so the kernel is
asked about what the visitor sees, its clock included; and `SubstitutionMeaning`: the comparison
modulo the commitment is equality of everything else. From it follow
`JudgedIsShownSafe`, `FreshnessSafe`, `ObjectCeilingSafe` and `OutcomeExact`.

*Command line and page.* `EInv` adds that a set exit code is that of a settled result,
which no longer moves; `ExitExact` follows from `OutcomeExact`'s lemma. `CInv`
says the same of the page: what is shown is the rendering of the settled
result. `ResultTicksSafe` then goes topic by topic: a tick needs a
check that was passed (`MarkedIsConcluded`), and `VInv` says what a passed check
means. That needs `VInv` also to say that a check *not* reached is still
in its first state, which is where a page that reads results in another order than the
verifier wrote them could go wrong. `NoFailureHiddenSafe` follows because an
acceptance leaves no check failed.

`DecisionShownAsJudged` closes the circle to the page: the headline is what
`Receipts!Judge` gives for the receipt's grade. Its invariant `Reached` says
from where on the kernel may have been asked for, and only for a mediated receipt, and
that a look-up that throws ends the check at once, with the exception every caller shows
as an error: a control receipt too, when the field table throws. `Genuine` is
`Supported` (the signed parts agree, and the audited kernel decides the displayed call
again as displayed) without the circumstances of the check (the kernel that was fetched, the
verifiers at hand), which is what a grade may depend on. One answer of the
environment is left in it: an answer of the kernel that cannot be read
(`rederiveError`) reproduces nothing, so its receipt counts as `tampered`.
`ConsumersVerify` says that the page and the command line only ever do what
`verifyReceipt` does, so that what is proved of it alone holds inside them.

*Document.* `MapIsExact` says of every name what the scanner's map says of it after
each member, for documents of any length. So where the scan is passed a
discriminator stands at one place, plainly spelt (`OnePlace`), and all readers find the
same value there (`ReadingsAgree`); `OneVersionSafe`, `NoDowngradeSafe`, `RoutedSafe`
and `HonestIsReadSafe` follow. The last also needs the converse: a
document that no reader could take for two things is not refused.

*Signed receipts.* `SpineKnown` and `ProtectKnown` list what the checks before each
place have established; at the end of each chain that is all of `Deserves`,
and the refusal at each place gives its contrary (`Answered`).
`SignedShownAsJudged` follows, since `Deserves` splits into what the receipt is
(`Graded`), the key (`Verifies`) and the kernel.

*Tooltips.* `Kept` orders the three sets (pinned, shown, `OPEN`) by inclusion;
`Justified` gives each shown body a reason. Both need that pointer and focus
are on tips that exist (`Present`), because a rendering takes tips away without an event.

*Redirect.* `MemoryIsPending` ties the stored entry to the last request that is still
unanswered, and `Arrived` says what the script of `index.html` finds after each kind
of arrival.

Only model-checked: the three liveness properties (`EveryRequestAnswered`,
`EveryCallSettles`, `FailureIsForgotten`), since proofs under fairness are out
of the prover's reach; of the first two the safety half is proved, as said above.
Every invariant and every action property of the passing
runs is proved.

## Not modelled

- *The compiled kernel, its glue and `vendor/nacl.js`* are external: the models use
  what `kernel.js` and the verifiers rely on. SHA-256 is treated as the identity of
  what it digests; its padding arithmetic is bit-level and is left to the
  tests that compare it with SubtleCrypto.
- *base64url and UTF-8 decoding* (`receipt-decoder.js`, `fragment-classifier.js`)
  are pure functions of one text. Their boundaries are exact string lengths, which
  texts as values do not have; whether a text decodes is part of its family.
- *The field table and the v3 envelope* of `receipt-format.js` enter as one truth
  value each (`shape`, `body`, `signed`): they look at one field after the other
  and at nothing a previous step left behind. Canonical forms enter as what they denote.
- *Summaries, page claims, the theme, configuration shaping, sample data, the
  release and drift scripts and the tests* keep no state that several steps could
  disagree about. `receipt-summary.js` words a result that is already settled.
