----------------------------- MODULE CheckerPage -----------------------------
(***************************************************************************)
(* The page of seal-check (app.js): one box, one signer key, one result    *)
(* area, and everything that races to fill it.  Boot verifies the kernel   *)
(* and then renders the location; a live fragment change renders it again; *)
(* an edit of either field restarts a 300 ms timer; a file is read         *)
(* asynchronously; an example is fetched; a verification awaits.  What     *)
(* keeps them apart is one generation counter, locationRenderVersion.      *)
(*                                                                         *)
(* A step is one synchronous run of JavaScript, from one await (or event)  *)
(* to the next.  The continuation that waits for generation v is task[v].  *)
(***************************************************************************)
EXTENDS Integers, Receipts

CONSTANTS
  Example,     \* the bundled example document
  Oversized,   \* the texts longer than MAX_RECEIPT_INPUT_BYTES
  MaxVersion   \* bound: how many renders, edits and file picks a run makes

ASSUME PageAssumption ==
  /\ Example \in Texts
  /\ Family[Example] = "decision"
  /\ Oversized \subseteq Texts \ {NoText}
  /\ MaxVersion \in Nat \ {0}

VARIABLES
  locked,         \* LOCKED
  bootPc,         \* where boot() waits
  kernel,         \* what kernel.js has established so far
  hash,           \* location.hash
  box,            \* paste-input
  signerKey,      \* signer-key
  signerVisible,  \* signer-controls is not hidden
  version,        \* locationRenderVersion
  timer,          \* the generation pasteTimer was armed for, 0 for none
  task,           \* generation -> the continuation that waits for it
  content,        \* the fields paintReceiptState clears
  banner,         \* headline, class and failure list, which it keeps
  pasteError,     \* paste-error says that the kernel is not verified
  edit            \* history: the text last typed, and the newest generation
                  \* at which nothing but that text was asked for

fields == <<box, signerKey>>
screen == <<signerVisible, content, banner, pasteError>>
vars == <<locked, bootPc, kernel, hash, fields, version, timer, task, screen,
          edit>>

Kernel == INSTANCE KernelService

Versions  == 1 .. MaxVersion
BootPcs   == {"hashing", "readying", "done", "file"}
\* "absent": no fragment; "anchor": names a section; "broken": no document can
\* be decoded from it; a text: #receipt= carries it.
Fragments == {"absent", "anchor", "broken"} \X {NoText}
               \cup {"receipt"} \X Texts

TaskPcs == {"idle", "fetching", "readingReceipt", "readingKey", "verifying"}
Task(pc, t, k) == [pc |-> pc, doc |-> t, key |-> k]
Tasks == [pc : TaskPcs, doc : Texts, key : Keys]
Idle  == Task("idle", NoText, NoKey)

NoEdit == [at |-> 0, text |-> NoText]

TypeOK ==
  /\ locked \in BOOLEAN
  /\ bootPc \in BootPcs
  /\ kernel \in Kernel!KernelStates
  /\ hash \in Fragments
  /\ box \in Texts
  /\ signerKey \in Keys
  /\ signerVisible \in BOOLEAN
  /\ version \in 0 .. MaxVersion
  /\ timer \in 0 .. MaxVersion
  /\ task \in [Versions -> Tasks]
  /\ content \in Views
  /\ banner \in Views
  /\ pasteError \in BOOLEAN
  /\ edit \in [at : 0 .. MaxVersion, text : Texts]

-----------------------------------------------------------------------------
\* init() has wired the handlers and run boot() up to its first await.  A page
\* opened over file:// is locked there and then, and can fetch nothing.
Init ==
  /\ \/ locked = FALSE /\ bootPc = "hashing"
     \/ locked = TRUE  /\ bootPc = "file"
  /\ kernel = "absent"
  /\ hash \in Fragments
  /\ box = NoText
  /\ signerKey = NoKey
  /\ signerVisible = FALSE
  /\ version = 0
  /\ timer = 0
  /\ task = [v \in Versions |-> Idle]
  /\ content = Blank
  /\ banner = Blank
  /\ pasteError = FALSE
  /\ edit = NoEdit

-----------------------------------------------------------------------------
\* Over file:// the browser blocks every fetch: the kernel's, the example's.
OverFile == bootPc = "file"

\* What a caller of kernel.js may find.
ConsultKernel ==
  kernel' \in IF OverFile THEN {kernel} ELSE Kernel!Consult(kernel)

\* boot() may still render the location.
Booting == bootPc \in {"hashing", "readying"}

\* Helpers: each names what becomes of the variables it is about.

IsCurrent(v) == v = version

\* The presentation fields are cleared; the banner is not among them.
PaintReceiptState == content' = Blank /\ UNCHANGED banner

ShowReceiptError == content' = Failure /\ banner' = Failure

ShowResult(r) == content' = r /\ banner' = r

Wait(v, t)  == task' = [task EXCEPT ![v] = t]
Retire(v)   == Wait(v, Idle)

\* renderClassifiedReceiptDocument, for generation v, with the key field as it
\* is after the step: a verifiable document is cleared for and awaited, any
\* other is refused.
RouteVerifiable(v, t) ==
  /\ Verifiable(t)
  /\ PaintReceiptState
  /\ Wait(v, Task("verifying", t, KeyRead(t, signerKey')))

RouteRefused(v, t) ==
  /\ ~Verifiable(t)
  /\ ShowReceiptError
  /\ Retire(v)

\* Mutant of Route: signer-controls is left as the last document set it.
RouteKeepsControls(v, t) ==
  /\ UNCHANGED signerVisible
  /\ RouteVerifiable(v, t) \/ RouteRefused(v, t)

Route(v, t) ==
  /\ signerVisible' = Signed(t)
  /\ RouteVerifiable(v, t) \/ RouteRefused(v, t)

\* checkPasted, past its test of currency, on the box as it is after the step.
RefuseText(v) ==
  /\ box' \in Oversized \/ Family[box'] = "unreadable"
  /\ ShowReceiptError
  /\ pasteError' = FALSE
  /\ Retire(v)
  /\ UNCHANGED signerVisible

RefuseLocked(v) ==
  /\ box' \notin Oversized /\ Family[box'] # "unreadable"
  /\ locked
  /\ PaintReceiptState
  /\ pasteError' = TRUE
  /\ Retire(v)
  /\ UNCHANGED signerVisible

RouteText(v) ==
  /\ box' \notin Oversized /\ Family[box'] # "unreadable"
  /\ ~locked
  /\ pasteError' = FALSE
  /\ Route(v, box')

CheckPasted(v) == RefuseText(v) \/ RefuseLocked(v) \/ RouteText(v)

\* renderLocationReceiptOrExample, on the fragment as it is after the step.
RenderExample(v) ==
  /\ hash'[1] \in {"absent", "anchor"}
  /\ PaintReceiptState
  /\ Wait(v, Task("fetching", NoText, NoKey))
  /\ UNCHANGED <<box, signerVisible>>

\* Mutant of RefuseFragment: without "?? \"\"" the box is assigned undefined.
RefuseFragmentUndefined(v) ==
  /\ \/ hash'[1] = "broken"
     \/ hash'[1] = "receipt" /\ Family[hash'[2]] \in {"unreadable", "malformed"}
  /\ box' = IF hash'[1] = "broken" THEN "undefined" ELSE hash'[2]
  /\ ShowReceiptError
  /\ Retire(v)
  /\ UNCHANGED signerVisible

RefuseFragment(v) ==
  /\ \/ hash'[1] = "broken"
     \/ hash'[1] = "receipt" /\ Family[hash'[2]] \in {"unreadable", "malformed"}
  /\ box' = hash'[2]
  /\ ShowReceiptError
  /\ Retire(v)
  /\ UNCHANGED signerVisible

RouteFragment(v) ==
  /\ hash'[1] = "receipt"
  /\ Family[hash'[2]] \notin {"unreadable", "malformed"}
  /\ box' = hash'[2]
  /\ Route(v, box')

RenderLocation ==
  /\ version' = version + 1
  /\ UNCHANGED <<signerKey, timer, pasteError>>
  /\ \/ RenderExample(version')
     \/ RefuseFragment(version')
     \/ RouteFragment(version')

-----------------------------------------------------------------------------
\* boot()

BootLocks ==
  /\ locked' = TRUE
  /\ bootPc' = "done"
  /\ UNCHANGED <<hash, fields, version, timer, task, screen, edit>>

\* verifyKernelSha settles: a failure and a mismatch both lock the page.
BootHashed ==
  /\ bootPc = "hashing"
  /\ kernel' \in Kernel!Consult(kernel)
  /\ \/ kernel' \in {"absent", "mismatch"} /\ BootLocks
     \/ /\ kernel' \in {"hashed", "ready"}
        /\ bootPc' = "readying"
        /\ UNCHANGED <<locked, hash, fields, version, timer, task, screen, edit>>

\* ready() settles: the location is rendered, or the page is locked.
BootReady ==
  /\ bootPc = "readying"
  /\ kernel' \in Kernel!Consult(kernel)
  /\ \/ kernel' # "ready" /\ BootLocks
     \/ /\ kernel' = "ready"
        /\ bootPc' = "done"
        /\ UNCHANGED <<locked, hash, edit>>
        /\ RenderLocation

-----------------------------------------------------------------------------
\* The visitor.  The bound leaves boot the generation it may still need.

MayAct == version + (IF Booting THEN 1 ELSE 0) < MaxVersion

ChangeHash(h) ==
  /\ MayAct
  /\ h # hash
  /\ hash' = h
  /\ edit' = NoEdit
  /\ RenderLocation
  /\ UNCHANGED <<locked, bootPc, kernel>>

\* Mutant of OnPasteInput: the old presentation stays until the timer fires.
OnPasteInputKeepsResult ==
  /\ version' = version + 1
  /\ UNCHANGED <<content, banner>>
  /\ timer' = version'
  /\ UNCHANGED <<locked, bootPc, kernel, hash, task, signerVisible, pasteError>>

\* Mutant of OnPasteInput: the timer is armed for the generation before.
OnPasteInputArmsOld ==
  /\ version' = version + 1
  /\ PaintReceiptState
  /\ timer' = version
  /\ UNCHANGED <<locked, bootPc, kernel, hash, task, signerVisible, pasteError>>

\* onPasteInput, wired to both fields.
OnPasteInput ==
  /\ version' = version + 1
  /\ PaintReceiptState
  /\ timer' = version'
  /\ UNCHANGED <<locked, bootPc, kernel, hash, task, signerVisible, pasteError>>

EditBox(t) ==
  /\ MayAct
  /\ t # box
  /\ box' = t
  /\ edit' = [at |-> version + 1, text |-> t]
  /\ OnPasteInput
  /\ UNCHANGED signerKey

\* A newer generation that leaves the typed text alone.
KeepEdit ==
  edit' = IF edit # NoEdit /\ edit.at = version
          THEN [edit EXCEPT !.at = version + 1]
          ELSE edit

EditKey(k) ==
  /\ MayAct
  /\ signerVisible
  /\ k # signerKey
  /\ signerKey' = k
  /\ KeepEdit
  /\ OnPasteInput
  /\ UNCHANGED box

\* A file is chosen: whatever was pending is invalidated, but what is shown
\* stays until the file has been read.  Too large a file is refused at once.
PickFile(pc) ==
  /\ MayAct
  /\ pc = "readingKey" => signerVisible
  /\ version' = version + 1
  /\ timer' = 0
  /\ \/ /\ Wait(version', Task(pc, NoText, NoKey))
        /\ UNCHANGED <<content, banner>>
     \/ /\ ShowReceiptError
        /\ UNCHANGED task
  /\ IF pc = "readingKey" THEN KeepEdit ELSE edit' = NoEdit
  /\ UNCHANGED <<locked, bootPc, kernel, hash, fields, signerVisible, pasteError>>

-----------------------------------------------------------------------------
\* What the event loop completes.

PasteTimerFires ==
  /\ timer # 0
  /\ timer' = 0
  /\ UNCHANGED <<locked, bootPc, kernel, hash, fields, version, edit>>
  /\ \/ IsCurrent(timer)  /\ CheckPasted(timer)
     \/ ~IsCurrent(timer) /\ UNCHANGED <<task, screen>>

\* A continuation of a superseded generation returns without a trace.
Superseded(v) ==
  /\ ~IsCurrent(v)
  /\ Retire(v)
  /\ UNCHANGED <<fields, screen>>

\* Mutant of FetchDone: the example is shown without asking whether the page
\* still wants it.
FetchDoneUnguarded(v) ==
  /\ task[v].pc = "fetching"
  /\ box' = Example
  /\ UNCHANGED <<signerKey, pasteError>>
  /\ Route(v, Example)
  /\ UNCHANGED <<locked, bootPc, kernel, hash, version, timer, edit>>

FetchDone(v) ==
  /\ task[v].pc = "fetching"
  /\ \/ Superseded(v)
     \/ /\ IsCurrent(v)
        /\ ShowReceiptError
        /\ Retire(v)
        /\ UNCHANGED <<fields, signerVisible, pasteError>>
     \/ /\ IsCurrent(v) /\ ~OverFile
        /\ box' = Example
        /\ UNCHANGED <<signerKey, pasteError>>
        /\ Route(v, Example)
  /\ UNCHANGED <<locked, bootPc, kernel, hash, version, timer, edit>>

\* The bytes of a chosen file arrive: a read or decoding error is shown, a text
\* goes into its field and is checked in the same run.
FileUnreadable(v) ==
  /\ IsCurrent(v)
  /\ ShowReceiptError
  /\ Retire(v)
  /\ UNCHANGED <<fields, signerVisible, pasteError>>

FileRead(v) ==
  /\ IsCurrent(v)
  /\ \/ /\ task[v].pc = "readingReceipt"
        /\ box' \in Texts \ Oversized
        /\ UNCHANGED signerKey
     \/ /\ task[v].pc = "readingKey"
        /\ signerKey' \in Keys
        /\ UNCHANGED box
  /\ CheckPasted(v)

FileDone(v) ==
  /\ task[v].pc \in {"readingReceipt", "readingKey"}
  /\ Superseded(v) \/ FileUnreadable(v) \/ FileRead(v)
  /\ UNCHANGED <<locked, bootPc, kernel, hash, version, timer, edit>>

\* Mutant of ShowOutcome: no generation is consulted after the await.
ShowOutcomeUnguarded(v) ==
  LET t == task[v].doc
      k == task[v].key
  IN /\ \/ Unjudgeable(t, kernel') /\ ShowReceiptError
        \/ ~Unjudgeable(t, kernel') /\ ShowResult(Result(t, k, Judge(t, k, kernel')))
     /\ Retire(v)
     /\ UNCHANGED <<fields, signerVisible, pasteError>>

\* Mutant of ShowOutcome: the catch branch forgets the test of currency.
ShowOutcomeLateError(v) ==
  LET t == task[v].doc
      k == task[v].key
  IN /\ \/ Unjudgeable(t, kernel') /\ ShowReceiptError
        \/ /\ IsCurrent(v)
           /\ ~Unjudgeable(t, kernel')
           /\ ShowResult(Result(t, k, Judge(t, k, kernel')))
     /\ Retire(v)
     /\ UNCHANGED <<fields, signerVisible, pasteError>>

\* A verification settles.  It may be the one that learns about the kernel,
\* current or not.
ShowOutcome(v) ==
  LET t == task[v].doc
      k == task[v].key
  IN /\ IsCurrent(v)
     /\ \/ Unjudgeable(t, kernel') /\ ShowReceiptError
        \/ ~Unjudgeable(t, kernel') /\ ShowResult(Result(t, k, Judge(t, k, kernel')))
     /\ Retire(v)
     /\ UNCHANGED <<fields, signerVisible, pasteError>>

VerifyDone(v) ==
  /\ task[v].pc = "verifying"
  /\ IF NeedsKernel(task[v].doc) THEN ConsultKernel ELSE UNCHANGED kernel
  /\ Superseded(v) \/ ShowOutcome(v)
  /\ UNCHANGED <<locked, bootPc, hash, version, timer, edit>>

-----------------------------------------------------------------------------
Visitor ==
  \/ \E h \in Fragments : ChangeHash(h)
  \/ \E t \in Texts : EditBox(t)
  \/ \E k \in Keys : EditKey(k)
  \/ PickFile("readingReceipt")
  \/ PickFile("readingKey")

Settle(v) == FetchDone(v) \/ FileDone(v) \/ VerifyDone(v)

Boot == BootHashed \/ BootReady

Next ==
  \/ Boot
  \/ PasteTimerFires
  \/ \E v \in Versions : Settle(v)
  \/ Visitor

\* The event loop does not stop while a timer can fire or a promise settle;
\* which comes first is open, and the visitor owes nothing.
Fairness == WF_vars(Boot \/ PasteTimerFires \/ \E v \in Versions : Settle(v))

Spec == Init /\ [][Next]_vars
FairSpec == Spec /\ Fairness

-----------------------------------------------------------------------------
\* Safety

\* The verdict in the result area is about the document in the box and, for a
\* family checked under a key, about the key in the signer field: no edit,
\* link, file, fetch or late verification can leave one beside the other's
\* text.  (What the generation guard of app.js 525-552 and 648-656 is for.)
ShownResultIsOfFields ==
  content.kind = "result" =>
    /\ content.doc = box
    /\ content.key = KeyRead(box, signerKey)

\* A pass on the screen is one the fields deserve now: the document is genuine,
\* the key field holds its signer, and, where the family is replayed, the
\* kernel that replayed it is the pinned one, also on a page that is locked.
PassIsEarned ==
  content.verdict = "pass" => Passes(box, signerKey, kernel)

\* The signer controls are there exactly when the verdict shown depends on
\* them, so that the visitor can always supply the key a refusal asks for.
SignerControlsFollowResult ==
  content.kind = "result" => signerVisible = Signed(box)

\* A text the visitor typed stands until something newer is asked for: no
\* fetch, file or verification begun before it replaces it.
EditStands == edit.at = version /\ edit # NoEdit => box = edit.text

\* A continuation or a timer of a superseded generation changes nothing the
\* visitor sees, not even by an error message.
SupersededIsInert ==
  [][ /\ version' = version
      /\ \/ timer # 0 /\ timer' = 0 /\ timer < version
         \/ \E v \in Versions : v < version /\ task'[v] # task[v]
      => UNCHANGED <<fields, screen>> ]_vars

\* The page, with all its races, shows what an immediate check would.
Promise == INSTANCE CheckerPromise
ImplementsPromise == Promise!Spec

-----------------------------------------------------------------------------
\* Liveness

\* The page has dealt with what it was last asked: it shows a verdict or an
\* error, or says that it refuses because the kernel is not verified.
Answered ==
  /\ timer = 0
  /\ version # 0 => task[version] = Idle
  /\ content # Blank \/ pasteError

\* Every edit, fragment and file is answered or superseded by a newer one: no
\* invalidation leaves the page blank with nothing under way.
EveryRequestAnswered ==
  \A v \in Versions : (version = v) ~> (version > v \/ Answered)

-----------------------------------------------------------------------------
\* What the page's own comments say and its code does not do.

\* app.js 257-260: every mutable field is cleared at the boundary, so that no
\* earlier presentation is retained: the headline, too, is about the document
\* in the box.
BannerIsOfFields == banner.kind = "result" => banner.doc = box

\* app.js 649-651: an old fetch cannot overwrite newer pasted content.
TypedTextStays == edit # NoEdit => box = edit.text

\* app.js 21, 48: a page that refused its kernel refuses receipts, whatever
\* route they take.
LockedShowsNoNewVerdict ==
  [][locked /\ kernel = "mismatch" /\ content'.kind = "result"
       => content' = content]_vars
=============================================================================
