------------------------- MODULE CheckerPage_proofs -------------------------
(***************************************************************************)
(* Proofs about CheckerPage, for any texts, keys and number of             *)
(* generations.  The safety invariants are not inductive: a stale verdict  *)
(* is kept off the screen only because of what is true of the one          *)
(* continuation that may still paint, the current generation's.  IInv says *)
(* what that is.                                                           *)
(***************************************************************************)
EXTENDS CheckerPage, TLAPS

\* No continuation belongs to a generation that has not begun.
PendingHasBegun == \A v \in Versions : task[v] # Idle => v <= version

TimerHasBegun == timer <= version

\* The bound on generations leaves room for the one boot() may still begin.
BootHasRoom == Booting => version < MaxVersion

\* The verification the page still waits for is about the fields as they are,
\* and nothing is shown beside it.
CurrentCheckIsOfFields ==
  version # 0 /\ task[version].pc = "verifying" =>
    /\ task[version] = Task("verifying", box, KeyRead(box, signerKey))
    /\ Verifiable(box)
    /\ content = Blank
    /\ signerVisible = Signed(box)

\* A verdict shown is about the fields, deserved, and has its controls.
ShownVerdict ==
  content.kind = "result" =>
    /\ Verifiable(box)
    /\ content.doc = box
    /\ content.key = KeyRead(box, signerKey)
    /\ signerVisible = Signed(box)
    /\ content.verdict = "pass" => Passes(box, signerKey, kernel)

IInv ==
  /\ TypeOK
  /\ PendingHasBegun
  /\ TimerHasBegun
  /\ BootHasRoom
  /\ CurrentCheckIsOfFields
  /\ ShownVerdict

-----------------------------------------------------------------------------
\* What is on the screen is a view; an error is no verdict, and only a verdict
\* can be a pass.
LEMMA ViewFacts ==
  /\ Blank \in Views /\ Failure \in Views
  /\ Blank.kind = "blank" /\ Failure.kind = "error"
  /\ \A t \in Texts, k \in Keys, j \in PageVerdicts :
       /\ Result(t, k, j) \in Views
       /\ Result(t, k, j).kind = "result"
       /\ Result(t, k, j).doc = t
       /\ Result(t, k, j).key = k
       /\ Result(t, k, j).verdict = j
  /\ \A w \in Views : w.verdict = "pass" => w.kind = "result"
<1>1. Blank \in Views /\ Failure \in Views
  BY DEF Views
<1>2. Blank.kind = "blank" /\ Failure.kind = "error"
  BY DEF Blank, Failure, View
<1>3. ASSUME NEW t \in Texts, NEW k \in Keys, NEW j \in PageVerdicts
      PROVE  /\ Result(t, k, j) \in Views
             /\ Result(t, k, j).kind = "result"
             /\ Result(t, k, j).doc = t
             /\ Result(t, k, j).key = k
             /\ Result(t, k, j).verdict = j
  <2>1. Result(t, k, j) \in Views
    BY DEF Views
  <2>2. QED
    BY <2>1 DEF Result, View
<1>4. ASSUME NEW w \in Views, w.verdict = "pass"
      PROVE  w.kind = "result"
  <2>1. w # Blank /\ w # Failure
    BY <1>4 DEF Blank, Failure, View
  <2>2. PICK t \in Texts, k \in Keys, j \in PageVerdicts : w = Result(t, k, j)
    BY <2>1 DEF Views
  <2>3. QED
    BY <1>3, <2>2
<1>5. QED
  BY <1>1, <1>2, <1>3, <1>4

\* The kernel service only moves forward, and a ready kernel stays ready.
LEMMA ConsultFacts ==
  \A k \in Kernel!KernelStates :
    /\ Kernel!Consult(k) \subseteq Kernel!KernelStates
    /\ k \in Kernel!Consult(k)
    /\ k = "ready" => Kernel!Consult(k) = {"ready"}
BY DEF Kernel!KernelStates, Kernel!Consult

LEMMA TextsFacts ==
  /\ NoText \in Texts /\ NoKey \in Keys
  /\ Family \in [Texts -> Families] /\ Grade \in [Texts -> Grades]
  /\ SignerOf \in [Texts -> Keys]
  /\ Family[NoText] = "unreadable"
BY TextsAssumption DEF TextsTyped

\* A pass survives whatever the page learns about the kernel.
LEMMA PassesIsStable ==
  ASSUME NEW t \in Texts, NEW k \in Keys, NEW a \in Kernel!KernelStates,
         NEW b \in Kernel!Consult(a), Passes(t, k, a)
  PROVE  Passes(t, k, b)
BY ConsultFacts DEF Passes, KernelFor, Kernel!KernelStates, Kernel!Consult

LEMMA TaskFacts ==
  /\ Idle \in Tasks
  /\ \A p \in TaskPcs, t \in Texts, k \in Keys :
       /\ Task(p, t, k) \in Tasks
       /\ Task(p, t, k).pc = p
       /\ Task(p, t, k).doc = t
       /\ Task(p, t, k).key = k
  /\ Idle.pc = "idle"
BY TextsFacts DEF Task, Tasks, Idle, TaskPcs

LEMMA KeyReadType ==
  ASSUME NEW t \in Texts, NEW k \in Keys
  PROVE  KeyRead(t, k) \in Keys
BY TextsFacts DEF KeyRead

-----------------------------------------------------------------------------
\* What the helpers do to the continuations and the screen.

\* No continuation but v's is touched.
OnlyTask(v) ==
  /\ task' \in [Versions -> Tasks]
  /\ \A u \in Versions \ {v} : task'[u] = task[u]

LEMMA WaitEffect ==
  ASSUME TypeOK, NEW v \in Versions, NEW t \in Tasks, Wait(v, t)
  PROVE  OnlyTask(v) /\ task'[v] = t
BY DEF TypeOK, Wait, OnlyTask

LEMMA RetireEffect ==
  ASSUME TypeOK, NEW v \in Versions, Retire(v)
  PROVE  OnlyTask(v) /\ task'[v] = Idle
BY WaitEffect, TaskFacts DEF Retire

\* Routing the text now in the box leaves no verdict on the screen, and awaits
\* nothing but the check of the fields.
LEMMA RouteEffect ==
  ASSUME TypeOK, NEW v \in Versions, version' = v,
         box' \in Texts, signerKey' \in Keys, Route(v, box')
  PROVE  /\ OnlyTask(v)
         /\ signerVisible' \in BOOLEAN
         /\ content' \in {Blank, Failure}
         /\ banner' \in Views
         /\ CurrentCheckIsOfFields'
<1>1. signerVisible' = Signed(box') /\ signerVisible' \in BOOLEAN
  BY DEF Route, Signed
<1>2. CASE RouteVerifiable(v, box')
  <2> DEFINE t == Task("verifying", box', KeyRead(box', signerKey'))
  <2>1. t \in Tasks
    BY TaskFacts, KeyReadType DEF TaskPcs
  <2>2. OnlyTask(v) /\ task'[v] = t
    BY <1>2, <2>1, WaitEffect DEF RouteVerifiable
  <2>3. content' = Blank /\ banner' \in Views
    BY <1>2 DEF RouteVerifiable, PaintReceiptState, TypeOK
  <2>4. CurrentCheckIsOfFields'
    BY <1>1, <1>2, <2>2, <2>3
       DEF CurrentCheckIsOfFields, RouteVerifiable, Verifiable, Signed, KeyRead
  <2>5. QED
    BY <1>1, <2>2, <2>3, <2>4
<1>3. CASE RouteRefused(v, box')
  <2>1. OnlyTask(v) /\ task'[v] = Idle
    BY <1>3, RetireEffect DEF RouteRefused
  <2>2. content' = Failure /\ banner' \in Views
    BY <1>3, ViewFacts DEF RouteRefused, ShowReceiptError
  <2>3. CurrentCheckIsOfFields'
    BY <2>1, TaskFacts DEF CurrentCheckIsOfFields
  <2>4. QED
    BY <1>1, <2>1, <2>2, <2>3
<1>4. QED
  BY <1>2, <1>3 DEF Route

LEMMA CheckPastedEffect ==
  ASSUME TypeOK, NEW v \in Versions, version' = v,
         box' \in Texts, signerKey' \in Keys, CheckPasted(v)
  PROVE  /\ OnlyTask(v)
         /\ signerVisible' \in BOOLEAN
         /\ pasteError' \in BOOLEAN
         /\ content' \in {Blank, Failure}
         /\ banner' \in Views
         /\ CurrentCheckIsOfFields'
<1>1. CASE RefuseText(v)
  <2>1. OnlyTask(v) /\ task'[v] = Idle
    BY <1>1, RetireEffect DEF RefuseText
  <2>2. CurrentCheckIsOfFields'
    BY <2>1, TaskFacts DEF CurrentCheckIsOfFields
  <2>3. QED
    BY <1>1, <2>1, <2>2, ViewFacts DEF RefuseText, ShowReceiptError, TypeOK
<1>2. CASE RefuseLocked(v)
  <2>1. OnlyTask(v) /\ task'[v] = Idle
    BY <1>2, RetireEffect DEF RefuseLocked
  <2>2. CurrentCheckIsOfFields'
    BY <2>1, TaskFacts DEF CurrentCheckIsOfFields
  <2>3. QED
    BY <1>2, <2>1, <2>2 DEF RefuseLocked, PaintReceiptState, TypeOK
<1>3. CASE RouteText(v)
  BY <1>3, RouteEffect DEF RouteText
<1>4. QED
  BY <1>1, <1>2, <1>3 DEF CheckPasted

LEMMA RenderLocationEffect ==
  ASSUME TypeOK, version < MaxVersion, hash' \in Fragments, RenderLocation
  PROVE  /\ version' = version + 1
         /\ version' \in Versions
         /\ OnlyTask(version')
         /\ box' \in Texts
         /\ signerVisible' \in BOOLEAN
         /\ content' \in {Blank, Failure}
         /\ banner' \in Views
         /\ CurrentCheckIsOfFields'
         /\ UNCHANGED <<signerKey, timer, pasteError>>
<1>1. version' = version + 1 /\ version' \in Versions
      /\ UNCHANGED <<signerKey, timer, pasteError>>
  BY PageAssumption DEF RenderLocation, TypeOK, Versions
<1>2. hash'[2] \in Texts
  BY TextsFacts DEF Fragments
<1>3. CASE RenderExample(version')
  <2>1. Task("fetching", NoText, NoKey) \in Tasks
        /\ Task("fetching", NoText, NoKey).pc = "fetching"
    BY TaskFacts, TextsFacts DEF TaskPcs
  <2>2. OnlyTask(version') /\ task'[version'] = Task("fetching", NoText, NoKey)
    BY <1>1, <1>3, <2>1, WaitEffect DEF RenderExample
  <2>3. CurrentCheckIsOfFields'
    BY <2>1, <2>2 DEF CurrentCheckIsOfFields
  <2>4. QED
    BY <1>1, <1>3, <2>2, <2>3 DEF RenderExample, PaintReceiptState, TypeOK
<1>4. CASE RefuseFragment(version')
  <2>1. OnlyTask(version') /\ task'[version'] = Idle
    BY <1>1, <1>4, RetireEffect DEF RefuseFragment
  <2>2. CurrentCheckIsOfFields'
    BY <2>1, TaskFacts DEF CurrentCheckIsOfFields
  <2>3. QED
    BY <1>1, <1>2, <1>4, <2>1, <2>2, ViewFacts
       DEF RefuseFragment, ShowReceiptError, TypeOK
<1>5. CASE RouteFragment(version')
  <2>1. box' = hash'[2] /\ box' \in Texts /\ signerKey' \in Keys
    BY <1>1, <1>2, <1>5 DEF RouteFragment, TypeOK
  <2>2. Route(version', box')
    BY <1>5, <2>1 DEF RouteFragment
  <2>3. QED
    BY <1>1, <2>1, <2>2, RouteEffect
<1>6. QED
  BY <1>3, <1>4, <1>5 DEF RenderLocation

-----------------------------------------------------------------------------
\* Two ways an action keeps IInv, its type once established: it leaves no
\* verdict on the screen, or it leaves screen and fields alone.

LEMMA Withdrawn ==
  ASSUME IInv, TypeOK', BootHasRoom', NEW v \in Versions, v <= version',
         version <= version', timer' <= version',
         OnlyTask(v), CurrentCheckIsOfFields', content' \in {Blank, Failure}
  PROVE  IInv'
<1>1. PendingHasBegun'
  <2> SUFFICES ASSUME NEW u \in Versions, task'[u] # Idle
               PROVE  u <= version'
    BY DEF PendingHasBegun
  <2>1. CASE u = v
    BY <2>1
  <2>2. CASE u # v
    <3>1. u <= version
      BY <2>2 DEF IInv, PendingHasBegun, OnlyTask
    <3>2. QED
      BY <3>1 DEF IInv, TypeOK, Versions
  <2>3. QED
    BY <2>1, <2>2
<1>2. ShownVerdict'
  BY ViewFacts DEF ShownVerdict
<1>3. QED
  BY <1>1, <1>2 DEF IInv, TimerHasBegun

LEMMA Untouched ==
  ASSUME IInv, TypeOK', BootHasRoom', kernel' \in Kernel!Consult(kernel),
         UNCHANGED <<box, signerKey, signerVisible, content, version>>,
         timer' \in {0, timer},
         \A u \in Versions : task'[u] \in {task[u], Idle}
  PROVE  IInv'
<1>1. PendingHasBegun' /\ TimerHasBegun'
  BY DEF IInv, PendingHasBegun, TimerHasBegun, TypeOK
<1>2. CurrentCheckIsOfFields'
  <2> SUFFICES ASSUME version # 0, task'[version].pc = "verifying"
               PROVE  /\ task'[version] = Task("verifying", box, KeyRead(box, signerKey))
                      /\ Verifiable(box)
                      /\ content = Blank
                      /\ signerVisible = Signed(box)
    BY DEF CurrentCheckIsOfFields, KeyRead, Verifiable, Signed
  <2>1. version \in Versions
    BY DEF IInv, TypeOK, Versions
  <2>2. task'[version] = task[version]
    BY <2>1, TaskFacts
  <2>3. QED
    BY <2>2 DEF IInv, CurrentCheckIsOfFields
<1>3. ShownVerdict'
  <2> SUFFICES ASSUME content.kind = "result"
               PROVE  /\ Verifiable(box)
                      /\ content.doc = box
                      /\ content.key = KeyRead(box, signerKey)
                      /\ signerVisible = Signed(box)
                      /\ content.verdict = "pass" => Passes(box, signerKey, kernel')
    BY DEF ShownVerdict, Verifiable, KeyRead, Signed, Passes
  <2>1. QED
    BY PassesIsStable DEF IInv, ShownVerdict, TypeOK
<1>4. QED
  BY <1>1, <1>2, <1>3 DEF IInv

-----------------------------------------------------------------------------
\* The first half of the induction.
LEMMA InitIInv == Init => IInv
<1> SUFFICES ASSUME Init
             PROVE  IInv
  OBVIOUS
<1>1. TypeOK
  <2>1. task \in [Versions -> Tasks]
    BY TaskFacts DEF Init
  <2>2. version \in 0 .. MaxVersion /\ timer \in 0 .. MaxVersion
    BY PageAssumption DEF Init
  <2>3. edit \in [at : 0 .. MaxVersion, text : Texts]
    BY TextsFacts, PageAssumption DEF Init, NoEdit
  <2>4. content \in Views /\ banner \in Views
    BY ViewFacts DEF Init
  <2>5. QED
    BY <2>1, <2>2, <2>3, <2>4, TextsFacts
       DEF Init, TypeOK, BootPcs, Kernel!KernelStates
<1>2. PendingHasBegun /\ TimerHasBegun /\ BootHasRoom
  BY PageAssumption DEF Init, PendingHasBegun, TimerHasBegun, BootHasRoom, Booting
<1>3. CurrentCheckIsOfFields
  BY DEF Init, CurrentCheckIsOfFields
<1>4. ShownVerdict
  BY ViewFacts DEF Init, ShownVerdict
<1>5. QED
  BY <1>1, <1>2, <1>3, <1>4 DEF IInv

-----------------------------------------------------------------------------
\* The second half, one lemma per kind of actor.

LEMMA RenderStep ==
  ASSUME IInv, version < MaxVersion, hash' \in Fragments, RenderLocation,
         kernel' \in Kernel!Consult(kernel), locked' = locked,
         bootPc' \in BootPcs, BootHasRoom',
         edit' \in [at : 0 .. MaxVersion, text : Texts]
  PROVE  IInv'
<1>1. /\ version' = version + 1
      /\ version' \in Versions
      /\ OnlyTask(version')
      /\ box' \in Texts
      /\ signerVisible' \in BOOLEAN
      /\ content' \in {Blank, Failure}
      /\ banner' \in Views
      /\ CurrentCheckIsOfFields'
      /\ UNCHANGED <<signerKey, timer, pasteError>>
  BY RenderLocationEffect DEF IInv
<1>2. kernel' \in Kernel!KernelStates
  BY ConsultFacts DEF IInv, TypeOK
<1>3. content' \in Views
  BY <1>1, ViewFacts
<1>4. TypeOK'
  BY <1>1, <1>2, <1>3 DEF IInv, TypeOK, Versions, OnlyTask
<1>5. version' <= version' /\ version <= version' /\ timer' <= version'
  BY <1>1 DEF IInv, TypeOK, TimerHasBegun
<1>6. QED
  BY <1>1, <1>4, <1>5, Withdrawn

LEMMA BootStep ==
  ASSUME IInv, Boot
  PROVE  IInv'
<1>1. kernel' \in Kernel!Consult(kernel)
  BY DEF Boot, BootHashed, BootReady
<1>2. kernel' \in Kernel!KernelStates
  BY <1>1, ConsultFacts DEF IInv, TypeOK
<1>3. CASE UNCHANGED <<hash, fields, version, timer, task, screen, edit>>
           /\ locked' \in BOOLEAN /\ bootPc' \in BootPcs
           /\ (Booting' => Booting)
  <2>1. TypeOK' /\ BootHasRoom'
    BY <1>2, <1>3 DEF IInv, TypeOK, BootHasRoom, Booting, fields, screen
  <2>2. QED
    BY <1>1, <1>3, <2>1, Untouched DEF fields, screen
<1>4. CASE bootPc = "readying" /\ bootPc' = "done" /\ RenderLocation
           /\ UNCHANGED <<locked, hash, edit>>
  <2>1. version < MaxVersion /\ BootHasRoom'
    BY <1>4 DEF IInv, BootHasRoom, Booting
  <2>2. hash' \in Fragments /\ edit' \in [at : 0 .. MaxVersion, text : Texts]
    BY <1>4 DEF IInv, TypeOK
  <2>3. QED
    BY <1>1, <1>4, <2>1, <2>2, RenderStep DEF BootPcs
<1>5. QED
  BY <1>3, <1>4 DEF Boot, BootHashed, BootReady, BootLocks, BootPcs, Booting, IInv,
     TypeOK

\* A generation begun by the visitor leaves boot's room alone.
LEMMA MayActRoom ==
  ASSUME IInv, MayAct, bootPc' = bootPc, version' = version + 1
  PROVE  /\ version < MaxVersion
         /\ version' \in Versions
         /\ version' \in 0 .. MaxVersion
         /\ BootHasRoom'
BY PageAssumption DEF MayAct, BootHasRoom, Booting, IInv, TypeOK, Versions

LEMMA ChangeHashStep ==
  ASSUME IInv, NEW h \in Fragments, ChangeHash(h)
  PROVE  IInv'
<1>1. version' = version + 1 /\ bootPc' = bootPc /\ RenderLocation /\ hash' = h
  BY DEF ChangeHash, RenderLocation
<1>2. version < MaxVersion /\ BootHasRoom'
  BY <1>1, MayActRoom DEF ChangeHash
<1>3. kernel' \in Kernel!Consult(kernel)
  BY ConsultFacts DEF ChangeHash, IInv, TypeOK
<1>4. edit' \in [at : 0 .. MaxVersion, text : Texts]
  BY TextsFacts, PageAssumption DEF ChangeHash, NoEdit
<1>5. QED
  BY <1>1, <1>2, <1>3, <1>4, RenderStep DEF ChangeHash, IInv, TypeOK

LEMMA KeepEditType ==
  ASSUME IInv, KeepEdit, version < MaxVersion
  PROVE  edit' \in [at : 0 .. MaxVersion, text : Texts]
BY PageAssumption DEF KeepEdit, IInv, TypeOK

LEMMA PasteInputStep ==
  ASSUME IInv, MayAct, OnPasteInput, box' \in Texts, signerKey' \in Keys,
         edit' \in [at : 0 .. MaxVersion, text : Texts]
  PROVE  IInv'
<1>1. version' = version + 1 /\ bootPc' = bootPc /\ timer' = version'
      /\ content' = Blank /\ UNCHANGED <<task, kernel>>
  BY DEF OnPasteInput, PaintReceiptState
<1>2. version' \in Versions /\ version' \in 0 .. MaxVersion /\ BootHasRoom'
  BY <1>1, MayActRoom
<1>3. TypeOK'
  BY <1>1, <1>2, ViewFacts DEF OnPasteInput, PaintReceiptState, IInv, TypeOK
<1>4. OnlyTask(version')
  BY <1>1 DEF OnlyTask, IInv, TypeOK
<1>5. task'[version'] = Idle
  BY <1>1, <1>2 DEF IInv, PendingHasBegun, TypeOK
<1>6. CurrentCheckIsOfFields'
  BY <1>5, TaskFacts DEF CurrentCheckIsOfFields
<1>7. version' <= version' /\ version <= version' /\ timer' <= version'
  BY <1>1 DEF IInv, TypeOK
<1>8. QED
  BY <1>1, <1>2, <1>3, <1>4, <1>6, <1>7, Withdrawn

LEMMA EditBoxStep ==
  ASSUME IInv, NEW t \in Texts, EditBox(t)
  PROVE  IInv'
<1>1. version < MaxVersion
  BY MayActRoom DEF EditBox, OnPasteInput
<1>2. edit' \in [at : 0 .. MaxVersion, text : Texts]
  BY <1>1, PageAssumption DEF EditBox, IInv, TypeOK
<1>3. QED
  BY <1>2, PasteInputStep DEF EditBox, IInv, TypeOK

LEMMA EditKeyStep ==
  ASSUME IInv, NEW k \in Keys, EditKey(k)
  PROVE  IInv'
<1>1. version < MaxVersion
  BY MayActRoom DEF EditKey, OnPasteInput
<1>2. edit' \in [at : 0 .. MaxVersion, text : Texts]
  BY <1>1, KeepEditType DEF EditKey
<1>3. QED
  BY <1>2, PasteInputStep DEF EditKey, IInv, TypeOK

\* A picked file keeps the verdict on the screen; the fields are the same, and
\* the generation that now waits is not a verification.
LEMMA PickFileStep ==
  ASSUME IInv, NEW p \in {"readingReceipt", "readingKey"}, PickFile(p)
  PROVE  IInv'
<1> DEFINE v == version'
<1>1. /\ v = version + 1 /\ timer' = 0
      /\ UNCHANGED <<locked, bootPc, kernel, hash, box, signerKey,
                     signerVisible, pasteError>>
  BY DEF PickFile, fields
<1>2. version < MaxVersion /\ v \in Versions /\ v \in 0 .. MaxVersion /\ BootHasRoom'
  BY <1>1, MayActRoom DEF PickFile
<1>3. edit' \in [at : 0 .. MaxVersion, text : Texts]
  BY <1>2, KeepEditType, TextsFacts, PageAssumption DEF PickFile, NoEdit
<1>4. CASE Wait(v, Task(p, NoText, NoKey)) /\ UNCHANGED <<content, banner>>
  <2>1. Task(p, NoText, NoKey) \in Tasks /\ Task(p, NoText, NoKey).pc = p
    BY TaskFacts, TextsFacts DEF TaskPcs
  <2>2. OnlyTask(v) /\ task'[v] = Task(p, NoText, NoKey)
    BY <1>2, <1>4, <2>1, WaitEffect DEF IInv
  <2>3. TypeOK'
    BY <1>1, <1>2, <1>3, <1>4, <2>2, PageAssumption DEF IInv, TypeOK, OnlyTask
  <2>4. PendingHasBegun'
    BY <1>1, <2>2 DEF IInv, PendingHasBegun, OnlyTask, TypeOK, Versions
  <2>5. TimerHasBegun'
    BY <1>1, <1>2 DEF TimerHasBegun
  <2>6. CurrentCheckIsOfFields'
    BY <2>1, <2>2 DEF CurrentCheckIsOfFields
  <2>7. ShownVerdict'
    BY <1>1, <1>4 DEF IInv, ShownVerdict, Verifiable, Signed, KeyRead, Passes
  <2>8. QED
    BY <1>2, <2>3, <2>4, <2>5, <2>6, <2>7 DEF IInv
<1>5. CASE ShowReceiptError /\ UNCHANGED task
  <2>1. content' = Failure /\ banner' = Failure
    BY <1>5 DEF ShowReceiptError
  <2>2. TypeOK'
    BY <1>1, <1>2, <1>3, <1>5, <2>1, ViewFacts, PageAssumption DEF IInv, TypeOK
  <2>3. OnlyTask(v) /\ task'[v] = Idle
    BY <1>1, <1>2, <1>5 DEF OnlyTask, IInv, TypeOK, PendingHasBegun
  <2>4. CurrentCheckIsOfFields'
    BY <2>3, TaskFacts DEF CurrentCheckIsOfFields
  <2>5. v <= version' /\ version <= version' /\ timer' <= version'
    BY <1>1, <1>2 DEF IInv, TypeOK
  <2>6. QED
    BY <1>2, <2>1, <2>2, <2>3, <2>4, <2>5, Withdrawn
<1>6. QED
  BY <1>4, <1>5 DEF PickFile

\* What the event loop completes.

LEMMA TimerStep ==
  ASSUME IInv, PasteTimerFires
  PROVE  IInv'
<1>1. /\ timer # 0 /\ timer' = 0
      /\ UNCHANGED <<locked, bootPc, kernel, hash, box, signerKey, version, edit>>
  BY DEF PasteTimerFires, fields
<1>2. timer \in Versions /\ 0 \in 0 .. MaxVersion /\ BootHasRoom'
  BY <1>1, PageAssumption DEF IInv, TypeOK, Versions, BootHasRoom, Booting
<1>3. CASE IsCurrent(timer) /\ CheckPasted(timer)
  <2>1. /\ OnlyTask(timer) /\ signerVisible' \in BOOLEAN /\ pasteError' \in BOOLEAN
        /\ content' \in {Blank, Failure} /\ banner' \in Views
        /\ CurrentCheckIsOfFields'
    BY <1>1, <1>2, <1>3, CheckPastedEffect DEF IsCurrent, IInv, TypeOK
  <2>2. TypeOK'
    BY <1>1, <1>2, <2>1, ViewFacts DEF IInv, TypeOK, OnlyTask
  <2>3. timer <= version' /\ version <= version' /\ timer' <= version'
    BY <1>1, <1>3 DEF IsCurrent, IInv, TypeOK
  <2>4. QED
    BY <1>2, <2>1, <2>2, <2>3, Withdrawn
<1>4. CASE UNCHANGED <<task, screen>>
  <2>1. TypeOK'
    BY <1>1, <1>2, <1>4 DEF IInv, TypeOK, screen
  <2>2. kernel' \in Kernel!Consult(kernel)
    BY <1>1, ConsultFacts DEF IInv, TypeOK
  <2>3. QED
    BY <1>1, <1>2, <1>4, <2>1, <2>2, Untouched DEF screen
<1>5. QED
  BY <1>3, <1>4 DEF PasteTimerFires

\* A superseded continuation goes, and nothing else happens but news of the
\* kernel.
LEMMA SupersededStep ==
  ASSUME IInv, NEW v \in Versions, Superseded(v),
         kernel' \in Kernel!Consult(kernel),
         UNCHANGED <<locked, bootPc, hash, version, timer, edit>>
  PROVE  IInv'
<1>1. OnlyTask(v) /\ task'[v] = Idle
      /\ UNCHANGED <<box, signerKey, signerVisible, content, banner, pasteError>>
  BY RetireEffect DEF Superseded, fields, screen, IInv
<1>2. TypeOK' /\ BootHasRoom'
  BY <1>1, ConsultFacts DEF IInv, TypeOK, OnlyTask, BootHasRoom, Booting
<1>3. \A u \in Versions : task'[u] \in {task[u], Idle}
  BY <1>1 DEF OnlyTask
<1>4. QED
  BY <1>1, <1>2, <1>3, Untouched

\* The current continuation ends in an error message.
LEMMA CurrentErrorStep ==
  ASSUME IInv, NEW v \in Versions, IsCurrent(v), ShowReceiptError, Retire(v),
         UNCHANGED <<fields, signerVisible, pasteError>>,
         kernel' \in Kernel!Consult(kernel),
         UNCHANGED <<locked, bootPc, hash, version, timer, edit>>
  PROVE  IInv'
<1>1. OnlyTask(v) /\ task'[v] = Idle
  BY RetireEffect DEF IInv
<1>2. content' = Failure /\ banner' = Failure
  BY DEF ShowReceiptError
<1>3. TypeOK' /\ BootHasRoom'
  BY <1>1, <1>2, ConsultFacts, ViewFacts DEF IInv, TypeOK, OnlyTask, BootHasRoom, Booting, fields
<1>4. CurrentCheckIsOfFields'
  BY <1>1, TaskFacts DEF CurrentCheckIsOfFields, IsCurrent
<1>5. v <= version' /\ version <= version' /\ timer' <= version'
  BY DEF IInv, TypeOK, TimerHasBegun, IsCurrent
<1>6. QED
  BY <1>1, <1>2, <1>3, <1>4, <1>5, Withdrawn

LEMMA FetchStep ==
  ASSUME IInv, NEW v \in Versions, FetchDone(v)
  PROVE  IInv'
<1>1. kernel' \in Kernel!Consult(kernel)
      /\ UNCHANGED <<locked, bootPc, kernel, hash, version, timer, edit>>
  BY ConsultFacts DEF FetchDone, IInv, TypeOK
<1>2. CASE Superseded(v)
  BY <1>1, <1>2, SupersededStep
<1>3. CASE IsCurrent(v) /\ ShowReceiptError /\ Retire(v)
           /\ UNCHANGED <<fields, signerVisible, pasteError>>
  BY <1>1, <1>3, CurrentErrorStep
<1>4. CASE IsCurrent(v) /\ box' = Example
           /\ UNCHANGED <<signerKey, pasteError>> /\ Route(v, Example)
  <2>1. version' = v /\ box' \in Texts /\ signerKey' \in Keys /\ Route(v, box')
    BY <1>1, <1>4, PageAssumption DEF IsCurrent, IInv, TypeOK
  <2>2. /\ OnlyTask(v) /\ signerVisible' \in BOOLEAN
        /\ content' \in {Blank, Failure} /\ banner' \in Views
        /\ CurrentCheckIsOfFields'
    BY <2>1, RouteEffect DEF IInv
  <2>3. TypeOK' /\ BootHasRoom'
    BY <1>1, <1>4, <2>1, <2>2, ViewFacts DEF IInv, TypeOK, OnlyTask, BootHasRoom, Booting
  <2>4. v <= version' /\ version <= version' /\ timer' <= version'
    BY <1>1, <2>1 DEF IInv, TypeOK, TimerHasBegun
  <2>5. QED
    BY <2>2, <2>3, <2>4, Withdrawn
<1>5. QED
  BY <1>2, <1>3, <1>4 DEF FetchDone

LEMMA FileStep ==
  ASSUME IInv, NEW v \in Versions, FileDone(v)
  PROVE  IInv'
<1>1. kernel' \in Kernel!Consult(kernel)
      /\ UNCHANGED <<locked, bootPc, kernel, hash, version, timer, edit>>
  BY ConsultFacts DEF FileDone, IInv, TypeOK
<1>2. CASE Superseded(v)
  BY <1>1, <1>2, SupersededStep
<1>3. CASE FileUnreadable(v)
  BY <1>1, <1>3, CurrentErrorStep DEF FileUnreadable
<1>4. CASE FileRead(v)
  <2>1. version' = v /\ box' \in Texts /\ signerKey' \in Keys /\ CheckPasted(v)
    BY <1>1, <1>4 DEF FileRead, IsCurrent, IInv, TypeOK
  <2>2. /\ OnlyTask(v) /\ signerVisible' \in BOOLEAN /\ pasteError' \in BOOLEAN
        /\ content' \in {Blank, Failure} /\ banner' \in Views
        /\ CurrentCheckIsOfFields'
    BY <2>1, CheckPastedEffect DEF IInv
  <2>3. TypeOK' /\ BootHasRoom'
    BY <1>1, <2>1, <2>2, ViewFacts DEF IInv, TypeOK, OnlyTask, BootHasRoom, Booting
  <2>4. v <= version' /\ version <= version' /\ timer' <= version'
    BY <1>1, <2>1 DEF IInv, TypeOK, TimerHasBegun
  <2>5. QED
    BY <2>2, <2>3, <2>4, Withdrawn
<1>5. QED
  BY <1>2, <1>3, <1>4 DEF FileDone

\* A verdict that appears is the one on the fields, given with the kernel as
\* it is in that step.
LEMMA VerdictAppears ==
  ASSUME IInv, NEW v \in Versions, IsCurrent(v), task[v].pc = "verifying",
         kernel' \in Kernel!KernelStates
  PROVE  /\ task[v].doc = box
         /\ task[v].key = KeyRead(box, signerKey)
         /\ Verifiable(box)
         /\ content = Blank
         /\ signerVisible = Signed(box)
         /\ Judge(box, KeyRead(box, signerKey), kernel') = Judge(box, signerKey, kernel')
         /\ Judge(box, signerKey, kernel') \in PageVerdicts
         /\ Judge(box, signerKey, kernel') = "pass" => Passes(box, signerKey, kernel')
<1>1. version # 0 /\ task[version].pc = "verifying"
  BY DEF IsCurrent, Versions
<1>2. /\ task[v] = Task("verifying", box, KeyRead(box, signerKey))
      /\ Verifiable(box) /\ content = Blank /\ signerVisible = Signed(box)
  BY <1>1 DEF IsCurrent, IInv, CurrentCheckIsOfFields
<1>3. task[v].doc = box /\ task[v].key = KeyRead(box, signerKey)
  BY <1>2, TaskFacts, KeyReadType DEF IInv, TypeOK, TaskPcs
<1>4. Judge(box, KeyRead(box, signerKey), kernel') = Judge(box, signerKey, kernel')
  BY DEF Judge, Passes, KeyRead
<1>5. /\ Judge(box, signerKey, kernel') \in PageVerdicts
      /\ Judge(box, signerKey, kernel') = "pass" => Passes(box, signerKey, kernel')
  BY DEF Judge, PageVerdicts
<1>6. QED
  BY <1>2, <1>3, <1>4, <1>5

LEMMA VerifyStep ==
  ASSUME IInv, NEW v \in Versions, VerifyDone(v)
  PROVE  IInv'
<1>1. kernel' \in Kernel!Consult(kernel)
      /\ UNCHANGED <<locked, bootPc, hash, version, timer, edit>>
  BY ConsultFacts DEF VerifyDone, ConsultKernel, IInv, TypeOK
<1>2. CASE Superseded(v)
  BY <1>1, <1>2, SupersededStep
<1>3. CASE ShowOutcome(v)
  <2> DEFINE t == task[v].doc
             k == task[v].key
  <2>1. IsCurrent(v) /\ Retire(v) /\ UNCHANGED <<fields, signerVisible, pasteError>>
    BY <1>3 DEF ShowOutcome
  <2>2. CASE ShowReceiptError
    BY <1>1, <2>1, <2>2, CurrentErrorStep
  <2>3. CASE ShowResult(Result(t, k, Judge(t, k, kernel')))
    <3> DEFINE j == Judge(box, signerKey, kernel')
    <3>1. kernel' \in Kernel!KernelStates
      BY <1>1, ConsultFacts DEF IInv, TypeOK
    <3>2. /\ t = box /\ k = KeyRead(box, signerKey)
          /\ Verifiable(box) /\ signerVisible = Signed(box)
          /\ Judge(t, k, kernel') = j
          /\ j \in PageVerdicts
          /\ j = "pass" => Passes(box, signerKey, kernel')
      BY <2>1, <3>1, VerdictAppears DEF VerifyDone
    <3>3. content' = Result(box, KeyRead(box, signerKey), j) /\ banner' = content'
      BY <2>3, <3>2 DEF ShowResult
    <3>4. /\ content' \in Views /\ content'.doc = box
          /\ content'.key = KeyRead(box, signerKey) /\ content'.verdict = j
      BY <3>2, <3>3, ViewFacts, KeyReadType DEF IInv, TypeOK
    <3>5. OnlyTask(v) /\ task'[v] = Idle
      BY <2>1, RetireEffect DEF IInv
    <3>6. TypeOK' /\ BootHasRoom'
      BY <1>1, <2>1, <3>1, <3>3, <3>4, <3>5
         DEF IInv, TypeOK, OnlyTask, BootHasRoom, Booting, fields
    <3>7. PendingHasBegun' /\ TimerHasBegun'
      BY <1>1, <3>5 DEF IInv, PendingHasBegun, TimerHasBegun, OnlyTask
    <3>8. CurrentCheckIsOfFields'
      BY <1>1, <2>1, <3>5, TaskFacts DEF CurrentCheckIsOfFields, IsCurrent
    <3>9. ShownVerdict'
      BY <2>1, <3>2, <3>4
         DEF ShownVerdict, fields, Verifiable, Signed, KeyRead, Passes
    <3>10. QED
      BY <3>6, <3>7, <3>8, <3>9 DEF IInv
  <2>4. QED
    BY <1>3, <2>2, <2>3 DEF ShowOutcome
<1>4. QED
  BY <1>2, <1>3 DEF VerifyDone

-----------------------------------------------------------------------------
\* IInv is inductive: one case per disjunct of Next.
LEMMA NextIInv == IInv /\ [Next]_vars => IInv'
<1> SUFFICES ASSUME IInv, [Next]_vars
             PROVE  IInv'
  OBVIOUS
<1>1. CASE Boot
  BY <1>1, BootStep
<1>2. CASE PasteTimerFires
  BY <1>2, TimerStep
<1>3. CASE \E v \in Versions : Settle(v)
  BY <1>3, FetchStep, FileStep, VerifyStep DEF Settle
<1>4. CASE Visitor
  BY <1>4, ChangeHashStep, EditBoxStep, EditKeyStep, PickFileStep DEF Visitor
<1>5. CASE UNCHANGED vars
  BY <1>5 DEF vars, fields, screen, IInv, TypeOK, PendingHasBegun, TimerHasBegun,
             BootHasRoom, Booting, CurrentCheckIsOfFields, ShownVerdict, Verifiable,
             Signed, KeyRead, Passes
<1>6. QED
  BY <1>1, <1>2, <1>3, <1>4, <1>5 DEF Next

LEMMA Invariance == Spec => []IInv
<1>1. Init => IInv
  BY InitIInv
<1>2. IInv /\ [Next]_vars => IInv'
  BY NextIInv
<1>3. QED
  BY <1>1, <1>2, PTL DEF Spec

\* Every variable keeps its type, in particular the box never holds anything
\* but a text.
THEOREM TypeCorrect == Spec => []TypeOK
<1>1. IInv => TypeOK
  BY DEF IInv
<1>2. QED
  BY <1>1, Invariance, PTL

\* However renders, edits, files and timers interleave, the verdict shown is
\* about the text in the box and the key in the signer field.
THEOREM ShownResultSafe == Spec => []ShownResultIsOfFields
<1>1. IInv => ShownResultIsOfFields
  BY DEF IInv, ShownVerdict, ShownResultIsOfFields
<1>2. QED
  BY <1>1, Invariance, PTL

\* A pass shown is earned by the fields and by the pinned kernel.
THEOREM PassSafe == Spec => []PassIsEarned
<1>1. IInv => PassIsEarned
  BY ViewFacts DEF IInv, TypeOK, ShownVerdict, PassIsEarned
<1>2. QED
  BY <1>1, Invariance, PTL

\* The signer controls are shown exactly beside the verdicts that need them.
THEOREM SignerControlsSafe == Spec => []SignerControlsFollowResult
<1>1. IInv => SignerControlsFollowResult
  BY DEF IInv, ShownVerdict, SignerControlsFollowResult
<1>2. QED
  BY <1>1, Invariance, PTL

-----------------------------------------------------------------------------
\* Superseded continuations.

LEMMA InertStep ==
  ASSUME IInv, [Next]_vars, version' = version,
         \/ timer # 0 /\ timer' = 0 /\ timer < version
         \/ \E v \in Versions : v < version /\ task'[v] # task[v]
  PROVE  UNCHANGED <<fields, screen>>
<1> DEFINE Old == \E v \in Versions : v < version /\ task'[v] # task[v]
<1>1. CASE Boot
  <2>1. RenderLocation \/ UNCHANGED <<timer, task>>
    BY <1>1 DEF Boot, BootHashed, BootReady, BootLocks
  <2>2. ~RenderLocation
    BY DEF RenderLocation, IInv, TypeOK
  <2>3. QED
    BY <2>1, <2>2
<1>2. CASE PasteTimerFires
  <2>1. CASE IsCurrent(timer) /\ CheckPasted(timer)
    <3>1. timer = version /\ timer \in Versions
      BY <1>2, <2>1 DEF IsCurrent, PasteTimerFires, IInv, TypeOK, Versions
    <3>2. OnlyTask(timer)
      BY <1>2, <2>1, <3>1, CheckPastedEffect
         DEF PasteTimerFires, fields, IInv, TypeOK
    <3>3. ~Old
      BY <3>1, <3>2 DEF OnlyTask, Versions
    <3>4. QED
      BY <3>1, <3>3 DEF IInv, TypeOK
  <2>2. QED
    BY <1>2, <2>1 DEF PasteTimerFires
<1>3. ASSUME NEW u \in Versions, Settle(u)
      PROVE  UNCHANGED <<fields, screen>>
  <2>1. UNCHANGED timer
    BY <1>3 DEF Settle, FetchDone, FileDone, VerifyDone
  <2>2. CASE Superseded(u)
    BY <2>2 DEF Superseded
  <2>3. ~Superseded(u) => IsCurrent(u) /\ OnlyTask(u)
    <3>1. CASE FetchDone(u)
      <4>1. CASE IsCurrent(u) /\ Route(u, Example) /\ box' = Example
                 /\ UNCHANGED signerKey
        BY <4>1, RouteEffect, PageAssumption DEF IsCurrent, IInv, TypeOK
      <4>2. QED
        BY <3>1, <4>1, RetireEffect DEF FetchDone, IInv
    <3>2. CASE FileDone(u)
      <4>1. CASE FileRead(u)
        BY <4>1, CheckPastedEffect DEF FileRead, IsCurrent, IInv, TypeOK
      <4>2. QED
        BY <3>2, <4>1, RetireEffect DEF FileDone, FileUnreadable, IInv
    <3>3. CASE VerifyDone(u)
      BY <3>3, RetireEffect DEF VerifyDone, ShowOutcome, IInv
    <3>4. QED
      BY <1>3, <3>1, <3>2, <3>3 DEF Settle
  <2>4. IsCurrent(u) /\ OnlyTask(u) => ~Old
    BY DEF IsCurrent, OnlyTask, Versions
  <2>5. QED
    BY <2>1, <2>2, <2>3, <2>4
<1>4. CASE Visitor
  BY <1>4 DEF Visitor, ChangeHash, RenderLocation, EditBox, EditKey,
             OnPasteInput, PickFile, IInv, TypeOK
<1>5. CASE UNCHANGED vars
  BY <1>5 DEF vars
<1>6. QED
  BY <1>1, <1>2, <1>3, <1>4, <1>5 DEF Next

\* Nothing begun for a superseded generation reaches the screen or a field.
THEOREM SupersededSafe == Spec => SupersededIsInert
<1>1. IInv /\ [Next]_vars =>
        [ /\ version' = version
          /\ \/ timer # 0 /\ timer' = 0 /\ timer < version
             \/ \E v \in Versions : v < version /\ task'[v] # task[v]
          => UNCHANGED <<fields, screen>> ]_vars
  BY InertStep
<1>2. QED
  BY <1>1, Invariance, PTL DEF Spec, SupersededIsInert

-----------------------------------------------------------------------------
\* Refinement: every step of the page is one of three steps of the promise, or
\* none of them.

\* The verdict is gone, whatever became of the fields.
Withdraws ==
  /\ box' \in Texts /\ signerKey' \in Keys
  /\ content' \in {Blank, Failure}
  /\ kernel' \in Kernel!Consult(kernel)

\* Fields and verdict are as they were.
Leaves ==
  /\ UNCHANGED <<box, signerKey, content>>
  /\ kernel' \in Kernel!Consult(kernel)

\* The verdict on the fields appears.
Answers ==
  /\ UNCHANGED <<box, signerKey>>
  /\ kernel' \in Kernel!Consult(kernel)
  /\ content = Blank /\ Verifiable(box) /\ ~Unjudgeable(box, kernel')
  /\ content' = Result(box, KeyRead(box, signerKey), Judge(box, signerKey, kernel'))

LEMMA SettleShape ==
  ASSUME IInv, NEW v \in Versions, Settle(v)
  PROVE  Withdraws \/ Leaves \/ Answers
<1>1. kernel' \in Kernel!Consult(kernel)
  BY ConsultFacts DEF Settle, FetchDone, FileDone, VerifyDone, ConsultKernel, IInv,
     TypeOK
<1>2. CASE Superseded(v)
  BY <1>1, <1>2 DEF Superseded, Leaves, fields, screen
<1>3. CASE ShowReceiptError /\ UNCHANGED fields
  BY <1>1, <1>3 DEF ShowReceiptError, Withdraws, fields, IInv, TypeOK
<1>4. CASE FetchDone(v)
  <2>1. CASE IsCurrent(v) /\ Route(v, Example) /\ box' = Example
             /\ UNCHANGED signerKey
    <3>1. content' \in {Blank, Failure}
      BY <1>4, <2>1, RouteEffect, PageAssumption DEF FetchDone, IsCurrent, IInv, TypeOK
    <3>2. QED
      BY <1>1, <2>1, <3>1, PageAssumption DEF Withdraws, IInv, TypeOK
  <2>2. QED
    BY <1>2, <1>3, <1>4, <2>1 DEF FetchDone
<1>5. CASE FileDone(v)
  <2>1. CASE FileRead(v)
    <3>1. version' = v /\ box' \in Texts /\ signerKey' \in Keys /\ CheckPasted(v)
      BY <1>5, <2>1 DEF FileDone, FileRead, IsCurrent, IInv, TypeOK
    <3>2. content' \in {Blank, Failure}
      BY <3>1, CheckPastedEffect DEF IInv
    <3>3. QED
      BY <1>1, <3>1, <3>2 DEF Withdraws
  <2>2. QED
    BY <1>2, <1>3, <1>5, <2>1 DEF FileDone, FileUnreadable
<1>6. CASE VerifyDone(v)
  <2> DEFINE t == task[v].doc
             k == task[v].key
  <2>1. CASE IsCurrent(v) /\ ~Unjudgeable(t, kernel') /\ UNCHANGED fields
             /\ ShowResult(Result(t, k, Judge(t, k, kernel')))
    <3>1. kernel' \in Kernel!KernelStates
      BY <1>1, ConsultFacts DEF IInv, TypeOK
    <3>2. /\ t = box /\ k = KeyRead(box, signerKey)
          /\ Verifiable(box) /\ content = Blank
          /\ Judge(t, k, kernel') = Judge(box, signerKey, kernel')
      BY <1>6, <2>1, <3>1, VerdictAppears DEF VerifyDone
    <3>3. QED
      BY <1>1, <2>1, <3>2 DEF Answers, ShowResult, fields
  <2>2. QED
    BY <1>2, <1>3, <1>6, <2>1 DEF VerifyDone, ShowOutcome
<1>7. QED
  BY <1>4, <1>5, <1>6 DEF Settle

LEMMA NextShape ==
  ASSUME IInv, [Next]_vars
  PROVE  Withdraws \/ Leaves \/ Answers
<1>1. CASE RenderLocation /\ hash' \in Fragments /\ version < MaxVersion
           /\ kernel' \in Kernel!Consult(kernel)
  BY <1>1, RenderLocationEffect DEF Withdraws, IInv, TypeOK
<1>2. CASE Boot
  <2>1. kernel' \in Kernel!Consult(kernel)
    BY <1>2 DEF Boot, BootHashed, BootReady
  <2>2. CASE UNCHANGED <<fields, screen>>
    BY <2>1, <2>2 DEF Leaves, fields, screen
  <2>3. CASE bootPc = "readying" /\ RenderLocation /\ UNCHANGED hash
    BY <1>1, <2>1, <2>3 DEF IInv, TypeOK, BootHasRoom, Booting
  <2>4. QED
    BY <1>2, <2>2, <2>3 DEF Boot, BootHashed, BootReady, BootLocks
<1>3. CASE PasteTimerFires
  <2>1. kernel' \in Kernel!Consult(kernel) /\ UNCHANGED <<box, signerKey, version>>
    BY <1>3, ConsultFacts DEF PasteTimerFires, fields, IInv, TypeOK
  <2>2. CASE IsCurrent(timer) /\ CheckPasted(timer)
    <3>1. timer \in Versions /\ version' = timer
      BY <1>3, <2>1, <2>2 DEF IsCurrent, PasteTimerFires, IInv, TypeOK, Versions
    <3>2. content' \in {Blank, Failure}
      BY <2>1, <2>2, <3>1, CheckPastedEffect DEF IInv, TypeOK
    <3>3. QED
      BY <2>1, <3>2 DEF Withdraws, IInv, TypeOK
  <2>3. QED
    BY <1>3, <2>1, <2>2 DEF PasteTimerFires, Leaves, screen
<1>4. CASE \E v \in Versions : Settle(v)
  BY <1>4, SettleShape
<1>5. ASSUME NEW h \in Fragments, ChangeHash(h)
      PROVE  Withdraws
  <2>1. version < MaxVersion
    BY <1>5, MayActRoom DEF ChangeHash, RenderLocation
  <2>2. kernel' \in Kernel!Consult(kernel) /\ RenderLocation /\ hash' \in Fragments
    BY <1>5, ConsultFacts DEF ChangeHash, IInv, TypeOK
  <2>3. QED
    BY <2>1, <2>2, RenderLocationEffect DEF Withdraws, IInv, TypeOK
<1>6. CASE \/ \E t \in Texts : EditBox(t)
           \/ \E k \in Keys : EditKey(k)
  BY <1>6, ConsultFacts
     DEF EditBox, EditKey, OnPasteInput, PaintReceiptState, Withdraws, IInv, TypeOK
<1>7. CASE \/ PickFile("readingReceipt")
           \/ PickFile("readingKey")
  BY <1>7, ConsultFacts
     DEF PickFile, ShowReceiptError, Withdraws, Leaves, fields, IInv, TypeOK
<1>8. CASE UNCHANGED vars
  BY <1>8, ConsultFacts DEF vars, fields, screen, Leaves, IInv, TypeOK
<1>9. QED
  BY <1>2, <1>3, <1>4, <1>5, <1>6, <1>7, <1>8 DEF Next, Visitor

\* The promise's operators are the page's.
LEMMA SameOperators ==
  /\ \A t : Promise!Verifiable(t) <=> Verifiable(t)
  /\ \A t, k : Promise!KeyRead(t, k) = KeyRead(t, k)
  /\ \A t, x : Promise!Unjudgeable(t, x) <=> Unjudgeable(t, x)
  /\ \A t, k, x : Promise!Judge(t, k, x) = Judge(t, k, x)
  /\ \A t, k, j : Promise!Result(t, k, j) = Result(t, k, j)
  /\ Promise!Blank = Blank /\ Promise!Failure = Failure
  /\ \A x : Promise!Kernel!Consult(x) = Kernel!Consult(x)
BY DEF Promise!Verifiable, Verifiable, Promise!KeyRead, KeyRead,
       Promise!Unjudgeable, Unjudgeable, Promise!Judge, Judge, Promise!Passes,
       Passes, Promise!Signed, Signed, Promise!NeedsKernel, NeedsKernel,
       Promise!KernelFor, KernelFor, Promise!Result, Result, Promise!Blank, Blank,
       Promise!Failure, Failure, Promise!View, View, Promise!Kernel!Consult, Kernel!Consult

LEMMA PromiseStep ==
  ASSUME IInv, [Next]_vars
  PROVE  [Promise!Next]_(Promise!vars)
<1>1. CASE Withdraws
  BY <1>1, SameOperators DEF Withdraws, Promise!Next, Promise!Ask
<1>2. CASE Leaves
  BY <1>2, SameOperators
     DEF Leaves, Promise!Next, Promise!KernelNews, Promise!Kernel!Next
<1>3. CASE Answers
  BY <1>3, SameOperators DEF Answers, Promise!Next, Promise!Answer
<1>4. QED
  BY <1>1, <1>2, <1>3, NextShape

\* The page implements CheckerPromise: with all its races it shows what a
\* check that took no time would show.
THEOREM PageImplementsPromise == Spec => ImplementsPromise
<1>1. Init => Promise!Init
  BY SameOperators DEF Init, Promise!Init
<1>2. IInv /\ [Next]_vars => [Promise!Next]_(Promise!vars)
  BY PromiseStep
<1>3. QED
  BY <1>1, <1>2, Invariance, PTL DEF Spec, ImplementsPromise, Promise!Spec

\* The page consults the kernel as the service lets itself be consulted: the
\* specification the loader implements is the one the page relies on.
THEOREM PageUsesService == Spec => Kernel!Spec
<1>1. Init => Kernel!Init
  BY DEF Init, Kernel!Init
<1>2. [Promise!Next]_(Promise!vars) => [Kernel!Next]_kernel
  BY SameOperators
     DEF Promise!Next, Promise!Ask, Promise!Answer, Promise!KernelNews,
         Promise!Kernel!Next, Promise!vars, Kernel!Next
<1>3. Spec => Promise!Spec
  BY PageImplementsPromise DEF ImplementsPromise
<1>4. QED
  BY <1>1, <1>2, <1>3, PTL DEF Spec, Promise!Spec, Kernel!Spec

\* What a visitor may rely on, said of the promise alone.
PromiseKept ==
  /\ box \in Texts /\ signerKey \in Keys /\ kernel \in Kernel!KernelStates
  /\ content.kind = "result" =>
       content.doc = box /\ content.key = KeyRead(box, signerKey)
  /\ content.verdict = "pass" => Passes(box, signerKey, kernel)

\* The promise is worth implementing: whatever keeps it shows a verdict only
\* for what the fields hold, and a pass only for a document that deserves one
\* under the key in the field and the kernel of this browser.
THEOREM PromiseIsStrong ==
  Promise!Spec => []ShownResultIsOfFields /\ []PassIsEarned
<1>1. Promise!Init => PromiseKept
  BY SameOperators, TextsFacts
     DEF Promise!Init, PromiseKept, Blank, View, Kernel!KernelStates
<1>2. PromiseKept /\ [Promise!Next]_(Promise!vars) => PromiseKept'
  <2> SUFFICES ASSUME PromiseKept, [Promise!Next]_(Promise!vars)
               PROVE  PromiseKept'
    OBVIOUS
  <2>1. CASE Promise!Ask
    BY <2>1, SameOperators, ConsultFacts
       DEF Promise!Ask, PromiseKept, Blank, Failure, View
  <2>2. CASE Promise!Answer
    <3> DEFINE j == Judge(box, signerKey, kernel')
    <3>1. /\ kernel' \in Kernel!KernelStates /\ box' = box
          /\ signerKey' = signerKey
          /\ content' = Result(box, KeyRead(box, signerKey), j)
      BY <2>2, SameOperators, ConsultFacts DEF Promise!Answer, PromiseKept
    <3>2. j = "pass" => Passes(box, signerKey, kernel')
      BY DEF Judge
    <3> QED
      BY <3>1, <3>2 DEF PromiseKept, Result, View
  <2>3. CASE Promise!KernelNews
    <3>1. /\ kernel' \in Kernel!Consult(kernel) /\ box' = box
          /\ signerKey' = signerKey /\ content' = content
      BY <2>3, SameOperators DEF Promise!KernelNews, Promise!Kernel!Next
    <3> QED
      BY <3>1, ConsultFacts, PassesIsStable DEF PromiseKept
  <2>4. CASE UNCHANGED Promise!vars
    BY <2>4 DEF Promise!vars, PromiseKept
  <2> QED
    BY <2>1, <2>2, <2>3, <2>4 DEF Promise!Next
<1>3. PromiseKept => ShownResultIsOfFields /\ PassIsEarned
  BY DEF PromiseKept, ShownResultIsOfFields, PassIsEarned
<1> QED
  BY <1>1, <1>2, <1>3, PTL DEF Promise!Spec

-----------------------------------------------------------------------------
\* What the visitor typed.  The box changes without an edit only in the
\* continuation of a fetch or of a receipt file, so no such continuation may
\* belong to the generation that the text was typed for or kept through.
MayReplaceBox(v) == task[v].pc \in {"fetching", "readingReceipt"}

EditKept ==
  /\ edit.at <= version
  /\ edit.at = version /\ edit # NoEdit =>
       /\ version # 0
       /\ box = edit.text
       /\ ~MayReplaceBox(version)

\* A check that begins leaves its generation verifying or done.
LEMMA RoutedPc ==
  ASSUME TypeOK, NEW v \in Versions, NEW t \in Texts, signerKey' \in Keys,
         Route(v, t)
  PROVE  ~MayReplaceBox(v)'
<1>1. CASE RouteVerifiable(v, t)
  <2> DEFINE k == Task("verifying", t, KeyRead(t, signerKey'))
  <2>1. k \in Tasks /\ k.pc = "verifying"
    BY TaskFacts, KeyReadType DEF TaskPcs
  <2>2. task'[v] = k
    BY <1>1, <2>1, WaitEffect DEF RouteVerifiable
  <2>3. QED
    BY <2>1, <2>2 DEF MayReplaceBox
<1>2. CASE RouteRefused(v, t)
  BY <1>2, RetireEffect, TaskFacts DEF RouteRefused, MayReplaceBox
<1>3. QED
  BY <1>1, <1>2 DEF Route

LEMMA CheckedPc ==
  ASSUME TypeOK, NEW v \in Versions, box' \in Texts, signerKey' \in Keys,
         CheckPasted(v)
  PROVE  ~MayReplaceBox(v)'
<1>1. CASE RefuseText(v)
  BY <1>1, RetireEffect, TaskFacts DEF RefuseText, MayReplaceBox
<1>2. CASE RefuseLocked(v)
  BY <1>2, RetireEffect, TaskFacts DEF RefuseLocked, MayReplaceBox
<1>3. CASE RouteText(v)
  BY <1>3, RoutedPc DEF RouteText
<1>4. QED
  BY <1>1, <1>2, <1>3 DEF CheckPasted

\* Retiring a continuation, or leaving all alone, cannot bring one about.
LEMMA EditKeptWhileRetiring ==
  ASSUME IInv, EditKept, UNCHANGED <<box, version, edit>>,
         \A u \in Versions : task'[u] \in {task[u], Idle}
  PROVE  EditKept'
<1>1. version \in Versions \/ version = 0
  BY DEF IInv, TypeOK, Versions
<1>2. ~MayReplaceBox(version) /\ version # 0 => ~MayReplaceBox(version)'
  BY <1>1, TaskFacts DEF MayReplaceBox
<1>3. QED
  BY <1>2 DEF EditKept, MayReplaceBox

\* A generation that nobody typed for.
LEMMA EditKeptByNewer ==
  ASSUME IInv, EditKept, version' = version + 1, edit' \in {edit, NoEdit}
  PROVE  EditKept'
<1>1. version \in Nat /\ edit.at \in Nat /\ NoEdit.at = 0
  BY PageAssumption DEF IInv, TypeOK, NoEdit
<1>2. edit'.at <= version /\ edit'.at < version'
  BY <1>1 DEF EditKept
<1>3. QED
  BY <1>1, <1>2 DEF EditKept

LEMMA EditKeptByVisitor ==
  ASSUME IInv, EditKept, Visitor
  PROVE  EditKept'
<1>0. version \in Nat /\ edit.at \in Nat /\ NoEdit.at = 0
  BY PageAssumption DEF IInv, TypeOK, NoEdit
<1>1. CASE \E h \in Fragments : ChangeHash(h)
  <2>1. version' = version + 1 /\ edit' = NoEdit
    BY <1>1 DEF ChangeHash, RenderLocation
  <2>2. QED
    BY <2>1, EditKeptByNewer
<1>2. ASSUME OnPasteInput \/ UNCHANGED task, MayAct, version' = version + 1,
             bootPc' = bootPc
      PROVE  ~MayReplaceBox(version)'
  <2>1. version' \in Versions
    BY <1>2, MayActRoom
  <2>2. task'[version'] = Idle
    BY <1>0, <1>2, <2>1 DEF OnPasteInput, IInv, PendingHasBegun, TypeOK
  <2>3. QED
    BY <2>2, TaskFacts DEF MayReplaceBox
<1>3. ASSUME KeepEdit, version' = version + 1, box' = box, ~MayReplaceBox(version)'
      PROVE  EditKept'
  <2>1. CASE edit # NoEdit /\ edit.at = version
    <3>1. edit' = [edit EXCEPT !.at = version + 1]
      BY <1>3, <2>1 DEF KeepEdit
    <3>2. edit'.at = version' /\ edit'.text = edit.text /\ version' # 0
      BY <1>0, <1>3, <3>1 DEF IInv, TypeOK
    <3>3. box' = edit'.text
      BY <1>3, <2>1, <3>2 DEF EditKept
    <3>4. QED
      BY <1>0, <1>3, <3>2, <3>3 DEF EditKept
  <2>2. CASE ~(edit # NoEdit /\ edit.at = version)
    <3>1. edit' = edit
      BY <1>3, <2>2 DEF KeepEdit
    <3>2. QED
      BY <1>3, <3>1, EditKeptByNewer
  <2>3. QED
    BY <2>1, <2>2
<1>4. CASE \E t \in Texts : EditBox(t)
  <2>1. PICK t \in Texts : EditBox(t)
    BY <1>4
  <2>2. edit' = [at |-> version + 1, text |-> t] /\ box' = t
        /\ version' = version + 1 /\ ~MayReplaceBox(version)'
    BY <1>2, <2>1 DEF EditBox, OnPasteInput
  <2>3. QED
    BY <1>0, <2>2 DEF EditKept
<1>5. CASE \E k \in Keys : EditKey(k)
  <2>1. KeepEdit /\ version' = version + 1 /\ box' = box /\ ~MayReplaceBox(version)'
    BY <1>2, <1>5 DEF EditKey, OnPasteInput
  <2>2. QED
    BY <1>3, <2>1
<1>6. CASE PickFile("readingReceipt")
  <2>1. version' = version + 1 /\ edit' = NoEdit
    BY <1>6 DEF PickFile
  <2>2. QED
    BY <2>1, EditKeptByNewer
<1>7. CASE PickFile("readingKey")
  <2>1. KeepEdit /\ MayAct /\ version' = version + 1 /\ box' = box /\ bootPc' = bootPc
    BY <1>7 DEF PickFile, fields
  <2>2. version' \in Versions
    BY <2>1, MayActRoom
  <2>3. CASE Wait(version', Task("readingKey", NoText, NoKey))
    <3>1. Task("readingKey", NoText, NoKey) \in Tasks
          /\ Task("readingKey", NoText, NoKey).pc = "readingKey"
      BY TaskFacts, TextsFacts DEF TaskPcs
    <3>2. task'[version'] = Task("readingKey", NoText, NoKey)
      BY <2>2, <2>3, <3>1, WaitEffect DEF IInv
    <3>3. ~MayReplaceBox(version)'
      BY <3>1, <3>2 DEF MayReplaceBox
    <3>4. QED
      BY <1>3, <2>1, <3>3
  <2>4. CASE UNCHANGED task
    BY <1>2, <1>3, <2>1, <2>4
  <2>5. QED
    BY <1>7, <2>3, <2>4 DEF PickFile
<1>8. QED
  BY <1>1, <1>4, <1>5, <1>6, <1>7 DEF Visitor

\* Nothing that completes can replace a text that was typed for the current
\* generation.
LEMMA EditKeptBySettling ==
  ASSUME IInv, EditKept, NEW v \in Versions, Settle(v)
  PROVE  EditKept'
<1>1. UNCHANGED <<version, edit>>
  BY DEF Settle, FetchDone, FileDone, VerifyDone
<1>2. CASE UNCHANGED box /\ Retire(v)
  <2>1. \A u \in Versions : task'[u] \in {task[u], Idle}
    BY <1>2, RetireEffect DEF IInv, OnlyTask
  <2>2. QED
    BY <1>1, <1>2, <2>1, EditKeptWhileRetiring
<1>3. CASE IsCurrent(v) /\ MayReplaceBox(v)
  <2>1. ~(edit.at = version /\ edit # NoEdit)
    BY <1>3 DEF IsCurrent, EditKept
  <2>2. QED
    BY <1>1, <2>1 DEF EditKept
<1>4. CASE IsCurrent(v) /\ UNCHANGED box /\ signerKey' \in Keys /\ CheckPasted(v)
  <2>1. ~MayReplaceBox(v)'
    BY <1>4, CheckedPc DEF IInv, TypeOK
  <2>2. ~MayReplaceBox(version)'
    BY <1>1, <1>4, <2>1 DEF IsCurrent, MayReplaceBox
  <2>3. QED
    BY <1>1, <1>4, <2>2 DEF EditKept, MayReplaceBox
<1>5. CASE FetchDone(v)
  BY <1>2, <1>3, <1>5 DEF FetchDone, Superseded, MayReplaceBox, fields
<1>6. CASE FileDone(v)
  <2>1. CASE Superseded(v) \/ FileUnreadable(v)
    BY <1>2, <2>1 DEF Superseded, FileUnreadable, fields
  <2>2. CASE FileRead(v)
    BY <1>3, <1>4, <2>2 DEF FileRead, MayReplaceBox
  <2>3. QED
    BY <1>6, <2>1, <2>2 DEF FileDone
<1>7. CASE VerifyDone(v)
  BY <1>2, <1>7 DEF VerifyDone, Superseded, ShowOutcome, fields
<1>8. QED
  BY <1>5, <1>6, <1>7 DEF Settle

LEMMA EditKeptStep == IInv /\ EditKept /\ [Next]_vars => EditKept'
<1> SUFFICES ASSUME IInv, EditKept, [Next]_vars
             PROVE  EditKept'
  OBVIOUS
<1>1. CASE Boot
  <2>1. CASE UNCHANGED <<box, version, task, edit>>
    BY <2>1, EditKeptWhileRetiring
  <2>2. CASE RenderLocation /\ UNCHANGED edit
    BY <2>2, EditKeptByNewer DEF RenderLocation
  <2>3. QED
    BY <1>1, <2>1, <2>2 DEF Boot, BootHashed, BootReady, BootLocks, fields
<1>2. CASE PasteTimerFires
  <2>1. timer # 0 /\ UNCHANGED <<box, signerKey, version, edit>>
    BY <1>2 DEF PasteTimerFires, fields
  <2>2. timer \in Versions /\ box' \in Texts /\ signerKey' \in Keys
    BY <2>1 DEF IInv, TypeOK, Versions
  <2>3. CASE IsCurrent(timer) /\ CheckPasted(timer)
    <3>1. task'[timer].pc \notin {"fetching", "readingReceipt"}
      BY <2>2, <2>3, CheckedPc DEF IInv, MayReplaceBox
    <3>2. QED
      BY <2>1, <2>3, <3>1 DEF IsCurrent, EditKept, MayReplaceBox
  <2>4. CASE UNCHANGED <<task, screen>>
    BY <2>1, <2>4, EditKeptWhileRetiring
  <2>5. QED
    BY <1>2, <2>3, <2>4 DEF PasteTimerFires
<1>3. CASE \E v \in Versions : Settle(v)
  BY <1>3, EditKeptBySettling
<1>4. CASE Visitor
  BY <1>4, EditKeptByVisitor
<1>5. CASE UNCHANGED vars
  BY <1>5, EditKeptWhileRetiring DEF vars, fields
<1>6. QED
  BY <1>1, <1>2, <1>3, <1>4, <1>5 DEF Next

\* A text the visitor typed stands until something newer is asked for, through
\* every fetch, file, timer and verification begun before it (app.js 648-656).
THEOREM EditStandsSafe == Spec => []EditStands
<1>1. Init => EditKept
  BY DEF Init, EditKept, NoEdit
<1>2. EditKept => EditStands
  BY DEF EditKept, EditStands
<1>3. QED
  BY <1>1, <1>2, EditKeptStep, Invariance, PTL DEF Spec

-----------------------------------------------------------------------------
\* The safety half of EveryRequestAnswered: there is always something under way
\* for the newest generation, a timer or a continuation, or it has been dealt
\* with: the screen has a verdict or an error, or the page, locked, says that
\* it refuses the text in the box.  Before the first generation the page is
\* booting, or locked for good.
NothingForgotten ==
  /\ version = 0 =>
       /\ content = Blank /\ timer = 0
       /\ ~Booting => locked
  /\ version # 0 /\ timer # version /\ task[version] = Idle /\ content = Blank =>
       /\ pasteError /\ locked
       /\ box \notin Oversized /\ Family[box] # "unreadable"

\* A routed document is awaited or refused.
LEMMA RouteTells ==
  ASSUME TypeOK, NEW v \in Versions, box' \in Texts, signerKey' \in Keys,
         Route(v, box')
  PROVE  task'[v] # Idle \/ content' # Blank
<1>1. CASE RouteVerifiable(v, box')
  <2> DEFINE t == Task("verifying", box', KeyRead(box', signerKey'))
  <2>1. t \in Tasks /\ t.pc = "verifying"
    BY TaskFacts, KeyReadType DEF TaskPcs
  <2>2. task'[v] = t
    BY <1>1, <2>1, WaitEffect DEF RouteVerifiable
  <2> QED
    BY <2>1, <2>2, TaskFacts
<1>2. CASE RouteRefused(v, box')
  BY <1>2, ViewFacts DEF RouteRefused, ShowReceiptError
<1> QED
  BY <1>1, <1>2 DEF Route

LEMMA CheckPastedTells ==
  ASSUME TypeOK, NEW v \in Versions, box' \in Texts, signerKey' \in Keys,
         CheckPasted(v)
  PROVE  \/ task'[v] # Idle \/ content' # Blank
         \/ /\ pasteError' /\ locked
            /\ box' \notin Oversized /\ Family[box'] # "unreadable"
<1>1. CASE RefuseText(v)
  BY <1>1, ViewFacts DEF RefuseText, ShowReceiptError
<1>2. CASE RefuseLocked(v)
  BY <1>2 DEF RefuseLocked
<1>3. CASE RouteText(v)
  BY <1>3, RouteTells DEF RouteText
<1> QED
  BY <1>1, <1>2, <1>3 DEF CheckPasted

LEMMA RenderLocationTells ==
  ASSUME TypeOK, version < MaxVersion, hash' \in Fragments, RenderLocation
  PROVE  /\ version' # 0
         /\ task'[version'] # Idle \/ content' # Blank
<1>1. version' \in Versions /\ box' \in Texts /\ signerKey' \in Keys
      /\ version' # 0
  BY RenderLocationEffect DEF TypeOK, Versions
<1>2. CASE RenderExample(version')
  <2>1. Task("fetching", NoText, NoKey) \in Tasks
        /\ Task("fetching", NoText, NoKey).pc = "fetching"
    BY TaskFacts, TextsFacts DEF TaskPcs
  <2>2. task'[version'] = Task("fetching", NoText, NoKey)
    BY <1>1, <1>2, <2>1, WaitEffect DEF RenderExample
  <2> QED
    BY <1>1, <2>1, <2>2, TaskFacts
<1>3. CASE RefuseFragment(version')
  BY <1>1, <1>3, ViewFacts DEF RefuseFragment, ShowReceiptError
<1>4. CASE RouteFragment(version')
  BY <1>1, <1>4, RouteTells DEF RouteFragment
<1> QED
  BY <1>2, <1>3, <1>4 DEF RenderLocation

\* A continuation that settles belongs to a generation that has begun; the
\* current one's ends in an error, a verdict or another wait, and a superseded
\* one leaves the current generation alone.
LEMMA SettleTells ==
  ASSUME IInv, NothingForgotten, IInv', NEW v \in Versions, Settle(v)
  PROVE  NothingForgotten'
<1>1. UNCHANGED <<locked, bootPc, version, timer>>
  BY DEF Settle, FetchDone, FileDone, VerifyDone
<1>2. task[v] # Idle /\ version # 0 /\ version \in Versions
  <2>1. task[v] # Idle
    BY TaskFacts DEF Settle, FetchDone, FileDone, VerifyDone
  <2> QED
    BY <2>1 DEF IInv, PendingHasBegun, TypeOK, Versions
<1>3. CASE Superseded(v)
  <2>1. task'[version] = task[version] /\ UNCHANGED <<fields, screen>>
    BY <1>2, <1>3 DEF Superseded, IsCurrent, Retire, Wait, IInv, TypeOK
  <2> QED
    BY <1>1, <1>2, <2>1 DEF NothingForgotten, Booting, fields, screen
<1>4. CASE ~Superseded(v)
  <2>1. v = version /\ box' \in Texts /\ signerKey' \in Keys
    BY <1>4 DEF Settle, FetchDone, FileDone, FileUnreadable, FileRead, VerifyDone,
       ShowOutcome, IsCurrent, IInv, TypeOK
  <2>2. \/ task'[v] # Idle \/ content' # Blank
        \/ /\ pasteError' /\ locked
           /\ box' \notin Oversized /\ Family[box'] # "unreadable"
    <3>1. CASE FetchDone(v)
      <4>1. CASE ShowReceiptError
        BY <4>1, ViewFacts DEF ShowReceiptError
      <4>2. CASE box' = Example /\ Route(v, Example)
        BY <2>1, <4>2, RouteTells DEF IInv
      <4> QED
        BY <1>4, <3>1, <4>1, <4>2 DEF FetchDone
    <3>2. CASE FileDone(v)
      <4>1. CASE FileUnreadable(v)
        BY <4>1, ViewFacts DEF FileUnreadable, ShowReceiptError
      <4>2. CASE FileRead(v)
        BY <2>1, <4>2, CheckPastedTells DEF FileRead, IInv
      <4> QED
        BY <1>4, <3>2, <4>1, <4>2 DEF FileDone
    <3>3. CASE VerifyDone(v)
      <4> DEFINE r == Result(task[v].doc, task[v].key,
                             Judge(task[v].doc, task[v].key, kernel'))
      <4>1. content' = Failure \/ content' = r
        BY <1>4, <3>3 DEF VerifyDone, ShowOutcome, ShowReceiptError, ShowResult
      <4>2. r # Blank /\ Failure # Blank
        BY ViewFacts DEF Result, Blank, View
      <4> QED
        BY <4>1, <4>2
    <3> QED
      BY <3>1, <3>2, <3>3 DEF Settle
  <2> QED
    BY <1>1, <1>2, <2>1, <2>2 DEF NothingForgotten, Booting
<1> QED
  BY <1>3, <1>4

LEMMA NothingForgottenStep ==
  IInv /\ NothingForgotten /\ [Next]_vars => NothingForgotten'
<1> SUFFICES ASSUME IInv, NothingForgotten, [Next]_vars
             PROVE  NothingForgotten'
  OBVIOUS
<1>1. IInv'
  BY NextIInv
<1>2. CASE Boot
  <2>1. CASE BootLocks \/ (bootPc' = "readying" /\
               UNCHANGED <<locked, hash, fields, version, timer, task, screen, edit>>)
    BY <2>1 DEF BootLocks, NothingForgotten, Booting, fields, screen
  <2>2. CASE bootPc = "readying" /\ hash' = hash /\ RenderLocation
    <3>1. version < MaxVersion /\ hash' \in Fragments /\ TypeOK
      BY <2>2 DEF IInv, BootHasRoom, Booting, TypeOK
    <3> QED
      BY <2>2, <3>1, RenderLocationTells DEF NothingForgotten, Booting
  <2> QED
    BY <1>2, <2>1, <2>2 DEF Boot, BootHashed, BootReady
<1>3. CASE PasteTimerFires
  <2>1. CASE IsCurrent(timer)
    <3>1. timer \in Versions /\ version = timer
      BY <1>3, <2>1 DEF PasteTimerFires, IsCurrent, IInv, TypeOK, Versions
    <3>2. box' \in Texts /\ signerKey' \in Keys /\ CheckPasted(timer)
      BY <1>3, <2>1, <1>1 DEF PasteTimerFires, IInv, TypeOK
    <3>3. \/ task'[timer] # Idle \/ content' # Blank
          \/ /\ pasteError' /\ locked
             /\ box' \notin Oversized /\ Family[box'] # "unreadable"
      BY <3>1, <3>2, CheckPastedTells DEF IInv
    <3> QED
      BY <1>3, <3>1, <3>3 DEF PasteTimerFires, NothingForgotten, Booting, Versions
  <2>2. CASE ~IsCurrent(timer)
    BY <1>3, <2>2 DEF PasteTimerFires, IsCurrent, NothingForgotten, Booting, fields, screen
  <2> QED
    BY <2>1, <2>2
<1>4. CASE \E v \in Versions : Settle(v)
  BY <1>1, <1>4, SettleTells
<1>5. CASE \E h \in Fragments : ChangeHash(h)
  <2>1. MayAct /\ hash' \in Fragments /\ TypeOK /\ RenderLocation
    BY <1>5 DEF ChangeHash, IInv
  <2>2. version < MaxVersion
    BY <2>1, PageAssumption DEF MayAct, TypeOK
  <2> QED
    BY <2>1, <2>2, RenderLocationTells DEF NothingForgotten, Booting
<1>6. CASE \/ \E t \in Texts : EditBox(t)
           \/ \E k \in Keys : EditKey(k)
  <2>1. version' = version + 1 /\ timer' = version'
    BY <1>6 DEF EditBox, EditKey, OnPasteInput
  <2> QED
    BY <2>1 DEF NothingForgotten, Booting, IInv, TypeOK
<1>7. CASE PickFile("readingReceipt") \/ PickFile("readingKey")
  <2>1. version' = version + 1 /\ version' \in Versions /\ version' # 0
    BY <1>7, <1>1 DEF PickFile, IInv, TypeOK, Versions
  <2>2. PICK p \in {"readingReceipt", "readingKey"} : PickFile(p)
    BY <1>7
  <2>3. Task(p, NoText, NoKey) \in Tasks /\ Task(p, NoText, NoKey).pc = p
    BY TaskFacts, TextsFacts DEF TaskPcs
  <2>4. CASE Wait(version', Task(p, NoText, NoKey))
    <3>1. task'[version'] = Task(p, NoText, NoKey)
      BY <2>1, <2>3, <2>4, WaitEffect DEF IInv
    <3> QED
      BY <2>1, <2>3, <3>1, TaskFacts DEF NothingForgotten, Booting
  <2>5. CASE ShowReceiptError
    BY <2>1, <2>5, ViewFacts DEF ShowReceiptError, NothingForgotten, Booting
  <2> QED
    BY <2>2, <2>4, <2>5 DEF PickFile
<1>8. CASE UNCHANGED vars
  BY <1>8 DEF vars, fields, screen, NothingForgotten, Booting
<1> QED
  BY <1>2, <1>3, <1>4, <1>5, <1>6, <1>7, <1>8 DEF Next, Visitor

\* No invalidation leaves the page blank with nothing under way (app.js 525-552,
\* 648-656): what EveryRequestAnswered adds to this is only that what is under
\* way comes to its end.
THEOREM NothingForgottenSafe == Spec => []NothingForgotten
<1>1. Init => NothingForgotten
  BY DEF Init, NothingForgotten, Booting
<1> QED
  BY <1>1, NothingForgottenStep, Invariance, PTL DEF Spec
=============================================================================
