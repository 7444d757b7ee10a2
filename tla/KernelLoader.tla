---------------------------- MODULE KernelLoader ----------------------------
(***************************************************************************)
(* kernel.js: one compiled kernel for the whole page, and the concurrent   *)
(* callers that fetch it, hash it, instantiate it and decide with it.      *)
(* Two promises are memoised (_kernelBytesPromise, _modPromise) and one    *)
(* value (_shaCache).  A step is one synchronous run of JavaScript between *)
(* two awaits, except in the three deciders, whose calls into the wasm     *)
(* instance are separate steps, so that the order of one caller's          *)
(* seal_init and seal_decide against another's can be told.                *)
(*                                                                         *)
(* A memo is "none" (null), "pending", "rejecting" (the inner promise has  *)
(* failed, its catch handler has not run yet) or "ready".  Whoever awaits  *)
(* a memo shares its fate, so callers need not name the attempt they await.*)
(***************************************************************************)
EXTENDS Integers, FiniteSets

CONSTANTS
  Callers,   \* the calls that can be under way at the same time
  Binaries,  \* what a fetch can deliver with a valid wasm header
  Pinned,    \* the binary KERNEL_WASM_SHA256 names
  NoBinary,
  Nobody

ASSUME LoaderAssumption ==
  /\ IsFiniteSet(Callers)
  /\ Pinned \in Binaries
  /\ NoBinary \notin Binaries
  /\ Nobody \notin Callers

VARIABLES
  script,    \* wasm/seal.js has installed window.SealModule
  bytes,     \* _kernelBytesPromise and the binary it delivers
  fetches,   \* requests for the binary on the network
  module,    \* _modPromise and the binary the instance was made from
  builds,    \* instantiations under way
  sha,       \* _shaCache: the binary whose digest it holds
  op,        \* what each caller was asked to do
  pc,        \* where it waits
  running,   \* the caller inside a synchronous run of wasm calls
  session,   \* the instance's state: who initialised it, decisions since
  verdict    \* per caller, the session its last decision was made in

loading == <<script, bytes, fetches, module, builds, sha>>
deciding == <<running, session, verdict>>
vars == <<loading, op, pc, deciding>>

-----------------------------------------------------------------------------
\* The operations of kernel.js, by what they do in turn:
\*   boot    verifyKernelSha, then ready() if the hash matches (app.js boot)
\*   hash    verifyKernelSha alone
\*   verify  verifyKernelSha, then decideSignedRaw whatever the hash was
\*   decide  decideRaw,  seq  decideSeqRaw with two steps
\*   replay  replayProtectRaw, which refuses a kernel whose hash differs
Ops == {"boot", "hash", "verify", "decide", "seq", "replay"}

\* Mutant of NeedsMatch: a replay goes ahead whatever the hash was.
NeedsMatchBootOnly(o) == o = "boot"

Hashes(o)     == o \in {"boot", "hash", "verify", "replay"}
NeedsMatch(o) == o \in {"boot", "replay"}
Loads(o)      == o # "hash"
Signs(o)      == o \in {"decide", "seq", "replay"}
Steps(o)      == IF o = "seq" THEN 2
                 ELSE IF o \in {"verify", "decide", "replay"} THEN 1 ELSE 0

Pcs == {"idle", "atBytes", "digesting", "atMod", "signing", "deciding",
        "thrown", "done", "failed"}
Resting == {"idle", "done", "failed"}

Memo == [state : {"none", "pending", "rejecting", "ready"},
         binary : Binaries \cup {NoBinary}]
ModMemo == [state : {"none", "atBytes", "pending", "rejecting", "ready"},
            binary : Binaries \cup {NoBinary}]
At(state, b) == [state |-> state, binary |-> b]
None == At("none", NoBinary)

Session == [owner : Callers \cup {Nobody}, steps : Nat]
NoSession == [owner |-> Nobody, steps |-> 0]

TypeOK ==
  /\ script \in BOOLEAN
  /\ bytes \in Memo
  /\ fetches \in Nat
  /\ module \in ModMemo
  /\ builds \in Nat
  /\ sha \in Binaries \cup {NoBinary}
  /\ op \in [Callers -> Ops]
  /\ pc \in [Callers -> Pcs]
  /\ running \in Callers \cup {Nobody}
  /\ session \in Session
  /\ verdict \in [Callers -> Session]

Init ==
  /\ script \in BOOLEAN
  /\ bytes = None
  /\ fetches = 0
  /\ module = None
  /\ builds = 0
  /\ sha = NoBinary
  /\ op = [c \in Callers |-> "hash"]
  /\ pc = [c \in Callers |-> "idle"]
  /\ running = Nobody
  /\ session = NoSession
  /\ verdict = [c \in Callers |-> NoSession]

\* Run to completion: nothing else runs inside a caller's run of wasm calls.
Idle == running = Nobody

Goto(c, where) == pc' = [pc EXCEPT ![c] = where]

\* Every caller awaiting at one place throws.
Throw(where) ==
  pc' = [c \in Callers |-> IF pc[c] = where THEN "thrown" ELSE pc[c]]

-----------------------------------------------------------------------------
\* Mutant of KernelBytes: the resolved value is memoised, not the promise.
KernelBytesByValue ==
  IF bytes.state # "ready"
  THEN UNCHANGED bytes /\ fetches' = fetches + 1
  ELSE UNCHANGED <<bytes, fetches>>

\* kernelBytes(): the memo is set before the request's first answer.
KernelBytes ==
  IF bytes.state = "none"
  THEN bytes' = At("pending", NoBinary) /\ fetches' = fetches + 1
  ELSE UNCHANGED <<bytes, fetches>>

\* mod(): without window.SealModule the inner promise is rejected at once.
Mod ==
  \/ /\ module.state = "none" /\ script
     /\ module' = At("atBytes", NoBinary)
     /\ KernelBytes
  \/ /\ module.state = "none" /\ ~script
     /\ module' = At("rejecting", NoBinary)
     /\ UNCHANGED <<bytes, fetches>>
  \/ /\ module.state # "none"
     /\ UNCHANGED <<bytes, fetches, module>>

EnterMod(c) == Mod /\ Goto(c, "atMod") /\ UNCHANGED <<script, builds>>

\* verifyKernelSha returned digest h to caller c, whose operation is o.
AfterHash(c, o, h) ==
  \/ /\ ~Loads(o)
     /\ Goto(c, "done")
     /\ UNCHANGED <<script, bytes, fetches, module, builds>>
  \/ /\ Loads(o) /\ NeedsMatch(o) /\ h # Pinned
     /\ Goto(c, "failed")
     /\ UNCHANGED <<script, bytes, fetches, module, builds>>
  \/ /\ Loads(o) /\ (NeedsMatch(o) => h = Pinned)
     /\ EnterMod(c)

\* A caller that hashes starts with the cached value or with kernelBytes();
\* the others start with mod().
Call(c, o) ==
  /\ Idle
  /\ pc[c] \in Resting
  /\ op' = [op EXCEPT ![c] = o]
  /\ verdict' = [verdict EXCEPT ![c] = NoSession]
  /\ \/ Hashes(o) /\ sha # NoBinary /\ AfterHash(c, o, sha)
     \/ /\ Hashes(o) /\ sha = NoBinary
        /\ KernelBytes
        /\ Goto(c, "atBytes")
        /\ UNCHANGED <<script, module, builds>>
     \/ ~Hashes(o) /\ EnterMod(c)
  /\ UNCHANGED <<sha, running, session>>

-----------------------------------------------------------------------------
\* The network answers with a binary, or fails: no connection, an HTTP error
\* or a header that is not wasm's.
FetchDelivers(b) ==
  /\ Idle
  /\ fetches > 0
  /\ fetches' = fetches - 1
  /\ bytes' = At("ready", b)
  /\ UNCHANGED <<script, module, builds, sha, op, pc, deciding>>

FetchFails ==
  /\ Idle
  /\ fetches > 0
  /\ fetches' = fetches - 1
  /\ bytes' = At("rejecting", NoBinary)
  /\ UNCHANGED <<script, module, builds, sha, op, pc, deciding>>

\* Mutant of ResetBytes: the rejected promise stays in the memo.
ResetBytesKeepsFailure ==
  /\ Idle
  /\ bytes.state = "rejecting"
  /\ Throw("atBytes")
  /\ module' = IF module.state = "atBytes" THEN At("rejecting", NoBinary)
                                           ELSE module
  /\ UNCHANGED <<script, bytes, fetches, builds, sha, op, deciding>>

\* Mutant of ResetBytes: a failed request is repeated for those who wait.
ResetBytesRetries ==
  /\ Idle
  /\ bytes.state = "rejecting"
  /\ bytes' = At("pending", NoBinary)
  /\ fetches' = fetches + 1
  /\ UNCHANGED <<script, module, builds, sha, op, pc, deciding>>

\* The catch handler clears the memo, and only then do those who await it see
\* the error: callers, and the body of mod().
ResetBytes ==
  /\ Idle
  /\ bytes.state = "rejecting"
  /\ bytes' = None
  /\ Throw("atBytes")
  /\ module' = IF module.state = "atBytes" THEN At("rejecting", NoBinary)
                                           ELSE module
  /\ UNCHANGED <<script, fetches, builds, sha, op, deciding>>

\* Mutant of Instantiate: emscripten gets the shared buffer and detaches it.
InstantiateDetaches ==
  /\ Idle
  /\ module.state = "atBytes" /\ bytes.state = "ready"
  /\ module' = At("pending", bytes.binary)
  /\ bytes' = At("ready", "detached")
  /\ builds' = builds + 1
  /\ UNCHANGED <<script, fetches, sha, op, pc, deciding>>

\* Mutant of Instantiate: emscripten fetches the binary for itself.
InstantiateRefetches ==
  /\ Idle
  /\ module.state = "atBytes" /\ bytes.state = "ready"
  /\ \E b \in Binaries : module' = At("pending", b)
  /\ builds' = builds + 1
  /\ UNCHANGED <<script, bytes, fetches, sha, op, pc, deciding>>

\* mod() resumes with the bytes and hands a copy of them to emscripten.
Instantiate ==
  /\ Idle
  /\ module.state = "atBytes" /\ bytes.state = "ready"
  /\ module' = At("pending", bytes.binary)
  /\ builds' = builds + 1
  /\ UNCHANGED <<script, bytes, fetches, sha, op, pc, deciding>>

ModuleBuilt ==
  /\ Idle
  /\ builds > 0
  /\ builds' = builds - 1
  /\ module' = At("ready", module.binary)
  /\ UNCHANGED <<script, bytes, fetches, sha, op, pc, deciding>>

BuildFails ==
  /\ Idle
  /\ builds > 0
  /\ builds' = builds - 1
  /\ module' = At("rejecting", NoBinary)
  /\ UNCHANGED <<script, bytes, fetches, sha, op, pc, deciding>>

\* Mutant of ResetModule: the hash is forgotten together with the module.
ResetModuleAndHash ==
  /\ Idle
  /\ module.state = "rejecting"
  /\ module' = None
  /\ sha' = NoBinary
  /\ Throw("atMod")
  /\ UNCHANGED <<script, bytes, fetches, builds, op, deciding>>

ResetModule ==
  /\ Idle
  /\ module.state = "rejecting"
  /\ module' = None
  /\ Throw("atMod")
  /\ UNCHANGED <<script, bytes, fetches, builds, sha, op, deciding>>

-----------------------------------------------------------------------------
\* verifyKernelSha resumes: with the bytes, it digests them; with the digest,
\* it caches the result.
StartDigest(c) ==
  /\ Idle
  /\ pc[c] = "atBytes" /\ bytes.state = "ready"
  /\ Goto(c, "digesting")
  /\ UNCHANGED <<loading, op, deciding>>

DigestDone(c) ==
  /\ Idle
  /\ pc[c] = "digesting"
  /\ sha' = bytes.binary
  /\ AfterHash(c, op[c], sha')
  /\ UNCHANGED <<op, deciding>>

\* Mutant of SealInit: something is awaited between seal_init and seal_decide.
SealInitYields(c) ==
  /\ session' = [owner |-> c, steps |-> 0]
  /\ Goto(c, "deciding")
  /\ UNCHANGED running

\* mod() resumes with the instance: boot is done; the deciders that build a
\* local envelope sign it first; decideSignedRaw goes straight on.
SealInit(c) ==
  \/ /\ running' = c
     /\ session' = [owner |-> c, steps |-> 0]
     /\ Goto(c, "deciding")
  \/ /\ session' \in {session, NoSession}
     /\ Goto(c, "failed")
     /\ UNCHANGED running

ModuleReady(c) ==
  /\ Idle
  /\ pc[c] = "atMod" /\ module.state = "ready"
  /\ \/ Steps(op[c]) = 0 /\ Goto(c, "done") /\ UNCHANGED <<running, session>>
     \/ Signs(op[c]) /\ Goto(c, "signing") /\ UNCHANGED <<running, session>>
     \/ Steps(op[c]) > 0 /\ ~Signs(op[c]) /\ SealInit(c)
  /\ UNCHANGED <<loading, op, verdict>>

EnvelopeSigned(c) ==
  /\ Idle
  /\ pc[c] = "signing"
  /\ SealInit(c)
  /\ UNCHANGED <<loading, op, verdict>>

\* One seal_decide.  It advances whatever session the instance is in; the call
\* may trap, or its answer be none that can be parsed.
SealDecide(c) ==
  /\ running \in {c, Nobody}
  /\ pc[c] = "deciding"
  /\ session' = [session EXCEPT !.steps = @ + 1]
  /\ \/ /\ verdict' = [verdict EXCEPT ![c] = session']
        /\ IF session'.steps < Steps(op[c])
           THEN UNCHANGED <<pc, running>>
           ELSE Goto(c, "done") /\ running' = Nobody
     \/ /\ verdict' = [verdict EXCEPT ![c] = NoSession]
        /\ Goto(c, "failed") /\ running' = Nobody
  /\ UNCHANGED <<loading, op>>

Unwind(c) ==
  /\ Idle
  /\ pc[c] = "thrown"
  /\ Goto(c, "failed")
  /\ UNCHANGED <<loading, op, deciding>>

-----------------------------------------------------------------------------
RequestSettles == (\E b \in Binaries : FetchDelivers(b)) \/ FetchFails
BuildSettles   == ModuleBuilt \/ BuildFails

Resume(c) ==
  \/ StartDigest(c)
  \/ DigestDone(c)
  \/ ModuleReady(c)
  \/ EnvelopeSigned(c)
  \/ SealDecide(c)
  \/ Unwind(c)

Next ==
  \/ \E c \in Callers, o \in Ops : Call(c, o)
  \/ RequestSettles
  \/ BuildSettles
  \/ ResetBytes
  \/ Instantiate
  \/ ResetModule
  \/ \E c \in Callers : Resume(c)

Spec == Init /\ [][Next]_vars

\* Requests and instantiations settle one way or the other; continuations are
\* queued and run in turn, so one that can run again and again does run.
Fairness ==
  /\ SF_vars(RequestSettles)
  /\ SF_vars(BuildSettles)
  /\ SF_vars(ResetBytes)
  /\ SF_vars(Instantiate)
  /\ SF_vars(ResetModule)
  /\ \A c \in Callers : SF_vars(Resume(c))

FairSpec == Spec /\ Fairness

-----------------------------------------------------------------------------
\* The memoised promises make concurrent callers share one request and one
\* instantiation, and none is made once there is a result (kernel.js 31-36).
SingleFlight ==
  /\ fetches <= 1
  /\ builds <= 1
  /\ bytes.state = "ready" => fetches = 0
  /\ module.state = "ready" => builds = 0

\* The binary whose hash vouches for the kernel is the binary that runs:
\* whatever the network delivered to other attempts (kernel.js 31-36, 63).
HashedIsRunning ==
  /\ sha # NoBinary => sha = bytes.binary
  /\ module.state = "ready" => module.binary = bytes.binary

\* A decision is made in the session its own caller initialised, and in no
\* more steps than that caller took: concurrent checks cannot judge one
\* receipt under another's policy or history (kernel.js 141-181).
JudgedInOwnSession ==
  \A c \in Callers :
    verdict[c] # NoSession =>
      /\ verdict[c].owner = c
      /\ verdict[c].steps <= Steps(op[c])
      /\ pc[c] = "done" => verdict[c].steps = Steps(op[c])

\* A Protect replay never runs on a kernel that is not the pinned one
\* (kernel.js 257-258).
ReplayRunsPinned ==
  \A c \in Callers :
    op[c] = "replay" /\ verdict[c] # NoSession => module.binary = Pinned

\* The news the page gets is never taken back.
KernelNow ==
  IF sha = NoBinary THEN "absent"
  ELSE IF sha # Pinned THEN "mismatch"
  ELSE IF module.state = "ready" THEN "ready" ELSE "hashed"

Service == INSTANCE KernelService WITH kernel <- KernelNow
ImplementsService == Service!Spec

\* Every call ends, by a result or by an error.
EveryCallSettles ==
  \A c \in Callers : (pc[c] \notin Resting) ~> (pc[c] \in Resting)

\* A failure is not remembered: on a network that is not down for ever, with
\* an instantiation that does not fail for ever, a visitor who keeps coming
\* back gets the kernel, provided the page loaded seal.js.
WorldRecovers ==
  /\ SF_vars(\E b \in Binaries : FetchDelivers(b))
  /\ SF_vars(ModuleBuilt)
  /\ \A c \in Callers : WF_vars(Call(c, "verify"))

FailureIsForgotten == WorldRecovers /\ script => <>[](module.state = "ready")
=============================================================================
