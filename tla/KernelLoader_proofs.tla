------------------------- MODULE KernelLoader_proofs -------------------------
(***************************************************************************)
(* Proofs about KernelLoader, for any number of concurrent callers and any *)
(* binaries a server may deliver.                                          *)
(***************************************************************************)
EXTENDS KernelLoader, TLAPS

\* A request is on the network exactly while the bytes memo is pending, an
\* instantiation under way exactly while the module memo is.
MemosCountFlights ==
  /\ fetches = IF bytes.state = "pending" THEN 1 ELSE 0
  /\ builds = IF module.state = "pending" THEN 1 ELSE 0

\* Whatever was made from the bytes was made from the ones that are kept.
BytesAreKept ==
  /\ bytes.state = "ready" => bytes.binary \in Binaries
  /\ module.state \in {"pending", "ready"} =>
       bytes.state = "ready" /\ module.binary = bytes.binary
  /\ sha # NoBinary => bytes.state = "ready" /\ sha = bytes.binary
  /\ \A c \in Callers : pc[c] = "digesting" => bytes.state = "ready"

\* The thread belongs to the caller between its seal_init and its last
\* seal_decide, and the session is that caller's.
ThreadOwnsSession ==
  \A c \in Callers :
    /\ pc[c] = "deciding" <=> running = c
    /\ pc[c] = "deciding" =>
         /\ session.owner = c
         /\ session.steps < Steps(op[c])
    /\ pc[c] \in {"signing", "deciding"} => module.state = "ready"
    /\ pc[c] = "signing" => Steps(op[c]) > 0

\* A caller has a verdict only from its own session, on the module that is
\* there for good.
VerdictsAreOwn ==
  \A c \in Callers :
    verdict[c] # NoSession =>
      /\ pc[c] \in {"deciding", "done"}
      /\ module.state = "ready"
      /\ verdict[c].owner = c
      /\ verdict[c].steps <= Steps(op[c])
      /\ pc[c] = "done" => verdict[c].steps = Steps(op[c])

\* A replay that got past its identity check did so on the pinned hash.
ReplaysAreVetted ==
  \A c \in Callers :
    op[c] = "replay" =>
      /\ pc[c] \in {"atMod", "signing", "deciding"} => sha = Pinned
      /\ verdict[c] # NoSession => sha = Pinned

LInv ==
  /\ TypeOK
  /\ MemosCountFlights
  /\ BytesAreKept
  /\ ThreadOwnsSession
  /\ VerdictsAreOwn
  /\ ReplaysAreVetted

-----------------------------------------------------------------------------
LEMMA MemoFacts ==
  /\ None \in Memo /\ None \in ModMemo
  /\ None.state = "none" /\ None.binary = NoBinary
  /\ \A s, b : At(s, b).state = s /\ At(s, b).binary = b
  /\ \A s \in {"none", "pending", "rejecting", "ready"},
       b \in Binaries \cup {NoBinary} : At(s, b) \in Memo
  /\ \A s \in {"none", "atBytes", "pending", "rejecting", "ready"},
       b \in Binaries \cup {NoBinary} : At(s, b) \in ModMemo
BY DEF None, At, Memo, ModMemo

LEMMA GotoFacts ==
  ASSUME TypeOK, NEW c \in Callers, NEW w \in Pcs, Goto(c, w)
  PROVE  /\ pc' \in [Callers -> Pcs]
         /\ pc'[c] = w
         /\ \A d \in Callers \ {c} : pc'[d] = pc[d]
BY DEF TypeOK, Goto

\* Callers that throw were awaiting, and nobody else moves.
LEMMA ThrowFacts ==
  ASSUME TypeOK, NEW w \in {"atBytes", "atMod"}, Throw(w)
  PROVE  /\ pc' \in [Callers -> Pcs]
         /\ \A d \in Callers :
              \/ pc'[d] = pc[d]
              \/ pc[d] \in {"atBytes", "atMod"} /\ pc'[d] = "thrown"
BY DEF TypeOK, Throw, Pcs

LEMMA StepsFacts ==
  /\ \A o \in Ops : Steps(o) \in {0, 1, 2}
  /\ Steps("boot") = 0 /\ Steps("hash") = 0
BY DEF Steps, Ops

LEMMA InitLInv == Init => LInv
<1> SUFFICES ASSUME Init
             PROVE  LInv
  OBVIOUS
<1>1. TypeOK
  BY MemoFacts DEF Init, TypeOK, Ops, Pcs, Session, NoSession
<1>2. MemosCountFlights
  BY MemoFacts DEF Init, MemosCountFlights
<1>3. BytesAreKept
  BY MemoFacts DEF Init, BytesAreKept
<1>4. ThreadOwnsSession
  BY LoaderAssumption DEF Init, ThreadOwnsSession
<1>5. VerdictsAreOwn /\ ReplaysAreVetted
  BY DEF Init, VerdictsAreOwn, ReplaysAreVetted
<1>6. QED
  BY <1>1, <1>2, <1>3, <1>4, <1>5 DEF LInv

-----------------------------------------------------------------------------
\* kernelBytes() and mod() begin at most one request, and only when the memo is
\* empty.
LEMMA KernelBytesEffect ==
  ASSUME TypeOK, MemosCountFlights, KernelBytes
  PROVE  /\ bytes' \in Memo /\ fetches' \in Nat
         /\ fetches' = IF bytes'.state = "pending" THEN 1 ELSE 0
         /\ bytes.state = "none" \/ bytes' = bytes
BY MemoFacts DEF TypeOK, MemosCountFlights, KernelBytes

LEMMA ModEffect ==
  ASSUME TypeOK, MemosCountFlights, Mod
  PROVE  /\ bytes' \in Memo /\ fetches' \in Nat
         /\ fetches' = IF bytes'.state = "pending" THEN 1 ELSE 0
         /\ bytes.state = "none" \/ bytes' = bytes
         /\ module' \in ModMemo
         /\ module' = module \/ (module.state = "none" /\
                                 module'.state \in {"atBytes", "rejecting"})
<1>1. CASE KernelBytes
  BY <1>1, KernelBytesEffect, MemoFacts DEF Mod, TypeOK
<1>2. CASE UNCHANGED <<bytes, fetches>>
  BY <1>2, MemoFacts DEF Mod, TypeOK, MemosCountFlights
<1>3. QED
  BY <1>1, <1>2 DEF Mod

\* What AfterHash does for a caller that was handed digest h.
LEMMA AfterHashEffect ==
  ASSUME TypeOK, MemosCountFlights, NEW c \in Callers, NEW o \in Ops, NEW h,
         AfterHash(c, o, h)
  PROVE  /\ bytes' \in Memo /\ fetches' \in Nat
         /\ fetches' = IF bytes'.state = "pending" THEN 1 ELSE 0
         /\ bytes.state = "none" \/ bytes' = bytes
         /\ module' \in ModMemo
         /\ module' = module \/ (module.state = "none" /\
                                 module'.state \in {"atBytes", "rejecting"})
         /\ UNCHANGED <<script, builds>>
         /\ pc' \in [Callers -> Pcs]
         /\ pc'[c] \in {"atMod", "done", "failed"}
         /\ pc'[c] = "done" => Steps(o) = 0
         /\ pc'[c] = "atMod" /\ o = "replay" => h = Pinned
         /\ \A d \in Callers \ {c} : pc'[d] = pc[d]
<1>1. CASE EnterMod(c) /\ (NeedsMatch(o) => h = Pinned)
  <2>1. Goto(c, "atMod") /\ "atMod" \in Pcs /\ Mod /\ UNCHANGED <<script, builds>>
    BY <1>1 DEF EnterMod, Pcs
  <2>2. pc' \in [Callers -> Pcs] /\ pc'[c] = "atMod"
        /\ \A d \in Callers \ {c} : pc'[d] = pc[d]
    BY <2>1, GotoFacts
  <2>3. o = "replay" => h = Pinned
    BY <1>1 DEF NeedsMatch
  <2>4. QED
    BY <2>1, <2>2, <2>3, ModEffect
<1>2. CASE /\ UNCHANGED <<script, bytes, fetches, module, builds>>
           /\ \/ Goto(c, "done") /\ ~Loads(o)
              \/ Goto(c, "failed")
  <2>1. "done" \in Pcs /\ "failed" \in Pcs
    BY DEF Pcs
  <2>2. ~Loads(o) => Steps(o) = 0
    BY StepsFacts DEF Loads
  <2>3. /\ pc' \in [Callers -> Pcs]
        /\ pc'[c] \in {"done", "failed"}
        /\ pc'[c] = "done" => ~Loads(o)
        /\ \A d \in Callers \ {c} : pc'[d] = pc[d]
    BY <1>2, <2>1, GotoFacts
  <2>4. QED
    BY <1>2, <2>2, <2>3 DEF TypeOK, MemosCountFlights
<1>3. QED
  BY <1>1, <1>2 DEF AfterHash

-----------------------------------------------------------------------------
\* One lemma per action.

LEMMA CallStep ==
  ASSUME LInv, NEW c \in Callers, NEW o \in Ops, Call(c, o)
  PROVE  LInv'
<1>1. /\ bytes' \in Memo /\ fetches' \in Nat
      /\ fetches' = IF bytes'.state = "pending" THEN 1 ELSE 0
      /\ bytes.state = "none" \/ bytes' = bytes
      /\ module' \in ModMemo
      /\ module' = module \/ (module.state = "none" /\
                              module'.state \in {"atBytes", "rejecting"})
      /\ UNCHANGED <<script, builds>>
      /\ pc' \in [Callers -> Pcs]
      /\ pc'[c] \in {"atBytes", "atMod", "done", "failed"}
      /\ pc'[c] = "atMod" /\ o = "replay" => sha = Pinned
      /\ \A d \in Callers \ {c} : pc'[d] = pc[d]
  <2>1. CASE Hashes(o) /\ AfterHash(c, o, sha)
    BY <2>1, AfterHashEffect DEF LInv
  <2>2. CASE KernelBytes /\ Goto(c, "atBytes") /\ UNCHANGED <<script, module, builds>>
    <3>1. "atBytes" \in Pcs
      BY DEF Pcs
    <3>2. QED
      BY <2>2, <3>1, KernelBytesEffect, GotoFacts DEF LInv, TypeOK
  <2>3. CASE ~Hashes(o) /\ EnterMod(c)
    <3>1. "atMod" \in Pcs /\ o # "replay"
      BY <2>3 DEF Pcs, Hashes
    <3>2. QED
      BY <2>3, <3>1, ModEffect, GotoFacts DEF EnterMod, LInv
  <2>4. QED
    BY <2>1, <2>2, <2>3 DEF Call
<1>2. /\ op' = [op EXCEPT ![c] = o]
      /\ verdict' = [verdict EXCEPT ![c] = NoSession]
      /\ UNCHANGED <<sha, running, session>>
      /\ pc[c] \in Resting
  BY DEF Call
<1>3. TypeOK'
  BY <1>1, <1>2 DEF LInv, TypeOK, Session, NoSession
<1>4. MemosCountFlights'
  BY <1>1 DEF LInv, MemosCountFlights
<1>5. BytesAreKept'
  <2>1. bytes.state = "ready" => bytes' = bytes
    BY <1>1
  <2>2. module'.state \in {"pending", "ready"} => module' = module
    BY <1>1
  <2>3. \A d \in Callers : pc'[d] = "digesting" => pc[d] = "digesting"
    BY <1>1
  <2>4. bytes' = bytes \/ bytes'.state # "ready"
    BY <1>1, <1>2, MemoFacts DEF Call, AfterHash, EnterMod, Mod, KernelBytes
  <2>5. QED
    BY <1>2, <2>1, <2>2, <2>3, <2>4 DEF LInv, BytesAreKept
<1>6. ThreadOwnsSession'
  BY <1>1, <1>2 DEF LInv, TypeOK, ThreadOwnsSession, Resting
<1>7. VerdictsAreOwn'
  BY <1>1, <1>2 DEF LInv, TypeOK, VerdictsAreOwn, Resting
<1>8. ReplaysAreVetted'
  BY <1>1, <1>2 DEF LInv, TypeOK, ReplaysAreVetted, Resting
<1>9. QED
  BY <1>3, <1>4, <1>5, <1>6, <1>7, <1>8 DEF LInv

LEMMA RequestStep ==
  ASSUME LInv, RequestSettles
  PROVE  LInv'
<1>1. PICK b \in Binaries \cup {NoBinary} :
        /\ \/ bytes' = At("ready", b) /\ b \in Binaries
           \/ bytes' = At("rejecting", b)
        /\ fetches > 0 /\ fetches' = fetches - 1
        /\ UNCHANGED <<script, module, builds, sha, op, pc, deciding>>
  BY DEF RequestSettles, FetchDelivers, FetchFails
<1>2. bytes' \in Memo /\ bytes'.state \in {"ready", "rejecting"}
      /\ (bytes'.state = "ready" => bytes'.binary \in Binaries)
  BY <1>1, MemoFacts
<1>3. bytes.state = "pending" /\ fetches' = 0
  BY <1>1 DEF LInv, MemosCountFlights
<1>4. TypeOK'
  BY <1>1, <1>2, <1>3 DEF LInv, TypeOK, deciding
<1>5. MemosCountFlights'
  BY <1>1, <1>2, <1>3 DEF LInv, MemosCountFlights
<1>6. BytesAreKept'
  BY <1>1, <1>2, <1>3 DEF LInv, BytesAreKept
<1>7. ThreadOwnsSession' /\ VerdictsAreOwn' /\ ReplaysAreVetted'
  BY <1>1 DEF LInv, ThreadOwnsSession, VerdictsAreOwn, ReplaysAreVetted, deciding
<1>8. QED
  BY <1>4, <1>5, <1>6, <1>7 DEF LInv

LEMMA ResetBytesStep ==
  ASSUME LInv, ResetBytes
  PROVE  LInv'
<1>1. /\ bytes.state = "rejecting" /\ bytes' = None
      /\ \/ module' = module
         \/ module' = At("rejecting", NoBinary) /\ module.state = "atBytes"
      /\ UNCHANGED <<script, fetches, builds, sha, op, deciding>>
  BY DEF ResetBytes
<1>2. /\ pc' \in [Callers -> Pcs]
      /\ \A d \in Callers :
           \/ pc'[d] = pc[d]
           \/ pc[d] \in {"atBytes", "atMod"} /\ pc'[d] = "thrown"
  BY ThrowFacts DEF ResetBytes, LInv
<1>3. TypeOK'
  BY <1>1, <1>2, MemoFacts DEF LInv, TypeOK, deciding
<1>4. MemosCountFlights'
  BY <1>1, MemoFacts DEF LInv, MemosCountFlights
<1>5. BytesAreKept'
  BY <1>1, <1>2, MemoFacts DEF LInv, BytesAreKept
<1>6. ThreadOwnsSession' /\ VerdictsAreOwn' /\ ReplaysAreVetted'
  BY <1>1, <1>2, MemoFacts
     DEF LInv, ThreadOwnsSession, VerdictsAreOwn, ReplaysAreVetted, deciding
<1>7. QED
  BY <1>3, <1>4, <1>5, <1>6 DEF LInv

LEMMA InstantiateStep ==
  ASSUME LInv, Instantiate
  PROVE  LInv'
<1>1. /\ module.state = "atBytes" /\ bytes.state = "ready"
      /\ module' = At("pending", bytes.binary) /\ builds' = builds + 1
      /\ UNCHANGED <<script, bytes, fetches, sha, op, pc, deciding>>
  BY DEF Instantiate
<1>2. module' \in ModMemo /\ module'.state = "pending" /\ module'.binary = bytes.binary
  BY <1>1, MemoFacts DEF LInv, BytesAreKept
<1>3. TypeOK'
  BY <1>1, <1>2 DEF LInv, TypeOK, deciding
<1>4. MemosCountFlights' /\ BytesAreKept'
  BY <1>1, <1>2 DEF LInv, MemosCountFlights, BytesAreKept
<1>5. ThreadOwnsSession' /\ VerdictsAreOwn' /\ ReplaysAreVetted'
  BY <1>1 DEF LInv, ThreadOwnsSession, VerdictsAreOwn, ReplaysAreVetted, deciding
<1>6. QED
  BY <1>3, <1>4, <1>5 DEF LInv

LEMMA BuildStep ==
  ASSUME LInv, BuildSettles
  PROVE  LInv'
<1>1. /\ \/ module' = At("ready", module.binary)
         \/ module' = At("rejecting", NoBinary)
      /\ builds > 0 /\ builds' = builds - 1
      /\ UNCHANGED <<script, bytes, fetches, sha, op, pc, deciding>>
  BY DEF BuildSettles, ModuleBuilt, BuildFails
<1>2. module.state = "pending" /\ builds' = 0 /\ module.binary \in Binaries \cup {NoBinary}
  BY <1>1 DEF LInv, MemosCountFlights, TypeOK, ModMemo
<1>3. /\ module' \in ModMemo /\ module'.state \in {"ready", "rejecting"}
      /\ module'.state = "ready" => module'.binary = module.binary
  BY <1>1, <1>2, MemoFacts
<1>4. TypeOK'
  BY <1>1, <1>2, <1>3 DEF LInv, TypeOK, deciding
<1>5. MemosCountFlights' /\ BytesAreKept'
  BY <1>1, <1>2, <1>3 DEF LInv, MemosCountFlights, BytesAreKept
<1>6. ThreadOwnsSession' /\ VerdictsAreOwn' /\ ReplaysAreVetted'
  BY <1>1, <1>2 DEF LInv, ThreadOwnsSession, VerdictsAreOwn, ReplaysAreVetted, deciding
<1>7. QED
  BY <1>4, <1>5, <1>6 DEF LInv

LEMMA ResetModuleStep ==
  ASSUME LInv, ResetModule
  PROVE  LInv'
<1>1. /\ module.state = "rejecting" /\ module' = None
      /\ UNCHANGED <<script, bytes, fetches, builds, sha, op, deciding>>
  BY DEF ResetModule
<1>2. /\ pc' \in [Callers -> Pcs]
      /\ \A d \in Callers :
           \/ pc'[d] = pc[d]
           \/ pc[d] \in {"atBytes", "atMod"} /\ pc'[d] = "thrown"
  BY ThrowFacts DEF ResetModule, LInv
<1>3. TypeOK'
  BY <1>1, <1>2, MemoFacts DEF LInv, TypeOK, deciding
<1>4. MemosCountFlights' /\ BytesAreKept'
  BY <1>1, <1>2, MemoFacts DEF LInv, MemosCountFlights, BytesAreKept
<1>5. ThreadOwnsSession' /\ VerdictsAreOwn' /\ ReplaysAreVetted'
  BY <1>1, <1>2, MemoFacts
     DEF LInv, ThreadOwnsSession, VerdictsAreOwn, ReplaysAreVetted, deciding
<1>6. QED
  BY <1>3, <1>4, <1>5 DEF LInv

LEMMA StartDigestStep ==
  ASSUME LInv, NEW c \in Callers, StartDigest(c)
  PROVE  LInv'
<1>1. /\ pc[c] = "atBytes" /\ bytes.state = "ready"
      /\ UNCHANGED <<loading, op, deciding>>
  BY DEF StartDigest
<1>2. /\ pc' \in [Callers -> Pcs] /\ pc'[c] = "digesting"
      /\ \A d \in Callers \ {c} : pc'[d] = pc[d]
  <2>1. "digesting" \in Pcs
    BY DEF Pcs
  <2>2. QED
    BY <2>1, GotoFacts DEF StartDigest, LInv
<1>3. TypeOK' /\ MemosCountFlights' /\ BytesAreKept'
  BY <1>1, <1>2
     DEF LInv, TypeOK, MemosCountFlights, BytesAreKept, loading, deciding
<1>4. ThreadOwnsSession' /\ VerdictsAreOwn' /\ ReplaysAreVetted'
  BY <1>1, <1>2 DEF LInv, ThreadOwnsSession, VerdictsAreOwn, ReplaysAreVetted,
                    loading, deciding
<1>5. QED
  BY <1>3, <1>4 DEF LInv

LEMMA DigestDoneStep ==
  ASSUME LInv, NEW c \in Callers, DigestDone(c)
  PROVE  LInv'
<1>1. /\ pc[c] = "digesting" /\ sha' = bytes.binary
      /\ UNCHANGED <<op, deciding>>
  BY DEF DigestDone
<1>2. bytes.state = "ready" /\ bytes.binary \in Binaries
  BY <1>1 DEF LInv, BytesAreKept
<1>3. AfterHash(c, op[c], bytes.binary) /\ op[c] \in Ops
  BY <1>1 DEF DigestDone, LInv, TypeOK
<1>4. /\ bytes' \in Memo /\ fetches' \in Nat
      /\ fetches' = IF bytes'.state = "pending" THEN 1 ELSE 0
      /\ bytes.state = "none" \/ bytes' = bytes
      /\ module' \in ModMemo
      /\ module' = module \/ (module.state = "none" /\
                              module'.state \in {"atBytes", "rejecting"})
      /\ UNCHANGED <<script, builds>>
      /\ pc' \in [Callers -> Pcs]
      /\ pc'[c] \in {"atMod", "done", "failed"}
      /\ pc'[c] = "atMod" /\ op[c] = "replay" => bytes.binary = Pinned
      /\ \A d \in Callers \ {c} : pc'[d] = pc[d]
  BY <1>3, AfterHashEffect DEF LInv
<1>5. bytes' = bytes /\ sha' = bytes.binary
  BY <1>1, <1>2, <1>4
<1>6. sha # NoBinary => sha' = sha
  BY <1>1 DEF LInv, BytesAreKept
<1>7. Pinned # NoBinary
  BY LoaderAssumption
<1>8. TypeOK'
  BY <1>1, <1>2, <1>4 DEF LInv, TypeOK, deciding
<1>9. MemosCountFlights' /\ BytesAreKept'
  BY <1>1, <1>2, <1>4, <1>5 DEF LInv, MemosCountFlights, BytesAreKept
<1>10. verdict[c] = NoSession
  BY <1>1 DEF LInv, VerdictsAreOwn
<1>11. ThreadOwnsSession'
  BY <1>1, <1>4 DEF LInv, ThreadOwnsSession, deciding
<1>12. VerdictsAreOwn'
  BY <1>1, <1>4, <1>10 DEF LInv, VerdictsAreOwn, deciding
<1>13. ReplaysAreVetted'
  BY <1>1, <1>4, <1>5, <1>6, <1>7, <1>10 DEF LInv, ReplaysAreVetted, deciding
<1>14. QED
  BY <1>8, <1>9, <1>11, <1>12, <1>13 DEF LInv

-----------------------------------------------------------------------------
\* A step that moves one caller c, sitting on the finished module, within its
\* own call: to an end without a verdict, to the signing, or into its session.
LEMMA OwnMove ==
  ASSUME LInv, NEW c \in Callers, Idle,
         pc[c] \in {"atMod", "signing"}, module.state = "ready",
         pc' \in [Callers -> Pcs],
         \A d \in Callers \ {c} : pc'[d] = pc[d],
         session' \in Session,
         UNCHANGED <<loading, op, verdict>>,
         \/ pc'[c] \in {"done", "failed"} /\ running' = running
         \/ pc'[c] = "signing" /\ running' = running /\ Steps(op[c]) > 0
         \/ /\ pc'[c] = "deciding" /\ running' = c
            /\ session' = [owner |-> c, steps |-> 0]
            /\ Steps(op[c]) > 0
  PROVE  LInv'
<1>1. TypeOK' /\ MemosCountFlights' /\ BytesAreKept'
  BY DEF LInv, TypeOK, MemosCountFlights, BytesAreKept, loading
<1>2. verdict[c] = NoSession
  BY DEF LInv, VerdictsAreOwn
<1>3. \A d \in Callers : pc[d] # "deciding"
  BY LoaderAssumption DEF LInv, ThreadOwnsSession, Idle
<1>4. ThreadOwnsSession'
  BY <1>3, LoaderAssumption DEF LInv, ThreadOwnsSession, Idle, loading
<1>5. VerdictsAreOwn'
  BY <1>2 DEF LInv, VerdictsAreOwn, loading
<1>6. ReplaysAreVetted'
  BY <1>2 DEF LInv, ReplaysAreVetted, loading
<1>7. QED
  BY <1>1, <1>4, <1>5, <1>6 DEF LInv

\* What seal_init does for a caller that has steps to take.
LEMMA SealInitEffect ==
  ASSUME TypeOK, NEW c \in Callers, SealInit(c)
  PROVE  /\ session' \in Session
         /\ pc' \in [Callers -> Pcs]
         /\ \A d \in Callers \ {c} : pc'[d] = pc[d]
         /\ \/ pc'[c] = "failed" /\ running' = running
            \/ /\ pc'[c] = "deciding" /\ running' = c
               /\ session' = [owner |-> c, steps |-> 0]
<1>1. "deciding" \in Pcs /\ "failed" \in Pcs
  BY DEF Pcs
<1>2. CASE /\ running' = c /\ session' = [owner |-> c, steps |-> 0]
           /\ Goto(c, "deciding")
  BY <1>1, <1>2, GotoFacts DEF Session
<1>3. CASE /\ session' \in {session, NoSession} /\ Goto(c, "failed")
           /\ UNCHANGED running
  BY <1>1, <1>3, GotoFacts DEF Session, NoSession, TypeOK
<1>4. QED
  BY <1>2, <1>3 DEF SealInit

LEMMA ModuleReadyStep ==
  ASSUME LInv, NEW c \in Callers, ModuleReady(c)
  PROVE  LInv'
<1>1. /\ Idle /\ pc[c] = "atMod" /\ module.state = "ready"
      /\ UNCHANGED <<loading, op, verdict>>
  BY DEF ModuleReady
<1>2. CASE /\ UNCHANGED <<running, session>>
           /\ \/ Goto(c, "done")
              \/ Goto(c, "signing") /\ Steps(op[c]) > 0
  <2>1. "done" \in Pcs /\ "signing" \in Pcs
    BY DEF Pcs
  <2>2. /\ pc' \in [Callers -> Pcs]
        /\ \/ pc'[c] = "done"
           \/ pc'[c] = "signing" /\ Steps(op[c]) > 0
        /\ \A d \in Callers \ {c} : pc'[d] = pc[d]
    BY <1>2, <2>1, GotoFacts DEF LInv
  <2>3. session' \in Session
    BY <1>2 DEF LInv, TypeOK
  <2>4. QED
    BY <1>1, <1>2, <2>2, <2>3, OwnMove
<1>3. CASE Steps(op[c]) > 0 /\ SealInit(c)
  <2>1. /\ session' \in Session
        /\ pc' \in [Callers -> Pcs]
        /\ \A d \in Callers \ {c} : pc'[d] = pc[d]
        /\ \/ pc'[c] = "failed" /\ running' = running
           \/ /\ pc'[c] = "deciding" /\ running' = c
              /\ session' = [owner |-> c, steps |-> 0]
    BY <1>3, SealInitEffect DEF LInv
  <2>2. QED
    BY <1>1, <1>3, <2>1, OwnMove
<1>4. Signs(op[c]) => Steps(op[c]) > 0
  BY DEF Signs, Steps
<1>5. QED
  BY <1>2, <1>3, <1>4 DEF ModuleReady

LEMMA EnvelopeSignedStep ==
  ASSUME LInv, NEW c \in Callers, EnvelopeSigned(c)
  PROVE  LInv'
<1>1. /\ Idle /\ pc[c] = "signing" /\ SealInit(c)
      /\ UNCHANGED <<loading, op, verdict>>
  BY DEF EnvelopeSigned
<1>2. module.state = "ready"
  BY <1>1 DEF LInv, ThreadOwnsSession
<1>3. Steps(op[c]) > 0
  BY <1>1 DEF LInv, ThreadOwnsSession
<1>4. /\ session' \in Session
      /\ pc' \in [Callers -> Pcs]
      /\ \A d \in Callers \ {c} : pc'[d] = pc[d]
      /\ \/ pc'[c] = "failed" /\ running' = running
         \/ /\ pc'[c] = "deciding" /\ running' = c
            /\ session' = [owner |-> c, steps |-> 0]
  BY <1>1, SealInitEffect DEF LInv
<1>5. QED
  BY <1>1, <1>2, <1>3, <1>4, OwnMove

LEMMA SealDecideStep ==
  ASSUME LInv, NEW c \in Callers, SealDecide(c)
  PROVE  LInv'
<1>1. /\ pc[c] = "deciding" /\ running = c
      /\ session.owner = c /\ session.steps < Steps(op[c])
      /\ module.state = "ready"
      /\ UNCHANGED <<loading, op>>
  BY DEF SealDecide, LInv, ThreadOwnsSession
<1>2. Steps(op[c]) \in Nat
  BY StepsFacts DEF LInv, TypeOK
<1>3. /\ session' \in Session /\ session'.owner = c
      /\ session'.steps = session.steps + 1
      /\ session'.steps <= Steps(op[c])
  BY <1>1, <1>2 DEF SealDecide, LInv, TypeOK, Session
<1>4. \/ /\ verdict' = [verdict EXCEPT ![c] = session']
         /\ session'.steps < Steps(op[c]) /\ UNCHANGED <<pc, running>>
      \/ /\ verdict' = [verdict EXCEPT ![c] = session']
         /\ session'.steps = Steps(op[c])
         /\ Goto(c, "done") /\ running' = Nobody
      \/ /\ verdict' = [verdict EXCEPT ![c] = NoSession]
         /\ Goto(c, "failed") /\ running' = Nobody
  BY <1>2, <1>3 DEF SealDecide, Session
<1>5. /\ verdict' \in [Callers -> Session]
      /\ \A d \in Callers \ {c} : verdict'[d] = verdict[d]
      /\ verdict'[c] = session' \/ verdict'[c] = NoSession
  <2>1. NoSession \in Session
    BY DEF NoSession, Session
  <2> QED
    BY <1>3, <1>4, <2>1 DEF LInv, TypeOK
<1>6. /\ pc' \in [Callers -> Pcs]
      /\ \A d \in Callers \ {c} : pc'[d] = pc[d]
      /\ \/ /\ session'.steps < Steps(op[c])
            /\ pc'[c] = "deciding" /\ running' = c
         \/ /\ session'.steps = Steps(op[c])
            /\ pc'[c] = "done" /\ running' = Nobody
         \/ /\ verdict'[c] = NoSession
            /\ pc'[c] = "failed" /\ running' = Nobody
  <2>1. "done" \in Pcs /\ "failed" \in Pcs
    BY DEF Pcs
  <2>2. CASE UNCHANGED <<pc, running>> /\ session'.steps < Steps(op[c])
    BY <1>1, <2>2 DEF LInv, TypeOK
  <2>3. CASE /\ session'.steps = Steps(op[c])
             /\ Goto(c, "done") /\ running' = Nobody
    BY <2>1, <2>3, GotoFacts DEF LInv
  <2>4. CASE verdict'[c] = NoSession /\ Goto(c, "failed") /\ running' = Nobody
    BY <2>1, <2>4, GotoFacts DEF LInv
  <2>5. QED
    BY <1>4, <2>2, <2>3, <2>4 DEF LInv, TypeOK
<1>7. TypeOK' /\ MemosCountFlights' /\ BytesAreKept'
  BY <1>1, <1>3, <1>5, <1>6
     DEF LInv, TypeOK, MemosCountFlights, BytesAreKept, loading
<1>8. ThreadOwnsSession'
  <2>1. \A d \in Callers \ {c} : pc[d] # "deciding"
    BY <1>1 DEF LInv, ThreadOwnsSession
  <2>2. QED
    BY <1>1, <1>3, <1>6, <2>1, LoaderAssumption
       DEF LInv, ThreadOwnsSession, loading
<1>9. VerdictsAreOwn'
  BY <1>1, <1>3, <1>5, <1>6 DEF LInv, VerdictsAreOwn, loading
<1>10. ReplaysAreVetted'
  BY <1>1, <1>5, <1>6 DEF LInv, ReplaysAreVetted, loading
<1>11. QED
  BY <1>7, <1>8, <1>9, <1>10 DEF LInv

LEMMA UnwindStep ==
  ASSUME LInv, NEW c \in Callers, Unwind(c)
  PROVE  LInv'
<1>1. /\ Idle /\ pc[c] = "thrown"
      /\ UNCHANGED <<loading, op, deciding>>
  BY DEF Unwind
<1>2. /\ pc' \in [Callers -> Pcs] /\ pc'[c] = "failed"
      /\ \A d \in Callers \ {c} : pc'[d] = pc[d]
  <2>1. "failed" \in Pcs
    BY DEF Pcs
  <2>2. QED
    BY <2>1, GotoFacts DEF Unwind, LInv
<1>3. TypeOK' /\ MemosCountFlights' /\ BytesAreKept'
  BY <1>1, <1>2
     DEF LInv, TypeOK, MemosCountFlights, BytesAreKept, loading, deciding
<1>4. ThreadOwnsSession' /\ VerdictsAreOwn' /\ ReplaysAreVetted'
  BY <1>1, <1>2 DEF LInv, ThreadOwnsSession, VerdictsAreOwn, ReplaysAreVetted,
                    loading, deciding
<1>5. QED
  BY <1>3, <1>4 DEF LInv

LEMMA NextLInv ==
  ASSUME LInv, [Next]_vars
  PROVE  LInv'
<1>1. CASE UNCHANGED vars
  BY <1>1 DEF LInv, TypeOK, MemosCountFlights, BytesAreKept, ThreadOwnsSession,
              VerdictsAreOwn, ReplaysAreVetted, vars, loading, deciding
<1>2. CASE \E c \in Callers, o \in Ops : Call(c, o)
  BY <1>2, CallStep
<1>3. CASE RequestSettles \/ BuildSettles
  BY <1>3, RequestStep, BuildStep
<1>4. CASE ResetBytes \/ Instantiate \/ ResetModule
  BY <1>4, ResetBytesStep, InstantiateStep, ResetModuleStep
<1>5. CASE \E c \in Callers : Resume(c)
  BY <1>5, StartDigestStep, DigestDoneStep, ModuleReadyStep,
     EnvelopeSignedStep, SealDecideStep, UnwindStep DEF Resume
<1>6. QED
  BY <1>1, <1>2, <1>3, <1>4, <1>5 DEF Next

LEMMA Invariance == Spec => []LInv
<1>1. Init => LInv
  BY InitLInv
<1>2. LInv /\ [Next]_vars => LInv'
  BY NextLInv
<1>3. QED
  BY <1>1, <1>2, PTL DEF Spec

-----------------------------------------------------------------------------
\* Type correctness (kernel.js, its module state).
THEOREM LoaderTypeCorrect == Spec => []TypeOK
<1>1. LInv => TypeOK
  BY DEF LInv
<1>2. QED
  BY <1>1, Invariance, PTL

\* However many callers come at once, the memoised promises let one request
\* and one instantiation be under way, and none after success.
THEOREM SingleFlightSafe == Spec => []SingleFlight
<1>1. LInv => SingleFlight
  BY DEF LInv, MemosCountFlights, SingleFlight
<1>2. QED
  BY <1>1, Invariance, PTL

\* The digest that vouches for the kernel is the digest of what was
\* instantiated, also when attempts failed and the server changed its answer.
THEOREM HashedIsRunningSafe == Spec => []HashedIsRunning
<1>1. LInv => HashedIsRunning
  BY DEF LInv, BytesAreKept, HashedIsRunning
<1>2. QED
  BY <1>1, Invariance, PTL

\* A decision is always made in its own caller's session.
THEOREM JudgedInOwnSessionSafe == Spec => []JudgedInOwnSession
<1>1. LInv => JudgedInOwnSession
  BY DEF LInv, VerdictsAreOwn, JudgedInOwnSession
<1>2. QED
  BY <1>1, Invariance, PTL

\* A Protect replay is only ever decided by the pinned kernel.
THEOREM ReplayRunsPinnedSafe == Spec => []ReplayRunsPinned
<1>1. LInv => ReplayRunsPinned
  BY LoaderAssumption DEF LInv, BytesAreKept, VerdictsAreOwn, ReplaysAreVetted,
                          ReplayRunsPinned
<1>2. QED
  BY <1>1, Invariance, PTL

-----------------------------------------------------------------------------
\* Neither the digest nor the finished module is ever taken back.
LEMMA NothingTakenBack ==
  ASSUME LInv, [Next]_vars
  PROVE  /\ sha # NoBinary => sha' = sha
         /\ module.state = "ready" => module'.state = "ready"
<1>1. CASE UNCHANGED vars
  BY <1>1 DEF vars, loading
<1>2. ASSUME NEW c \in Callers, NEW o \in Ops, Call(c, o)
      PROVE  /\ sha' = sha
             /\ module.state = "ready" => module' = module
  BY <1>2 DEF Call, AfterHash, EnterMod, Mod
<1>3. CASE RequestSettles
  BY <1>3 DEF RequestSettles, FetchDelivers, FetchFails
<1>4. CASE BuildSettles
  <2>1. module.state = "pending" /\ sha' = sha
    BY <1>4 DEF BuildSettles, ModuleBuilt, BuildFails, LInv, MemosCountFlights
  <2>2. QED
    BY <2>1
<1>5. CASE ResetBytes \/ Instantiate \/ ResetModule
  BY <1>5, MemoFacts DEF ResetBytes, Instantiate, ResetModule
<1>6. ASSUME NEW c \in Callers, DigestDone(c)
      PROVE  /\ sha # NoBinary => sha' = sha
             /\ module.state = "ready" => module' = module
  <2>1. sha # NoBinary => sha' = sha
    BY <1>6 DEF DigestDone, LInv, BytesAreKept
  <2>2. module.state = "ready" => module' = module
    BY <1>6 DEF DigestDone, AfterHash, EnterMod, Mod
  <2>3. QED
    BY <2>1, <2>2
<1>7. ASSUME NEW c \in Callers, Resume(c), ~DigestDone(c)
      PROVE  UNCHANGED <<sha, module>>
  BY <1>7 DEF Resume, StartDigest, ModuleReady, EnvelopeSigned, SealDecide,
              Unwind, loading
<1>8. QED
  BY <1>1, <1>2, <1>3, <1>4, <1>5, <1>6, <1>7 DEF Next

\* kernel.js implements the service the page is modelled against: what it
\* says about the kernel only ever grows, from its identity to its readiness.
THEOREM LoaderImplementsService == Spec => ImplementsService
<1>1. Init => Service!Init
  BY DEF Init, Service!Init, KernelNow
<1>2. LInv /\ [Next]_vars => [Service!Next]_KernelNow
  <2>1. SUFFICES ASSUME LInv, [Next]_vars
                 PROVE  KernelNow' \in Service!Consult(KernelNow)
    BY DEF Service!Next
  <2>2. /\ sha # NoBinary => sha' = sha
        /\ module.state = "ready" => module'.state = "ready"
    BY <2>1, NothingTakenBack
  <2>3. CASE KernelNow = "absent"
    BY <2>3 DEF KernelNow, Service!Consult
  <2>4. CASE KernelNow = "mismatch"
    BY <2>2, <2>4 DEF KernelNow, Service!Consult
  <2>5. CASE KernelNow = "hashed"
    BY <2>2, <2>5 DEF KernelNow, Service!Consult
  <2>6. CASE KernelNow = "ready"
    BY <2>2, <2>6 DEF KernelNow, Service!Consult
  <2>7. QED
    BY <2>3, <2>4, <2>5, <2>6 DEF KernelNow
<1>3. QED
  BY <1>1, <1>2, Invariance, PTL DEF Spec, ImplementsService, Service!Spec

-----------------------------------------------------------------------------
\* The safety half of EveryCallSettles.  Whoever awaits the bytes or the module
\* awaits something that will be settled: a request or an instantiation is on
\* its way, or the memo has its outcome and the continuation is due.  And if
\* the thread is taken, then by a caller in the middle of its decisions.
BytesAreComing == fetches > 0 \/ bytes.state \in {"rejecting", "ready"}

NobodyIsStranded ==
  /\ \A c \in Callers :
       /\ pc[c] = "atBytes" => BytesAreComing
       /\ pc[c] = "atMod" =>
            \/ builds > 0 \/ module.state \in {"rejecting", "ready"}
            \/ module.state = "atBytes" /\ BytesAreComing
  /\ running # Nobody => running \in Callers /\ pc[running] = "deciding"

\* Inductively: no memo that is awaited has been cleared.
MemosStand ==
  /\ \A c \in Callers :
       /\ pc[c] = "atBytes" => bytes.state # "none"
       /\ pc[c] = "atMod" => module.state # "none"
  /\ module.state = "atBytes" => bytes.state # "none"

LEMMA KernelBytesStands ==
  KernelBytes => bytes'.state # "none"
BY MemoFacts DEF KernelBytes

LEMMA EnterModStands ==
  ASSUME TypeOK, MemosStand, NEW c \in Callers, EnterMod(c)
  PROVE  MemosStand'
<1>1. /\ pc' = [pc EXCEPT ![c] = "atMod"]
      /\ module'.state # "none"
      /\ module'.state = "atBytes" => bytes'.state # "none"
      /\ bytes' = bytes \/ bytes'.state # "none"
  BY MemoFacts, KernelBytesStands DEF EnterMod, Mod, Goto, MemosStand
<1> QED
  BY <1>1 DEF MemosStand, TypeOK

LEMMA AfterHashStands ==
  ASSUME TypeOK, MemosStand, NEW c \in Callers, NEW o, NEW h,
         AfterHash(c, o, h)
  PROVE  MemosStand'
<1>1. CASE EnterMod(c)
  BY <1>1, EnterModStands
<1>2. CASE /\ Goto(c, "done") \/ Goto(c, "failed")
           /\ UNCHANGED <<script, bytes, fetches, module, builds>>
  BY <1>2 DEF Goto, MemosStand, TypeOK
<1> QED
  BY <1>1, <1>2 DEF AfterHash

LEMMA CallStands ==
  ASSUME TypeOK, MemosStand, NEW c \in Callers, NEW o \in Ops, Call(c, o)
  PROVE  MemosStand'
<1>1. CASE AfterHash(c, o, sha)
  BY <1>1, AfterHashStands
<1>2. CASE KernelBytes /\ Goto(c, "atBytes") /\ UNCHANGED <<script, module, builds>>
  BY <1>2, KernelBytesStands DEF Goto, MemosStand, TypeOK
<1>3. CASE EnterMod(c)
  BY <1>3, EnterModStands
<1> QED
  BY <1>1, <1>2, <1>3 DEF Call

\* A memo is cleared only together with everyone who awaits it.
LEMMA ResetStands ==
  ASSUME TypeOK, MemosStand, ResetBytes \/ ResetModule
  PROVE  MemosStand'
<1>1. CASE ResetBytes
  <2>1. \A c \in Callers :
          /\ pc'[c] # "atBytes"
          /\ pc'[c] = "atMod" => pc[c] = "atMod"
    BY <1>1 DEF ResetBytes, Throw, TypeOK
  <2>2. /\ module'.state # "atBytes"
        /\ module.state # "none" => module'.state # "none"
    BY <1>1, MemoFacts DEF ResetBytes
  <2> QED
    BY <2>1, <2>2 DEF MemosStand
<1>2. CASE ResetModule
  <2>1. \A c \in Callers :
          /\ pc'[c] # "atMod"
          /\ pc'[c] = "atBytes" => pc[c] = "atBytes"
    BY <1>2 DEF ResetModule, Throw, TypeOK
  <2>2. bytes' = bytes /\ module'.state = "none"
    BY <1>2, MemoFacts DEF ResetModule
  <2> QED
    BY <2>1, <2>2 DEF MemosStand
<1> QED
  BY <1>1, <1>2

LEMMA SettleStands ==
  ASSUME TypeOK, MemosStand, RequestSettles \/ BuildSettles \/ Instantiate
  PROVE  MemosStand'
<1>1. CASE RequestSettles
  <2>1. bytes'.state # "none" /\ UNCHANGED <<module, pc>>
    BY <1>1, MemoFacts DEF RequestSettles, FetchDelivers, FetchFails
  <2> QED
    BY <2>1 DEF MemosStand
<1>2. CASE BuildSettles \/ Instantiate
  <2>1. module'.state \in {"pending", "ready", "rejecting"} /\ UNCHANGED <<bytes, pc>>
    BY <1>2, MemoFacts DEF BuildSettles, ModuleBuilt, BuildFails, Instantiate
  <2> QED
    BY <2>1 DEF MemosStand
<1> QED
  BY <1>1, <1>2

\* A caller that resumes leaves its memo behind it, or enters the next.
LEMMA ResumeStands ==
  ASSUME TypeOK, MemosStand, NEW c \in Callers, Resume(c)
  PROVE  MemosStand'
<1>1. CASE DigestDone(c)
  BY <1>1, AfterHashStands DEF DigestDone
<1>2. CASE ~DigestDone(c)
  <2>1. UNCHANGED <<bytes, module>>
    BY <1>2 DEF Resume, StartDigest, ModuleReady, EnvelopeSigned, SealDecide,
       Unwind, loading
  <2>2. pc' = pc \/ \E w \in {"digesting", "signing", "deciding", "done", "failed"} :
                    pc' = [pc EXCEPT ![c] = w]
    BY <1>2 DEF Resume, StartDigest, ModuleReady, EnvelopeSigned, SealDecide,
       SealInit, Unwind, Goto
  <2> QED
    BY <2>1, <2>2 DEF MemosStand, TypeOK
<1> QED
  BY <1>1, <1>2

LEMMA StandsFollows == LInv /\ MemosStand => NobodyIsStranded
<1> SUFFICES ASSUME LInv, MemosStand PROVE NobodyIsStranded
  OBVIOUS
<1>1. /\ bytes.state \in {"none", "pending", "rejecting", "ready"}
      /\ module.state \in {"none", "atBytes", "pending", "rejecting", "ready"}
      /\ running \in Callers \cup {Nobody}
  BY DEF LInv, TypeOK, Memo, ModMemo
<1>2. /\ bytes.state = "pending" => fetches > 0
      /\ module.state = "pending" => builds > 0
  BY DEF LInv, MemosCountFlights
<1>3. bytes.state # "none" => BytesAreComing
  BY <1>1, <1>2 DEF BytesAreComing
<1> QED
  BY <1>1, <1>2, <1>3 DEF MemosStand, NobodyIsStranded, LInv, ThreadOwnsSession

\* No caller waits for a promise that nobody will settle, however requests and
\* instantiations fail and callers retry: the memo is cleared in the same step
\* in which those who hold it are told (kernel.js 37-71).
THEOREM NobodyIsStrandedSafe == Spec => []NobodyIsStranded
<1>1. Init => MemosStand
  BY MemoFacts DEF Init, MemosStand
<1>2. LInv /\ MemosStand /\ [Next]_vars => MemosStand'
  <2> SUFFICES ASSUME LInv, MemosStand, [Next]_vars PROVE MemosStand'
    OBVIOUS
  <2>1. TypeOK
    BY DEF LInv
  <2>2. CASE Next
    BY <2>1, <2>2, CallStands, ResetStands, SettleStands, ResumeStands DEF Next
  <2>3. CASE UNCHANGED vars
    BY <2>3 DEF vars, loading, MemosStand
  <2> QED
    BY <2>2, <2>3
<1> QED
  BY <1>1, <1>2, Invariance, StandsFollows, PTL DEF Spec
=============================================================================
