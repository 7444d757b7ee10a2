------------------------- MODULE LegacyRedirect_proofs -------------------------
(***************************************************************************)
(* Proofs about LegacyRedirect.  The invariant follows one request: from   *)
(* the memory tools.html writes, through a redirect that may never arrive, *)
(* to the script of index.html that takes the memory away.                 *)
(***************************************************************************)
EXTENDS LegacyRedirect, TLAPS

\* A memory is of the latest request, and only while its answer is pending.
MemoryIsPending ==
  storage # None =>
    /\ access = "ok" /\ last.pending
    /\ storage = [destination |-> Destination(last.request),
                  requested |-> RequestedHash(last.request)]

\* What tools.html has sent the visitor away with.
Underway ==
  page = "tools" /\ script = "sent" =>
    /\ last.request = fragment
    /\ access = "ok" => storage # None

\* What the script of index.html has to go by.
Arrived ==
  page = "index" =>
    /\ arrival = "redirect" /\ script = "due" =>
         /\ fragment = Destination(last.request)
         /\ access = "ok" => storage # None
    /\ arrival = "direct" => ~last.pending /\ ~referrer

RInv == TypeOK /\ MemoryIsPending /\ Underway /\ Arrived
             /\ MissingIsTold /\ NoticeIsDue

LEMMA DestinationType ==
  ASSUME NEW f \in Requests PROVE Destination(f) \in Names \cup {NoFragment}
  BY RedirectAssumption DEF Destination, Requests

LEMMA RInitially == Init => RInv
  <1>1. SUFFICES ASSUME Init PROVE RInv
    OBVIOUS
  <1>2. TypeOK
    BY <1>1 DEF Init, TypeOK, Requests
  <1> QED
    BY <1>1, <1>2 DEF Init, RInv, MemoryIsPending, Underway, Arrived,
         MissingIsTold, NoticeIsDue, Told

LEMMA RStep == RInv /\ [Next]_vars => RInv'
  <1> SUFFICES ASSUME RInv, [Next]_vars PROVE RInv'
    OBVIOUS
  <1> USE RedirectAssumption
  <1>t. TypeOK /\ MemoryIsPending /\ Underway /\ Arrived /\ MissingIsTold
          /\ NoticeIsDue
    BY DEF RInv
  <1>d. \A f \in Requests : Destination(f) \in Names \cup {NoFragment}
    BY DestinationType
  <1>1. ASSUME NEW f \in Requests, OpenTools(f) PROVE RInv'
    BY <1>1, <1>t DEF OpenTools, Load, RInv, TypeOK, MemoryIsPending, Underway,
         Arrived, MissingIsTold, NoticeIsDue, Told
  <1>2. CASE RunTools
    <2>1. CASE access = "denied"
      BY <2>1, <1>2, <1>t DEF RunTools, RInv, TypeOK, MemoryIsPending,
           Underway, Arrived, MissingIsTold, NoticeIsDue, Told
    <2>2. CASE access # "denied"
      <3> DEFINE memory == [destination |-> Destination(fragment),
                            requested |-> RequestedHash(fragment)]
      <3>1. /\ page = "tools" /\ page' = page /\ script' = "sent"
            /\ access' = access /\ moved' = moved /\ fragment' = fragment
            /\ referrer' = referrer /\ notice' = notice /\ arrival' = arrival
            /\ last' = [request |-> fragment, pending |-> TRUE]
            /\ storage' = IF access = "unwritable" THEN storage ELSE memory
        BY <1>2, <2>2 DEF RunTools
      <3>2. fragment \in Requests
        BY <3>1, <1>t DEF TypeOK
      <3>3. memory \in [destination : Names \cup {NoFragment},
                        requested : Requests]
        BY <3>2, <1>d DEF RequestedHash
      <3>4. TypeOK'
        <4>1. last' \in [request : Requests, pending : BOOLEAN]
          BY <3>1, <3>2
        <4>2. storage' \in [destination : Names \cup {NoFragment},
                            requested : Requests] \cup {None}
          <5> HIDE DEF memory
          <5> QED
            BY <3>1, <3>3, <1>t DEF TypeOK
        <4> QED
          BY <3>1, <4>1, <4>2, <1>t DEF TypeOK
      <3>5. storage' # None => access = "ok" /\ storage' = memory
        BY <3>1, <2>2, <1>t DEF TypeOK, MemoryIsPending
      <3>6. last'.request = fragment /\ last'.pending
        BY <3>1
      <3>7. MemoryIsPending'
        BY <3>1, <3>5, <3>6 DEF MemoryIsPending, Destination, RequestedHash
      <3>8. access = "ok" => storage' # None
        BY <3>1, <3>3
      <3> QED
        BY <3>1, <3>4, <3>6, <3>7, <3>8
           DEF RInv, Underway, Arrived, MissingIsTold, NoticeIsDue, Told
    <2> QED
      BY <2>1, <2>2
  <1>3. CASE RedirectArrives
    <2>1. TypeOK'
      BY <1>3, <1>t, <1>d DEF RedirectArrives, Load, TypeOK
    <2> QED
      BY <2>1, <1>3, <1>t DEF RedirectArrives, Load, RInv, MemoryIsPending,
           Underway, Arrived, MissingIsTold, NoticeIsDue, Told
  <1>4. CASE RedirectLost
    BY <1>4, <1>t DEF RedirectLost, Load, RInv, TypeOK, MemoryIsPending,
         Underway, Arrived, MissingIsTold, NoticeIsDue, Told
  <1>5. ASSUME NEW f \in Names \cup {NoFragment}, OpenIndex(f) PROVE RInv'
    BY <1>5, <1>t DEF OpenIndex, Load, RInv, TypeOK, MemoryIsPending,
         Underway, Arrived, MissingIsTold, NoticeIsDue, Told
  <1>6. ASSUME NEW f \in Names \cup {NoFragment}, ChangeHash(f) PROVE RInv'
    BY <1>6, <1>t DEF ChangeHash, RInv, TypeOK, MemoryIsPending,
         Underway, Arrived, MissingIsTold, NoticeIsDue, Told
  <1>7. CASE Leave
    BY <1>7, <1>t DEF Leave, Load, RInv, TypeOK, MemoryIsPending,
         Underway, Arrived, MissingIsTold, NoticeIsDue, Told
  <1>8. CASE Reload
    BY <1>8, <1>t DEF Reload, Load, RInv, TypeOK, MemoryIsPending,
         Underway, Arrived, MissingIsTold, NoticeIsDue, Told
  <1>9. CASE RevealMissing
    <2>0. /\ page' = page /\ fragment' = fragment /\ referrer' = referrer
          /\ arrival' = arrival /\ access' = access /\ moved' = moved
          /\ script' = "ended" /\ storage' = None
          /\ last' = [last EXCEPT !.pending = FALSE]
          /\ page = "index" /\ script = "due"
      BY <1>9 DEF RevealMissing
    <2>1. last'.request = last.request /\ last'.pending = FALSE
      BY <2>0, <1>t DEF TypeOK
    <2>2. fragment \in Names \cup {NoFragment} /\ last.request \in Requests
      BY <2>0, <1>t DEF TypeOK
    <2>3. storage # None => storage.requested = last.request
      BY <1>t DEF MemoryIsPending, RequestedHash
    <2>4. notice' = IF CameFromLegacyTools /\ Requested # NoFragment
                       /\ fragment \notin OnPage
                      THEN Requested ELSE None
      BY <1>9 DEF RevealMissing
    <2>5. Requested \in Requests
      BY <2>2, <2>3 DEF Requested, Requests
    <2>6. TypeOK'
      BY <2>0, <2>4, <2>5, <1>t DEF TypeOK, Requests
    <2>7. MissingIsTold'
      <3>1. SUFFICES
              ASSUME arrival = "redirect",
                     (access = "ok" /\ ~moved) \/ referrer,
                     NEW asked,
                     asked = IF access = "ok" THEN last.request
                             ELSE Destination(last.request),
                     asked # NoFragment, Destination(last.request) \notin OnPage
              PROVE  notice' = asked
        BY <2>0, <2>1 DEF MissingIsTold, Told, Destination
      <3>2. fragment = Destination(last.request)
        BY <3>1, <2>0, <1>t DEF Arrived
      <3>3. Requested = asked
        <4>1. CASE access = "ok"
          BY <4>1, <3>1, <2>0, <2>3, <1>t DEF Arrived, Requested
        <4>2. CASE access # "ok"
          BY <4>2, <3>1, <3>2, <1>t DEF MemoryIsPending, Requested
        <4> QED
          BY <4>1, <4>2
      <3>4. CameFromLegacyTools
        <4>1. CASE access = "ok" /\ ~moved
          BY <4>1, <3>1, <3>2, <2>0, <1>t DEF Arrived, MemoryIsPending,
               CameFromLegacyTools, Recognised
        <4>2. CASE referrer
          BY <4>2 DEF CameFromLegacyTools
        <4> QED
          BY <3>1, <4>1, <4>2
      <3> QED
        BY <3>1, <3>2, <3>3, <3>4, <2>4
    <2>8. NoticeIsDue'
      <3>1. SUFFICES ASSUME arrival # "reload", notice' # None
                     PROVE  /\ arrival \in {"redirect", "late"}
                            /\ arrival = "redirect" =>
                                 /\ notice' \in {last.request,
                                                 Destination(last.request)}
                                 /\ Destination(last.request) \notin OnPage
        BY <2>0, <2>1 DEF NoticeIsDue, Destination
      <3>2. CameFromLegacyTools /\ fragment \notin OnPage /\ notice' = Requested
        BY <3>1, <2>4
      <3>3. storage # None \/ referrer
        BY <3>2 DEF CameFromLegacyTools, Recognised
      <3>4. arrival # "direct"
        BY <3>3, <2>0, <1>t DEF Arrived, MemoryIsPending
      <3>5. arrival = "redirect" => fragment = Destination(last.request)
        BY <2>0, <1>t DEF Arrived
      <3> QED
        BY <3>1, <3>2, <3>4, <3>5, <2>3, <1>t DEF Requested, TypeOK
    <2> QED
      BY <2>0, <2>6, <2>7, <2>8 DEF RInv, MemoryIsPending, Underway, Arrived
  <1>10. CASE RevealDies
    BY <1>10, <1>t DEF RevealDies, RInv, TypeOK, MemoryIsPending,
         Underway, Arrived, MissingIsTold, NoticeIsDue, Told
  <1>11. CASE UNCHANGED vars
    BY <1>11, <1>t DEF vars, RInv, TypeOK, MemoryIsPending, Underway, Arrived,
         MissingIsTold, NoticeIsDue, Told, Destination, RequestedHash
  <1> QED
    BY <1>1, <1>2, <1>3, <1>4, <1>5, <1>6, <1>7, <1>8, <1>9, <1>10, <1>11
       DEF Next

LEMMA RInvariant == Spec => []RInv
  BY RInitially, RStep, PTL DEF Spec

-----------------------------------------------------------------------------
\* The tab, the memory and the notice keep their types.
THEOREM RedirectTypeCorrect == Spec => []TypeOK
  BY RInvariant, PTL DEF RInv

\* However redirects, losses, reloads and direct visits follow on each other, a
\* link to a section that is gone is answered by the name it asked for.
THEOREM MissingIsToldSafe == Spec => []MissingIsTold
  BY RInvariant, PTL DEF RInv

\* Nobody is told that something is gone who did not follow a legacy link.
THEOREM NoticeIsDueSafe == Spec => []NoticeIsDue
  BY RInvariant, PTL DEF RInv
=============================================================================
