---------------------------- MODULE LegacyRedirect ----------------------------
(***************************************************************************)
(* One tab that follows links to the retired tools.html                    *)
(* (legacy-tools-redirect.js, tools.html, index.html).  tools.html         *)
(* remembers in session storage where it sends the visitor and for which   *)
(* fragment; index.html takes the memory, or else the referrer, to decide  *)
(* whether to say that the requested section is gone.  Storage may be      *)
(* unwritable or denied, the redirect may get lost on the network, the     *)
(* referrer may be withheld, and a host may serve index.html elsewhere.    *)
(***************************************************************************)
CONSTANTS
  Names,        \* the fragments a link may name
  OnPage,       \* those that are ids of index.html
  Target,       \* LEGACY_TOOLS_ANCHOR_TARGETS, the identity elsewhere
  NoFragment,   \* no "#"
  Bare,         \* "#", or whitespace that the URL parser drops
  None

Requests == Names \cup {NoFragment, Bare}

ASSUME RedirectAssumption ==
  /\ OnPage \subseteq Names
  /\ Target \in [Names -> Names]
  /\ NoFragment \notin Names /\ Bare \notin Names /\ NoFragment # Bare
  /\ None \notin Requests
  /\ None \notin [destination : Names \cup {NoFragment}, requested : Requests]

VARIABLES
  access,    \* session storage: "ok", "unwritable" or "denied"
  moved,     \* the host serves index.html under another URL
  storage,   \* the remembered navigation
  page,      \* where the tab is
  fragment,  \* of its URL
  referrer,  \* document.referrer is that of tools.html
  script,    \* the page's script: "idle", "due", "sent", "ended" or "died"
  notice,    \* None, or what is said to be gone; Bare is the unnamed notice
  arrival,   \* history: how the tab came to the page
  last       \* history: the request of the last redirect; is its answer pending?

vars == <<access, moved, storage, page, fragment, referrer, script, notice,
          arrival, last>>

TypeOK ==
  /\ access \in {"ok", "unwritable", "denied"}
  /\ moved \in BOOLEAN /\ referrer \in BOOLEAN
  /\ storage \in [destination : Names \cup {NoFragment}, requested : Requests]
                 \cup {None}
  /\ page \in {"elsewhere", "tools", "index"}
  /\ fragment \in IF page = "tools" THEN Requests ELSE Names \cup {NoFragment}
  /\ script \in {"idle", "due", "sent", "ended", "died"}
  /\ notice \in Names \cup {Bare, None}
  /\ arrival \in {"direct", "redirect", "late", "reload"}
  /\ last \in [request : Requests, pending : BOOLEAN]

Load(p, f, how) ==
  /\ page' = p /\ fragment' = f /\ arrival' = how
  /\ script' = IF p = "elsewhere" THEN "idle" ELSE "due"
  /\ notice' = None

Init ==
  /\ access \in {"ok", "unwritable", "denied"}
  /\ moved \in BOOLEAN
  /\ storage = None
  /\ page = "elsewhere" /\ fragment = NoFragment /\ arrival = "direct"
  /\ referrer = FALSE /\ script = "idle" /\ notice = None
  /\ last = [request |-> NoFragment, pending |-> FALSE]

-----------------------------------------------------------------------------
\* Mutant of RequestedHash: the delimiter that Chromium collapses is not
\* recovered.
RequestedHashCollapsed(f) == IF f = Bare THEN NoFragment ELSE f

RequestedHash(f) == f

\* Mutant of Destination: a bare delimiter is carried over.
DestinationBare(f) == IF f \in Names THEN Target[f] ELSE f

Destination(f) == IF f \in Names THEN Target[f] ELSE NoFragment

OpenTools(f) ==
  /\ page # "tools"
  /\ Load("tools", f, "direct")
  /\ referrer' = FALSE
  /\ UNCHANGED <<access, moved, storage, last>>

\* The module script of tools.html.  sessionStorage is an argument: where it is
\* denied, the script ends there; a failing setItem is caught.
RunTools ==
  /\ page = "tools" /\ script = "due"
  /\ IF access = "denied" THEN script' = "died" /\ UNCHANGED <<storage, last>>
     ELSE /\ storage' = IF access = "unwritable" THEN storage
                        ELSE [destination |-> Destination(fragment),
                              requested |-> RequestedHash(fragment)]
          /\ script' = "sent"
          /\ last' = [request |-> fragment, pending |-> TRUE]
  /\ UNCHANGED <<access, moved, page, fragment, referrer, notice, arrival>>

RedirectArrives ==
  /\ page = "tools" /\ script = "sent"
  /\ Load("index", Destination(fragment), "redirect")
  /\ referrer' \in BOOLEAN
  /\ UNCHANGED <<access, moved, storage, last>>

RedirectLost ==
  /\ page = "tools" /\ script = "sent"
  /\ Load("elsewhere", NoFragment, "direct")
  /\ referrer' = FALSE
  /\ UNCHANGED <<access, moved, storage, last>>

\* The visitor comes by himself, perhaps while a redirect is unanswered.
OpenIndex(f) ==
  /\ page # "index"
  /\ Load("index", f, IF last.pending THEN "late" ELSE "direct")
  /\ referrer' = FALSE
  /\ UNCHANGED <<access, moved, storage, last>>

Leave ==
  /\ page # "elsewhere"
  /\ Load("elsewhere", NoFragment, "direct")
  /\ referrer' = FALSE
  /\ UNCHANGED <<access, moved, storage, last>>

\* Nothing is loaded; the script may still be due.
ChangeHash(f) ==
  /\ page = "index" /\ f # fragment
  /\ fragment' = f
  /\ arrival' = IF script = "due" /\ arrival = "redirect" THEN "late" ELSE arrival
  /\ UNCHANGED <<access, moved, storage, page, referrer, script, notice, last>>

\* A reloaded document keeps its referrer.
Reload ==
  /\ page = "index"
  /\ Load("index", fragment, "reload")
  /\ UNCHANGED <<access, moved, storage, referrer, last>>

-----------------------------------------------------------------------------
\* The URL tools.html sent the visitor to, if the host did not change it.
Recognised == storage # None /\ ~moved /\ storage.destination = fragment

CameFromLegacyTools == Recognised \/ referrer

\* The memory stands for the request, whatever it was remembered for.
Requested == IF storage # None THEN storage.requested ELSE fragment

\* Mutant of RevealMissing: the memory is read but never removed.
RevealMissingKeeps ==
  /\ page = "index" /\ script = "due" /\ access # "denied"
  /\ notice' = IF CameFromLegacyTools /\ Requested # NoFragment
                  /\ fragment \notin OnPage
                 THEN Requested ELSE None
  /\ script' = "ended"
  /\ last' = [last EXCEPT !.pending = FALSE]
  /\ UNCHANGED <<access, moved, storage, page, fragment, referrer, arrival>>

\* revealMissingLegacyToolsFragment.
RevealMissing ==
  /\ page = "index" /\ script = "due" /\ access # "denied"
  /\ storage' = None
  /\ notice' = IF CameFromLegacyTools /\ Requested # NoFragment
                  /\ fragment \notin OnPage
                 THEN Requested ELSE None
  /\ script' = "ended"
  /\ last' = [last EXCEPT !.pending = FALSE]
  /\ UNCHANGED <<access, moved, page, fragment, referrer, arrival>>

\* index.html hands sessionStorage over in the same way.
RevealDies ==
  /\ page = "index" /\ script = "due" /\ access = "denied"
  /\ script' = "died"
  /\ UNCHANGED <<access, moved, storage, page, fragment, referrer, notice,
                 arrival, last>>

Next ==
  \/ \E f \in Requests : OpenTools(f)
  \/ RunTools
  \/ RedirectArrives
  \/ RedirectLost
  \/ \E f \in Names \cup {NoFragment} : OpenIndex(f) \/ ChangeHash(f)
  \/ Leave
  \/ Reload
  \/ RevealMissing
  \/ RevealDies

Spec == Init /\ [][Next]_vars

-----------------------------------------------------------------------------
\* Nothing else happened to the tab since its page was loaded by a redirect.
Told == page = "index" /\ script = "ended" /\ arrival = "redirect"

\* A link to a section that is gone is answered: under the name it asked for
\* while storage works, else as far as the URL tells
\* (legacy-tools-redirect.js 12-21, 53-86).
MissingIsTold ==
  LET asked == IF access = "ok" THEN last.request
               ELSE Destination(last.request)
  IN  /\ Told
      /\ (access = "ok" /\ ~moved) \/ referrer
      /\ asked # NoFragment /\ Destination(last.request) \notin OnPage
      => notice = asked

\* A notice is only shown where one is due: a redirect brought the visitor to
\* where the section is not, or its answer was still pending when he came by
\* himself; a direct visit is never told that something is gone
\* (legacy-tools-redirect.js 52-68).
NoticeIsDue ==
  /\ page = "index" /\ script = "ended" /\ arrival # "reload" /\ notice # None
  => /\ arrival \in {"redirect", "late"}
     /\ arrival = "redirect" =>
          /\ notice \in {last.request, Destination(last.request)}
          /\ Destination(last.request) \notin OnPage
=============================================================================
