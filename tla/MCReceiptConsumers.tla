------------------------- MODULE MCReceiptConsumers -------------------------
(***************************************************************************)
(* Receipts as a producer writes them, and those with one or two of their  *)
(* parts changed to anything else.                                         *)
(***************************************************************************)
EXTENDS ReceiptConsumers

CONSTANTS p1, p2, p3, p4, c1, c2, c3, l1, l2, w, s1, s2, k1, k2, t1, g1, x

\* c3 is c1 at a later time.
MCCalls == {c1, c2, c3}
MCLine  == [c \in MCCalls |-> IF c = c2 THEN l2 ELSE l1]

\* p1 and p2 are ordinary, p3 has no epoch, p4 is not accepted by
\* seal_init and one of its tools is null, behind the tool of c2.
MCPolicies == {p1, p2, p3, p4}
MCEpoch == [p \in MCPolicies |-> IF p = p3 THEN None ELSE 1]
MCResolve == [p \in MCPolicies |-> [g \in {g1} |-> IF p = p1 THEN t1 ELSE None]]

MCRagged   == {p4} \X {c1, c3, None, g1}

\* Under p1 the approvals are spent by the time of c3; under p2 the audit
\* quotes the line l1 a second time; the other kernel refuses everything, and
\* commits to nothing.
MCRuling ==
  [q \in {k1, k2} \X MCPolicies \X MCCalls \X SUBSET {t1} |->
    [verdict |-> IF q[1] = k1 /\ t1 \in q[4] /\ <<q[2], q[3]>> # <<p1, c3>>
                 THEN "ALLOW" ELSE "BLOCK",
     commits |-> IF q[1] = k1 THEN MCLine[q[3]] ELSE None,
     certs |-> IF q[2] = p2 THEN l1 ELSE x]]

Honest(p, c, gs, host) ==
  LET raw == MCRuling[<<k1, p, c, IF gs = {} THEN {} ELSE {t1}>>]
  IN  [shape |-> "ok", roundtrips |-> TRUE, extras |-> TRUE,
       bypass |-> FALSE, call |-> c,
       canonicalSha |-> MCLine[c], requestSha |-> host,
       payload |-> Compact(p), pubkey |-> s1,
       signedBy |-> s1, signedText |-> Compact(p),
       kernelConfig |-> p,
       policyHash |-> IF raw.verdict = "ALLOW" THEN Compact(p) ELSE None,
       grants |-> gs, kernelSha |-> k1, verdict |-> raw.verdict,
       certs |-> raw.certs,
       emitted |-> IF host = None THEN raw ELSE [raw EXCEPT !.commits = host]]

Unread == [Honest(p1, c1, {}, w) EXCEPT !.call = None, !.canonicalSha = None]
Control == [Honest(p1, c1, {}, None) EXCEPT
              !.bypass = TRUE, !.payload = None, !.pubkey = None,
              !.policyHash = None, !.kernelSha = None]
Older(r) == [r EXCEPT !.extras = FALSE]

Originals ==
  {Honest(p1, c1, {g1}, None), Honest(p1, c2, {t1}, w),
   Honest(p2, c1, {}, None), Older(Honest(p2, c2, {}, None)),
   Honest(p3, c1, {}, None), Older(Honest(p4, c1, {}, None)),
   Honest(p4, c2, {}, None), Unread, Control,
   [Control EXCEPT !.kernelConfig = p4, !.call = c2,
                   !.canonicalSha = l2]}

Texts == {Compact(p1), Compact(p2),
          [policy |-> p1, compact |-> FALSE], [policy |-> None, compact |-> FALSE]}

Changed(r) ==
  {[r EXCEPT !.shape = v] : v \in {"bad", "unreadable"}}
    \cup {[r EXCEPT !.roundtrips = FALSE], [r EXCEPT !.bypass = TRUE]}
    \cup {[r EXCEPT !.extras = ~@]}
    \cup {[r EXCEPT !.call = v] : v \in MCCalls}
    \cup {[r EXCEPT !.canonicalSha = v] : v \in {l1, l2}}
    \cup {[r EXCEPT !.requestSha = v] : v \in {l1, w}}
    \cup {[r EXCEPT !.payload = v] : v \in Texts \cup {None}}
    \cup {[r EXCEPT !.pubkey = v] : v \in {s2, None}}
    \cup {[r EXCEPT !.signedBy = s2], [r EXCEPT !.kernelSha = k2]}
    \cup {[r EXCEPT !.signedText = v] : v \in Texts}
    \cup {[r EXCEPT !.kernelConfig = v] : v \in {p1, p2}}
    \cup {[r EXCEPT !.policyHash = v] : v \in {Compact(p1), Compact(p2)}}
    \cup {[r EXCEPT !.grants = v] : v \in {{}, {g1}, {t1}}}
    \cup {[r EXCEPT !.verdict = v] : v \in {"ALLOW", "BLOCK"}}
    \cup {[r EXCEPT !.certs = v] : v \in {x, l1}}
    \cup {[r EXCEPT !.emitted.verdict = v] : v \in {"ALLOW", "BLOCK"}}
    \cup {[r EXCEPT !.emitted.commits = v] : v \in {l1, w, None}}
    \cup {[r EXCEPT !.emitted.certs = v] : v \in {x, w}}

\* The field table relates the parts: a readable call has its hash, an
\* unreadable one only that of its line; a bypass names no kernel and carries
\* no signed configuration; a mediated receipt of v2 or v3 carries one, and the
\* hash of an approval is that of the displayed one.
WellShaped(r) ==
  r.shape = "ok" =>
    /\ r.call = None <=> r.canonicalSha = None
    /\ r.call = None => r.requestSha # None /\ ~r.bypass
    /\ r.bypass <=> r.kernelSha = None
    /\ r.bypass => r.payload = None /\ r.pubkey = None /\ r.policyHash = None
    /\ r.extras /\ ~r.bypass => r.payload # None /\ r.pubkey # None
    /\ r.extras => r.policyHash \in {None, Compact(r.kernelConfig)}

MCInputs ==
  LET once == UNION {Changed(r) : r \in Originals}
  IN  {r \in Originals \cup once \cup UNION {Changed(s) : s \in once} :
         WellShaped(r)}

\* The page pins nobody; the command line pins a well-formed key or nobody;
\* both have TweetNaCl.  Another program may do as it likes.
Use(who, form, pin, vs) ==
  [who |-> who, form |-> form, pin |-> pin, verifiers |-> vs]
MCUses ==
  {Use("page", "text", None, {"webcrypto", "tweetnacl"}),
   Use("cli", "text", None, {"tweetnacl"}),
   Use("cli", "text", s1, {"tweetnacl"}),
   Use("library", "object", None, {"tweetnacl"}),
   Use("library", "object", s1, {"webcrypto"}),
   Use("library", "text", "malformed", {"tweetnacl"}),
   Use("library", "text", s1, {})}
=============================================================================
