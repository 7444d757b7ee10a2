--------------------------- MODULE MCSignedReceipts ---------------------------
(***************************************************************************)
(* Receipts as a producer signs them, those with one or two parts of the   *)
(* body changed afterwards, and those a signer signed in that state.       *)
(***************************************************************************)
EXTENDS SignedReceipts

CONSTANTS a, b, c1, c2, s1, s2

\* c2 is not accepted by seal_init.
MCRuling == [q \in {c1, c2} \X {a, b} |-> IF q[2] = a THEN "ALLOW" ELSE "BLOCK"]

HonestSpine ==
  {[family |-> "spine", sealed |-> TRUE, decision |-> d, tool |-> a, args |-> v,
    decisionSha |-> d, toolSha |-> a, argsSha |-> v, effectSha |-> <<a, v>>] :
     d \in {"ALLOW", "BLOCK"}, v \in {a, b}}

HonestProtect ==
  {[family |-> "protect", shape |-> "ok", args |-> v, config |-> c,
    argsSha |-> v, configSha |-> c, inert |-> FALSE,
    verdict |-> MCRuling[<<c, v>>], action |-> w] :
     v \in {a, b}, c \in {c1, c2}, w \in {"ALLOW", "BLOCK", None}}

ChangedSpine(r) ==
  {[r EXCEPT !.sealed = FALSE], [r EXCEPT !.effectSha[1] = b]}
    \cup {[r EXCEPT !.effectSha[2] = v] : v \in {a, b}}
    \cup {[r EXCEPT !.decision = v] : v \in {"ALLOW", "BLOCK"}}
    \cup {[r EXCEPT !.tool = v] : v \in {a, b}}
    \cup {[r EXCEPT !.args = v] : v \in {a, b}}
    \cup {[r EXCEPT !.argsSha = v] : v \in {a, b}}

ChangedProtect(r) ==
  {[r EXCEPT !.shape = "bad"], [r EXCEPT !.shape = "repeated"],
   [r EXCEPT !.inert = TRUE]}
    \cup {[r EXCEPT !.args = v] : v \in {a, b}}
    \cup {[r EXCEPT !.argsSha = v] : v \in {a, b}}
    \cup {[r EXCEPT !.config = v] : v \in {c1, c2}}
    \cup {[r EXCEPT !.configSha = v] : v \in {c1, c2}}
    \cup {[r EXCEPT !.verdict = v] : v \in {"ALLOW", "BLOCK", "ERROR"}}
    \cup {[r EXCEPT !.action = v] : v \in {"ALLOW", "BLOCK"}}

Versions(honest, Changed(_)) ==
  LET once == {honest} \cup Changed(honest)
  IN  once \cup UNION {Changed(r) : r \in once}

Sent(honest, Changed(_)) ==
  {[body |-> v, sig |-> s] :
     v \in Versions(honest, Changed),
     s \in {None, Malformed, [by |-> s1, over |-> honest]}}
  \cup {[body |-> v, sig |-> [by |-> s1, over |-> v]] :
          v \in Versions(honest, Changed)}

MCInputs ==
  UNION {Sent(r, ChangedSpine) : r \in HonestSpine}
    \cup UNION {Sent(r, ChangedProtect) : r \in HonestProtect}

MCUses ==
  {[who |-> w, key |-> k, root |-> FALSE, kernel |-> n, verifiers |-> vs] :
     w \in {"page", "cli"}, k \in {s1, s2, None},
     n \in {"pinned", "other", "absent"}, vs \in {{"subtle", "tweetnacl"}}}
  \cup {[who |-> "library", key |-> s1, root |-> r, kernel |-> "pinned",
         verifiers |-> vs] : r \in BOOLEAN, vs \in {{}, {"subtle"}, {"subtle", "ed25519"}}}
=============================================================================
