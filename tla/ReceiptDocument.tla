--------------------------- MODULE ReceiptDocument ---------------------------
(***************************************************************************)
(* The received document against the parsed record (receipt-format.js).    *)
(* JSON.parse keeps the last of two members, unescapes names and folds the *)
(* spellings of a number; scanReceiptDocument walks the same text member   *)
(* by member so that no version is claimed by one reading and another one  *)
(* by the next.  The page routes by classifyReceiptDocument, the verifier  *)
(* validates by validateReceipt; each scans the text anew, with one result.*)
(***************************************************************************)
EXTENDS Naturals, Sequences, FiniteSets

CONSTANTS
  OtherNames,     \* member names that discriminate nothing
  Literals,       \* member values as they are spelt
  Odd,            \* numbers not spelt as a bare unsigned integer
  Fold,           \* spelling -> the spelling of what JSON.parse makes of it
  Documents

DISCRIMINATOR_KEYS == {"seal_receipt", "record_type", "record_version",
                       "seal_live_receipt", "seal_check_receipt", "receipt"}
Names == DISCRIMINATOR_KEYS \cup OtherNames

\* depth 1: a member of some value of the root, not of the root.
Members == [name : Names, escaped : BOOLEAN, value : Literals, depth : {0, 1}]

\* form "broken" is not JSON, or nested too deeply for the scanner; body says
\* that the field table is satisfied, signed that the Object B envelope verifies.
DocumentParts ==
  [members : Seq(Members), form : {"object", "other", "bom", "broken"},
   body : BOOLEAN, signed : BOOLEAN]

ASSUME DocumentAssumption ==
  /\ OtherNames \cap DISCRIMINATOR_KEYS = {}
  /\ Odd \subseteq Literals
  /\ Fold \in [Literals -> Literals]
  /\ \A l \in Literals : Fold[l] # l => l \in Odd
  \* a number is no string, and folds to none
  /\ \A l \in Odd : {l, Fold[l]} \cap {"v0", "v1", "v2", "seal.spine/v1",
                                      "seal.authorization-decision"} = {}
  /\ Documents \subseteq DocumentParts
  /\ \A d \in Documents : \A i \in 1..Len(d.members) :
       d.form = "other" => d.members[i].depth = 1

VARIABLES
  doc,       \* the received document
  path,      \* whether its text is handed over, or what JSON.parse made of it
  at,        \* the member the scanner reads next
  topLevel,  \* the scanner's map: name -> what was seen of it
  scan,      \* "unread", "ok" or "refused"
  family,    \* what classifyReceiptDocument answers
  version,   \* what validateReceipt answers
  ok,
  pc

vars == <<doc, path, at, topLevel, scan, family, version, ok, pc>>

Families == {"decision", "spine", "ambiguous", "unknown_format",
             "not_a_receipt", "malformed", "unasked"}
Versions == {"v1", "v2", "v3", "v0-live", "v0-check", "null"}
Unseen == [count |-> 0, escaped |-> FALSE, odd |-> FALSE]

TypeOK ==
  /\ doc \in DocumentParts
  /\ path \in {"text", "object"}
  /\ at \in 1..(Len(doc.members) + 1)
  /\ topLevel \in [Names -> [count : 0..Len(doc.members), escaped : BOOLEAN,
                             odd : BOOLEAN]]
  /\ scan \in {"unread", "ok", "refused"}
  /\ family \in Families
  /\ version \in Versions
  /\ ok \in BOOLEAN
  /\ pc \in {"scan", "classify", "validate", "done"}

Init ==
  /\ doc \in Documents
  /\ path \in {"text", "object"}
  /\ path = "object" => doc.form \in {"object", "other"}
  /\ at = 1
  /\ topLevel = [n \in Names |-> Unseen]
  /\ scan = "unread"
  /\ family = "unasked"
  /\ version = "null"
  /\ ok = FALSE
  /\ pc = IF path = "text" THEN "scan" ELSE "validate"

-----------------------------------------------------------------------------
\* Mutant of ScanMember: a member of a value is taken for one of the root.
ScanMemberDeep ==
  /\ pc = "scan" /\ at <= Len(doc.members) /\ doc.form # "bom"
  /\ LET m == doc.members[at]
     IN  topLevel' = [topLevel EXCEPT ![m.name] =
           [count   |-> @.count + 1,
            escaped |-> @.escaped \/ m.escaped,
            odd     |-> @.odd \/ m.value \in Odd]]
  /\ at' = at + 1
  /\ UNCHANGED <<doc, path, scan, family, version, ok, pc>>

\* One turn of readObject's loop; only the root keeps a map.
ScanMember ==
  /\ pc = "scan" /\ at <= Len(doc.members) /\ doc.form # "bom"
  /\ LET m == doc.members[at]
     IN  topLevel' = IF m.depth = 1 THEN topLevel
                     ELSE [topLevel EXCEPT ![m.name] =
                       [count   |-> @.count + 1,
                        escaped |-> @.escaped \/ m.escaped,
                        odd     |-> @.odd \/ m.value \in Odd]]
  /\ at' = at + 1
  /\ UNCHANGED <<doc, path, scan, family, version, ok, pc>>

\* A byte-order mark is refused at once, what is not JSON wherever it breaks.
ScanFails ==
  /\ pc = "scan" /\ doc.form \in {"bom", "broken"}
  /\ scan' = "refused"
  /\ pc' = "classify"
  /\ UNCHANGED <<doc, path, at, topLevel, family, version, ok>>

\* Mutant of Ambiguous: a repeated discriminator is left to JSON.parse.
AmbiguousUncounted(n) ==
  \/ n \notin DISCRIMINATOR_KEYS /\ topLevel[n].count > 1
  \/ n \in DISCRIMINATOR_KEYS /\ topLevel[n].escaped
  \/ n = "record_version" /\ topLevel[n].odd

\* The errors pushed for a name.
Ambiguous(n) ==
  \/ topLevel[n].count > 1
  \/ n \in DISCRIMINATOR_KEYS /\ topLevel[n].escaped
  \/ n = "record_version" /\ topLevel[n].odd

ScanEnds ==
  /\ pc = "scan" /\ at = Len(doc.members) + 1
  /\ doc.form \in {"object", "other"}
  /\ scan' = IF \E n \in Names : Ambiguous(n) THEN "refused" ELSE "ok"
  /\ pc' = "classify"
  /\ UNCHANGED <<doc, path, at, topLevel, family, version, ok>>

-----------------------------------------------------------------------------
\* The places of name n in the document, to someone who can read it there.
Places(n, readable(_)) ==
  {i \in 1..Len(doc.members) :
     /\ doc.members[i].depth = 0 /\ doc.members[i].name = n
     /\ readable(doc.members[i])}

LastOf(S)  == CHOOSE i \in S : \A j \in S : j <= i
FirstOf(S) == CHOOSE i \in S : \A j \in S : i <= j

Any(m) == TRUE

\* JSON.parse.
Record ==
  [n \in {k \in Names : Places(k, Any) # {}} |->
     Fold[doc.members[LastOf(Places(n, Any))].value]]

Has(r, n)   == n \in DOMAIN r
Is(r, n, v) == Has(r, n) /\ r[n] = v

Decision(r) ==
  \E n \in DISCRIMINATOR_KEYS \ {"receipt"} : Has(r, n)

\* Mutant of FamilyOf: the Spine discriminator wins over the others.
FamilyOfSpineFirst(r) ==
  IF Has(r, "receipt")
    THEN IF r["receipt"] = "seal.spine/v1" THEN "spine" ELSE "unknown_format"
  ELSE IF Decision(r) THEN "decision" ELSE "not_a_receipt"

FamilyOf(r) ==
  IF Decision(r) /\ Has(r, "receipt") THEN "ambiguous"
  ELSE IF Has(r, "receipt")
    THEN IF r["receipt"] = "seal.spine/v1" THEN "spine" ELSE "unknown_format"
  ELSE IF Decision(r) THEN "decision" ELSE "not_a_receipt"

Classify ==
  /\ pc = "classify"
  /\ family' = IF scan = "refused" THEN "malformed"
               ELSE IF doc.form = "other" THEN "not_a_receipt"
               ELSE FamilyOf(Record)
  /\ pc' = "validate"
  /\ UNCHANGED <<doc, path, at, topLevel, scan, version, ok>>

\* One of five key families may be present.
DiscFamilies(r) ==
  {f \in {{"seal_receipt"}, {"record_type", "record_version"},
          {"seal_live_receipt"}, {"seal_check_receipt"}, {"receipt"}} :
     \E n \in f : Has(r, n)}

\* Mutant of ParsedVersion: whoever comes first wins over other families.
ParsedVersionFirst(r) ==
  CASE Is(r, "seal_receipt", "v2") -> "v2"
    [] /\ ~Is(r, "seal_receipt", "v2")
       /\ Is(r, "record_type", "seal.authorization-decision")
       /\ Is(r, "record_version", "3") -> "v3"
    [] OTHER -> "null"

\* Mutant of ParsedVersion: any record_version is taken for what it says.
ParsedVersionOpen(r) ==
  IF Is(r, "record_type", "seal.authorization-decision")
     /\ Has(r, "record_version")
    THEN r["record_version"]
    ELSE "null"

ParsedVersion(r) ==
  LET host(v) == /\ Is(r, "record_type", "seal.authorization-decision")
                 /\ Is(r, "record_version", v)
  IN  IF Cardinality(DiscFamilies(r)) > 1 THEN "null"
      ELSE CASE Is(r, "seal_receipt", "v2") \/ host("2") -> "v2"
             [] host("3") -> "v3"
             [] Is(r, "seal_receipt", "v1") -> "v1"
             [] Is(r, "seal_live_receipt", "v0") -> "v0-live"
             [] Has(r, "seal_check_receipt") -> "v0-check"
             [] OTHER -> "null"

\* validateReceipt: the field table, and on v3 the Object B signature.
Validate ==
  /\ pc = "validate"
  /\ version' = IF scan = "refused" \/ doc.form = "other" THEN "null"
                ELSE ParsedVersion(Record)
  /\ ok' = /\ version' \notin {"null", "v0-check"}
           /\ doc.body
           /\ version' = "v3" => doc.signed
  /\ pc' = "done"
  /\ UNCHANGED <<doc, path, at, topLevel, scan, family>>

Next ==
  \/ ScanMember
  \/ ScanFails
  \/ ScanEnds
  \/ Classify
  \/ Validate

Spec == Init /\ [][Next]_vars

-----------------------------------------------------------------------------
\* How else the same text may be read: keeping the first of two members, or
\* by a reader that looks for names and numbers as they are spelt.
Plain(m) == ~m.escaped

Reading(reader) ==
  CASE reader = "last"  -> Record
    [] reader = "first" ->
         [n \in {k \in Names : Places(k, Any) # {}} |->
            Fold[doc.members[FirstOf(Places(n, Any))].value]]
    [] reader = "bytes" ->
         [n \in {k \in Names : Places(k, Plain) # {}} |->
            doc.members[LastOf(Places(n, Plain))].value]
Readers == {"last", "first", "bytes"}

\* The versions a reading claims, under whatever key.
Claims(r) ==
  {v \in {"v1", "v2"} : Is(r, "seal_receipt", v)}
    \cup {v \in {"v2", "v3"} :
            /\ Is(r, "record_type", "seal.authorization-decision")
            /\ Is(r, "record_version", IF v = "v2" THEN "2" ELSE "3")}
    \cup {v \in {"v0-live"} : Is(r, "seal_live_receipt", "v0")}
    \cup {v \in {"v0-check"} : Has(r, "seal_check_receipt")}
    \cup {v \in {"spine"} : Is(r, "receipt", "seal.spine/v1")}

Accepted == pc = "done" /\ path = "text" /\ ok

\* A document that validates claims one version, the one it was validated
\* under, whoever reads it and however (the rules of receipt-format.js 270-283
\* and 551-573, which neither the scan nor the parsed record gives alone).
OneVersion ==
  Accepted => \A reader \in Readers : Claims(Reading(reader)) = {version}

\* Whatever some reader would take for a v3 receipt is accepted only with its
\* Object B signature verified: no downgrade to v2 (receipt-format.js 277-281).
NoDowngrade ==
  Accepted /\ (\E reader \in Readers : "v3" \in Claims(Reading(reader)))
    => doc.signed

\* The page routes a document as every reader would: no Spine receipt hides a
\* decision receipt, nor the other way round (app.js 554-562).
RoutedByEveryReading ==
  \A reader \in Readers :
    LET r == Reading(reader)
        seen == DOMAIN r \cap DISCRIMINATOR_KEYS
    IN  /\ family = "spine" =>
             seen = {"receipt"} /\ r["receipt"] = "seal.spine/v1"
        /\ family = "decision" => seen # {} /\ "receipt" \notin seen

\* The scan refuses no honest document: names that occur once at the top level
\* and are spelt plainly, whatever their values contain (receipt-format.js
\* 326-333).
HonestIsRead ==
  LET top == {i \in 1..Len(doc.members) : doc.members[i].depth = 0}
  IN  /\ scan = "refused"
      /\ doc.form \in {"object", "other"}
      /\ \A i \in top : ~doc.members[i].escaped /\ doc.members[i].value \notin Odd
      => \E i, j \in top : i # j /\ doc.members[i].name = doc.members[j].name
=============================================================================
