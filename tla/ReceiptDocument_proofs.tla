------------------------ MODULE ReceiptDocument_proofs ------------------------
(***************************************************************************)
(* Proofs about ReceiptDocument.  The scanner's map says of every name     *)
(* exactly what a reader of the members read so far can see; so where the  *)
(* scan is passed, all readings of the document agree on what              *)
(* discriminates it.                                                       *)
(***************************************************************************)
EXTENDS ReceiptDocument, FiniteSetTheorems, TLAPS

\* The places of name n among the members already read.
Top(n) == {i \in 1..(at - 1) :
             doc.members[i].depth = 0 /\ doc.members[i].name = n}

MapIsExact ==
  \A n \in Names :
    /\ topLevel[n].count \in 0..(at - 1)
    /\ topLevel[n].count = 0 <=> Top(n) = {}
    /\ topLevel[n].count > 1 <=> \E i, j \in Top(n) : i # j
    /\ topLevel[n].escaped <=> \E i \in Top(n) : doc.members[i].escaped
    /\ topLevel[n].odd <=> \E i \in Top(n) : doc.members[i].value \in Odd

\* What each stage may rely on.
Scanned ==
  /\ pc = "scan" => path = "text" /\ scan = "unread"
  /\ pc = "classify" => path = "text"
  /\ path = "object" => scan = "unread"
  /\ path = "text" /\ pc # "scan" => scan # "unread"
  /\ scan = "ok" =>
       /\ at = Len(doc.members) + 1 /\ doc.form \in {"object", "other"}
       /\ \A n \in Names : ~Ambiguous(n)
  /\ scan = "refused" =>
       \/ doc.form \in {"bom", "broken"}
       \/ \E n \in Names : Ambiguous(n)

Answers ==
  /\ pc \in {"scan", "classify"} => family = "unasked"
  /\ family \in {"spine", "decision"} => scan = "ok" /\ family = FamilyOf(Record)
  /\ pc = "done" /\ ok =>
       /\ scan # "refused" /\ version = ParsedVersion(Record)
       /\ version \notin {"null", "v0-check"}
       /\ version = "v3" => doc.signed

DInv == TypeOK /\ MapIsExact /\ Scanned /\ Answers

LEMMA MembersType ==
  ASSUME TypeOK
  PROVE  /\ doc.members \in Seq(Members) /\ Len(doc.members) \in Nat
         /\ \A i \in 1..Len(doc.members) :
              /\ doc.members[i].name \in Names
              /\ doc.members[i].depth \in {0, 1}
              /\ doc.members[i].escaped \in BOOLEAN
              /\ doc.members[i].value \in Literals
  <1>1. doc.members \in Seq(Members)
    BY DEF TypeOK, DocumentParts
  <1>2. Len(doc.members) \in Nat
    BY <1>1
  <1>3. \A i \in 1..Len(doc.members) : doc.members[i] \in Members
    BY <1>1
  <1> QED
    BY <1>1, <1>2, <1>3 DEF Members

LEMMA FamilyType == FamilyOf(Record) \in Families
  BY DEF FamilyOf, Families

LEMMA VersionType == ParsedVersion(Record) \in Versions
  BY DEF ParsedVersion, Versions

LEMMA DInitially == Init => DInv
  <1> SUFFICES ASSUME Init PROVE DInv
    OBVIOUS
  <1>1. doc \in DocumentParts
    BY DocumentAssumption DEF Init
  <1>2. doc.members \in Seq(Members)
    BY <1>1 DEF DocumentParts
  <1>3. Len(doc.members) \in Nat
    BY <1>2
  <1>4. at = 1 /\ topLevel = [n \in Names |-> Unseen]
    BY DEF Init
  <1>5. at \in 1..(Len(doc.members) + 1)
    BY <1>3, <1>4
  <1>6. topLevel \in [Names -> [count : 0..Len(doc.members), escaped : BOOLEAN,
                                odd : BOOLEAN]]
    <2>1. Unseen \in [count : 0..Len(doc.members), escaped : BOOLEAN,
                      odd : BOOLEAN]
      BY <1>3 DEF Unseen
    <2> QED
      BY <2>1, <1>4
  <1>7. TypeOK
    BY <1>1, <1>5, <1>6 DEF Init, TypeOK, Families, Versions
  <1>8. MapIsExact
    <2> SUFFICES ASSUME NEW n \in Names
                 PROVE  /\ topLevel[n].count \in 0..(at - 1)
                        /\ topLevel[n].count = 0 <=> Top(n) = {}
                        /\ topLevel[n].count > 1 <=> \E i, j \in Top(n) : i # j
                        /\ topLevel[n].escaped
                             <=> \E i \in Top(n) : doc.members[i].escaped
                        /\ topLevel[n].odd
                             <=> \E i \in Top(n) : doc.members[i].value \in Odd
      BY DEF MapIsExact
    <2>1. Top(n) = {}
      BY <1>4 DEF Top
    <2>2. /\ topLevel[n].count = 0 /\ topLevel[n].escaped = FALSE
          /\ topLevel[n].odd = FALSE
      BY <1>4 DEF Unseen
    <2> QED
      BY <2>1, <2>2, <1>4
  <1>9. Scanned /\ Answers
    BY DEF Init, Scanned, Answers
  <1> QED
    BY <1>7, <1>8, <1>9 DEF DInv

LEMMA EntryFields ==
  ASSUME NEW c, NEW e, NEW o
  PROVE  LET r == [count |-> c, escaped |-> e, odd |-> o]
         IN  r.count = c /\ r.escaped = e /\ r.odd = o
  OBVIOUS

LEMMA ScanMemberStep == DInv /\ ScanMember => DInv'
  <1> SUFFICES ASSUME DInv, ScanMember PROVE DInv'
    OBVIOUS
  <1>t. TypeOK /\ MapIsExact /\ Scanned /\ Answers
    BY DEF DInv
  <1> DEFINE m == doc.members[at]
             S == [count : 0..Len(doc.members), escaped : BOOLEAN, odd : BOOLEAN]
             entry == [count   |-> topLevel[m.name].count + 1,
                       escaped |-> topLevel[m.name].escaped \/ m.escaped,
                       odd     |-> topLevel[m.name].odd \/ m.value \in Odd]
  <1>1. /\ pc = "scan" /\ at <= Len(doc.members) /\ at' = at + 1
        /\ UNCHANGED <<doc, path, scan, family, version, ok, pc>>
    BY DEF ScanMember
  <1>2. /\ Len(doc.members) \in Nat /\ at \in 1..Len(doc.members)
        /\ m.name \in Names /\ m.depth \in {0, 1} /\ m.escaped \in BOOLEAN
    <2>1. at \in 1..(Len(doc.members) + 1) /\ Len(doc.members) \in Nat
      BY <1>t, MembersType DEF TypeOK
    <2>2. at \in 1..Len(doc.members)
      BY <2>1, <1>1
    <2> QED
      BY <2>1, <2>2, <1>t, MembersType
  <1>3. topLevel \in [Names -> S]
    BY <1>t DEF TypeOK
  <1>4. topLevel' = IF m.depth = 1 THEN topLevel
                    ELSE [topLevel EXCEPT ![m.name] = entry]
    BY DEF ScanMember
  <1>5. topLevel[m.name].count \in 0..(at - 1)
    BY <1>t, <1>2 DEF MapIsExact
  <1>6. entry \in S
    <2>1. topLevel[m.name] \in S
      BY <1>2, <1>3
    <2> QED
      BY <2>1, <1>2, <1>5
  <1>7. topLevel' \in [Names -> S]
    <2> HIDE DEF entry, S
    <2> QED
      BY <1>2, <1>3, <1>4, <1>6
  <1>8. TypeOK'
    BY <1>1, <1>2, <1>7, <1>t DEF TypeOK
  <1>9. \A n \in Names :
          Top(n)' = IF m.depth = 0 /\ m.name = n THEN Top(n) \cup {at} ELSE Top(n)
    BY <1>1, <1>2 DEF Top
  <1>10. MapIsExact'
    <2> SUFFICES ASSUME NEW n \in Names
                 PROVE  /\ topLevel'[n].count \in 0..at
                        /\ topLevel'[n].count = 0 <=> Top(n)' = {}
                        /\ topLevel'[n].count > 1
                             <=> \E i, j \in Top(n)' : i # j
                        /\ topLevel'[n].escaped
                             <=> \E i \in Top(n)' : doc.members[i].escaped
                        /\ topLevel'[n].odd
                             <=> \E i \in Top(n)' : doc.members[i].value \in Odd
      BY <1>1, <1>2 DEF MapIsExact
    <2>1. /\ topLevel[n].count \in 0..(at - 1)
          /\ topLevel[n].count = 0 <=> Top(n) = {}
          /\ topLevel[n].count > 1 <=> \E i, j \in Top(n) : i # j
          /\ topLevel[n].escaped <=> \E i \in Top(n) : doc.members[i].escaped
          /\ topLevel[n].odd <=> \E i \in Top(n) : doc.members[i].value \in Odd
      BY <1>t DEF MapIsExact
    <2>2. CASE m.depth = 0 /\ m.name = n
      <3>1. topLevel'[n] = entry
        BY <2>2, <1>3, <1>4
      <3>2. /\ topLevel'[n].count = topLevel[n].count + 1
            /\ topLevel'[n].escaped <=> topLevel[n].escaped \/ m.escaped
            /\ topLevel'[n].odd <=> topLevel[n].odd \/ m.value \in Odd
        <4>1. topLevel'[n] = [count   |-> topLevel[n].count + 1,
                              escaped |-> topLevel[n].escaped \/ m.escaped,
                              odd     |-> topLevel[n].odd \/ m.value \in Odd]
          BY <3>1, <2>2
        <4>2. /\ topLevel'[n].count = topLevel[n].count + 1
              /\ topLevel'[n].escaped = (topLevel[n].escaped \/ m.escaped)
              /\ topLevel'[n].odd = (topLevel[n].odd \/ m.value \in Odd)
          BY <4>1, EntryFields
        <4> QED
          BY <4>2
      <3>3. Top(n)' = Top(n) \cup {at} /\ at \notin Top(n)
        BY <2>2, <1>2, <1>9 DEF Top
      <3>4. topLevel'[n].count \in 0..at /\ topLevel'[n].count # 0
        BY <3>2, <2>1, <1>2
      <3>5. topLevel'[n].count > 1 <=> Top(n) # {}
        BY <3>2, <2>1, <1>2
      <3>6. (\E i, j \in Top(n)' : i # j) <=> Top(n) # {}
        BY <3>3
      <3> HIDE DEF m, entry
      <3>7. topLevel'[n].escaped <=> \E i \in Top(n)' : doc.members[i].escaped
        BY <3>2, <3>3, <2>1 DEF m
      <3>8. topLevel'[n].odd <=> \E i \in Top(n)' : doc.members[i].value \in Odd
        BY <3>2, <3>3, <2>1 DEF m
      <3> QED
        BY <3>3, <3>4, <3>5, <3>6, <3>7, <3>8
    <2>3. CASE ~(m.depth = 0 /\ m.name = n)
      <3>1. topLevel'[n] = topLevel[n]
        <4> HIDE DEF entry
        <4> QED
          BY <2>3, <1>2, <1>3, <1>4
      <3>2. Top(n)' = Top(n)
        BY <2>3, <1>9
      <3> QED
        BY <3>1, <3>2, <2>1, <1>2
    <2> QED
      BY <2>2, <2>3
  <1>11. Scanned' /\ Answers'
    BY <1>1, <1>t DEF Scanned, Answers
  <1> QED
    BY <1>8, <1>10, <1>11 DEF DInv

LEMMA DStep == DInv /\ [Next]_vars => DInv'
  <1> SUFFICES ASSUME DInv, [Next]_vars PROVE DInv'
    OBVIOUS
  <1>t. TypeOK /\ MapIsExact /\ Scanned /\ Answers
    BY DEF DInv
  <1>1. CASE ScanMember
    BY <1>1, ScanMemberStep
  <1>2. ASSUME UNCHANGED <<doc, path, at, topLevel>>
        PROVE  /\ MapIsExact'
               /\ \A n \in Names : Ambiguous(n)' <=> Ambiguous(n)
               /\ FamilyOf(Record)' = FamilyOf(Record)
               /\ ParsedVersion(Record)' = ParsedVersion(Record)
    <2>1. \A n \in Names : Top(n)' = Top(n)
      BY <1>2 DEF Top
    <2>2. MapIsExact'
      BY <1>2, <1>t, <2>1 DEF MapIsExact
    <2>3. \A n \in Names : Ambiguous(n)' <=> Ambiguous(n)
      BY <1>2 DEF Ambiguous
    <2>4. Record' = Record
      BY <1>2 DEF Record, Places, Any, LastOf
    <2>5. FamilyOf(Record)' = FamilyOf(Record)
      BY <2>4 DEF FamilyOf, Decision, Has
    <2>6. ParsedVersion(Record)' = ParsedVersion(Record)
      BY <2>4 DEF ParsedVersion, DiscFamilies, Has, Is
    <2> QED
      BY <2>2, <2>3, <2>5, <2>6
  <1>3. CASE ScanFails
    <2>1. UNCHANGED <<doc, path, at, topLevel>>
      BY <1>3 DEF ScanFails
    <2> QED
      BY <1>2, <1>3, <1>t, <2>1 DEF ScanFails, DInv, TypeOK, Scanned, Answers
  <1>4. CASE ScanEnds
    <2>1. UNCHANGED <<doc, path, at, topLevel>>
      BY <1>4 DEF ScanEnds
    <2>2. Scanned'
      BY <1>2, <1>4, <1>t, <2>1 DEF ScanEnds, Scanned
    <2> QED
      BY <1>2, <1>4, <1>t, <2>1, <2>2 DEF ScanEnds, DInv, TypeOK, Scanned, Answers
  <1>5. CASE Classify
    <2>1. UNCHANGED <<doc, path, at, topLevel>>
      BY <1>5 DEF Classify
    <2>2. scan' = scan /\ pc = "classify" /\ pc' = "validate"
          /\ UNCHANGED <<version, ok>>
      BY <1>5 DEF Classify
    <2>3. family' = IF scan = "refused" THEN "malformed"
                    ELSE IF doc.form = "other" THEN "not_a_receipt"
                    ELSE FamilyOf(Record)
      BY <1>5 DEF Classify
    <2>4. family' \in Families
      BY <2>3, FamilyType DEF Families
    <2>5. TypeOK'
      BY <2>1, <2>2, <2>4, <1>t DEF TypeOK
    <2>6. Scanned'
      BY <2>1, <2>2, <1>2, <1>t DEF Scanned
    <2>7. family' \in {"spine", "decision"} =>
            scan = "ok" /\ family' = FamilyOf(Record)
      <3>1. scan \in {"ok", "refused"}
        BY <2>2, <1>t DEF TypeOK, Scanned
      <3> QED
        BY <3>1, <2>3
    <2>8. Answers'
      BY <2>1, <2>2, <2>7, <1>2 DEF Answers
    <2> QED
      BY <2>1, <2>5, <2>6, <2>8, <1>2 DEF DInv
  <1>6. CASE Validate
    <2>1. /\ UNCHANGED <<doc, path, at, topLevel>> /\ scan' = scan
          /\ family' = family /\ pc = "validate" /\ pc' = "done"
          /\ version' = IF scan = "refused" \/ doc.form = "other" THEN "null"
                        ELSE ParsedVersion(Record)
          /\ ok' = (/\ version' \notin {"null", "v0-check"}
                    /\ doc.body
                    /\ version' = "v3" => doc.signed)
      BY <1>6 DEF Validate
    <2>2. version' \in Versions
      BY <2>1, VersionType DEF Versions
    <2>3. ok' \in BOOLEAN
      BY <2>1
    <2>4. TypeOK'
      BY <2>1, <2>2, <2>3, <1>t DEF TypeOK
    <2>5. ok' => /\ scan # "refused" /\ version' = ParsedVersion(Record)
                 /\ version' \notin {"null", "v0-check"}
                 /\ version' = "v3" => doc.signed
      <3> SUFFICES ASSUME ok'
                   PROVE  /\ scan # "refused" /\ version' = ParsedVersion(Record)
                          /\ version' \notin {"null", "v0-check"}
                          /\ version' = "v3" => doc.signed
        OBVIOUS
      <3>1. version' \notin {"null", "v0-check"} /\ (version' = "v3" => doc.signed)
        BY <2>1
      <3> QED
        BY <3>1, <2>1
    <2>6. Scanned'
      BY <2>1, <1>2, <1>t DEF Scanned
    <2>7. Answers'
      BY <2>1, <2>5, <1>2, <1>t DEF Answers
    <2> QED
      BY <2>1, <2>4, <2>6, <2>7, <1>2 DEF DInv
  <1>7. CASE UNCHANGED vars
    <2>1. UNCHANGED <<doc, path, at, topLevel>>
      BY <1>7 DEF vars
    <2> QED
      BY <1>2, <1>7, <1>t, <2>1 DEF vars, DInv, TypeOK, Scanned, Answers
  <1> QED
    BY <1>1, <1>3, <1>4, <1>5, <1>6, <1>7 DEF Next

LEMMA DInvariant == Spec => []DInv
  BY DInitially, DStep, PTL DEF Spec

-----------------------------------------------------------------------------
Strings == {"v0", "v1", "v2", "seal.spine/v1", "seal.authorization-decision"}

\* A document that passed the scan has one place for a name, and what is there
\* is spelt plainly where it discriminates.
LEMMA OnePlace ==
  ASSUME DInv, scan = "ok", NEW n \in Names
  PROVE  /\ \A i, j \in Places(n, Any) : i = j
         /\ n \in DISCRIMINATOR_KEYS => Places(n, Plain) = Places(n, Any)
         /\ n = "record_version" =>
              \A i \in Places(n, Any) : doc.members[i].value \notin Odd
         /\ \A i \in Places(n, Any) : doc.members[i].value \in Literals
  <1>1. at = Len(doc.members) + 1 /\ ~Ambiguous(n)
    BY DEF DInv, Scanned
  <1>2. Len(doc.members) \in Nat
    BY MembersType DEF DInv
  <1>3. Top(n) = Places(n, Any)
    BY <1>1, <1>2 DEF Top, Places, Any
  <1>4. /\ topLevel[n].count > 1 <=> \E i, j \in Top(n) : i # j
        /\ topLevel[n].escaped <=> \E i \in Top(n) : doc.members[i].escaped
        /\ topLevel[n].odd <=> \E i \in Top(n) : doc.members[i].value \in Odd
    BY DEF DInv, MapIsExact
  <1>5. \A i, j \in Places(n, Any) : i = j
    BY <1>1, <1>3, <1>4 DEF Ambiguous
  <1>6. n \in DISCRIMINATOR_KEYS =>
          \A i \in Places(n, Any) : ~doc.members[i].escaped
    BY <1>1, <1>3, <1>4 DEF Ambiguous
  <1>7. n \in DISCRIMINATOR_KEYS => Places(n, Plain) = Places(n, Any)
    BY <1>6 DEF Places, Plain, Any
  <1>8. n = "record_version" =>
          \A i \in Places(n, Any) : doc.members[i].value \notin Odd
    BY <1>1, <1>3, <1>4 DEF Ambiguous
  <1>9. \A i \in Places(n, Any) : doc.members[i].value \in Literals
    BY MembersType DEF DInv, Places, Any
  <1> QED
    BY <1>5, <1>7, <1>8, <1>9

\* So all readings agree on the discriminators: on which there are, on the two
\* versions a record_version may name, and on whatever is a string.
LEMMA ReadingsAgree ==
  ASSUME DInv, scan = "ok", NEW reader \in Readers, NEW n \in DISCRIMINATOR_KEYS
  PROVE  /\ Has(Reading(reader), n) <=> Has(Record, n)
         /\ \A v \in Strings : Is(Reading(reader), n, v) <=> Is(Record, n, v)
         /\ n = "record_version" =>
              \A v : Is(Reading(reader), n, v) <=> Is(Record, n, v)
  <1> DEFINE P == Places(n, Any)
             l == doc.members[LastOf(P)].value
  <1>1. n \in Names
    BY DEF Names
  <1>2. /\ \A i, j \in P : i = j
        /\ Places(n, Plain) = P
        /\ n = "record_version" => \A i \in P : doc.members[i].value \notin Odd
        /\ \A i \in P : doc.members[i].value \in Literals
    BY <1>1, OnePlace
  <1>3. P \subseteq 1..Len(doc.members)
    BY DEF Places
  <1>4. Len(doc.members) \in Nat
    BY MembersType DEF DInv
  <1>5. ASSUME P # {}
        PROVE  LastOf(P) \in P /\ FirstOf(P) = LastOf(P)
    <2>1. PICK k : k \in P
      BY <1>5
    <2>2. P = {k} /\ k \in Int
      BY <2>1, <1>2, <1>3, <1>4
    <2>3. LastOf(P) = k
      BY <2>2 DEF LastOf
    <2>4. FirstOf(P) = k
      BY <2>2 DEF FirstOf
    <2> QED
      BY <2>1, <2>3, <2>4
  <1>6. (Has(Record, n) <=> P # {}) /\ (P # {} => Record[n] = Fold[l])
    BY <1>1 DEF Record, Has
  <1>7. CASE reader = "last"
    BY <1>7 DEF Reading
  <1>8. CASE reader = "first"
    <2>1. Reading(reader) = [k \in {j \in Names : Places(j, Any) # {}} |->
             Fold[doc.members[FirstOf(Places(k, Any))].value]]
      BY <1>8 DEF Reading
    <2>2. /\ Has(Reading(reader), n) <=> P # {}
          /\ P # {} => Reading(reader)[n] = Fold[doc.members[FirstOf(P)].value]
      BY <2>1, <1>1 DEF Has
    <2>3. P # {} => Reading(reader)[n] = Record[n]
      BY <2>2, <1>5, <1>6
    <2> QED
      BY <2>2, <2>3, <1>6 DEF Is
  <1>9. CASE reader = "bytes"
    <2>1. Reading(reader) = [k \in {j \in Names : Places(j, Plain) # {}} |->
             doc.members[LastOf(Places(k, Plain))].value]
      BY <1>9 DEF Reading
    <2>2. /\ Has(Reading(reader), n) <=> P # {}
          /\ P # {} => Reading(reader)[n] = l
      BY <2>1, <1>1, <1>2 DEF Has
    <2>3. ASSUME P # {}
          PROVE  /\ \A v \in Strings : l = v <=> Fold[l] = v
                 /\ n = "record_version" => Fold[l] = l
      <3>1. LastOf(P) \in P
        BY <2>3, <1>5
      <3>2. l \in Literals /\ (n = "record_version" => l \notin Odd)
        BY <3>1, <1>2
      <3>3. Fold[l] # l => l \in Odd
        BY <3>2, DocumentAssumption
      <3>4. l \in Odd => l \notin Strings /\ Fold[l] \notin Strings
        BY DocumentAssumption DEF Strings
      <3> HIDE DEF l
      <3> QED
        BY <3>2, <3>3, <3>4
    <2> HIDE DEF l
    <2> QED
      BY <2>2, <2>3, <1>6 DEF Is
  <1> QED
    BY <1>7, <1>8, <1>9 DEF Readers

LEMMA ClaimsAgree ==
  ASSUME DInv, scan = "ok", NEW reader \in Readers
  PROVE  Claims(Reading(reader)) = Claims(Record)
  <1> DEFINE r == Reading(reader)
  <1>1. \A n \in DISCRIMINATOR_KEYS :
          /\ Has(r, n) <=> Has(Record, n)
          /\ \A v \in Strings : Is(r, n, v) <=> Is(Record, n, v)
          /\ n = "record_version" => \A v : Is(r, n, v) <=> Is(Record, n, v)
    BY ReadingsAgree
  <1> HIDE DEF r
  <1>2. /\ Is(r, "seal_receipt", "v1") <=> Is(Record, "seal_receipt", "v1")
        /\ Is(r, "seal_receipt", "v2") <=> Is(Record, "seal_receipt", "v2")
        /\ Is(r, "record_type", "seal.authorization-decision")
             <=> Is(Record, "record_type", "seal.authorization-decision")
        /\ Is(r, "record_version", "2") <=> Is(Record, "record_version", "2")
        /\ Is(r, "record_version", "3") <=> Is(Record, "record_version", "3")
        /\ Is(r, "seal_live_receipt", "v0") <=> Is(Record, "seal_live_receipt", "v0")
        /\ Has(r, "seal_check_receipt") <=> Has(Record, "seal_check_receipt")
        /\ Is(r, "receipt", "seal.spine/v1") <=> Is(Record, "receipt", "seal.spine/v1")
    BY <1>1 DEF DISCRIMINATOR_KEYS, Strings
  <1>3. Claims(r) = Claims(Record)
    BY <1>2 DEF Claims
  <1> QED
    BY <1>3 DEF r

-----------------------------------------------------------------------------
KeyFamilies == {{"seal_receipt"}, {"record_type", "record_version"},
                {"seal_live_receipt"}, {"seal_check_receipt"}, {"receipt"}}

\* Two families in a record make more than one.
LEMMA TwoFamilies ==
  ASSUME NEW r, NEW f \in DiscFamilies(r), NEW g \in DiscFamilies(r), f # g
  PROVE  Cardinality(DiscFamilies(r)) > 1
  <1>1. DiscFamilies(r) \subseteq KeyFamilies
    BY DEF DiscFamilies, KeyFamilies
  <1>2. IsFiniteSet(KeyFamilies)
    <2>1. IsFiniteSet({}) /\ \A S, x : IsFiniteSet(S) => IsFiniteSet(S \cup {x})
      BY FS_EmptySet, FS_AddElement
    <2>2. KeyFamilies = (((({} \cup {{"seal_receipt"}})
                           \cup {{"record_type", "record_version"}})
                          \cup {{"seal_live_receipt"}})
                         \cup {{"seal_check_receipt"}}) \cup {{"receipt"}}
      BY DEF KeyFamilies
    <2> QED
      BY <2>1, <2>2
  <1>3. IsFiniteSet(DiscFamilies(r))
    BY <1>1, <1>2, FS_Subset
  <1>4. IsFiniteSet({f, g}) /\ Cardinality({f, g}) = 2
    <2>1. IsFiniteSet({f}) /\ Cardinality({f}) = 1
      BY FS_Singleton
    <2>2. {f, g} = {f} \cup {g} /\ g \notin {f}
      OBVIOUS
    <2> QED
      BY <2>1, <2>2, FS_AddElement
  <1>5. Cardinality({f, g}) <= Cardinality(DiscFamilies(r))
    BY <1>3, FS_Subset
  <1>6. Cardinality(DiscFamilies(r)) \in Nat
    BY <1>3, FS_CardinalityType
  <1> QED
    BY <1>4, <1>5, <1>6

\* A record with a version claims that version and no other.
LEMMA OneClaim ==
  ASSUME NEW r, NEW v, v = ParsedVersion(r), v \notin {"null", "v0-check"}
  PROVE  Claims(r) = {v}
  <1> DEFINE host(w) == /\ Is(r, "record_type", "seal.authorization-decision")
                        /\ Is(r, "record_version", w)
  <1>1. ~(Cardinality(DiscFamilies(r)) > 1)
    BY DEF ParsedVersion
  <1>2. \A f, g \in DiscFamilies(r) : f = g
    BY <1>1, TwoFamilies
  <1>3. /\ Has(r, "seal_receipt") <=> {"seal_receipt"} \in DiscFamilies(r)
        /\ Has(r, "record_type") \/ Has(r, "record_version")
             <=> {"record_type", "record_version"} \in DiscFamilies(r)
        /\ Has(r, "seal_live_receipt") <=> {"seal_live_receipt"} \in DiscFamilies(r)
        /\ Has(r, "seal_check_receipt") <=> {"seal_check_receipt"} \in DiscFamilies(r)
        /\ Has(r, "receipt") <=> {"receipt"} \in DiscFamilies(r)
    BY DEF DiscFamilies
  <1>4. \/ v = "v2" /\ (Is(r, "seal_receipt", "v2") \/ host("2"))
        \/ v = "v3" /\ host("3")
        \/ v = "v1" /\ Is(r, "seal_receipt", "v1")
        \/ v = "v0-live" /\ Is(r, "seal_live_receipt", "v0")
    BY <1>1 DEF ParsedVersion
  <1>5. ASSUME Has(r, "seal_receipt")
        PROVE  /\ ~Has(r, "record_type") /\ ~Has(r, "record_version")
               /\ ~Has(r, "seal_live_receipt") /\ ~Has(r, "seal_check_receipt")
               /\ ~Has(r, "receipt")
    BY <1>2, <1>3, <1>5
  <1>6. ASSUME Has(r, "record_type")
        PROVE  /\ ~Has(r, "seal_receipt")
               /\ ~Has(r, "seal_live_receipt") /\ ~Has(r, "seal_check_receipt")
               /\ ~Has(r, "receipt")
    BY <1>2, <1>3, <1>6
  <1>7. ASSUME Has(r, "seal_live_receipt")
        PROVE  /\ ~Has(r, "record_type") /\ ~Has(r, "record_version")
               /\ ~Has(r, "seal_receipt") /\ ~Has(r, "seal_check_receipt")
               /\ ~Has(r, "receipt")
    BY <1>2, <1>3, <1>7
  <1>8. CASE Is(r, "seal_receipt", v) /\ v \in {"v1", "v2"}
    BY <1>5, <1>8 DEF Is, Claims
  <1>9. CASE v = "v2" /\ host("2")
    BY <1>6, <1>9 DEF Is, Claims
  <1>10. CASE v = "v3" /\ host("3")
    BY <1>6, <1>10 DEF Is, Claims
  <1>11. CASE v = "v0-live" /\ Is(r, "seal_live_receipt", "v0")
    BY <1>7, <1>11 DEF Is, Claims
  <1> QED
    BY <1>4, <1>8, <1>9, <1>10, <1>11

LEMMA DInvOneVersion == DInv => OneVersion
  <1> SUFFICES ASSUME DInv, Accepted, NEW reader \in Readers
               PROVE  Claims(Reading(reader)) = {version}
    BY DEF OneVersion
  <1>1. /\ scan # "refused" /\ version = ParsedVersion(Record)
        /\ version \notin {"null", "v0-check"}
    BY DEF DInv, Answers, Accepted
  <1>2. scan = "ok"
    BY <1>1 DEF DInv, TypeOK, Scanned, Accepted
  <1> QED
    BY <1>1, <1>2, ClaimsAgree, OneClaim

LEMMA DInvNoDowngrade == DInv => NoDowngrade
  <1> SUFFICES ASSUME DInv, Accepted, NEW reader \in Readers,
                      "v3" \in Claims(Reading(reader))
               PROVE  doc.signed
    BY DEF NoDowngrade
  <1>1. version = "v3"
    BY DInvOneVersion DEF OneVersion
  <1> QED
    BY <1>1 DEF DInv, Answers, Accepted

LEMMA DInvRouted == DInv => RoutedByEveryReading
  <1> SUFFICES ASSUME DInv, family \in {"spine", "decision"}, NEW reader \in Readers
               PROVE  LET r == Reading(reader)
                          seen == DOMAIN r \cap DISCRIMINATOR_KEYS
                      IN  /\ family = "spine" =>
                               seen = {"receipt"} /\ r["receipt"] = "seal.spine/v1"
                          /\ family = "decision" => seen # {} /\ "receipt" \notin seen
    BY DEF RoutedByEveryReading
  <1> DEFINE r == Reading(reader)
  <1>1. scan = "ok" /\ family = FamilyOf(Record)
    BY DEF DInv, Answers
  <1>2. \A n \in DISCRIMINATOR_KEYS :
          /\ Has(r, n) <=> Has(Record, n)
          /\ \A v \in Strings : Is(r, n, v) <=> Is(Record, n, v)
    BY <1>1, ReadingsAgree
  <1>3. CASE family = "spine"
    <2>1. ~Decision(Record) /\ Is(Record, "receipt", "seal.spine/v1")
      BY <1>1, <1>3 DEF FamilyOf, Is
    <2> HIDE DEF r
    <2>2. Is(r, "receipt", "seal.spine/v1")
      BY <2>1, <1>2 DEF Strings, DISCRIMINATOR_KEYS
    <2>3. \A n \in DISCRIMINATOR_KEYS \ {"receipt"} : n \notin DOMAIN r
      BY <2>1, <1>2 DEF Decision, Has
    <2>4. "receipt" \in DOMAIN r /\ r["receipt"] = "seal.spine/v1"
      BY <2>2 DEF Is, Has
    <2>5. DOMAIN r \cap DISCRIMINATOR_KEYS = {"receipt"}
      BY <2>3, <2>4 DEF DISCRIMINATOR_KEYS
    <2> QED
      BY <2>4, <2>5, <1>3 DEF r
  <1>4. CASE family = "decision"
    <2>1. Decision(Record) /\ ~Has(Record, "receipt")
      BY <1>1, <1>4 DEF FamilyOf
    <2> HIDE DEF r
    <2>2. "receipt" \notin DOMAIN r
      BY <2>1, <1>2 DEF Has, DISCRIMINATOR_KEYS
    <2>3. \E n \in DISCRIMINATOR_KEYS : n \in DOMAIN r
      BY <2>1, <1>2 DEF Decision, Has
    <2> QED
      BY <2>2, <2>3, <1>4 DEF r
  <1> QED
    BY <1>3, <1>4

LEMMA DInvHonest == DInv => HonestIsRead
  <1> DEFINE top == {i \in 1..Len(doc.members) : doc.members[i].depth = 0}
  <1> SUFFICES ASSUME DInv, scan = "refused", doc.form \in {"object", "other"},
                      \A i \in top : /\ ~doc.members[i].escaped
                                     /\ doc.members[i].value \notin Odd
               PROVE  \E i, j \in top :
                        i # j /\ doc.members[i].name = doc.members[j].name
    BY DEF HonestIsRead
  <1>1. PICK n \in Names : Ambiguous(n)
    BY DEF DInv, Scanned
  <1>2. /\ topLevel[n].count > 1 <=> \E i, j \in Top(n) : i # j
        /\ topLevel[n].escaped <=> \E i \in Top(n) : doc.members[i].escaped
        /\ topLevel[n].odd <=> \E i \in Top(n) : doc.members[i].value \in Odd
    BY DEF DInv, MapIsExact
  <1>3. at \in 1..(Len(doc.members) + 1) /\ Len(doc.members) \in Nat
    BY MembersType DEF DInv, TypeOK
  <1>4. Top(n) \subseteq top /\ \A i \in Top(n) : doc.members[i].name = n
    BY <1>3 DEF Top
  <1> HIDE DEF top
  <1>5. \E i, j \in Top(n) : i # j
    BY <1>1, <1>2, <1>4 DEF Ambiguous
  <1> QED
    BY <1>4, <1>5

-----------------------------------------------------------------------------
\* The scanner, the router and the validator keep their types, on documents of
\* any length.
THEOREM DocumentTypeCorrect == Spec => []TypeOK
  BY DInvariant, PTL DEF DInv

\* A document that validates claims one version, whoever reads it.
THEOREM OneVersionSafe == Spec => []OneVersion
  BY DInvariant, DInvOneVersion, PTL

\* What any reader would take for a v3 receipt is not accepted unsigned.
THEOREM NoDowngradeSafe == Spec => []NoDowngrade
  BY DInvariant, DInvNoDowngrade, PTL

\* The page routes a document as every reader would.
THEOREM RoutedSafe == Spec => []RoutedByEveryReading
  BY DInvariant, DInvRouted, PTL

\* No honest document is refused by the scan, however long it is.
THEOREM HonestIsReadSafe == Spec => []HonestIsRead
  BY DInvariant, DInvHonest, PTL
=============================================================================
