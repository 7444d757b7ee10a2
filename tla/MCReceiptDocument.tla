------------------------- MODULE MCReceiptDocument -------------------------
(***************************************************************************)
(* Documents of up to MaxMembers members.  Three let a host record repeat  *)
(* one of its two discriminators, or carry another family beside them.     *)
(***************************************************************************)
EXTENDS ReceiptDocument

CONSTANT MaxMembers

Known ==
  {<<"seal_receipt", "v1">>, <<"seal_receipt", "v2">>,
   <<"record_type", "seal.authorization-decision">>, <<"record_type", "ALLOW">>,
   <<"record_version", "2">>, <<"record_version", "3">>,
   <<"record_version", "4">>, <<"record_version", "2.0">>,
   <<"record_version", "3.0">>,
   <<"seal_live_receipt", "v0">>, <<"seal_check_receipt", "v1">>,
   <<"receipt", "seal.spine/v1">>, <<"receipt", "ALLOW">>,
   <<"verdict", "ALLOW">>, <<"verdict", "BLOCK">>}

MCLiterals == {k[2] : k \in Known}
MCFold == [l \in MCLiterals |->
             CASE l = "2.0" -> "2" [] l = "3.0" -> "3" [] OTHER -> l]

Member(k, escaped, depth) ==
  [name |-> k[1], escaped |-> escaped, value |-> k[2], depth |-> depth]
TopMembers == {Member(k, e, 0) : k \in Known, e \in BOOLEAN}
Nested == {Member(k, FALSE, 1) :
             k \in {<<"record_version", "2">>, <<"verdict", "ALLOW">>}}

Sized(S) == UNION {[1..n -> S] : n \in 0..MaxMembers}

Doc(ms, form, body, signed) ==
  [members |-> ms, form |-> form, body |-> body, signed |-> signed]

MCDocuments ==
  {Doc(ms, "object", TRUE, signed) :
     ms \in Sized(TopMembers \cup Nested), signed \in BOOLEAN}
    \cup {Doc(<<m>>, form, body, TRUE) :
            m \in TopMembers, form \in {"object", "bom", "broken"},
            body \in BOOLEAN}
    \cup {Doc(<<m>>, "other", TRUE, TRUE) : m \in Nested}
=============================================================================
