---------------------------- MODULE MCCheckerPage ----------------------------
(***************************************************************************)
(* CheckerPage on a handful of texts: the bundled example, a Spine receipt *)
(* and a Protect receipt under the same signer, decision receipts that are *)
(* forged, of a control path, or of a request that nobody can parse, one   *)
(* text of no family and one that is too large.  A cfg picks the subset    *)
(* its question needs.                                                     *)
(***************************************************************************)
EXTENDS CheckerPage

AllFamilies ==
  [ empty    |-> "unreadable",
    example  |-> "decision",
    forged   |-> "decision",
    bypassed |-> "decision",
    opaque   |-> "decision",
    spine    |-> "spine",
    protect  |-> "protect",
    noise    |-> "other",
    huge     |-> "malformed" ]

AllGrades ==
  [ empty    |-> "illformed",
    example  |-> "genuine",
    forged   |-> "tampered",
    bypassed |-> "control",
    opaque   |-> "unreplayable",
    spine    |-> "genuine",
    protect  |-> "genuine",
    noise    |-> "illformed",
    huge     |-> "illformed" ]

MCFamily == [t \in Texts |-> AllFamilies[t]]
MCGrade  == [t \in Texts |-> AllGrades[t]]
MCSigner == [t \in Texts |-> "signer"]
=============================================================================
