---------------------------- MODULE Tooltip_proofs ----------------------------
(***************************************************************************)
(* Theorems about the tips, for any set of them and any order of events.   *)
(***************************************************************************)
EXTENDS Tooltip, TLAPS

\* NoneStuck for the tips that were replaced too, but for what justifies a
\* body; and a tip that is not yet born is not shown.
Kept ==
  /\ shown \subseteq OPEN
  /\ pinned \subseteq shown
  /\ \A t \in Tips : dom[t] = "unborn" => t \notin shown

Justified ==
  \A t \in Attached \cap shown :
    t \in pinned \/ t \in TipOf(pointer) \cup TipOf(focus)

\* Pointer and focus are on tips that are there.
Present == TipOf(pointer) \cup TipOf(focus) \subseteq Attached

TInv == TypeOK /\ Kept /\ Justified /\ Present

-----------------------------------------------------------------------------
\* The tips of a part are tips.
LEMMA TipOfType == ASSUME NEW place PROVE TipOf(place) \subseteq Tips
  BY DEF TipOf

\* At first nothing is shown.
LEMMA TipsInit == Init => TInv
<1> SUFFICES ASSUME Init PROVE TInv
  OBVIOUS
<1>1. TypeOK
  BY DEF Init, TypeOK, Triggers
<1>2. Kept /\ Justified
  BY DEF Init, Kept, Justified
<1>3. TipOf(Away) = {}
  BY TipAssumption DEF TipOf
<1> QED
  BY <1>1, <1>2, <1>3 DEF TInv, Init, Present

\* What two events of a move leave of Kept, whichever tips they are about.
LEMMA MoveKeeps ==
  ASSUME TypeOK, Kept, NEW left \in SUBSET Tips, NEW entered \in SUBSET Attached,
         HideThenShow(left, entered), UNCHANGED <<dom, pinned>>
  PROVE  /\ shown' \subseteq Tips /\ OPEN' \subseteq Tips
         /\ Kept'
         /\ \A t \in Tips : t \in shown' =>
              t \in pinned' \/ t \in entered \/ (t \in shown /\ t \notin left)
  BY DEF TypeOK, Kept, HideThenShow, Attached

\* Every event keeps the invariant.
LEMMA TipsStep == TInv /\ [Next]_vars => TInv'
<1> SUFFICES ASSUME TInv, [Next]_vars PROVE TInv'
  OBVIOUS
<1> USE DEF TInv
<1>1. ASSUME NEW place \in (Tips \X {"trigger", "body"}) \cup {Away},
             MovePointer(place)
      PROVE  TInv'
  <2> DEFINE left == TipOf(pointer) \ TipOf(place)
  <2>1. /\ left \in SUBSET Tips /\ TipOf(place) \in SUBSET Attached
        /\ HideThenShow(left, TipOf(place)) /\ UNCHANGED <<dom, pinned>>
    BY <1>1, TipOfType DEF MovePointer
  <2> HIDE DEF left
  <2>2. /\ shown' \subseteq Tips /\ OPEN' \subseteq Tips /\ Kept'
        /\ \A t \in Tips : t \in shown' =>
             t \in pinned' \/ t \in TipOf(place) \/ (t \in shown /\ t \notin left)
    BY <2>1, MoveKeeps
  <2>3. TypeOK'
    BY <1>1, <2>2 DEF TypeOK, MovePointer
  <2>4. Justified'
    <3> SUFFICES ASSUME NEW t \in Tips, dom[t] = "attached", t \in shown',
                        t \notin pinned
                 PROVE  t \in TipOf(place) \/ t \in TipOf(focus)
      BY <1>1 DEF Justified, Attached, MovePointer
    <3>1. t \in TipOf(place) \/ (t \in shown /\ t \notin left)
      BY <2>1, <2>2
    <3>2. t \in shown => t \in TipOf(pointer) \cup TipOf(focus)
      BY DEF Justified, Attached
    <3> QED
      BY <3>1, <3>2 DEF left
  <2>5. Present'
    BY <1>1 DEF Present, Attached, MovePointer
  <2> QED
    BY <2>2, <2>3, <2>4, <2>5
<1>2. ASSUME NEW place \in Triggers \cup {Away}, MoveFocus(place)
      PROVE  TInv'
  <2>1. /\ TipOf(focus) \in SUBSET Tips /\ TipOf(place) \in SUBSET Attached
        /\ HideThenShow(TipOf(focus), TipOf(place)) /\ UNCHANGED <<dom, pinned>>
    BY <1>2, TipOfType DEF MoveFocus
  <2>2. /\ shown' \subseteq Tips /\ OPEN' \subseteq Tips /\ Kept'
        /\ \A t \in Tips : t \in shown' =>
             \/ t \in pinned' \/ t \in TipOf(place)
             \/ t \in shown /\ t \notin TipOf(focus)
    BY <2>1, MoveKeeps
  <2>3. TypeOK'
    BY <1>2, <2>2 DEF TypeOK, MoveFocus
  <2>4. Justified'
    <3> SUFFICES ASSUME NEW t \in Tips, dom[t] = "attached", t \in shown',
                        t \notin pinned
                 PROVE  t \in TipOf(pointer) \/ t \in TipOf(place)
      BY <1>2 DEF Justified, Attached, MoveFocus
    <3>1. t \in TipOf(place) \/ (t \in shown /\ t \notin TipOf(focus))
      BY <2>1, <2>2
    <3>2. t \in shown => t \in TipOf(pointer) \cup TipOf(focus)
      BY DEF Justified, Attached
    <3> QED
      BY <3>1, <3>2
  <2>5. Present'
    BY <1>2 DEF Present, Attached, MoveFocus
  <2> QED
    BY <2>2, <2>3, <2>4, <2>5
<1>3. ASSUME NEW u \in Tips, Activate(u) PROVE TInv'
  <2>1. TypeOK' /\ Present'
    BY <1>3 DEF TypeOK, Activate, Present, Attached
  <2>2. u \in TipOf(pointer) \cup TipOf(focus)
    BY <1>3 DEF Activate, TipOf
  <2>3. CASE u \in pinned
    BY <1>3, <2>1, <2>3 DEF Activate, Kept, Justified, Attached
  <2>4. CASE u \notin pinned
    <3>1. dom[u] = "unborn" => FALSE
      BY <2>2 DEF Present, Attached
    <3> QED
      BY <1>3, <2>1, <2>4, <3>1 DEF Activate, Kept, Justified, Attached
  <2> QED
    BY <2>3, <2>4
<1>4. ASSUME HideAll PROVE TInv'
  <2>1. TypeOK' /\ Present'
    BY <1>4 DEF TypeOK, HideAll, Present, Attached
  <2>2. shown' = {} /\ pinned' = {}
    BY <1>4 DEF HideAll, Kept
  <2> QED
    BY <2>1, <2>2 DEF Kept, Justified
<1>5. ASSUME NEW old \in SUBSET Tips, NEW new \in SUBSET Tips, Render(old, new)
      PROVE  TInv'
  <2>1. TypeOK'
    BY <1>5 DEF TypeOK, Render
  <2>2. Kept'
    BY <1>5 DEF TypeOK, Kept, Render
  <2>3. Justified'
    <3> SUFFICES ASSUME NEW t \in Tips, dom'[t] = "attached", t \in shown,
                        t \notin pinned
                 PROVE  t \in TipOf(pointer') \/ t \in TipOf(focus')
      BY <1>5 DEF Justified, Attached, Render
    <3>1. t \notin new /\ t \notin old /\ dom[t] = "attached"
      BY <1>5 DEF TypeOK, Kept, Render
    <3>2. t \in TipOf(pointer) \cup TipOf(focus)
      BY <3>1 DEF Justified, Attached
    <3> QED
      BY <1>5, <3>1, <3>2 DEF Render
  <2>4. Present'
    <3>1. TipOf(Away) = {}
      BY TipAssumption DEF TipOf
    <3>2. \A t, place : t \in TipOf(place) => TipOf(place) = {t}
      BY DEF TipOf
    <3> QED
      BY <1>5, <3>1, <3>2 DEF TypeOK, Render, Present, Attached
  <2> QED
    BY <2>1, <2>2, <2>3, <2>4
<1>6. CASE UNCHANGED vars
  BY <1>6 DEF vars, TypeOK, Kept, Justified, Present, Attached
<1> QED
  BY <1>1, <1>2, <1>3, <1>4, <1>5, <1>6 DEF Next, Escape, ClickOutside

LEMMA TipsInvariant == Spec => []TInv
  BY TipsInit, TipsStep, PTL DEF Spec

-----------------------------------------------------------------------------
\* The tips' variables keep their types.
THEOREM TipsTypeCorrect == Spec => []TypeOK
<1>1. TInv => TypeOK
  BY DEF TInv
<1> QED
  BY <1>1, TipsInvariant, PTL

\* No body is shown that Escape and a click outside would not hide, and none
\* without a reason (tooltip.js 93-114).
THEOREM NoneStuckSafe == Spec => []NoneStuck
<1>1. TInv => NoneStuck
  BY DEF TInv, Kept, Justified, NoneStuck, Attached
<1> QED
  BY <1>1, TipsInvariant, PTL

\* A pinned body stays while pointer and focus move (tooltip.js 94).
THEOREM PinStandsSafe == Spec => PinStands
<1> DEFINE Stays == pointer' # pointer \/ focus' # focus
                      => \A t \in pinned : t \in Attached' => t \in shown'
<1>1. ASSUME TInv, [Next]_vars PROVE [Stays]_vars
  <2>1. ASSUME NEW place, MovePointer(place) \/ MoveFocus(place) PROVE Stays
    BY <1>1, <2>1 DEF TInv, Kept, MovePointer, MoveFocus, HideThenShow
  <2>2. ASSUME NEW u \in Tips, Activate(u) PROVE Stays
    BY <2>2 DEF Activate
  <2>3. ASSUME HideAll PROVE Stays
    BY <2>3 DEF HideAll
  <2>4. ASSUME NEW old, NEW new, Render(old, new) PROVE Stays
    BY <1>1, <2>4 DEF TInv, Kept, Render
  <2> QED
    BY <1>1, <2>1, <2>2, <2>3, <2>4 DEF Next, Escape, ClickOutside
<1> QED
  BY <1>1, TipsInvariant, PTL DEF Spec, PinStands
=============================================================================
