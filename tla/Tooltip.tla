------------------------------- MODULE Tooltip -------------------------------
(***************************************************************************)
(* The explanations behind the (i) buttons (tooltip.js).  A tip is a       *)
(* trigger and a body.  What hides a body is an event on the page's root,  *)
(* so a body that no event will reach stays in the visitor's way.  Tables  *)
(* are rendered anew under the pointer: a replaced tip leaves the document *)
(* without an event, and its node never comes back.                        *)
(***************************************************************************)
CONSTANTS Tips, Away

ASSUME TipAssumption == Away \notin Tips \X {"trigger", "body"}

VARIABLES
  dom,      \* tip -> "unborn", "attached" or "detached"
  shown,    \* the tips whose body is not hidden
  pinned,   \* the tips that carry the class tip-pinned
  OPEN,     \* the module's own set of open tips
  pointer,  \* the part of a tip the pointer is over
  focus     \* the trigger that has the focus

vars == <<dom, shown, pinned, OPEN, pointer, focus>>

Triggers == Tips \X {"trigger"}
Attached == {t \in Tips : dom[t] = "attached"}

\* The tip a part belongs to; none if it is elsewhere.
TipOf(place) == {t \in Tips : place \in {<<t, "trigger">>, <<t, "body">>}}

TypeOK ==
  /\ dom \in [Tips -> {"unborn", "attached", "detached"}]
  /\ shown \subseteq Tips /\ pinned \subseteq Tips /\ OPEN \subseteq Tips
  /\ pointer \in (Tips \X {"trigger", "body"}) \cup {Away}
  /\ focus \in Triggers \cup {Away}

Init ==
  /\ dom \in [Tips -> {"unborn", "attached"}]
  /\ shown = {} /\ pinned = {} /\ OPEN = {}
  /\ pointer = Away /\ focus = Away

-----------------------------------------------------------------------------
\* Mutant of HideThenShow: the pin is not looked at.
HideThenShowUnpins(left, entered) ==
  /\ shown' = (shown \ left) \cup entered
  /\ OPEN' = (OPEN \ left) \cup entered

\* Mutant of HideThenShow: a pinned tip is forgotten although it stays.
HideThenShowForgets(left, entered) ==
  /\ shown' = (shown \ (left \ pinned)) \cup entered
  /\ OPEN' = (OPEN \ left) \cup entered

\* hide, then show, as the two events of a move call them.  A pinned tip is
\* not hidden.
HideThenShow(left, entered) ==
  /\ shown' = (shown \ (left \ pinned)) \cup entered
  /\ OPEN' = (OPEN \ (left \ pinned)) \cup entered

\* mouseout of one part, then mouseover of another; within one tip nothing is
\* hidden.  A hidden body cannot be entered.
MovePointer(place) ==
  /\ place # pointer
  /\ TipOf(place) \subseteq Attached
  /\ place \in Tips \X {"body"} => TipOf(place) \subseteq shown
  /\ HideThenShow(TipOf(pointer) \ TipOf(place), TipOf(place))
  /\ pointer' = place
  /\ UNCHANGED <<dom, pinned, focus>>

\* Mutant of MoveFocus: it is the node that is shown, not its tip.
MoveFocusShowsNode(place) ==
  /\ place # focus
  /\ TipOf(place) \subseteq Attached
  /\ HideThenShow(TipOf(focus), {place} \ {Away})
  /\ focus' = place
  /\ UNCHANGED <<dom, pinned, pointer>>

\* focusout, then focusin.
MoveFocus(place) ==
  /\ place # focus
  /\ TipOf(place) \subseteq Attached
  /\ HideThenShow(TipOf(focus), TipOf(place))
  /\ focus' = place
  /\ UNCHANGED <<dom, pinned, pointer>>

\* A click, a tap, or Enter on the focused trigger.
Activate(t) ==
  /\ <<t, "trigger">> \in {pointer, focus}
  /\ IF t \in pinned
       THEN /\ pinned' = pinned \ {t}
            /\ shown' = shown \ {t}
            /\ OPEN' = OPEN \ {t}
       ELSE /\ pinned' = pinned \cup {t}
            /\ shown' = shown \cup {t}
            /\ OPEN' = OPEN \cup {t}
  /\ UNCHANGED <<dom, pointer, focus>>

HideAll ==
  /\ shown' = shown \ OPEN
  /\ pinned' = pinned \ OPEN
  /\ OPEN' = {}
  /\ UNCHANGED <<dom, pointer, focus>>

Escape == HideAll

\* A click that lands outside every tip, with the pointer or by the keyboard.
ClickOutside == Away \in {pointer, focus} /\ HideAll

\* A table is rendered: its old tips go, without an event, and new ones come,
\* hidden.
Render(old, new) ==
  /\ old \subseteq Attached /\ old \cup new # {}
  /\ \A t \in new : dom[t] = "unborn"
  /\ dom' = [t \in Tips |-> IF t \in old THEN "detached"
                            ELSE IF t \in new THEN "attached" ELSE dom[t]]
  /\ pointer' = IF TipOf(pointer) \subseteq old THEN Away ELSE pointer
  /\ focus' = IF TipOf(focus) \subseteq old THEN Away ELSE focus
  /\ UNCHANGED <<shown, pinned, OPEN>>

Next ==
  \/ \E place \in (Tips \X {"trigger", "body"}) \cup {Away} : MovePointer(place)
  \/ \E place \in Triggers \cup {Away} : MoveFocus(place)
  \/ \E t \in Tips : Activate(t)
  \/ Escape
  \/ ClickOutside
  \/ \E old, new \in SUBSET Tips : Render(old, new)

Spec == Init /\ [][Next]_vars

-----------------------------------------------------------------------------
\* No body is left in the way: whatever is shown is in the set that Escape and
\* a click outside empty, and is shown because it is pinned, hovered or focused
\* (tooltip.js 14-19, 93-114).
NoneStuck ==
  \A t \in Attached :
    /\ t \in shown => /\ t \in OPEN
                      /\ t \in pinned \/ t \in TipOf(pointer) \cup TipOf(focus)
    /\ t \in pinned => t \in shown

\* A pinned body stays while pointer and focus go elsewhere: it is for those
\* who cannot hover (tooltip.js 17-18, 94).
PinStands ==
  [][pointer' # pointer \/ focus' # focus
       => \A t \in pinned : t \in Attached' => t \in shown']_vars
=============================================================================
