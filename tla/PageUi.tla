------------------------------- MODULE PageUi -------------------------------
(***************************************************************************)
(* The scripts of the page in a browser: check boxes that set classes of   *)
(* <body>, buttons that collapse one function or all of them, and the      *)
(* overlay.  A handler runs to its end before the next event; the          *)
(* animations it asks for are queued by jQuery, one queue per element.     *)
(* Names that Cells, the other side of the page, has too begin with Ui.    *)
(***************************************************************************)
EXTENDS Naturals, Sequences, FiniteSets

CONSTANTS
  Functions,  \* the functions of the page
  Flags,      \* the css ids of its check boxes, all checked in the page
  MaxClicks   \* bound on what the user does

ASSUME ClicksAssumption == MaxClicks \in Nat

VARIABLES
  checked,    \* the boxes that are checked
  touched,    \* the boxes the user changed since the page was loaded
  body,       \* the classes of <body>
  collapsed,  \* the functions with the class "collapsed"
  allBtn,     \* whether #collapse-all-btn has the class "collapsed"
  queue,      \* for each .function-code its animations, the first under way
  shown,      \* the .function-code elements that the last ended one left on display
  overlay,    \* whether #cfg-overlay covers the page
  clicks      \* how often the user did something

boxes == <<checked, touched, body>>
code  == <<collapsed, allBtn, queue, shown>>
uiVars  == <<boxes, code, overlay, clicks>>

Idle == [f \in Functions |-> <<>>]

\* The page as HtmlPrinter writes it, just loaded.
UiInit ==
  /\ checked = Flags
  /\ touched = {}
  /\ body = Flags
  /\ collapsed = {}
  /\ allBtn = FALSE
  /\ queue = Idle
  /\ shown = Functions
  /\ overlay = FALSE
  /\ clicks = 0

\* The user loads the page again.  A browser may put the boxes back to what
\* they were; the classes are those of the page.
Reload ==
  /\ checked' \in {Flags, checked}
  /\ touched' = {}
  /\ body' = Flags
  /\ collapsed' = {}
  /\ allBtn' = FALSE
  /\ queue' = Idle
  /\ shown' = Functions
  /\ overlay' = FALSE

-----------------------------------------------------------------------------
Toggled(x, S) == IF x \in S THEN S \ {x} ELSE S \cup {x}

\* Mutant of ChangeFlag: the class is toggled, whatever the box is now.
ChangeFlagToggling(c) ==
  /\ checked' = Toggled(c, checked)
  /\ body' = Toggled(c, body)
  /\ touched' = touched \cup {c}
  /\ UNCHANGED <<code, overlay>>

\* change(): the class follows the state of the box.
ChangeFlag(c) ==
  /\ checked' = Toggled(c, checked)
  /\ body' = IF c \in checked' THEN body \cup {c} ELSE body \ {c}
  /\ touched' = touched \cup {c}
  /\ UNCHANGED <<code, overlay>>

\* slideUp(), slideDown() of the code of some functions: they wait for the
\* animations that were asked for before.
Slide(fs, way) ==
  queue' = [f \in Functions |-> IF f \in fs THEN Append(queue[f], way) ELSE queue[f]]

\* Mutant of CollapseFunction: slideToggle() in place of the two.
CollapseFunctionToggling(f) ==
  /\ collapsed' = Toggled(f, collapsed)
  /\ Slide({f}, "toggle")
  /\ UNCHANGED <<boxes, allBtn, shown, overlay>>

\* click() of a .function-collapse-btn
CollapseFunction(f) ==
  /\ collapsed' = Toggled(f, collapsed)
  /\ Slide({f}, IF f \in collapsed' THEN "up" ELSE "down")
  /\ UNCHANGED <<boxes, allBtn, shown, overlay>>

\* Mutant of CollapseAll: only what does not have the class yet is animated,
\* but the class is read after it was set.
CollapseAllStale ==
  /\ allBtn' = ~allBtn
  /\ collapsed' = IF allBtn' THEN Functions ELSE {}
  /\ IF allBtn' THEN Slide(Functions \ collapsed', "up") ELSE Slide(collapsed', "down")
  /\ UNCHANGED <<boxes, shown, overlay>>

\* click() of #collapse-all-btn
CollapseAll ==
  /\ allBtn' = ~allBtn
  /\ collapsed' = IF allBtn' THEN Functions ELSE {}
  /\ Slide(Functions, IF allBtn' THEN "up" ELSE "down")
  /\ UNCHANGED <<boxes, shown, overlay>>

\* click() of a .function-name and of a .cfg-overlay-closer
SetOverlay(on) == overlay' = on /\ UNCHANGED <<boxes, code>>

User ==
  /\ clicks < MaxClicks
  /\ clicks' = clicks + 1
  /\ \/ Reload
     \/ \E c \in Flags : ChangeFlag(c)
     \/ \E f \in Functions : CollapseFunction(f)
     \/ CollapseAll
     \/ \E on \in BOOLEAN : SetOverlay(on)

\* Mutant of EndSlide: the rest of the queue is dropped.
EndSlideClearingQueue(f) ==
  /\ queue[f] # <<>>
  /\ shown' = IF Head(queue[f]) = "down" THEN shown \cup {f} ELSE shown \ {f}
  /\ queue' = [queue EXCEPT ![f] = <<>>]
  /\ UNCHANGED <<boxes, collapsed, allBtn, overlay, clicks>>

\* An animation ends and the next one of its queue starts.
EndSlide(f) ==
  /\ queue[f] # <<>>
  /\ shown' = IF Head(queue[f]) = "down" THEN shown \cup {f} ELSE shown \ {f}
  /\ queue' = [queue EXCEPT ![f] = Tail(@)]
  /\ UNCHANGED <<boxes, collapsed, allBtn, overlay, clicks>>

UiNext == User \/ \E f \in Functions : EndSlide(f)

UiSpec     == UiInit /\ [][UiNext]_uiVars
\* Timers go on; the user need not do anything.
UiFairSpec == UiSpec /\ \A f \in Functions : WF_uiVars(EndSlide(f))

-----------------------------------------------------------------------------
UiTypeOK ==
  /\ checked \subseteq Flags /\ touched \subseteq Flags /\ body \subseteq Flags
  /\ collapsed \subseteq Functions /\ shown \subseteq Functions
  /\ queue \in [Functions -> Seq({"up", "down"})]
  /\ allBtn \in BOOLEAN /\ overlay \in BOOLEAN
  /\ clicks \in 0 .. MaxClicks

\* Classes change when the user clicks, code moves later, and two buttons act
\* on one function.  Whenever no animation is left, the code that is displayed
\* is that of the functions whose class says so, and while some are left the
\* last of them leads there.
CodeFollowsClass ==
  \A f \in Functions :
     (f \in collapsed) <=>
        IF queue[f] = <<>> THEN f \notin shown ELSE queue[f][Len(queue[f])] = "up"

\* A flag of <body> is set exactly if the box for it is checked, from the first
\* time on that the user changes the box: also after the browser has restored
\* boxes that the classes of the page know nothing of.
FlagsFollowBoxes == touched \cap body = touched \cap checked

\* After its last click a function comes to rest with its code displayed or
\* hidden as its class says, however many animations were waiting.
Settles ==
  \A f \in Functions : <>[](queue[f] = <<>> /\ (f \in collapsed <=> f \notin shown))

=============================================================================
