-------------------------------- MODULE Landing --------------------------------
(***************************************************************************)
(* The controls of the landing page (web/app/page.tsx): the menu of small  *)
(* screens, the links within the page, the questions, the values that are  *)
(* sealed until one points at them and the figures that count up           *)
(* (ShieldedValue and Counter in web/components/landing/ui.tsx).           *)
(*                                                                         *)
(* A figure is counted in steps of which a frame takes any number.         *)
(***************************************************************************)
EXTENDS Integers

CONSTANTS
  Sections,     \* the sections of the page, the top included
  Top,
  Questions,    \* the number of questions
  To,           \* the steps of a figure
  None          \* no hash, no open question

LandingAssumption ==
  /\ Top \in Sections /\ None \notin Sections \cup Nat
  /\ {Questions, To} \subseteq Nat \ {0}

VARIABLES
  open,      \* the page is mounted
  place,     \* the hash of the URL, and the section scrolled to
  menu,      \* the menu, and the class of the body that stops it scrolling
  faq,       \* the open question
  value,     \* a ShieldedValue, and whether it is hovered over or focused
  counter    \* a Counter, and its pending frame

vars == <<open, place, menu, faq, value, counter>>

NoMenu == [open |-> FALSE, locked |-> FALSE]
Sealed == [revealed |-> FALSE, hover |-> FALSE, focus |-> FALSE]
Uncounted == [inView |-> FALSE, n |-> 0, frame |-> FALSE]

Init ==
  /\ open = FALSE
  /\ place = [hash |-> None, section |-> Top]
  /\ menu = NoMenu /\ faq = 0 /\ value = Sealed /\ counter = Uncounted

\* The page is loaded, from a link to one of its sections perhaps; the effect
\* takes the hash out of the URL and goes to the top.
Open ==
  /\ open' = TRUE
  /\ place' = [hash |-> None, section |-> Top]
  /\ menu' = NoMenu /\ faq' = 0 /\ value' = Sealed /\ counter' = Uncounted

\* The cleanups: the class is removed and the frame cancelled.
Leave(hash) ==
  /\ open /\ open' = FALSE
  /\ place' = [place EXCEPT !.hash = hash]
  /\ menu' = NoMenu /\ faq' = 0 /\ value' = Sealed /\ counter' = Uncounted

-----------------------------------------------------------------------------
(* Nav.                                                                    *)

\* Its effect: the cleanup removes the class, the next run toggles it.
SetMenu(shown) ==
  open /\ menu' = [open |-> shown, locked |-> shown]

Burger ==
  SetMenu(~menu.open) /\ UNCHANGED <<open, place, faq, value, counter>>

\* Escape, the backdrop, or the wordmark, which also goes to the top.
CloseMenu(section) ==
  /\ menu.open /\ SetMenu(FALSE)
  /\ section \in {place.section, Top}
  /\ place' = [place EXCEPT !.section = section]
  /\ UNCHANGED <<open, faq, value, counter>>

\* Fault: the browser follows the link.
LinkWithHash(section) ==
  /\ open /\ place' = [hash |-> section, section |-> section]
  /\ IF menu.open THEN SetMenu(FALSE) ELSE UNCHANGED menu
  /\ UNCHANGED <<open, faq, value, counter>>

\* A link to a section; in the menu it closes it, which covers the others.
Link(section) ==
  /\ open /\ place' = [place EXCEPT !.section = section]
  /\ IF menu.open THEN SetMenu(FALSE) ELSE UNCHANGED menu
  /\ UNCHANGED <<open, faq, value, counter>>

-----------------------------------------------------------------------------
(* FAQ, ShieldedValue and Counter.                                         *)

ToggleQuestion(i) ==
  /\ open /\ faq' = IF faq = i THEN None ELSE i
  /\ UNCHANGED <<open, place, menu, value, counter>>

\* The pointer or the focus comes or goes.
Point(at, here) ==
  /\ open /\ value[at] # here
  /\ value' = [value EXCEPT ![at] = here, !.revealed = here]
  /\ UNCHANGED <<open, place, menu, faq, counter>>

\* Under the pointer with a mouse, by the keyboard with the focus.
ClickValue ==
  /\ open
  /\ value.hover \/ value.focus
  /\ value' = [value EXCEPT !.revealed = ~@]
  /\ UNCHANGED <<open, place, menu, faq, counter>>

\* The figure is scrolled into view: once, and at once with reduced motion.
InView(reduce) ==
  /\ open /\ ~counter.inView
  /\ counter' = [inView |-> TRUE, n |-> IF reduce THEN To ELSE 0, frame |-> ~reduce]
  /\ UNCHANGED <<open, place, menu, faq, value>>

\* tick: the last frame shows the figure itself.
Tick(n) ==
  /\ open /\ counter.frame /\ n \in counter.n .. To
  /\ counter' = [counter EXCEPT !.n = n, !.frame = n < To]
  /\ UNCHANGED <<open, place, menu, faq, value>>

Next ==
  \/ Open \/ \E hash \in Sections \cup {None} : Leave(hash)
  \/ Burger
  \/ \E section \in Sections : CloseMenu(section) \/ Link(section)
  \/ \E i \in 0 .. Questions - 1 : ToggleQuestion(i)
  \/ \E at \in {"hover", "focus"}, here \in BOOLEAN : Point(at, here)
  \/ ClickValue
  \/ \E reduce \in BOOLEAN : InView(reduce)
  \/ \E n \in 0 .. To : Tick(n)

Spec == Init /\ [][Next]_vars

-----------------------------------------------------------------------------

\* Every variable has its type.
TypeOK ==
  /\ open \in BOOLEAN
  /\ place.hash \in Sections \cup {None} /\ place.section \in Sections
  /\ {menu.open, menu.locked, value.revealed, value.hover, value.focus,
      counter.inView, counter.frame} \subseteq BOOLEAN
  /\ faq \in {None} \cup 0 .. Questions - 1
  /\ counter.n \in 0 .. To

(***************************************************************************)
(* The controls leave nothing behind.  The body is locked against          *)
(* scrolling just while the menu is open on this page, whatever closes it  *)
(* or leaves the page under it.  A value that nothing points at is sealed  *)
(* again, however pointer, focus and clicks overlapped.  No link within    *)
(* the page leaves a hash, with which a reload would land in its middle.   *)
(* A figure that was seen counts on until it is shown exactly, but not for *)
(* a page that was left.                                                   *)
(***************************************************************************)
ControlsLetGo ==
  /\ menu.locked <=> (open /\ menu.open)
  /\ value.revealed => (value.hover \/ value.focus)
  /\ open => place.hash = None
  /\ counter.frame <=> (open /\ counter.inView /\ counter.n < To)
=============================================================================
