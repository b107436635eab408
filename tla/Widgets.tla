------------------------------- MODULE Widgets -------------------------------
(***************************************************************************)
(* The parts of the pages that move by themselves: on the landing page the *)
(* mock of the terminal (web/components/landing/TerminalMock.tsx) and the  *)
(* carousel of small screens (MobileCarousel.tsx), in the app the stream   *)
(* of activity (web/components/ActivityStream.tsx).                        *)
(*                                                                         *)
(* Intervals and timeouts run at any time after they are set: the delays   *)
(* are left out, and MaxTimers bounds how many timeouts of the mock are    *)
(* waiting (2200 ms against a tick of 90).  A timeout that is not cleared  *)
(* when its page is left finds no state to set.                            *)
(***************************************************************************)
EXTENDS Integers, Sequences

CONSTANTS
  Cards,        \* the number of cards of the carousel
  max,          \* the rows of the stream
  MaxEvents,    \* a bound on the events of one visit
  MaxTimers     \* a bound on the timeouts of the mock

WidgetsAssumption == {Cards, max, MaxEvents, MaxTimers} \subseteq Nat \ {0}

VARIABLES
  page,        \* "landing", "app" or "elsewhere"
  reduce,      \* prefers-reduced-motion
  mock,        \* the state and the timers of TerminalMock
  carousel,    \* of MobileCarousel
  stream       \* of ActivityStream

vars == <<page, reduce, mock, carousel, stream>>

-----------------------------------------------------------------------------
(* TerminalMock: the bar runs to 100, rests there and starts again at 8.   *)

NoMock == [progress |-> 62, settled |-> FALSE, timers |-> 0]

\* What the last row says, and how far its ring is drawn.
SaysSettled == mock.settled
ProofRing == mock.progress

\* The tick of the interval; reduced motion has none.
Tick ==
  /\ page = "landing" /\ ~reduce
  /\ mock.progress = 100 => mock.timers < MaxTimers
  /\ mock' = IF mock.progress >= 100
             THEN [mock EXCEPT !.settled = TRUE, !.timers = @ + 1]
             ELSE [mock EXCEPT !.progress = IF @ + 2 < 100 THEN @ + 2 ELSE 100]
  /\ UNCHANGED <<page, reduce, carousel, stream>>

\* Every tick at 100 has set a timeout, and each of them starts the bar again.
StartAgain ==
  /\ page = "landing" /\ mock.timers > 0
  /\ mock' = [progress |-> 8, settled |-> FALSE, timers |-> mock.timers - 1]
  /\ UNCHANGED <<page, reduce, carousel, stream>>

-----------------------------------------------------------------------------
(* MobileCarousel.                                                         *)
(*                                                                         *)
(* The handlers hear of a pointer only what the browser tells the track.   *)
(* The track is a native scroller: once a finger pans it, pointercancel is *)
(* fired and the finger goes on unheard.  A mouse that is released beside  *)
(* the track is not heard of either.  One pointer is followed at a time.   *)

\* moving is the card a smooth scroll is on its way to, aim the one it was on its
\* way to when the pointer came down.
NoCarousel ==
  [active |-> 0, moving |-> 0, inView |-> FALSE, pointer |-> "none", aim |-> 0,
   paused |-> FALSE, resume |-> FALSE]

\* "finger" and "mouse" press the track, "panning" is a finger after pointercancel,
\* "slipped" a press of which the track never hears the end.
Pointers == {"none", "finger", "mouse", "panning", "slipped"}

Pressed == carousel.pointer \in {"finger", "mouse"}

SetCarousel(new) ==
  /\ page = "landing" /\ carousel' = new
  /\ UNCHANGED <<page, reduce, mock, stream>>

Intersection == SetCarousel([carousel EXCEPT !.inView = ~@])

\* The interval: paused and inView are refs, read when it fires.
Advance ==
  /\ ~reduce /\ ~carousel.paused /\ carousel.inView
  /\ SetCarousel([carousel EXCEPT !.moving = (carousel.active + 1) % Cards])

\* onScroll, as the track passes the cards on its way.
Scrolls ==
  LET step == IF carousel.active < carousel.moving THEN 1 ELSE -1
  IN  /\ carousel.active # carousel.moving
      /\ SetCarousel([carousel EXCEPT !.active = @ + step])

\* onScroll, as the browser moves the track, or stops it where it is: under a
\* finger it pans with, by its momentum, or for a wheel or a key.
Drag(card) == SetCarousel([carousel EXCEPT !.active = card, !.moving = card])

\* Fault: a timeout that will resume is left.
PauseLeavingTimer(kind) ==
  /\ carousel.pointer \in {"none", "slipped"}
  /\ SetCarousel([carousel EXCEPT !.pointer = kind, !.aim = carousel.moving,
                                  !.paused = TRUE])

\* pointerdown: pause.
Pause(kind) ==
  /\ carousel.pointer \in {"none", "slipped"}
  /\ SetCarousel([carousel EXCEPT !.pointer = kind, !.aim = carousel.moving,
                                  !.paused = TRUE, !.resume = FALSE])

\* pointerup on the track, also of a mouse that was pressed beside it: resume.
Release ==
  /\ carousel.pointer # "panning"
  /\ SetCarousel([carousel EXCEPT !.pointer = "none", !.aim = 0, !.resume = TRUE])

\* pointercancel, the browser pans with the finger: resume.
Cancel ==
  /\ carousel.pointer = "finger"
  /\ SetCarousel([carousel EXCEPT !.pointer = "panning", !.aim = 0,
                                  !.resume = TRUE])

\* No event: a finger leaves that was panning, a mouse is released elsewhere.
Lift ==
  /\ carousel.pointer = "panning"
  /\ SetCarousel([carousel EXCEPT !.pointer = "none"])

Slip ==
  /\ carousel.pointer = "mouse"
  /\ SetCarousel([carousel EXCEPT !.pointer = "slipped", !.aim = 0])

\* The timeout of resume.
Resume ==
  /\ carousel.resume
  /\ SetCarousel([carousel EXCEPT !.paused = FALSE, !.resume = FALSE])

-----------------------------------------------------------------------------
(* ActivityStream.                                                         *)

NoStream == [seq |-> 0, events |-> << >>, timer |-> FALSE]

\* The keys of the rows that are shown, from the newest.
RowKeys == stream.events

Min2(a, b) == IF a < b THEN a ELSE b

\* emit: the newest event is put before the others, and the last one goes.
Emit(s) ==
  [s EXCEPT !.seq = @ + 1,
            !.events = SubSeq(<<s.seq>> \o @, 1, Min2(max, Len(s.events) + 1))]

\* The stream of which i events were emitted since the page was opened.
emitted[i \in 0 .. 4] == IF i = 0 THEN NoStream ELSE Emit(emitted[i - 1])

\* The effect emits up to four, and sets a timeout unless motion is reduced.
Seeded == [emitted[Min2(4, max)] EXCEPT !.timer = ~reduce]

\* The timeout emits, and sets the next.
StreamLoop ==
  /\ page = "app" /\ stream.timer /\ stream.seq < MaxEvents
  /\ stream' = Emit(stream)
  /\ UNCHANGED <<page, reduce, mock, carousel>>

-----------------------------------------------------------------------------
(* Pages.                                                                  *)

Init ==
  /\ page = "elsewhere" /\ reduce \in BOOLEAN
  /\ mock = NoMock /\ carousel = NoCarousel /\ stream = NoStream

\* A link, or back and forward: one page is unmounted, the other mounted.
Visit(p) ==
  /\ p # page /\ page' = p
  /\ mock' = IF p = "landing" /\ reduce THEN [NoMock EXCEPT !.progress = 100]
             ELSE NoMock
  /\ carousel' = NoCarousel
  /\ stream' = IF p = "app" THEN Seeded ELSE NoStream
  /\ UNCHANGED reduce

Next ==
  \/ \E p \in {"landing", "app", "elsewhere"} : Visit(p)
  \/ Tick \/ StartAgain
  \/ Intersection \/ Advance \/ Scrolls
  \/ \E card \in 0 .. Cards - 1 : Drag(card)
  \/ \E kind \in {"finger", "mouse"} : Pause(kind)
  \/ Release \/ Cancel \/ Lift \/ Slip \/ Resume
  \/ StreamLoop

Spec == Init /\ [][Next]_vars

-----------------------------------------------------------------------------

\* Every variable has its type.
TypeOK ==
  /\ page \in {"landing", "app", "elsewhere"} /\ reduce \in BOOLEAN
  /\ mock.progress \in 8 .. 100 /\ mock.timers \in 0 .. MaxTimers
  /\ {carousel.active, carousel.moving} \subseteq 0 .. Cards - 1
  /\ carousel.pointer \in Pointers
  /\ Len(stream.events) <= max

(***************************************************************************)
(* What a widget holds it lets go of.  A press has the carousel to itself: *)
(* while the track knows of a finger or a mouse on it, it is paused, not   *)
(* even a timeout of an earlier swipe ends that, and it goes nowhere but   *)
(* where it was going or where the browser moves it.  A pause that no      *)
(* press holds has a timeout waiting that ends it, unless the press        *)
(* slipped off the track.  (A finger that pans is no press any more: the   *)
(* pause may end under it.)  The mock says "settled" only over a full      *)
(* ring, with a timeout waiting to start it again.  The rows of the stream *)
(* are the last events in order, and no number of a row that is gone, by   *)
(* which React knew it, is given to another.                               *)
(***************************************************************************)
WidgetsLetGo ==
  /\ Pressed => carousel.paused /\ carousel.moving \in {carousel.active, carousel.aim}
  /\ carousel.paused => Pressed \/ carousel.resume \/ carousel.pointer = "slipped"
  /\ SaysSettled => ProofRing = 100 /\ mock.timers > 0
  /\ \A i \in DOMAIN RowKeys : RowKeys[i] = stream.seq - i
=============================================================================
