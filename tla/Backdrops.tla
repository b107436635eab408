------------------------------ MODULE Backdrops ------------------------------
(***************************************************************************)
(* The two animated canvases behind every page: LivingBackground           *)
(* (web/components/landing/LivingBackground.tsx) and ColorBends            *)
(* (web/components/landing/ColorBends.jsx), with the frames they request   *)
(* from the browser.                                                       *)
(*                                                                         *)
(* Each keeps itself running by requesting its next frame from the one     *)
(* that is drawn, and is stopped and started by visibilitychange and by    *)
(* the effects of React.  A frame that was pending when the page was       *)
(* hidden may still be run, a handle may be cancelled after its frame has  *)
(* run, and a page may be opened in a tab that is hidden.                  *)
(*                                                                         *)
(* What a frame paints is left out but for the waves, which last several   *)
(* frames, and whether there is a picture at all.  A wave is known by the  *)
(* life it has left: a frame starts at most one, so no two have the same.  *)
(***************************************************************************)
EXTENDS Integers, FiniteSets

CONSTANTS
  Handles,     \* what requestAnimationFrame returns; one that nothing refers
               \* to any more may return
  Shapes,      \* values of the props that both effects of ColorBends depend on
  Palettes,    \* colors, rotation and autoRotate, only the second depends on
  WaveLife,    \* the frames a wave lasts
  Null         \* no handle, no colours

BackdropsAssumption ==
  /\ WaveLife \in Nat \ {0}
  /\ Null \notin Handles \cup Palettes
  /\ \A h \in Handles \cup {Null} : Handles \ {h} # {}    \* one is always free

VARIABLES
  mounted,     \* the layout that holds the canvases
  hidden,      \* document.hidden
  living,      \* LivingBackground; frames are those the browser has to run
  bends        \* ColorBends

vars == <<mounted, hidden, living, bends>>

MaxWaves == 4

Props == [shape : Shapes, palette : Palettes]

\* requestAnimationFrame: a handle in no use.
Request(canvas) ==
  LET h == CHOOSE h \in Handles : h \notin canvas.frames \cup {canvas.raf}
  IN  [canvas EXCEPT !.raf = h, !.frames = @ \cup {h}]

\* cancelAnimationFrame: nothing happens if the frame has run.
Cancel(canvas) == [canvas EXCEPT !.frames = @ \ {canvas.raf}]

NoCanvas == [raf |-> Null, frames |-> {}]

-----------------------------------------------------------------------------
(* LivingBackground.                                                       *)

\* Under reduced motion frame(0) is drawn at once, and its successor cancelled.
LivingMounted(still) ==
  LET canvas == [raf |-> Null, frames |-> {}, still |-> still,
                 drawn |-> still, waves |-> {}]
  IN  IF still THEN Cancel(Request(canvas)) ELSE Request(canvas)

\* A scroll of more than 6 pixels since the last frame starts a wave.
Started(waves, scrolled) ==
  IF scrolled /\ Cardinality(waves) < MaxWaves THEN waves \cup {WaveLife}
  ELSE waves

\* Every wave loses life, and those that have none left are spliced out.
Aged(waves) == {life - 1 : life \in waves} \ {0}

\* frame(): a picture, and the next frame.
LivingFrame(h, scrolled) ==
  /\ mounted /\ h \in living.frames
  /\ living' = Request(
       [living EXCEPT !.frames = @ \ {h}, !.drawn = TRUE,
                      !.waves = Aged(Started(@, scrolled))])
  /\ UNCHANGED <<mounted, hidden, bends>>

\* Setting the width of a canvas clears it; it is drawn with the next frame.
Resize ==
  /\ mounted
  /\ living' = [living EXCEPT !.drawn = FALSE]
  /\ UNCHANGED <<mounted, hidden, bends>>

\* Fault: the pending frame is not cancelled first.
LivingSeenUncancelled(visible) ==
  IF visible /\ ~living.still THEN Request(living) ELSE living

\* onVisibility.
LivingSeen(visible) ==
  IF visible /\ ~living.still THEN Request(Cancel(living)) ELSE Cancel(living)

-----------------------------------------------------------------------------
(* ColorBends.                                                             *)

\* The first effect: a new material has its shape, but no colours.
Made(props) ==
  Request([raf |-> Null, frames |-> {}, visible |-> TRUE, props |-> props,
           shape |-> props.shape, palette |-> Null])

\* The second effect, of every prop.
Coloured(canvas, props) ==
  [canvas EXCEPT !.props = props, !.shape = props.shape, !.palette = props.palette]

\* loop(): found hidden, it does not request another frame.
BendsFrame(h) ==
  /\ mounted /\ h \in bends.frames
  /\ LET run == [bends EXCEPT !.frames = @ \ {h}]
     IN  bends' = IF bends.visible THEN Request(run) ELSE [run EXCEPT !.raf = Null]
  /\ UNCHANGED <<mounted, hidden, living>>

\* Fault: a frame is requested even if there is one.
BendsSeenUnasked(visible) ==
  LET seen == [bends EXCEPT !.visible = visible]
  IN  IF visible THEN Request(seen) ELSE seen

\* onVisibility.
BendsSeen(visible) ==
  LET seen == [bends EXCEPT !.visible = visible]
  IN  IF visible /\ bends.raf = Null THEN Request(seen) ELSE seen

\* A render with other props.  The cleanup of the first effect, which runs if
\* the shape changed, cancels the frame; its canvas is replaced.
Rendered(props) ==
  Coloured(IF props.shape # bends.props.shape THEN Made(props) ELSE bends, props)

Render(props) ==
  /\ mounted /\ props # bends.props
  /\ bends' = Rendered(props)
  /\ UNCHANGED <<mounted, hidden, living>>

-----------------------------------------------------------------------------
(* Both.                                                                   *)

Init ==
  /\ mounted = FALSE
  /\ hidden \in BOOLEAN
  /\ living = NoCanvas /\ bends = NoCanvas

Mount(still, props) ==
  /\ ~mounted /\ mounted' = TRUE
  /\ living' = LivingMounted(still)
  /\ bends' = Coloured(Made(props), props)
  /\ UNCHANGED hidden

\* The cleanups.
Unmount ==
  /\ mounted /\ mounted' = FALSE
  /\ living' = [NoCanvas EXCEPT !.frames = Cancel(living).frames]
  /\ bends' = [NoCanvas EXCEPT !.frames = Cancel(bends).frames]
  /\ UNCHANGED hidden

\* visibilitychange; a layout that is not mounted does not listen.
HideOrShow ==
  /\ hidden' = ~hidden
  /\ IF mounted THEN living' = LivingSeen(hidden) /\ bends' = BendsSeen(hidden)
     ELSE UNCHANGED <<living, bends>>
  /\ UNCHANGED mounted

Next ==
  \/ \E still \in BOOLEAN, props \in Props : Mount(still, props)
  \/ \E h \in Handles, scrolled \in BOOLEAN : LivingFrame(h, scrolled)
  \/ \E h \in Handles : BendsFrame(h)
  \/ \E props \in Props : Render(props)
  \/ Unmount \/ Resize \/ HideOrShow

Spec == Init /\ [][Next]_vars

-----------------------------------------------------------------------------

\* Every variable has its type.
TypeOK ==
  /\ {mounted, hidden} \subseteq BOOLEAN
  /\ \A canvas \in {living, bends} :
       canvas.frames \subseteq Handles /\ canvas.raf \in Handles \cup {Null}
  /\ mounted =>
       /\ living.waves \subseteq 1 .. WaveLife
       /\ Cardinality(living.waves) <= MaxWaves
       /\ bends.props \in Props

(***************************************************************************)
(* Each canvas has one loop: however the page is hidden, shown, re-rendered*)
(* or left, no second frame is ever pending, which would draw everything   *)
(* twice from then on, and none outlives its page.  A page that is seen    *)
(* has its frames pending, so no animation stands still, but for the one   *)
(* that reduced motion stops for good.  And what ColorBends draws are the  *)
(* shape and the colours it was last given, though a change of the one     *)
(* rebuilds the material without the other.                                *)
(***************************************************************************)
OneLoopEach ==
  /\ \A canvas \in {living, bends} :
       canvas.frames \subseteq {canvas.raf} /\ (~mounted => canvas.frames = {})
  /\ mounted /\ ~hidden =>
       /\ living.frames = {} <=> living.still
       /\ bends.frames # {}
  /\ mounted =>
       bends.shape = bends.props.shape /\ bends.palette = bends.props.palette
=============================================================================
