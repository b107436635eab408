------------------------------- MODULE AppShell -------------------------------
(***************************************************************************)
(* The frame around the pages of the app in one tab: the sidebar that can  *)
(* be collapsed and peeked at, the bottom tabs and the "More" sheet of     *)
(* small screens (web/components/app/AppShell.tsx), the pages of the book  *)
(* that link to each other (web/app/app/docs), and the confirmation that   *)
(* clearing local data asks for (ConfirmDialog.tsx).                       *)
(*                                                                         *)
(* A path is the sequence of its segments; << >> is the landing page,      *)
(* which is outside the frame.  For the paths the app serves, startsWith   *)
(* on the text is a prefix of the segments.  An effect that runs after a   *)
(* render is part of the action that caused the render.                    *)
(***************************************************************************)
EXTENDS Integers, Sequences, SequencesExt, FiniteSets

CONSTANT Chapters     \* CHAPTERS, the slugs of the book in order

ShellAssumption == Chapters \in Seq(STRING) /\ Chapters # << >>

VARIABLES
  path,        \* the pathname
  collapsed,   \* the sidebar is collapsed
  peek,        \* it is shown all the same, while it is hovered over
  moreOpen,    \* the "More" sheet is open
  confirming,  \* the settings page asks whether to clear local data
  sidebar      \* localStorage nr.sidebar

vars == <<path, collapsed, peek, moreOpen, confirming, sidebar>>

Home == << >>
Overview == <<"app">>
Docs == <<"app", "docs">>
Settings == <<"app", "settings">>

\* ALL, the items of the sidebar from top to bottom.
ALL ==
  << Overview, <<"app", "terminal">>, <<"app", "activity">>, <<"app", "assets">>,
     <<"app", "disclosure">>, Docs, Settings >>

PRIMARY == {Overview, <<"app", "terminal">>, <<"app", "activity">>, <<"app", "assets">>}

MORE == {Docs, <<"app", "disclosure">>, Settings}

\* The pages the overview links to.
QuickActions == {<<"app", "terminal">>, <<"app", "assets">>, Docs}

Chapter(i) == Append(Docs, Chapters[i])

Routes == {Home} \cup ToSet(ALL) \cup {Chapter(i) : i \in DOMAIN Chapters}

Inside == path # Home

IsActive(href) == IF href = Overview THEN path = href ELSE IsPrefix(href, path)

Active(items) == {href \in items : IsActive(href)}

\* The last item that is active names the section.
Current == SelectLastInSeq(ALL, IsActive)

\* The "More" tab is lit for the pages in its sheet, or while that is open.
MoreLit == Active(MORE) # {} \/ moreOpen

-----------------------------------------------------------------------------

Init ==
  /\ path \in Routes
  /\ collapsed = FALSE /\ peek = FALSE /\ moreOpen = FALSE
  /\ confirming = FALSE
  /\ sidebar = "none"

\* The state of a page ends with it.
Leaving(href) == confirming' = (confirming /\ href = path)

\* The frame is mounted: the sidebar is as it was left.
Mount(stored) ==
  collapsed' = (stored = "collapsed") /\ peek' = FALSE /\ moreOpen' = FALSE

\* A link in the page, the address bar, or back and forward.
Visit(href) ==
  /\ path' = href
  /\ href # path
  /\ moreOpen' = FALSE /\ Leaving(href)
  /\ IF Inside /\ href # Home THEN UNCHANGED <<collapsed, peek>> ELSE Mount(sidebar)
  /\ UNCHANGED sidebar

\* A link of the sidebar ends the peek, even to the page shown.
SidebarLink(href) ==
  /\ Inside /\ href \in ToSet(ALL)
  /\ path' = href /\ peek' = FALSE /\ Leaving(href)
  /\ moreOpen' = (moreOpen /\ href = path)
  /\ UNCHANGED <<collapsed, sidebar>>

SheetLink(href) ==
  /\ Inside /\ moreOpen /\ href \in MORE
  /\ path' = href /\ moreOpen' = FALSE /\ Leaving(href)
  /\ UNCHANGED <<collapsed, peek, sidebar>>

More ==
  /\ Inside /\ moreOpen' = ~moreOpen
  /\ UNCHANGED <<path, collapsed, peek, confirming, sidebar>>

Backdrop ==
  /\ Inside /\ moreOpen /\ moreOpen' = FALSE
  /\ UNCHANGED <<path, collapsed, peek, confirming, sidebar>>

\* Fault: the peek goes on.
TogglePeeking ==
  /\ Inside
  /\ collapsed' = ~collapsed
  /\ sidebar' = IF ~collapsed THEN "collapsed" ELSE "open"
  /\ UNCHANGED <<path, peek, moreOpen, confirming>>

\* Collapse or pin the sidebar, and remember it.
Toggle ==
  /\ Inside
  /\ collapsed' = ~collapsed
  /\ sidebar' = IF ~collapsed THEN "collapsed" ELSE "open"
  /\ peek' = FALSE
  /\ UNCHANGED <<path, moreOpen, confirming>>

EnterEdge ==
  /\ Inside /\ collapsed /\ peek' = TRUE
  /\ UNCHANGED <<path, collapsed, moreOpen, confirming, sidebar>>

LeaveSidebar ==
  /\ Inside /\ collapsed /\ peek' = FALSE
  /\ UNCHANGED <<path, collapsed, moreOpen, confirming, sidebar>>

Reload == Mount(sidebar) /\ confirming' = FALSE /\ UNCHANGED <<path, sidebar>>

\* "Clear local data" asks first.
AskToClear ==
  /\ path = Settings /\ ~confirming /\ confirming' = TRUE
  /\ UNCHANGED <<path, collapsed, peek, moreOpen, sidebar>>

\* "Cancel", or a click beside the dialog.
CancelClear ==
  /\ confirming /\ confirming' = FALSE
  /\ UNCHANGED <<path, collapsed, peek, moreOpen, sidebar>>

\* "Clear everything": localStorage is cleared, and the page loaded again.
Clear ==
  /\ confirming /\ confirming' = FALSE
  /\ sidebar' = "none" /\ Mount("none")
  /\ UNCHANGED path

QuickAction(href) == path = Overview /\ href \in QuickActions /\ Visit(href)

\* The index of the book.
OpenChapter(i) == path = Docs /\ Visit(Chapter(i))

\* "Previous" and "Next" of a chapter; the ends of the book have only one.
TurnPage ==
  \E i, j \in DOMAIN Chapters :
    path = Chapter(i) /\ j \in {i - 1, i + 1} /\ Visit(Chapter(j))

Next ==
  \/ \E href \in Routes :
       Visit(href) \/ SidebarLink(href) \/ SheetLink(href) \/ QuickAction(href)
  \/ More \/ Backdrop \/ Toggle \/ EnterEdge \/ LeaveSidebar \/ Reload
  \/ AskToClear \/ CancelClear \/ Clear
  \/ TurnPage \/ \E i \in DOMAIN Chapters : OpenChapter(i)

Spec == Init /\ [][Next]_vars

-----------------------------------------------------------------------------

\* Every variable has its type.
TypeOK ==
  /\ path \in Routes
  /\ {collapsed, peek, moreOpen, confirming} \subseteq BOOLEAN
  /\ sidebar \in {"none", "collapsed", "open"}

(***************************************************************************)
(* The frame shows where one is and what was remembered.  Exactly one item *)
(* of the sidebar is lit on every page, it is the one whose name is shown, *)
(* and the bottom tabs light the same one: it is in PRIMARY, or "More" is  *)
(* lit for it.  The sidebar is collapsed just when localStorage says so,   *)
(* whatever was clicked, left, reloaded or cleared, and it is peeked at    *)
(* only then: a peek that outlived the collapse would cover the page at    *)
(* the next one.  The question whether to clear local data is put on the   *)
(* settings page only, and not kept there for the next visit.              *)
(***************************************************************************)
FrameIsCurrent ==
  /\ Inside =>
       /\ Active(ToSet(ALL)) = {ALL[Current]}
       /\ ALL[Current] \in PRIMARY \/ (ALL[Current] \in MORE /\ MoreLit)
       /\ Cardinality(Active(PRIMARY \cup MORE)) = 1
       /\ collapsed <=> sidebar = "collapsed"
  /\ peek => collapsed
  /\ confirming => path = Settings
=============================================================================
