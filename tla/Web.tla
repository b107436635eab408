--------------------------------- MODULE Web ---------------------------------
(***************************************************************************)
(* The parts of the web client that share no state, side by side: the      *)
(* pages that show the pool, the disclosure page, the frame of the app,    *)
(* the backdrops, the widgets and the landing page.  A behaviour is one of *)
(* one part; the variables of the others have no value in it.              *)
(***************************************************************************)
EXTENDS Integers, Sequences, FiniteSets

CONSTANTS
  Nil,                                  \* no value, and the parts' None and Null
  Notes, MaxVersion, MaxReads,          \* see Pages
  Nullifiers, FieldOrder, RangeBound, I128Max, Accounts, Funds, Capacity,
  RootHistorySize, Amounts, OutputPairs, ApprovalRoots, Mine,   \* Disclosure
  Chapters,                             \* AppShell
  Handles, Shapes, Palettes, WaveLife,  \* Backdrops
  Cards, max, MaxEvents, MaxTimers,     \* Widgets
  Sections, Top, Questions, To          \* Landing

VARIABLE part     \* the part this behaviour is about

VARIABLES version, key, notes, shown, screen, reads, working, floor
VARIABLES leaves, roots, nullifiers, approot, escrow, wallet, view, call
VARIABLES path, collapsed, peek, moreOpen, confirming, sidebar
VARIABLES mounted, hidden, living, bends
VARIABLES page, reduce, mock, carousel, stream
VARIABLES open, place, menu, faq, value, counter

ofPages == <<version, key, notes, shown, screen, reads, working, floor>>
ofDisclosure ==
  <<leaves, roots, nullifiers, approot, escrow, wallet, view, call>>
ofShell == <<path, collapsed, peek, moreOpen, confirming, sidebar>>
ofBackdrops == <<mounted, hidden, living, bends>>
ofWidgets == <<page, reduce, mock, carousel, stream>>
ofLanding == <<open, place, menu, faq, value, counter>>

vars ==
  <<part, ofPages, ofDisclosure, ofShell, ofBackdrops, ofWidgets, ofLanding>>

Pages == INSTANCE Pages WITH wallet <- key, page <- shown, None <- Nil

Disclosure == INSTANCE Disclosure WITH None <- Nil

Shell == INSTANCE AppShell

Backdrops == INSTANCE Backdrops WITH Null <- Nil

Widgets == INSTANCE Widgets

Landing == INSTANCE Landing WITH None <- Nil

ASSUME WebAssumption ==
  /\ Pages!PagesAssumption
  /\ Disclosure!DisclosureAssumption
  /\ Shell!ShellAssumption
  /\ Backdrops!BackdropsAssumption
  /\ Widgets!WidgetsAssumption
  /\ Landing!LandingAssumption

NoPages ==
  /\ version = Nil /\ key = Nil /\ notes = Nil /\ shown = Nil /\ screen = Nil
  /\ reads = Nil /\ working = Nil /\ floor = Nil

NoDisclosure ==
  /\ leaves = Nil /\ roots = Nil /\ nullifiers = Nil /\ approot = Nil
  /\ escrow = Nil /\ wallet = Nil /\ view = Nil /\ call = Nil

NoShell ==
  /\ path = Nil /\ collapsed = Nil /\ peek = Nil /\ moreOpen = Nil
  /\ confirming = Nil /\ sidebar = Nil

NoBackdrops ==
  /\ mounted = Nil /\ hidden = Nil /\ living = Nil /\ bends = Nil

NoWidgets ==
  /\ page = Nil /\ reduce = Nil /\ mock = Nil /\ carousel = Nil /\ stream = Nil

NoLanding ==
  /\ open = Nil /\ place = Nil /\ menu = Nil /\ faq = Nil /\ value = Nil
  /\ counter = Nil

Init ==
  \/ /\ part = "pages" /\ Pages!Init
     /\ NoDisclosure /\ NoShell /\ NoBackdrops /\ NoWidgets /\ NoLanding
  \/ /\ part = "disclosure" /\ Disclosure!Init
     /\ NoPages /\ NoShell /\ NoBackdrops /\ NoWidgets /\ NoLanding
  \/ /\ part = "shell" /\ Shell!Init
     /\ NoPages /\ NoDisclosure /\ NoBackdrops /\ NoWidgets /\ NoLanding
  \/ /\ part = "backdrops" /\ Backdrops!Init
     /\ NoPages /\ NoDisclosure /\ NoShell /\ NoWidgets /\ NoLanding
  \/ /\ part = "widgets" /\ Widgets!Init
     /\ NoPages /\ NoDisclosure /\ NoShell /\ NoBackdrops /\ NoLanding
  \/ /\ part = "landing" /\ Landing!Init
     /\ NoPages /\ NoDisclosure /\ NoShell /\ NoBackdrops /\ NoWidgets

\* The other parts of a behaviour have no state.
OnlyPages ==
  /\ part = "pages"
  /\ UNCHANGED <<part, ofDisclosure, ofShell, ofBackdrops, ofWidgets, ofLanding>>

OnlyDisclosure ==
  /\ part = "disclosure"
  /\ UNCHANGED <<part, ofPages, ofShell, ofBackdrops, ofWidgets, ofLanding>>

OnlyShell ==
  /\ part = "shell"
  /\ UNCHANGED <<part, ofPages, ofDisclosure, ofBackdrops, ofWidgets, ofLanding>>

OnlyBackdrops ==
  /\ part = "backdrops"
  /\ UNCHANGED <<part, ofPages, ofDisclosure, ofShell, ofWidgets, ofLanding>>

OnlyWidgets ==
  /\ part = "widgets"
  /\ UNCHANGED <<part, ofPages, ofDisclosure, ofShell, ofBackdrops, ofLanding>>

OnlyLanding ==
  /\ part = "landing"
  /\ UNCHANGED <<part, ofPages, ofDisclosure, ofShell, ofBackdrops, ofWidgets>>

Next ==
  \/ OnlyPages /\ Pages!Next
  \/ OnlyDisclosure /\ Disclosure!Next
  \/ OnlyShell /\ Shell!Next
  \/ OnlyBackdrops /\ Backdrops!Next
  \/ OnlyWidgets /\ Widgets!Next
  \/ OnlyLanding /\ Landing!Next

Spec == Init /\ [][Next]_vars

\* Requests are answered or fail; nobody is made to click.
FairSpec ==
  /\ Spec
  /\ WF_vars(OnlyPages /\ Pages!ReadEnds)
  /\ WF_vars(OnlyDisclosure /\ Disclosure!Answer)
  /\ WF_vars(OnlyDisclosure /\ Disclosure!Progress)

-----------------------------------------------------------------------------
(* The properties of the parts, in the behaviours that are about them.     *)

\* Every variable of the part has its type.
TypeOK ==
  /\ part = "pages" => Pages!TypeOK
  /\ part = "disclosure" => Disclosure!TypeOK
  /\ part = "shell" => Shell!TypeOK
  /\ part = "backdrops" => Backdrops!TypeOK
  /\ part = "widgets" => Widgets!TypeOK
  /\ part = "landing" => Landing!TypeOK

\* A page whose reads are answered is no older than what it was opened for.
QuietPageIsCurrent == part = "pages" => Pages!QuietPageIsCurrent

\* Amounts are on the screen only after a click that reveals them.
AmountsAreSealed == part = "pages" => Pages!AmountsAreSealed

\* The badge of the disclosure page is the contract's word, and a refusal is
\* always that of a root that is no longer recent.
BadgeIsTheContracts == part = "disclosure" => Disclosure!BadgeIsTheContracts

\* What the disclosure page says the contract verified, it verified.
SaidVerifiedIsVerified == part = "disclosure" => Disclosure!SaidVerifiedIsVerified

\* The frame lights where one is, and its sidebar is as localStorage has it.
FrameIsCurrent == part = "shell" => Shell!FrameIsCurrent

\* Each backdrop has one loop, which runs just while it should.
OneLoopEach == part = "backdrops" => Backdrops!OneLoopEach

\* What a widget or a control holds, a pause, a badge, an amount or the page,
\* it lets go of.
WidgetsLetGo ==
  /\ part = "widgets" => Widgets!WidgetsLetGo
  /\ part = "landing" => Landing!ControlsLetGo

\* A value the terminal shows is not hidden again by later refreshes.
NoFlicker == Pages!NoFlicker

Skeleton == part = "pages" /\ Pages!Skeleton

Busy == part = "disclosure" /\ view.busy # Nil

\* A skeleton gives way to a value, a dash or an error, and a disclosure ends
\* and frees the buttons of its page.
WaitingEnds ==
  /\ Skeleton ~> ~Skeleton
  /\ Busy ~> ~Busy
=============================================================================
