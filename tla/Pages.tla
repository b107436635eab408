-------------------------------- MODULE Pages --------------------------------
(***************************************************************************)
(* The pages that show the pool: Overview, Terminal and Assets             *)
(* (web/app/app/page.tsx, terminal/page.tsx, assets/page.tsx) in one tab,  *)
(* with the wallet of WalletProvider and the two dialogs of the terminal.  *)
(*                                                                         *)
(* A page reads the pool when it is mounted and, but for Assets, when the  *)
(* wallet changes; the terminal also after a settlement.  Reads are        *)
(* answered in any order, and each answer that arrives is shown.  The four *)
(* values of fetchPoolState are simulated one by one while the pool goes   *)
(* on, so an answer is as old as its oldest value: a version between the   *)
(* pool's when the read was issued and its own now.                        *)
(*                                                                         *)
(* The state of a page that is left is gone; what arrives for it later has *)
(* no effect.  What the calls of the dialogs do on the chain is in         *)
(* Terminal, and the notes of several tabs are in Session.                 *)
(***************************************************************************)
EXTENDS Integers, Sequences, SequencesExt

CONSTANTS
  Notes,          \* the notes of this pool
  MaxVersion,     \* a bound on the settlements
  MaxReads,       \* a bound on the reads under way
  None            \* no pool shown, no note

PagesAssumption ==
  /\ None \notin Notes /\ None \notin Nat
  /\ MaxVersion \in Nat /\ MaxReads \in Nat \ {0}

VARIABLES
  version,    \* the settlements of the pool so far
  wallet,     \* the key: none, one with an account, one without
  notes,      \* the unspent notes in the store
  page,       \* the page that is mounted
  screen,     \* its state
  reads,      \* its reads under way, in the order they were issued
  working,    \* the notes the dialogs' handlers are at work on
  floor       \* history: the version when the last of its reads was issued

vars == <<version, wallet, notes, page, screen, reads, working, floor>>

Wallets == {"none", "funded", "unfunded"}

\* Their wallet effect reads the pool.
Following == {"overview", "terminal"}

ReadingPages == Following \cup {"assets"}

Blank ==
  [pool |-> None, loading |-> TRUE, error |-> FALSE, list |-> {},
   revealTotal |-> FALSE, revealed |-> {}, shieldOpen |-> FALSE,
   withdrawNote |-> None, busy |-> {},
   overtaken |-> FALSE]    \* history: the last answer was to a read that was
                           \* issued before one already answered

\* A read for a wallet; without one READ_SOURCE is its source.
Read(w) == [since |-> version, source |-> w, behind |-> FALSE]

CanRead == Len(reads) < MaxReads

-----------------------------------------------------------------------------
(* What is on the screen: whether skeletons stand for the figures, the     *)
(* pool the figures are of (none is a dash), "Total value" with a key,     *)
(* "... held" below "Your positions", and the rows that are revealed.      *)

Tiles(skeleton) ==
  [skeleton |-> skeleton,
   pool |-> IF skeleton THEN None ELSE screen.pool,
   totalRevealed |-> wallet # "none" /\ screen.revealTotal,
   totalHeld |-> screen.list # {},
   rows |-> {}, dialogs |-> {}, error |-> FALSE]

OverviewView == Tiles(screen.loading)

\* A dialog is shown only with a key.
Dialogs ==
  IF wallet = "none" THEN {}
  ELSE {d \in {"shield", "settle"} :
          IF d = "shield" THEN screen.shieldOpen ELSE screen.withdrawNote # None}

\* phase "working" of either dialog.
ShieldWorking == screen.busy \ notes # {}
SettleWorking == screen.withdrawNote \in screen.busy

\* The buttons of a dialog are disabled while it works; a click beside the
\* shield dialog closes it all the same.
ShieldDialogView == [enabled |-> ~ShieldWorking, overlayCloses |-> TRUE]

WithdrawDialogView ==
  [enabled |-> ~SettleWorking, overlayCloses |-> ~SettleWorking]

PositionRow(note) == note \in screen.revealed

\* showPoolSk: skeletons only until there is a value.
TerminalView ==
  [Tiles(screen.loading /\ screen.pool = None) EXCEPT
     !.rows = {note \in screen.list : PositionRow(note)},
     !.dialogs = Dialogs, !.error = screen.error]

\* No positions.
AssetsView ==
  [Tiles(screen.loading) EXCEPT !.totalRevealed = FALSE, !.totalHeld = FALSE]

View ==
  CASE page = "overview" -> OverviewView
    [] page = "terminal" -> TerminalView
    [] OTHER -> AssetsView

Skeleton == page \in ReadingPages /\ View.skeleton

PoolShown == IF page \in ReadingPages THEN View.pool ELSE None

-----------------------------------------------------------------------------
(* Mounting, the wallet, and reads.                                        *)

Init ==
  /\ version = 0
  /\ wallet = "none"
  /\ notes \in SUBSET Notes
  /\ page = "elsewhere"
  /\ screen = Blank
  /\ reads = << >>
  /\ working = {}
  /\ floor = 0

Visit(p) ==
  /\ p # page
  /\ page' = p
  /\ screen' = [Blank EXCEPT !.list = IF p \in Following THEN notes ELSE {}]
  /\ reads' = IF p \in ReadingPages THEN <<Read(IF p = "assets" THEN "none" ELSE wallet)>> ELSE << >>
  /\ working' = {}
  /\ floor' = version
  /\ UNCHANGED <<version, wallet, notes>>

\* The key was loaded, funded, or disconnected.  The dialogs are shown only
\* with a key, but stay open in the state of the page.
WalletChanges(w) ==
  /\ CanRead /\ w # wallet /\ "none" \in {w, wallet}
  /\ wallet' = w
  /\ IF page \in Following
     THEN /\ reads' = Append(reads, Read(w))
          /\ screen' = [screen EXCEPT !.list = notes, !.busy = {},
                                      !.loading = @ \/ page = "overview"]
          /\ floor' = version
     ELSE UNCHANGED <<reads, screen, floor>>
  /\ UNCHANGED <<version, notes, page, working>>

\* The reads left when one is answered; those issued earlier are now behind.
Without(i) ==
  RemoveAt([j \in DOMAIN reads |->
              [reads[j] EXCEPT !.behind = @ \/ j < i]], i)

\* getAccount of an account that does not exist throws.
Answered(i) ==
  /\ reads[i].source # "unfunded"
  /\ \E v \in reads[i].since .. version :
       screen' = [screen EXCEPT !.pool = v, !.error = FALSE, !.loading = FALSE,
                                !.overtaken = reads[i].behind]
  /\ reads' = Without(i)
  /\ UNCHANGED <<version, wallet, notes, page, working, floor>>

\* Fault: a failed read goes unsaid.
FailsSilently(i) ==
  /\ screen' = [screen EXCEPT !.loading = FALSE, !.overtaken = reads[i].behind]
  /\ reads' = Without(i)
  /\ UNCHANGED <<version, wallet, notes, page, working, floor>>

\* Fault: the terminal drops the value, as the other pages do.
FailsDroppingPool(i) ==
  /\ screen' = [screen EXCEPT !.pool = None, !.error = (page = "terminal"),
                              !.loading = FALSE, !.overtaken = reads[i].behind]
  /\ reads' = Without(i)
  /\ UNCHANGED <<version, wallet, notes, page, working, floor>>

\* Fault: loading is only reset by an answer.
FailsLoading(i) ==
  /\ screen' = [screen EXCEPT !.pool = IF page = "terminal" THEN @ ELSE None,
                              !.error = (page = "terminal"),
                              !.overtaken = reads[i].behind]
  /\ reads' = Without(i)
  /\ UNCHANGED <<version, wallet, notes, page, working, floor>>

\* The terminal keeps the value and says so; the others show a dash.
Fails(i) ==
  /\ screen' = [screen EXCEPT !.pool = IF page = "terminal" THEN @ ELSE None,
                              !.error = (page = "terminal"), !.loading = FALSE,
                              !.overtaken = reads[i].behind]
  /\ reads' = Without(i)
  /\ UNCHANGED <<version, wallet, notes, page, working, floor>>

\* The answers arrive in any order.
ReadEnds == \E i \in DOMAIN reads : Answered(i) \/ Fails(i)

\* Anybody settles.
PoolMoves ==
  /\ version < MaxVersion
  /\ version' = version + 1
  /\ UNCHANGED <<wallet, notes, page, screen, reads, working, floor>>

-----------------------------------------------------------------------------
(* The terminal.                                                           *)

Set(field, value) ==
  /\ screen' = [screen EXCEPT ![field] = value]
  /\ UNCHANGED <<version, wallet, notes, page, reads, working, floor>>

RevealTotal ==
  page \in Following /\ wallet # "none" /\ Set("revealTotal", ~screen.revealTotal)

\* A row is revealed or hidden.
ToggleRow(note) ==
  /\ page = "terminal" /\ note \in screen.list
  /\ Set("revealed", IF PositionRow(note) THEN screen.revealed \ {note}
                     ELSE screen.revealed \cup {note})

\* A dialog covers the page until it is closed.
Covered == Dialogs # {}

OpenShield ==
  page = "terminal" /\ wallet # "none" /\ ~Covered /\ Set("shieldOpen", TRUE)

\* A click beside the dialog, or "Cancel".
CloseShield ==
  /\ Covered /\ screen.shieldOpen
  /\ ShieldDialogView.overlayCloses \/ ShieldDialogView.enabled
  /\ screen' = [screen EXCEPT !.shieldOpen = FALSE, !.busy = @ \cap notes]
  /\ UNCHANGED <<version, wallet, notes, page, reads, working, floor>>

OpenSettle(note) ==
  /\ page = "terminal" /\ note \in screen.list /\ ~Covered
  /\ Set("withdrawNote", note)

\* This one does not close over its call.
CloseSettle ==
  /\ Covered /\ screen.withdrawNote # None
  /\ WithdrawDialogView.overlayCloses \/ WithdrawDialogView.enabled
  /\ Set("withdrawNote", None)

\* shield() and settle() are called: a new note, or the position chosen.  A
\* dialog that is closed, or goes with the key, leaves its call behind.  (That a
\* note is settled twice at once is in Terminal.)
Submit(note) ==
  /\ Covered /\ note \notin working
  /\ \/ note \notin notes /\ screen.shieldOpen /\ ShieldDialogView.enabled
     \/ note = screen.withdrawNote /\ WithdrawDialogView.enabled
  /\ working' = working \cup {note}
  /\ screen' = [screen EXCEPT !.busy = @ \cup {note}]
  /\ UNCHANGED <<version, wallet, notes, page, reads, floor>>

\* onDone: it closes whatever dialog of its kind is open.
Settled(note) ==
  LET shielded == note \notin notes
  IN  [screen EXCEPT
         !.list = notes',
         !.shieldOpen = @ /\ ~shielded,
         !.withdrawNote = IF shielded THEN @ ELSE None,
         !.busy = IF shielded THEN @ \cap notes ELSE @ \ notes]

\* Fault: the pool is not read again.
DoneUnread(note) ==
  /\ CanRead /\ note \in working
  /\ version < MaxVersion /\ version' = version + 1
  /\ notes' = IF note \in notes THEN notes \ {note} ELSE notes \cup {note}
  /\ screen' = Settled(note)
  /\ floor' = version'
  /\ working' = working \ {note}
  /\ UNCHANGED <<wallet, page, reads>>

\* The call succeeded: the notes are listed and the pool is read again.
Done(note) ==
  /\ CanRead /\ note \in working
  /\ version < MaxVersion /\ version' = version + 1
  /\ notes' = IF note \in notes THEN notes \ {note} ELSE notes \cup {note}
  /\ screen' = Settled(note)
  /\ reads' = Append(reads, [since |-> version', source |-> "funded",
                             behind |-> FALSE])
  /\ floor' = version'
  /\ working' = working \ {note}
  /\ UNCHANGED <<wallet, page>>

\* It failed, which its dialog says if it is still there.
NotDone(note) ==
  /\ note \in working /\ working' = working \ {note}
  /\ screen' = [screen EXCEPT !.busy = @ \ {note}]
  /\ UNCHANGED <<version, wallet, notes, page, reads, floor>>

Next ==
  \/ \E p \in ReadingPages \cup {"elsewhere"} : Visit(p)
  \/ \E w \in Wallets : WalletChanges(w)
  \/ ReadEnds
  \/ PoolMoves
  \/ RevealTotal \/ OpenShield \/ CloseShield \/ CloseSettle
  \/ \E note \in Notes :
       \/ ToggleRow(note) \/ OpenSettle(note) \/ Submit(note)
       \/ Done(note) \/ NotDone(note)

Spec == Init /\ [][Next]_vars

-----------------------------------------------------------------------------

\* Every variable has its type.
TypeOK ==
  /\ version \in 0 .. MaxVersion
  /\ wallet \in Wallets
  /\ notes \subseteq Notes /\ working \subseteq Notes
  /\ page \in ReadingPages \cup {"elsewhere"}
  /\ screen.pool \in {None} \cup 0 .. version
  /\ screen.list \subseteq Notes /\ screen.revealed \subseteq Notes
  /\ screen.withdrawNote \in Notes \cup {None}
  /\ screen.busy \subseteq working
  /\ Len(reads) <= MaxReads
  /\ floor \in 0 .. version

\* The page admits that it could not read the pool.
SaysUnread == screen.error \/ screen.pool = None

(***************************************************************************)
(* A page whose reads have all been answered shows the pool as it was when *)
(* it was opened, or when the wallet last changed, or at its last          *)
(* settlement, or later; or it says that it could not read it.  The one    *)
(* exception is an answer that was overtaken by that to a later read.      *)
(***************************************************************************)
QuietPageIsCurrent ==
  page \in ReadingPages /\ reads = << >> =>
    screen.overtaken \/ SaysUnread \/ screen.pool >= floor

(***************************************************************************)
(* What terminal/page.tsx says of its skeletons: they are for the first    *)
(* load, and later refreshes keep the value visible instead of flickering. *)
(* No answer, failure, settlement or change of wallet hides it again.      *)
(***************************************************************************)
NoFlicker ==
  [][ page = "terminal" /\ page' = "terminal" /\ PoolShown # None
        => (PoolShown # None)' ]_vars

(***************************************************************************)
(* A skeleton gives way to a value, a dash or an error, even if the key    *)
(* that reads has no account.                                              *)
(***************************************************************************)
SkeletonEnds == Skeleton ~> ~Skeleton

(***************************************************************************)
(* What the pages say of amounts: "Amounts are sealed by default", and     *)
(* revealed only by a deliberate act, "visible only with your key".  The   *)
(* total of one's positions is on the screen only after it was revealed.   *)
(***************************************************************************)
AmountsAreSealed ==
  page \in Following => (View.totalHeld => View.totalRevealed)
=============================================================================
