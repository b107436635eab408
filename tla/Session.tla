------------------------------- MODULE Session -------------------------------
(***************************************************************************)
(* What a browser keeps for the terminal between visits, and the copies    *)
(* the open tabs hold of it: the testnet key (web/lib/wallet.ts), held in  *)
(* every tab by WalletProvider (web/components/app/wallet-context.tsx),    *)
(* and the notes (web/lib/notes.ts), listed by the page a tab shows.       *)
(*                                                                         *)
(* A handler runs to its next await without interruption in its own tab.   *)
(* Tabs run side by side, and localStorage has no lock between them, so    *)
(* another tab may write between the getItem and the setItem of one        *)
(* handler.  The submissions themselves are in Terminal; here a call under *)
(* way succeeds or fails at some moment.                                   *)
(***************************************************************************)
EXTENDS FiniteSets

CONSTANTS
  Tabs,       \* the tabs of one browser
  Keys,       \* the keys Keypair.random may draw
  Fresh,      \* the notes generateNote may draw
  Kept,       \* notes of this pool that were stored on earlier visits
  Orphans,    \* notes of an earlier deployment, their poolId is another
  Calls,      \* the handlers' calls, a bound on how many are made
  Pages,      \* the pages visited, of ListingPages
  None        \* no key, no note

ListingPages == {"overview", "terminal", "disclosure", "settings"}

SessionAssumption ==
  /\ None \notin Keys \cup Fresh \cup Kept \cup Orphans
  /\ Fresh \cap (Kept \cup Orphans) = {} /\ Kept \cap Orphans = {}
  /\ Pages \subseteq ListingPages

VARIABLES
  key,      \* localStorage noir.wallet.secret
  vault,    \* localStorage noir.notes
  spent,    \* those of them that are marked spent
  tabs,     \* what each tab holds
  calls,    \* the shield and settle handlers under way
  drawn     \* the keys and notes that were drawn, which do not recur

store == <<key, vault, spent>>
vars == <<store, tabs, calls, drawn>>

Idle == [stage |-> "idle"]

Running(c) == calls[c].stage # "idle"

\* A handler is between its getItem and its setItem.
Writing(c) == calls[c].stage = "writing"

\* The tab is free to run another handler.
Free(t) == \A c \in Calls : Writing(c) => calls[c].tab # t

-----------------------------------------------------------------------------
(* notes.ts and wallet.ts.                                                 *)

\* loadPoolNotes drops the notes of another pool; Settings counts loadNotes.
\* Every page leaves out the ones marked spent.
Listed(page, notes, gone) ==
  IF page = "settings" THEN notes \ gone ELSE notes \ (gone \cup Orphans)

\* Fault: the list of the page is taken for the notes in the store.
AddNoteToList(c) ==
  vault' = tabs[calls[c].tab].list \cup {calls[c].note} /\ UNCHANGED spent

\* addNote and markSpent write back everything they read.
AddNote(c) ==
  /\ vault' = calls[c].read.vault \cup {calls[c].note}
  /\ spent' = calls[c].read.spent

\* Fault: the mark is made though the note is gone.
MarkSpentAnyway(c) ==
  /\ vault' = calls[c].read.vault
  /\ spent' = calls[c].read.spent \cup {calls[c].note}

MarkSpent(c) ==
  /\ vault' = calls[c].read.vault
  /\ spent' = calls[c].read.spent \cup ({calls[c].note} \cap calls[c].read.vault)

-----------------------------------------------------------------------------
(* The tabs.                                                               *)

\* The pages whose list is read again when the wallet changes.
ListensToWallet(page) == page # "disclosure"

\* The tab as it is after the wallet of its provider changed.
WithWallet(tab, wallet) ==
  [tab EXCEPT
     !.wallet = wallet, !.connecting = None,
     !.list = IF ListensToWallet(tab.page) THEN Listed(tab.page, vault, spent)
              ELSE @,
     !.behind = @ /\ ~ListensToWallet(tab.page)]

\* History: another tab wrote the key.
KeyWrittenBy(t, tab, u) == [tab EXCEPT !.overtaken = (u # t)]

\* A page load: loadWallet, and the list of the page.
Loaded(page, k, notes, gone) ==
  [wallet |-> k, connecting |-> None, page |-> page,
   list |-> Listed(page, notes, gone),
   overtaken |-> FALSE, behind |-> FALSE]

Init ==
  /\ key = None
  /\ vault = Kept \cup Orphans
  /\ spent = {}
  /\ \E page \in Pages :
       tabs = [t \in Tabs |-> Loaded(page, None, vault, spent)]
  /\ calls = [c \in Calls |-> Idle]
  /\ drawn = {}

\* The wallet's button in the frame, and the two in the settings.
ConnectOffered(t) == tabs[t].wallet = None /\ tabs[t].connecting = None
DisconnectOffered(t) == tabs[t].wallet # None

\* connect: createWallet writes the key, then waits for friendbot.
Connect(t, k) ==
  /\ Free(t) /\ ConnectOffered(t)
  /\ k \notin drawn
  /\ drawn' = drawn \cup {k}
  /\ key' = k
  /\ tabs' = [u \in Tabs |-> KeyWrittenBy(t,
                IF u = t THEN [tabs[u] EXCEPT !.connecting = k] ELSE tabs[u], u)]
  /\ UNCHANGED <<vault, spent, calls>>

\* fund has answered or failed, which is ignored.
Funded(t) ==
  /\ Free(t) /\ tabs[t].connecting # None
  /\ tabs' = [tabs EXCEPT ![t] = WithWallet(tabs[t], tabs[t].connecting)]
  /\ UNCHANGED <<store, calls, drawn>>

\* Fault: the key is left in localStorage.
DisconnectKeepsKey(t) ==
  /\ Free(t) /\ DisconnectOffered(t)
  /\ tabs' = [tabs EXCEPT ![t] = WithWallet(tabs[t], None)]
  /\ UNCHANGED <<store, calls, drawn>>

\* disconnect removes whatever key is stored, another tab's too.
Disconnect(t) ==
  /\ Free(t) /\ DisconnectOffered(t)
  /\ key' = None
  /\ tabs' = [u \in Tabs |-> KeyWrittenBy(t,
                IF u = t THEN WithWallet(tabs[u], None) ELSE tabs[u], u)]
  /\ UNCHANGED <<vault, spent, calls, drawn>>

\* A link: another page is mounted, calls of the one before find it gone.
Visit(t, page) ==
  /\ Free(t) /\ tabs[t].page # page
  /\ tabs' = [tabs EXCEPT ![t] = [@ EXCEPT
       !.page = page, !.behind = FALSE, !.list = Listed(page, vault, spent)]]
  /\ calls' = [c \in Calls |->
       IF Running(c) /\ calls[c].tab = t THEN [calls[c] EXCEPT !.mounted = FALSE]
       ELSE calls[c]]
  /\ UNCHANGED <<store, drawn>>

\* The calls of a tab that is loaded again do not go on.
CallsWithout(t) ==
  [c \in Calls |-> IF Running(c) /\ calls[c].tab = t THEN Idle ELSE calls[c]]

Reload(t) ==
  /\ Free(t)
  /\ tabs' = [tabs EXCEPT ![t] = Loaded(tabs[t].page, key, vault, spent)]
  /\ calls' = CallsWithout(t)
  /\ UNCHANGED <<store, drawn>>

\* Clear local data, confirmed on the settings page.
ClearLocalData(t) ==
  /\ Free(t) /\ tabs[t].page = "settings"
  /\ key' = None /\ vault' = {} /\ spent' = {}
  /\ tabs' = [u \in Tabs |->
       IF u = t THEN Loaded("settings", None, {}, {})
       ELSE [tabs[u] EXCEPT !.overtaken = TRUE, !.behind = TRUE]]
  /\ calls' = [c \in Calls |->
       IF Writing(c) THEN [CallsWithout(t)[c] EXCEPT !.raced = TRUE]
       ELSE CallsWithout(t)[c]]
  /\ UNCHANGED drawn

-----------------------------------------------------------------------------
(* The handlers of the dialogs, once submitted.                            *)

Submit(c, t, kind, note) ==
  /\ ~Running(c) /\ Free(t)
  /\ tabs[t].page = "terminal" /\ tabs[t].wallet # None
  /\ calls' = [calls EXCEPT ![c] =
       [stage |-> "submitted", kind |-> kind, note |-> note, tab |-> t,
        mounted |-> TRUE, raced |-> FALSE, read |-> [vault |-> {}, spent |-> {}]]]

Shield(c, t, note) ==
  /\ note \notin drawn
  /\ Submit(c, t, "shield", note)
  /\ drawn' = drawn \cup {note}
  /\ UNCHANGED <<store, tabs>>

\* The settle dialog of a position in the list.
Settle(c, t, note) ==
  /\ note \in tabs[t].list
  /\ Submit(c, t, "settle", note)
  /\ UNCHANGED <<store, tabs, drawn>>

\* The transaction has succeeded: addNote and markSpent first load the notes.
ReadVault(c) ==
  /\ calls[c].stage = "submitted" /\ Free(calls[c].tab)
  /\ calls' = [calls EXCEPT ![c] = [@ EXCEPT
       !.stage = "writing", !.read = [vault |-> vault, spent |-> spent]]]
  /\ UNCHANGED <<store, tabs, drawn>>

\* Then they write them, and onDone lists them if its page is still there.
\* History: what the other tabs list or have read is behind.
WriteVault(c) ==
  /\ Writing(c)
  /\ IF calls[c].kind = "shield" THEN AddNote(c) ELSE MarkSpent(c)
  /\ tabs' = [t \in Tabs |->
       IF t = calls[c].tab /\ calls[c].mounted
       THEN [tabs[t] EXCEPT !.list = Listed(tabs[t].page, vault', spent'),
                            !.behind = FALSE]
       ELSE [tabs[t] EXCEPT !.behind = TRUE]]
  /\ calls' = [d \in Calls |->
       IF d = c THEN Idle
       ELSE IF Writing(d) THEN [calls[d] EXCEPT !.raced = TRUE] ELSE calls[d]]
  /\ UNCHANGED <<key, drawn>>

Fails(c) ==
  /\ calls[c].stage = "submitted" /\ Free(calls[c].tab)
  /\ calls' = [calls EXCEPT ![c] = Idle]
  /\ UNCHANGED <<store, tabs, drawn>>

Next ==
  \/ \E t \in Tabs, k \in Keys : Connect(t, k)
  \/ \E t \in Tabs : Funded(t) \/ Disconnect(t) \/ Reload(t) \/ ClearLocalData(t)
  \/ \E t \in Tabs, page \in Pages : Visit(t, page)
  \/ \E c \in Calls, t \in Tabs, note \in Fresh : Shield(c, t, note)
  \/ \E c \in Calls, t \in Tabs, note \in Fresh \cup Kept : Settle(c, t, note)
  \/ \E c \in Calls : ReadVault(c) \/ WriteVault(c) \/ Fails(c)

Spec == Init /\ [][Next]_vars

-----------------------------------------------------------------------------

\* Every variable has its type.
TypeOK ==
  /\ key \in Keys \cup {None}
  /\ vault \subseteq Fresh \cup Kept \cup Orphans
  /\ spent \subseteq vault
  /\ \A t \in Tabs :
       /\ tabs[t].wallet \in Keys \cup {None}
       /\ tabs[t].connecting \in Keys \cup {None}
       /\ tabs[t].page \in Pages
       /\ tabs[t].list \subseteq Fresh \cup Kept \cup Orphans
  /\ \A c \in Calls : calls[c].stage \in {"idle", "submitted", "writing"}
  /\ drawn \subseteq Keys \cup Fresh

Cleared == key' = None /\ vault' = {} /\ spent' = {}

(***************************************************************************)
(* A note that was stored stays stored, with its mark, until local data is *)
(* cleared: no connection, disconnection, visit, reload or later deposit   *)
(* loses it, and a cleared note does not come back with the next deposit.  *)
(* The exception is the race localStorage allows: a handler that read the  *)
(* notes before another tab wrote them.                                    *)
(***************************************************************************)
VaultStays ==
  \/ Cleared
  \/ \E c \in Calls : Writing(c) /\ calls[c].raced
  \/ /\ vault \subseteq vault' /\ spent \subseteq spent'
     /\ \A n \in vault' \ vault :
          \E c \in Calls : Running(c) /\ calls[c].note = n

VaultIsKept == [][VaultStays]_vars

(***************************************************************************)
(* What a tab shows is what a reload of it would find.  Its key is the one *)
(* stored, and a tab that shows none finds none, unless another tab wrote  *)
(* it since: nothing in the tab itself, a reload while friendbot is asked  *)
(* included, lets the two part.  Its positions are the unspent notes of    *)
(* this pool in the store, unless another tab, or a call begun on an       *)
(* earlier page, wrote them since the page was opened.                     *)
(***************************************************************************)
TabsShowTheStore ==
  \A t \in Tabs :
    /\ \/ tabs[t].overtaken
       \/ key = IF tabs[t].connecting # None THEN tabs[t].connecting
                ELSE tabs[t].wallet
    /\ tabs[t].behind \/ tabs[t].list = Listed(tabs[t].page, vault, spent)
=============================================================================
