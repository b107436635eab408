---------------------------- MODULE LibraryProofs ----------------------------
(***************************************************************************)
(* The theorems of Session, for any number of tabs and calls, and those of *)
(* Library: a behaviour of it about one part is a behaviour of that part,  *)
(* so that the theorems on the part hold in it; and the conversions of     *)
(* Encodings, for every base, width and field.                             *)
(***************************************************************************)
EXTENDS Library, SequenceTheorems, WellFoundedInduction, TLAPS

-----------------------------------------------------------------------------
(* The browser's store.                                                    *)

AnyNote == Fresh \cup Kept \cup Orphans

TabStates ==
  [wallet : Keys \cup {None}, connecting : Keys \cup {None}, page : Pages,
   list : SUBSET AnyNote, overtaken : BOOLEAN, behind : BOOLEAN]

CallStates ==
  {Idle} \cup
  [stage : {"submitted", "writing"}, kind : {"shield", "settle"},
   note : Fresh \cup Kept, tab : Tabs, mounted : BOOLEAN, raced : BOOLEAN,
   read : [vault : SUBSET AnyNote, spent : SUBSET AnyNote]]

\* The types, and that a mark is one of a stored note, also in what was read.
StoreInv ==
  /\ key \in Keys \cup {None}
  /\ vault \subseteq AnyNote /\ spent \subseteq vault
  /\ tabs \in [Tabs -> TabStates]
  /\ calls \in [Calls -> CallStates]
  /\ \A c \in Calls : Running(c) => calls[c].read.spent \subseteq calls[c].read.vault
  /\ drawn \subseteq Keys \cup Fresh

(***************************************************************************)
(* What a handler read and has not written back yet is what is stored,     *)
(* unless another tab has written in between.                              *)
(***************************************************************************)
ReadIsStored ==
  \A c \in Calls : Writing(c) =>
    calls[c].raced \/ calls[c].read = [vault |-> vault, spent |-> spent]

-----------------------------------------------------------------------------

\* Of the steps, only three kinds write the notes.
LEMMA WhoWritesTheVault ==
  ASSUME [Next]_vars
  PROVE  \/ vault' = vault /\ spent' = spent
         \/ \E t \in Tabs : ClearLocalData(t)
         \/ \E c \in Calls : WriteVault(c)
  BY DEF Next, vars, store, Connect, Funded, Disconnect, Reload, Visit,
         Shield, Settle, ReadVault, Fails

\* The fields of a call that runs.
LEMMA RunningCall ==
  ASSUME StoreInv, NEW c \in Calls, Running(c)
  PROVE  calls[c] \in
           [stage : {"submitted", "writing"}, kind : {"shield", "settle"},
            note : Fresh \cup Kept, tab : Tabs, mounted : BOOLEAN, raced : BOOLEAN,
            read : [vault : SUBSET AnyNote, spent : SUBSET AnyNote]]
  BY DEF StoreInv, CallStates, Running, Idle

\* What a page lists are notes.
LEMMA ListedAreNotes ==
  ASSUME NEW page, NEW held \in SUBSET AnyNote, NEW gone
  PROVE  Listed(page, held, gone) \in SUBSET AnyNote
  BY DEF Listed, AnyNote

\* A tab after its provider's wallet changed.
LEMMA TabWithWallet ==
  ASSUME StoreInv, NEW tab \in TabStates, NEW wallet \in Keys \cup {None}
  PROVE  /\ WithWallet(tab, wallet) \in TabStates
         /\ WithWallet(tab, wallet).wallet = wallet
         /\ WithWallet(tab, wallet).connecting = None
         /\ WithWallet(tab, wallet).page = tab.page
         /\ WithWallet(tab, wallet).overtaken = tab.overtaken
         /\ WithWallet(tab, wallet).list =
              IF ListensToWallet(tab.page) THEN Listed(tab.page, vault, spent)
              ELSE tab.list
         /\ WithWallet(tab, wallet).behind =
              (tab.behind /\ ~ListensToWallet(tab.page))
<1>1. Listed(tab.page, vault, spent) \in SUBSET AnyNote
  BY ListedAreNotes DEF StoreInv
<1> QED
  BY <1>1 DEF WithWallet, TabStates, ListensToWallet

\* A page load.
LEMMA LoadedTab ==
  ASSUME NEW page \in Pages, NEW k \in Keys \cup {None},
         NEW held \in SUBSET AnyNote, NEW gone
  PROVE  Loaded(page, k, held, gone) \in TabStates
  BY ListedAreNotes DEF Loaded, TabStates

\* A browser that was opened has the types.
LEMMA StoreInvInit ==
  ASSUME SessionAssumption
  PROVE  Init => StoreInv
<1> SUFFICES ASSUME Init PROVE StoreInv
  OBVIOUS
<1>1. vault \subseteq AnyNote /\ spent \subseteq vault /\ key \in Keys \cup {None}
  BY DEF Init, AnyNote
<1>2. tabs \in [Tabs -> TabStates]
  <2>1. PICK page \in Pages : tabs = [t \in Tabs |-> Loaded(page, None, vault, spent)]
    BY DEF Init
  <2>2. Loaded(page, None, vault, spent) \in TabStates
    BY <1>1, LoadedTab
  <2> QED
    BY <2>1, <2>2
<1>3. calls \in [Calls -> CallStates] /\ \A c \in Calls : ~Running(c)
  BY DEF Init, CallStates, Running, Idle
<1> QED
  BY <1>1, <1>2, <1>3 DEF Init, StoreInv

\* A call begun on the terminal.
LEMMA SubmittedCalls ==
  ASSUME StoreInv, NEW c \in Calls, NEW t \in Tabs, NEW kind \in {"shield", "settle"},
         NEW note \in Fresh \cup Kept, Submit(c, t, kind, note)
  PROVE  /\ calls' \in [Calls -> CallStates]
         /\ ~Writing(c)'
         /\ \A d \in Calls : Running(d)' =>
              calls'[d].read.spent \subseteq calls'[d].read.vault
         /\ \A d \in Calls \ {c} : calls'[d] = calls[d]
<1> DEFINE new == [stage |-> "submitted", kind |-> kind, note |-> note, tab |-> t,
                   mounted |-> TRUE, raced |-> FALSE,
                   read |-> [vault |-> {}, spent |-> {}]]
<1>1. new \in CallStates /\ new.stage = "submitted"
      /\ new.read.spent \subseteq new.read.vault
  BY DEF CallStates
<1>2. calls' = [calls EXCEPT ![c] = new]
  BY DEF Submit
<1> HIDE DEF new
<1>3. /\ calls' \in [Calls -> CallStates] /\ calls'[c] = new
      /\ \A d \in Calls \ {c} : calls'[d] = calls[d]
  BY <1>1, <1>2 DEF StoreInv
<1> QED
  BY <1>1, <1>3 DEF StoreInv, Running, Writing

\* The calls of other tabs are left alone when a tab is loaded again.
LEMMA CallsOfOtherTabs ==
  ASSUME StoreInv, NEW t
  PROVE  /\ CallsWithout(t) \in [Calls -> CallStates]
         /\ \A c \in Calls : CallsWithout(t)[c] \in {calls[c], Idle}
  BY DEF CallsWithout, StoreInv, CallStates

\* Every step preserves the types.
LEMMA StoreInvStep ==
  ASSUME SessionAssumption, StoreInv, [Next]_vars
  PROVE  StoreInv'
<1>1. CASE UNCHANGED vars
  BY <1>1 DEF StoreInv, vars, store, Running
<1>2. ASSUME NEW t \in Tabs, NEW k \in Keys, Connect(t, k)
      PROVE  StoreInv'
  <2>1. \A u \in Tabs : tabs'[u] \in TabStates
    <3>1. SUFFICES ASSUME NEW u \in Tabs PROVE tabs'[u] \in TabStates
      OBVIOUS
    <3> DEFINE tab == IF u = t THEN [tabs[u] EXCEPT !.connecting = k] ELSE tabs[u]
    <3>2. tab \in TabStates
      BY DEF StoreInv, TabStates
    <3>3. tabs'[u] = [tab EXCEPT !.overtaken = (u # t)]
      BY <1>2 DEF Connect, KeyWrittenBy
    <3> HIDE DEF tab
    <3> QED
      BY <3>2, <3>3 DEF TabStates
  <2>2. tabs' \in [Tabs -> TabStates]
    BY <1>2, <2>1 DEF Connect
  <2> QED
    BY <1>2, <2>2 DEF Connect, StoreInv, Running
<1>3. ASSUME NEW t \in Tabs, Funded(t)
      PROVE  StoreInv'
  <2>1. tabs[t] \in TabStates /\ tabs[t].connecting \in Keys \cup {None}
    BY DEF StoreInv, TabStates
  <2>2. WithWallet(tabs[t], tabs[t].connecting) \in TabStates
    BY <2>1, TabWithWallet
  <2>3. tabs' \in [Tabs -> TabStates]
    BY <1>3, <2>2 DEF Funded, StoreInv
  <2> QED
    BY <1>3, <2>3 DEF Funded, store, StoreInv, Running
<1>4. ASSUME NEW t \in Tabs, Disconnect(t)
      PROVE  StoreInv'
  <2>1. \A u \in Tabs : tabs'[u] \in TabStates
    <3>1. SUFFICES ASSUME NEW u \in Tabs PROVE tabs'[u] \in TabStates
      OBVIOUS
    <3> DEFINE tab == IF u = t THEN WithWallet(tabs[u], None) ELSE tabs[u]
    <3>2. tab \in TabStates
      BY TabWithWallet DEF StoreInv
    <3>3. tabs'[u] = [tab EXCEPT !.overtaken = (u # t)]
      BY <1>4 DEF Disconnect, KeyWrittenBy
    <3> HIDE DEF tab
    <3> QED
      BY <3>2, <3>3 DEF TabStates
  <2>2. tabs' \in [Tabs -> TabStates]
    BY <1>4, <2>1 DEF Disconnect
  <2> QED
    BY <1>4, <2>2 DEF Disconnect, StoreInv, Running
<1>5. ASSUME NEW t \in Tabs, NEW page \in Pages, Visit(t, page)
      PROVE  StoreInv'
  <2>1. Listed(page, vault, spent) \in SUBSET AnyNote
    BY ListedAreNotes DEF StoreInv
  <2>2. tabs' \in [Tabs -> TabStates]
    <3> DEFINE new == [tabs[t] EXCEPT !.page = page, !.behind = FALSE,
                                      !.list = Listed(page, vault, spent)]
    <3>1. tabs[t] \in TabStates
      BY DEF StoreInv
    <3>2. new \in TabStates
      BY <2>1, <3>1 DEF TabStates
    <3>3. tabs' = [tabs EXCEPT ![t] = new]
      BY <1>5 DEF Visit
    <3> HIDE DEF new
    <3> QED
      BY <3>2, <3>3 DEF StoreInv
  <2>3. ASSUME NEW c \in Calls
        PROVE  /\ calls'[c] \in CallStates
               /\ Running(c)' => Running(c) /\ calls'[c].read = calls[c].read
    <3>1. CASE Running(c) /\ calls[c].tab = t
      <4>1. calls'[c] = [calls[c] EXCEPT !.mounted = FALSE]
        BY <1>5, <3>1 DEF Visit
      <4> QED
        BY <3>1, <4>1, RunningCall DEF CallStates
    <3>2. CASE ~(Running(c) /\ calls[c].tab = t)
      <4>1. calls'[c] = calls[c]
        BY <1>5, <3>2 DEF Visit
      <4> QED
        BY <4>1 DEF StoreInv, Running
    <3> QED
      BY <3>1, <3>2
  <2>4. calls' \in [Calls -> CallStates]
    BY <1>5, <2>3 DEF Visit
  <2> QED
    BY <1>5, <2>2, <2>3, <2>4 DEF Visit, store, StoreInv
<1>6. ASSUME NEW t \in Tabs, Reload(t)
      PROVE  StoreInv'
  <2>1. tabs[t].page \in Pages
    BY DEF StoreInv, TabStates
  <2>2. Loaded(tabs[t].page, key, vault, spent) \in TabStates
    BY <2>1, LoadedTab DEF StoreInv
  <2>3. tabs' \in [Tabs -> TabStates]
    BY <1>6, <2>2 DEF Reload, StoreInv
  <2>4. calls' \in [Calls -> CallStates] /\ \A c \in Calls : calls'[c] \in {calls[c], Idle}
    BY <1>6, CallsOfOtherTabs DEF Reload
  <2> QED
    BY <1>6, <2>3, <2>4 DEF Reload, store, StoreInv, Running, Idle
<1>7. ASSUME NEW t \in Tabs, ClearLocalData(t)
      PROVE  StoreInv'
  <2>1. tabs[t].page = "settings" /\ tabs[t].page \in Pages
    BY <1>7 DEF ClearLocalData, StoreInv, TabStates
  <2>2. Loaded("settings", None, {}, {}) \in TabStates
    <3>1. "settings" \in Pages /\ None \in Keys \cup {None} /\ {} \in SUBSET AnyNote
      BY <2>1
    <3> QED
      BY <3>1, LoadedTab
  <2>3. ASSUME NEW u \in Tabs PROVE tabs'[u] \in TabStates
    BY <1>7, <2>2 DEF ClearLocalData, StoreInv, TabStates
  <2>4. tabs' \in [Tabs -> TabStates]
    BY <1>7, <2>3 DEF ClearLocalData
  <2>5. ASSUME NEW c \in Calls
        PROVE  /\ calls'[c] \in CallStates
               /\ Running(c)' => Running(c) /\ calls'[c].read = calls[c].read
    <3>1. CASE Writing(c) /\ CallsWithout(t)[c] = calls[c]
      <4>1. calls'[c] = [calls[c] EXCEPT !.raced = TRUE] /\ Running(c)
        BY <1>7, <3>1 DEF ClearLocalData, Writing, Running
      <4> QED
        BY <4>1, RunningCall DEF CallStates
    <3>2. CASE Writing(c) /\ CallsWithout(t)[c] = Idle
      <4>1. calls'[c] = [Idle EXCEPT !.raced = TRUE]
        BY <1>7, <3>2 DEF ClearLocalData
      <4>2. [Idle EXCEPT !.raced = TRUE] = Idle
        BY DEF Idle
      <4> QED
        BY <4>1, <4>2 DEF CallStates, Running, Idle
    <3>3. CASE ~Writing(c)
      <4>1. calls'[c] \in {calls[c], Idle}
        BY <1>7, <3>3, CallsOfOtherTabs DEF ClearLocalData
      <4> QED
        BY <4>1 DEF StoreInv, CallStates, Running, Idle
    <3> QED
      BY <3>1, <3>2, <3>3, CallsOfOtherTabs
  <2>6. calls' \in [Calls -> CallStates]
    BY <1>7, <2>5 DEF ClearLocalData
  <2> QED
    BY <1>7, <2>4, <2>5, <2>6 DEF ClearLocalData, StoreInv
<1>8. ASSUME NEW c \in Calls, NEW t \in Tabs, NEW note \in Fresh, Shield(c, t, note)
      PROVE  StoreInv'
  <2>1. Submit(c, t, "shield", note) /\ "shield" \in {"shield", "settle"}
    BY <1>8 DEF Shield
  <2>2. /\ calls' \in [Calls -> CallStates]
        /\ \A d \in Calls : Running(d)' =>
             calls'[d].read.spent \subseteq calls'[d].read.vault
    BY <2>1, SubmittedCalls
  <2> QED
    BY <1>8, <2>2 DEF Shield, store, StoreInv
<1>9. ASSUME NEW c \in Calls, NEW t \in Tabs, NEW note \in Fresh \cup Kept,
             Settle(c, t, note)
      PROVE  StoreInv'
  <2>1. Submit(c, t, "settle", note) /\ "settle" \in {"shield", "settle"}
    BY <1>9 DEF Settle
  <2>2. /\ calls' \in [Calls -> CallStates]
        /\ \A d \in Calls : Running(d)' =>
             calls'[d].read.spent \subseteq calls'[d].read.vault
    BY <2>1, SubmittedCalls
  <2> QED
    BY <1>9, <2>2 DEF Settle, store, StoreInv
<1>10. ASSUME NEW c \in Calls, ReadVault(c)
       PROVE  StoreInv'
  <2>1. Running(c)
    BY <1>10 DEF ReadVault, Running
  <2>2. calls'[c] = [calls[c] EXCEPT !.stage = "writing",
                                     !.read = [vault |-> vault, spent |-> spent]]
    BY <1>10 DEF ReadVault, StoreInv
  <2>3. calls'[c] \in CallStates /\ calls'[c].read = [vault |-> vault, spent |-> spent]
    <3> DEFINE read == [vault |-> vault, spent |-> spent]
    <3>1. read \in [vault : SUBSET AnyNote, spent : SUBSET AnyNote]
      BY DEF StoreInv
    <3>2. calls'[c] = [calls[c] EXCEPT !.stage = "writing", !.read = read]
      BY <2>2
    <3> HIDE DEF read
    <3>3. calls'[c] \in CallStates /\ calls'[c].read = read
      BY <2>1, <3>1, <3>2, RunningCall DEF CallStates
    <3> QED
      BY <3>3 DEF read
  <2>4. calls' \in [Calls -> CallStates] /\ \A d \in Calls \ {c} : calls'[d] = calls[d]
    BY <1>10, <2>3 DEF ReadVault, StoreInv
  <2> QED
    BY <1>10, <2>3, <2>4 DEF ReadVault, store, StoreInv, Running
<1>11. ASSUME NEW c \in Calls, Fails(c)
       PROVE  StoreInv'
  <2>1. calls' \in [Calls -> CallStates] /\ \A d \in Calls : calls'[d] \in {calls[d], Idle}
    BY <1>11 DEF Fails, StoreInv, CallStates
  <2> QED
    BY <1>11, <2>1 DEF Fails, store, StoreInv, Running, Idle
<1>12. ASSUME NEW c \in Calls, WriteVault(c)
       PROVE  StoreInv'
  <2>1. Running(c)
    BY <1>12 DEF WriteVault, Writing, Running
  <2>2. /\ calls[c].read.vault \subseteq AnyNote
        /\ calls[c].read.spent \subseteq calls[c].read.vault
        /\ calls[c].note \in AnyNote
    BY <2>1, RunningCall DEF StoreInv, AnyNote
  <2>3. vault' \subseteq AnyNote /\ spent' \subseteq vault'
    BY <1>12, <2>2 DEF WriteVault, AddNote, MarkSpent
  <2>4. ASSUME NEW t \in Tabs PROVE tabs'[t] \in TabStates
    <3>1. Listed(tabs[t].page, vault', spent') \in SUBSET AnyNote
      BY <2>3, ListedAreNotes
    <3> QED
      BY <1>12, <3>1 DEF WriteVault, StoreInv, TabStates
  <2>5. tabs' \in [Tabs -> TabStates]
    BY <1>12, <2>4 DEF WriteVault
  <2>6. ASSUME NEW d \in Calls
        PROVE  /\ calls'[d] \in CallStates
               /\ Running(d)' => Running(d) /\ calls'[d].read = calls[d].read
    <3>1. CASE d = c
      <4>1. calls'[d] = Idle
        BY <1>12, <3>1 DEF WriteVault
      <4> QED
        BY <4>1 DEF CallStates, Running, Idle
    <3>2. CASE d # c /\ Writing(d)
      <4>1. calls'[d] = [calls[d] EXCEPT !.raced = TRUE] /\ Running(d)
        BY <1>12, <3>2 DEF WriteVault, Writing, Running
      <4> QED
        BY <4>1, RunningCall DEF CallStates
    <3>3. CASE d # c /\ ~Writing(d)
      <4>1. calls'[d] = calls[d]
        BY <1>12, <3>3 DEF WriteVault
      <4> QED
        BY <4>1 DEF StoreInv, Running
    <3> QED
      BY <3>1, <3>2, <3>3
  <2>7. calls' \in [Calls -> CallStates]
    BY <1>12, <2>6 DEF WriteVault
  <2> QED
    BY <1>12, <2>3, <2>5, <2>6, <2>7 DEF WriteVault, StoreInv
<1> QED
  BY <1>1, <1>2, <1>3, <1>4, <1>5, <1>6, <1>7, <1>8, <1>9, <1>10, <1>11, <1>12 DEF Next

-----------------------------------------------------------------------------

\* A handler that was not overtaken writes back what is stored, and its note.
LEMMA UnracedWriteKeeps ==
  ASSUME StoreInv, ReadIsStored, NEW c \in Calls, WriteVault(c), ~calls[c].raced
  PROVE  VaultStays
<1>1. Writing(c) /\ Running(c)
  BY DEF WriteVault, Writing, Running
<1>2. calls[c].read.vault = vault /\ calls[c].read.spent = spent
  BY <1>1 DEF ReadIsStored
<1>3. \/ vault' = vault \cup {calls[c].note} /\ spent' = spent
      \/ vault' = vault /\ spent \subseteq spent'
  BY <1>2 DEF WriteVault, AddNote, MarkSpent
<1> QED
  BY <1>1, <1>3 DEF VaultStays

\* Every step keeps the notes, but for clearing and an overtaken handler.
LEMMA VaultStaysStep ==
  ASSUME StoreInv, ReadIsStored, [Next]_vars
  PROVE  [VaultStays]_vars
<1>1. CASE vault' = vault /\ spent' = spent
  BY <1>1 DEF VaultStays
<1>2. ASSUME NEW t \in Tabs, ClearLocalData(t)
      PROVE  VaultStays
  BY <1>2 DEF ClearLocalData, VaultStays, Cleared
<1>3. ASSUME NEW c \in Calls, WriteVault(c)
      PROVE  VaultStays
  <2>1. CASE calls[c].raced
    BY <1>3, <2>1 DEF VaultStays, WriteVault
  <2>2. CASE ~calls[c].raced
    BY <1>3, <2>2, UnracedWriteKeeps
  <2> QED
    BY <2>1, <2>2
<1> QED
  BY <1>1, <1>2, <1>3, WhoWritesTheVault

\* Every step leaves what is read as it is stored, or marks its reader.
LEMMA ReadIsStoredStep ==
  ASSUME StoreInv, ReadIsStored, [Next]_vars
  PROVE  ReadIsStored'
<1> SUFFICES ASSUME NEW d \in Calls, Writing(d)'
             PROVE  calls'[d].raced \/ calls'[d].read = [vault |-> vault', spent |-> spent']
  BY DEF ReadIsStored
<1>1. ASSUME calls'[d] = calls[d], vault' = vault, spent' = spent
      PROVE  calls'[d].raced \/ calls'[d].read = [vault |-> vault', spent |-> spent']
  BY <1>1 DEF ReadIsStored, Writing
<1>2. CASE UNCHANGED vars
  BY <1>1, <1>2 DEF vars, store
<1>3. ASSUME NEW t \in Tabs, (\E k \in Keys : Connect(t, k)) \/ Funded(t) \/ Disconnect(t)
      PROVE  calls'[d] = calls[d] /\ vault' = vault /\ spent' = spent
  BY <1>3 DEF Connect, Funded, Disconnect, store
<1>4. ASSUME NEW t \in Tabs, NEW page \in Pages, Visit(t, page)
      PROVE  calls'[d] = calls[d] /\ vault' = vault /\ spent' = spent
  <2>1. CASE Running(d) /\ calls[d].tab = t
    <3>1. calls'[d] = [calls[d] EXCEPT !.mounted = FALSE]
      BY <1>4, <2>1 DEF Visit
    <3>2. calls'[d].stage = calls[d].stage
      BY <2>1, <3>1, RunningCall
    <3>3. Writing(d)
      BY <3>2 DEF Writing
    <3> QED
      BY <1>4, <2>1, <3>3 DEF Visit, Free
  <2>2. CASE ~(Running(d) /\ calls[d].tab = t)
    BY <1>4, <2>2 DEF Visit, store
  <2> QED
    BY <2>1, <2>2
<1>5. ASSUME NEW t \in Tabs, Reload(t)
      PROVE  calls'[d] = calls[d] /\ vault' = vault /\ spent' = spent
  <2>1. calls'[d] \in {calls[d], Idle}
    BY <1>5, CallsOfOtherTabs DEF Reload
  <2>2. calls'[d] # Idle
    BY DEF Writing, Idle
  <2> QED
    BY <1>5, <2>1, <2>2 DEF Reload, store
<1>6. ASSUME NEW t \in Tabs, ClearLocalData(t)
      PROVE  calls'[d].raced
  <2>1. CASE Writing(d) /\ CallsWithout(t)[d] = calls[d]
    <3>1. calls'[d] = [calls[d] EXCEPT !.raced = TRUE] /\ Running(d)
      BY <1>6, <2>1 DEF ClearLocalData, Writing, Running
    <3> QED
      BY <3>1, RunningCall
  <2>2. CASE Writing(d) /\ CallsWithout(t)[d] = Idle
    <3>1. calls'[d] = [Idle EXCEPT !.raced = TRUE]
      BY <1>6, <2>2 DEF ClearLocalData
    <3>2. calls'[d] = Idle
      BY <3>1 DEF Idle
    <3> QED
      BY <3>2 DEF Writing, Idle
  <2>3. CASE ~Writing(d)
    <3>1. calls'[d] \in {calls[d], Idle}
      BY <1>6, <2>3, CallsOfOtherTabs DEF ClearLocalData
    <3> QED
      BY <2>3, <3>1 DEF Writing, Idle
  <2> QED
    BY <2>1, <2>2, <2>3, CallsOfOtherTabs
<1>7. ASSUME NEW c \in Calls, NEW t \in Tabs, NEW note \in Fresh \cup Kept,
             (note \in Fresh /\ Shield(c, t, note)) \/ Settle(c, t, note)
      PROVE  calls'[d] = calls[d] /\ vault' = vault /\ spent' = spent
  <2>1. PICK kind \in {"shield", "settle"} : Submit(c, t, kind, note)
    BY <1>7 DEF Shield, Settle
  <2>2. ~Writing(c)' /\ \A e \in Calls \ {c} : calls'[e] = calls[e]
    BY <2>1, SubmittedCalls
  <2> QED
    BY <1>7, <2>2 DEF Shield, Settle, store
<1>8. ASSUME NEW c \in Calls, ReadVault(c)
      PROVE  calls'[d].raced \/ calls'[d].read = [vault |-> vault', spent |-> spent']
  <2>1. vault' = vault /\ spent' = spent
    BY <1>8 DEF ReadVault, store
  <2>2. CASE d = c
    <3> DEFINE read == [vault |-> vault, spent |-> spent]
    <3>1. Running(c)
      BY <1>8 DEF ReadVault, Running
    <3>2. calls'[c] = [calls[c] EXCEPT !.stage = "writing", !.read = read]
      BY <1>8 DEF ReadVault, StoreInv
    <3> HIDE DEF read
    <3>3. calls'[c].read = read
      BY <3>1, <3>2, RunningCall
    <3> QED
      BY <2>1, <2>2, <3>3 DEF read
  <2>3. CASE d # c
    <3>1. calls'[d] = calls[d]
      BY <1>8, <2>3 DEF ReadVault, StoreInv
    <3> QED
      BY <1>1, <2>1, <3>1
  <2> QED
    BY <2>2, <2>3
<1>9. ASSUME NEW c \in Calls, Fails(c)
      PROVE  calls'[d] = calls[d] /\ vault' = vault /\ spent' = spent
  <2>1. d # c
    BY <1>9 DEF Fails, StoreInv, Writing, Idle
  <2> QED
    BY <1>9, <2>1 DEF Fails, StoreInv, store
<1>10. ASSUME NEW c \in Calls, WriteVault(c)
       PROVE  calls'[d].raced
  <2>1. d # c
    BY <1>10 DEF WriteVault, Writing, Idle
  <2>2. Writing(d)
    BY <1>10, <2>1 DEF WriteVault, Writing
  <2>3. calls'[d] = [calls[d] EXCEPT !.raced = TRUE] /\ Running(d)
    BY <1>10, <2>1, <2>2 DEF WriteVault, Writing, Running
  <2> QED
    BY <2>3, RunningCall
<1> QED
  BY <1>1, <1>2, <1>3, <1>4, <1>5, <1>6, <1>7, <1>8, <1>9, <1>10 DEF Next

(***************************************************************************)
(* Whatever the tabs do, in any number, and however their handlers         *)
(* interleave, a stored note stays stored until local data is cleared, but *)
(* for the handler that another tab overtook between its read and write.   *)
(***************************************************************************)
THEOREM SessionKeepsVault ==
  ASSUME SessionAssumption
  PROVE  Spec => VaultIsKept
<1>1. StoreInv /\ [Next]_vars => StoreInv'
  BY StoreInvStep
<1>2. StoreInv /\ ReadIsStored /\ [Next]_vars => ReadIsStored'
  BY ReadIsStoredStep
<1>3. Init => ReadIsStored
  BY DEF Init, ReadIsStored, Writing, Idle
<1>4. StoreInv /\ ReadIsStored /\ [Next]_vars => [VaultStays]_vars
  BY VaultStaysStep
<1> QED
  BY <1>1, <1>2, <1>3, <1>4, StoreInvInit, PTL DEF Spec, VaultIsKept

-----------------------------------------------------------------------------

\* The key a tab goes by: the one it is connecting with, or the one it has.
KeyOf(tab) == IF tab.connecting # None THEN tab.connecting ELSE tab.wallet

\* TabsShowTheStore, of one tab and a store.
Shows(tab, k, held, gone) ==
  /\ tab.overtaken \/ k = KeyOf(tab)
  /\ tab.behind \/ tab.list = Listed(tab.page, held, gone)

\* The property, tab by tab.
LEMMA TabsShowTheStoreIs ==
  TabsShowTheStore <=> \A t \in Tabs : Shows(tabs[t], key, vault, spent)
  BY DEF TabsShowTheStore, Shows, KeyOf

\* A page load shows the store.
LEMMA LoadedShows ==
  ASSUME NEW page, NEW k, NEW held, NEW gone
  PROVE  Shows(Loaded(page, k, held, gone), k, held, gone)
  BY DEF Loaded, Shows, KeyOf

\* Every step leaves the tabs showing the store, or marks them.
LEMMA TabsShowTheStoreStep ==
  ASSUME SessionAssumption, StoreInv, TabsShowTheStore, [Next]_vars
  PROVE  TabsShowTheStore'
<1> SUFFICES ASSUME NEW u \in Tabs
             PROVE  Shows(tabs'[u], key', vault', spent')
  BY DEF TabsShowTheStore, Shows, KeyOf
<1>0. Shows(tabs[u], key, vault, spent) /\ tabs[u] \in TabStates
  BY TabsShowTheStoreIs DEF StoreInv
<1>1. ASSUME tabs'[u] = tabs[u], key' = key, vault' = vault, spent' = spent
      PROVE  Shows(tabs'[u], key', vault', spent')
  BY <1>0, <1>1
<1>2. CASE UNCHANGED vars
  BY <1>1, <1>2 DEF vars, store
<1>3. ASSUME NEW t \in Tabs, NEW k \in Keys, Connect(t, k)
      PROVE  Shows(tabs'[u], key', vault', spent')
  <2>1. key' = k /\ vault' = vault /\ spent' = spent /\ k # None
    BY <1>3 DEF Connect, SessionAssumption
  <2> DEFINE tab == IF u = t THEN [tabs[u] EXCEPT !.connecting = k] ELSE tabs[u]
  <2>2. /\ tab \in TabStates /\ tab.behind = tabs[u].behind
        /\ tab.list = tabs[u].list /\ tab.page = tabs[u].page
        /\ u = t => tab.connecting = k
    BY <1>0 DEF TabStates
  <2>3. tabs'[u] = [tab EXCEPT !.overtaken = (u # t)]
    BY <1>3 DEF Connect, KeyWrittenBy
  <2> HIDE DEF tab
  <2>4. /\ tabs'[u].overtaken = (u # t) /\ tabs'[u].behind = tab.behind
        /\ tabs'[u].list = tab.list /\ tabs'[u].page = tab.page
        /\ tabs'[u].connecting = tab.connecting
    BY <2>2, <2>3 DEF TabStates
  <2> QED
    BY <1>0, <2>1, <2>2, <2>4 DEF Shows, KeyOf
<1>4. ASSUME NEW t \in Tabs, Funded(t)
      PROVE  Shows(tabs'[u], key', vault', spent')
  <2>1. key' = key /\ vault' = vault /\ spent' = spent /\ tabs[t].connecting # None
    BY <1>4 DEF Funded, store
  <2>2. CASE u = t
    <3> DEFINE wallet == tabs[u].connecting
    <3>1. wallet \in Keys \cup {None}
      BY <1>0 DEF TabStates
    <3>2. tabs'[u] = WithWallet(tabs[u], wallet)
      BY <1>4, <2>2 DEF Funded, StoreInv
    <3>3. /\ tabs'[u].wallet = wallet /\ tabs'[u].connecting = None
          /\ tabs'[u].page = tabs[u].page /\ tabs'[u].overtaken = tabs[u].overtaken
          /\ tabs'[u].list = IF ListensToWallet(tabs[u].page)
                             THEN Listed(tabs[u].page, vault, spent) ELSE tabs[u].list
          /\ tabs'[u].behind = (tabs[u].behind /\ ~ListensToWallet(tabs[u].page))
      BY <1>0, <3>1, <3>2, TabWithWallet
    <3> QED
      BY <1>0, <2>1, <2>2, <3>3 DEF Shows, KeyOf
  <2>3. CASE u # t
    BY <1>1, <1>4, <2>1, <2>3 DEF Funded, StoreInv
  <2> QED
    BY <2>2, <2>3
<1>5. ASSUME NEW t \in Tabs, Disconnect(t)
      PROVE  Shows(tabs'[u], key', vault', spent')
  <2>1. key' = None /\ vault' = vault /\ spent' = spent
    BY <1>5 DEF Disconnect
  <2> DEFINE tab == IF u = t THEN WithWallet(tabs[u], None) ELSE tabs[u]
  <2>2. /\ tab \in TabStates
        /\ u = t => tab.connecting = None /\ tab.wallet = None
        /\ tab.behind \/ tab.list = Listed(tab.page, vault, spent)
    <3>1. CASE u = t
      <4> DEFINE w == WithWallet(tabs[u], None)
      <4>1. /\ w \in TabStates /\ w.connecting = None /\ w.wallet = None
            /\ w.page = tabs[u].page
            /\ w.list = IF ListensToWallet(tabs[u].page)
                        THEN Listed(tabs[u].page, vault, spent) ELSE tabs[u].list
            /\ w.behind = (tabs[u].behind /\ ~ListensToWallet(tabs[u].page))
        BY <1>0, TabWithWallet
      <4>2. tab = w
        BY <3>1
      <4> HIDE DEF w, tab
      <4> QED
        BY <1>0, <4>1, <4>2 DEF Shows
    <3>2. CASE u # t
      BY <1>0, <3>2 DEF Shows
    <3> QED
      BY <3>1, <3>2
  <2>3. tabs'[u] = [tab EXCEPT !.overtaken = (u # t)]
    BY <1>5 DEF Disconnect, KeyWrittenBy
  <2> HIDE DEF tab
  <2>4. /\ tabs'[u].overtaken = (u # t) /\ tabs'[u].behind = tab.behind
        /\ tabs'[u].list = tab.list /\ tabs'[u].page = tab.page
        /\ tabs'[u].connecting = tab.connecting /\ tabs'[u].wallet = tab.wallet
    BY <2>2, <2>3 DEF TabStates
  <2> QED
    BY <2>1, <2>2, <2>4 DEF Shows, KeyOf
<1>6. ASSUME NEW t \in Tabs, NEW page \in Pages, Visit(t, page)
      PROVE  Shows(tabs'[u], key', vault', spent')
  <2>1. key' = key /\ vault' = vault /\ spent' = spent
    BY <1>6 DEF Visit, store
  <2>2. CASE u = t
    <3>1. tabs'[u] = [tabs[u] EXCEPT !.page = page, !.behind = FALSE,
                                    !.list = Listed(page, vault, spent)]
      BY <1>6, <2>2 DEF Visit, StoreInv
    <3>2. /\ tabs'[u].page = page /\ tabs'[u].list = Listed(page, vault, spent)
          /\ tabs'[u].overtaken = tabs[u].overtaken
          /\ tabs'[u].connecting = tabs[u].connecting
          /\ tabs'[u].wallet = tabs[u].wallet
      BY <1>0, <3>1 DEF TabStates
    <3> QED
      BY <1>0, <2>1, <3>2 DEF Shows, KeyOf
  <2>3. CASE u # t
    BY <1>1, <1>6, <2>1, <2>3 DEF Visit, StoreInv
  <2> QED
    BY <2>2, <2>3
<1>7. ASSUME NEW t \in Tabs, Reload(t)
      PROVE  Shows(tabs'[u], key', vault', spent')
  <2>1. key' = key /\ vault' = vault /\ spent' = spent
    BY <1>7 DEF Reload, store
  <2>2. CASE u = t
    <3>1. tabs'[u] = Loaded(tabs[u].page, key, vault, spent)
      BY <1>7, <2>2 DEF Reload, StoreInv
    <3> QED
      BY <2>1, <3>1, LoadedShows
  <2>3. CASE u # t
    BY <1>1, <1>7, <2>1, <2>3 DEF Reload, StoreInv
  <2> QED
    BY <2>2, <2>3
<1>8. ASSUME NEW t \in Tabs, ClearLocalData(t)
      PROVE  Shows(tabs'[u], key', vault', spent')
  <2>1. key' = None /\ vault' = {} /\ spent' = {}
    BY <1>8 DEF ClearLocalData
  <2>2. CASE u = t
    <3>1. tabs'[u] = Loaded("settings", None, {}, {})
      BY <1>8, <2>2 DEF ClearLocalData
    <3> QED
      BY <2>1, <3>1, LoadedShows
  <2>3. CASE u # t
    <3>1. tabs'[u] = [tabs[u] EXCEPT !.overtaken = TRUE, !.behind = TRUE]
      BY <1>8, <2>3 DEF ClearLocalData
    <3> QED
      BY <1>0, <3>1 DEF TabStates, Shows
  <2> QED
    BY <2>2, <2>3
<1>9. ASSUME NEW c \in Calls, WriteVault(c)
      PROVE  Shows(tabs'[u], key', vault', spent')
  <2>1. key' = key
    BY <1>9 DEF WriteVault
  <2>2. CASE u = calls[c].tab /\ calls[c].mounted
    <3> DEFINE list == Listed(tabs[u].page, vault', spent')
    <3>1. tabs'[u] = [tabs[u] EXCEPT !.list = list, !.behind = FALSE]
      BY <1>9, <2>2 DEF WriteVault
    <3> HIDE DEF list
    <3>2. /\ tabs'[u].list = list /\ tabs'[u].page = tabs[u].page
          /\ tabs'[u].overtaken = tabs[u].overtaken
          /\ tabs'[u].connecting = tabs[u].connecting
          /\ tabs'[u].wallet = tabs[u].wallet
      BY <1>0, <3>1 DEF TabStates
    <3> QED
      BY <1>0, <2>1, <3>2 DEF Shows, KeyOf, list
  <2>3. CASE ~(u = calls[c].tab /\ calls[c].mounted)
    <3>1. tabs'[u] = [tabs[u] EXCEPT !.behind = TRUE]
      BY <1>9, <2>3 DEF WriteVault
    <3>2. /\ tabs'[u].behind /\ tabs'[u].overtaken = tabs[u].overtaken
          /\ tabs'[u].connecting = tabs[u].connecting
          /\ tabs'[u].wallet = tabs[u].wallet
      BY <1>0, <3>1 DEF TabStates
    <3> QED
      BY <1>0, <2>1, <3>2 DEF Shows, KeyOf
  <2> QED
    BY <2>2, <2>3
<1>10. ASSUME NEW c \in Calls,
              \/ \E t \in Tabs, note \in Fresh : Shield(c, t, note)
              \/ \E t \in Tabs, note \in Fresh \cup Kept : Settle(c, t, note)
              \/ ReadVault(c) \/ Fails(c)
       PROVE  tabs'[u] = tabs[u] /\ key' = key /\ vault' = vault /\ spent' = spent
  BY <1>10 DEF Shield, Settle, ReadVault, Fails, store
<1> QED
  BY <1>1, <1>2, <1>3, <1>4, <1>5, <1>6, <1>7, <1>8, <1>9, <1>10 DEF Next

(***************************************************************************)
(* Every tab, of any number of them, shows the key and the positions that  *)
(* are stored, unless another tab, or a call of an earlier page, wrote     *)
(* them since.                                                             *)
(***************************************************************************)
THEOREM SessionTabsShowTheStore ==
  ASSUME SessionAssumption
  PROVE  Spec => []TabsShowTheStore
<1>1. StoreInv /\ [Next]_vars => StoreInv'
  BY StoreInvStep
<1>2. StoreInv /\ TabsShowTheStore /\ [Next]_vars => TabsShowTheStore'
  BY TabsShowTheStoreStep
<1>3. Init => TabsShowTheStore
  <2> SUFFICES ASSUME Init, NEW t \in Tabs
               PROVE  Shows(tabs[t], key, vault, spent)
    BY TabsShowTheStoreIs
  <2>1. \E page \in Pages : tabs[t] = Loaded(page, key, vault, spent)
    BY DEF Init
  <2> QED
    BY <2>1, LoadedShows
<1> QED
  BY <1>1, <1>2, <1>3, StoreInvInit, PTL DEF Spec

(***************************************************************************)
(* Every variable keeps its type, and only stored notes are marked.        *)
(***************************************************************************)
THEOREM SessionTypeCorrect ==
  ASSUME SessionAssumption
  PROVE  Spec => []TypeOK
<1>1. StoreInv /\ [Next]_vars => StoreInv'
  BY StoreInvStep
<1>2. StoreInv => TypeOK
  <2> SUFFICES ASSUME StoreInv PROVE TypeOK
    OBVIOUS
  <2>1. \A c \in Calls : calls[c].stage \in {"idle", "submitted", "writing"}
    BY DEF StoreInv, CallStates, Idle
  <2>2. \A t \in Tabs : tabs[t] \in TabStates
    BY DEF StoreInv
  <2> QED
    BY <2>1, <2>2 DEF StoreInv, TypeOK, TabStates, AnyNote
<1> QED
  BY <1>1, <1>2, StoreInvInit, PTL DEF Spec

-----------------------------------------------------------------------------
(* Numbers and their digits.                                               *)

(***************************************************************************)
(* Induction: a set that has 0, and with a number the next one, has all    *)
(* natural numbers.                                                        *)
(***************************************************************************)
LEMMA Counting ==
  ASSUME NEW S, 0 \in S, \A n \in Nat : n \in S => n + 1 \in S
  PROVE  Nat \subseteq S
<1> DEFINE Smaller == OpToRel(<, Nat)
           Missing == Nat \ S
<1> SUFFICES ASSUME Missing # {} PROVE FALSE
  OBVIOUS
<1> HIDE DEF Smaller
<1>1. PICK n \in Missing : \A m \in Missing : ~(<<m, n>> \in Smaller)
  <2>1. IsWellFoundedOn(Smaller, Nat)
    BY NatLessThanWellFounded DEF Smaller
  <2>2. Missing \subseteq Nat
    OBVIOUS
  <2> HIDE DEF Missing
  <2>3. QED
    BY <2>1, <2>2, WFMin
<1>2. n - 1 \in Nat /\ n - 1 < n
  BY <1>1
<1>3. <<n - 1, n>> \in Smaller
  BY <1>1, <1>2 DEF OpToRel, Smaller
<1>4. QED
  BY <1>1, <1>2, <1>3

\* A first value and how the next one is made, in a set T.
IsRule(T, first, step) == first \in T /\ step \in [Nat -> [T -> T]]

\* The values so made.
Follows(f, T, first, step) ==
  /\ f \in [Nat -> T]
  /\ f[0] = first
  /\ \A k \in Nat : f[k + 1] = step[k + 1][f[k]]

\* There are such values: a recursive function is one.
LEMMA NatRecursion ==
  ASSUME NEW T, NEW first, NEW step, IsRule(T, first, step)
  PROVE  \E f : Follows(f, T, first, step)
<1>0. first \in T /\ step \in [Nat -> [T -> T]]
  BY DEF IsRule
<1> DEFINE Upto(n, f) == /\ f \in [0 .. n -> T]
                         /\ f[0] = first
                         /\ \A k \in 1 .. n : f[k] = step[k][f[k - 1]]
           S == {n \in Nat : \E f : Upto(n, f)}
           G(n) == CHOOSE f : Upto(n, f)
           F == [n \in Nat |-> G(n)[n]]
<1>1. 0 \in S
  <2>1. Upto(0, [k \in 0 .. 0 |-> first])
    BY <1>0
  <2>2. QED
    BY <2>1
<1>2. ASSUME NEW n \in Nat, n \in S PROVE n + 1 \in S
  <2>1. PICK f : Upto(n, f)
    BY <1>2
  <2> DEFINE h == [k \in 0 .. n + 1 |-> IF k = n + 1 THEN step[n + 1][f[n]] ELSE f[k]]
  <2>2. f[n] \in T /\ step[n + 1][f[n]] \in T
    BY <1>0, <2>1
  <2>3. h \in [0 .. n + 1 -> T]
    BY <2>1, <2>2
  <2>4. h[0] = first
    BY <2>1
  <2>5. ASSUME NEW k \in 1 .. n + 1 PROVE h[k] = step[k][h[k - 1]]
    <3>1. h[k - 1] = f[k - 1]
      OBVIOUS
    <3>2. CASE k = n + 1
      BY <3>1, <3>2
    <3>3. CASE k \in 1 .. n
      BY <2>1, <3>1, <3>3
    <3>4. QED
      BY <3>2, <3>3
  <2>6. Upto(n + 1, h)
    BY <2>3, <2>4, <2>5
  <2> HIDE DEF Upto, h
  <2>7. QED
    BY <2>6
<1>3. Nat \subseteq S
  <2> HIDE DEF S
  <2>1. QED
    BY <1>1, <1>2, Counting
<1>4. ASSUME NEW n \in Nat PROVE Upto(n, G(n))
  BY <1>3
<1> HIDE DEF G
<1>5. ASSUME NEW n \in Nat, NEW f, Upto(n + 1, f)
      PROVE  f[n] = G(n)[n]
  <2> DEFINE R == {k \in Nat : k <= n => f[k] = G(n)[k]}
  <2>1. 0 \in R
    BY <1>4, <1>5
  <2>2. ASSUME NEW k \in Nat, k \in R PROVE k + 1 \in R
    <3>1. CASE k + 1 <= n
      <4>1. f[k + 1] = step[k + 1][f[k]] /\ G(n)[k + 1] = step[k + 1][G(n)[k]]
        BY <1>4, <1>5, <3>1
      <4>2. QED
        BY <2>2, <3>1, <4>1
    <3>2. CASE ~(k + 1 <= n)
      BY <3>2
    <3>3. QED
      BY <3>1, <3>2
  <2>3. n \in R
    <3> HIDE DEF R
    <3>1. QED
      BY <2>1, <2>2, Counting
  <2>4. QED
    BY <2>3
<1>6. ASSUME NEW n \in Nat PROVE F[n + 1] = step[n + 1][F[n]]
  <2>1. G(n + 1)[n + 1] = step[n + 1][G(n + 1)[n]]
    BY <1>4
  <2>2. G(n + 1)[n] = G(n)[n]
    <3> HIDE DEF Upto
    <3>1. Upto(n + 1, G(n + 1))
      BY <1>4
    <3>2. QED
      BY <1>5, <3>1
  <2>3. F[n + 1] = G(n + 1)[n + 1] /\ F[n] = G(n)[n]
    <3> HIDE DEF Upto
    <3>1. n + 1 \in Nat
      OBVIOUS
    <3>2. QED
      BY ONLY <3>1, n \in Nat
  <2> HIDE DEF F, Upto
  <2>4. QED
    BY <2>1, <2>2, <2>3
<1>7. F \in [Nat -> T] /\ F[0] = first
  BY <1>4
<1> HIDE DEF F
<1>8. QED
  BY <1>6, <1>7 DEF Follows

-----------------------------------------------------------------------------
(* Powers, quotients and remainders.                                       *)

\* A number below m is its own remainder.
LEMMA SmallRemainder ==
  ASSUME NEW m \in Nat, NEW n \in Nat, n < m
  PROVE  n % m = n
  OBVIOUS

\* Powers, one by one.
LEMMA PowRule ==
  ASSUME NEW b \in Nat \ {0}
  PROVE  /\ Encodings!Pow(b, 0) = 1
         /\ \A n \in Nat : /\ Encodings!Pow(b, n) \in Nat \ {0}
                           /\ Encodings!Pow(b, n + 1) = b * Encodings!Pow(b, n)
<1> DEFINE Body(f) == [k \in Nat |-> IF k = 0 THEN 1 ELSE b * f[k - 1]]
           p == CHOOSE f : f = Body(f)
           T == Nat \ {0}
           step == [k \in Nat |-> [x \in T |-> b * x]]
<1>1. PICK f : Follows(f, T, 1, step)
  <2>1. \A x \in T : b * x \in T
    OBVIOUS
  <2>2. IsRule(T, 1, step)
    BY <2>1 DEF IsRule
  <2>3. QED
    BY <2>2, NatRecursion
<1>2. f = Body(f)
  <2>1. ASSUME NEW k \in Nat, k # 0 PROVE f[k] = b * f[k - 1]
    <3>1. k - 1 \in Nat /\ (k - 1) + 1 = k
      BY <2>1
    <3>2. f[(k - 1) + 1] = step[(k - 1) + 1][f[k - 1]] /\ f[k - 1] \in T
      BY <1>1, <3>1 DEF Follows
    <3>3. QED
      BY <3>1, <3>2
  <2>2. QED
    BY <1>1, <2>1 DEF Follows
<1>3. p = Body(p)
  <2> HIDE DEF Body
  <2>1. QED
    BY <1>2
<1>4. \A n : Encodings!Pow(b, n) = p[n]
  BY DEF Encodings!Pow
<1> HIDE DEF p
<1>5. \A n \in Nat : p[n] = IF n = 0 THEN 1 ELSE b * p[n - 1]
  BY <1>3
<1>6. ASSUME NEW n \in Nat PROVE p[n + 1] = b * p[n]
  BY <1>5, n + 1 \in Nat, (n + 1) - 1 = n
<1> DEFINE S == {n \in Nat : p[n] \in Nat \ {0}}
<1>7. Nat \subseteq S
  <2>1. 0 \in S
    BY <1>5
  <2>2. ASSUME NEW n \in Nat, n \in S PROVE n + 1 \in S
    <3>1. b * p[n] \in Nat \ {0}
      BY <2>2
    <3>2. QED
      BY <1>6, <3>1
  <2> HIDE DEF S
  <2>3. QED
    BY <2>1, <2>2, Counting
<1>8. QED
  BY <1>4, <1>5, <1>6, <1>7

\* The power of a sum.
LEMMA PowSum ==
  ASSUME NEW b \in Nat \ {0}, NEW m \in Nat, NEW n \in Nat
  PROVE  Encodings!Pow(b, m + n) = Encodings!Pow(b, m) * Encodings!Pow(b, n)
<1> DEFINE P(k) == Encodings!Pow(b, k)
           S == {k \in Nat : P(m + k) = P(m) * P(k)}
<1>1. P(0) = 1 /\ \A k \in Nat : P(k) \in Nat \ {0} /\ P(k + 1) = b * P(k)
  BY PowRule
<1> HIDE DEF P
<1>2. 0 \in S
  BY <1>1, m + 0 = m
<1>3. ASSUME NEW k \in Nat, k \in S PROVE k + 1 \in S
  <2>1. m + k \in Nat /\ m + (k + 1) = (m + k) + 1
    OBVIOUS
  <2>2. P(m + (k + 1)) = b * (P(m) * P(k))
    BY <1>1, <1>3, <2>1
  <2>3. P(m) * P(k + 1) = P(m) * (b * P(k))
    BY <1>1
  <2>4. P(m) \in Nat /\ P(k) \in Nat
    BY <1>1
  <2>5. b * (P(m) * P(k)) = P(m) * (b * P(k))
    BY <2>4
  <2>6. QED
    BY <2>2, <2>3, <2>5
<1>4. n \in S
  <2> HIDE DEF S
  <2>1. QED
    BY <1>2, <1>3, Counting
<1>5. QED
  BY <1>4 DEF P

\* Products keep the order.
LEMMA Multiples ==
  ASSUME NEW d \in Nat \ {0}, NEW x \in Int, NEW y \in Int
  PROVE  x <= y <=> d * x <= d * y
  OBVIOUS

\* What a quotient and a remainder are.
LEMMA Divided ==
  ASSUME NEW d \in Nat \ {0}, NEW v \in Int
  PROVE  /\ v \div d \in Int /\ v % d \in 0 .. d - 1
         /\ v = d * (v \div d) + (v % d)
         /\ v \in Nat => v \div d \in Nat
<1>0. v \div d \in Int /\ v % d \in 0 .. d - 1
  OBVIOUS
<1>1. v = d * (v \div d) + (v % d)
  OBVIOUS
<1>2. ASSUME v \in Nat, v \div d < 0 PROVE FALSE
  <2>1. d * (v \div d + 1) <= d * 0
    BY <1>0, <1>2, Multiples
  <2>2. d * (v \div d + 1) = d * (v \div d) + d
    BY <1>0
  <2>3. QED
    BY <1>0, <1>1, <1>2, <2>1, <2>2
<1>3. QED
  BY <1>0, <1>1, <1>2

\* Nothing else is.
LEMMA DividedUniquely ==
  ASSUME NEW d \in Nat \ {0}, NEW q \in Int, NEW r \in 0 .. d - 1
  PROVE  (d * q + r) \div d = q /\ (d * q + r) % d = r
<1> DEFINE v == d * q + r
           k == v \div d
           s == v % d
<1>0. v \in Int
  OBVIOUS
<1> HIDE DEF v
<1>1. k \in Int /\ s \in 0 .. d - 1 /\ v = d * k + s
  BY <1>0, Divided
<1> HIDE DEF k, s
<1> USE DEF v
<1>2. CASE k < q
  <2>1. d * (k + 1) <= d * q
    BY <1>1, <1>2, Multiples
  <2>2. d * (k + 1) = d * k + d
    BY <1>1
  <2>3. QED
    BY <1>1, <2>1, <2>2
<1>3. CASE q < k
  <2>1. d * (q + 1) <= d * k
    BY <1>1, <1>3, Multiples
  <2>2. d * (q + 1) = d * q + d
    BY <1>1
  <2>3. QED
    BY <1>1, <2>1, <2>2
<1>4. CASE k = q
  BY <1>1, <1>4 DEF k, s
<1>5. QED
  BY <1>1, <1>2, <1>3, <1>4

\* Dividing twice is dividing by the product.
LEMMA DividedTwice ==
  ASSUME NEW v \in Nat, NEW a \in Nat \ {0}, NEW b \in Nat \ {0}
  PROVE  /\ v \div (a * b) = (v \div a) \div b
         /\ v \div a = b * (v \div (a * b)) + ((v \div a) % b)
<1> DEFINE q == v \div a
           r == v % a
           p == q \div b
           s == q % b
<1>1. q \in Nat /\ r \in 0 .. a - 1 /\ v = a * q + r
  BY v \in Int, Divided
<1> HIDE DEF q, r
<1>2. p \in Nat /\ s \in 0 .. b - 1 /\ q = b * p + s
  BY <1>1, q \in Int, Divided
<1> HIDE DEF p, s
<1>3. a * b \in Nat \ {0}
  OBVIOUS
<1>4. v = (a * b) * p + (a * s + r)
  <2>1. v = a * (b * p + s) + r
    BY <1>1, <1>2
  <2>2. a * (b * p + s) = (a * b) * p + a * s
    BY <1>2
  <2>3. QED
    BY <1>1, <1>2, <2>1, <2>2
<1>5. a * s + r \in 0 .. a * b - 1
  <2>1. a * s <= a * (b - 1)
    BY <1>2, Multiples
  <2>2. a * (b - 1) = a * b - a
    OBVIOUS
  <2>3. a * s \in Nat
    BY <1>2
  <2>4. QED
    BY <1>1, <1>3, <2>1, <2>2, <2>3
<1>6. v \div (a * b) = p
  BY <1>2, <1>3, <1>4, <1>5, DividedUniquely
<1>7. v \div a = q /\ (v \div a) \div b = p /\ (v \div a) % b = s
  BY Zenon DEF p, q, s
<1>8. q = b * (v \div (a * b)) + ((v \div a) % b)
  BY Zenon, <1>2, <1>6, <1>7
<1>9. QED
  BY Zenon, <1>6, <1>7, <1>8

-----------------------------------------------------------------------------
(* Digits, and the numbers they stand for.                                 *)

\* What is read of d from left to right in base b.
Reads(val, d, b) ==
  /\ val \in [0 .. Len(d) -> Nat]
  /\ val[0] = 0
  /\ \A k \in 1 .. Len(d) : val[k] = val[k - 1] * b + d[k]

\* FromDigits is what is read in the end.
LEMMA ReadAtTheEnd ==
  ASSUME NEW b \in Nat, NEW d \in Seq(Nat), NEW val, Reads(val, d, b)
  PROVE  Encodings!FromDigits(d, b) = val[Len(d)]
<1> DEFINE Body(f) == [k \in 0 .. Len(d) |-> IF k = 0 THEN 0 ELSE f[k - 1] * b + d[k]]
           g == CHOOSE f : f = Body(f)
           n == Len(d)
<1>1. n \in Nat
  OBVIOUS
<1>2. val = Body(val)
  <2>1. ASSUME NEW k \in 0 .. n, k # 0 PROVE val[k] = val[k - 1] * b + d[k]
    <3>1. k \in 1 .. n
      BY <1>1, <2>1
    <3>2. QED
      BY <3>1 DEF Reads
  <2>2. val[0] = 0 /\ val \in [0 .. n -> Nat]
    BY DEF Reads
  <2> HIDE DEF n
  <2>3. \A k \in 0 .. n : val[k] = IF k = 0 THEN 0 ELSE val[k - 1] * b + d[k]
    BY <2>1, <2>2
  <2>4. QED
    BY <2>2, <2>3 DEF n
<1>3. g = Body(g)
  <2> HIDE DEF Body
  <2>1. QED
    BY <1>2
<1>4. Encodings!FromDigits(d, b) = g[n]
  BY Zenon DEF Encodings!FromDigits
<1> HIDE DEF g
<1> DEFINE S == {k \in Nat : k <= n => g[k] = val[k]}
<1>5. 0 \in S
  BY <1>1, <1>2, <1>3
<1>6. ASSUME NEW k \in Nat, k \in S PROVE k + 1 \in S
  <2>1. CASE k + 1 <= n
    <3>1. k + 1 \in 0 .. n /\ k + 1 # 0 /\ (k + 1) - 1 = k
      BY <1>1, <2>1
    <3>2. g[k + 1] = g[k] * b + d[k + 1] /\ val[k + 1] = val[k] * b + d[k + 1]
      BY <1>2, <1>3, <3>1
    <3>3. g[k] = val[k]
      BY <1>1, <1>6, <2>1
    <3>4. QED
      BY <3>2, <3>3
  <2>2. CASE ~(k + 1 <= n)
    BY <2>2
  <2>3. QED
    BY <2>1, <2>2
<1>7. n \in S
  <2> HIDE DEF S
  <2>1. QED
    BY <1>1, <1>5, <1>6, Counting
<1>8. QED
  BY <1>1, <1>4, <1>7

\* Something is read.
LEMMA Readable ==
  ASSUME NEW b \in Nat, NEW d \in Seq(Nat)
  PROVE  \E val : Reads(val, d, b)
<1> DEFINE n == Len(d)
           digit(k) == IF k \in 1 .. n THEN d[k] ELSE 0
           step == [k \in Nat |-> [x \in Nat |-> x * b + digit(k)]]
           val == [k \in 0 .. n |-> (CHOOSE f : Follows(f, Nat, 0, step))[k]]
<1>1. n \in Nat /\ \A k \in Nat : digit(k) \in Nat
  OBVIOUS
<1>2. IsRule(Nat, 0, step)
  <2> HIDE DEF digit, n
  <2>1. ASSUME NEW k \in Nat, NEW x \in Nat PROVE x * b + digit(k) \in Nat
    <3>1. digit(k) \in Nat /\ x * b \in Nat
      BY <1>1
    <3>2. QED
      BY <3>1
  <2>2. QED
    BY <2>1 DEF IsRule
<1>3. PICK f : f = CHOOSE g : Follows(g, Nat, 0, step)
  OBVIOUS
<1>4. Follows(f, Nat, 0, step)
  <2> HIDE DEF step
  <2>1. QED
    BY <1>2, <1>3, NatRecursion
<1>5. val = [k \in 0 .. n |-> f[k]]
  BY <1>3
<1> HIDE DEF val
<1>6. val \in [0 .. n -> Nat] /\ val[0] = 0
  BY <1>1, <1>4, <1>5 DEF Follows
<1>7. ASSUME NEW k \in 1 .. n PROVE val[k] = val[k - 1] * b + d[k]
  <2>1. k - 1 \in Nat /\ (k - 1) + 1 = k /\ k \in Nat
    BY <1>1
  <2>2. f[k - 1] \in Nat /\ f[(k - 1) + 1] = step[(k - 1) + 1][f[k - 1]]
    BY <1>4, <2>1 DEF Follows
  <2>3. f[k] = f[k - 1] * b + digit(k)
    BY <2>1, <2>2
  <2>4. QED
    BY <1>1, <1>5, <2>3
<1>8. Reads(val, d, b)
  BY <1>6, <1>7 DEF Reads
<1>9. QED
  BY <1>8

\* What is read later is at most what was read, followed by the largest digits.
LEMMA ReadBounds ==
  ASSUME NEW b \in Nat \ {0}, NEW d \in Seq(0 .. b - 1), NEW val, Reads(val, d, b),
         NEW m \in 0 .. Len(d), NEW n \in m .. Len(d)
  PROVE  /\ val[m] * Encodings!Pow(b, n - m) <= val[n]
         /\ val[n] < (val[m] + 1) * Encodings!Pow(b, n - m)
<1> DEFINE P(k) == Encodings!Pow(b, k)
           S == {k \in Nat : m + k <= Len(d) =>
                   val[m] * P(k) <= val[m + k] /\ val[m + k] + 1 <= (val[m] + 1) * P(k)}
<1>1. P(0) = 1 /\ \A k \in Nat : P(k) \in Nat \ {0} /\ P(k + 1) = b * P(k)
  BY PowRule
<1> HIDE DEF P
<1>2. Len(d) \in Nat /\ m \in Nat /\ n - m \in Nat /\ m + (n - m) = n
  OBVIOUS
<1>3. \A k \in 0 .. Len(d) : val[k] \in Nat
  BY DEF Reads
<1>4. 0 \in S
  <2>1. m + 0 = m /\ val[m] \in Nat
    BY <1>2, <1>3
  <2>2. val[m] * 1 <= val[m] /\ val[m] + 1 <= (val[m] + 1) * 1
    BY <2>1
  <2>3. val[m] * P(0) <= val[m + 0] /\ val[m + 0] + 1 <= (val[m] + 1) * P(0)
    BY Zenon, <1>1, <2>1, <2>2
  <2>4. QED
    BY Zenon, <2>3, 0 \in Nat
<1>5. ASSUME NEW k \in Nat, k \in S PROVE k + 1 \in S
  <2> SUFFICES ASSUME m + (k + 1) <= Len(d)
               PROVE  /\ val[m] * P(k + 1) <= val[m + (k + 1)]
                      /\ val[m + (k + 1)] + 1 <= (val[m] + 1) * P(k + 1)
    OBVIOUS
  <2> DEFINE x == val[m]
             y == val[m + k]
             z == val[m + (k + 1)]
             c == d[m + (k + 1)]
             p == P(k)
  <2>1. m + (k + 1) \in 1 .. Len(d) /\ (m + (k + 1)) - 1 = m + k /\ m + k \in 0 .. Len(d)
    BY <1>2
  <2>2. z = y * b + c /\ c \in 0 .. b - 1
    BY <2>1 DEF Reads
  <2>3. x \in Nat /\ y \in Nat /\ p \in Nat \ {0} /\ P(k + 1) = b * p
    BY <1>1, <1>2, <1>3, <2>1
  <2>4. x * p <= y /\ y + 1 <= (x + 1) * p
    BY <1>2, <1>5, <2>1
  <2> HIDE DEF x, y, z, c, p
  <2>5. b * (x * p) <= b * y /\ b * (y + 1) <= b * ((x + 1) * p)
    <3>1. x * p \in Int /\ y + 1 \in Int /\ (x + 1) * p \in Int
      BY <2>3
    <3>2. QED
      BY <2>3, <2>4, <3>1, Multiples
  <2>6. /\ b * (x * p) = x * (b * p) /\ b * ((x + 1) * p) = (x + 1) * (b * p)
        /\ b * (y + 1) = y * b + b /\ b * y = y * b
    BY <2>3
  <2>7. x * (b * p) <= z /\ z + 1 <= (x + 1) * (b * p)
    <3>1. y * b \in Int /\ x * (b * p) \in Int /\ (x + 1) * (b * p) \in Int
      BY <2>3
    <3>2. QED
      BY <2>2, <2>5, <2>6, <3>1
  <2>8. QED
    BY <2>3, <2>7 DEF x, z
<1>6. n - m \in S
  <2> HIDE DEF S
  <2>1. QED
    BY <1>2, <1>4, <1>5, Counting
<1>7. val[m] * P(n - m) <= val[n] /\ val[n] + 1 <= (val[m] + 1) * P(n - m)
  <2>1. m + (n - m) <= Len(d)
    BY <1>2
  <2>2. QED
    BY Zenon, <1>2, <1>6, <2>1
<1>8. QED
  <2>0. P(n - m) \in Nat \ {0}
    BY Zenon, <1>1, <1>2
  <2>1. val[n] \in Nat /\ val[m] \in Nat /\ P(n - m) \in Nat
    BY <1>2, <1>3, <2>0
  <2>2. (val[m] + 1) * P(n - m) \in Int
    BY <2>1
  <2>3. val[n] < (val[m] + 1) * P(n - m)
    BY <1>7, <2>1, <2>2
  <2>4. QED
    BY Zenon, <1>7, <2>3 DEF P

\* The w digits of v in base b, as ToBytes and Padded have them.
DigitsOf(v, w, b) == [i \in 1 .. w |-> (v \div Encodings!Pow(b, w - i)) % b]

\* A number that has w digits is read back from them.
LEMMA DigitsReadBack ==
  ASSUME NEW b \in Nat \ {0}, NEW w \in Nat, NEW v \in 0 .. Encodings!Pow(b, w) - 1
  PROVE  /\ DigitsOf(v, w, b) \in Seq(0 .. b - 1)
         /\ Len(DigitsOf(v, w, b)) = w
         /\ Encodings!FromDigits(DigitsOf(v, w, b), b) = v
<1> DEFINE P(k) == Encodings!Pow(b, k)
           d == DigitsOf(v, w, b)
           val == [k \in 0 .. w |-> v \div P(w - k)]
<1>1. P(0) = 1 /\ \A k \in Nat : P(k) \in Nat \ {0} /\ P(k + 1) = b * P(k)
  BY PowRule
<1>2. v \in Nat /\ v < P(w)
  BY <1>1
<1>3. d = [i \in 1 .. w |-> (v \div P(w - i)) % b]
  BY DEF DigitsOf
<1> HIDE DEF P, d
<1>4. ASSUME NEW k \in 0 .. w
      PROVE  w - k \in Nat /\ v \div P(w - k) \in Nat /\ (v \div P(w - k)) % b \in 0 .. b - 1
  <2>1. w - k \in Nat
    OBVIOUS
  <2>2. P(w - k) \in Nat \ {0}
    BY Zenon, <1>1, <2>1
  <2>3. v \div P(w - k) \in Nat
    BY <1>2, <2>2, v \in Int, Divided
  <2>4. QED
    BY <2>1, <2>3, Divided
<1>5. d \in [1 .. w -> 0 .. b - 1]
  <2>1. \A i \in 1 .. w : (v \div P(w - i)) % b \in 0 .. b - 1
    BY <1>4, \A i \in 1 .. w : i \in 0 .. w
  <2>2. QED
    BY <1>3, <2>1
<1>6. d \in Seq(0 .. b - 1) /\ d \in Seq(Nat) /\ Len(d) = w
  <2>1. d \in Seq(0 .. b - 1) /\ Len(d) = w
    BY <1>5
  <2>2. QED
    BY <1>5, <2>1
<1>7. val \in [0 .. w -> Nat]
  BY <1>4
<1>8. val[0] = 0
  <2>1. v \div P(w) = 0
    <3>1. P(w) \in Nat \ {0}
      BY <1>1
    <3>2. P(w) * 0 + v = v /\ v \in 0 .. P(w) - 1
      BY <1>2, <3>1
    <3>3. QED
      BY <3>1, <3>2, DividedUniquely
  <2>2. val[0] = v \div P(w - 0) /\ w - 0 = w
    OBVIOUS
  <2>3. QED
    BY Zenon, <2>1, <2>2
<1>9. ASSUME NEW k \in 1 .. w PROVE val[k] = val[k - 1] * b + d[k]
  <2> DEFINE a == P(w - k)
  <2>1. k \in 0 .. w /\ k - 1 \in 0 .. w /\ w - k \in Nat /\ w - (k - 1) = (w - k) + 1
    OBVIOUS
  <2>2. a \in Nat \ {0} /\ P((w - k) + 1) = b * a
    BY Zenon, <1>1, <2>1
  <2>3. val[k] = v \div a /\ val[k - 1] = v \div (b * a) /\ d[k] = (v \div a) % b
    <3>1. val[k - 1] = v \div P(w - (k - 1)) /\ val[k] = v \div a
      BY <2>1
    <3>2. d[k] = (v \div a) % b
      BY <1>3
    <3>3. QED
      BY Zenon, <2>1, <2>2, <3>1, <3>2
  <2> HIDE DEF a, val
  <2>4. b * a = a * b
    BY <2>2
  <2>5. v \div a = b * (v \div (a * b)) + ((v \div a) % b)
    BY <1>2, <2>2, DividedTwice
  <2>6. val[k] = b * val[k - 1] + d[k]
    BY Zenon, <2>3, <2>4, <2>5
  <2>7. val[k - 1] \in Nat
    BY <1>7, <2>1
  <2>8. b * val[k - 1] = val[k - 1] * b
    BY <2>7
  <2>9. QED
    BY Zenon, <2>6, <2>8
<1>10. Reads(val, d, b)
  BY <1>6, <1>7, <1>8, <1>9 DEF Reads
<1>11. Encodings!FromDigits(d, b) = val[w]
  <2> HIDE DEF val
  <2>1. QED
    BY <1>6, <1>10, ReadAtTheEnd
<1>12. val[w] = v
  <2>1. val[w] = v \div P(w - w) /\ w - w = 0
    OBVIOUS
  <2>2. val[w] = v \div 1
    BY Zenon, <1>1, <2>1
  <2>3. QED
    BY <1>2, <2>2
<1>13. QED
  BY <1>6, <1>11, <1>12 DEF d

\* Zeros behind the digits multiply what is read.
LEMMA ZerosBehind ==
  ASSUME NEW b \in Nat \ {0}, NEW d \in Seq(Nat), NEW val, Reads(val, d, b),
         NEW n \in 0 .. Len(d), \A k \in n + 1 .. Len(d) : d[k] = 0
  PROVE  val[Len(d)] = val[n] * Encodings!Pow(b, Len(d) - n)
<1> DEFINE P(k) == Encodings!Pow(b, k)
           S == {k \in Nat : n + k <= Len(d) => val[n + k] = val[n] * P(k)}
<1>1. P(0) = 1 /\ \A k \in Nat : P(k) \in Nat \ {0} /\ P(k + 1) = b * P(k)
  BY PowRule
<1> HIDE DEF P
<1>2. Len(d) \in Nat /\ n \in Nat /\ Len(d) - n \in Nat /\ n + (Len(d) - n) = Len(d)
  OBVIOUS
<1>3. \A k \in 0 .. Len(d) : val[k] \in Nat
  BY DEF Reads
<1>4. 0 \in S
  <2>1. n + 0 = n /\ val[n] \in Nat
    BY <1>2, <1>3
  <2>2. val[n] = val[n] * 1
    BY <2>1
  <2>3. val[n + 0] = val[n] * P(0)
    BY Zenon, <1>1, <2>1, <2>2
  <2>4. QED
    BY Zenon, <2>3, 0 \in Nat
<1>5. ASSUME NEW k \in Nat, k \in S PROVE k + 1 \in S
  <2> SUFFICES ASSUME n + (k + 1) <= Len(d)
               PROVE  val[n + (k + 1)] = val[n] * P(k + 1)
    OBVIOUS
  <2>1. n + (k + 1) \in n + 1 .. Len(d) /\ (n + (k + 1)) - 1 = n + k
        /\ n + (k + 1) \in 1 .. Len(d) /\ n + k <= Len(d)
    BY <1>2
  <2>2. val[n + (k + 1)] = val[n + k] * b + 0
    BY <2>1 DEF Reads
  <2>3. val[n + k] = val[n] * P(k) /\ P(k) \in Nat /\ val[n] \in Nat
    BY <1>1, <1>2, <1>3, <1>5, <2>1
  <2>4. (val[n] * P(k)) * b + 0 = val[n] * (b * P(k))
    BY <2>3
  <2>5. QED
    BY Zenon, <1>1, <2>2, <2>3, <2>4
<1>6. Len(d) - n \in S
  <2> HIDE DEF S
  <2>1. QED
    BY <1>2, <1>4, <1>5, Counting
<1>7. val[Len(d)] = val[n] * P(Len(d) - n)
  <2>1. n + (Len(d) - n) <= Len(d)
    BY <1>2
  <2>2. QED
    BY Zenon, <1>2, <1>6, <2>1
<1>8. QED
  BY <1>7 DEF P

\* e is the first n of d.
IsStart(e, d, n) ==
  n \in 0 .. Len(d) /\ e \in Seq(Nat) /\ Len(e) = n /\ \A k \in 1 .. n : e[k] = d[k]

\* What is read of the first digits is read of them alone.
LEMMA ReadFromTheLeft ==
  ASSUME NEW b \in Nat, NEW d \in Seq(Nat), NEW val, Reads(val, d, b),
         NEW n, NEW e, IsStart(e, d, n)
  PROVE  Encodings!FromDigits(e, b) = val[n]
<1>0. n \in 0 .. Len(d) /\ e \in Seq(Nat) /\ Len(e) = n /\ \A k \in 1 .. n : e[k] = d[k]
  BY DEF IsStart
<1> DEFINE new == [k \in 0 .. n |-> val[k]]
<1>1. n \in Nat /\ \A k \in 0 .. n : k \in 0 .. Len(d)
  BY <1>0
<1>2. Reads(new, e, b)
  <2>1. new \in [0 .. Len(e) -> Nat] /\ new[0] = 0
    <3>1. val[0] = 0 /\ \A k \in 0 .. Len(d) : val[k] \in Nat
      BY DEF Reads
    <3>2. \A k \in 0 .. n : val[k] \in Nat
      BY <1>1, <3>1
    <3>3. Len(e) = n /\ 0 \in 0 .. n
      BY <1>0, <1>1
    <3>4. QED
      BY <3>1, <3>2, <3>3, Zenon
  <2>2. ASSUME NEW k \in 1 .. Len(e) PROVE new[k] = new[k - 1] * b + e[k]
    <3>1. k \in 1 .. Len(d) /\ k \in 0 .. n /\ k - 1 \in 0 .. n /\ e[k] = d[k]
      BY <1>0, <1>1
    <3>2. QED
      BY <3>1 DEF Reads
  <2>3. QED
    BY <2>1, <2>2 DEF Reads
<1>3. Encodings!FromDigits(e, b) = new[Len(e)]
  <2> HIDE DEF new
  <2>1. QED
    BY <1>0, <1>2, ReadAtTheEnd
<1>4. QED
  BY <1>0, <1>1, <1>3

\* Sequences of one length w, and these one after another.
OfLength(parts, w, T) ==
  parts \in Seq(Seq(T)) /\ \A i \in 1 .. Len(parts) : Len(parts[i]) = w

OneAfterAnother(flat, parts, w, T) ==
  /\ flat \in Seq(T) /\ Len(flat) = Len(parts) * w
  /\ \A i \in 1 .. Len(parts), j \in 1 .. w : flat[(i - 1) * w + j] = parts[i][j]

\* Sequences of one length are put one after another.
LEMMA Flattened ==
  ASSUME NEW T, NEW w \in Nat, NEW parts, OfLength(parts, w, T)
  PROVE  OneAfterAnother(Encodings!FlattenSeq(parts), parts, w, T)
<1>0. parts \in Seq(Seq(T)) /\ \A i \in 1 .. Len(parts) : Len(parts[i]) = w
  BY DEF OfLength
<1> SUFFICES LET flat == Encodings!FlattenSeq(parts)
             IN  /\ flat \in Seq(T) /\ Len(flat) = Len(parts) * w
                 /\ \A i \in 1 .. Len(parts), j \in 1 .. w :
                      flat[(i - 1) * w + j] = parts[i][j]
  BY DEF OneAfterAnother
<1> DEFINE n == Len(parts)
           flat == Encodings!FlattenSeq(parts)
<1>1. n \in Nat /\ \A i \in 1 .. n : parts[i] \in Seq(T)
  BY <1>0
<1>2. CASE n = 0
  <2>1. flat = parts
    BY <1>2 DEF Encodings!FlattenSeq
  <2>2. parts = << >>
    BY <1>2
  <2>3. flat \in Seq(T) /\ Len(flat) = 0 /\ Len(parts) * w = 0
    BY <1>2, <2>1, <2>2
  <2>4. QED
    BY <1>2, <2>3
<1>3. CASE n # 0
  <2> DEFINE Body(f) == [i \in 1 .. n |-> IF i = 1 THEN parts[i] ELSE f[i - 1] \o parts[i]]
             step == [k \in Nat |-> [s \in Seq(T) |->
                       IF k + 1 \in 1 .. n THEN s \o parts[k + 1] ELSE s]]
             joined == CHOOSE f : f = Body(f)
  <2>1. \E f : f = Body(f)
    <3>1. PICK g : Follows(g, Seq(T), parts[1], step)
      <4>1. step \in [Nat -> [Seq(T) -> Seq(T)]]
        <5> HIDE DEF n
        <5>1. ASSUME NEW k \in Nat, NEW s \in Seq(T), k + 1 \in 1 .. n
              PROVE  s \o parts[k + 1] \in Seq(T)
          BY <1>1, <5>1
        <5>2. QED
          BY <5>1
      <4>2. IsRule(Seq(T), parts[1], step)
        BY <1>1, <1>3, <4>1 DEF IsRule
      <4> HIDE DEF step
      <4>3. QED
        BY <4>2, NatRecursion
    <3> DEFINE f == [i \in 1 .. n |-> g[i - 1]]
    <3>2. ASSUME NEW i \in 1 .. n
          PROVE  f[i] = IF i = 1 THEN parts[i] ELSE f[i - 1] \o parts[i]
      <4>1. CASE i = 1
        BY <3>1, <4>1 DEF Follows
      <4>2. CASE i # 1
        <5>1. i - 1 \in Nat /\ i - 2 \in Nat /\ (i - 2) + 1 = i - 1 /\ i - 1 \in 1 .. n
              /\ (i - 1) - 1 = i - 2 /\ (i - 1) + 1 = i
          BY <4>2
        <5>2. g[(i - 2) + 1] = step[(i - 2) + 1][g[i - 2]] /\ g[i - 2] \in Seq(T)
          BY <3>1, <5>1 DEF Follows
        <5>3. f[i] = g[i - 1] /\ f[i - 1] = g[i - 2]
          BY <5>1
        <5>4. \A s \in Seq(T) : step[i - 1][s] = s \o parts[i]
          BY <5>1
        <5> HIDE DEF f, step
        <5>5. QED
          BY <4>2, <5>1, <5>2, <5>3, <5>4
      <4>3. QED
        BY <4>1, <4>2
    <3>3. f = Body(f)
      <4>1. f = [i \in 1 .. n |-> f[i]]
        OBVIOUS
      <4> HIDE DEF f, n
      <4>2. QED
        BY <3>2, <4>1
    <3> HIDE DEF f, Body
    <3>4. QED
      BY <3>3
  <2>2. joined = Body(joined)
    <3> HIDE DEF Body
    <3>1. QED
      BY <2>1
  <2>3. flat = joined[n]
    BY Zenon, <1>3 DEF Encodings!FlattenSeq
  <2> HIDE DEF joined, flat, n
  <2> DEFINE Good(k) ==
        /\ joined[k] \in Seq(T) /\ Len(joined[k]) = k * w
        /\ \A i \in 1 .. k, j \in 1 .. w : joined[k][(i - 1) * w + j] = parts[i][j]
             S == {k \in Nat : k + 1 <= n => Good(k + 1)}
  <2>4. 0 \in S
    <3>1. joined[1] = parts[1] /\ parts[1] \in Seq(T) /\ Len(parts[1]) = w
      BY <1>0, <1>1, <1>3, <2>2 DEF n
    <3>2. 1 * w = w /\ \A j \in 1 .. w : (1 - 1) * w + j = j
      OBVIOUS
    <3>3. \A i \in 1 .. 1, j \in 1 .. w : joined[1][(i - 1) * w + j] = parts[i][j]
      BY <3>1, <3>2
    <3>4. Good(0 + 1)
      BY <3>1, <3>2, <3>3
    <3> HIDE DEF Good
    <3>5. QED
      BY <3>4
  <2>5. ASSUME NEW k \in Nat, k \in S PROVE k + 1 \in S
    <3>0. k + 1 \in Nat
      OBVIOUS
    <3> SUFFICES ASSUME (k + 1) + 1 <= n PROVE Good((k + 1) + 1)
      BY Zenon, <3>0
    <3> DEFINE m == k + 1
               s == joined[m]
               t == parts[m + 1]
    <3>1. m \in Nat /\ m \in 1 .. n /\ m + 1 \in 1 .. n /\ m + 1 # 1 /\ (m + 1) - 1 = m
      BY <1>1
    <3>2. Good(m)
      <4> HIDE DEF Good
      <4>1. QED
        BY <2>5, <3>1
    <3> HIDE DEF m
    <3>3. joined[m + 1] = s \o t
      BY <2>2, <3>1
    <3>4. s \in Seq(T) /\ Len(s) = m * w /\ t \in Seq(T) /\ Len(t) = w
      BY <1>0, <1>1, <3>1, <3>2 DEF n
    <3> HIDE DEF s, t
    <3>5. s \o t \in Seq(T) /\ Len(s \o t) = (m + 1) * w
      <4>1. m * w \in Nat /\ m * w + w = (m + 1) * w
        BY <3>1
      <4>2. s \o t \in Seq(T) /\ Len(s \o t) = Len(s) + Len(t)
        <5>1. s \in Seq(T) /\ t \in Seq(T)
          BY <3>4
        <5>2. QED
          BY <5>1
      <4>3. PICK x \in Nat : x = m * w
        BY <4>1
      <4>4. Len(s) = x
        BY <3>4, <4>3
      <4>5. Len(s \o t) = x + w
        BY <3>4, <4>2, <4>4
      <4>6. x + w = (m + 1) * w
        BY <4>1, <4>3
      <4>7. QED
        BY <4>2, <4>5, <4>6
    <3>6. ASSUME NEW i \in 1 .. m + 1, NEW j \in 1 .. w
          PROVE  (s \o t)[(i - 1) * w + j] = parts[i][j]
      <4>1. CASE i \in 1 .. m
        <5>1. (i - 1) * w + j \in 1 .. m * w
          <6>1. w * 0 <= w * (i - 1) /\ w * i <= w * m
            <7>1. w \in Nat \ {0} /\ 0 <= i - 1 /\ i <= m /\ i - 1 \in Int
              BY <3>1, <4>1
            <7>2. QED
              BY <3>1, <7>1, Multiples
          <6>2. w * i = w * (i - 1) + w /\ w * m = m * w /\ w * (i - 1) = (i - 1) * w
                /\ w * (i - 1) \in Int /\ m * w \in Int
            BY <3>1
          <6>3. QED
            BY <6>1, <6>2
        <5>2. (s \o t)[(i - 1) * w + j] = s[(i - 1) * w + j]
          BY <3>4, <5>1
        <5>3. s[(i - 1) * w + j] = parts[i][j]
          BY <3>2, <4>1 DEF s
        <5>4. QED
          BY <5>2, <5>3
      <4>2. CASE i = m + 1
        <5>1. (i - 1) * w = m * w /\ m * w \in Nat
          BY <3>1, <4>2
        <5>2. PICK x \in Nat : x = m * w
          BY <5>1
        <5>3. (s \o t)[x + j] = t[j]
          <6>1. Len(s) = x /\ Len(t) = w
            BY <3>4, <5>2
          <6>2. QED
            BY <3>4, <6>1
        <5>4. QED
          BY <3>1, <4>2, <5>1, <5>2, <5>3 DEF t
      <4>3. i \in 1 .. m \/ i = m + 1
        BY <3>1
      <4>4. QED
        BY Zenon, <4>1, <4>2, <4>3
    <3>7. Good(m + 1)
      BY <3>3, <3>5, <3>6
    <3>8. QED
      BY <3>7 DEF m
  <2>6. Good(n)
    <3> HIDE DEF S, Good
    <3>1. n - 1 \in Nat /\ (n - 1) + 1 = n
      BY <1>1, <1>3
    <3>2. n - 1 \in S
      BY <2>4, <2>5, <3>1, Counting
    <3>3. QED
      BY <3>1, <3>2 DEF S
  <2>7. QED
    BY <2>3, <2>6 DEF flat, n
<1>4. QED
  BY <1>2, <1>3

-----------------------------------------------------------------------------
(* Scalars.                                                                *)

\* What is assumed of the sizes.
LEMMA EncodingSizes ==
  /\ HexBase \in Nat \ {0} /\ Ten \in Nat \ {0} /\ Width \in Nat \ {0}
  /\ PointWidth \in Nat /\ LenWidth \in Nat /\ Decimals \in Nat
  /\ N_F \in Nat /\ N_P \in Nat /\ N_F % 2 = 0
  /\ Encodings!Base \in Nat \ {0} /\ Encodings!Byte = 0 .. Encodings!Base - 1
  /\ FieldOrder \in Nat \ {0} /\ Encodings!Field = 0 .. FieldOrder - 1
  /\ Encodings!Pow(Encodings!Base, Width - 1) <= FieldOrder
  /\ FieldOrder <= Encodings!Pow(Encodings!Base, Width)
<1>1. Encodings!EncodingsAssumption /\ Encodings!Sizes
  BY LibraryAssumption
<1>2. HexBase \in Nat \ {0} => HexBase * HexBase \in Nat \ {0}
  OBVIOUS
<1>3. FieldOrder \in Nat \ {0}
  <2>1. Width - 1 \in Nat /\ Encodings!Base \in Nat \ {0}
    BY <1>1, <1>2 DEF Encodings!EncodingsAssumption, Encodings!Base
  <2>2. Encodings!Pow(Encodings!Base, Width - 1) \in Nat \ {0}
    BY <2>1, PowRule
  <2>3. FieldOrder \in Nat /\ Encodings!Pow(Encodings!Base, Width - 1) <= FieldOrder
    BY <1>1 DEF Encodings!EncodingsAssumption, Encodings!Sizes
  <2>4. QED
    BY <2>2, <2>3
<1>4. QED
  BY <1>1, <1>2, <1>3 DEF Encodings!EncodingsAssumption, Encodings!Base, Encodings!Byte,
    Encodings!Field

\* The residue JavaScript computes is the mathematical one.
LEMMA FieldModIs ==
  ASSUME NEW x \in Int
  PROVE  Encodings!fieldMod(x) = x % FieldOrder /\ x % FieldOrder \in Encodings!Field
<1>1. FieldOrder \in Nat \ {0} /\ Encodings!Field = 0 .. FieldOrder - 1
  BY EncodingSizes
<1>2. x % FieldOrder \in Encodings!Field
  BY <1>1, Divided
<1>3. CASE x >= 0
  BY <1>1, <1>2, <1>3 DEF Encodings!fieldMod, Encodings!JsRem
<1>4. CASE x < 0
  <2> DEFINE F == FieldOrder
             k == (-x) \div F
             s == (-x) % F
  <2>1. k \in Int /\ s \in 0 .. F - 1 /\ -x = F * k + s
    BY <1>1, -x \in Int, Divided
  <2>2. Encodings!fieldMod(x) = IF -s < 0 THEN -s + F ELSE -s
    BY <1>4 DEF Encodings!fieldMod, Encodings!JsRem
  <2> HIDE DEF k, s
  <2>3. CASE s = 0
    <3>1. x = F * (-k) + 0 /\ -k \in Int /\ 0 \in 0 .. F - 1
      BY <1>1, <2>1, <2>3
    <3>2. x % F = 0
      BY <1>1, <3>1, DividedUniquely
    <3>3. QED
      BY <1>2, <2>2, <2>3, <3>2
  <2>4. CASE s # 0
    <3>1. x = F * (-k - 1) + (F - s) /\ -k - 1 \in Int /\ F - s \in 0 .. F - 1
      <4>1. F * (-k - 1) = -(F * k) - F /\ F * k \in Int
        BY <1>1, <2>1
      <4>2. QED
        BY <1>1, <2>1, <2>4, <4>1
    <3>2. x % F = F - s
      BY <1>1, <3>1, DividedUniquely
    <3>3. Encodings!fieldMod(x) = F - s
      BY <1>1, <2>1, <2>2, <2>4
    <3>4. QED
      BY <1>2, <3>2, <3>3
  <2>5. QED
    BY <2>3, <2>4
<1>5. QED
  BY <1>3, <1>4

\* Hex digits give the bytes back, and the number.
LEMMA HexReadBack ==
  ASSUME NEW bytes \in Seq(Encodings!Byte)
  PROVE  LET hex == Encodings!ToHex(bytes)
         IN  /\ Len(hex) = 2 * Len(bytes)
             /\ Encodings!HexToBytes(hex) = bytes
             /\ Encodings!fromHex(hex) = Encodings!FromBytes(bytes)
<1> DEFINE n == Len(bytes)
           H == HexBase
           B == Encodings!Base
           pairs == [i \in DOMAIN bytes |-> Encodings!HexByte(bytes[i])]
           hex == Encodings!ToHex(bytes)
<1>1. H \in Nat \ {0} /\ B = H * H /\ B \in Nat \ {0} /\ Encodings!Byte = 0 .. B - 1
  BY EncodingSizes DEF Encodings!Base
<1>2. n \in Nat /\ DOMAIN bytes = 1 .. n /\ \A i \in 1 .. n : bytes[i] \in 0 .. B - 1
  BY <1>1
<1> HIDE DEF B, H
<1>3. ASSUME NEW i \in 1 .. n
      PROVE  /\ pairs[i] \in Seq(0 .. H - 1) /\ Len(pairs[i]) = 2
             /\ pairs[i][1] = bytes[i] \div H /\ pairs[i][2] = bytes[i] % H
             /\ bytes[i] = (pairs[i][1] * H) + pairs[i][2]
             /\ pairs[i][1] \in Nat /\ pairs[i][2] \in Nat
  <2>1. bytes[i] \in Nat /\ bytes[i] \in Int /\ bytes[i] < H * H
    BY <1>1, <1>2
  <2> DEFINE q == bytes[i] \div H
             r == bytes[i] % H
  <2>2. q \in Nat /\ r \in 0 .. H - 1 /\ bytes[i] = H * q + r
    BY <1>1, <2>1, Divided
  <2>3. pairs[i] = <<q, r>>
    BY <1>2 DEF Encodings!HexByte, H
  <2> HIDE DEF q, r, pairs
  <2>4. q < H
    <3>1. H * q < H * H
      BY <1>1, <2>1, <2>2
    <3>2. H <= q => H * H <= H * q
      BY <1>1, <2>2, Multiples
    <3>3. H * q \in Int /\ H * H \in Int
      BY <1>1, <2>2
    <3>4. QED
      BY <1>1, <2>2, <3>1, <3>2, <3>3
  <2>5. H * q = q * H
    BY <1>1, <2>2
  <2>6. q \in 0 .. H - 1
    BY <1>1, <2>2, <2>4
  <2>7. pairs[i] \in Seq(0 .. H - 1) /\ Len(pairs[i]) = 2 /\ pairs[i][1] = q /\ pairs[i][2] = r
    BY <2>2, <2>3, <2>6
  <2>8. QED
    BY <1>1, <2>2, <2>5, <2>6, <2>7 DEF q, r
<1>4. /\ hex \in Seq(0 .. H - 1) /\ Len(hex) = n * 2
      /\ \A i \in 1 .. n, j \in 1 .. 2 : hex[(i - 1) * 2 + j] = pairs[i][j]
  <2>1. hex = Encodings!FlattenSeq(pairs)
    BY DEF Encodings!ToHex
  <2>2. DOMAIN pairs = 1 .. n /\ pairs \in Seq(Seq(0 .. H - 1)) /\ Len(pairs) = n
    <3>1. pairs = [i \in 1 .. n |-> pairs[i]]
      BY <1>2
    <3>2. \A i \in 1 .. n : pairs[i] \in Seq(0 .. H - 1)
      BY <1>3
    <3> HIDE DEF pairs
    <3>3. pairs \in [1 .. n -> Seq(0 .. H - 1)]
      BY <3>1, <3>2
    <3>4. QED
      BY <1>2, <3>3
  <2>3. \A i \in 1 .. Len(pairs) : Len(pairs[i]) = 2
    BY <1>3, <2>2
  <2> DEFINE D == 0 .. H - 1
             w == 2
  <2>4. w \in Nat /\ \A i \in 1 .. Len(pairs) : Len(pairs[i]) = w
    BY <2>3
  <2> HIDE DEF pairs, hex, n, D, w
  <2>5. OfLength(pairs, w, D)
    BY <2>2, <2>4, Zenon DEF D, OfLength
  <2>6. OneAfterAnother(Encodings!FlattenSeq(pairs), pairs, w, D)
    BY <2>4, <2>5, Flattened, Zenon
  <2>7. Len(pairs) = n
    BY <2>2
  <2>8. QED
    BY <2>1, <2>6, <2>7, Zenon DEF D, w, OneAfterAnother
<1>5. ASSUME NEW i \in 1 .. n
      PROVE  hex[2 * i - 1] = pairs[i][1] /\ hex[2 * i] = pairs[i][2]
  <2>1. (i - 1) * 2 + 1 = 2 * i - 1 /\ (i - 1) * 2 + 2 = 2 * i /\ 1 \in 1 .. 2 /\ 2 \in 1 .. 2
    BY <1>2
  <2> HIDE DEF hex, pairs
  <2>2. hex[(i - 1) * 2 + 1] = pairs[i][1] /\ hex[(i - 1) * 2 + 2] = pairs[i][2]
    BY <1>4, <2>1, Zenon
  <2>3. QED
    BY <2>1, <2>2
<1> HIDE DEF hex, pairs
<1>6. Len(hex) = 2 * n
  <2> HIDE DEF n
  <2>1. n \in Nat => n * 2 = 2 * n
    OBVIOUS
  <2>2. QED
    BY <1>2, <1>4, <2>1, Zenon
<1>7. Encodings!HexToBytes(hex) = bytes
  <2>1. Len(hex) \div 2 = n
    <3>1. \A m \in Nat : (2 * m) \div 2 = m
      OBVIOUS
    <3> HIDE DEF n
    <3>2. QED
      BY <1>2, <1>6, <3>1, Zenon
  <2>2. \A i \in 1 .. n : hex[2 * i - 1] * H + hex[2 * i] = bytes[i]
    BY <1>3, <1>5
  <2>3. Encodings!HexToBytes(hex) = [i \in 1 .. n |-> hex[2 * i - 1] * H + hex[2 * i]]
    BY <2>1 DEF Encodings!HexToBytes, H
  <2>4. bytes = [i \in 1 .. n |-> bytes[i]]
    BY <1>2
  <2>5. QED
    BY <2>2, <2>3, <2>4
<1>8. Encodings!fromHex(hex) = Encodings!FromBytes(bytes)
  <2>1. hex \in Seq(Nat) /\ bytes \in Seq(Nat)
    BY <1>1, <1>4
  <2>2. PICK byHex : Reads(byHex, hex, H)
    BY <1>1, <2>1, Readable
  <2> DEFINE val == [k \in 0 .. n |-> byHex[2 * k]]
  <2>3. val \in [0 .. n -> Nat] /\ val[0] = 0
    BY <1>2, <1>6, <2>2 DEF Reads
  <2>4. ASSUME NEW k \in 1 .. n PROVE val[k] = val[k - 1] * B + bytes[k]
    <3>1. /\ 2 * k \in 1 .. Len(hex) /\ 2 * k - 1 \in 1 .. Len(hex)
          /\ (2 * k - 1) - 1 = 2 * (k - 1) /\ k - 1 \in 0 .. n /\ k \in 0 .. n
      BY <1>2, <1>6
    <3>2. /\ byHex[2 * k] = byHex[2 * k - 1] * H + hex[2 * k]
          /\ byHex[2 * k - 1] = byHex[2 * (k - 1)] * H + hex[2 * k - 1]
      BY <2>2, <3>1 DEF Reads
    <3>3. byHex[2 * (k - 1)] \in Nat
      BY <2>3, <3>1
    <3>4. \A x, y, z \in Nat : (x * H + y) * H + z = x * (H * H) + (y * H + z)
      BY <1>1
    <3>5. /\ hex[2 * k - 1] = pairs[k][1] /\ hex[2 * k] = pairs[k][2]
          /\ pairs[k][1] \in Nat /\ pairs[k][2] \in Nat
      BY <1>3, <1>5
    <3>6. val[k] = val[k - 1] * (H * H) + (pairs[k][1] * H + pairs[k][2])
      <4>1. val[k] = byHex[2 * k] /\ val[k - 1] = byHex[2 * (k - 1)]
        BY <3>1
      <4> HIDE DEF val
      <4>2. QED
        BY <3>2, <3>3, <3>4, <3>5, <4>1
    <3>7. QED
      BY <1>1, <1>3, <3>6
  <2>5. Reads(val, bytes, B)
    BY <1>2, <2>3, <2>4 DEF Reads
  <2>6. Encodings!FromDigits(bytes, B) = val[n] /\ Encodings!FromDigits(hex, H) = byHex[Len(hex)]
    <3> HIDE DEF val
    <3>1. QED
      BY <1>1, <2>1, <2>2, <2>5, ReadAtTheEnd
  <2>7. val[n] = byHex[2 * n]
    BY <1>2
  <2>8. QED
    BY <1>6, <2>6, <2>7 DEF Encodings!fromHex, Encodings!FromBytes, H, B
<1>9. QED
  BY <1>6, <1>7, <1>8 DEF hex, n

\* A number that fits its bytes is read back from them.
LEMMA BytesReadBack ==
  ASSUME NEW w \in Nat, NEW v \in 0 .. Encodings!Pow(Encodings!Base, w) - 1
  PROVE  /\ Encodings!ToBytes(v, w) \in Seq(Encodings!Byte)
         /\ Len(Encodings!ToBytes(v, w)) = w
         /\ Encodings!FromBytes(Encodings!ToBytes(v, w)) = v
<1>1. Encodings!Base \in Nat \ {0} /\ Encodings!Byte = 0 .. Encodings!Base - 1
  BY EncodingSizes
<1>2. DigitsOf(v, w, Encodings!Base) = Encodings!ToBytes(v, w)
  BY Zenon DEF DigitsOf, Encodings!ToBytes
<1> DEFINE d == DigitsOf(v, w, Encodings!Base)
<1>3. /\ d \in Seq(0 .. Encodings!Base - 1) /\ Len(d) = w
      /\ Encodings!FromDigits(d, Encodings!Base) = v
  BY <1>1, DigitsReadBack
<1> HIDE DEF d
<1>4. d = Encodings!ToBytes(v, w)
  BY <1>2 DEF d
<1>5. QED
  BY <1>1, <1>3, <1>4, Zenon DEF Encodings!FromBytes

\* As many bytes, or one more and it zero, are less than the power.
LEMMA BytesBelow ==
  ASSUME NEW w \in Nat, NEW d \in Seq(Encodings!Byte),
         Len(d) = w \/ (Len(d) = w + 1 /\ d[1] = 0)
  PROVE  Encodings!FromBytes(d) \in 0 .. Encodings!Pow(Encodings!Base, w) - 1
<1> DEFINE B == Encodings!Base
           P == Encodings!Pow(B, w)
<1>1. B \in Nat \ {0} /\ d \in Seq(0 .. B - 1) /\ d \in Seq(Nat) /\ Len(d) \in Nat
  BY EncodingSizes
<1>2. P \in Nat \ {0}
  BY <1>1, PowRule
<1>3. PICK val : Reads(val, d, B)
  BY <1>1, Readable
<1>4. Encodings!FromBytes(d) = val[Len(d)]
  BY <1>1, <1>3, ReadAtTheEnd DEF Encodings!FromBytes
<1>5. val[0] = 0 /\ val[Len(d)] \in Nat
  <2>1. val \in [0 .. Len(d) -> Nat] /\ val[0] = 0
    BY <1>3, Zenon DEF Reads
  <2>2. Len(d) \in 0 .. Len(d)
    BY <1>1
  <2>3. QED
    BY <2>1, <2>2, Zenon
<1> HIDE DEF B
<1>6. PICK m \in 0 .. Len(d) : Len(d) - m = w /\ val[m] = 0
  <2>1. CASE Len(d) = w
    <3>1. 0 \in 0 .. Len(d) /\ Len(d) - 0 = w
      BY <1>1, <2>1
    <3>2. QED
      BY <1>5, <3>1
  <2>2. CASE Len(d) = w + 1 /\ d[1] = 0
    <3>1. 1 \in 1 .. Len(d) /\ 1 \in 0 .. Len(d) /\ Len(d) - 1 = w /\ 1 - 1 = 0
      BY <1>1, <2>2
    <3>2. val[1] = val[0] * B + d[1]
      BY <1>3, <3>1 DEF Reads
    <3>3. val[1] = 0
      BY <1>1, <1>5, <2>2, <3>2
    <3>4. QED
      BY <3>1, <3>3
  <2>3. QED
    BY <2>1, <2>2
<1>7. Len(d) \in m .. Len(d)
  BY <1>1
<1>8. val[Len(d)] < (val[m] + 1) * Encodings!Pow(B, Len(d) - m)
  BY <1>1, <1>3, <1>6, <1>7, ReadBounds
<1>9. val[Len(d)] < (0 + 1) * P
  BY <1>6, <1>8, Zenon
<1> HIDE DEF P
<1>10. val[Len(d)] \in 0 .. P - 1
  BY <1>2, <1>5, <1>9
<1>11. QED
  BY <1>4, <1>10 DEF B, P

-----------------------------------------------------------------------------
(* Scalars, addresses and hashes.                                          *)

\* An integer comes back from hex and from the contract as its residue.
LEMMA ScalarsAgree ==
  ASSUME NEW x \in Int
  PROVE  LET hex == Encodings!toHex32(x)
         IN  /\ Len(hex) = 2 * Width
             /\ Encodings!fromHex(hex) = x % FieldOrder
             /\ Encodings!FrFromBytes(Encodings!HexToBytes(hex)) = x % FieldOrder
<1> DEFINE v == x % FieldOrder
           bytes == Encodings!ToBytes(v, Width)
<1>1. FieldOrder \in Nat \ {0} /\ Width \in Nat /\ v \in 0 .. FieldOrder - 1
  BY EncodingSizes, FieldModIs
<1>2. Encodings!toHex32(x) = Encodings!ToHex(bytes)
  BY FieldModIs DEF Encodings!toHex32
<1> HIDE DEF v
<1>3. v \in 0 .. Encodings!Pow(Encodings!Base, Width) - 1
  <2>1. /\ Encodings!Pow(Encodings!Base, Width) \in Nat
        /\ FieldOrder <= Encodings!Pow(Encodings!Base, Width)
    BY EncodingSizes, PowRule
  <2>2. QED
    BY <1>1, <2>1
<1>4. /\ bytes \in Seq(Encodings!Byte) /\ Len(bytes) = Width
      /\ Encodings!FromBytes(bytes) = v
  BY <1>1, <1>3, BytesReadBack
<1> HIDE DEF bytes
<1>5. LET hex == Encodings!ToHex(bytes)
      IN  /\ Len(hex) = 2 * Len(bytes)
          /\ Encodings!HexToBytes(hex) = bytes
          /\ Encodings!fromHex(hex) = Encodings!FromBytes(bytes)
  BY <1>4, HexReadBack
<1>6. v % FieldOrder = v
  BY <1>1, SmallRemainder
<1>7. Encodings!FrFromBytes(bytes) = v
  BY <1>4, <1>6, Zenon DEF Encodings!FrFromBytes
<1>8. QED
  BY <1>2, <1>4, <1>5, <1>7, Zenon DEF v

\* What is made of an address, of random bytes and of a scope is an element.
LEMMA BytesAgree ==
  ASSUME NEW bytes \in [1 .. Width -> Encodings!Byte]
  PROVE  /\ Encodings!AddressToField(bytes) \in Encodings!Field
         /\ Encodings!RandomField(bytes) \in Encodings!Field
         /\ Encodings!ScopeToField(bytes) \in Encodings!Field
         /\ Encodings!AddressToField(bytes) = Encodings!AddressToFr(bytes)
<1> DEFINE w == Width - 1
           F == Encodings!Field
           P == Encodings!Pow(Encodings!Base, w)
<1>1. /\ w \in Nat /\ w + 1 = Width /\ FieldOrder \in Nat \ {0} /\ F = 0 .. FieldOrder - 1
      /\ P <= FieldOrder /\ 0 \in Encodings!Byte
  BY EncodingSizes
<1>2. P \in Nat
  BY <1>1, EncodingSizes, PowRule
<1>3. \A x \in 0 .. P - 1 : x \in F
  <2> HIDE DEF P, F
  <2>1. QED
    BY <1>1, <1>2
<1>4. bytes \in Seq(Encodings!Byte) /\ Len(bytes) = Width
  BY <1>1
<1> HIDE DEF P, F
<1>5. Encodings!AddressToField(bytes) \in F
  <2> DEFINE d == [bytes EXCEPT ![1] = 0]
  <2>1. d \in Seq(Encodings!Byte) /\ Len(d) = w + 1 /\ d[1] = 0
    BY <1>1, <1>4
  <2> HIDE DEF d, w
  <2>2. Encodings!FromBytes(d) \in 0 .. P - 1
    BY <1>1, <2>1, BytesBelow DEF P
  <2>3. QED
    BY <1>3, <2>2 DEF Encodings!AddressToField, d
<1>6. Encodings!RandomField(bytes) \in F
  <2> DEFINE d == Tail(bytes)
  <2>1. d \in Seq(Encodings!Byte) /\ Len(d) = w
    <3>1. bytes # << >> /\ Len(bytes) - 1 = w
      BY <1>1, <1>4
    <3>2. QED
      BY <1>4, <3>1, HeadTailProperties, Zenon
  <2> HIDE DEF d, w
  <2>2. Encodings!FromBytes(d) \in 0 .. P - 1
    BY <1>1, <2>1, BytesBelow DEF P
  <2>3. QED
    BY <1>3, <2>2 DEF Encodings!RandomField, d
<1>7. Encodings!ScopeToField(bytes) \in F
  <2> DEFINE cut == SubSeq(bytes, 1, w)
             zero == [i \in 1 .. Width - Len(cut) |-> 0]
             d == zero \o cut
  <2>1. cut \in Seq(Encodings!Byte) /\ Len(cut) = w
    BY <1>1, <1>4
  <2>2. Width - Len(cut) = 1
    BY <1>1, <2>1
  <2> HIDE DEF cut
  <2>3. zero \in Seq(Encodings!Byte) /\ Len(zero) = 1 /\ zero[1] = 0
    <3>1. zero = [i \in 1 .. 1 |-> 0]
      BY <2>2
    <3> HIDE DEF zero
    <3>2. QED
      BY <1>1, <3>1
  <2> HIDE DEF zero
  <2>4. d \in Seq(Encodings!Byte) /\ Len(d) = w + 1 /\ d[1] = 0
    <3> HIDE DEF w
    <3>1. /\ d \in Seq(Encodings!Byte) /\ Len(d) = Len(zero) + Len(cut)
          /\ \A i \in 1 .. Len(zero) + Len(cut) :
               d[i] = IF i <= Len(zero) THEN zero[i] ELSE cut[i - Len(zero)]
      BY <2>1, <2>3, ConcatProperties
    <3> HIDE DEF d
    <3>2. 1 \in 1 .. Len(zero) + Len(cut) /\ Len(zero) + Len(cut) = w + 1
      BY <1>1, <2>1, <2>3
    <3>3. QED
      BY <2>3, <3>1, <3>2
  <2> HIDE DEF d
  <2>5. Encodings!ScopeToField(bytes) = Encodings!FromBytes(d)
    BY DEF Encodings!ScopeToField, d, zero, cut
  <2> HIDE DEF w
  <2>6. Encodings!FromBytes(d) \in 0 .. P - 1
    BY <1>1, <2>4, BytesBelow DEF P
  <2>7. QED
    BY <1>3, <2>5, <2>6
<1>8. Encodings!AddressToField(bytes) % FieldOrder = Encodings!AddressToField(bytes)
  <2> DEFINE a == Encodings!AddressToField(bytes)
  <2>1. a \in 0 .. FieldOrder - 1
    BY <1>1, <1>5
  <2> HIDE DEF a
  <2>2. a % FieldOrder = a
    BY <1>1, <2>1, SmallRemainder
  <2>3. QED
    BY <2>2 DEF a
<1>9. Encodings!AddressToFr(bytes) = Encodings!AddressToField(bytes) % FieldOrder
  BY DEF Encodings!AddressToFr, Encodings!AddressToField, Encodings!FrFromBytes
<1>10. QED
  BY <1>5, <1>6, <1>7, <1>8, <1>9 DEF F

\* f is the state before every round of from .. to.
RunsAs(f, state, from, to, full) ==
  f = [i \in from .. to |->
         IF i = from THEN state ELSE Encodings!Round(f[i - 1], i - 1, i - 1 \in full)]

\* There is such an f, and Rounds is its last value.
Arrives(state, from, to, full) ==
  \E f : RunsAs(f, state, from, to, full) /\ Encodings!Rounds(state, from, to, full) = f[to]

\* Rounds is the last of the states before every round.
LEMMA RoundsRun ==
  ASSUME NEW state, NEW full, NEW from \in Nat, NEW k \in Nat
  PROVE  Arrives(state, from, from + k, full)
<1> DEFINE Some(m) == \E f : RunsAs(f, state, from, from + m, full)
           S == {m \in Nat : Some(m)}
<1>1. 0 \in S
  <2> DEFINE f == [i \in from .. from + 0 |-> state]
  <2>1. RunsAs(f, state, from, from + 0, full)
    BY DEF RunsAs
  <2> HIDE DEF f
  <2>2. QED
    BY <2>1
<1>2. ASSUME NEW m \in Nat, m \in S PROVE m + 1 \in S
  <2>1. PICK f : RunsAs(f, state, from, from + m, full)
    BY <1>2
  <2> DEFINE Next1(i, x) == Encodings!Round(x, i - 1, i - 1 \in full)
             Body(g, i) == IF i = from THEN state ELSE Next1(i, g[i - 1])
             h == [i \in from .. from + m + 1 |->
                     IF i = from + m + 1 THEN Next1(i, f[i - 1]) ELSE f[i]]
  <2> HIDE DEF Next1
  <2>2. f = [i \in from .. from + m |-> Body(f, i)]
    BY <2>1, Zenon DEF RunsAs, Next1
  <2>3. ASSUME NEW i \in from .. from + m + 1 PROVE h[i] = Body(h, i)
    <3>1. CASE i = from + m + 1
      <4>1. i - 1 \in from .. from + m + 1 /\ i - 1 # from + m + 1 /\ i # from
        BY <3>1
      <4>2. h[i - 1] = f[i - 1] /\ h[i] = Next1(i, f[i - 1])
        BY <3>1, <4>1
      <4> HIDE DEF h
      <4>3. QED
        BY <4>1, <4>2
    <3>2. CASE i \in from .. from + m /\ i # from
      <4>1. /\ i - 1 \in from .. from + m + 1 /\ i - 1 # from + m + 1
            /\ i # from + m + 1
        BY <3>2
      <4>2. h[i - 1] = f[i - 1] /\ h[i] = f[i]
        BY <3>2, <4>1
      <4>3. f[i] = Next1(i, f[i - 1])
        BY <2>2, <3>2
      <4> HIDE DEF h
      <4>4. QED
        BY <3>2, <4>2, <4>3
    <3>3. CASE i = from
      <4>1. i \in from .. from + m /\ i # from + m + 1
        BY <3>3
      <4>2. h[i] = f[i] /\ f[i] = state
        BY <2>2, <3>3, <4>1
      <4> HIDE DEF h
      <4>3. QED
        BY <3>3, <4>2
    <3>4. i = from + m + 1 \/ (i \in from .. from + m /\ i # from) \/ i = from
      OBVIOUS
    <3>5. QED
      BY <3>1, <3>2, <3>3, <3>4, Zenon
  <2>4. h = [i \in from .. from + m + 1 |-> h[i]]
    OBVIOUS
  <2> HIDE DEF h, Body
  <2>5. h = [i \in from .. from + m + 1 |-> Body(h, i)]
    BY <2>3, <2>4
  <2>6. from + m + 1 = from + (m + 1) /\ m + 1 \in Nat
    OBVIOUS
  <2>7. RunsAs(h, state, from, from + (m + 1), full)
    BY <2>5, <2>6, Zenon DEF RunsAs, Body, Next1
  <2>8. QED
    BY <2>6, <2>7
<1>3. k \in S
  <2> HIDE DEF S
  <2>1. QED
    BY <1>1, <1>2, Counting
<1> DEFINE Body(g) ==
      [i \in from .. from + k |->
         IF i = from THEN state ELSE Encodings!Round(g[i - 1], i - 1, i - 1 \in full)]
           before == CHOOSE g : g = Body(g)
<1>4. PICK f : f = Body(f)
  BY <1>3, Zenon DEF RunsAs
<1>5. before = Body(before)
  <2> HIDE DEF Body
  <2>1. QED
    BY <1>4
<1>6. Encodings!Rounds(state, from, from + k, full) = before[from + k]
  BY Zenon DEF Encodings!Rounds
<1>7. RunsAs(before, state, from, from + k, full)
  BY <1>5, Zenon DEF RunsAs
<1> HIDE DEF before
<1>8. QED
  BY <1>6, <1>7, Zenon DEF Arrives

\* After k rounds from from on, one more is a Round.
IsOneMore(state, full, from, k) ==
  Encodings!Rounds(state, from, from + (k + 1), full)
    = Encodings!Round(Encodings!Rounds(state, from, from + k, full),
                      from + k, from + k \in full)

\* From a state, no round leaves it; one more is a Round of what is there.
LEMMA OneMoreRound ==
  ASSUME NEW state, NEW full, NEW from \in Nat
  PROVE  /\ Encodings!Rounds(state, from, from, full) = state
         /\ \A k \in Nat : IsOneMore(state, full, from, k)
<1>1. Encodings!Rounds(state, from, from, full) = state
  <2>1. from + 0 = from /\ 0 \in Nat
    OBVIOUS
  <2>2. Arrives(state, from, from + 0, full)
    BY <2>1, RoundsRun, Zenon
  <2>3. PICK f : /\ RunsAs(f, state, from, from, full)
                 /\ Encodings!Rounds(state, from, from, full) = f[from]
    BY <2>1, <2>2, Zenon DEF Arrives
  <2>4. f[from] = state
    BY <2>3 DEF RunsAs
  <2>5. QED
    BY <2>3, <2>4
<1>2. ASSUME NEW k \in Nat
      PROVE  Encodings!Rounds(state, from, from + (k + 1), full)
               = Encodings!Round(Encodings!Rounds(state, from, from + k, full),
                                 from + k, from + k \in full)
  <2>0. k + 1 \in Nat /\ Arrives(state, from, from + k, full)
    BY RoundsRun
  <2>01. Arrives(state, from, from + (k + 1), full)
    BY <2>0, RoundsRun
  <2>1. PICK f : /\ RunsAs(f, state, from, from + k, full)
                 /\ Encodings!Rounds(state, from, from + k, full) = f[from + k]
    BY <2>0, Zenon DEF Arrives
  <2>2. PICK g : /\ RunsAs(g, state, from, from + (k + 1), full)
                 /\ Encodings!Rounds(state, from, from + (k + 1), full) = g[from + (k + 1)]
    BY <2>01, Zenon DEF Arrives
  <2> DEFINE Next1(i, x) == Encodings!Round(x, i - 1, i - 1 \in full)
  <2>3. \A i \in from .. from + k : f[i] = IF i = from THEN state ELSE Next1(i, f[i - 1])
    <3>1. f = [i \in from .. from + k |-> IF i = from THEN state ELSE Next1(i, f[i - 1])]
      BY <2>1, Zenon DEF RunsAs
    <3> HIDE DEF Next1
    <3>2. QED
      BY <3>1, Zenon
  <2>4. \A i \in from .. from + (k + 1) : g[i] = IF i = from THEN state ELSE Next1(i, g[i - 1])
    <3>1. g = [i \in from .. from + (k + 1) |-> IF i = from THEN state ELSE Next1(i, g[i - 1])]
      BY <2>2, Zenon DEF RunsAs
    <3> HIDE DEF Next1
    <3>2. QED
      BY <3>1, Zenon
  <2> HIDE DEF Next1
  <2> DEFINE S == {m \in Nat : m <= k => f[from + m] = g[from + m]}
  <2>5. 0 \in S
    BY <2>3, <2>4
  <2>6. ASSUME NEW m \in Nat, m \in S PROVE m + 1 \in S
    <3>1. CASE m + 1 <= k
      <4>1. /\ from + (m + 1) \in from .. from + k /\ from + (m + 1) \in from .. from + (k + 1)
            /\ from + (m + 1) # from /\ (from + (m + 1)) - 1 = from + m
        BY <3>1
      <4>2. f[from + m] = g[from + m]
        BY <2>6, <3>1
      <4>3. f[from + (m + 1)] = Next1(from + (m + 1), f[from + m])
        BY <2>3, <4>1, Zenon
      <4>4. g[from + (m + 1)] = Next1(from + (m + 1), g[from + m])
        BY <2>4, <4>1, Zenon
      <4>5. f[from + (m + 1)] = g[from + (m + 1)]
        BY <4>2, <4>3, <4>4, Zenon
      <4>6. QED
        BY <4>5
    <3>2. CASE ~(m + 1 <= k)
      BY <3>2
    <3>3. QED
      BY <3>1, <3>2
  <2>7. f[from + k] = g[from + k]
    <3> HIDE DEF S
    <3>1. k \in S
      BY <2>5, <2>6, Counting
    <3>2. QED
      BY <3>1 DEF S
  <2>8. /\ from + (k + 1) \in from .. from + (k + 1) /\ from + (k + 1) # from
        /\ (from + (k + 1)) - 1 = from + k
    OBVIOUS
  <2>9. g[from + (k + 1)] = Next1(from + (k + 1), g[from + k])
    BY <2>4, <2>8, Zenon
  <2>10. Next1(from + (k + 1), g[from + k])
           = Encodings!Round(g[from + k], from + k, from + k \in full)
    BY <2>8, Zenon DEF Next1
  <2>11. QED
    BY <2>1, <2>2, <2>7, <2>9, <2>10, Zenon
<1>3. QED
  BY <1>1, <1>2 DEF IsOneMore

\* The k rounds from start on are the same in A and in B.
SameRounds(A, B, start, k) ==
  \A j \in Nat : j < k => (start + j \in A <=> start + j \in B)

\* After m rounds k more with the set B.
AreTakenUp(state, A, B, from, m, k) ==
  Encodings!Rounds(state, from, from + m + k, A)
    = Encodings!Rounds(Encodings!Rounds(state, from, from + m, A),
                       from + m, from + m + k, B)

\* Rounds can be stopped and taken up again, with a set that has the same of
\* the rounds to come.
LEMMA RoundsTakenUp ==
  ASSUME NEW state, NEW A, NEW B, NEW from \in Nat, NEW m \in Nat, NEW k \in Nat,
         SameRounds(A, B, from + m, k)
  PROVE  AreTakenUp(state, A, B, from, m, k)
<1> DEFINE mid == Encodings!Rounds(state, from, from + m, A)
           left(j) == Encodings!Rounds(state, from, from + m + j, A)
           right(j) == Encodings!Rounds(mid, from + m, from + m + j, B)
           S == {j \in Nat : j <= k => left(j) = right(j)}
<1>1. 0 \in S
  <2>1. from + m + 0 = from + m /\ from + m \in Nat
    OBVIOUS
  <2>2. right(0) = mid
    BY <2>1, OneMoreRound
  <2>3. left(0) = mid
    BY <2>1, Zenon
  <2> HIDE DEF left, right
  <2>4. QED
    BY <2>2, <2>3
<1>2. ASSUME NEW j \in Nat, j \in S PROVE j + 1 \in S
  <2>0. j + 1 \in Nat
    OBVIOUS
  <2>1. CASE j + 1 <= k
    <3>1. left(j) = right(j)
      <4> HIDE DEF left, right
      <4>1. QED
        BY <1>2, <2>1
    <3>2. /\ m + j \in Nat /\ from + m \in Nat /\ from + m + (j + 1) = from + ((m + j) + 1)
          /\ from + m + j = from + (m + j)
      OBVIOUS
    <3>3. left(j + 1) = Encodings!Round(left(j), from + m + j, from + m + j \in A)
      <4>1. IsOneMore(state, A, from, m + j)
        BY <3>2, OneMoreRound
      <4>2. QED
        BY <3>2, <4>1, Zenon DEF IsOneMore
    <3>4. right(j + 1) = Encodings!Round(right(j), from + m + j, from + m + j \in B)
      <4>1. IsOneMore(mid, B, from + m, j)
        BY <3>2, OneMoreRound
      <4>2. QED
        BY <4>1, Zenon DEF IsOneMore
    <3>5. (from + m + j \in A) = (from + m + j \in B)
      BY <2>1 DEF SameRounds
    <3> HIDE DEF left, right
    <3>6. left(j + 1) = right(j + 1)
      BY <3>1, <3>3, <3>4, <3>5, Zenon
    <3>7. QED
      BY <2>0, <3>6
  <2>2. CASE ~(j + 1 <= k)
    BY <2>0, <2>2
  <2>3. QED
    BY <2>1, <2>2
<1>3. k \in S
  <2> HIDE DEF S
  <2>1. QED
    BY <1>1, <1>2, Counting
<1> HIDE DEF left, right
<1>4. left(k) = right(k)
  BY <1>3
<1>5. QED
  BY <1>4, Zenon DEF left, right, mid, AreTakenUp

\* A hash has the rounds of the circuit in its order.
LEMMA HashesAgree ==
  ASSUME NEW elements
  PROVE  Encodings!poseidon(elements) = Encodings!HadesPhases(elements)
<1> DEFINE h == N_F \div 2
           p == N_P
           All == Encodings!AllRounds
           full == {i \in All : Encodings!IsFull(i)}
           none == {}
           zero == 0
           s0 == Encodings!InitialState(elements)
           Rounds(s, from, to, A) == Encodings!Rounds(s, from, to, A)
           first == Rounds(s0, zero, h, All)
           second == Rounds(first, h, h + p, none)
<1>1. h \in Nat /\ p \in Nat /\ N_F = h + h
  <2>1. N_F \in Nat /\ N_F % 2 = 0 /\ N_P \in Nat
    BY EncodingSizes
  <2>2. QED
    BY <2>1
<1>2. \A j \in Nat : /\ j \in All <=> j < h + p + h
                     /\ j \in full <=> (j < h + p + h /\ (j < h \/ j >= h + p))
  <2>1. All = 0 .. h + p + h - 1
    BY <1>1 DEF Encodings!AllRounds
  <2>2. \A j : Encodings!IsFull(j) <=> (j < h \/ j >= h + p)
    BY DEF Encodings!IsFull
  <2> HIDE DEF h, p, All
  <2>3. QED
    BY <1>1, <2>1, <2>2
<1> HIDE DEF h, p, All, full, s0, none
<1>z. zero \in Nat
  OBVIOUS
<1> HIDE DEF zero
<1>3. Rounds(s0, zero, h, full) = first
  <2>1. SameRounds(full, All, zero + zero, h)
    BY <1>1, <1>2 DEF zero, SameRounds
  <2>2. AreTakenUp(s0, full, All, zero, zero, h)
    BY <1>1, <1>z, <2>1, RoundsTakenUp
  <2>3. zero + zero + h = h /\ zero + zero = zero
    BY <1>1 DEF zero
  <2>4. Rounds(s0, zero, zero, full) = s0
    BY <1>z, OneMoreRound
  <2>5. QED
    BY <2>2, <2>3, <2>4, Zenon DEF AreTakenUp
<1>4. Rounds(s0, zero, h + p, full) = second
  <2>1. SameRounds(full, none, zero + h, p)
    BY <1>1, <1>2 DEF none, zero, SameRounds
  <2>2. AreTakenUp(s0, full, none, zero, h, p)
    BY <1>1, <1>z, <2>1, RoundsTakenUp
  <2>3. zero + h = h
    BY <1>1 DEF zero
  <2>4. QED
    BY <1>3, <2>2, <2>3, Zenon DEF AreTakenUp
<1>5. Rounds(s0, zero, h + p + h, full) = Rounds(second, h + p, h + p + h, All)
  <2>0. h + p \in Nat
    BY <1>1 DEF zero
  <2>1. SameRounds(full, All, zero + (h + p), h)
    BY <1>1, <1>2 DEF zero, SameRounds
  <2>2. AreTakenUp(s0, full, All, zero, h + p, h)
    BY <1>1, <1>z, <2>0, <2>1, RoundsTakenUp
  <2>3. zero + (h + p) = h + p
    BY <1>1 DEF zero
  <2>4. QED
    BY <1>4, <2>2, <2>3, Zenon DEF AreTakenUp
<1>6. h + p + h = N_F + N_P
  BY <1>1 DEF p
<1>7. Encodings!poseidon(elements) = Rounds(s0, zero, h + p + h, full)[1]
  BY <1>6, Zenon DEF Encodings!poseidon, full, All, s0, zero
<1>8. Encodings!HadesPhases(elements) = Rounds(second, h + p, h + p + h, All)[1]
  BY <1>6, Zenon DEF Encodings!HadesPhases, s0, h, p, All, none, zero
<1>9. QED
  BY <1>5, <1>7, <1>8, Zenon

-----------------------------------------------------------------------------
(* Amounts.                                                                *)

\* Some numbers up to n have a greatest.
LEMMA Greatest ==
  ASSUME NEW n \in Nat, NEW Q \in SUBSET (1 .. n), Q # {}
  PROVE  \E x \in Q : \A y \in Q : x >= y
<1> DEFINE Has(W) == \E x \in W : \A y \in W : x >= y
           S == {m \in Nat : \A W \in SUBSET (1 .. m) : W # {} => Has(W)}
<1>1. 0 \in S
  <2>1. 1 .. 0 = {}
    OBVIOUS
  <2>2. QED
    BY <2>1
<1>2. ASSUME NEW m \in Nat, m \in S PROVE m + 1 \in S
  <2>0. m + 1 \in Nat
    OBVIOUS
  <2> SUFFICES ASSUME NEW W \in SUBSET (1 .. m + 1), W # {} PROVE Has(W)
    BY <2>0
  <2>1. CASE m + 1 \in W
    BY <2>1
  <2>2. CASE m + 1 \notin W
    <3>1. W \in SUBSET (1 .. m)
      BY <2>2
    <3> HIDE DEF Has
    <3>2. QED
      BY <1>2, <3>1
  <2>3. QED
    BY <2>1, <2>2
<1>3. n \in S
  <2> HIDE DEF S
  <2>1. QED
    BY <1>1, <1>2, Counting
<1>4. QED
  BY <1>3

\* The zeros that are stripped are those parseAmount puts back.
LEMMA StrippedBack ==
  ASSUME NEW d \in Seq(0 .. Ten - 1), Len(d) = Decimals
  PROVE  LET zeros == [i \in 1 .. Decimals |-> 0]
         IN  SubSeq(Encodings!Stripped(d) \o zeros, 1, Decimals) = d
<1> DEFINE D == Decimals
           zeros == [i \in 1 .. D |-> 0]
           T == 0 .. Ten - 1
           I == {i \in 1 .. Len(d) : d[i] # 0}
           k == Encodings!SelectLastInSeq(d, LAMBDA e : e # 0)
           s == Encodings!Stripped(d)
<1>1. D \in Nat /\ Ten \in Nat \ {0} /\ 0 \in T /\ d \in Seq(T) /\ Len(d) = D
  BY EncodingSizes
<1>2. k \in 0 .. D /\ \A i \in k + 1 .. D : d[i] = 0
  <2>1. CASE I = {}
    <3>1. k = 0
      BY <2>1, Zenon DEF Encodings!SelectLastInSeq
    <3> HIDE DEF k
    <3>2. QED
      BY <1>1, <2>1, <3>1
  <2>2. CASE I # {}
    <3>1. k = CHOOSE x \in I : \A y \in I : x >= y
      BY <2>2, Zenon DEF Encodings!SelectLastInSeq, Encodings!Max
    <3>2. I \in SUBSET (1 .. D)
      BY <1>1
    <3> HIDE DEF k, I
    <3>3. \E x \in I : \A y \in I : x >= y
      BY <1>1, <2>2, <3>2, Greatest
    <3>4. k \in I /\ \A y \in I : k >= y
      BY <3>1, <3>3, Zenon
    <3>5. k \in 1 .. D /\ \A i \in 1 .. D : i > k => i \notin I
      BY <1>1, <3>2, <3>4
    <3>6. QED
      BY <1>1, <3>5 DEF I
  <2>3. QED
    BY <2>1, <2>2
<1>3. s = SubSeq(d, 1, k)
  BY Zenon DEF Encodings!Stripped
<1> HIDE DEF k, D, s, T
<1>4. s \in Seq(T) /\ Len(s) = k /\ \A i \in 1 .. k : s[i] = d[i]
  BY <1>1, <1>2, <1>3
<1>5. zeros \in Seq(T) /\ Len(zeros) = D /\ \A i \in 1 .. D : zeros[i] = 0
  BY <1>1
<1> HIDE DEF zeros
<1> DEFINE u == s \o zeros
<1>6. /\ u \in Seq(T) /\ Len(u) = k + D
      /\ \A i \in 1 .. k + D : u[i] = IF i <= k THEN s[i] ELSE zeros[i - k]
  BY <1>4, <1>5, ConcatProperties
<1> HIDE DEF u
<1> DEFINE cut == SubSeq(u, 1, D)
<1>7. cut \in Seq(T) /\ Len(cut) = D /\ \A i \in 1 .. D : cut[i] = u[i]
  BY <1>1, <1>2, <1>6
<1> HIDE DEF cut
<1>8. ASSUME NEW i \in 1 .. D PROVE u[i] = d[i]
  <2>1. i \in 1 .. k + D
    BY <1>1, <1>2
  <2>2. CASE i <= k
    BY <1>2, <1>4, <1>6, <2>1, <2>2
  <2>3. CASE ~(i <= k)
    <3>1. i - k \in 1 .. D /\ i \in k + 1 .. D
      BY <1>1, <1>2, <2>3
    <3>2. QED
      BY <1>2, <1>5, <1>6, <2>1, <2>3, <3>1
  <2>4. QED
    BY <2>2, <2>3
<1>9. cut = d
  BY <1>1, <1>7, <1>8, SeqEqual
<1>10. QED
  BY <1>9 DEF cut, u, s, zeros, D

\* An amount that is shown and typed in again is the same.
LEMMA AmountShown ==
  ASSUME NEW units \in Nat
  PROVE  Encodings!parseAmount(Encodings!formatAmount(units)) = units
<1> DEFINE T == Encodings!Pow(Ten, Decimals)
           q == units \div T
           r == units % T
           d == Encodings!Padded(r)
           zeros == [i \in 1 .. Decimals |-> 0]
           cut == SubSeq(Encodings!Stripped(d) \o zeros, 1, Decimals)
<1>1. Ten \in Nat \ {0} /\ Decimals \in Nat /\ T \in Nat \ {0}
  BY EncodingSizes, PowRule
<1>2. q \in Nat /\ r \in 0 .. T - 1 /\ units = T * q + r
  <2> HIDE DEF T
  <2>1. QED
    BY <1>1, Divided
<1> HIDE DEF q, r
<1>3. /\ DigitsOf(r, Decimals, Ten) \in Seq(0 .. Ten - 1)
      /\ Len(DigitsOf(r, Decimals, Ten)) = Decimals
      /\ Encodings!FromDigits(DigitsOf(r, Decimals, Ten), Ten) = r
  BY <1>1, <1>2, DigitsReadBack
<1>4. d = DigitsOf(r, Decimals, Ten)
  BY Zenon DEF Encodings!Padded, DigitsOf
<1> HIDE DEF d
<1>5. d \in Seq(0 .. Ten - 1) /\ Len(d) = Decimals /\ Encodings!FromDigits(d, Ten) = r
  BY <1>3, <1>4, Zenon
<1>6. cut = d
  BY <1>5, StrippedBack
<1>7. Encodings!formatAmount(units) = [whole |-> q, frac |-> Encodings!Stripped(d)]
  BY Zenon DEF Encodings!formatAmount, Encodings!Frac, q, r, d
<1> DEFINE text == Encodings!formatAmount(units)
<1>8. text.whole = q /\ text.frac = Encodings!Stripped(d)
  BY <1>7
<1> HIDE DEF text
<1>9. Encodings!parseAmount(text) = q * T + Encodings!FromDigits(cut, Ten)
  BY <1>8, Zenon DEF Encodings!parseAmount
<1> HIDE DEF cut, T
<1>10. q * T + r = units
  BY <1>1, <1>2
<1>11. QED
  BY <1>5, <1>6, <1>9, <1>10, Zenon DEF text

\* An amount that is typed is cut to the units there are.
LEMMA AmountTyped ==
  ASSUME NEW text, text.whole \in Nat, text.frac \in Seq(0 .. Ten - 1)
  PROVE  LET scale == Encodings!Pow(Ten, Len(text.frac))
             typed == (text.whole * scale + Encodings!FromDigits(text.frac, Ten))
                        * Encodings!Pow(Ten, Decimals)
             out == Encodings!parseAmount(text)
         IN  out * scale <= typed /\ typed < (out + 1) * scale
<1> DEFINE w == text.whole
           frac == text.frac
           D == Decimals
           n == Len(frac)
           T == Encodings!Pow(Ten, D)
           scale == Encodings!Pow(Ten, n)
           zeros == [i \in 1 .. D |-> 0]
           d == frac \o zeros
           cut == SubSeq(d, 1, D)
<1>1. /\ Ten \in Nat \ {0} /\ D \in Nat /\ n \in Nat /\ w \in Nat
      /\ frac \in Seq(0 .. Ten - 1) /\ 0 \in 0 .. Ten - 1
  BY EncodingSizes
<1>2. T \in Nat \ {0} /\ scale \in Nat \ {0}
  BY <1>1, PowRule
<1> HIDE DEF frac, w, D
<1>3. zeros \in Seq(0 .. Ten - 1) /\ Len(zeros) = D /\ \A i \in 1 .. D : zeros[i] = 0
  BY <1>1
<1> HIDE DEF zeros
<1>4. /\ d \in Seq(0 .. Ten - 1) /\ Len(d) = n + D
      /\ \A i \in 1 .. n + D : d[i] = IF i <= n THEN frac[i] ELSE zeros[i - n]
  BY <1>1, <1>3, ConcatProperties
<1> HIDE DEF d, n
<1>5. cut \in Seq(0 .. Ten - 1) /\ Len(cut) = D /\ \A i \in 1 .. D : cut[i] = d[i]
  BY <1>1, <1>4
<1> HIDE DEF cut
<1>6. d \in Seq(Nat) /\ cut \in Seq(Nat) /\ frac \in Seq(Nat) /\ Ten \in Nat
  <2>1. 0 .. Ten - 1 \subseteq Nat
    BY <1>1
  <2>2. QED
    BY <1>1, <1>4, <1>5, <2>1, SeqMonotonic
<1>7. PICK val : Reads(val, d, Ten)
  BY <1>6, Readable
<1> DEFINE c == val[D]
           f == val[n]
           total == val[n + D]
<1>8. c \in Nat /\ f \in Nat /\ total \in Nat
  <2>1. val \in [0 .. n + D -> Nat]
    BY <1>4, <1>7, Zenon DEF Reads
  <2>2. D \in 0 .. n + D /\ n \in 0 .. n + D /\ n + D \in 0 .. n + D
    BY <1>1
  <2>3. QED
    BY <2>1, <2>2, Zenon
<1>9. Encodings!FromDigits(cut, Ten) = c
  <2>1. IsStart(cut, d, D)
    BY <1>1, <1>4, <1>5, <1>6 DEF IsStart
  <2>2. QED
    BY <1>6, <1>7, <2>1, ReadFromTheLeft
<1>10. Encodings!FromDigits(frac, Ten) = f
  <2>1. n \in 0 .. Len(d) /\ Len(frac) = n
    BY <1>1, <1>4 DEF n
  <2>2. \A k \in 1 .. n : frac[k] = d[k]
    BY <1>1, <1>4
  <2>3. IsStart(frac, d, n)
    BY <1>6, <2>1, <2>2 DEF IsStart
  <2>4. QED
    BY <1>6, <1>7, <2>3, ReadFromTheLeft
<1>11. total = f * T
  <2>1. n \in 0 .. Len(d) /\ Len(d) - n = D /\ Len(d) = n + D
    BY <1>1, <1>4
  <2>2. \A k \in n + 1 .. Len(d) : d[k] = 0
    <3>1. ASSUME NEW k \in n + 1 .. Len(d) PROVE d[k] = 0
      <4>1. k \in 1 .. n + D /\ ~(k <= n) /\ k - n \in 1 .. D
        BY <1>1, <2>1
      <4>2. QED
        BY <1>3, <1>4, <4>1
    <3>2. QED
      BY <3>1
  <2>3. val[Len(d)] = val[n] * Encodings!Pow(Ten, Len(d) - n)
    BY <1>1, <1>6, <1>7, <2>1, <2>2, ZerosBehind
  <2>4. QED
    BY <2>1, <2>3, Zenon
<1>12. c * scale <= total /\ total < (c + 1) * scale
  <2>1. D \in 0 .. Len(d) /\ n + D \in D .. Len(d) /\ (n + D) - D = n
    BY <1>1, <1>4
  <2>2. /\ val[D] * Encodings!Pow(Ten, (n + D) - D) <= val[n + D]
        /\ val[n + D] < (val[D] + 1) * Encodings!Pow(Ten, (n + D) - D)
    BY <1>1, <1>4, <1>7, <2>1, ReadBounds
  <2>3. QED
    BY <2>1, <2>2, Zenon
<1> HIDE DEF c, f, total, T, scale
<1>13. Encodings!parseAmount(text) = w * T + c
  BY <1>9, Zenon DEF Encodings!parseAmount, w, T, D, cut, d, zeros, frac
<1>14. /\ (w * T + c) * scale <= (w * scale + f) * T
       /\ (w * scale + f) * T < ((w * T + c) + 1) * scale
  <2>1. /\ (w * T + c) * scale = (w * T) * scale + c * scale
        /\ ((w * T + c) + 1) * scale = (w * T) * scale + (c + 1) * scale
        /\ (w * scale + f) * T = (w * T) * scale + f * T
    BY <1>1, <1>2, <1>8
  <2>2. PICK x \in Nat, y \in Nat, z \in Nat : x = (w * T) * scale /\ y = c * scale /\ z = (c + 1) * scale
    BY <1>1, <1>2, <1>8
  <2>3. x + y <= x + total /\ x + total < x + z
    BY <1>8, <1>12, <2>2
  <2>4. QED
    BY <1>11, <2>1, <2>2, <2>3, Zenon
<1>15. QED
  BY <1>10, <1>13, <1>14, Zenon DEF w, scale, n, frac, T, D

-----------------------------------------------------------------------------
(* Keys, proofs and signals.                                               *)

\* The bytes m are in b, behind the first k.
HoldsAt(b, k, m) ==
  /\ b \in Seq(Encodings!Byte) /\ m \in Seq(Encodings!Byte)
  /\ k \in Nat /\ k + Len(m) <= Len(b)
  /\ \A i \in 1 .. Len(m) : b[k + i] = m[i]

\* What is held is what is taken.
LEMMA HeldTaken ==
  ASSUME NEW b, NEW k, NEW m, HoldsAt(b, k, m)
  PROVE  Encodings!Take(b, k, Len(m)) = m
<1> DEFINE S == Encodings!Byte
           n == Len(m)
           t == SubSeq(b, k + 1, k + n)
<1>1. /\ b \in Seq(S) /\ m \in Seq(S) /\ k \in Nat /\ k + n <= Len(b)
      /\ \A i \in 1 .. n : b[k + i] = m[i]
  BY DEF HoldsAt
<1>2. n \in Nat /\ Len(b) \in Nat /\ k + 1 \in Int /\ k + n \in Int
  BY <1>1
<1> HIDE DEF S, n
<1>3. ASSUME NEW i \in k + 1 .. k + n PROVE b[i] \in S
  <2>1. i \in 1 .. Len(b)
    BY <1>1, <1>2
  <2>2. QED
    BY <1>1, <2>1, ElementOfSeq
<1>4. /\ t \in Seq(S) /\ Len(t) = IF k + 1 <= k + n THEN (k + n) - (k + 1) + 1 ELSE 0
      /\ \A i \in 1 .. (k + n) - (k + 1) + 1 : t[i] = b[(k + 1) + i - 1]
  BY <1>2, <1>3, SubSeqProperties
<1> HIDE DEF t
<1>5. Len(t) = n
  BY <1>1, <1>2, <1>4
<1>6. ASSUME NEW i \in 1 .. n PROVE t[i] = m[i]
  <2>1. i \in 1 .. (k + n) - (k + 1) + 1 /\ (k + 1) + i - 1 = k + i
    BY <1>1, <1>2
  <2>2. t[i] = b[k + i]
    BY <1>4, <2>1
  <2>3. QED
    BY <1>1, <2>2
<1>7. t = m
  BY <1>1, <1>4, <1>5, <1>6, SeqEqual DEF n
<1>8. QED
  BY <1>7, Zenon DEF Encodings!Take, t, n

\* It is held as well with other bytes behind, or in front.
LEMMA HeldBetween ==
  ASSUME NEW b, NEW k, NEW m, HoldsAt(b, k, m), NEW other \in Seq(Encodings!Byte)
  PROVE  HoldsAt(b \o other, k, m) /\ HoldsAt(other \o b, Len(other) + k, m)
<1> DEFINE S == Encodings!Byte
           c == b \o other
           d == other \o b
<1>1. /\ b \in Seq(S) /\ m \in Seq(S) /\ k \in Nat /\ k + Len(m) <= Len(b)
      /\ \A i \in 1 .. Len(m) : b[k + i] = m[i]
  BY DEF HoldsAt
<1>2. Len(m) \in Nat /\ Len(b) \in Nat /\ Len(other) \in Nat
  BY <1>1
<1>3. /\ c \in Seq(S) /\ Len(c) = Len(b) + Len(other)
      /\ \A i \in 1 .. Len(b) + Len(other) :
           c[i] = IF i <= Len(b) THEN b[i] ELSE other[i - Len(b)]
  BY <1>1, ConcatProperties
<1>4. /\ d \in Seq(S) /\ Len(d) = Len(other) + Len(b)
      /\ \A i \in 1 .. Len(other) + Len(b) :
           d[i] = IF i <= Len(other) THEN other[i] ELSE b[i - Len(other)]
  BY <1>1, ConcatProperties
<1> HIDE DEF c, d, S
<1>5. HoldsAt(c, k, m)
  <2>1. ASSUME NEW i \in 1 .. Len(m) PROVE c[k + i] = m[i]
    <3>1. k + i \in 1 .. Len(b) + Len(other) /\ k + i <= Len(b)
      BY <1>1, <1>2
    <3>2. c[k + i] = b[k + i]
      BY <1>3, <3>1
    <3>3. QED
      BY <1>1, <3>2
  <2>2. k + Len(m) <= Len(c)
    BY <1>1, <1>2, <1>3
  <2>3. QED
    BY <1>1, <1>3, <2>1, <2>2 DEF HoldsAt, S
<1>6. HoldsAt(d, Len(other) + k, m)
  <2>1. ASSUME NEW i \in 1 .. Len(m) PROVE d[(Len(other) + k) + i] = m[i]
    <3>1. /\ (Len(other) + k) + i \in 1 .. Len(other) + Len(b)
          /\ ~((Len(other) + k) + i <= Len(other))
          /\ ((Len(other) + k) + i) - Len(other) = k + i
      BY <1>1, <1>2
    <3>2. d[(Len(other) + k) + i] = b[k + i]
      BY <1>4, <3>1
    <3>3. QED
      BY <1>1, <3>2
  <2>2. (Len(other) + k) + Len(m) <= Len(d) /\ Len(other) + k \in Nat
    BY <1>1, <1>2, <1>4
  <2>3. QED
    BY <1>1, <1>4, <2>1, <2>2 DEF HoldsAt, S
<1>7. QED
  BY <1>5, <1>6, Zenon DEF c, d

\* Bytes hold themselves; two in a row hold the first and the second.
LEMMA HeldInARow ==
  ASSUME NEW a \in Seq(Encodings!Byte), NEW b \in Seq(Encodings!Byte)
  PROVE  /\ a \o b \in Seq(Encodings!Byte) /\ Len(a \o b) = Len(a) + Len(b)
         /\ HoldsAt(a, 0, a) /\ HoldsAt(a \o b, 0, a) /\ HoldsAt(a \o b, Len(a), b)
<1>1. HoldsAt(a, 0, a) /\ HoldsAt(b, 0, b)
  <2>1. ASSUME NEW s \in Seq(Encodings!Byte) PROVE HoldsAt(s, 0, s)
    <3>1. Len(s) \in Nat
      OBVIOUS
    <3>2. 0 \in Nat /\ 0 + Len(s) <= Len(s) /\ \A i \in 1 .. Len(s) : 0 + i = i
      BY <3>1
    <3>3. QED
      BY <3>2 DEF HoldsAt
  <2>2. QED
    BY <2>1
<1>2. HoldsAt(a \o b, 0, a)
  BY <1>1, HeldBetween
<1>3. HoldsAt(a \o b, Len(a) + 0, b)
  BY <1>1, HeldBetween
<1>4. Len(a) + 0 = Len(a)
  OBVIOUS
<1>5. a \o b \in Seq(Encodings!Byte) /\ Len(a \o b) = Len(a) + Len(b)
  BY ConcatProperties
<1>6. QED
  BY <1>1, <1>2, <1>3, <1>4, <1>5, Zenon

\* A coordinate is read back from its bytes.
LEMMA CoordinateReadBack ==
  ASSUME NEW v \in Encodings!Coordinate
  PROVE  /\ Encodings!fqBE(v) \in Seq(Encodings!Byte) /\ Len(Encodings!fqBE(v)) = PointWidth
         /\ Encodings!FromBytes(Encodings!fqBE(v)) = v
<1>1. PointWidth \in Nat /\ v \in 0 .. Encodings!Pow(Encodings!Base, PointWidth) - 1
  BY EncodingSizes DEF Encodings!Coordinate
<1>2. QED
  BY <1>1, BytesReadBack DEF Encodings!fqBE

\* A point of G1 is read back from its bytes.
LEMMA G1ReadBack ==
  ASSUME NEW p \in Encodings!G1Points
  PROVE  /\ Encodings!g1(p) \in Seq(Encodings!Byte) /\ Len(Encodings!g1(p)) = Encodings!G1Size
         /\ Encodings!HostG1(Encodings!g1(p)) = p
<1> DEFINE x == Encodings!fqBE(p[1])
           y == Encodings!fqBE(p[2])
           w == PointWidth
<1>1. p[1] \in Encodings!Coordinate /\ p[2] \in Encodings!Coordinate /\ p = <<p[1], p[2]>>
  BY DEF Encodings!G1Points
<1>2. /\ x \in Seq(Encodings!Byte) /\ Len(x) = w /\ Encodings!FromBytes(x) = p[1]
      /\ y \in Seq(Encodings!Byte) /\ Len(y) = w /\ Encodings!FromBytes(y) = p[2]
  BY <1>1, CoordinateReadBack
<1>3. w \in Nat
  BY EncodingSizes
<1> HIDE DEF x, y, w
<1> DEFINE b == x \o y
<1>4. b \in Seq(Encodings!Byte) /\ Len(b) = w + w /\ HoldsAt(b, 0, x) /\ HoldsAt(b, w, y)
  <2>1. /\ b \in Seq(Encodings!Byte) /\ Len(b) = Len(x) + Len(y)
        /\ HoldsAt(b, 0, x) /\ HoldsAt(b, Len(x), y)
    BY <1>2, HeldInARow
  <2> HIDE DEF b
  <2>2. QED
    BY <1>2, <2>1, Zenon
<1> HIDE DEF b
<1>5. Encodings!Take(b, 0, w) = x /\ Encodings!Take(b, w, w) = y
  <2>1. Encodings!Take(b, 0, Len(x)) = x /\ Encodings!Take(b, w, Len(y)) = y
    BY <1>4, HeldTaken
  <2>2. QED
    BY <1>2, <2>1, Zenon
<1>6. Encodings!HostG1(b) = p
  <2>1. Encodings!HostG1(b) = << Encodings!FromBytes(Encodings!Take(b, 0, w)),
                                 Encodings!FromBytes(Encodings!Take(b, w, w)) >>
    BY Zenon DEF Encodings!HostG1, w
  <2>2. Encodings!HostG1(b) = <<p[1], p[2]>>
    BY <1>2, <1>5, <2>1, Zenon
  <2>3. QED
    BY <1>1, <2>2, Zenon
<1>7. Encodings!G1Size = w + w
  BY <1>3 DEF Encodings!G1Size, w
<1>8. b = Encodings!g1(p)
  BY Zenon DEF Encodings!g1, b, x, y
<1>9. QED
  BY <1>4, <1>6, <1>7, <1>8, Zenon

\* A point of G2 is read back, with its coefficients in their order.
LEMMA G2ReadBack ==
  ASSUME NEW p \in Encodings!G2Points
  PROVE  /\ Encodings!g2(p) \in Seq(Encodings!Byte) /\ Len(Encodings!g2(p)) = Encodings!G2Size
         /\ Encodings!HostG2(Encodings!g2(p)) = p
<1> DEFINE x1 == Encodings!fqBE(p[1][2])
           x0 == Encodings!fqBE(p[1][1])
           y1 == Encodings!fqBE(p[2][2])
           y0 == Encodings!fqBE(p[2][1])
           w == PointWidth
           S == Encodings!Byte
<1>1. /\ p[1][1] \in Encodings!Coordinate /\ p[1][2] \in Encodings!Coordinate
      /\ p[2][1] \in Encodings!Coordinate /\ p[2][2] \in Encodings!Coordinate
      /\ p = <<p[1], p[2]>> /\ p[1] = <<p[1][1], p[1][2]>> /\ p[2] = <<p[2][1], p[2][2]>>
  BY DEF Encodings!G2Points, Encodings!G1Points
<1>2. /\ x1 \in Seq(S) /\ Len(x1) = w /\ Encodings!FromBytes(x1) = p[1][2]
      /\ x0 \in Seq(S) /\ Len(x0) = w /\ Encodings!FromBytes(x0) = p[1][1]
      /\ y1 \in Seq(S) /\ Len(y1) = w /\ Encodings!FromBytes(y1) = p[2][2]
      /\ y0 \in Seq(S) /\ Len(y0) = w /\ Encodings!FromBytes(y0) = p[2][1]
  BY <1>1, CoordinateReadBack
<1>3. w \in Nat
  BY EncodingSizes
<1> HIDE DEF x1, x0, y1, y0, w, S
<1> DEFINE xs == x1 \o x0
           xys == xs \o y1
           b == xys \o y0
<1>4. xs \in Seq(S) /\ Len(xs) = w + w /\ HoldsAt(xs, 0, x1) /\ HoldsAt(xs, w, x0)
  <2>1. /\ xs \in Seq(S) /\ Len(xs) = Len(x1) + Len(x0)
        /\ HoldsAt(xs, 0, x1) /\ HoldsAt(xs, Len(x1), x0)
    BY <1>2, HeldInARow DEF S
  <2> HIDE DEF xs
  <2>2. QED
    BY <1>2, <2>1, Zenon
<1> HIDE DEF xs
<1>5. /\ xys \in Seq(S) /\ Len(xys) = w + w + w
      /\ HoldsAt(xys, 0, x1) /\ HoldsAt(xys, w, x0) /\ HoldsAt(xys, w + w, y1)
  <2>1. xys \in Seq(S) /\ Len(xys) = Len(xs) + Len(y1) /\ HoldsAt(xys, Len(xs), y1)
    BY <1>2, <1>4, HeldInARow DEF S
  <2>2. HoldsAt(xys, 0, x1) /\ HoldsAt(xys, w, x0)
    BY <1>2, <1>4, HeldBetween DEF S
  <2> HIDE DEF xys
  <2>3. QED
    BY <1>2, <1>4, <2>1, <2>2, Zenon
<1> HIDE DEF xys
<1>6. /\ b \in Seq(S) /\ Len(b) = w + w + w + w
      /\ HoldsAt(b, 0, x1) /\ HoldsAt(b, w, x0) /\ HoldsAt(b, w + w, y1)
      /\ HoldsAt(b, w + w + w, y0)
  <2>1. b \in Seq(S) /\ Len(b) = Len(xys) + Len(y0) /\ HoldsAt(b, Len(xys), y0)
    BY <1>2, <1>5, HeldInARow DEF S
  <2>2. HoldsAt(b, 0, x1) /\ HoldsAt(b, w, x0) /\ HoldsAt(b, w + w, y1)
    BY <1>2, <1>5, HeldBetween DEF S
  <2> HIDE DEF b
  <2>3. QED
    BY <1>2, <1>5, <2>1, <2>2, Zenon
<1> HIDE DEF b
<1>7. /\ Encodings!Take(b, 0, w) = x1 /\ Encodings!Take(b, w, w) = x0
      /\ Encodings!Take(b, w + w, w) = y1 /\ Encodings!Take(b, w + w + w, w) = y0
  <2>1. /\ Encodings!Take(b, 0, Len(x1)) = x1 /\ Encodings!Take(b, w, Len(x0)) = x0
        /\ Encodings!Take(b, w + w, Len(y1)) = y1
        /\ Encodings!Take(b, w + w + w, Len(y0)) = y0
    BY <1>6, HeldTaken
  <2>2. QED
    BY <1>2, <2>1, Zenon
<1>8. 0 * w = 0 /\ 1 * w = w /\ 2 * w = w + w /\ 3 * w = w + w + w /\ 4 * w = w + w + w + w
  BY <1>3
<1>9. Encodings!HostG2(b) = p
  <2> DEFINE at(k) == Encodings!FromBytes(Encodings!Take(b, k * w, w))
  <2>1. Encodings!HostG2(b) = << <<at(1), at(0)>>, <<at(3), at(2)>> >>
    BY Zenon DEF Encodings!HostG2, w
  <2>2. at(0) = p[1][2] /\ at(1) = p[1][1] /\ at(2) = p[2][2] /\ at(3) = p[2][1]
    BY <1>2, <1>7, <1>8, Zenon
  <2> HIDE DEF at
  <2>3. Encodings!HostG2(b) = << <<p[1][1], p[1][2]>>, <<p[2][1], p[2][2]>> >>
    BY <2>1, <2>2, Zenon
  <2>4. QED
    BY <1>1, <2>3, Zenon
<1>10. Encodings!G2Size = w + w + w + w
  BY <1>8, Zenon DEF Encodings!G2Size, w
<1>11. b = Encodings!g2(p)
  BY Zenon DEF Encodings!g2, b, xys, xs, x1, x0, y1, y0
<1>12. QED
  BY <1>6, <1>9, <1>10, <1>11, Zenon DEF S

\* A proof is read back from its hex.
LEMMA ProofReadBack ==
  ASSUME NEW p \in [a : Encodings!G1Points, b : Encodings!G2Points, c : Encodings!G1Points]
  PROVE  Encodings!ProofFromBytes(Encodings!HexToBytes(Encodings!proofToHex(p))) = p
<1> DEFINE S == Encodings!Byte
           s == Encodings!G1Size
           t == Encodings!G2Size
           a == Encodings!g1(p.a)
           m == Encodings!g2(p.b)
           z == Encodings!g1(p.c)
           am == a \o m
           b == am \o z
<1>1. /\ a \in Seq(S) /\ Len(a) = s /\ Encodings!HostG1(a) = p.a
      /\ z \in Seq(S) /\ Len(z) = s /\ Encodings!HostG1(z) = p.c
  BY G1ReadBack
<1>2. m \in Seq(S) /\ Len(m) = t /\ Encodings!HostG2(m) = p.b
  BY G2ReadBack
<1> HIDE DEF a, m, z, S, s, t
<1>3. am \in Seq(S) /\ Len(am) = s + t /\ HoldsAt(am, 0, a) /\ HoldsAt(am, s, m)
  <2>1. /\ am \in Seq(S) /\ Len(am) = Len(a) + Len(m)
        /\ HoldsAt(am, 0, a) /\ HoldsAt(am, Len(a), m)
    BY <1>1, <1>2, HeldInARow DEF S
  <2> HIDE DEF am
  <2>2. QED
    BY <1>1, <1>2, <2>1, Zenon
<1> HIDE DEF am
<1>4. /\ b \in Seq(S)
      /\ HoldsAt(b, 0, a) /\ HoldsAt(b, s, m) /\ HoldsAt(b, s + t, z)
  <2>1. b \in Seq(S) /\ HoldsAt(b, Len(am), z)
    BY <1>1, <1>3, HeldInARow DEF S
  <2>2. HoldsAt(b, 0, a) /\ HoldsAt(b, s, m)
    BY <1>1, <1>3, HeldBetween DEF S
  <2> HIDE DEF b
  <2>3. QED
    BY <1>3, <2>1, <2>2, Zenon
<1> HIDE DEF b
<1>5. /\ Encodings!Take(b, 0, s) = a /\ Encodings!Take(b, s, t) = m
      /\ Encodings!Take(b, s + t, s) = z
  <2>1. /\ Encodings!Take(b, 0, Len(a)) = a /\ Encodings!Take(b, s, Len(m)) = m
        /\ Encodings!Take(b, s + t, Len(z)) = z
    BY <1>4, HeldTaken
  <2>2. QED
    BY <1>1, <1>2, <2>1, Zenon
<1>6. Encodings!ProofFromBytes(b) = [a |-> p.a, b |-> p.b, c |-> p.c]
  <2>1. Encodings!ProofFromBytes(b)
          = [a |-> Encodings!HostG1(Encodings!Take(b, 0, s)),
             b |-> Encodings!HostG2(Encodings!Take(b, s, t)),
             c |-> Encodings!HostG1(Encodings!Take(b, s + t, s))]
    BY Zenon DEF Encodings!ProofFromBytes, s, t
  <2>2. QED
    BY <1>1, <1>2, <1>5, <2>1, Zenon
<1>7. p = [a |-> p.a, b |-> p.b, c |-> p.c]
  OBVIOUS
<1>8. Encodings!HexToBytes(Encodings!ToHex(b)) = b
  BY <1>4, HexReadBack DEF S
<1>9. Encodings!proofToHex(p) = Encodings!ToHex(b)
  BY Zenon DEF Encodings!proofToHex, b, am, a, m, z
<1>10. QED
  BY <1>6, <1>7, <1>8, <1>9, Zenon

\* How many they are, and then sequences of one length, behind other bytes.
Counted(front, parts) ==
  (front \o Encodings!ToBytes(Len(parts), LenWidth)) \o Encodings!FlattenSeq(parts)

\* How many, and each of them, is read back; what is in front stays.
CountedIsRead(b, front, parts, w) ==
  /\ b \in Seq(Encodings!Byte)
  /\ Encodings!FromBytes(Encodings!Take(b, Len(front), LenWidth)) = Len(parts)
  /\ \A i \in 1 .. Len(parts) :
       Encodings!Take(b, Len(front) + LenWidth + (i - 1) * w, w) = parts[i]
  /\ \A k, m : HoldsAt(front, k, m) => HoldsAt(b, k, m)

\* Counted bytes are read back.
LEMMA CountedReadBack ==
  ASSUME NEW front \in Seq(Encodings!Byte), NEW w \in Nat, NEW parts,
         OfLength(parts, w, Encodings!Byte),
         Len(parts) < Encodings!Pow(Encodings!Base, LenWidth)
  PROVE  CountedIsRead(Counted(front, parts), front, parts, w)
<1> DEFINE S == Encodings!Byte
           n == Len(parts)
           count == Encodings!ToBytes(n, LenWidth)
           flat == Encodings!FlattenSeq(parts)
           head == front \o count
           b == head \o flat
<1>1. /\ n \in Nat /\ parts \in Seq(Seq(S)) /\ \A i \in 1 .. n : parts[i] \in Seq(S) /\ Len(parts[i]) = w
  BY DEF OfLength
<1>2. LenWidth \in Nat /\ Encodings!Pow(Encodings!Base, LenWidth) \in Nat
  BY EncodingSizes, PowRule
<1>3. n \in 0 .. Encodings!Pow(Encodings!Base, LenWidth) - 1
  BY <1>1, <1>2
<1>4. count \in Seq(S) /\ Len(count) = LenWidth /\ Encodings!FromBytes(count) = n
  <2> HIDE DEF n
  <2>1. QED
    BY <1>2, <1>3, BytesReadBack
<1>5. /\ flat \in Seq(S) /\ Len(flat) = n * w
      /\ \A i \in 1 .. n, j \in 1 .. w : flat[(i - 1) * w + j] = parts[i][j]
  <2>1. OneAfterAnother(flat, parts, w, S)
    BY Flattened
  <2>2. QED
    BY <2>1, Zenon DEF OneAfterAnother, n
<1> HIDE DEF S, n, count, flat
<1>6. ASSUME NEW i \in 1 .. n PROVE HoldsAt(flat, (i - 1) * w, parts[i])
  <2>1. /\ (i - 1) * w \in Nat /\ i * w = (i - 1) * w + w /\ n * w \in Nat
        /\ i - 1 \in Nat /\ i \in Int
    <3>1. i - 1 \in Nat
      BY <1>1
    <3>2. PICK j \in Nat : j = i - 1
      BY <3>1
    <3>3. j * w \in Nat /\ (j + 1) * w = j * w + w /\ n * w \in Nat /\ j + 1 = i
      BY <1>1, <3>2
    <3>4. QED
      BY <3>1, <3>2, <3>3
  <2>2. i * w <= n * w
    <3>1. CASE w = 0
      BY <1>1, <3>1
    <3>2. CASE w # 0
      <4>1. w \in Nat \ {0} /\ i <= n /\ n \in Int
        BY <1>1, <3>2
      <4>2. w * i <= w * n
        BY <2>1, <4>1, Multiples
      <4>3. w * i = i * w /\ w * n = n * w
        BY <1>1
      <4>4. QED
        BY <4>2, <4>3, Zenon
    <3>3. QED
      BY <3>1, <3>2
  <2>3. Len(parts[i]) = w /\ parts[i] \in Seq(S)
    BY <1>1
  <2> DEFINE k == (i - 1) * w
  <2>4. k + Len(parts[i]) <= Len(flat)
    <3>1. k + w <= n * w
      BY <2>1, <2>2, Zenon
    <3>2. QED
      BY <1>5, <2>3, <3>1, Zenon
  <2>5. \A j \in 1 .. Len(parts[i]) : flat[k + j] = parts[i][j]
    BY <1>5, <2>3, Zenon
  <2>6. k \in Nat
    BY <2>1
  <2> HIDE DEF k
  <2>7. HoldsAt(flat, k, parts[i])
    BY <1>5, <2>3, <2>4, <2>5, <2>6, Zenon DEF HoldsAt, S
  <2>8. QED
    BY <2>7 DEF k
<1>7. /\ head \in Seq(S) /\ Len(head) = Len(front) + LenWidth
      /\ HoldsAt(head, Len(front), count)
  <2>1. /\ head \in Seq(S) /\ Len(head) = Len(front) + Len(count)
        /\ HoldsAt(head, Len(front), count)
    BY <1>4, HeldInARow DEF S
  <2> HIDE DEF head
  <2>2. QED
    BY <1>4, <2>1, Zenon
<1>8. ASSUME NEW k, NEW m, HoldsAt(front, k, m) PROVE HoldsAt(head, k, m)
  BY <1>4, <1>8, HeldBetween DEF S
<1> HIDE DEF head
<1>9. b \in Seq(S)
  BY <1>5, <1>7, HeldInARow DEF S
<1>10. \A k, m : HoldsAt(head, k, m) => HoldsAt(b, k, m)
  BY <1>5, HeldBetween DEF S
<1>11. ASSUME NEW i \in 1 .. n
       PROVE  Encodings!Take(b, Len(front) + LenWidth + (i - 1) * w, w) = parts[i]
  <2>1. HoldsAt(b, Len(head) + (i - 1) * w, parts[i])
    BY <1>6, <1>7, HeldBetween DEF S
  <2> DEFINE k == (i - 1) * w
  <2> HIDE DEF b, k
  <2>2. HoldsAt(b, Len(front) + LenWidth + k, parts[i])
    BY <1>7, <2>1, Zenon DEF k
  <2>3. Encodings!Take(b, Len(front) + LenWidth + k, Len(parts[i])) = parts[i]
    BY <2>2, HeldTaken
  <2>4. Len(parts[i]) = w
    BY <1>1
  <2>5. QED
    BY <2>3, <2>4, Zenon DEF k
<1>12. Encodings!FromBytes(Encodings!Take(b, Len(front), LenWidth)) = n
  <2> HIDE DEF b
  <2>1. HoldsAt(b, Len(front), count)
    BY <1>7, <1>10, Zenon
  <2>2. Encodings!Take(b, Len(front), Len(count)) = count
    BY <2>1, HeldTaken
  <2>3. QED
    BY <1>4, <2>2, Zenon
<1>13. b = Counted(front, parts)
  BY Zenon DEF Counted, b, head, count, flat, n
<1> HIDE DEF b
<1>14. CountedIsRead(b, front, parts, w)
  BY <1>8, <1>9, <1>10, <1>11, <1>12, Zenon DEF CountedIsRead, S, n
<1>15. QED
  BY <1>13, <1>14, Zenon

\* Signals are read back from their hex.
LEMMA SignalsReadBack ==
  ASSUME NEW signals \in Seq(Encodings!Field),
         Len(signals) < Encodings!Pow(Encodings!Base, LenWidth)
  PROVE  Encodings!SignalsFromBytes(
           Encodings!HexToBytes(Encodings!publicSignalsToHex(signals))) = signals
<1> DEFINE S == Encodings!Byte
           n == Len(signals)
           parts == [i \in DOMAIN signals |-> Encodings!ToBytes(signals[i], Width)]
           none == << >>
           b == Counted(none, parts)
<1>1. /\ n \in Nat /\ DOMAIN signals = 1 .. n /\ Width \in Nat /\ LenWidth \in Nat
      /\ FieldOrder \in Nat \ {0} /\ Encodings!Field = 0 .. FieldOrder - 1
      /\ FieldOrder <= Encodings!Pow(Encodings!Base, Width)
      /\ Encodings!Pow(Encodings!Base, Width) \in Nat
  BY EncodingSizes, PowRule
<1>2. \A i \in 1 .. n : signals[i] \in 0 .. FieldOrder - 1
  BY <1>1
<1>3. ASSUME NEW i \in 1 .. n
      PROVE  /\ parts[i] \in Seq(S) /\ Len(parts[i]) = Width
             /\ Encodings!FrFromBytes(parts[i]) = signals[i]
  <2> DEFINE v == signals[i]
  <2>1. v \in 0 .. FieldOrder - 1
    BY <1>2
  <2>2. parts[i] = Encodings!ToBytes(v, Width)
    BY <1>1
  <2> HIDE DEF v, parts
  <2>3. v \in 0 .. Encodings!Pow(Encodings!Base, Width) - 1
    BY <1>1, <2>1
  <2>4. /\ Encodings!ToBytes(v, Width) \in Seq(S) /\ Len(Encodings!ToBytes(v, Width)) = Width
        /\ Encodings!FromBytes(Encodings!ToBytes(v, Width)) = v
    BY <1>1, <2>3, BytesReadBack
  <2>5. v % FieldOrder = v
    <3>1. FieldOrder \in Nat /\ v \in Nat /\ v < FieldOrder
      BY <1>1, <2>1
    <3>2. QED
      BY ONLY <3>1, SmallRemainder
  <2>6. Encodings!FrFromBytes(parts[i]) = v
    BY <2>2, <2>4, <2>5, Zenon DEF Encodings!FrFromBytes
  <2>7. QED
    BY <2>2, <2>4, <2>6, Zenon DEF v
<1>4. parts = [i \in 1 .. n |-> parts[i]]
  BY <1>1
<1>5. Encodings!publicSignalsToHex(signals)
        = Encodings!ToHex(Encodings!ToBytes(n, LenWidth) \o Encodings!FlattenSeq(parts))
  BY Zenon DEF Encodings!publicSignalsToHex
<1> HIDE DEF parts, S
<1>6. parts \in Seq(Seq(S)) /\ Len(parts) = n
  <2>1. parts \in [1 .. n -> Seq(S)]
    BY <1>3, <1>4
  <2>2. n \in Nat
    BY <1>1
  <2> HIDE DEF n
  <2>3. QED
    BY <2>1, <2>2
<1>7. OfLength(parts, Width, S)
  BY <1>3, <1>6, Zenon DEF OfLength
<1>8. none \in Seq(S) /\ Len(none) = 0
  BY EmptySeq
<1> HIDE DEF none
<1>9. CountedIsRead(b, none, parts, Width)
  <2>1. Len(parts) < Encodings!Pow(Encodings!Base, LenWidth)
    BY <1>6
  <2> HIDE DEF b
  <2>2. CountedIsRead(Counted(none, parts), none, parts, Width)
    BY <1>1, <1>7, <1>8, <2>1, CountedReadBack DEF S
  <2>3. QED
    BY <2>2 DEF b
<1>10. b = Encodings!ToBytes(n, LenWidth) \o Encodings!FlattenSeq(parts)
  <2> DEFINE count == Encodings!ToBytes(n, LenWidth)
  <2>1. n \in 0 .. Encodings!Pow(Encodings!Base, LenWidth) - 1
    <3>1. Encodings!Pow(Encodings!Base, LenWidth) \in Nat
      BY EncodingSizes, PowRule
    <3>2. n < Encodings!Pow(Encodings!Base, LenWidth)
      OBVIOUS
    <3> HIDE DEF n
    <3>3. QED
      BY <1>1, <3>1, <3>2
  <2>2. count \in Seq(S)
    <3> HIDE DEF n
    <3>1. QED
      BY <1>1, <2>1, BytesReadBack DEF S
  <2> HIDE DEF count
  <2>3. none \o count = count
    BY <2>2, ConcatEmptySeq DEF none
  <2>4. b = (none \o count) \o Encodings!FlattenSeq(parts)
    BY <1>6, Zenon DEF b, Counted, count
  <2>5. QED
    BY <2>3, <2>4, Zenon DEF count
<1> HIDE DEF b
<1>11. /\ b \in Seq(S)
       /\ Encodings!FromBytes(Encodings!Take(b, 0, LenWidth)) = n
       /\ \A i \in 1 .. n : Encodings!Take(b, 0 + LenWidth + (i - 1) * Width, Width) = parts[i]
  BY <1>6, <1>8, <1>9, Zenon DEF CountedIsRead, S
<1>12. Encodings!SignalsFromBytes(b) = signals
  <2>1. 0 + LenWidth = LenWidth
    BY <1>1
  <2>2. \A i \in 1 .. n :
          Encodings!FrFromBytes(Encodings!Take(b, LenWidth + (i - 1) * Width, Width)) = signals[i]
    BY <1>3, <1>11, <2>1, Zenon
  <2>3. Encodings!SignalsFromBytes(b)
          = [i \in 1 .. n |->
               Encodings!FrFromBytes(Encodings!Take(b, LenWidth + (i - 1) * Width, Width))]
    BY <1>11, Zenon DEF Encodings!SignalsFromBytes
  <2> DEFINE g(i) == Encodings!FrFromBytes(Encodings!Take(b, LenWidth + (i - 1) * Width, Width))
  <2>4. signals = [i \in 1 .. n |-> signals[i]]
    BY <1>1
  <2> HIDE DEF g, n
  <2>5. (\A i \in 1 .. n : g(i) = signals[i]) => [i \in 1 .. n |-> g(i)] = [i \in 1 .. n |-> signals[i]]
    OBVIOUS
  <2>6. QED
    BY <2>2, <2>3, <2>4, <2>5, Zenon DEF g
<1>13. Encodings!HexToBytes(Encodings!ToHex(b)) = b
  BY <1>11, HexReadBack DEF S
<1>14. QED
  BY <1>5, <1>10, <1>12, <1>13, Zenon

KeyType ==
  [alpha : Encodings!G1Points, beta : Encodings!G2Points, gamma : Encodings!G2Points,
   delta : Encodings!G2Points, ic : Seq(Encodings!G1Points)]

\* A verification key is read back from its hex.
LEMMA KeyReadBack ==
  ASSUME NEW vk \in KeyType, Len(vk.ic) < Encodings!Pow(Encodings!Base, LenWidth)
  PROVE  Encodings!VkFromBytes(Encodings!HexToBytes(Encodings!vkToHex(vk))) = vk
<1> DEFINE S == Encodings!Byte
           s == Encodings!G1Size
           t == Encodings!G2Size
           alpha == Encodings!g1(vk.alpha)
           beta == Encodings!g2(vk.beta)
           gamma == Encodings!g2(vk.gamma)
           delta == Encodings!g2(vk.delta)
           ab == alpha \o beta
           abc == ab \o gamma
           front == abc \o delta
           ic == vk.ic
           n == Len(ic)
           parts == [i \in DOMAIN ic |-> Encodings!g1(ic[i])]
           b == Counted(front, parts)
<1>0. /\ vk.alpha \in Encodings!G1Points /\ vk.beta \in Encodings!G2Points
      /\ vk.gamma \in Encodings!G2Points /\ vk.delta \in Encodings!G2Points
      /\ ic \in Seq(Encodings!G1Points)
      /\ vk = [alpha |-> vk.alpha, beta |-> vk.beta, gamma |-> vk.gamma,
               delta |-> vk.delta, ic |-> ic]
  BY DEF KeyType
<1>1. /\ alpha \in Seq(S) /\ Len(alpha) = s /\ Encodings!HostG1(alpha) = vk.alpha
      /\ beta \in Seq(S) /\ Len(beta) = t /\ Encodings!HostG2(beta) = vk.beta
      /\ gamma \in Seq(S) /\ Len(gamma) = t /\ Encodings!HostG2(gamma) = vk.gamma
      /\ delta \in Seq(S) /\ Len(delta) = t /\ Encodings!HostG2(delta) = vk.delta
  BY <1>0, G1ReadBack, G2ReadBack
<1>2. /\ n \in Nat /\ DOMAIN ic = 1 .. n /\ PointWidth \in Nat /\ LenWidth \in Nat
      /\ \A i \in 1 .. n : ic[i] \in Encodings!G1Points
  BY <1>0, EncodingSizes
<1>3. s \in Nat /\ t \in Nat
  BY <1>2 DEF Encodings!G1Size, Encodings!G2Size
<1>4. ASSUME NEW i \in 1 .. n
      PROVE  /\ parts[i] \in Seq(S) /\ Len(parts[i]) = s
             /\ Encodings!HostG1(parts[i]) = ic[i]
  <2>1. parts[i] = Encodings!g1(ic[i]) /\ ic[i] \in Encodings!G1Points
    BY <1>2
  <2> HIDE DEF parts, ic
  <2>2. /\ Encodings!g1(ic[i]) \in Seq(S) /\ Len(Encodings!g1(ic[i])) = s
        /\ Encodings!HostG1(Encodings!g1(ic[i])) = ic[i]
    BY <2>1, G1ReadBack
  <2>3. QED
    BY <2>1, <2>2, Zenon
<1>5. parts = [i \in 1 .. n |-> parts[i]]
  BY <1>2
<1>6. Encodings!vkToHex(vk) = Encodings!ToHex(b)
  <2>1. Len(parts) = n
    BY <1>2, <1>5
  <2> HIDE DEF n
  <2>2. QED
    BY <2>1, Zenon DEF Encodings!vkToHex, Counted, n
<1> HIDE DEF parts, S, s, t, alpha, beta, gamma, delta
<1>7. parts \in Seq(Seq(S)) /\ Len(parts) = n
  <2>1. parts \in [1 .. n -> Seq(S)]
    BY <1>4, <1>5
  <2>2. QED
    BY <1>2, <2>1
<1>8. OfLength(parts, s, S)
  BY <1>4, <1>7, Zenon DEF OfLength
<1>9. ab \in Seq(S) /\ Len(ab) = s + t /\ HoldsAt(ab, 0, alpha) /\ HoldsAt(ab, s, beta)
  <2>1. /\ ab \in Seq(S) /\ Len(ab) = Len(alpha) + Len(beta)
        /\ HoldsAt(ab, 0, alpha) /\ HoldsAt(ab, Len(alpha), beta)
    BY <1>1, HeldInARow DEF S
  <2> HIDE DEF ab
  <2>2. QED
    BY <1>1, <2>1, Zenon
<1> HIDE DEF ab
<1>10. /\ abc \in Seq(S) /\ Len(abc) = (s + t) + t
       /\ HoldsAt(abc, 0, alpha) /\ HoldsAt(abc, s, beta) /\ HoldsAt(abc, s + t, gamma)
  <2>1. abc \in Seq(S) /\ Len(abc) = Len(ab) + Len(gamma) /\ HoldsAt(abc, Len(ab), gamma)
    BY <1>1, <1>9, HeldInARow DEF S
  <2>2. HoldsAt(abc, 0, alpha) /\ HoldsAt(abc, s, beta)
    BY <1>1, <1>9, HeldBetween DEF S
  <2> HIDE DEF abc
  <2>3. QED
    BY <1>1, <1>9, <2>1, <2>2, Zenon
<1> HIDE DEF abc
<1>11. /\ front \in Seq(S) /\ Len(front) = ((s + t) + t) + t
       /\ HoldsAt(front, 0, alpha) /\ HoldsAt(front, s, beta)
       /\ HoldsAt(front, s + t, gamma) /\ HoldsAt(front, (s + t) + t, delta)
  <2>1. front \in Seq(S) /\ Len(front) = Len(abc) + Len(delta) /\ HoldsAt(front, Len(abc), delta)
    BY <1>1, <1>10, HeldInARow DEF S
  <2>2. HoldsAt(front, 0, alpha) /\ HoldsAt(front, s, beta) /\ HoldsAt(front, s + t, gamma)
    BY <1>1, <1>10, HeldBetween DEF S
  <2> HIDE DEF front
  <2>3. QED
    BY <1>1, <1>10, <2>1, <2>2, Zenon
<1> HIDE DEF front
<1>12. CountedIsRead(b, front, parts, s)
  <2>1. Len(parts) < Encodings!Pow(Encodings!Base, LenWidth)
    BY <1>7
  <2> HIDE DEF b
  <2>2. CountedIsRead(Counted(front, parts), front, parts, s)
    BY <1>3, <1>8, <1>11, <2>1, CountedReadBack DEF S
  <2>3. QED
    BY <2>2 DEF b
<1> HIDE DEF b, n, ic
<1>13. /\ b \in Seq(S)
       /\ Encodings!FromBytes(Encodings!Take(b, Len(front), LenWidth)) = n
       /\ \A i \in 1 .. n : Encodings!Take(b, Len(front) + LenWidth + (i - 1) * s, s) = parts[i]
       /\ HoldsAt(b, 0, alpha) /\ HoldsAt(b, s, beta)
       /\ HoldsAt(b, s + t, gamma) /\ HoldsAt(b, (s + t) + t, delta)
  BY <1>7, <1>11, <1>12, Zenon DEF CountedIsRead, S
<1>14. /\ Encodings!Take(b, 0, s) = alpha /\ Encodings!Take(b, s, t) = beta
       /\ Encodings!Take(b, s + t, t) = gamma /\ Encodings!Take(b, (s + t) + t, t) = delta
  <2>1. /\ Encodings!Take(b, 0, Len(alpha)) = alpha /\ Encodings!Take(b, s, Len(beta)) = beta
        /\ Encodings!Take(b, s + t, Len(gamma)) = gamma
        /\ Encodings!Take(b, (s + t) + t, Len(delta)) = delta
    BY <1>13, HeldTaken
  <2>2. QED
    BY <1>1, <2>1, Zenon
<1>15. s + 2 * t = (s + t) + t /\ s + 3 * t = Len(front)
  BY <1>3, <1>11
<1> DEFINE ics == s + 3 * t
           icLen == Encodings!FromBytes(Encodings!Take(b, ics, LenWidth))
           g(i) == Encodings!HostG1(Encodings!Take(b, ics + LenWidth + (i - 1) * s, s))
<1>16. Encodings!VkFromBytes(b)
         = [alpha |-> Encodings!HostG1(Encodings!Take(b, 0, s)),
            beta |-> Encodings!HostG2(Encodings!Take(b, s, t)),
            gamma |-> Encodings!HostG2(Encodings!Take(b, s + t, t)),
            delta |-> Encodings!HostG2(Encodings!Take(b, s + 2 * t, t)),
            ic |-> [i \in 1 .. icLen |-> g(i)]]
  BY Zenon DEF Encodings!VkFromBytes, s, t
<1>17. icLen = n
  BY <1>13, <1>15, Zenon
<1>18. \A i \in 1 .. n : g(i) = ic[i]
  BY <1>4, <1>13, <1>15, Zenon
<1> HIDE DEF icLen, g
<1>19. [i \in 1 .. icLen |-> g(i)] = ic
  <2>1. ic = [i \in 1 .. n |-> ic[i]]
    BY <1>0, <1>2 DEF n
  <2>2. (\A i \in 1 .. n : g(i) = ic[i]) => [i \in 1 .. n |-> g(i)] = [i \in 1 .. n |-> ic[i]]
    OBVIOUS
  <2>3. QED
    BY <1>17, <1>18, <2>1, <2>2, Zenon
<1>20. Encodings!VkFromBytes(b) = vk
  <2>1. Encodings!VkFromBytes(b)
          = [alpha |-> vk.alpha, beta |-> vk.beta, gamma |-> vk.gamma,
             delta |-> vk.delta, ic |-> ic]
    BY <1>1, <1>14, <1>15, <1>16, <1>19, Zenon
  <2>2. QED
    BY <1>0, <2>1, Zenon
<1>21. Encodings!HexToBytes(Encodings!ToHex(b)) = b
  BY <1>13, HexReadBack DEF S
<1>22. QED
  BY <1>6, <1>20, <1>21, Zenon

-----------------------------------------------------------------------------
(* The transfer witness.                                                   *)

\* Amounts as field elements: one that is not negative is itself, a negative
\* one is more than the range check lets through.
LEMMA AmountsInTheField ==
  ASSUME Encodings!Sizes, NEW n \in -I128Max - 1 .. I128Max
  PROVE  /\ n >= 0 => Encodings!fieldMod(n) = n
         /\ n < 0 => /\ Encodings!fieldMod(n) = n + FieldOrder
                     /\ ~Encodings!InRange(n + FieldOrder)
<1>1. /\ FieldOrder \in Nat /\ I128Max \in Nat /\ RangeBound \in Nat
      /\ I128Max < RangeBound /\ 2 * RangeBound <= FieldOrder
  BY DEF Encodings!Sizes
<1>2. CASE n >= 0
  <2>1. n % FieldOrder = n
    BY <1>1, <1>2, SmallRemainder
  <2>2. QED
    BY <1>1, <1>2, <2>1 DEF Encodings!fieldMod, Encodings!JsRem
<1>3. CASE n < 0
  <2>1. -n \in Nat /\ -n < FieldOrder
    BY <1>1, <1>3
  <2>2. (-n) % FieldOrder = -n
    BY <1>1, <2>1, SmallRemainder
  <2>3. Encodings!JsRem(n, FieldOrder) = n
    BY <1>1, <1>3, <2>2 DEF Encodings!JsRem
  <2>4. Encodings!fieldMod(n) = n + FieldOrder
    BY <1>1, <1>3, <2>3 DEF Encodings!fieldMod
  <2>5. QED
    BY <1>1, <1>3, <2>4 DEF Encodings!InRange
<1>4. QED
  BY <1>1, <1>2, <1>3

\* What EncodingsAssumption says of a payment.
Payment(in) ==
  /\ in.note.value \in 0 .. I128Max
  /\ in.pay \in Int /\ in.pay >= -I128Max - 1
  /\ in.tree \in Seq(Encodings!Note)

\* What buildTransferWitness makes of a payment.
LEMMA WitnessIsProvable ==
  ASSUME Encodings!Sizes, NEW in, Payment(in),
         NEW out, out = Encodings!TransferWitness(in.note, in.tree, in.pay)
  PROVE  /\ (out = Encodings!Refused) <=>
              ~Encodings!Contains(in.tree, in.note) \/ in.pay > in.note.value
         /\ out # Encodings!Refused =>
              /\ Encodings!TransferCircuit(
                   Encodings!WitnessSignals(in.note, in.tree, out))
                   <=> in.pay >= 0
              /\ in.pay >= 0 => out.outValue0 <= I128Max /\ out.outValue1 <= I128Max
<1> DEFINE value == in.note.value
           pay == in.pay
           accepted == Encodings!Contains(in.tree, in.note) /\ pay <= value
           signals == Encodings!WitnessSignals(in.note, in.tree, out)
<1>1. /\ FieldOrder \in Nat /\ I128Max \in Nat /\ RangeBound \in Nat
      /\ I128Max < RangeBound /\ 2 * RangeBound <= FieldOrder
  BY DEF Encodings!Sizes
<1>2. value \in 0 .. I128Max /\ pay \in Int /\ pay >= -I128Max - 1
  BY DEF Payment
<1>3. CASE ~accepted
  <2>1. ~Encodings!Contains(in.tree, in.note) \/ value - pay < 0
    BY <1>1, <1>2, <1>3
  <2>2. out = Encodings!Refused
    BY <2>1 DEF Encodings!TransferWitness
  <2>3. QED
    BY <1>1, <1>2, <1>3, <2>2
<1>4. CASE accepted
  <2>1. out = [inValue |-> Encodings!fieldMod(value),
               outValue0 |-> Encodings!fieldMod(pay),
               outValue1 |-> Encodings!fieldMod(value - pay)]
    <3>1. ~(value - pay < 0)
      BY <1>1, <1>2, <1>4
    <3>2. QED
      BY <1>4, <3>1 DEF Encodings!TransferWitness
  <2>2. out # Encodings!Refused
    <3>1. "inValue" \in DOMAIN out
      BY <2>1
    <3>2. "inValue" \notin DOMAIN Encodings!Refused
      BY DEF Encodings!Refused
    <3>3. QED
      BY <3>1, <3>2
  <2>3. /\ signals.stateRoot = in.tree
        /\ signals.nullifierHash = in.note.nullifier
        /\ signals.out0.value = Encodings!fieldMod(pay)
        /\ signals.out1.value = Encodings!fieldMod(value - pay)
    BY <2>1 DEF Encodings!WitnessSignals
  <2>4. in.note \in Encodings!Leaves(in.tree)
    <3>1. PICK i \in 1 .. Len(in.tree) : in.tree[i] = in.note
      BY <1>4 DEF Encodings!Contains
    <3>2. DOMAIN in.tree = 1 .. Len(in.tree)
      BY DEF Payment
    <3>3. QED
      BY <3>1, <3>2 DEF Encodings!Leaves
  <2>5. CASE pay >= 0
    <3>1. Encodings!fieldMod(pay) = pay
      BY <1>1, <1>2, <1>4, <2>5, AmountsInTheField
    <3>2. value - pay \in 0 .. I128Max /\ value - pay \in -I128Max - 1 .. I128Max
      BY <1>1, <1>2, <1>4, <2>5
    <3>3. Encodings!fieldMod(value - pay) = value - pay
      BY <3>2, AmountsInTheField
    <3>4. /\ value = Encodings!FieldAdd(pay, value - pay)
          /\ Encodings!InRange(pay) /\ Encodings!InRange(value - pay)
      BY <1>1, <1>2, <2>5, <3>2 DEF Encodings!FieldAdd, Encodings!InRange
    <3>5. Encodings!TransferCircuit(signals)
      BY <2>3, <2>4, <3>1, <3>3, <3>4 DEF Encodings!TransferCircuit
    <3>6. out.outValue0 <= I128Max /\ out.outValue1 <= I128Max
      BY <1>1, <1>2, <2>1, <3>1, <3>2, <3>3
    <3>7. QED
      BY <1>1, <1>2, <1>4, <2>2, <2>5, <3>5, <3>6
  <2>6. CASE pay < 0
    <3>1. ~Encodings!InRange(signals.out0.value)
      BY <1>1, <1>2, <2>3, <2>6, AmountsInTheField
    <3>2. ~Encodings!TransferCircuit(signals)
      BY <3>1 DEF Encodings!TransferCircuit
    <3>3. QED
      BY <1>1, <1>2, <1>4, <2>2, <2>6, <3>2
  <2>7. QED
    BY <1>1, <1>2, <2>5, <2>6
<1>5. QED
  BY <1>3, <1>4

\* What is known of an input of each kind.
LEMMA InputsOfEachKind ==
  ASSUME NEW in \in Inputs
  PROVE  /\ in.kind = "scalar" => in.x \in Int
         /\ in.kind = "bytes" => in.bytes \in [1 .. Width -> Encodings!Byte]
         /\ in.kind = "key" => in.key \in KeyType
         /\ in.kind = "proof" =>
              in.proof \in [a : Encodings!G1Points, b : Encodings!G2Points,
                            c : Encodings!G1Points]
         /\ in.kind = "signals" => in.signals \in Seq(Encodings!Field)
         /\ in.kind = "amount" => in.units \in Nat
         /\ in.kind = "typed" => in.text.whole \in Nat /\ in.text.frac \in Seq(0 .. Ten - 1)
         /\ in.kind = "payment" => Payment(in)
<1> DEFINE Points == [a : Encodings!G1Points, b : Encodings!G2Points, c : Encodings!G1Points]
           Texts == [whole : Nat, frac : Seq(0 .. Ten - 1)]
           Bytes == [1 .. Width -> Encodings!Byte]
           Notes == [nullifier : Nullifiers, value : 0 .. I128Max]
           Pays == {p \in Int : p >= -I128Max - 1}
           Trees == Seq(Encodings!Note)
           Signals == Seq(Encodings!Field)
           Elements == Seq(Int)
<1>1. \/ in \in [kind : {"scalar"}, x : Int]
      \/ in \in [kind : {"bytes"}, bytes : Bytes]
      \/ in \in [kind : {"hash"}, elements : Elements]
      \/ in \in [kind : {"key"}, key : KeyType]
      \/ in \in [kind : {"proof"}, proof : Points]
      \/ in \in [kind : {"signals"}, signals : Signals]
      \/ in \in [kind : {"amount"}, units : Nat]
      \/ in \in [kind : {"typed"}, text : Texts]
      \/ in \in [kind : {"payment"}, tree : Trees, pay : Pays, note : Notes]
  BY LibraryAssumption DEF Encodings!EncodingsAssumption, Encodings!InputTypes, KeyType
<1> HIDE DEF Points, Texts, Bytes, Notes, Pays, Trees, Signals, Elements
<1>2. /\ in.kind = "scalar" => in.x \in Int
      /\ in.kind = "bytes" => in.bytes \in Bytes
      /\ in.kind = "key" => in.key \in KeyType
      /\ in.kind = "proof" => in.proof \in Points
  BY <1>1
<1>3. /\ in.kind = "signals" => in.signals \in Signals
      /\ in.kind = "amount" => in.units \in Nat
      /\ in.kind = "typed" => in.text \in Texts
      /\ in.kind = "payment" => in.tree \in Trees /\ in.pay \in Pays /\ in.note \in Notes
  BY <1>1
<1>4. in.text \in Texts => in.text.whole \in Nat /\ in.text.frac \in Seq(0 .. Ten - 1)
  BY DEF Texts
<1>5. in.tree \in Trees /\ in.pay \in Pays /\ in.note \in Notes => Payment(in)
  BY DEF Trees, Pays, Notes, Payment
<1>6. QED
  BY <1>2, <1>3, <1>4, <1>5 DEF Points, Bytes, Signals

-----------------------------------------------------------------------------
(* The association file, whose theorems are in AssociationFileProofs.      *)

FileProofs == INSTANCE AssociationFileProofs WITH None <- Nil

\* The definitions of the two instances are the same.
LEMMA SameFile ==
  /\ AssociationFile!AssociationAssumption <=> FileProofs!AssociationAssumption
  /\ AssociationFile!Init <=> FileProofs!Init
  /\ [AssociationFile!Next]_ofFile => [FileProofs!Next]_FileProofs!vars
  /\ FileProofs!TypeOK <=> AssociationFile!TypeOK
  /\ FileProofs!FileIsASet <=> AssociationFile!FileIsASet
  /\ FileProofs!LabelsAreKept <=> AssociationFile!LabelsAreKept
<1>1. FileProofs!Sets = AssociationFile!Sets
  BY DEF FileProofs!Sets, AssociationFile!Sets
<1>2. FileProofs!Parses <=> AssociationFile!Parses
  BY DEF FileProofs!Parses, AssociationFile!Parses
<1>3. /\ \A r, stage : FileProofs!At(r, stage) <=> AssociationFile!At(r, stage)
      /\ \A r : FileProofs!Midway(r) <=> AssociationFile!Midway(r)
      /\ \A s, e : FileProofs!Contains(s, e) <=> AssociationFile!Contains(s, e)
      /\ \A s : FileProofs!IsInjective(s) <=> AssociationFile!IsInjective(s)
  BY DEF FileProofs!At, AssociationFile!At, FileProofs!Midway,
         AssociationFile!Midway, FileProofs!Contains, AssociationFile!Contains,
         FileProofs!IsInjective, AssociationFile!IsInjective
<1>4. AssociationFile!AssociationAssumption <=> FileProofs!AssociationAssumption
  BY <1>1 DEF FileProofs!AssociationAssumption,
              AssociationFile!AssociationAssumption
<1>5. AssociationFile!Init <=> FileProofs!Init
  BY DEF FileProofs!Init, AssociationFile!Init, FileProofs!Waiting,
         AssociationFile!Waiting
<1>6. ASSUME NEW r \in Runs
      PROVE  /\ \A label : AssociationFile!Start(r, label) => FileProofs!Start(r, label)
             /\ AssociationFile!AlreadyThere(r) => FileProofs!AlreadyThere(r)
             /\ AssociationFile!Refuse(r) => FileProofs!Refuse(r)
             /\ AssociationFile!Create(r) => FileProofs!Create(r)
             /\ AssociationFile!WriteAll(r) => FileProofs!WriteAll(r)
             /\ AssociationFile!Kill(r) => FileProofs!Kill(r)
  <2>1. \A s, stage, set :
          AssociationFile!Goto(s, stage, set) <=> FileProofs!Goto(s, stage, set)
    BY DEF FileProofs!Goto, AssociationFile!Goto
  <2>2. /\ \A s : AssociationFile!Listed(s) <=> FileProofs!Listed(s)
        /\ \A set : AssociationFile!Full(set) <=> FileProofs!Full(set)
        /\ \A set, label :
             AssociationFile!Extended(set, label) = FileProofs!Extended(set, label)
    BY <1>3 DEF FileProofs!Listed, AssociationFile!Listed, FileProofs!Full,
                AssociationFile!Full, FileProofs!Extended, AssociationFile!Extended
  <2>3. \A label : AssociationFile!Start(r, label) => FileProofs!Start(r, label)
    BY <1>2, <1>3 DEF FileProofs!Start, AssociationFile!Start, FileProofs!NewSet,
                      AssociationFile!NewSet
  <2>4. QED
    BY <1>2, <1>3, <2>1, <2>2, <2>3
       DEF FileProofs!AlreadyThere, AssociationFile!AlreadyThere,
           FileProofs!Refuse, AssociationFile!Refuse, FileProofs!Create,
           AssociationFile!Create, FileProofs!WriteAll, AssociationFile!WriteAll,
           FileProofs!Kill, AssociationFile!Kill
<1>7. [AssociationFile!Next]_ofFile => [FileProofs!Next]_FileProofs!vars
  BY <1>6 DEF FileProofs!Next, AssociationFile!Next, FileProofs!vars, ofFile
<1>8. FileProofs!TypeOK <=> AssociationFile!TypeOK
  BY <1>1 DEF FileProofs!TypeOK, AssociationFile!TypeOK
<1>9. FileProofs!FileIsASet <=> AssociationFile!FileIsASet
  BY <1>2, <1>3 DEF FileProofs!FileIsASet, AssociationFile!FileIsASet
<1>10. FileProofs!LabelsAreKept <=> AssociationFile!LabelsAreKept
  BY <1>2, <1>3 DEF FileProofs!LabelsAreKept, AssociationFile!LabelsAreKept
<1>11. QED
  BY <1>4, <1>5, <1>7, <1>8, <1>9, <1>10

\* A behaviour about the file is one of AssociationFile, to its end.
LEMMA LibraryRunsFile ==
  LibrarySpec => []~(part = "file") \/ ([](part = "file") /\ FileProofs!Spec)
<1>1. LibraryInit => ~(part = "file") \/ FileProofs!Init
  BY SameFile DEF LibraryInit
<1>2. part = "file" /\ [LibraryNext]_libraryVars
        => (part = "file")' /\ [FileProofs!Next]_FileProofs!vars
  BY SameFile DEF LibraryNext, Only, libraryVars
<1>3. ~(part = "file") /\ [LibraryNext]_libraryVars => ~(part = "file")'
  BY DEF LibraryNext, Only, libraryVars
<1>4. QED
  BY <1>1, <1>2, <1>3, PTL DEF LibrarySpec, FileProofs!Spec

(***************************************************************************)
(* A file that can be read holds a set some run made, whatever runs        *)
(* overlap or are killed (update_association of noterail).                 *)
(***************************************************************************)
THEOREM LibraryFileIsASet == LibrarySpec => []FileIsASet
<1>1. FileProofs!AssociationAssumption
  BY LibraryAssumption, SameFile
<1>2. FileProofs!Spec => []FileProofs!TypeOK
  BY <1>1, FileProofs!AssociationFileTypeCorrect
<1>3. FileProofs!Spec => []FileProofs!FileIsASet
  BY <1>1, FileProofs!AssociationFileIsASet
<1>4. FileProofs!TypeOK /\ FileProofs!FileIsASet => FileIsASet
  BY SameFile DEF FileIsASet
<1>5. ~(part = "file") => FileIsASet
  BY DEF FileIsASet
<1>6. QED
  BY <1>2, <1>3, <1>4, <1>5, LibraryRunsFile, PTL

(***************************************************************************)
(* Runs that follow one another keep each other's labels, and none of them *)
(* leaves the file unreadable: only an overlap, or a kill while the file   *)
(* is written, does harm.                                                  *)
(***************************************************************************)
THEOREM LibraryLabelsAreKept == LibrarySpec => []LabelsAreKept
<1>1. FileProofs!AssociationAssumption
  BY LibraryAssumption, SameFile
<1>2. FileProofs!Spec => []FileProofs!LabelsAreKept
  BY <1>1, FileProofs!AssociationLabelsAreKept
<1>3. FileProofs!LabelsAreKept => LabelsAreKept
  BY SameFile DEF LabelsAreKept
<1>4. ~(part = "file") => LabelsAreKept
  BY DEF LabelsAreKept
<1>5. QED
  BY <1>2, <1>3, <1>4, LibraryRunsFile, PTL

-----------------------------------------------------------------------------
(* The conversions, in every behaviour.                                    *)

\* What a conversion is about, and has come to.
ConversionInv ==
  part = "encodings" =>
    /\ input \in Inputs
    /\ output = Nil \/ output = Encodings!Converted(input)

\* The state of a conversion, in every behaviour.
LEMMA LibraryConverts == LibrarySpec => []ConversionInv
<1>1. LibraryInit => ConversionInv
  BY DEF LibraryInit, ConversionInv, Encodings!Init
<1>2. ConversionInv /\ [LibraryNext]_libraryVars => ConversionInv'
  BY DEF LibraryNext, Only, libraryVars, ofEncodings, ConversionInv,
         Encodings!Next, Encodings!Convert
<1>3. QED
  BY <1>1, <1>2, PTL DEF LibrarySpec

(***************************************************************************)
(* Browser, circuits and contract mean the same by a number, whatever the  *)
(* field, the widths and the rounds: any integer comes back from hex, or   *)
(* from the contract, as its residue (toHex32, fr_from_bytes); an address, *)
(* random bytes and a scope make a field element, the recipient the one    *)
(* the contract computes (address_to_fr); and poseidon.ts has the rounds   *)
(* of poseidon255.circom in its order, for every input.                    *)
(***************************************************************************)
THEOREM LibraryLanguagesAgree == LibrarySpec => []LanguagesAgree
<1>1. ConversionInv => LanguagesAgree
  <2> SUFFICES ASSUME ConversionInv, part = "encodings"
               PROVE  Encodings!LanguagesAgree
    BY DEF LanguagesAgree
  <2>1. ASSUME Encodings!Done("scalar")
        PROVE  /\ Len(output) = 2 * Width
               /\ Encodings!fromHex(output) = input.x % FieldOrder
               /\ Encodings!FrFromBytes(Encodings!HexToBytes(output))
                    = input.x % FieldOrder
    <3>1. input \in Inputs /\ input.kind = "scalar" /\ output = Encodings!Converted(input)
      BY <2>1 DEF ConversionInv, Encodings!Done
    <3>2. output = Encodings!toHex32(input.x) /\ input.x \in Int
      BY <3>1, InputsOfEachKind DEF Encodings!Converted
    <3>3. QED
      BY <3>2, ScalarsAgree, Zenon
  <2>2. ASSUME Encodings!Done("bytes")
        PROVE  /\ \A x \in Encodings!ToSet(output) : x \in Encodings!Field
               /\ output[1] = Encodings!AddressToFr(input.bytes)
    <3> DEFINE a == Encodings!AddressToField(input.bytes)
               r == Encodings!RandomField(input.bytes)
               s == Encodings!ScopeToField(input.bytes)
    <3>1. input \in Inputs /\ input.kind = "bytes" /\ output = Encodings!Converted(input)
      BY <2>2 DEF ConversionInv, Encodings!Done
    <3>2. output = <<a, r, s>>
      BY <3>1, Zenon DEF Encodings!Converted
    <3>3. input.bytes \in [1 .. Width -> Encodings!Byte]
      BY <3>1, InputsOfEachKind
    <3>4. /\ a \in Encodings!Field /\ r \in Encodings!Field /\ s \in Encodings!Field
          /\ a = Encodings!AddressToFr(input.bytes)
      BY <3>3, BytesAgree, Zenon
    <3> HIDE DEF a, r, s
    <3>5. QED
      BY <3>2, <3>4 DEF Encodings!ToSet
  <2>3. ASSUME Encodings!Done("hash")
        PROVE  output = Encodings!HadesPhases(input.elements)
    <3>1. input.kind = "hash" /\ output = Encodings!Converted(input)
      BY <2>3 DEF ConversionInv, Encodings!Done
    <3>2. output = Encodings!poseidon(input.elements)
      BY <3>1, Zenon DEF Encodings!Converted
    <3>3. QED
      BY <3>2, HashesAgree, Zenon
  <2>4. QED
    BY <2>1, <2>2, <2>3 DEF Encodings!LanguagesAgree
<1>2. QED
  BY <1>1, LibraryConverts, PTL

(***************************************************************************)
(* The contract takes from the bytes of a key, a proof or the signals what *)
(* snarkjs printed (groth16.ts and libs/groth16), for keys and signals of  *)
(* any length that its prefix holds and coordinates of any width.          *)
(***************************************************************************)
THEOREM LibraryWireIsParsed == LibrarySpec => []WireIsParsed
<1>1. ConversionInv => WireIsParsed
  <2> SUFFICES ASSUME ConversionInv, part = "encodings"
               PROVE  Encodings!WireIsParsed
    BY DEF WireIsParsed
  <2>1. ASSUME Encodings!Done("key")
        PROVE  Encodings!VkFromBytes(Encodings!HexToBytes(output)) = input.key
    <3>1. input \in Inputs /\ input.kind = "key" /\ output = Encodings!Converted(input)
      BY <2>1 DEF ConversionInv, Encodings!Done
    <3>2. output = Encodings!vkToHex(input.key)
      BY <3>1, Zenon DEF Encodings!Converted
    <3>3. input.key \in KeyType
      BY <3>1, InputsOfEachKind
    <3>4. Len(input.key.ic) < Encodings!Pow(Encodings!Base, LenWidth)
      BY <3>1, LibraryAssumption, Zenon DEF Encodings!EncodingsAssumption
    <3>5. QED
      BY <3>2, <3>3, <3>4, KeyReadBack, Zenon
  <2>2. ASSUME Encodings!Done("proof")
        PROVE  Encodings!ProofFromBytes(Encodings!HexToBytes(output)) = input.proof
    <3>1. input \in Inputs /\ input.kind = "proof" /\ output = Encodings!Converted(input)
      BY <2>2 DEF ConversionInv, Encodings!Done
    <3>2. output = Encodings!proofToHex(input.proof)
      BY <3>1, Zenon DEF Encodings!Converted
    <3>3. input.proof \in [a : Encodings!G1Points, b : Encodings!G2Points,
                           c : Encodings!G1Points]
      BY <3>1, InputsOfEachKind
    <3>4. QED
      BY <3>2, <3>3, ProofReadBack, Zenon
  <2>3. ASSUME Encodings!Done("signals")
        PROVE  Encodings!SignalsFromBytes(Encodings!HexToBytes(output)) = input.signals
    <3>1. input \in Inputs /\ input.kind = "signals" /\ output = Encodings!Converted(input)
      BY <2>3 DEF ConversionInv, Encodings!Done
    <3>2. output = Encodings!publicSignalsToHex(input.signals)
      BY <3>1, Zenon DEF Encodings!Converted
    <3>3. input.signals \in Seq(Encodings!Field)
      BY <3>1, InputsOfEachKind
    <3>4. Len(input.signals) < Encodings!Pow(Encodings!Base, LenWidth)
      BY <3>1, LibraryAssumption, Zenon DEF Encodings!EncodingsAssumption
    <3>5. QED
      BY <3>2, <3>3, <3>4, SignalsReadBack, Zenon
  <2>4. QED
    BY <2>1, <2>2, <2>3 DEF Encodings!WireIsParsed
<1>2. QED
  BY <1>1, LibraryConverts, PTL

(***************************************************************************)
(* An amount of any size that is shown and typed in again is the same to   *)
(* the last unit, and one typed with any number of digits is cut to those  *)
(* of the asset, never rounded up (formatAmount and parseAmount).          *)
(***************************************************************************)
THEOREM LibraryAmountsRoundTrip == LibrarySpec => []AmountsRoundTrip
<1>1. ConversionInv => AmountsRoundTrip
  <2> SUFFICES ASSUME ConversionInv, part = "encodings"
               PROVE  Encodings!AmountsRoundTrip
    BY DEF AmountsRoundTrip
  <2>1. ASSUME Encodings!Done("amount")
        PROVE  Encodings!parseAmount(output) = input.units
    <3>1. input \in Inputs /\ input.kind = "amount" /\ output = Encodings!Converted(input)
      BY <2>1 DEF ConversionInv, Encodings!Done
    <3>2. output = Encodings!formatAmount(input.units)
      BY <3>1, Zenon DEF Encodings!Converted
    <3>3. input.units \in Nat
      BY <3>1, InputsOfEachKind
    <3>4. QED
      BY <3>2, <3>3, AmountShown, Zenon
  <2>2. ASSUME Encodings!Done("typed")
        PROVE  LET scale == Encodings!Pow(Ten, Len(input.text.frac))
                   typed == (input.text.whole * scale
                               + Encodings!FromDigits(input.text.frac, Ten))
                              * Encodings!Pow(Ten, Decimals)
               IN  output * scale <= typed /\ typed < (output + 1) * scale
    <3>1. input \in Inputs /\ input.kind = "typed" /\ output = Encodings!Converted(input)
      BY <2>2 DEF ConversionInv, Encodings!Done
    <3>2. output = Encodings!parseAmount(input.text)
      BY <3>1, Zenon DEF Encodings!Converted
    <3>3. input.text.whole \in Nat /\ input.text.frac \in Seq(0 .. Ten - 1)
      BY <3>1, InputsOfEachKind
    <3>4. QED
      BY <3>2, <3>3, AmountTyped, Zenon
  <2>3. QED
    BY <2>1, <2>2 DEF Encodings!AmountsRoundTrip
<1>2. QED
  BY <1>1, LibraryConverts, PTL

(***************************************************************************)
(* A transfer witness is built just for what the note can pay, for all     *)
(* amounts that i128 holds and all sizes of the field and the range check; *)
(* the circuit accepts it unless the payment is negative, and both outputs *)
(* can be withdrawn (buildTransferWitness and transfer.circom).            *)
(***************************************************************************)
THEOREM LibraryTransferIsProvable == LibrarySpec => []TransferIsProvable
<1>1. ConversionInv => TransferIsProvable
  <2> SUFFICES ASSUME ConversionInv, part = "encodings",
                      Encodings!Done("payment")
               PROVE  Encodings!TransferIsProvable
    BY DEF TransferIsProvable, Encodings!TransferIsProvable
  <2>1. input \in Inputs /\ input.kind = "payment" /\ output # Nil
    BY DEF ConversionInv, Encodings!Done
  <2>2. Encodings!Sizes /\ Payment(input)
    BY <2>1, LibraryAssumption, InputsOfEachKind
  <2>3. output = Encodings!TransferWitness(input.note, input.tree, input.pay)
    BY <2>1 DEF ConversionInv, Encodings!Converted
  <2>4. QED
    BY <2>2, <2>3, WitnessIsProvable DEF Encodings!TransferIsProvable
<1>2. QED
  BY <1>1, LibraryConverts, PTL

-----------------------------------------------------------------------------
(* The tree of noterail at the lower depth.                                *)

LowProofs == INSTANCE LeanImtProofs WITH Depth <- LowDepth, None <- Nil

\* The definitions of the two instances are the same.
LEMMA SameLowTree ==
  /\ LowTree!LeanImtAssumption <=> LowProofs!LeanImtAssumption
  /\ LowTree!Init <=> LowProofs!Init
  /\ [LowTree!Next]_ofTree => [LowProofs!Next]_LowProofs!vars
  /\ LowProofs!TypeOK <=> LowTree!TypeOK
  /\ LowProofs!TreeFollowsReloads <=> LowTree!TreeFollowsReloads
<1>1. /\ LowProofs!Tree!pow2 = LowTree!Tree!pow2
      /\ LowProofs!Tree!zeros = LowTree!Tree!zeros
      /\ \A x, y : LowProofs!Tree!Hash2(x, y) = LowTree!Tree!Hash2(x, y)
  <2>1. LowProofs!Tree!pow2 = LowTree!Tree!pow2
    BY Zenon DEF LowProofs!Tree!pow2, LowTree!Tree!pow2
  <2>2. \A x, y : LowProofs!Tree!Hash2(x, y) = LowTree!Tree!Hash2(x, y)
    BY DEF LowProofs!Tree!Hash2, LowTree!Tree!Hash2
  <2>3. LowProofs!Tree!zeros = LowTree!Tree!zeros
    BY Zenon DEF LowProofs!Tree!zeros, LowTree!Tree!zeros,
      LowProofs!Tree!Hash2, LowTree!Tree!Hash2
  <2>4. QED
    BY <2>1, <2>2, <2>3
<1>2. LowProofs!Capacity = LowTree!Capacity
  BY <1>1 DEF LowProofs!Capacity, LowTree!Capacity, LowProofs!Tree!Capacity,
    LowTree!Tree!Capacity
<1>3. /\ \A l : LowProofs!Indices(l) = LowTree!Indices(l)
      /\ \A tree, i : LowProofs!Leaf(tree, i) = LowTree!Leaf(tree, i)
      /\ \A i : LowProofs!Tree!Sibling(i) = LowTree!Tree!Sibling(i)
  BY <1>1 DEF LowProofs!Indices, LowTree!Indices, LowProofs!Leaf,
    LowTree!Leaf, LowProofs!Tree!Sibling, LowTree!Tree!Sibling
<1>4. ASSUME NEW tree, NEW cache, NEW i, NEW l
      PROVE  LowProofs!SiblingOf(tree, cache, i, l) =
               LowTree!SiblingOf(tree, cache, i, l)
  <2>1. LowProofs!ComputeNode(tree, cache) = LowTree!ComputeNode(tree, cache)
    BY Zenon DEF LowProofs!ComputeNode, LowTree!ComputeNode,
      LowProofs!CachedNode, LowTree!CachedNode, LowProofs!Leaf, LowTree!Leaf,
      LowProofs!Indices, LowTree!Indices, LowProofs!Tree!pow2,
      LowTree!Tree!pow2, LowProofs!Tree!Hash2, LowTree!Tree!Hash2
  <2>2. QED
    BY <1>3, <2>1 DEF LowProofs!SiblingOf, LowTree!SiblingOf
<1>5. ASSUME NEW tree, NEW cache, NEW i
      PROVE  LowProofs!Path(tree, cache, i) = LowTree!Path(tree, cache, i)
  BY Zenon DEF LowProofs!Path, LowTree!Path, LowProofs!SiblingOf,
    LowTree!SiblingOf, LowProofs!ComputeNode, LowTree!ComputeNode,
    LowProofs!CachedNode, LowTree!CachedNode, LowProofs!Leaf, LowTree!Leaf,
    LowProofs!Indices, LowTree!Indices, LowProofs!Tree!pow2,
    LowTree!Tree!pow2, LowProofs!Tree!Hash2, LowTree!Tree!Hash2,
    LowProofs!Tree!Sibling, LowTree!Tree!Sibling
<1>6. ASSUME NEW path, NEW i
      PROVE  LowProofs!CachePath(path, i) = LowTree!CachePath(path, i)
  BY <1>1 DEF LowProofs!CachePath, LowTree!CachePath
<1>7. LowTree!LeanImtAssumption <=> LowProofs!LeanImtAssumption
  BY DEF LowTree!LeanImtAssumption, LowProofs!LeanImtAssumption,
    LowTree!Tree!TreeParameters, LowProofs!Tree!TreeParameters
<1>8. LowTree!Init <=> LowProofs!Init
  BY <1>1 DEF LowTree!Init, LowProofs!Init
<1>9. [LowTree!Next]_ofTree => [LowProofs!Next]_LowProofs!vars
  <2>1. \A leaf : LowTree!Insert(leaf) => LowProofs!Insert(leaf)
    BY <1>2, <1>5, <1>6 DEF LowTree!Insert, LowProofs!Insert
  <2>2. LowTree!Reload => LowProofs!Reload
    BY <1>1 DEF LowTree!Reload, LowProofs!Reload
  <2>3. QED
    BY <2>1, <2>2 DEF LowTree!Next, LowProofs!Next, ofTree, LowProofs!vars
<1>10. LowProofs!TypeOK <=> LowTree!TypeOK
  BY <1>2, <1>3 DEF LowProofs!TypeOK, LowTree!TypeOK
<1>11. LowProofs!TreeFollowsReloads <=> LowTree!TreeFollowsReloads
  <2>1. ASSUME NEW tree
        PROVE  LowProofs!Tree!FullTree(tree) = LowTree!Tree!FullTree(tree)
    BY Zenon DEF LowProofs!Tree!FullTree, LowTree!Tree!FullTree,
      LowProofs!Tree!pow2, LowTree!Tree!pow2, LowProofs!Tree!Capacity,
      LowTree!Tree!Capacity, LowProofs!Tree!Hash2, LowTree!Tree!Hash2
  <2>2. ASSUME NEW leaf, NEW i, NEW path
        PROVE  LowProofs!Tree!MerkleProof(leaf, i, path) =
                 LowTree!Tree!MerkleProof(leaf, i, path)
    BY Zenon DEF LowProofs!Tree!MerkleProof, LowTree!Tree!MerkleProof,
      LowProofs!Tree!PathBit, LowTree!Tree!PathBit, LowProofs!Tree!pow2,
      LowTree!Tree!pow2, LowProofs!Tree!Hash2, LowTree!Tree!Hash2
  <2>3. ASSUME NEW i PROVE LowProofs!GenerateProof(i) = LowTree!GenerateProof(i)
    BY <1>1, <1>3, <1>4 DEF LowProofs!GenerateProof, LowTree!GenerateProof
  <2>4. QED
    BY <2>1, <2>2, <2>3 DEF LowProofs!TreeFollowsReloads,
      LowTree!TreeFollowsReloads
<1>12. QED
  BY <1>7, <1>8, <1>9, <1>10, <1>11

\* A behaviour about this tree is one of LeanImt, to its end.
LEMMA LibraryRunsLowTree ==
  LibrarySpec => []~(part = "low tree")
    \/ ([](part = "low tree") /\ LowProofs!Spec)
<1>1. LibraryInit => ~(part = "low tree") \/ LowProofs!Init
  BY SameLowTree DEF LibraryInit
<1>2. part = "low tree" /\ [LibraryNext]_libraryVars
        => (part = "low tree")' /\ [LowProofs!Next]_LowProofs!vars
  BY SameLowTree DEF LibraryNext, Only, libraryVars
<1>3. ~(part = "low tree") /\ [LibraryNext]_libraryVars => ~(part = "low tree")'
  BY DEF LibraryNext, Only, libraryVars
<1>4. QED
  BY <1>1, <1>2, <1>3, PTL DEF LibrarySpec, LowProofs!Spec

-----------------------------------------------------------------------------
(* The tree of noterail at the other depth.                                *)

TreeProofs == INSTANCE LeanImtProofs WITH None <- Nil

\* The definitions of the two instances are the same.
LEMMA SameTree ==
  /\ Tree!LeanImtAssumption <=> TreeProofs!LeanImtAssumption
  /\ Tree!Init <=> TreeProofs!Init
  /\ [Tree!Next]_ofTree => [TreeProofs!Next]_TreeProofs!vars
  /\ TreeProofs!TypeOK <=> Tree!TypeOK
  /\ TreeProofs!TreeFollowsReloads <=> Tree!TreeFollowsReloads
<1>1. /\ TreeProofs!Tree!pow2 = Tree!Tree!pow2
      /\ TreeProofs!Tree!zeros = Tree!Tree!zeros
      /\ \A x, y : TreeProofs!Tree!Hash2(x, y) = Tree!Tree!Hash2(x, y)
  <2>1. TreeProofs!Tree!pow2 = Tree!Tree!pow2
    BY Zenon DEF TreeProofs!Tree!pow2, Tree!Tree!pow2
  <2>2. \A x, y : TreeProofs!Tree!Hash2(x, y) = Tree!Tree!Hash2(x, y)
    BY DEF TreeProofs!Tree!Hash2, Tree!Tree!Hash2
  <2>3. TreeProofs!Tree!zeros = Tree!Tree!zeros
    BY Zenon DEF TreeProofs!Tree!zeros, Tree!Tree!zeros,
      TreeProofs!Tree!Hash2, Tree!Tree!Hash2
  <2>4. QED
    BY <2>1, <2>2, <2>3
<1>2. TreeProofs!Capacity = Tree!Capacity
  BY <1>1 DEF TreeProofs!Capacity, Tree!Capacity, TreeProofs!Tree!Capacity,
    Tree!Tree!Capacity
<1>3. /\ \A l : TreeProofs!Indices(l) = Tree!Indices(l)
      /\ \A tree, i : TreeProofs!Leaf(tree, i) = Tree!Leaf(tree, i)
      /\ \A i : TreeProofs!Tree!Sibling(i) = Tree!Tree!Sibling(i)
  BY <1>1 DEF TreeProofs!Indices, Tree!Indices, TreeProofs!Leaf, Tree!Leaf,
    TreeProofs!Tree!Sibling, Tree!Tree!Sibling
<1>4. ASSUME NEW tree, NEW cache, NEW i, NEW l
      PROVE  TreeProofs!SiblingOf(tree, cache, i, l) =
               Tree!SiblingOf(tree, cache, i, l)
  <2>1. TreeProofs!ComputeNode(tree, cache) = Tree!ComputeNode(tree, cache)
    BY Zenon DEF TreeProofs!ComputeNode, Tree!ComputeNode,
      TreeProofs!CachedNode, Tree!CachedNode, TreeProofs!Leaf, Tree!Leaf,
      TreeProofs!Indices, Tree!Indices, TreeProofs!Tree!pow2, Tree!Tree!pow2,
      TreeProofs!Tree!Hash2, Tree!Tree!Hash2
  <2>2. QED
    BY <1>3, <2>1 DEF TreeProofs!SiblingOf, Tree!SiblingOf
<1>5. ASSUME NEW tree, NEW cache, NEW i
      PROVE  TreeProofs!Path(tree, cache, i) = Tree!Path(tree, cache, i)
  BY Zenon DEF TreeProofs!Path, Tree!Path, TreeProofs!SiblingOf,
    Tree!SiblingOf, TreeProofs!ComputeNode, Tree!ComputeNode,
    TreeProofs!CachedNode, Tree!CachedNode, TreeProofs!Leaf, Tree!Leaf,
    TreeProofs!Indices, Tree!Indices, TreeProofs!Tree!pow2, Tree!Tree!pow2,
    TreeProofs!Tree!Hash2, Tree!Tree!Hash2, TreeProofs!Tree!Sibling,
    Tree!Tree!Sibling
<1>6. ASSUME NEW path, NEW i
      PROVE  TreeProofs!CachePath(path, i) = Tree!CachePath(path, i)
  BY <1>1 DEF TreeProofs!CachePath, Tree!CachePath
<1>7. Tree!LeanImtAssumption <=> TreeProofs!LeanImtAssumption
  BY DEF Tree!LeanImtAssumption, TreeProofs!LeanImtAssumption,
    Tree!Tree!TreeParameters, TreeProofs!Tree!TreeParameters
<1>8. Tree!Init <=> TreeProofs!Init
  BY <1>1 DEF Tree!Init, TreeProofs!Init
<1>9. [Tree!Next]_ofTree => [TreeProofs!Next]_TreeProofs!vars
  <2>1. \A leaf : Tree!Insert(leaf) => TreeProofs!Insert(leaf)
    BY <1>2, <1>5, <1>6 DEF Tree!Insert, TreeProofs!Insert
  <2>2. Tree!Reload => TreeProofs!Reload
    BY <1>1 DEF Tree!Reload, TreeProofs!Reload
  <2>3. QED
    BY <2>1, <2>2 DEF Tree!Next, TreeProofs!Next, ofTree, TreeProofs!vars
<1>10. TreeProofs!TypeOK <=> Tree!TypeOK
  BY <1>2, <1>3 DEF TreeProofs!TypeOK, Tree!TypeOK
<1>11. TreeProofs!TreeFollowsReloads <=> Tree!TreeFollowsReloads
  <2>1. ASSUME NEW tree
        PROVE  TreeProofs!Tree!FullTree(tree) = Tree!Tree!FullTree(tree)
    BY Zenon DEF TreeProofs!Tree!FullTree, Tree!Tree!FullTree,
      TreeProofs!Tree!pow2, Tree!Tree!pow2, TreeProofs!Tree!Capacity,
      Tree!Tree!Capacity, TreeProofs!Tree!Hash2, Tree!Tree!Hash2
  <2>2. ASSUME NEW leaf, NEW i, NEW path
        PROVE  TreeProofs!Tree!MerkleProof(leaf, i, path) =
                 Tree!Tree!MerkleProof(leaf, i, path)
    BY Zenon DEF TreeProofs!Tree!MerkleProof, Tree!Tree!MerkleProof,
      TreeProofs!Tree!PathBit, Tree!Tree!PathBit, TreeProofs!Tree!pow2,
      Tree!Tree!pow2, TreeProofs!Tree!Hash2, Tree!Tree!Hash2
  <2>3. ASSUME NEW i PROVE TreeProofs!GenerateProof(i) = Tree!GenerateProof(i)
    BY <1>1, <1>3, <1>4 DEF TreeProofs!GenerateProof, Tree!GenerateProof
  <2>4. QED
    BY <2>1, <2>2, <2>3 DEF TreeProofs!TreeFollowsReloads,
      Tree!TreeFollowsReloads
<1>12. QED
  BY <1>7, <1>8, <1>9, <1>10, <1>11

\* A behaviour about this tree is one of LeanImt, to its end.
LEMMA LibraryRunsTree ==
  LibrarySpec => []~(part = "tree") \/ ([](part = "tree") /\ TreeProofs!Spec)
<1>1. LibraryInit => ~(part = "tree") \/ TreeProofs!Init
  BY SameTree DEF LibraryInit
<1>2. part = "tree" /\ [LibraryNext]_libraryVars
        => (part = "tree")' /\ [TreeProofs!Next]_TreeProofs!vars
  BY SameTree DEF LibraryNext, Only, libraryVars
<1>3. ~(part = "tree") /\ [LibraryNext]_libraryVars => ~(part = "tree")'
  BY DEF LibraryNext, Only, libraryVars
<1>4. QED
  BY <1>1, <1>2, <1>3, PTL DEF LibrarySpec, TreeProofs!Spec

(***************************************************************************)
(* The tree of noterail has the root and the paths of the plain one,       *)
(* through all insertions and reloads, at both depths of the library and   *)
(* whatever they are.                                                      *)
(***************************************************************************)
THEOREM LibraryTreeFollowsReloads == LibrarySpec => []TreeFollowsReloads
<1>1. LowProofs!LeanImtAssumption /\ TreeProofs!LeanImtAssumption
  BY LibraryAssumption, SameLowTree, SameTree
<1>2. LowProofs!Spec => []LowProofs!TypeOK
  BY <1>1, LowProofs!LeanImtTypeCorrect
<1>3. LowProofs!Spec => []LowProofs!TreeFollowsReloads
  BY <1>1, LowProofs!LeanImtFollowsReloads
<1>4. TreeProofs!Spec => []TreeProofs!TypeOK
  BY <1>1, TreeProofs!LeanImtTypeCorrect
<1>5. TreeProofs!Spec => []TreeProofs!TreeFollowsReloads
  BY <1>1, TreeProofs!LeanImtFollowsReloads
<1>6. TreeFollowsReloads <=>
        /\ part = "low tree" => LowProofs!TypeOK /\ LowProofs!TreeFollowsReloads
        /\ part = "tree" => TreeProofs!TypeOK /\ TreeProofs!TreeFollowsReloads
  BY SameLowTree, SameTree DEF TreeFollowsReloads
<1>7. QED
  BY <1>2, <1>3, <1>4, <1>5, <1>6, LibraryRunsLowTree, LibraryRunsTree, PTL

-----------------------------------------------------------------------------
(* The store, in the behaviours of all parts.                              *)

\* While another part runs, the browser does nothing.
LEMMA LibraryRunsSession == LibrarySpec => Spec
<1>1. LibraryInit => Init
  BY DEF LibraryInit, AtRest
<1>2. [LibraryNext]_libraryVars => [Next]_vars
  BY DEF LibraryNext, Only, libraryVars, ofSession
<1>3. QED
  BY <1>1, <1>2, PTL DEF LibrarySpec, Spec

(***************************************************************************)
(* What the run of the library checks of the store: types, that a tab      *)
(* shows what a reload of it would find, and that a note stays stored      *)
(* until local data is cleared.                                            *)
(***************************************************************************)
THEOREM LibraryKeepsStore ==
  LibrarySpec => []TypeOK /\ []TabsShowTheStore /\ VaultIsKept
<1>1. Spec => []TypeOK
  BY LibraryAssumption, SessionTypeCorrect
<1>2. Spec => []TabsShowTheStore
  BY LibraryAssumption, SessionTabsShowTheStore
<1>3. Spec => VaultIsKept
  BY LibraryAssumption, SessionKeepsVault
<1>4. QED
  BY <1>1, <1>2, <1>3, LibraryRunsSession, PTL
=============================================================================
