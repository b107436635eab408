------------------------------ MODULE WebProofs ------------------------------
EXTENDS Web, FiniteSetTheorems, SequenceTheorems, TLAPS

\* ShieldedPool with its theorems: the pool below the disclosure page.
PoolProofs == INSTANCE ShieldedPoolProofs

-----------------------------------------------------------------------------
(* The pages that show the pool.                                           *)

Screens ==
  [pool : {Nil} \cup Nat, loading : BOOLEAN, error : BOOLEAN,
   list : SUBSET Notes, revealTotal : BOOLEAN, revealed : SUBSET Notes,
   shieldOpen : BOOLEAN, withdrawNote : Notes \cup {Nil}, busy : SUBSET Notes,
   overtaken : BOOLEAN]

\* A read of the pool under way.
Reads == [since : Nat, source : Pages!Wallets, behind : BOOLEAN]

\* The types of the pages' variables, and that nothing shown or asked for is
\* newer than the pool.
PagesTypes ==
  /\ version \in Nat /\ version <= MaxVersion
  /\ key \in Pages!Wallets
  /\ notes \subseteq Notes /\ working \subseteq Notes
  /\ shown \in Pages!ReadingPages \cup {"elsewhere"}
  /\ screen \in Screens
  /\ screen.pool # Nil => screen.pool <= version
  /\ screen.busy \subseteq working
  /\ reads \in Seq(Reads) /\ Len(reads) <= MaxReads
  /\ \A i \in 1 .. Len(reads) : reads[i].since <= version
  /\ floor \in Nat /\ floor <= version

\* The last read is under way: it will be no older than the floor.
LastIsAwaited ==
  /\ Len(reads) > 0
  /\ reads[Len(reads)].since >= floor
  /\ ~reads[Len(reads)].behind

\* The last read was answered: the page is current, or an older answer came
\* later, as those still to come will.
LastIsAnswered ==
  /\ \A i \in 1 .. Len(reads) : reads[i].behind
  /\ screen.overtaken \/ Pages!SaysUnread \/ screen.pool >= floor

\* A page that reads waits for its last answer, or has it.
Current == shown \in Pages!ReadingPages => LastIsAwaited \/ LastIsAnswered

\* What every step of the pages keeps.
PagesInv == PagesTypes /\ Current

\* What PagesAssumption says, with the names of this module.
LEMMA PagesConstants ==
  /\ Nil \notin Notes /\ Nil \notin Nat
  /\ MaxVersion \in Nat /\ MaxReads \in Nat \ {0}
  BY WebAssumption DEF Pages!PagesAssumption

\* A page that is opened has an empty screen.
LEMMA BlankScreen ==
  ASSUME NEW list \in SUBSET Notes
  PROVE  LET new == [Pages!Blank EXCEPT !.list = list]
         IN  /\ new \in Screens
             /\ new.pool = Nil /\ new.busy = {} /\ new.loading
  BY DEF Pages!Blank, Screens

\* Pages!Init.
LEMMA PagesInit == Pages!Init => PagesInv
<1> SUFFICES ASSUME Pages!Init PROVE PagesInv
  OBVIOUS
<1>1. screen \in Screens /\ screen.pool = Nil /\ screen.busy = {}
  BY DEF Pages!Init, Pages!Blank, Screens
<1>2. QED
  BY <1>1, PagesConstants
     DEF Pages!Init, PagesInv, PagesTypes, Current, Pages!ReadingPages,
         Pages!Following, Pages!Wallets

\* The reads left when the i-th is answered: those before it are behind now.
LEMMA WithoutRead ==
  ASSUME PagesTypes, NEW i \in 1 .. Len(reads)
  PROVE  LET new == Pages!Without(i)
         IN  /\ new \in Seq(Reads) /\ Len(new) = Len(reads) - 1
             /\ \A k \in 1 .. i - 1 :
                  new[k].since = reads[k].since /\ new[k].behind
             /\ \A k \in i .. Len(reads) - 1 : new[k] = reads[k + 1]
<1> DEFINE marked == [j \in DOMAIN reads |->
                        [reads[j] EXCEPT !.behind = @ \/ j < i]]
           before == SubSeq(marked, 1, i - 1)
           after == SubSeq(marked, i + 1, Len(marked))
           n == Len(reads)
<1>1. n \in Nat /\ DOMAIN reads = 1 .. n /\ \A j \in 1 .. n : reads[j] \in Reads
  BY DEF PagesTypes
<1>2. \A j \in 1 .. n :
        /\ [reads[j] EXCEPT !.behind = @ \/ j < i] \in Reads
        /\ marked[j] = [reads[j] EXCEPT !.behind = @ \/ j < i]
  BY <1>1 DEF Reads
<1>3. marked \in [1 .. n -> Reads]
  BY <1>1, <1>2
<1>4. marked \in Seq(Reads) /\ Len(marked) = n
  BY <1>1, <1>3, SeqDef, LenProperties
<1>5. \A j \in 1 .. n : /\ marked[j].since = reads[j].since
                        /\ j < i => marked[j].behind
                        /\ ~(j < i) => marked[j] = reads[j]
  BY <1>1, <1>2 DEF Reads
<1> HIDE DEF marked
<1>6. /\ before \in Seq(Reads) /\ Len(before) = i - 1
      /\ \A k \in 1 .. i - 1 : before[k] = marked[k]
  BY <1>1, <1>4
<1>7. /\ after \in Seq(Reads) /\ Len(after) = n - i
      /\ \A k \in 1 .. n - i : after[k] = marked[i + k]
  <2>1. i + 1 \in Int /\ n \in Int /\ \A j \in i + 1 .. n : marked[j] \in Reads
    BY <1>1, <1>4
  <2>2. /\ after \in Seq(Reads)
        /\ Len(after) = IF i + 1 <= n THEN n - (i + 1) + 1 ELSE 0
        /\ \A k \in 1 .. n - (i + 1) + 1 : after[k] = marked[(i + 1) + k - 1]
    BY <1>1, <1>4, <2>1, SubSeqProperties
  <2>3. \A k \in 1 .. n - i : (i + 1) + k - 1 = i + k
    BY <1>1
  <2>4. QED
    BY <1>1, <2>2, <2>3
<1> HIDE DEF before, after
<1>8. /\ before \o after \in Seq(Reads) /\ Len(before \o after) = n - 1
      /\ \A k \in 1 .. i - 1 : (before \o after)[k] = marked[k]
      /\ \A k \in i .. n - 1 : (before \o after)[k] = after[k - (i - 1)]
  <2>1. /\ before \o after \in Seq(Reads)
        /\ Len(before \o after) = (i - 1) + (n - i)
        /\ \A k \in 1 .. (i - 1) + (n - i) : (before \o after)[k] =
             IF k <= i - 1 THEN before[k] ELSE after[k - (i - 1)]
    BY <1>6, <1>7, ConcatProperties
  <2>2. \A k \in 1 .. i - 1 :
          k \in 1 .. (i - 1) + (n - i) /\ k <= i - 1
    BY <1>1
  <2>3. \A k \in i .. n - 1 :
          k \in 1 .. (i - 1) + (n - i) /\ ~(k <= i - 1)
    BY <1>1
  <2>4. (i - 1) + (n - i) = n - 1
    BY <1>1
  <2>5. QED
    BY <1>6, <2>1, <2>2, <2>3, <2>4
<1>9. \A k \in i .. n - 1 : /\ k - (i - 1) \in 1 .. n - i
                            /\ i + (k - (i - 1)) = k + 1
                            /\ k + 1 \in 1 .. n /\ ~(k + 1 < i)
  BY <1>1
<1>10. \A k \in i .. n - 1 : (before \o after)[k] = reads[k + 1]
  BY <1>5, <1>7, <1>8, <1>9
<1>11. Pages!Without(i) = before \o after
  BY DEF Pages!Without, Pages!RemoveAt, marked, before, after
<1>12. \A k \in 1 .. i - 1 :
         /\ (before \o after)[k].since = reads[k].since
         /\ (before \o after)[k].behind
  <2>1. \A k \in 1 .. i - 1 : k \in 1 .. n /\ k < i
    BY <1>1
  <2>2. QED
    BY <1>5, <1>8, <2>1
<1>13. QED
  BY <1>8, <1>10, <1>11, <1>12

\* Versions are numbers.
LEMMA PagesValues ==
  ASSUME PagesTypes
  PROVE  /\ screen.pool \in {Nil} \cup Nat
         /\ Len(reads) \in Nat
         /\ \A k \in 1 .. Len(reads) : reads[k] \in Reads /\ reads[k].since \in Nat
<1>1. screen.pool \in {Nil} \cup Nat
  BY DEF PagesTypes, Screens
<1>2. Len(reads) \in Nat /\ \A k \in 1 .. Len(reads) : reads[k] \in Reads
  BY DEF PagesTypes
<1>3. \A k \in 1 .. Len(reads) : reads[k].since \in Nat
  BY <1>2 DEF Reads
<1>4. QED
  BY <1>1, <1>2, <1>3

\* A read that ends leaves a page that is current, if it was the last one, or
\* one whose last answer was overtaken.
LEMMA EndedRead ==
  ASSUME PagesInv, NEW i \in 1 .. Len(reads), reads' = Pages!Without(i),
         screen' \in Screens, screen'.busy = screen.busy,
         screen'.pool # Nil => screen'.pool <= version,
         screen'.overtaken = reads[i].behind,
         Pages!SaysUnread' \/ screen'.pool >= reads[i].since,
         UNCHANGED <<version, key, notes, shown, working, floor>>
  PROVE  PagesInv'
<1> DEFINE n == Len(reads)
<1>1. /\ n \in Nat /\ \A k \in 1 .. n : reads[k] \in Reads
      /\ PagesTypes /\ Current
  BY DEF PagesInv, PagesTypes
<1>2. /\ reads' \in Seq(Reads) /\ Len(reads') = n - 1
      /\ \A k \in 1 .. i - 1 : reads'[k].since = reads[k].since /\ reads'[k].behind
      /\ \A k \in i .. n - 1 : reads'[k] = reads[k + 1]
  BY <1>1, WithoutRead
<1>3. \A k \in 1 .. n - 1 : reads'[k].since <= version
  <2>1. ASSUME NEW k \in 1 .. i - 1 PROVE reads'[k].since <= version
    BY <1>1, <1>2 DEF PagesTypes
  <2>2. ASSUME NEW k \in i .. n - 1 PROVE reads'[k].since <= version
    <3>1. k + 1 \in 1 .. n
      BY <1>1
    <3>2. QED
      BY <1>1, <1>2, <3>1 DEF PagesTypes
  <2>3. QED
    BY <1>1, <2>1, <2>2
<1>4. PagesTypes'
  BY <1>1, <1>2, <1>3, PagesConstants DEF PagesTypes
<1>5. CASE LastIsAwaited /\ i = n
  <2>1. \A k \in 1 .. n - 1 : reads'[k].behind
    BY <1>1, <1>2, <1>5
  <2>2. Pages!SaysUnread' \/ screen'.pool >= floor
    <3>1. reads[i].since >= floor /\ reads[i].since \in Nat /\ floor \in Nat
      BY <1>1, <1>5 DEF LastIsAwaited, PagesTypes, Reads
    <3>2. screen'.pool = Nil \/ screen'.pool \in Nat
      BY DEF Screens
    <3>3. QED
      BY <3>1, <3>2 DEF Pages!SaysUnread
  <2>3. LastIsAnswered'
    BY <1>2, <2>1, <2>2 DEF LastIsAnswered
  <2>4. QED
    BY <1>4, <2>3 DEF PagesInv, Current
<1>6. CASE LastIsAwaited /\ i # n
  <2>1. i \in 1 .. n - 1 /\ n - 1 \in i .. n - 1 /\ (n - 1) + 1 = n
    BY <1>1, <1>6
  <2>2. reads'[n - 1] = reads[n] /\ n - 1 > 0
    BY <1>2, <2>1
  <2>3. LastIsAwaited'
    BY <1>2, <1>6, <2>2 DEF LastIsAwaited
  <2>4. QED
    BY <1>4, <2>3 DEF PagesInv, Current
<1>7. CASE LastIsAnswered
  <2>1. \A k \in 1 .. n - 1 : reads'[k].behind
    <3>1. ASSUME NEW k \in i .. n - 1 PROVE reads'[k].behind
      BY <1>1, <1>2, <1>7 DEF LastIsAnswered
    <3>2. QED
      BY <1>1, <1>2, <3>1
  <2>2. screen'.overtaken
    BY <1>7 DEF LastIsAnswered
  <2>3. LastIsAnswered'
    BY <1>2, <2>1, <2>2 DEF LastIsAnswered
  <2>4. QED
    BY <1>4, <2>3 DEF PagesInv, Current
<1>8. CASE shown \notin Pages!ReadingPages
  BY <1>4, <1>8 DEF PagesInv, Current
<1>9. QED
  BY <1>1, <1>5, <1>6, <1>7, <1>8 DEF Current

\* A read that was just issued is no older than what it was issued for.
LEMMA IssuedRead ==
  ASSUME PagesTypes, NEW read \in Reads, Len(reads) < MaxReads,
         reads' = Append(reads, read), read.since = floor', ~read.behind,
         version' \in Nat, version <= version', version' <= MaxVersion,
         floor' = version',
         key' \in Pages!Wallets, notes' \subseteq Notes, working' \subseteq Notes,
         screen' \in Screens, screen'.pool = screen.pool,
         screen'.busy \subseteq working', shown' = shown
  PROVE  PagesInv'
<1> DEFINE n == Len(reads)
<1>1. n \in Nat /\ \A k \in 1 .. n : reads[k].since \in Nat
  BY PagesValues
<1>2. /\ reads' \in Seq(Reads) /\ Len(reads') = n + 1
      /\ reads'[n + 1] = read /\ \A k \in 1 .. n : reads'[k] = reads[k]
  BY DEF PagesTypes
<1>3. \A k \in 1 .. n + 1 : reads'[k].since <= version'
  BY <1>1, <1>2 DEF PagesTypes
<1>4. screen'.pool # Nil => screen'.pool <= version'
  BY PagesValues DEF PagesTypes
<1>5. PagesTypes'
  BY <1>1, <1>2, <1>3, <1>4, PagesConstants DEF PagesTypes
<1>6. LastIsAwaited'
  BY <1>1, <1>2 DEF LastIsAwaited
<1>7. QED
  BY <1>5, <1>6 DEF PagesInv, Current

\* What the user does to the terminal says nothing of the pool.
LEMMA SameReads ==
  ASSUME PagesInv, screen' \in Screens, screen'.busy \subseteq working',
         working' \subseteq Notes, version' \in Nat,
         version <= version', version' <= MaxVersion,
         screen'.pool = screen.pool, screen'.error = screen.error,
         screen'.overtaken = screen.overtaken,
         UNCHANGED <<key, notes, shown, reads, floor>>
  PROVE  PagesInv'
<1>1. PagesTypes'
  <2>1. PagesTypes
    BY DEF PagesInv
  <2>2. \A i \in 1 .. Len(reads) : reads[i].since <= version'
    BY <2>1, PagesValues DEF PagesTypes
  <2>3. screen.pool # Nil => screen.pool <= version'
    BY <2>1, PagesValues DEF PagesTypes
  <2>4. floor <= version'
    BY <2>1 DEF PagesTypes
  <2>5. QED
    BY <2>1, <2>2, <2>3, <2>4 DEF PagesTypes
<1>2. Current'
  BY DEF PagesInv, Current, LastIsAwaited, LastIsAnswered, Pages!SaysUnread
<1>3. QED
  BY <1>1, <1>2 DEF PagesInv

\* What the pages' actions put on the screen is a screen.
LEMMA ShownScreens ==
  ASSUME PagesInv, Pages!Next
  PROVE  screen' \in Screens
<1>1. /\ screen \in Screens /\ notes \subseteq Notes
      /\ Nil \notin Nat /\ version \in Nat
  BY PagesConstants DEF PagesInv, PagesTypes
<1>2. ASSUME NEW p \in Pages!ReadingPages \cup {"elsewhere"}, Pages!Visit(p)
      PROVE  screen' \in Screens
  BY <1>1, <1>2, BlankScreen DEF Pages!Visit
<1>3. ASSUME NEW w \in Pages!Wallets, Pages!WalletChanges(w)
      PROVE  screen' \in Screens
  <2>1. CASE UNCHANGED screen
    BY <1>1, <2>1
  <2>2. CASE screen' = [screen EXCEPT !.list = notes, !.busy = {},
                          !.loading = @ \/ shown = "overview"]
    BY <1>1, <2>2 DEF Screens
  <2>3. QED
    BY <1>3, <2>1, <2>2 DEF Pages!WalletChanges
<1>4. ASSUME NEW i \in DOMAIN reads, Pages!Answered(i)
      PROVE  screen' \in Screens
  <2>1. i \in 1 .. Len(reads)
    BY DEF PagesInv, PagesTypes
  <2>2. reads[i].since \in Nat /\ reads[i].behind \in BOOLEAN
    BY <2>1, PagesValues DEF PagesInv, Reads
  <2>3. PICK v \in reads[i].since .. version :
          screen' = [screen EXCEPT !.pool = v, !.error = FALSE,
                       !.loading = FALSE, !.overtaken = reads[i].behind]
    BY <1>4 DEF Pages!Answered
  <2>4. v \in Nat
    BY <1>1, <2>2, <2>3
  <2>5. QED
    BY <1>1, <2>2, <2>3, <2>4 DEF Screens
<1>5. ASSUME NEW i \in DOMAIN reads, Pages!Fails(i)
      PROVE  screen' \in Screens
  <2>1. i \in 1 .. Len(reads)
    BY DEF PagesInv, PagesTypes
  <2>2. reads[i].behind \in BOOLEAN
    BY <2>1, PagesValues DEF PagesInv, Reads
  <2>3. QED
    BY <1>1, <1>5, <2>2 DEF Screens, Pages!Fails
<1>6. ASSUME Pages!RevealTotal \/ Pages!OpenShield \/ Pages!CloseSettle
      PROVE  screen' \in Screens
  <2>1. CASE Pages!RevealTotal
    BY <1>1, <2>1 DEF Screens, Pages!RevealTotal, Pages!Set
  <2>2. CASE Pages!OpenShield
    BY <1>1, <2>2 DEF Screens, Pages!OpenShield, Pages!Set
  <2>3. CASE Pages!CloseSettle
    BY <1>1, <2>3 DEF Screens, Pages!CloseSettle, Pages!Set
  <2>4. QED
    BY <1>6, <2>1, <2>2, <2>3
<1>7. ASSUME Pages!CloseShield
      PROVE  screen' \in Screens
  BY <1>1, <1>7 DEF Screens, Pages!CloseShield
<1>8. ASSUME NEW note \in Notes, Pages!ToggleRow(note) \/ Pages!OpenSettle(note)
      PROVE  screen' \in Screens
  <2>1. CASE Pages!ToggleRow(note)
    BY <1>1, <2>1 DEF Screens, Pages!ToggleRow, Pages!Set
  <2>2. CASE Pages!OpenSettle(note)
    BY <1>1, <2>2 DEF Screens, Pages!OpenSettle, Pages!Set
  <2>3. QED
    BY <1>8, <2>1, <2>2
<1>9. ASSUME NEW note \in Notes,
             Pages!Submit(note) \/ Pages!NotDone(note)
      PROVE  screen' \in Screens
  <2>1. CASE Pages!Submit(note)
    BY <1>1, <2>1 DEF Screens, Pages!Submit
  <2>2. CASE Pages!NotDone(note)
    BY <1>1, <2>2 DEF Screens, Pages!NotDone
  <2>3. QED
    BY <1>9, <2>1, <2>2
<1>10. ASSUME NEW note \in Notes, Pages!Done(note)
       PROVE  screen' \in Screens
  <2>1. notes' \subseteq Notes
    BY <1>1, <1>10 DEF Pages!Done
  <2>2. screen' = Pages!Settled(note)
    BY <1>10 DEF Pages!Done
  <2>3. QED
    BY <1>1, <2>1, <2>2 DEF Screens, Pages!Settled
<1>11. ASSUME Pages!PoolMoves
       PROVE  screen' \in Screens
  BY <1>1, <1>11 DEF Pages!PoolMoves
<1>12. QED
  BY <1>2, <1>3, <1>4, <1>5, <1>6, <1>7, <1>8, <1>9, <1>10, <1>11
     DEF Pages!Next, Pages!ReadEnds

\* Pages!Next.
LEMMA PagesStep == PagesInv /\ [Pages!Next]_(Pages!vars) => PagesInv'
<1> SUFFICES ASSUME PagesInv, [Pages!Next]_(Pages!vars) PROVE PagesInv'
  OBVIOUS
<1>1. CASE UNCHANGED Pages!vars
  BY <1>1 DEF Pages!vars, PagesInv, PagesTypes, Current, LastIsAwaited,
              LastIsAnswered, Pages!SaysUnread
<1> SUFFICES ASSUME Pages!Next PROVE PagesInv'
  BY <1>1
<1>2. /\ screen' \in Screens /\ screen \in Screens
      /\ PagesTypes /\ version \in Nat /\ version <= MaxVersion
      /\ notes \subseteq Notes /\ working \subseteq Notes
      /\ screen.busy \subseteq working /\ key \in Pages!Wallets
      /\ MaxVersion \in Nat /\ MaxReads \in Nat \ {0}
  BY ShownScreens, PagesConstants DEF PagesInv, PagesTypes
<1>3. ASSUME NEW p \in Pages!ReadingPages \cup {"elsewhere"}, Pages!Visit(p)
      PROVE  PagesInv'
  <2>1. screen'.pool = Nil /\ screen'.busy = {}
    BY <1>2, <1>3, BlankScreen DEF Pages!Visit
  <2> DEFINE read == Pages!Read(IF p = "assets" THEN "none" ELSE key)
  <2>2. read \in Reads /\ read.since = version /\ ~read.behind
    BY <1>2 DEF Pages!Read, Reads, Pages!Wallets
  <2>3. UNCHANGED <<version, key, notes>> /\ working' = {} /\ floor' = version
    BY <1>3 DEF Pages!Visit
  <2>4. CASE p \in Pages!ReadingPages
    <3>1. reads' = <<read>> /\ shown' = p
      BY <1>3, <2>4 DEF Pages!Visit
    <3> HIDE DEF read
    <3>2. /\ reads' \in Seq(Reads) /\ Len(reads') = 1 /\ reads'[1] = read
          /\ \A k \in 1 .. Len(reads') : reads'[k] = read
      BY <2>2, <3>1
    <3>3. PagesTypes'
      BY <1>2, <2>1, <2>2, <2>3, <3>1, <3>2 DEF PagesTypes
    <3>4. LastIsAwaited'
      BY <1>2, <2>2, <2>3, <3>2 DEF LastIsAwaited
    <3>5. QED
      BY <3>3, <3>4 DEF PagesInv, Current
  <2>5. CASE p \notin Pages!ReadingPages
    <3>1. reads' = << >> /\ shown' = p
      BY <1>3, <2>5 DEF Pages!Visit
    <3>2. PagesTypes'
      BY <1>2, <2>1, <2>3, <3>1 DEF PagesTypes
    <3>3. QED
      BY <2>5, <3>1, <3>2 DEF PagesInv, Current, Pages!ReadingPages,
                              Pages!Following
  <2>6. QED
    BY <2>4, <2>5
<1>4. ASSUME NEW w \in Pages!Wallets, Pages!WalletChanges(w)
      PROVE  PagesInv'
  <2>1. /\ Len(reads) < MaxReads /\ key' = w
        /\ UNCHANGED <<version, notes, shown, working>>
    BY <1>4 DEF Pages!WalletChanges, Pages!CanRead
  <2>2. CASE shown \in Pages!Following
    <3> DEFINE read == Pages!Read(w)
    <3>1. /\ reads' = Append(reads, read) /\ floor' = version
          /\ screen'.pool = screen.pool /\ screen'.busy = {}
      BY <1>2, <1>4, <2>2 DEF Pages!WalletChanges, Screens
    <3>2. read \in Reads /\ read.since = version /\ ~read.behind
      BY <1>2 DEF Pages!Read, Reads
    <3> HIDE DEF read
    <3>3. QED
      BY <1>2, <2>1, <3>1, <3>2, IssuedRead
  <2>3. CASE shown \notin Pages!Following
    <3>1. UNCHANGED <<reads, screen, floor>>
      BY <1>4, <2>3 DEF Pages!WalletChanges
    <3>2. QED
      BY <1>2, <2>1, <3>1 DEF PagesInv, PagesTypes, Current, LastIsAwaited,
                              LastIsAnswered, Pages!SaysUnread
  <2>4. QED
    BY <2>2, <2>3
<1>5. ASSUME NEW i \in DOMAIN reads, Pages!Answered(i)
      PROVE  PagesInv'
  <2>1. i \in 1 .. Len(reads) /\ reads[i].since \in Nat
    BY <1>2, PagesValues DEF PagesTypes
  <2>2. /\ reads' = Pages!Without(i)
        /\ UNCHANGED <<version, key, notes, shown, working, floor>>
        /\ \E v \in reads[i].since .. version :
             screen' = [screen EXCEPT !.pool = v, !.error = FALSE,
                          !.loading = FALSE, !.overtaken = reads[i].behind]
    BY <1>5 DEF Pages!Answered
  <2>3. /\ screen'.pool \in reads[i].since .. version
        /\ screen'.busy = screen.busy /\ screen'.overtaken = reads[i].behind
    BY <1>2, <2>2 DEF Screens
  <2>4. screen'.pool <= version /\ screen'.pool >= reads[i].since
    BY <1>2, <2>1, <2>3
  <2>5. QED
    BY <1>2, <2>1, <2>2, <2>3, <2>4, EndedRead
<1>6. ASSUME NEW i \in DOMAIN reads, Pages!Fails(i)
      PROVE  PagesInv'
  <2>1. i \in 1 .. Len(reads)
    BY <1>2 DEF PagesTypes
  <2>2. /\ reads' = Pages!Without(i)
        /\ UNCHANGED <<version, key, notes, shown, working, floor>>
    BY <1>6 DEF Pages!Fails
  <2>3. /\ screen'.pool = IF shown = "terminal" THEN screen.pool ELSE Nil
        /\ screen'.error = (shown = "terminal")
        /\ screen'.busy = screen.busy /\ screen'.overtaken = reads[i].behind
    BY <1>2, <1>6 DEF Pages!Fails, Screens
  <2>4. screen'.pool # Nil => screen'.pool <= version
    BY <1>2, <2>3 DEF PagesTypes
  <2>5. Pages!SaysUnread'
    BY <2>3 DEF Pages!SaysUnread
  <2>6. QED
    BY <1>2, <2>1, <2>2, <2>3, <2>4, <2>5, EndedRead
<1>7. ASSUME Pages!PoolMoves
      PROVE  PagesInv'
  BY <1>2, <1>7, SameReads DEF Pages!PoolMoves
<1>8. ASSUME Pages!RevealTotal \/ Pages!OpenShield \/ Pages!CloseShield
               \/ Pages!CloseSettle
      PROVE  PagesInv'
  <2>1. /\ screen'.busy \subseteq screen.busy
        /\ screen'.pool = screen.pool /\ screen'.error = screen.error
        /\ screen'.overtaken = screen.overtaken
    <3>1. CASE Pages!RevealTotal
      BY <1>2, <3>1 DEF Pages!RevealTotal, Pages!Set, Screens
    <3>2. CASE Pages!OpenShield
      BY <1>2, <3>2 DEF Pages!OpenShield, Pages!Set, Screens
    <3>3. CASE Pages!CloseShield
      BY <1>2, <3>3 DEF Pages!CloseShield, Screens
    <3>4. CASE Pages!CloseSettle
      BY <1>2, <3>4 DEF Pages!CloseSettle, Pages!Set, Screens
    <3>5. QED
      BY <1>8, <3>1, <3>2, <3>3, <3>4
  <2>2. UNCHANGED <<version, key, notes, shown, reads, working, floor>>
    BY <1>8 DEF Pages!RevealTotal, Pages!OpenShield, Pages!CloseShield,
                Pages!CloseSettle, Pages!Set
  <2>3. QED
    BY <1>2, <2>1, <2>2, SameReads
<1>9. ASSUME NEW note \in Notes, Pages!ToggleRow(note) \/ Pages!OpenSettle(note)
      PROVE  PagesInv'
  <2>1. /\ screen'.busy = screen.busy
        /\ screen'.pool = screen.pool /\ screen'.error = screen.error
        /\ screen'.overtaken = screen.overtaken
    <3>1. CASE Pages!ToggleRow(note)
      BY <1>2, <3>1 DEF Pages!ToggleRow, Pages!Set, Screens
    <3>2. CASE Pages!OpenSettle(note)
      BY <1>2, <3>2 DEF Pages!OpenSettle, Pages!Set, Screens
    <3>3. QED
      BY <1>9, <3>1, <3>2
  <2>2. UNCHANGED <<version, key, notes, shown, reads, working, floor>>
    BY <1>9 DEF Pages!ToggleRow, Pages!OpenSettle, Pages!Set
  <2>3. QED
    BY <1>2, <2>1, <2>2, SameReads
<1>10. ASSUME NEW note \in Notes, Pages!Submit(note)
       PROVE  PagesInv'
  <2>1. /\ screen'.busy = screen.busy \cup {note}
        /\ screen'.pool = screen.pool /\ screen'.error = screen.error
        /\ screen'.overtaken = screen.overtaken
    BY <1>2, <1>10 DEF Pages!Submit, Screens
  <2>2. /\ working' = working \cup {note}
        /\ UNCHANGED <<version, key, notes, shown, reads, floor>>
    BY <1>10 DEF Pages!Submit
  <2>3. QED
    BY <1>2, <2>1, <2>2, SameReads
<1>11. ASSUME NEW note \in Notes, Pages!NotDone(note)
       PROVE  PagesInv'
  <2>1. /\ screen'.busy = screen.busy \ {note}
        /\ screen'.pool = screen.pool /\ screen'.error = screen.error
        /\ screen'.overtaken = screen.overtaken
    BY <1>2, <1>11 DEF Pages!NotDone, Screens
  <2>2. /\ working' = working \ {note}
        /\ UNCHANGED <<version, key, notes, shown, reads, floor>>
    BY <1>11 DEF Pages!NotDone
  <2>3. QED
    BY <1>2, <2>1, <2>2, SameReads
<1>12. ASSUME NEW note \in Notes, Pages!Done(note)
       PROVE  PagesInv'
  <2> DEFINE read == [since |-> version', source |-> "funded", behind |-> FALSE]
  <2>1. /\ Len(reads) < MaxReads /\ version' = version + 1 /\ floor' = version'
        /\ version < MaxVersion /\ working' = working \ {note}
        /\ reads' = Append(reads, read) /\ screen' = Pages!Settled(note)
        /\ notes' = IF note \in notes THEN notes \ {note} ELSE notes \cup {note}
        /\ UNCHANGED <<key, shown>>
    BY <1>12 DEF Pages!Done, Pages!CanRead
  <2>2. read \in Reads /\ read.since = floor' /\ ~read.behind
    BY <1>2, <2>1 DEF Reads, Pages!Wallets
  <2>3. /\ screen'.pool = screen.pool
        /\ screen'.busy = IF note \notin notes THEN screen.busy \cap notes
                          ELSE screen.busy \ notes
    BY <1>2, <2>1 DEF Pages!Settled, Screens
  <2>4. screen'.busy \subseteq working'
    BY <1>2, <2>1, <2>3
  <2> HIDE DEF read
  <2>5. QED
    BY <1>2, <2>1, <2>2, <2>3, <2>4, IssuedRead
<1>13. QED
  BY <1>3, <1>4, <1>5, <1>6, <1>7, <1>8, <1>9, <1>10, <1>11, <1>12
     DEF Pages!Next, Pages!ReadEnds

\* A step of this module is one of the part the behaviour is about.
LEMMA PartStep ==
  ASSUME [Next]_vars
  PROVE  /\ part' = part
         /\ part = "pages" => [Pages!Next]_(Pages!vars)
         /\ part # "pages" => UNCHANGED Pages!vars
         /\ part = "disclosure" => [Disclosure!Next]_(Disclosure!vars)
         /\ part = "shell" => [Shell!Next]_(Shell!vars)
         /\ part = "backdrops" => [Backdrops!Next]_(Backdrops!vars)
         /\ part = "widgets" => [Widgets!Next]_(Widgets!vars)
         /\ part = "landing" => [Landing!Next]_(Landing!vars)
<1>1. CASE UNCHANGED vars
  BY <1>1 DEF vars, ofPages, ofDisclosure, ofShell, ofBackdrops, ofWidgets,
              ofLanding, Pages!vars, Disclosure!vars, Disclosure!pool,
              Shell!vars, Backdrops!vars, Widgets!vars, Landing!vars
<1>2. CASE OnlyPages /\ Pages!Next
  BY <1>2 DEF OnlyPages
<1>3. CASE OnlyDisclosure /\ Disclosure!Next
  BY <1>3 DEF OnlyDisclosure, ofPages, Pages!vars
<1>4. CASE OnlyShell /\ Shell!Next
  BY <1>4 DEF OnlyShell, ofPages, Pages!vars
<1>5. CASE OnlyBackdrops /\ Backdrops!Next
  BY <1>5 DEF OnlyBackdrops, ofPages, Pages!vars
<1>6. CASE OnlyWidgets /\ Widgets!Next
  BY <1>6 DEF OnlyWidgets, ofPages, Pages!vars
<1>7. CASE OnlyLanding /\ Landing!Next
  BY <1>7 DEF OnlyLanding, ofPages, Pages!vars
<1>8. QED
  BY <1>1, <1>2, <1>3, <1>4, <1>5, <1>6, <1>7 DEF Next

\* A behaviour is about the part it begins with.
LEMMA PartInit ==
  ASSUME Init
  PROVE  /\ part = "pages" => Pages!Init
         /\ part = "disclosure" => Disclosure!Init
         /\ part = "shell" => Shell!Init
         /\ part = "backdrops" => Backdrops!Init
         /\ part = "widgets" => Widgets!Init
         /\ part = "landing" => Landing!Init
  BY DEF Init

\* The inductive invariant of the pages.
LEMMA PagesInvariant == Spec => [](part = "pages" => PagesInv)
<1>1. Init => (part = "pages" => PagesInv)
  BY PartInit, PagesInit
<1>2. (part = "pages" => PagesInv) /\ [Next]_vars
        => (part = "pages" => PagesInv)'
  BY PartStep, PagesStep
<1>3. QED
  BY <1>1, <1>2, PTL DEF Spec

(***************************************************************************)
(* A page of which every read was answered is no older than what it was    *)
(* opened for, the last change of the wallet or the last settlement, or    *)
(* says that it could not read the pool, or an answer to an earlier read   *)
(* came after that to a later one (page.tsx, terminal/page.tsx and         *)
(* assets/page.tsx of web/app/app).                                        *)
(***************************************************************************)
THEOREM PagesAreCurrent == Spec => []QuietPageIsCurrent
<1>1. (part = "pages" => PagesInv) => QuietPageIsCurrent
  <2> SUFFICES ASSUME PagesInv, shown \in Pages!ReadingPages, reads = << >>
               PROVE  screen.overtaken \/ Pages!SaysUnread \/ screen.pool >= floor
    BY DEF QuietPageIsCurrent, Pages!QuietPageIsCurrent
  <2>1. ~LastIsAwaited
    BY DEF LastIsAwaited
  <2>2. QED
    BY <2>1 DEF PagesInv, Current, LastIsAnswered
<1>2. QED
  BY <1>1, PagesInvariant, PTL

(***************************************************************************)
(* The terminal never hides a value it has shown (terminal/page.tsx,       *)
(* showPoolSk): no answer, failure, settlement or change of wallet does.   *)
(***************************************************************************)
THEOREM PagesDoNotFlicker == Spec => NoFlicker
<1> DEFINE Kept == shown = "terminal" /\ shown' = "terminal"
                     /\ Pages!PoolShown # Nil => (Pages!PoolShown # Nil)'
<1>1. ASSUME PagesTypes, shown = "terminal"
      PROVE  Pages!PoolShown = screen.pool
  <2>1. Pages!PoolShown = Pages!TerminalView.pool
    BY <1>1 DEF Pages!PoolShown, Pages!View, Pages!ReadingPages, Pages!Following
  <2>2. Pages!TerminalView.pool =
          IF screen.loading /\ screen.pool = Nil THEN Nil ELSE screen.pool
    BY DEF Pages!TerminalView, Pages!Tiles
  <2>3. QED
    BY <2>1, <2>2
<1>2. ASSUME PagesInv, Pages!Next, shown = "terminal", shown' = "terminal",
             screen.pool # Nil
      PROVE  screen'.pool # Nil
  <2>1. screen \in Screens /\ Nil \notin Nat
    BY <1>2, PagesConstants DEF PagesInv, PagesTypes
  <2>2. ASSUME NEW p \in Pages!ReadingPages \cup {"elsewhere"}, Pages!Visit(p)
        PROVE  FALSE
    BY <1>2, <2>2 DEF Pages!Visit
  <2>3. ASSUME NEW w \in Pages!Wallets, Pages!WalletChanges(w)
        PROVE  screen'.pool = screen.pool
    BY <1>2, <2>1, <2>3 DEF Pages!WalletChanges, Pages!Following, Screens
  <2>4. ASSUME NEW i \in DOMAIN reads, Pages!Answered(i)
        PROVE  screen'.pool \in Nat
    <3>1. i \in 1 .. Len(reads) /\ reads[i].since \in Nat /\ version \in Nat
      BY <1>2, PagesValues DEF PagesInv, PagesTypes
    <3>2. screen'.pool \in reads[i].since .. version
      BY <2>1, <2>4 DEF Pages!Answered, Screens
    <3>3. QED
      BY <3>1, <3>2
  <2>5. ASSUME NEW i \in DOMAIN reads, Pages!Fails(i)
        PROVE  screen'.pool = screen.pool
    BY <1>2, <2>1, <2>5 DEF Pages!Fails, Screens
  <2>6. ASSUME Pages!RevealTotal \/ Pages!OpenShield \/ Pages!CloseShield
                 \/ Pages!CloseSettle \/ Pages!PoolMoves
        PROVE  screen'.pool = screen.pool
    BY <2>1, <2>6 DEF Pages!RevealTotal, Pages!OpenShield, Pages!CloseShield,
                      Pages!CloseSettle, Pages!PoolMoves, Pages!Set, Screens
  <2>7. ASSUME NEW note \in Notes,
               \/ Pages!ToggleRow(note) \/ Pages!OpenSettle(note)
               \/ Pages!Submit(note) \/ Pages!NotDone(note)
        PROVE  screen'.pool = screen.pool
    BY <2>1, <2>7 DEF Pages!ToggleRow, Pages!OpenSettle, Pages!Submit,
                      Pages!NotDone, Pages!Set, Screens
  <2>8. ASSUME NEW note \in Notes, Pages!Done(note)
        PROVE  screen'.pool = screen.pool
    BY <2>1, <2>8 DEF Pages!Done, Pages!Settled, Screens
  <2>9. QED
    BY <1>2, <2>1, <2>2, <2>3, <2>4, <2>5, <2>6, <2>7, <2>8
       DEF Pages!Next, Pages!ReadEnds
<1>3. (part = "pages" => PagesInv) /\ (part = "pages" => PagesInv)' /\ [Next]_vars
        => [Kept]_(Pages!vars)
  <2> SUFFICES ASSUME part = "pages" => PagesInv, (part = "pages" => PagesInv)',
                      [Next]_vars, ~UNCHANGED Pages!vars,
                      shown = "terminal", shown' = "terminal",
                      Pages!PoolShown # Nil
               PROVE  (Pages!PoolShown # Nil)'
    OBVIOUS
  <2>1. PagesInv /\ PagesInv' /\ Pages!Next
    BY PartStep
  <2>2. screen.pool # Nil
    BY <1>1, <2>1 DEF PagesInv
  <2>3. screen'.pool # Nil
    BY <1>2, <2>1, <2>2
  <2>4. (Pages!PoolShown = screen.pool)'
    <3>1. (PagesTypes /\ shown = "terminal" => Pages!PoolShown = screen.pool)'
      BY <1>1, PTL
    <3>2. QED
      BY <2>1, <3>1 DEF PagesInv
  <2>5. QED
    BY <2>3, <2>4
<1>4. QED
  BY <1>3, PagesInvariant, PTL DEF Spec, NoFlicker, Pages!NoFlicker

-----------------------------------------------------------------------------
(* The disclosure page, and the pool below it.                             *)

\* The pool's constants are as ShieldedPool assumes: what its theorems rest on.
LEMMA PoolConstants == PoolProofs!Sizes /\ PoolProofs!PoolParameters
<1>1. PoolProofs!Note = Disclosure!Pool!Note
  BY DEF Disclosure!Pool!Note, PoolProofs!Note, Disclosure!Pool!Field,
         PoolProofs!Field
<1>2. Disclosure!Pool!Sizes /\ Disclosure!Pool!PoolParameters
  BY WebAssumption DEF Disclosure!DisclosureAssumption
<1>3. QED
  BY <1>1, <1>2
     DEF Disclosure!Pool!Sizes, PoolProofs!Sizes, Disclosure!Pool!PoolParameters,
         PoolProofs!PoolParameters

\* The two instances of ShieldedPool have the same operators: first those that
\* name no successor state,
LEMMA SameChecks ==
  /\ \A root : Disclosure!Pool!RootIsKnown(root) = PoolProofs!RootIsKnown(root)
  /\ \A tree : Disclosure!Pool!Leaves(tree) = PoolProofs!Leaves(tree)
  /\ \A checks : Disclosure!Pool!Succeeds(checks) <=> PoolProofs!Succeeds(checks)
  /\ \A from, amount : Disclosure!Pool!DepositChecks(from, amount)
                         = PoolProofs!DepositChecks(from, amount)
  /\ \A to, sig : Disclosure!Pool!WithdrawChecks(to, sig)
                    = PoolProofs!WithdrawChecks(to, sig)
  /\ \A sig : Disclosure!Pool!MembershipChecks(sig) = PoolProofs!MembershipChecks(sig)
<1>1. \A checks : Disclosure!Pool!Outcome(checks) = PoolProofs!Outcome(checks)
  BY DEF Disclosure!Pool!Outcome, PoolProofs!Outcome
<1>2. /\ \A holds, error :
           Disclosure!Pool!Check(holds, error) = PoolProofs!Check(holds, error)
      /\ \A root : Disclosure!Pool!RootIsKnown(root) = PoolProofs!RootIsKnown(root)
      /\ \A tree : Disclosure!Pool!HasRoom(tree) = PoolProofs!HasRoom(tree)
      /\ \A tree : Disclosure!Pool!Leaves(tree) = PoolProofs!Leaves(tree)
  BY DEF Disclosure!Pool!Check, PoolProofs!Check, Disclosure!Pool!RootIsKnown,
         PoolProofs!RootIsKnown, Disclosure!Pool!HasRoom, PoolProofs!HasRoom,
         Disclosure!Pool!Leaves, PoolProofs!Leaves
<1>3. /\ \A sig : Disclosure!Pool!WithdrawCircuit(sig) = PoolProofs!WithdrawCircuit(sig)
      /\ \A sig : Disclosure!Pool!MembershipCircuit(sig)
                    = PoolProofs!MembershipCircuit(sig)
  BY <1>2 DEF Disclosure!Pool!WithdrawCircuit, PoolProofs!WithdrawCircuit,
              Disclosure!Pool!MembershipCircuit, PoolProofs!MembershipCircuit
<1>4. QED
  BY <1>1, <1>2, <1>3
     DEF Disclosure!Pool!Succeeds, PoolProofs!Succeeds,
         Disclosure!Pool!DepositChecks, PoolProofs!DepositChecks,
         Disclosure!Pool!WithdrawChecks, PoolProofs!WithdrawChecks,
         Disclosure!Pool!MembershipChecks, PoolProofs!MembershipChecks

\* then the calls that others make while the page is open.
LEMMA SameCalls ==
  /\ \A from, amount, nullifier :
       Disclosure!Pool!Deposit(from, amount, nullifier)
         => PoolProofs!Deposit(from, amount, nullifier)
  /\ \A to, sig : Disclosure!Pool!Withdraw(to, sig) => PoolProofs!Withdraw(to, sig)
  /\ \A root :
       Disclosure!Pool!SetApprovalRoot(root) => PoolProofs!SetApprovalRoot(root)
<1>1. ASSUME NEW from, NEW amount, NEW nullifier,
             Disclosure!Pool!Deposit(from, amount, nullifier)
      PROVE  PoolProofs!Deposit(from, amount, nullifier)
  <2>1. /\ Disclosure!Pool!RecordRoot(leaves') = PoolProofs!RecordRoot(leaves')
        /\ \A tree, leaf : Disclosure!Pool!MerkleInsert(tree, leaf)
             = PoolProofs!MerkleInsert(tree, leaf)
    BY DEF Disclosure!Pool!RecordRoot, PoolProofs!RecordRoot,
           Disclosure!Pool!MerkleInsert, PoolProofs!MerkleInsert
  <2>2. QED
    BY <1>1, <2>1, SameChecks DEF Disclosure!Pool!Deposit, PoolProofs!Deposit
<1>2. \A to, sig : Disclosure!Pool!Withdraw(to, sig) => PoolProofs!Withdraw(to, sig)
  BY SameChecks DEF Disclosure!Pool!Withdraw, PoolProofs!Withdraw
<1>3. \A root :
        Disclosure!Pool!SetApprovalRoot(root) => PoolProofs!SetApprovalRoot(root)
  BY DEF Disclosure!Pool!SetApprovalRoot, PoolProofs!SetApprovalRoot,
         Disclosure!Pool!tokens, PoolProofs!tokens
<1>4. QED
  BY <1>1, <1>2, <1>3

\* What the page and the others do to the pool are calls of its contract.
LEMMA DisclosurePoolStep ==
  ASSUME leaves \in Seq(PoolProofs!Note), [Disclosure!Next]_(Disclosure!vars)
  PROVE  /\ [PoolProofs!Next]_(PoolProofs!vars)
         /\ leaves' \in Seq(PoolProofs!Note)
<1>1. UNCHANGED Disclosure!pool => UNCHANGED PoolProofs!vars
  BY DEF Disclosure!pool, PoolProofs!vars, PoolProofs!contract, PoolProofs!tokens
<1>2. ASSUME NEW from \in Accounts, NEW amount \in Amounts,
             NEW nullifier \in Nullifiers,
             Disclosure!Pool!Deposit(from, amount, nullifier)
      PROVE  PoolProofs!Next /\ leaves' \in Seq(PoolProofs!Note)
  <2>1. PoolProofs!Deposit(from, amount, nullifier)
    BY <1>2, SameCalls
  <2>2. amount > 0
    BY <2>1, PoolConstants, PoolProofs!DepositConditions DEF PoolProofs!Deposit
  <2>3. amount \in PoolProofs!Field
    BY <2>2, PoolConstants
       DEF PoolProofs!Sizes, PoolProofs!PoolParameters, PoolProofs!Field
  <2>4. [nullifier |-> nullifier, value |-> amount] \in PoolProofs!Note
    BY <2>3 DEF PoolProofs!Note
  <2>5. leaves' \in Seq(PoolProofs!Note)
    BY <2>1, <2>4 DEF PoolProofs!Deposit, PoolProofs!MerkleInsert
  <2>6. QED
    BY <2>1, <2>5 DEF PoolProofs!Next
<1>3. ASSUME NEW to \in Accounts, NEW note \in Disclosure!Pool!Leaves(leaves),
             Disclosure!Pool!Withdraw(to, [nullifierHash |-> note.nullifier,
               withdrawnValue |-> note.value, stateRoot |-> leaves,
               recipient |-> to])
      PROVE  PoolProofs!Next /\ leaves' = leaves
  <2> DEFINE sig == [nullifierHash |-> note.nullifier,
                     withdrawnValue |-> note.value, stateRoot |-> leaves,
                     recipient |-> to]
  <2>1. PoolProofs!Withdraw(to, sig)
    BY <1>3, SameCalls
  <2>2. note \in PoolProofs!Note
    BY DEF Disclosure!Pool!Leaves
  <2>3. leaves \in PoolProofs!Snapshots
    <3>1. Len(leaves) \in 0 .. Len(leaves) /\ SubSeq(leaves, 1, Len(leaves)) = leaves
      OBVIOUS
    <3>2. QED
      BY <3>1 DEF PoolProofs!Snapshots
  <2>4. sig \in PoolProofs!WithdrawSignals
    BY <2>2, <2>3 DEF PoolProofs!WithdrawSignals, PoolProofs!Note
  <2> HIDE DEF sig
  <2>5. QED
    BY <2>1, <2>4 DEF PoolProofs!Next, PoolProofs!Withdraw
<1>4. ASSUME NEW root \in ApprovalRoots, Disclosure!Pool!SetApprovalRoot(root)
      PROVE  PoolProofs!Next /\ leaves' = leaves
  <2>1. PoolProofs!SetApprovalRoot(root)
    BY <1>4, SameCalls
  <2>2. QED
    BY <2>1 DEF PoolProofs!Next, PoolProofs!SetApprovalRoot
<1>5. \/ UNCHANGED Disclosure!pool
      \/ Disclosure!Deposits \/ Disclosure!Withdrawals \/ Disclosure!Repins
  BY DEF Disclosure!Next, Disclosure!vars, Disclosure!Open, Disclosure!Leave,
         Disclosure!Answer, Disclosure!PoolRead, Disclosure!PoolReadFails,
         Disclosure!Disclose, Disclosure!Progress, Disclosure!Prove,
         Disclosure!CheckOnChain, Disclosure!CheckLocally, Disclosure!Finish,
         Disclosure!Throws, Disclosure!Show
<1>6. QED
  BY <1>1, <1>2, <1>3, <1>4, <1>5
     DEF Disclosure!Deposits, Disclosure!Withdrawals, Disclosure!Repins,
         Disclosure!pool

(***************************************************************************)
(* The pool that the disclosure page reads and asks (fetchPoolState,       *)
(* verifyMembershipOnChain) is the contract of ShieldedPool: nothing the   *)
(* page does changes it, and what others do meanwhile are calls of it.     *)
(***************************************************************************)
THEOREM DisclosureRunsPool == Spec /\ part = "disclosure" => PoolProofs!Spec
<1> DEFINE Typed == part = "disclosure" => leaves \in Seq(PoolProofs!Note)
<1>1. Init /\ part = "disclosure" =>
        PoolProofs!Init /\ leaves \in Seq(PoolProofs!Note)
  <2> SUFFICES ASSUME Disclosure!Init
               PROVE  PoolProofs!Init /\ leaves \in Seq(PoolProofs!Note)
    BY PartInit
  <2>1. QED
    BY DEF Disclosure!Init, Disclosure!Pool!Init, PoolProofs!Init,
           Disclosure!Pool!EmptyRoot, PoolProofs!EmptyRoot
<1>2. Typed /\ [Next]_vars => Typed'
  BY PartStep, DisclosurePoolStep
<1>3. Typed /\ part = "disclosure" /\ [Next]_vars
        => [PoolProofs!Next]_(PoolProofs!vars)
  BY PartStep, DisclosurePoolStep
<1>4. [Next]_vars => ((part = "disclosure")' <=> part = "disclosure")
  BY PartStep
<1> HIDE DEF Typed
<1>5. Init => Typed
  BY <1>1 DEF Typed
<1>6. QED
  BY <1>1, <1>2, <1>3, <1>4, <1>5, PTL DEF Spec, PoolProofs!Spec

\* So the pool keeps ShieldedPool's inductive invariant.
LEMMA DisclosurePoolInvariant ==
  Spec => [](part = "disclosure" => PoolProofs!PoolInv)
<1>1. [Next]_vars => ((part = "disclosure")' <=> part = "disclosure")
  BY PartStep
<1>2. PoolProofs!Spec => []PoolProofs!PoolInv
  BY PoolConstants, PoolProofs!PoolInvariant
<1>3. QED
  BY <1>1, <1>2, DisclosureRunsPool, PTL DEF Spec

(***************************************************************************)
(* So a position that the page discloses stays what the contract promised: *)
(* the balance covers all live notes, each of them can be withdrawn, and   *)
(* an accepted proof is about a note of this pool in the set it names.     *)
(***************************************************************************)
THEOREM DisclosureKeepsPromises ==
  Spec => [](part = "disclosure" =>
               /\ PoolProofs!Solvent /\ PoolProofs!Redeemable
               /\ PoolProofs!Disclosable /\ PoolProofs!DisclosureIsAnchored)
<1>1. [Next]_vars => ((part = "disclosure")' <=> part = "disclosure")
  BY PartStep
<1>2. PoolProofs!Spec => []PoolProofs!Solvent /\ []PoolProofs!Redeemable
  BY PoolConstants, PoolProofs!PoolSolvent, PoolProofs!PoolRedeemable
<1>3. PoolProofs!Spec =>
        []PoolProofs!Disclosable /\ []PoolProofs!DisclosureIsAnchored
  BY PoolConstants, PoolProofs!PoolDisclosable, PoolProofs!PoolDisclosureIsAnchored
<1>4. QED
  BY <1>1, <1>2, <1>3, DisclosureRunsPool, PTL DEF Spec

\* What the disclosure page holds: the pool as read, and the last verdict.
Views ==
  [open : BOOLEAN, notes : SUBSET PoolProofs!Note,
   commitments : {Nil} \cup Seq(PoolProofs!Note), since : Nat,
   busy : PoolProofs!Note \cup {Nil},
   result : {Nil}
     \cup [kind : {"error"}, note : PoolProofs!Note]
     \cup [kind : {"ok"}, note : PoolProofs!Note, onchain : BOOLEAN,
           local : BOOLEAN, recent : BOOLEAN]]

\* A disclosure under way, and what its two checks have come to.
Disclosing ==
  [stage : {"proving", "checking"}, onchain : {"asked", "ok", "refused"},
   local : {"asked", "ok"}, recent : BOOLEAN]

\* The root the page proves from has left the window of the contract.
Stale == ~PoolProofs!RootIsKnown(view.commitments)

\* What the page has read is an earlier tree of the pool, or this one.
ReadEarlier ==
  view.commitments # Nil =>
    \E n \in 0 .. Len(leaves) : view.commitments = SubSeq(leaves, 1, n)

\* A disclosure under way is of a note that is in what was read, and what the
\* contract said, or would have said at the click, is still so.
CallIsSound ==
  IF view.busy = Nil THEN call = Disclosure!Idle
  ELSE /\ call \in Disclosing
       /\ view.busy \in view.notes /\ view.result = Nil
       /\ view.commitments # Nil
       /\ view.busy \in PoolProofs!Leaves(view.commitments)
       /\ call.onchain = "ok" => call.recent
       /\ call.onchain = "refused" \/ ~call.recent => Stale

\* A verdict on the screen was sound, and still is.
ResultIsSound ==
  Disclosure!ShowsVerdict =>
    /\ view.commitments # Nil
    /\ view.result.local
    /\ view.result.note \in PoolProofs!Leaves(leaves)
    /\ view.result.onchain => view.result.recent
    /\ ~view.result.onchain => Stale

\* What every step of the pool and of the page keeps.
DisclosureInv ==
  view \in Views /\ ReadEarlier /\ CallIsSound /\ ResultIsSound

\* The names of this module for the pool of the page, and None is no note.
LEMMA DisclosureConstants ==
  /\ Nil \notin PoolProofs!Note
  /\ Disclosure!Pool!Note = PoolProofs!Note
<1>1. PoolProofs!Note = Disclosure!Pool!Note
  BY DEF Disclosure!Pool!Note, PoolProofs!Note, Disclosure!Pool!Field,
         PoolProofs!Field
<1>2. QED
  BY <1>1, WebAssumption DEF Disclosure!DisclosureAssumption

\* A call under way is not idle.
LEMMA DisclosingIsNotIdle ==
  \A c \in Disclosing : c # Disclosure!Idle /\ c.stage # "idle"
<1>1. \A c \in Disclosing : c.stage # "idle"
  BY DEF Disclosing
<1>2. Disclosure!Idle.stage = "idle"
  BY DEF Disclosure!Idle
<1>3. QED
  BY <1>1, <1>2

\* A part of a tree is a tree, with notes of it alone.
LEMMA PartOfTree ==
  ASSUME leaves \in Seq(PoolProofs!Note), NEW n \in 0 .. Len(leaves)
  PROVE  /\ SubSeq(leaves, 1, n) \in Seq(PoolProofs!Note)
         /\ Len(SubSeq(leaves, 1, n)) = n
         /\ PoolProofs!Leaves(SubSeq(leaves, 1, n)) \subseteq PoolProofs!Leaves(leaves)
<1> DEFINE some == SubSeq(leaves, 1, n)
<1>1. /\ some \in Seq(PoolProofs!Note) /\ Len(some) = n
      /\ \A i \in 1 .. n : some[i] = leaves[i]
  OBVIOUS
<1> HIDE DEF some
<1>2. PoolProofs!Leaves(some) \subseteq PoolProofs!Leaves(leaves)
  BY <1>1 DEF PoolProofs!Leaves
<1>3. QED
  BY <1>1, <1>2 DEF some

\* What others do to the pool keeps an older tree older, and a root that has
\* left the window out of it.
LEMMA PoolGoesOn ==
  ASSUME PoolProofs!PoolInv, PoolProofs!PoolInv',
         Disclosure!Deposits \/ Disclosure!Withdrawals \/ Disclosure!Repins,
         NEW n \in 0 .. Len(leaves)
  PROVE  /\ \E m \in 0 .. Len(leaves') : SubSeq(leaves', 1, m) = SubSeq(leaves, 1, n)
         /\ PoolProofs!Leaves(leaves) \subseteq PoolProofs!Leaves(leaves')
         /\ ~PoolProofs!RootIsKnown(SubSeq(leaves, 1, n))
              => ~PoolProofs!RootIsKnown(SubSeq(leaves, 1, n))'
<1>1. /\ leaves \in Seq(PoolProofs!Note) /\ leaves' \in Seq(PoolProofs!Note)
      /\ roots \in Seq(Seq(PoolProofs!Note)) /\ roots' \in Seq(Seq(PoolProofs!Note))
      /\ Len(leaves) \in Nat
  BY DEF PoolProofs!PoolInv, PoolProofs!TypeOK
<1>2. CASE Disclosure!Withdrawals \/ Disclosure!Repins
  <2>1. UNCHANGED <<leaves, roots>>
    BY <1>2 DEF Disclosure!Withdrawals, Disclosure!Repins,
                Disclosure!Pool!Withdraw, Disclosure!Pool!SetApprovalRoot
  <2>2. QED
    BY <2>1 DEF PoolProofs!RootIsKnown
<1>3. CASE Disclosure!Deposits
  <2>1. PICK from \in Accounts, amount \in Amounts, nullifier \in Nullifiers :
          Disclosure!Pool!Deposit(from, amount, nullifier)
    BY <1>3 DEF Disclosure!Deposits
  <2>2. PoolProofs!Deposit(from, amount, nullifier)
    BY <2>1, SameCalls
  <2> DEFINE note == [nullifier |-> nullifier, value |-> amount]
  <2>3. leaves' = Append(leaves, note) /\ roots' = PoolProofs!RecordRoot(leaves')
    BY <2>2 DEF PoolProofs!Deposit, PoolProofs!MerkleInsert
  <2> HIDE DEF note
  <2>4. /\ Len(leaves') = Len(leaves) + 1
        /\ \A i \in 1 .. Len(leaves) : leaves'[i] = leaves[i]
    BY <1>1, <2>3
  <2>5. PoolProofs!Leaves(leaves) \subseteq PoolProofs!Leaves(leaves')
    <3>1. /\ DOMAIN leaves = 1 .. Len(leaves)
          /\ DOMAIN leaves' = 1 .. Len(leaves) + 1
      BY <1>1, <2>4
    <3>2. \A i \in DOMAIN leaves : i \in DOMAIN leaves' /\ leaves'[i] = leaves[i]
      BY <1>1, <2>4, <3>1
    <3>3. QED
      BY <3>2 DEF PoolProofs!Leaves
  <2>6. n \in 0 .. Len(leaves') /\ SubSeq(leaves', 1, n) = SubSeq(leaves, 1, n)
    BY <1>1, <2>4
  <2>7. ASSUME PoolProofs!RootIsKnown(SubSeq(leaves, 1, n))'
        PROVE  PoolProofs!RootIsKnown(SubSeq(leaves, 1, n))
    <3> DEFINE new == PoolProofs!RecordRoot(leaves')
    <3>1. PoolProofs!Window
      BY DEF PoolProofs!PoolInv, PoolProofs!TypeOK, PoolProofs!Window
    <3>2. /\ Len(new) \in 1 .. RootHistorySize
          /\ new[Len(new)] = leaves'
          /\ \A i \in 1 .. Len(new) - 1 :
               \E j \in 1 .. Len(roots) : new[i] = roots[j]
      BY <1>1, <3>1, PoolConstants, PoolProofs!RecordRootWindow
    <3> HIDE DEF new
    <3>3. PICK i \in 1 .. Len(roots') : roots'[i] = SubSeq(leaves', 1, n)
      <4>1. DOMAIN roots' = 1 .. Len(roots')
        BY <1>1
      <4>2. \E i \in DOMAIN roots' : roots'[i] = SubSeq(leaves', 1, n)
        BY <2>7 DEF PoolProofs!RootIsKnown
      <4>3. QED
        BY <4>1, <4>2
    <3>4. Len(SubSeq(leaves', 1, n)) = n
      BY <1>1, <2>6
    <3>5. i # Len(new)
      BY <1>1, <2>3, <2>4, <3>2, <3>3, <3>4 DEF new
    <3>6. i \in 1 .. Len(new) - 1 /\ new = roots'
      BY <2>3, <3>2, <3>3, <3>5 DEF new
    <3>7. PICK j \in 1 .. Len(roots) : SubSeq(leaves, 1, n) = roots[j]
      BY <2>6, <3>2, <3>3, <3>6
    <3>8. QED
      BY <1>1, <3>7 DEF PoolProofs!RootIsKnown
  <2>8. QED
    BY <2>5, <2>6, <2>7
<1>4. QED
  BY <1>2, <1>3

\* Disclosure!Init.
LEMMA DisclosureInit == Disclosure!Init => DisclosureInv
<1> SUFFICES ASSUME Disclosure!Init PROVE DisclosureInv
  OBVIOUS
<1>1. leaves = << >>
  BY DEF Disclosure!Init, Disclosure!Pool!Init
<1>2. view = [open |-> FALSE, notes |-> {}, commitments |-> Nil, since |-> 0,
              busy |-> Nil, result |-> Nil]
  BY <1>1 DEF Disclosure!Init, Disclosure!Mounted
<1>3. view \in Views
  BY <1>2 DEF Views
<1>4. call = Disclosure!Idle
  BY DEF Disclosure!Init
<1>5. QED
  BY <1>2, <1>3, <1>4
     DEF DisclosureInv, ReadEarlier, CallIsSound, ResultIsSound,
         Disclosure!ShowsVerdict

\* The page is opened or left: it starts from nothing.
LEMMA MountStep ==
  ASSUME leaves \in Seq(PoolProofs!Note), Disclosure!Open \/ Disclosure!Leave
  PROVE  DisclosureInv'
<1>1. \E onPage \in BOOLEAN, list \in SUBSET PoolProofs!Note :
        view' = [open |-> onPage, notes |-> list, commitments |-> Nil,
                 since |-> Len(leaves), busy |-> Nil, result |-> Nil]
  <2>1. Disclosure!Stored \in SUBSET PoolProofs!Note
    BY DEF Disclosure!Stored, Disclosure!Pool!Leaves
  <2>2. CASE Disclosure!Open
    BY <2>1, <2>2 DEF Disclosure!Open, Disclosure!Mounted
  <2>3. CASE Disclosure!Leave
    BY <2>3 DEF Disclosure!Leave, Disclosure!Mounted
  <2>4. QED
    BY <2>2, <2>3
<1>2. PICK onPage \in BOOLEAN, list \in SUBSET PoolProofs!Note :
        view' = [open |-> onPage, notes |-> list, commitments |-> Nil,
                 since |-> Len(leaves), busy |-> Nil, result |-> Nil]
  BY <1>1
<1>3. Len(leaves) \in Nat
  OBVIOUS
<1>4. view' \in Views
  BY <1>2, <1>3 DEF Views
<1>5. call' = Disclosure!Idle
  BY DEF Disclosure!Open, Disclosure!Leave
<1>6. QED
  BY <1>2, <1>4, <1>5
     DEF DisclosureInv, ReadEarlier, CallIsSound, ResultIsSound,
         Disclosure!ShowsVerdict

\* The read ends, with commitments or with none.
LEMMA AnswerStep ==
  ASSUME leaves \in Seq(PoolProofs!Note), DisclosureInv, Disclosure!Answer
  PROVE  DisclosureInv'
<1>1. /\ view.commitments = Nil /\ view \in Views /\ view.since \in Nat
      /\ UNCHANGED <<leaves, roots, call>>
  BY DEF DisclosureInv, Disclosure!Answer, Disclosure!PoolRead,
         Disclosure!PoolReadFails, Disclosure!Reading, Disclosure!pool, Views
<1>2. \E n \in 0 .. Len(leaves) :
        view' = [view EXCEPT !.commitments = SubSeq(leaves, 1, n)]
  <2>1. CASE Disclosure!PoolRead
    <3>1. PICK n \in view.since .. Len(leaves) :
            view' = [view EXCEPT !.commitments = SubSeq(leaves, 1, n)]
      BY <2>1 DEF Disclosure!PoolRead
    <3>2. n \in 0 .. Len(leaves)
      BY <1>1, <3>1
    <3>3. QED
      BY <3>1, <3>2
  <2>2. CASE Disclosure!PoolReadFails
    <3>1. 0 \in 0 .. Len(leaves) /\ SubSeq(leaves, 1, 0) = << >>
      OBVIOUS
    <3>2. view' = [view EXCEPT !.commitments = << >>]
      BY <2>2 DEF Disclosure!PoolReadFails
    <3>3. QED
      BY <3>1, <3>2
  <2>3. QED
    BY <2>1, <2>2 DEF Disclosure!Answer
<1>3. PICK n \in 0 .. Len(leaves) :
        view' = [view EXCEPT !.commitments = SubSeq(leaves, 1, n)]
  BY <1>2
<1> DEFINE some == SubSeq(leaves, 1, n)
<1>4. some \in Seq(PoolProofs!Note)
  BY PartOfTree
<1>5. view' = [view EXCEPT !.commitments = some]
  BY <1>3
<1>6. ReadEarlier'
  BY <1>1, <1>3 DEF ReadEarlier, Views
<1> HIDE DEF some
<1>7. /\ view' \in Views
      /\ view'.busy = view.busy /\ view'.result = view.result
  BY <1>1, <1>4, <1>5 DEF Views
<1>8. /\ view.busy = Nil /\ call = Disclosure!Idle
      /\ ~Disclosure!ShowsVerdict
  BY <1>1 DEF DisclosureInv, CallIsSound, ResultIsSound
<1>9. CallIsSound' /\ ResultIsSound'
  BY <1>1, <1>7, <1>8
     DEF CallIsSound, ResultIsSound, Disclosure!ShowsVerdict
<1>10. QED
  BY <1>6, <1>7, <1>9 DEF DisclosureInv

\* disclose(): what is asked for is in the tree that was read.
LEMMA DiscloseStep ==
  ASSUME leaves \in Seq(PoolProofs!Note), DisclosureInv,
         NEW note \in view.notes, Disclosure!Disclose(note)
  PROVE  DisclosureInv'
<1>1. /\ view \in Views /\ UNCHANGED <<leaves, roots>>
      /\ note \in Disclosure!Disclosable
      /\ view' = [view EXCEPT !.busy = note, !.result = Nil]
      /\ call' = [stage |-> "proving", onchain |-> "asked", local |-> "asked",
                  recent |-> Disclosure!Pool!RootIsKnown(view.commitments)]
  BY DEF DisclosureInv, Disclosure!Disclose, Disclosure!Buttons, Disclosure!pool
<1>2. /\ view.commitments # Nil /\ note \in PoolProofs!Leaves(view.commitments)
      /\ note \in PoolProofs!Note
  BY <1>1, SameChecks DEF Disclosure!Disclosable, Views
<1>3. /\ view' \in Views /\ view'.busy = note /\ view'.result = Nil
      /\ view'.notes = view.notes /\ view'.commitments = view.commitments
  BY <1>1, <1>2 DEF Views
<1>4. PoolProofs!RootIsKnown(view.commitments) \in BOOLEAN
  BY DEF PoolProofs!RootIsKnown
<1>5. /\ call' \in Disclosing /\ call'.onchain = "asked"
      /\ call'.recent = PoolProofs!RootIsKnown(view.commitments)
  BY <1>1, <1>4, SameChecks DEF Disclosing
<1>6. Stale' <=> Stale
  BY <1>1, <1>3 DEF Stale, PoolProofs!RootIsKnown
<1>7. view'.busy # Nil
  BY <1>2, <1>3, DisclosureConstants
<1>8. CallIsSound'
  BY <1>2, <1>3, <1>5, <1>6, <1>7 DEF CallIsSound, Stale, PoolProofs!Leaves
<1>9. ReadEarlier' /\ ResultIsSound'
  BY <1>1, <1>3 DEF DisclosureInv, ReadEarlier, ResultIsSound,
                    Disclosure!ShowsVerdict
<1>10. QED
  BY <1>3, <1>8, <1>9 DEF DisclosureInv

\* What the contract says of a proof is whether it still knows the root.
LEMMA VerdictIsTheRoots ==
  ASSUME leaves \in Seq(PoolProofs!Note), DisclosureInv, view.busy # Nil
  PROVE  /\ Disclosure!Verdict(Disclosure!Signals) = IF Stale THEN "refused" ELSE "ok"
         /\ Disclosure!Pool!MembershipCircuit(Disclosure!Signals)
<1> DEFINE sig == Disclosure!Signals
<1>1. /\ sig.stateRoot = view.commitments /\ sig.approvalRoot = view.commitments
      /\ view.busy \in PoolProofs!Leaves(view.commitments)
  BY DEF Disclosure!Signals, DisclosureInv, CallIsSound
<1>2. PoolProofs!MembershipCircuit(sig)
  BY <1>1 DEF PoolProofs!MembershipCircuit
<1>3. PoolProofs!Succeeds(PoolProofs!MembershipChecks(sig)) <=> ~Stale
  <2>1. PoolProofs!Succeeds(PoolProofs!MembershipChecks(sig)) <=>
          /\ PoolProofs!RootIsKnown(sig.stateRoot)
          /\ sig.approvalRoot = approot \/ PoolProofs!RootIsKnown(sig.approvalRoot)
          /\ PoolProofs!MembershipCircuit(sig)
    BY PoolConstants, PoolProofs!MembershipConditions
  <2> HIDE DEF sig
  <2>2. QED
    BY <1>1, <1>2, <2>1 DEF Stale
<1>4. Disclosure!Pool!MembershipCircuit(sig) = PoolProofs!MembershipCircuit(sig)
  BY SameChecks DEF Disclosure!Pool!MembershipCircuit, PoolProofs!MembershipCircuit
<1>5. Disclosure!Verdict(sig) = IF Stale THEN "refused" ELSE "ok"
  BY <1>3, SameChecks DEF Disclosure!Verdict
<1>6. QED
  BY <1>2, <1>4, <1>5

\* The proof is made, and checked on the chain and in the browser.
LEMMA CheckStep ==
  ASSUME leaves \in Seq(PoolProofs!Note), DisclosureInv,
         \/ Disclosure!Prove \/ Disclosure!CheckOnChain \/ Disclosure!CheckLocally
  PROVE  DisclosureInv'
<1>1. call.stage \in {"proving", "checking"} /\ UNCHANGED <<leaves, roots, view>>
  BY DEF Disclosure!Prove, Disclosure!CheckOnChain, Disclosure!CheckLocally,
         Disclosure!Pending, Disclosure!pool
<1>2. view.busy # Nil /\ call \in Disclosing
  BY <1>1 DEF DisclosureInv, CallIsSound, Disclosure!Idle
<1>3. \/ call' = [call EXCEPT !.stage = "checking"]
      \/ call' = [call EXCEPT !.onchain = IF Stale THEN "refused" ELSE "ok"]
      \/ call' = [call EXCEPT !.local = "ok"]
  BY <1>2, VerdictIsTheRoots
     DEF Disclosure!Prove, Disclosure!CheckOnChain, Disclosure!CheckLocally
<1>4. Stale' <=> Stale
  BY <1>1 DEF Stale, PoolProofs!RootIsKnown
<1>5. /\ call' \in Disclosing
      /\ call'.onchain = "ok" => call'.recent
      /\ call'.onchain = "refused" \/ ~call'.recent => Stale
  <2>1. /\ call.onchain = "ok" => call.recent
        /\ call.onchain = "refused" \/ ~call.recent => Stale
    BY <1>2 DEF DisclosureInv, CallIsSound
  <2>2. CASE call' = [call EXCEPT !.stage = "checking"]
    BY <1>2, <2>1, <2>2 DEF Disclosing
  <2>3. CASE call' = [call EXCEPT !.onchain = IF Stale THEN "refused" ELSE "ok"]
    <3>1. CASE Stale
      BY <1>2, <2>1, <2>3, <3>1 DEF Disclosing
    <3>2. CASE ~Stale
      BY <1>2, <2>1, <2>3, <3>2 DEF Disclosing
    <3>3. QED
      BY <3>1, <3>2
  <2>4. CASE call' = [call EXCEPT !.local = "ok"]
    BY <1>2, <2>1, <2>4 DEF Disclosing
  <2>5. QED
    BY <1>3, <2>2, <2>3, <2>4
<1>6. CallIsSound'
  BY <1>1, <1>2, <1>4, <1>5
     DEF DisclosureInv, CallIsSound, PoolProofs!Leaves
<1>7. ReadEarlier' /\ ResultIsSound'
  BY <1>1, <1>4 DEF DisclosureInv, ReadEarlier, ResultIsSound,
                    Disclosure!ShowsVerdict, PoolProofs!Leaves
<1>8. QED
  BY <1>1, <1>6, <1>7 DEF DisclosureInv

\* The disclosure ends, with a verdict or with an error.
LEMMA EndStep ==
  ASSUME leaves \in Seq(PoolProofs!Note), DisclosureInv,
         Disclosure!Finish \/ Disclosure!Throws
  PROVE  DisclosureInv'
<1>1. /\ call.stage \in {"proving", "checking"}
      /\ UNCHANGED <<leaves, roots>> /\ call' = Disclosure!Idle
  BY DEF Disclosure!Finish, Disclosure!Throws, Disclosure!Show,
         Disclosure!Pending, Disclosure!pool
<1>2. /\ view.busy # Nil /\ call \in Disclosing /\ view \in Views
      /\ view.busy \in PoolProofs!Note /\ view.commitments # Nil
  BY <1>1 DEF DisclosureInv, CallIsSound, Disclosure!Idle, Views
<1>3. view.busy \in PoolProofs!Leaves(leaves)
  <2>1. PICK n \in 0 .. Len(leaves) : view.commitments = SubSeq(leaves, 1, n)
    BY <1>2 DEF DisclosureInv, ReadEarlier
  <2>2. QED
    BY <1>2, <2>1, PartOfTree DEF DisclosureInv, CallIsSound
<1> DEFINE error == [kind |-> "error", note |-> view.busy]
           verdict == [kind |-> "ok", note |-> view.busy,
                       onchain |-> call.onchain = "ok",
                       local |-> call.local = "ok", recent |-> call.recent]
<1>4. CASE Disclosure!Throws
  <2>1. view' = [view EXCEPT !.busy = Nil, !.result = error]
    BY <1>4 DEF Disclosure!Throws, Disclosure!Show
  <2>2. error \in [kind : {"error"}, note : PoolProofs!Note]
    BY <1>2
  <2>3. error.kind = "error"
    OBVIOUS
  <2> HIDE DEF error
  <2>4. /\ view' \in Views /\ view'.busy = Nil /\ view'.result = error
        /\ view'.commitments = view.commitments
    BY <1>2, <2>1, <2>2 DEF Views
  <2>5. ~Disclosure!ShowsVerdict'
    BY <2>3, <2>4 DEF Disclosure!ShowsVerdict
  <2>6. QED
    BY <1>1, <2>4, <2>5
       DEF DisclosureInv, ReadEarlier, CallIsSound, ResultIsSound
<1>5. CASE Disclosure!Finish
  <2>1. /\ view' = [view EXCEPT !.busy = Nil, !.result = verdict]
        /\ call.onchain # "asked" /\ call.local # "asked"
    BY <1>5 DEF Disclosure!Finish, Disclosure!Show, Disclosure!Pending
  <2>2. /\ verdict.note = view.busy /\ verdict.local
        /\ verdict.onchain <=> call.onchain = "ok"
        /\ verdict.recent = call.recent
    BY <1>2, <2>1 DEF Disclosing
  <2>3. verdict \in [kind : {"ok"}, note : PoolProofs!Note, onchain : BOOLEAN,
                     local : BOOLEAN, recent : BOOLEAN]
    BY <1>2 DEF Disclosing
  <2> HIDE DEF verdict
  <2>4. /\ view' \in Views /\ view'.busy = Nil /\ view'.result = verdict
        /\ view'.commitments = view.commitments
    BY <1>2, <2>1, <2>3 DEF Views
  <2>5. /\ call.onchain = "ok" => call.recent
        /\ call.onchain # "ok" => Stale
    BY <1>2, <2>1 DEF DisclosureInv, CallIsSound, Disclosing
  <2>6. Stale' <=> Stale
    BY <1>1, <2>4 DEF Stale, PoolProofs!RootIsKnown
  <2>7. PoolProofs!Leaves(leaves') = PoolProofs!Leaves(leaves)
    BY <1>1
  <2>8. ResultIsSound'
    BY <1>1, <1>2, <1>3, <2>2, <2>4, <2>5, <2>6, <2>7
       DEF ResultIsSound, PoolProofs!Leaves
  <2>9. QED
    BY <1>1, <2>4, <2>8 DEF DisclosureInv, ReadEarlier, CallIsSound
<1>6. QED
  BY <1>4, <1>5

\* What others do meanwhile makes no verdict wrong.
LEMMA OthersStep ==
  ASSUME PoolProofs!PoolInv, PoolProofs!PoolInv', DisclosureInv,
         Disclosure!Deposits \/ Disclosure!Withdrawals \/ Disclosure!Repins
  PROVE  DisclosureInv'
<1>1. UNCHANGED <<view, call>>
  BY DEF Disclosure!Deposits, Disclosure!Withdrawals, Disclosure!Repins,
         Disclosure!UnchangedPage
<1>2. leaves \in Seq(PoolProofs!Note)
  BY DEF PoolProofs!PoolInv, PoolProofs!TypeOK
<1>3. PoolProofs!Leaves(leaves) \subseteq PoolProofs!Leaves(leaves')
  <2>1. Len(leaves) \in 0 .. Len(leaves)
    BY <1>2
  <2>2. QED
    BY <2>1, PoolGoesOn
<1>4. view.commitments # Nil =>
        /\ \E m \in 0 .. Len(leaves') : view.commitments = SubSeq(leaves', 1, m)
        /\ Stale => Stale'
  <2> SUFFICES ASSUME view.commitments # Nil
               PROVE  /\ \E m \in 0 .. Len(leaves') :
                           view.commitments = SubSeq(leaves', 1, m)
                      /\ Stale => Stale'
    OBVIOUS
  <2>1. PICK n \in 0 .. Len(leaves) : view.commitments = SubSeq(leaves, 1, n)
    BY DEF DisclosureInv, ReadEarlier
  <2>2. /\ \E m \in 0 .. Len(leaves') : SubSeq(leaves', 1, m) = SubSeq(leaves, 1, n)
        /\ ~PoolProofs!RootIsKnown(SubSeq(leaves, 1, n))
             => ~PoolProofs!RootIsKnown(SubSeq(leaves, 1, n))'
    BY PoolGoesOn
  <2>3. SubSeq(leaves', 1, n) = SubSeq(leaves, 1, n)
    BY <1>2, PoolGoesOn
  <2>4. QED
    BY <1>1, <2>1, <2>2, <2>3 DEF Stale, PoolProofs!RootIsKnown
<1>5. ReadEarlier'
  BY <1>1, <1>4 DEF ReadEarlier
<1>6. CallIsSound'
  BY <1>1, <1>4 DEF DisclosureInv, CallIsSound, PoolProofs!Leaves
<1>7. ResultIsSound'
  BY <1>1, <1>3, <1>4
     DEF DisclosureInv, ResultIsSound, Disclosure!ShowsVerdict, PoolProofs!Leaves
<1>8. QED
  BY <1>1, <1>5, <1>6, <1>7 DEF DisclosureInv

\* Disclosure!Next.
LEMMA DisclosureStep ==
  ASSUME PoolProofs!PoolInv, PoolProofs!PoolInv', DisclosureInv,
         [Disclosure!Next]_(Disclosure!vars)
  PROVE  DisclosureInv'
<1>1. leaves \in Seq(PoolProofs!Note)
  BY DEF PoolProofs!PoolInv, PoolProofs!TypeOK
<1>2. CASE UNCHANGED Disclosure!vars
  BY <1>2 DEF Disclosure!vars, Disclosure!pool, DisclosureInv, ReadEarlier,
              CallIsSound, ResultIsSound, Disclosure!ShowsVerdict, Stale,
              PoolProofs!RootIsKnown, PoolProofs!Leaves
<1>3. CASE Disclosure!Next
  BY <1>1, <1>3, MountStep, AnswerStep, DiscloseStep, CheckStep, EndStep,
     OthersStep DEF Disclosure!Next, Disclosure!Progress
<1>4. QED
  BY <1>2, <1>3

\* The inductive invariant of the disclosure page.
LEMMA DisclosureInvariant == Spec => [](part = "disclosure" => DisclosureInv)
<1>1. Init => (part = "disclosure" => DisclosureInv)
  BY PartInit, DisclosureInit
<1>2. /\ part = "disclosure" => PoolProofs!PoolInv
      /\ (part = "disclosure" => PoolProofs!PoolInv)'
      /\ part = "disclosure" => DisclosureInv
      /\ [Next]_vars
      => (part = "disclosure" => DisclosureInv)'
  BY PartStep, DisclosureStep
<1>3. QED
  BY <1>1, <1>2, DisclosurePoolInvariant, PTL DEF Spec

(***************************************************************************)
(* The badge of the disclosure page is the contract's word, though the     *)
(* pool goes on while it is asked (disclosure/page.tsx, disclose):         *)
(* "verified" of a root that was recent at the click, "rejected" only of   *)
(* one that has left the window, and always of a position in the pool.     *)
(***************************************************************************)
THEOREM BadgesAreTheContracts == Spec => []BadgeIsTheContracts
<1>1. (part = "disclosure" => DisclosureInv) => BadgeIsTheContracts
  <2> SUFFICES ASSUME DisclosureInv, view.result # Nil
               PROVE  /\ view.busy = Nil
                      /\ Disclosure!ShowsVerdict =>
                           /\ view.result.local
                           /\ view.result.note \in Disclosure!Pool!Leaves(leaves)
                      /\ Disclosure!SaysOnStellar => view.result.recent
                      /\ Disclosure!SaysRejected =>
                           ~Disclosure!Pool!RootIsKnown(view.commitments)
    BY DEF BadgeIsTheContracts, Disclosure!BadgeIsTheContracts
  <2>1. view.busy = Nil
    BY DEF DisclosureInv, CallIsSound
  <2>2. QED
    BY <2>1, SameChecks
       DEF DisclosureInv, ResultIsSound, Stale, Disclosure!SaysOnStellar,
           Disclosure!SaysRejected
<1>2. QED
  BY <1>1, DisclosureInvariant, PTL

-----------------------------------------------------------------------------
(* The frame of the app.                                                   *)

\* The frame's part in the invariant: what is remembered is what is shown.
ShellInv ==
  /\ path \in Shell!Routes
  /\ collapsed \in BOOLEAN /\ peek \in BOOLEAN /\ moreOpen \in BOOLEAN
  /\ confirming \in BOOLEAN
  /\ sidebar \in {"none", "collapsed", "open"}
  /\ collapsed <=> sidebar = "collapsed"
  /\ peek => collapsed
  /\ confirming => path = Shell!Settings

\* A sequence of two.
LEMMA PairIsASeq ==
  ASSUME NEW W, NEW a \in W, NEW b \in W
  PROVE  <<a>> \in Seq(W) /\ <<a, b>> \in Seq(W)
<1>1. <<a>> = Append(<< >>, a) /\ << >> \in Seq(W)
  OBVIOUS
<1>2. <<a>> \in Seq(W)
  BY <1>1, AppendProperties
<1>3. <<a, b>> = Append(<<a>>, b)
  OBVIOUS
<1>4. QED
  BY <1>2, <1>3, AppendProperties

\* The paths that begin with the two segments of a link.
LEMMA PrefixOfTwo ==
  ASSUME NEW W, NEW p \in Seq(W), NEW a \in W, NEW b \in W
  PROVE  Shell!IsPrefix(<<a, b>>, p) <=> Len(p) >= 2 /\ p[1] = a /\ p[2] = b
<1> DEFINE link == <<a, b>>
           head == SubSeq(p, 1, 2)
           own == SubSeq(link, 1, 2)
<1>1. link \in Seq(W) /\ Len(link) = 2 /\ link[1] = a /\ link[2] = b
  BY PairIsASeq
<1> HIDE DEF link
<1>2. \A i \in 1 .. 2 : link[i] \in W
  BY <1>1
<1>3. /\ own \in Seq(W) /\ Len(own) = 2
      /\ own[1] = a /\ own[2] = b
  BY <1>1, <1>2, SubSeqProperties
<1>4. Len(p) \in Nat
  OBVIOUS
<1>5. ASSUME Len(p) >= 2
      PROVE  own = head <=> p[1] = a /\ p[2] = b
  <2>1. \A i \in 1 .. 2 : p[i] \in W
    BY <1>4, <1>5
  <2>2. /\ head \in Seq(W) /\ Len(head) = 2
        /\ head[1] = p[1] /\ head[2] = p[2]
    BY <2>1, SubSeqProperties
  <2> HIDE DEF head, own
  <2>3. own[1] = head[1] /\ own[2] = head[2] => own = head
    <3>1. ASSUME own[1] = head[1], own[2] = head[2]
          PROVE  \A i \in 1 .. Len(own) : own[i] = head[i]
      BY <1>3, <3>1
    <3>2. QED
      BY <1>3, <2>2, <3>1, SeqEqual
  <2>4. QED
    BY <1>3, <2>2, <2>3
<1>6. Shell!IsPrefix(link, p) <=> 2 <= Len(p) /\ own = head
  BY <1>1 DEF Shell!IsPrefix
<1> HIDE DEF head, own
<1>7. Shell!IsPrefix(link, p) <=> Len(p) >= 2 /\ p[1] = a /\ p[2] = b
  BY <1>4, <1>5, <1>6
<1>8. QED
  BY <1>7 DEF link

\* The items of the sidebar, by their place in it.
Segments ==
  <<"", "terminal", "activity", "assets", "disclosure", "docs", "settings">>

\* The segments of the frame's paths.
Words ==
  {"app"} \cup {Segments[i] : i \in 1 .. 7}
          \cup {Chapters[i] : i \in DOMAIN Chapters}

\* The entries of the sidebar are seven places, all different.
LEMMA ItemsAre ==
  /\ Shell!ALL[1] = <<"app">>
  /\ \A i \in 2 .. 7 : Shell!ALL[i] = <<"app", Segments[i]>>
  /\ DOMAIN Shell!ALL = 1 .. 7 /\ Len(Shell!ALL) = 7
  /\ \A i, j \in 1 .. 7 : Segments[i] = Segments[j] => i = j
<1>1. /\ Shell!ALL[1] = <<"app">>
      /\ Shell!ALL[2] = <<"app", "terminal">>
      /\ Shell!ALL[3] = <<"app", "activity">>
      /\ Shell!ALL[4] = <<"app", "assets">>
      /\ Shell!ALL[5] = <<"app", "disclosure">>
      /\ Shell!ALL[6] = <<"app", "docs">>
      /\ Shell!ALL[7] = <<"app", "settings">>
      /\ DOMAIN Shell!ALL = 1 .. 7 /\ Len(Shell!ALL) = 7
  BY DEF Shell!ALL, Shell!Overview, Shell!Docs, Shell!Settings
<1>2. /\ Segments[2] = "terminal" /\ Segments[3] = "activity"
      /\ Segments[4] = "assets" /\ Segments[5] = "disclosure"
      /\ Segments[6] = "docs" /\ Segments[7] = "settings"
      /\ Segments[1] = ""
  BY DEF Segments
<1>3. \A i \in 1 .. 7 : i = 1 \/ i = 2 \/ i = 3 \/ i = 4 \/ i = 5 \/ i = 6 \/ i = 7
  OBVIOUS
<1>4. \A i \in 2 .. 7 : Shell!ALL[i] = <<"app", Segments[i]>>
  <2>1. \A i \in 2 .. 7 : i = 2 \/ i = 3 \/ i = 4 \/ i = 5 \/ i = 6 \/ i = 7
    OBVIOUS
  <2>2. QED
    BY <1>1, <1>2, <2>1
<1>5. \A i, j \in 1 .. 7 : Segments[i] = Segments[j] => i = j
  BY <1>2, <1>3
<1>6. QED
  BY <1>1, <1>4, <1>5

\* A path of the app is that of an item, or below it.
LEMMA RoutesAre ==
  ASSUME path \in Shell!Routes, path # Shell!Home
  PROVE  /\ path \in Seq(Words)
         /\ \/ path = <<"app">>
            \/ \E k \in 2 .. 7 :
                 Len(path) >= 2 /\ path[1] = "app" /\ path[2] = Segments[k]
<1>1. "app" \in Words /\ \A k \in 1 .. 7 : Segments[k] \in Words
  BY DEF Words
<1>2. CASE path \in Shell!ToSet(Shell!ALL)
  <2>1. PICK k \in 1 .. 7 : path = Shell!ALL[k]
    BY <1>2, ItemsAre DEF Shell!ToSet
  <2>2. CASE k = 1
    <3>1. path = <<"app">>
      BY <2>1, <2>2, ItemsAre
    <3>2. QED
      BY <1>1, <3>1, PairIsASeq
  <2>3. CASE k # 1
    <3>1. k \in 2 .. 7 /\ path = <<"app", Segments[k]>>
      BY <2>1, <2>3, ItemsAre
    <3>2. path \in Seq(Words)
      BY <1>1, <3>1, PairIsASeq
    <3>3. Len(path) >= 2 /\ path[1] = "app" /\ path[2] = Segments[k]
      BY <3>1
    <3>4. QED
      BY <3>1, <3>2, <3>3
  <2>4. QED
    BY <2>2, <2>3
<1>3. ASSUME NEW i \in DOMAIN Chapters, path = Shell!Chapter(i)
      PROVE  /\ path \in Seq(Words)
             /\ Len(path) >= 2 /\ path[1] = "app" /\ path[2] = Segments[6]
  <2> DEFINE docs == <<"app", Segments[6]>>
  <2>1. Shell!Docs = docs
    BY DEF Shell!Docs, Segments
  <2>2. docs \in Seq(Words) /\ Len(docs) = 2 /\ docs[1] = "app" /\ docs[2] = Segments[6]
    BY <1>1, PairIsASeq
  <2>3. Chapters[i] \in Words
    BY DEF Words
  <2> HIDE DEF docs
  <2>4. path = Append(docs, Chapters[i])
    BY <1>3, <2>1 DEF Shell!Chapter
  <2>5. QED
    BY <2>2, <2>3, <2>4
<1>4. 6 \in 2 .. 7
  OBVIOUS
<1>5. QED
  BY <1>2, <1>3, <1>4 DEF Shell!Routes

\* Exactly one item is lit on every page of the app.
LEMMA OneItemIsLit ==
  ASSUME path \in Shell!Routes, path # Shell!Home
  PROVE  \E k \in 1 .. 7 : \A i \in 1 .. 7 : Shell!IsActive(Shell!ALL[i]) <=> i = k
<1>1. /\ path \in Seq(Words)
      /\ "app" \in Words /\ \A k \in 1 .. 7 : Segments[k] \in Words
  BY RoutesAre DEF Words
<1>2. Shell!IsActive(Shell!ALL[1]) <=> path = <<"app">>
  BY ItemsAre DEF Shell!IsActive, Shell!Overview
<1>3. ASSUME NEW i \in 2 .. 7
      PROVE  Shell!IsActive(Shell!ALL[i])
               <=> Len(path) >= 2 /\ path[1] = "app" /\ path[2] = Segments[i]
  <2>1. Shell!ALL[i] = <<"app", Segments[i]>> /\ Shell!ALL[i] # <<"app">>
    BY ItemsAre
  <2>2. Shell!IsActive(Shell!ALL[i]) <=> Shell!IsPrefix(Shell!ALL[i], path)
    BY <2>1 DEF Shell!IsActive, Shell!Overview
  <2>3. QED
    BY <1>1, <2>1, <2>2, PrefixOfTwo
<1>4. CASE path = <<"app">>
  <2>1. ~(Len(path) >= 2)
    BY <1>4
  <2>2. \A i \in 1 .. 7 : i = 1 \/ i \in 2 .. 7
    OBVIOUS
  <2>3. \A i \in 1 .. 7 : Shell!IsActive(Shell!ALL[i]) <=> i = 1
    BY <1>2, <1>3, <1>4, <2>1, <2>2
  <2>4. QED
    BY <2>3
<1>5. ASSUME NEW k \in 2 .. 7,
             Len(path) >= 2, path[1] = "app", path[2] = Segments[k]
      PROVE  \A i \in 1 .. 7 : Shell!IsActive(Shell!ALL[i]) <=> i = k
  <2>1. path # <<"app">>
    BY <1>5
  <2>2. \A i \in 2 .. 7 : Segments[i] = Segments[k] <=> i = k
    BY ItemsAre
  <2>3. \A i \in 1 .. 7 : i = 1 \/ i \in 2 .. 7
    OBVIOUS
  <2>4. QED
    BY <1>2, <1>3, <1>5, <2>1, <2>2, <2>3
<1>6. \A k \in 2 .. 7 : k \in 1 .. 7
  OBVIOUS
<1>7. QED
  BY <1>4, <1>5, <1>6, RoutesAre

\* So what is lit is the item whose name is shown, in the bottom tabs as well.
LEMMA LitIsCurrent ==
  ASSUME path \in Shell!Routes, path # Shell!Home
  PROVE  LET item == Shell!ALL[Shell!Current]
         IN  /\ Shell!Active(Shell!ToSet(Shell!ALL)) = {item}
             /\ item \in Shell!PRIMARY \/ (item \in Shell!MORE /\ Shell!MoreLit)
             /\ Shell!Cardinality(Shell!Active(Shell!PRIMARY \cup Shell!MORE)) = 1
<1>1. PICK k \in 1 .. 7 :
        \A i \in 1 .. 7 : Shell!IsActive(Shell!ALL[i]) <=> i = k
  BY OneItemIsLit
<1>2. Shell!Current = k
  <2> DEFINE lit == {i \in 1 .. Len(Shell!ALL) : Shell!IsActive(Shell!ALL[i])}
  <2>1. lit = {k}
    BY <1>1, ItemsAre
  <2>2. Shell!Current = IF lit # {} THEN Shell!Max(lit) ELSE 0
    BY DEF Shell!Current, Shell!SelectLastInSeq
  <2> HIDE DEF lit
  <2>3. Shell!Max({k}) = k
    BY DEF Shell!Max
  <2>4. QED
    BY <2>1, <2>2, <2>3
<1> DEFINE item == Shell!ALL[k]
           items == Shell!ToSet(Shell!ALL)
<1>3. items = {Shell!ALL[i] : i \in 1 .. 7}
  BY ItemsAre DEF Shell!ToSet
<1>4. Shell!Active(items) = {item}
  <2> HIDE DEF items
  <2>1. \A href \in items : Shell!IsActive(href) <=> href = item
    BY <1>1, <1>3
  <2>2. item \in items
    BY <1>3
  <2> HIDE DEF item
  <2>3. QED
    BY <2>1, <2>2 DEF Shell!Active
<1>5. items = Shell!PRIMARY \cup Shell!MORE
  BY DEF Shell!ToSet, Shell!ALL, Shell!PRIMARY, Shell!MORE
<1>6. item \in items
  BY <1>3
<1> HIDE DEF items, item
<1>7. item \in Shell!PRIMARY \/ (item \in Shell!MORE /\ Shell!MoreLit)
  <2>1. CASE item \in Shell!MORE
    <3>1. item \in Shell!Active(Shell!MORE)
      BY <1>4, <2>1 DEF Shell!Active
    <3>2. QED
      BY <2>1, <3>1 DEF Shell!MoreLit
  <2>2. QED
    BY <1>5, <1>6, <2>1
<1>8. Shell!Cardinality(Shell!Active(Shell!PRIMARY \cup Shell!MORE)) = 1
  <2>1. Cardinality({item}) = 1
    BY FS_Singleton
  <2>2. \A S : Shell!Cardinality(S) = Cardinality(S)
    BY Zenon DEF Shell!Cardinality, Cardinality
  <2>3. QED
    BY <1>4, <1>5, <2>1, <2>2
<1>9. QED
  BY <1>2, <1>4, <1>7, <1>8 DEF items, item

\* Shell!Init.
LEMMA ShellInit == Shell!Init => ShellInv
  BY DEF Shell!Init, ShellInv

\* The app's own links lead to its pages.
LEMMA LinksAreRoutes ==
  /\ Shell!ToSet(Shell!ALL) \subseteq Shell!Routes
  /\ Shell!MORE \subseteq Shell!Routes
  /\ \A i \in DOMAIN Chapters : Shell!Chapter(i) \in Shell!Routes
  /\ Shell!Settings \in Shell!Routes
<1>1. Shell!MORE \subseteq Shell!ToSet(Shell!ALL)
  BY DEF Shell!ToSet, Shell!ALL, Shell!MORE
<1>2. Shell!Settings \in Shell!MORE
  BY DEF Shell!MORE
<1>3. QED
  BY <1>1, <1>2 DEF Shell!Routes

\* Going to a page of the frame, by whatever link.
LEMMA VisitStep ==
  ASSUME ShellInv, NEW href \in Shell!Routes,
         \/ Shell!Visit(href) \/ Shell!SidebarLink(href) \/ Shell!SheetLink(href)
  PROVE  ShellInv'
<1>1. CASE Shell!Visit(href)
  BY <1>1 DEF ShellInv, Shell!Visit, Shell!Leaving, Shell!Mount
<1>2. CASE Shell!SidebarLink(href)
  BY <1>2 DEF ShellInv, Shell!SidebarLink, Shell!Leaving
<1>3. CASE Shell!SheetLink(href)
  BY <1>3 DEF ShellInv, Shell!SheetLink, Shell!Leaving
<1>4. QED
  BY <1>1, <1>2, <1>3

\* Shell!Next.
LEMMA ShellStep == ShellInv /\ [Shell!Next]_(Shell!vars) => ShellInv'
<1> SUFFICES ASSUME ShellInv, [Shell!Next]_(Shell!vars) PROVE ShellInv'
  OBVIOUS
<1>1. CASE UNCHANGED Shell!vars
  BY <1>1 DEF Shell!vars, ShellInv
<1>2. ASSUME NEW href \in Shell!Routes,
             \/ Shell!Visit(href) \/ Shell!SidebarLink(href)
             \/ Shell!SheetLink(href) \/ Shell!QuickAction(href)
      PROVE  ShellInv'
  BY <1>2, VisitStep DEF Shell!QuickAction
<1>3. CASE Shell!More
  BY <1>3 DEF ShellInv, Shell!More
<1>4. CASE Shell!Backdrop
  BY <1>4 DEF ShellInv, Shell!Backdrop
<1>5. CASE Shell!Toggle
  BY <1>5 DEF ShellInv, Shell!Toggle
<1>6. CASE Shell!EnterEdge
  BY <1>6 DEF ShellInv, Shell!EnterEdge
<1>7. CASE Shell!LeaveSidebar
  BY <1>7 DEF ShellInv, Shell!LeaveSidebar
<1>8. CASE Shell!Reload
  BY <1>8 DEF ShellInv, Shell!Reload, Shell!Mount
<1>9. CASE Shell!AskToClear
  BY <1>9 DEF ShellInv, Shell!AskToClear
<1>10. CASE Shell!CancelClear
  BY <1>10 DEF ShellInv, Shell!CancelClear
<1>11. CASE Shell!Clear
  BY <1>11 DEF ShellInv, Shell!Clear, Shell!Mount
<1>12. CASE Shell!TurnPage
  BY <1>12, VisitStep, LinksAreRoutes DEF Shell!TurnPage
<1>13. ASSUME NEW i \in DOMAIN Chapters, Shell!OpenChapter(i)
       PROVE  ShellInv'
  BY <1>13, VisitStep, LinksAreRoutes DEF Shell!OpenChapter
<1>14. QED
  BY <1>1, <1>2, <1>3, <1>4, <1>5, <1>6, <1>7, <1>8, <1>9, <1>10, <1>11,
     <1>12, <1>13 DEF Shell!Next

\* The inductive invariant of the frame.
LEMMA ShellInvariant == Spec => [](part = "shell" => ShellInv)
<1>1. Init => (part = "shell" => ShellInv)
  BY PartInit, ShellInit
<1>2. (part = "shell" => ShellInv) /\ [Next]_vars => (part = "shell" => ShellInv)'
  BY PartStep, ShellStep
<1>3. QED
  BY <1>1, <1>2, PTL DEF Spec

(***************************************************************************)
(* The frame shows where one is and what was remembered, for every book of *)
(* chapters (AppShell.tsx): one item is lit on every page, the bottom tabs *)
(* light the same one, the sidebar is as localStorage has it and is peeked *)
(* at only when it is collapsed, and the question to clear local data is   *)
(* put on the settings page only.                                          *)
(***************************************************************************)
THEOREM FrameStaysCurrent == Spec => []FrameIsCurrent
<1>1. (part = "shell" => ShellInv) => FrameIsCurrent
  <2> SUFFICES ASSUME ShellInv PROVE Shell!FrameIsCurrent
    BY DEF FrameIsCurrent
  <2>1. ASSUME Shell!Inside PROVE path \in Shell!Routes /\ path # Shell!Home
    BY <2>1 DEF ShellInv, Shell!Inside
  <2>2. QED
    BY <2>1, LitIsCurrent DEF ShellInv, Shell!FrameIsCurrent
<1>2. QED
  BY <1>1, ShellInvariant, PTL

-----------------------------------------------------------------------------
(* The widgets.                                                            *)

Mocks == [progress : 8 .. 100, settled : BOOLEAN, timers : 0 .. MaxTimers]

\* The carousel: its card, a pointer, and the pause behind it.
Carousels ==
  [active : 0 .. Cards - 1, moving : 0 .. Cards - 1, inView : BOOLEAN,
   pointer : Widgets!Pointers, aim : 0 .. Cards - 1,
   paused : BOOLEAN, resume : BOOLEAN]

\* A press of the track, known to it.
Presses == {"finger", "mouse"}

\* The rows shown, and the number of the next event.
Streams == [seq : Nat, events : Seq(Nat), timer : BOOLEAN]

\* The rows are the last events, from the newest.
InOrder(s) ==
  /\ Len(s.events) <= max /\ Len(s.events) <= s.seq
  /\ \A i \in 1 .. Len(s.events) : s.events[i] = s.seq - i

\* What the carousel may be set to.  That no timeout waits beside a press is what
\* keeps the press from being cut short.
CarouselSound(new) ==
  /\ new \in Carousels
  /\ new.pointer \in Presses =>
       new.paused /\ ~new.resume /\ new.moving \in {new.active, new.aim}
  /\ new.paused => new.pointer \in Presses \cup {"slipped"} \/ new.resume

\* A press stops the carousel, a timeout lets it go on, and the rows are the
\* last ones; what every step of the widgets keeps.
WidgetsInv ==
  /\ page \in {"landing", "app", "elsewhere"} /\ reduce \in BOOLEAN
  /\ mock \in Mocks
  /\ mock.settled => mock.progress = 100 /\ mock.timers > 0
  /\ CarouselSound(carousel)
  /\ stream \in Streams /\ InOrder(stream)

\* What WidgetsAssumption says, with the names of this module.
LEMMA WidgetsConstants ==
  /\ Cards \in Nat \ {0} /\ max \in Nat \ {0} /\ MaxTimers \in Nat \ {0}
  BY WebAssumption DEF Widgets!WidgetsAssumption

\* A new event goes before the others, of which the last may go.
LEMMA EmitKeepsOrder ==
  ASSUME NEW s \in Streams, InOrder(s)
  PROVE  Widgets!Emit(s) \in Streams /\ InOrder(Widgets!Emit(s))
<1> DEFINE n == Len(s.events)
           all == <<s.seq>> \o s.events
           k == Widgets!Min2(max, n + 1)
           shownRows == SubSeq(all, 1, k)
<1>1. /\ s.seq \in Nat /\ s.events \in Seq(Nat) /\ n \in Nat
      /\ max \in Nat \ {0} /\ n <= max /\ n <= s.seq
      /\ \A i \in 1 .. n : s.events[i] = s.seq - i
  BY WidgetsConstants DEF Streams, InOrder
<1>2. /\ <<s.seq>> \in Seq(Nat) /\ Len(<<s.seq>>) = 1 /\ <<s.seq>>[1] = s.seq
  BY <1>1, PairIsASeq
<1>3. /\ all \in Seq(Nat) /\ Len(all) = n + 1
      /\ \A i \in 1 .. n + 1 :
           all[i] = IF i <= 1 THEN <<s.seq>>[i] ELSE s.events[i - 1]
  BY <1>1, <1>2, ConcatProperties
<1>4. \A i \in 1 .. n + 1 : all[i] = (s.seq + 1) - i
  <2> SUFFICES ASSUME NEW i \in 1 .. n + 1 PROVE all[i] = (s.seq + 1) - i
    OBVIOUS
  <2>1. CASE i = 1
    BY <1>1, <1>2, <1>3, <2>1
  <2>2. CASE i # 1
    <3>1. i - 1 \in 1 .. n /\ ~(i <= 1)
      BY <1>1, <2>2
    <3> HIDE DEF all
    <3>2. all[i] = s.seq - (i - 1)
      BY <1>1, <1>3, <3>1
    <3>3. QED
      BY <1>1, <3>2
  <2>3. QED
    BY <2>1, <2>2
<1>5. k \in 1 .. n + 1 /\ k <= max
  BY <1>1 DEF Widgets!Min2
<1> HIDE DEF all, k
<1>6. /\ shownRows \in Seq(Nat) /\ Len(shownRows) = k
      /\ \A i \in 1 .. k : shownRows[i] = all[i]
  <2>1. \A i \in 1 .. k : i \in 1 .. n + 1 /\ all[i] \in Nat
    BY <1>1, <1>3, <1>5
  <2>2. k - 1 + 1 = k /\ 1 <= k
    BY <1>5
  <2>3. /\ shownRows \in Seq(Nat)
        /\ Len(shownRows) = IF 1 <= k THEN k - 1 + 1 ELSE 0
        /\ \A i \in 1 .. k - 1 + 1 : shownRows[i] = all[1 + i - 1]
    BY <1>5, <2>1, SubSeqProperties
  <2>4. \A i \in 1 .. k : 1 + i - 1 = i
    BY <1>5
  <2>5. QED
    BY <2>2, <2>3, <2>4
<1> HIDE DEF shownRows
<1>7. Widgets!Emit(s) = [s EXCEPT !.seq = s.seq + 1, !.events = shownRows]
  BY DEF Widgets!Emit, shownRows, k, all
<1>8. Widgets!Emit(s) \in Streams
  <2>1. s \in [seq : Nat, events : Seq(Nat), timer : BOOLEAN]
    BY DEF Streams
  <2>2. s.seq + 1 \in Nat
    BY <1>1
  <2> HIDE DEF n
  <2>3. QED
    BY <1>6, <1>7, <2>1, <2>2 DEF Streams
<1>9. /\ Widgets!Emit(s).seq = s.seq + 1
      /\ Widgets!Emit(s).events = shownRows
  BY <1>7 DEF Streams
<1>10. \A i \in 1 .. k : shownRows[i] = (s.seq + 1) - i
  <2>1. \A i \in 1 .. k : i \in 1 .. n + 1
    BY <1>1, <1>5
  <2> HIDE DEF n
  <2>2. QED
    BY <1>4, <1>6, <2>1
<1>11. QED
  BY <1>1, <1>5, <1>6, <1>8, <1>9, <1>10 DEF InOrder

\* An empty stream is in order, and so are those emitted to it.
LEMMA SeededIsInOrder ==
  ASSUME reduce \in BOOLEAN
  PROVE  /\ Widgets!NoStream \in Streams /\ InOrder(Widgets!NoStream)
         /\ Widgets!Seeded \in Streams /\ InOrder(Widgets!Seeded)
<1> DEFINE e0 == Widgets!NoStream
           e1 == Widgets!Emit(e0)
           e2 == Widgets!Emit(e1)
           e3 == Widgets!Emit(e2)
           e4 == Widgets!Emit(e3)
           Body(f) == [i \in 0 .. 4 |-> IF i = 0 THEN Widgets!NoStream
                                        ELSE Widgets!Emit(f[i - 1])]
           f0 == [i \in 0 .. 4 |-> IF i = 0 THEN e0 ELSE IF i = 1 THEN e1
                    ELSE IF i = 2 THEN e2 ELSE IF i = 3 THEN e3 ELSE e4]
<1>1. e0 \in Streams /\ InOrder(e0)
  BY WidgetsConstants DEF Widgets!NoStream, Streams, InOrder
<1>2. f0 = Body(f0)
  <2>1. \A i \in 0 .. 4 : i = 0 \/ i = 1 \/ i = 2 \/ i = 3 \/ i = 4
    OBVIOUS
  <2> HIDE DEF e0, e1, e2, e3, e4
  <2>2. f0[0] = e0 /\ f0[1] = e1 /\ f0[2] = e2 /\ f0[3] = e3 /\ f0[4] = e4
    OBVIOUS
  <2> DEFINE b == Body(f0)
  <2> HIDE DEF f0
  <2>3. /\ b[0] = Widgets!NoStream /\ b[1] = Widgets!Emit(f0[0])
        /\ b[2] = Widgets!Emit(f0[1]) /\ b[3] = Widgets!Emit(f0[2])
        /\ b[4] = Widgets!Emit(f0[3])
    OBVIOUS
  <2>4. /\ b[0] = e0 /\ b[1] = e1 /\ b[2] = e2 /\ b[3] = e3 /\ b[4] = e4
    BY <2>2, <2>3 DEF e0, e1, e2, e3, e4
  <2>5. \A i \in 0 .. 4 : b[i] = f0[i]
    BY <2>1, <2>2, <2>4
  <2>6. b = [i \in 0 .. 4 |-> b[i]] /\ f0 = [i \in 0 .. 4 |-> f0[i]]
    BY DEF f0
  <2> HIDE DEF b
  <2>7. b = f0
    BY <2>5, <2>6
  <2>8. QED
    BY <2>7 DEF b
<1>3. Widgets!emitted = CHOOSE f : f = Body(f)
  BY DEF Widgets!emitted
<1> DEFINE em == Widgets!emitted
<1>4. em = Body(em)
  <2> HIDE DEF Body, f0
  <2>1. \E f : f = Body(f)
    BY <1>2
  <2>2. QED
    BY <1>3, <2>1
<1>5. /\ em[0] = Widgets!NoStream
      /\ \A i \in 1 .. 4 : em[i] = Widgets!Emit(em[i - 1])
  <2> HIDE DEF em
  <2>1. \A i \in 0 .. 4 : Body(em)[i] =
          IF i = 0 THEN Widgets!NoStream ELSE Widgets!Emit(em[i - 1])
    OBVIOUS
  <2> DEFINE b == Body(em)
  <2> HIDE DEF b
  <2>2. em = b
    BY <1>4 DEF b
  <2>3. \A i \in 0 .. 4 : b[i] =
          IF i = 0 THEN Widgets!NoStream ELSE Widgets!Emit(em[i - 1])
    BY <2>1 DEF b
  <2>4. QED
    BY <2>2, <2>3
<1> HIDE DEF em
<1>6. em[0] \in Streams /\ InOrder(em[0])
  BY <1>1, <1>5
<1>7. em[1] \in Streams /\ InOrder(em[1])
  BY <1>5, <1>6, EmitKeepsOrder
<1>8. em[2] \in Streams /\ InOrder(em[2])
  BY <1>5, <1>7, EmitKeepsOrder
<1>9. em[3] \in Streams /\ InOrder(em[3])
  BY <1>5, <1>8, EmitKeepsOrder
<1>10. em[4] \in Streams /\ InOrder(em[4])
  BY <1>5, <1>9, EmitKeepsOrder
<1>11. Widgets!Min2(4, max) \in 0 .. 4
  BY WidgetsConstants DEF Widgets!Min2
<1>12. \A i \in 0 .. 4 : em[i] \in Streams /\ InOrder(em[i])
  BY <1>6, <1>7, <1>8, <1>9, <1>10
<1>13. PICK s \in Streams : InOrder(s) /\ s = em[Widgets!Min2(4, max)]
  BY <1>11, <1>12
<1>14. Widgets!Seeded = [s EXCEPT !.timer = ~reduce]
  BY <1>13 DEF Widgets!Seeded, em
<1>15. Widgets!Seeded \in Streams /\ InOrder(Widgets!Seeded)
  BY <1>13, <1>14 DEF Streams, InOrder
<1>16. QED
  BY <1>1, <1>15

\* The widgets as they are mounted.
LEMMA WidgetsInit == Widgets!Init => WidgetsInv
<1> SUFFICES ASSUME Widgets!Init PROVE WidgetsInv
  OBVIOUS
<1>1. mock \in Mocks /\ ~mock.settled
  BY WidgetsConstants DEF Widgets!Init, Widgets!NoMock, Mocks
<1>2. CarouselSound(carousel)
  BY WidgetsConstants DEF Widgets!Init, Widgets!NoCarousel, Carousels,
                          Widgets!Pointers, Presses, CarouselSound
<1>3. stream \in Streams /\ InOrder(stream)
  BY SeededIsInOrder DEF Widgets!Init
<1>4. QED
  BY <1>1, <1>2, <1>3 DEF Widgets!Init, WidgetsInv

\* A step that leaves the carousel sound keeps the invariant.
LEMMA SetCarouselStep ==
  ASSUME WidgetsInv, NEW new, CarouselSound(new), Widgets!SetCarousel(new)
  PROVE  WidgetsInv'
  BY DEF Widgets!SetCarousel, CarouselSound, WidgetsInv, Mocks, InOrder

\* A step of the carousel: its cards stay on the track.
LEMMA CarouselStep ==
  ASSUME WidgetsInv,
         \/ Widgets!Intersection \/ Widgets!Advance \/ Widgets!Scrolls
         \/ \E card \in 0 .. Cards - 1 : Widgets!Drag(card)
         \/ \E kind \in {"finger", "mouse"} : Widgets!Pause(kind)
         \/ Widgets!Release \/ Widgets!Cancel \/ Widgets!Lift \/ Widgets!Slip
         \/ Widgets!Resume
  PROVE  WidgetsInv'
<1> DEFINE c == carousel
<1>1. /\ c \in Carousels
      /\ c.pointer \in Presses =>
           c.paused /\ ~c.resume /\ c.moving \in {c.active, c.aim}
      /\ c.paused => c.pointer \in Presses \cup {"slipped"} \/ c.resume
      /\ Cards \in Nat \ {0} /\ 0 \in 0 .. Cards - 1
  BY WidgetsConstants DEF WidgetsInv, CarouselSound
<1> USE DEF Widgets!Pointers, Presses
<1>2. CASE Widgets!Intersection
  <2>1. CarouselSound([c EXCEPT !.inView = ~@])
    BY <1>1 DEF CarouselSound, Carousels
  <2>2. QED
    BY <1>2, <2>1, SetCarouselStep DEF Widgets!Intersection
<1>3. CASE Widgets!Advance
  <2>1. (c.active + 1) % Cards \in 0 .. Cards - 1
    BY <1>1 DEF Carousels
  <2>2. c.pointer \notin Presses
    BY <1>1, <1>3 DEF Widgets!Advance
  <2>3. CarouselSound([c EXCEPT !.moving = (c.active + 1) % Cards])
    BY <1>1, <2>1, <2>2 DEF CarouselSound, Carousels
  <2>4. QED
    BY <1>3, <2>3, SetCarouselStep DEF Widgets!Advance
<1>4. CASE Widgets!Scrolls
  <2> DEFINE step == IF c.active < c.moving THEN 1 ELSE -1
  <2>1. c.active # c.moving
    BY <1>4 DEF Widgets!Scrolls
  <2>2. /\ c.active + step \in 0 .. Cards - 1
        /\ c.pointer \in Presses => c.moving = c.aim
    BY <1>1, <2>1 DEF Carousels
  <2>3. Widgets!SetCarousel([c EXCEPT !.active = @ + step])
    BY <1>4 DEF Widgets!Scrolls
  <2> HIDE DEF step
  <2>4. CarouselSound([c EXCEPT !.active = @ + step])
    BY <1>1, <2>2 DEF CarouselSound, Carousels
  <2>5. QED
    BY <2>3, <2>4, SetCarouselStep
<1>5. ASSUME NEW card \in 0 .. Cards - 1, Widgets!Drag(card)
      PROVE  WidgetsInv'
  <2>1. CarouselSound([c EXCEPT !.active = card, !.moving = card])
    BY <1>1 DEF CarouselSound, Carousels
  <2>2. QED
    BY <1>5, <2>1, SetCarouselStep DEF Widgets!Drag
<1>6. ASSUME NEW kind \in {"finger", "mouse"}, Widgets!Pause(kind)
      PROVE  WidgetsInv'
  <2>1. CarouselSound([c EXCEPT !.pointer = kind, !.aim = c.moving,
                                !.paused = TRUE, !.resume = FALSE])
    BY <1>1 DEF CarouselSound, Carousels
  <2>2. QED
    BY <1>6, <2>1, SetCarouselStep DEF Widgets!Pause
<1>7. CASE Widgets!Release
  <2>1. CarouselSound([c EXCEPT !.pointer = "none", !.aim = 0, !.resume = TRUE])
    BY <1>1 DEF CarouselSound, Carousels
  <2>2. QED
    BY <1>7, <2>1, SetCarouselStep DEF Widgets!Release
<1>8. CASE Widgets!Cancel
  <2>1. CarouselSound([c EXCEPT !.pointer = "panning", !.aim = 0, !.resume = TRUE])
    BY <1>1 DEF CarouselSound, Carousels
  <2>2. QED
    BY <1>8, <2>1, SetCarouselStep DEF Widgets!Cancel
<1>9. CASE Widgets!Lift
  <2>1. CarouselSound([c EXCEPT !.pointer = "none"])
    BY <1>1, <1>9 DEF CarouselSound, Carousels, Widgets!Lift
  <2>2. QED
    BY <1>9, <2>1, SetCarouselStep DEF Widgets!Lift
<1>10. CASE Widgets!Slip
  <2>1. CarouselSound([c EXCEPT !.pointer = "slipped", !.aim = 0])
    BY <1>1, <1>10 DEF CarouselSound, Carousels, Widgets!Slip
  <2>2. QED
    BY <1>10, <2>1, SetCarouselStep DEF Widgets!Slip
<1>11. CASE Widgets!Resume
  <2>1. c.pointer \notin Presses
    BY <1>1, <1>11 DEF Widgets!Resume
  <2>2. CarouselSound([c EXCEPT !.paused = FALSE, !.resume = FALSE])
    BY <1>1, <2>1 DEF CarouselSound, Carousels
  <2>3. QED
    BY <1>11, <2>2, SetCarouselStep DEF Widgets!Resume
<1>12. QED
  BY <1>2, <1>3, <1>4, <1>5, <1>6, <1>7, <1>8, <1>9, <1>10, <1>11

\* Every step of the widgets, one case for each action.
LEMMA WidgetsStep == WidgetsInv /\ [Widgets!Next]_(Widgets!vars) => WidgetsInv'
<1> SUFFICES ASSUME WidgetsInv, [Widgets!Next]_(Widgets!vars)
             PROVE  WidgetsInv'
  OBVIOUS
<1>1. CASE UNCHANGED Widgets!vars
  BY <1>1 DEF Widgets!vars, WidgetsInv, Mocks, Carousels, Streams, InOrder
<1>2. ASSUME NEW p \in {"landing", "app", "elsewhere"}, Widgets!Visit(p)
      PROVE  WidgetsInv'
  <2>1. mock' \in Mocks /\ ~mock'.settled
    <3>1. Widgets!NoMock \in Mocks /\ ~Widgets!NoMock.settled
      BY WidgetsConstants DEF Widgets!NoMock, Mocks
    <3>2. [Widgets!NoMock EXCEPT !.progress = 100] \in Mocks
          /\ ~[Widgets!NoMock EXCEPT !.progress = 100].settled
      BY <3>1 DEF Mocks
    <3>3. QED
      BY <1>2, <3>1, <3>2 DEF Widgets!Visit
  <2>2. CarouselSound(carousel)'
    BY <1>2, WidgetsConstants
       DEF Widgets!Visit, Widgets!NoCarousel, Carousels, Widgets!Pointers, Presses,
           CarouselSound
  <2>3. stream' \in Streams /\ InOrder(stream')
    BY <1>2, SeededIsInOrder DEF Widgets!Visit, WidgetsInv
  <2>4. page' \in {"landing", "app", "elsewhere"} /\ reduce' \in BOOLEAN
    BY <1>2 DEF Widgets!Visit, WidgetsInv
  <2>5. QED
    BY <2>1, <2>2, <2>3, <2>4 DEF WidgetsInv, InOrder, Mocks, Carousels, Streams
<1>3. CASE Widgets!Tick
  <2>1. mock' \in Mocks
        /\ (mock'.settled => mock'.progress = 100 /\ mock'.timers > 0)
    <3>1. mock \in Mocks /\ MaxTimers \in Nat \ {0}
          /\ (mock.settled => mock.progress = 100 /\ mock.timers > 0)
      BY WidgetsConstants DEF WidgetsInv
    <3>2. CASE mock.progress >= 100
      <4>1. /\ mock.progress = 100 /\ mock.timers < MaxTimers
            /\ mock' = [mock EXCEPT !.settled = TRUE, !.timers = @ + 1]
        BY <1>3, <3>1, <3>2 DEF Widgets!Tick, Mocks
      <4>2. mock.timers + 1 \in 0 .. MaxTimers /\ mock.timers + 1 > 0
        BY <3>1, <4>1 DEF Mocks
      <4> DEFINE t == mock.timers + 1
      <4>3. mock' = [mock EXCEPT !.settled = TRUE, !.timers = t]
        BY <4>1
      <4> HIDE DEF t
      <4>4. mock' \in Mocks
        BY <3>1, <4>2, <4>3 DEF t, Mocks
      <4>5. mock'.progress = 100 /\ mock'.timers = t
        BY <3>1, <4>1, <4>3 DEF Mocks
      <4>6. QED
        BY <4>2, <4>4, <4>5 DEF t
    <3>3. CASE ~(mock.progress >= 100)
      <4> DEFINE next == IF mock.progress + 2 < 100 THEN mock.progress + 2 ELSE 100
      <4>1. mock' = [mock EXCEPT !.progress = next]
        BY <1>3, <3>3 DEF Widgets!Tick
      <4>2. next \in 8 .. 100 /\ ~mock.settled
        BY <3>1, <3>3 DEF Mocks
      <4> HIDE DEF next
      <4>3. QED
        BY <3>1, <4>1, <4>2 DEF Mocks
    <3>4. QED
      BY <3>2, <3>3
  <2>2. UNCHANGED <<page, reduce, carousel, stream>>
    BY <1>3 DEF Widgets!Tick
  <2>3. QED
    BY <2>1, <2>2 DEF WidgetsInv, InOrder, Mocks, Carousels, Streams
<1>4. CASE Widgets!StartAgain
  <2>1. mock' \in Mocks /\ ~mock'.settled
    BY <1>4, WidgetsConstants DEF Widgets!StartAgain, WidgetsInv, Mocks
  <2>2. UNCHANGED <<page, reduce, carousel, stream>>
    BY <1>4 DEF Widgets!StartAgain
  <2>3. QED
    BY <2>1, <2>2 DEF WidgetsInv, InOrder, Mocks, Carousels, Streams
<1>5. CASE Widgets!StreamLoop
  <2>1. stream' \in Streams /\ InOrder(stream')
    BY <1>5, EmitKeepsOrder DEF Widgets!StreamLoop, WidgetsInv
  <2>2. UNCHANGED <<page, reduce, mock, carousel>>
    BY <1>5 DEF Widgets!StreamLoop
  <2>3. QED
    BY <2>1, <2>2 DEF WidgetsInv, InOrder, Mocks, Carousels, Streams
<1>6. QED
  BY <1>1, <1>2, <1>3, <1>4, <1>5, CarouselStep DEF Widgets!Next

\* Behaviours about the widgets keep their invariant.
LEMMA WidgetsInvariant == Spec => [](part = "widgets" => WidgetsInv)
<1>1. Init => (part = "widgets" => WidgetsInv)
  BY PartInit, WidgetsInit
<1>2. (part = "widgets" => WidgetsInv) /\ [Next]_vars
      => (part = "widgets" => WidgetsInv)'
  BY PartStep, WidgetsStep
<1>3. QED
  BY <1>1, <1>2, PTL DEF Spec

-----------------------------------------------------------------------------
(* The landing page.                                                       *)

Places == [hash : Sections \cup {Nil}, section : Sections]
Menus == [open : BOOLEAN, locked : BOOLEAN]
Values == [revealed : BOOLEAN, hover : BOOLEAN, focus : BOOLEAN]
Counters == [inView : BOOLEAN, n : 0 .. To, frame : BOOLEAN]

\* The types of the landing page.
LandingTypes ==
  /\ open \in BOOLEAN
  /\ place \in Places /\ menu \in Menus /\ value \in Values
  /\ counter \in Counters
  /\ faq \in {Nil} \cup 0 .. Questions - 1

\* The controls let go, and a page that is left has no menu.
LandingInv ==
  /\ LandingTypes
  /\ menu.open => open
  /\ Landing!ControlsLetGo

\* What LandingAssumption says, with the names of this module.
LEMMA LandingConstants ==
  /\ Top \in Sections /\ Questions \in Nat \ {0} /\ To \in Nat \ {0}
  BY WebAssumption DEF Landing!LandingAssumption

\* The controls of a page that is just opened.
LEMMA AnUntouchedPage ==
  /\ Landing!NoMenu \in Menus /\ ~Landing!NoMenu.open /\ ~Landing!NoMenu.locked
  /\ Landing!Sealed \in Values /\ ~Landing!Sealed.revealed
  /\ Landing!Uncounted \in Counters
  /\ ~Landing!Uncounted.inView /\ ~Landing!Uncounted.frame
  /\ 0 \in {Nil} \cup 0 .. Questions - 1
  BY LandingConstants DEF Landing!NoMenu, Landing!Sealed, Landing!Uncounted,
                          Menus, Values, Counters

\* The page as it is opened first.
LEMMA LandingInit == Landing!Init => LandingInv
<1> SUFFICES ASSUME Landing!Init PROVE LandingInv
  OBVIOUS
<1>1. place \in Places
  BY LandingConstants DEF Landing!Init, Places
<1>2. QED
  BY <1>1, AnUntouchedPage
     DEF Landing!Init, LandingInv, LandingTypes, Landing!ControlsLetGo

\* Every step of the landing page, one case for each action.
LEMMA LandingStep == LandingInv /\ [Landing!Next]_(Landing!vars) => LandingInv'
<1> SUFFICES ASSUME LandingInv, [Landing!Next]_(Landing!vars)
             PROVE  LandingInv'
  OBVIOUS
<1> USE DEF LandingInv, LandingTypes, Landing!ControlsLetGo
<1>1. CASE UNCHANGED Landing!vars
  BY <1>1 DEF Landing!vars
<1>2. CASE Landing!Open
  <2>1. place' \in Places /\ place'.hash = Nil
    BY <1>2, LandingConstants DEF Landing!Open, Places
  <2>2. QED
    BY <1>2, <2>1, AnUntouchedPage DEF Landing!Open
<1>3. ASSUME NEW hash \in Sections \cup {Nil}, Landing!Leave(hash)
      PROVE  LandingInv'
  <2>1. place' \in Places
    BY <1>3 DEF Landing!Leave, Places
  <2>2. QED
    BY <1>3, <2>1, AnUntouchedPage DEF Landing!Leave
<1>4. ASSUME NEW lit \in BOOLEAN, Landing!SetMenu(lit)
      PROVE  /\ menu' \in Menus /\ open
             /\ menu'.open = lit /\ menu'.locked = lit
  BY <1>4 DEF Landing!SetMenu, Menus
<1>5. CASE Landing!Burger
  <2>1. menu' = [open |-> TRUE, locked |-> TRUE]
        \/ menu' = [open |-> FALSE, locked |-> FALSE]
    <3>1. CASE menu.open
      BY <1>5, <3>1, Zenon DEF Landing!Burger, Landing!SetMenu
    <3>2. CASE ~menu.open
      BY <1>5, <3>2, Zenon DEF Landing!Burger, Landing!SetMenu
    <3>3. QED
      BY <3>1, <3>2
  <2>2. menu' \in Menus /\ (menu'.locked <=> menu'.open)
    <3>1. CASE menu' = [open |-> TRUE, locked |-> TRUE]
      BY <3>1 DEF Menus
    <3>2. CASE menu' = [open |-> FALSE, locked |-> FALSE]
      BY <3>2 DEF Menus
    <3>3. QED
      BY <2>1, <3>1, <3>2
  <2>3. QED
    BY <1>5, <2>2 DEF Landing!Burger, Landing!SetMenu
<1>6. ASSUME NEW section \in Sections, Landing!CloseMenu(section)
      PROVE  LandingInv'
  <2>1. place' \in Places /\ place'.hash = place.hash
    BY <1>6 DEF Landing!CloseMenu, Places
  <2>2. QED
    BY <1>4, <1>6, <2>1 DEF Landing!CloseMenu
<1>7. ASSUME NEW section \in Sections, Landing!Link(section)
      PROVE  LandingInv'
  <2>1. place' \in Places /\ place'.hash = place.hash
    BY <1>7 DEF Landing!Link, Places
  <2>2. CASE menu.open
    BY <1>4, <1>7, <2>1, <2>2 DEF Landing!Link
  <2>3. CASE ~menu.open
    BY <1>7, <2>1, <2>3 DEF Landing!Link
  <2>4. QED
    BY <2>2, <2>3
<1>8. ASSUME NEW i \in 0 .. Questions - 1, Landing!ToggleQuestion(i)
      PROVE  LandingInv'
  BY <1>8 DEF Landing!ToggleQuestion
<1>9. ASSUME NEW at \in {"hover", "focus"}, NEW here \in BOOLEAN,
             Landing!Point(at, here)
      PROVE  LandingInv'
  <2>1. value' \in Values /\ (value'.revealed => value'.hover \/ value'.focus)
    <3>1. CASE at = "hover"
      BY <1>9, <3>1 DEF Landing!Point, Values
    <3>2. CASE at = "focus"
      BY <1>9, <3>2 DEF Landing!Point, Values
    <3>3. QED
      BY <3>1, <3>2
  <2>2. QED
    BY <1>9, <2>1 DEF Landing!Point
<1>10. CASE Landing!ClickValue
  <2>1. value' \in Values /\ (value'.hover \/ value'.focus)
    BY <1>10 DEF Landing!ClickValue, Values
  <2>2. QED
    BY <1>10, <2>1 DEF Landing!ClickValue
<1>11. ASSUME NEW still \in BOOLEAN, Landing!InView(still)
       PROVE  LandingInv'
  <2>1. /\ counter' \in Counters
        /\ counter'.inView
        /\ counter'.frame <=> counter'.n < To
    <3>1. \/ counter' = [inView |-> TRUE, n |-> To, frame |-> FALSE]
          \/ counter' = [inView |-> TRUE, n |-> 0, frame |-> TRUE]
      <4>1. CASE still
        BY <1>11, <4>1, Zenon DEF Landing!InView
      <4>2. CASE ~still
        BY <1>11, <4>2, Zenon DEF Landing!InView
      <4>3. QED
        BY <4>1, <4>2
    <3>2. CASE counter' = [inView |-> TRUE, n |-> To, frame |-> FALSE]
      BY <3>2, LandingConstants DEF Counters
    <3>3. CASE counter' = [inView |-> TRUE, n |-> 0, frame |-> TRUE]
      BY <3>3, LandingConstants DEF Counters
    <3>4. QED
      BY <3>1, <3>2, <3>3
  <2>2. QED
    BY <1>11, <2>1 DEF Landing!InView
<1>12. ASSUME NEW n \in 0 .. To, Landing!Tick(n)
       PROVE  LandingInv'
  <2>1. /\ counter' \in Counters
        /\ counter'.inView
        /\ counter'.frame <=> counter'.n < To
    <3> DEFINE more == n < To
    <3>1. /\ more \in BOOLEAN /\ counter \in Counters /\ counter.inView
          /\ counter' = [counter EXCEPT !.n = n, !.frame = more]
      BY <1>12 DEF Landing!Tick
    <3> HIDE DEF more
    <3>2. counter' \in Counters /\ counter'.inView /\ counter'.frame = more
      BY <3>1 DEF Counters
    <3>3. counter'.n = n
      BY <3>1 DEF Counters
    <3>4. QED
      BY <3>2, <3>3 DEF more
  <2>2. QED
    BY <1>12, <2>1 DEF Landing!Tick
<1>13. QED
  BY <1>1, <1>2, <1>3, <1>5, <1>6, <1>7, <1>8, <1>9, <1>10, <1>11, <1>12
     DEF Landing!Next

\* Behaviours about the landing page keep its invariant.
LEMMA LandingInvariant == Spec => [](part = "landing" => LandingInv)
<1>1. Init => (part = "landing" => LandingInv)
  BY PartInit, LandingInit
<1>2. (part = "landing" => LandingInv) /\ [Next]_vars
      => (part = "landing" => LandingInv)'
  BY PartStep, LandingStep
<1>3. QED
  BY <1>1, <1>2, PTL DEF Spec

(***************************************************************************)
(* Widgets and controls let go of what they hold, for any number of cards, *)
(* rows, timeouts, sections and steps (MobileCarousel.tsx,                 *)
(* TerminalMock.tsx, ActivityStream.tsx; page.tsx and ui.tsx): a carousel  *)
(* that is pressed sets out for no other card, until the press is released *)
(* or the browser pans with it, and a pause without a press has a timeout, *)
(* unless the press slipped off the track; the mock says "settled" only    *)
(* over a full ring, the rows of the stream are the last events in order,  *)
(* and the menu, the sealed values, the hash and the figures of the        *)
(* landing page leave nothing behind.                                      *)
(***************************************************************************)
THEOREM ControlsAndWidgetsLetGo == Spec => []WidgetsLetGo
<1>1. WidgetsInv => Widgets!WidgetsLetGo
  <2> SUFFICES ASSUME WidgetsInv PROVE Widgets!WidgetsLetGo
    OBVIOUS
  <2>1. DOMAIN stream.events = 1 .. Len(stream.events)
    BY DEF WidgetsInv, Streams
  <2>2. QED
    BY <2>1 DEF WidgetsInv, CarouselSound, Presses, InOrder,
                Widgets!WidgetsLetGo, Widgets!Pressed, Widgets!SaysSettled,
                Widgets!ProofRing, Widgets!RowKeys
<1>2. LandingInv => Landing!ControlsLetGo
  BY DEF LandingInv
<1>3. (part = "widgets" => WidgetsInv) /\ (part = "landing" => LandingInv)
      => WidgetsLetGo
  BY <1>1, <1>2 DEF WidgetsLetGo
<1>4. QED
  BY <1>3, WidgetsInvariant, LandingInvariant, PTL

-----------------------------------------------------------------------------
(* The backdrops.                                                          *)

AHandle == Handles \cup {Nil}

\* LivingBackground: its handle, the frames that are pending, its waves.
Livings ==
  [raf : AHandle, frames : SUBSET Handles, still : BOOLEAN, drawn : BOOLEAN,
   waves : SUBSET (1 .. WaveLife)]

\* ColorBends: its handle, the frames that are pending, and its material.
Bends ==
  [raf : AHandle, frames : SUBSET Handles, visible : BOOLEAN,
   props : Backdrops!Props, shape : Shapes, palette : Palettes]

\* LivingBackground is stopped by reduced motion or while it is hidden.
LivingIsRun ==
  /\ living \in Livings /\ living.frames \subseteq {living.raf}
  /\ Cardinality(living.waves) <= Backdrops!MaxWaves
  /\ living.still => living.frames = {}
  /\ ~living.still /\ ~hidden => living.frames # {}

\* ColorBends knows by its handle whether a frame is pending.
BendsAreRun ==
  /\ bends \in Bends /\ bends.frames \subseteq {bends.raf}
  /\ bends.frames = {} => bends.raf = Nil
  /\ ~hidden => bends.visible /\ bends.frames # {}
  /\ bends.shape = bends.props.shape /\ bends.palette = bends.props.palette

\* The canvases run while they are mounted; what every step of them keeps.
BackdropsInv ==
  /\ mounted \in BOOLEAN /\ hidden \in BOOLEAN
  /\ mounted => LivingIsRun /\ BendsAreRun
  /\ ~mounted => living = Backdrops!NoCanvas /\ bends = Backdrops!NoCanvas

\* What BackdropsAssumption says, with the names of this module.
LEMMA BackdropsConstants ==
  /\ WaveLife \in Nat \ {0} /\ Nil \notin Handles /\ Nil \notin Palettes
  /\ \A h \in AHandle : Handles \ {h} # {}
  BY WebAssumption DEF Backdrops!BackdropsAssumption, AHandle

\* A request adds a handle that the canvas does not hold.
LEMMA RequestIsPending ==
  ASSUME NEW canvas, canvas.raf \in AHandle, canvas.frames \subseteq {canvas.raf}
  PROVE  \E h \in Handles :
           Backdrops!Request(canvas) =
             [canvas EXCEPT !.raf = h, !.frames = canvas.frames \cup {h}]
<1> DEFINE h == CHOOSE x \in Handles : x \notin canvas.frames \cup {canvas.raf}
<1>1. \E x \in Handles : x \notin canvas.frames \cup {canvas.raf}
  BY BackdropsConstants
<1>2. h \in Handles
  BY <1>1
<1> HIDE DEF h
<1>3. Backdrops!Request(canvas) =
        [canvas EXCEPT !.raf = h, !.frames = canvas.frames \cup {h}]
  BY DEF Backdrops!Request, h
<1>4. QED
  BY <1>2, <1>3

\* A frame that is requested when none is pending is the one that is.
LEMMA LivingRequest ==
  ASSUME NEW canvas \in Livings, canvas.frames = {}
  PROVE  LET new == Backdrops!Request(canvas)
         IN  /\ new \in Livings /\ new.frames = {new.raf}
             /\ new.still = canvas.still /\ new.waves = canvas.waves
<1>1. PICK h \in Handles :
        Backdrops!Request(canvas) = [canvas EXCEPT !.raf = h, !.frames = {h}]
  <2>1. canvas.raf \in AHandle
    BY DEF Livings
  <2>2. PICK h \in Handles :
          Backdrops!Request(canvas) =
            [canvas EXCEPT !.raf = h, !.frames = canvas.frames \cup {h}]
    BY <2>1, RequestIsPending
  <2>3. canvas.frames \cup {h} = {h}
    OBVIOUS
  <2>4. QED
    BY <2>2, <2>3
<1> DEFINE new == Backdrops!Request(canvas)
<1>2. h \in AHandle /\ {h} \in SUBSET Handles
  BY DEF AHandle
<1>3. new \in Livings
  BY <1>1, <1>2 DEF Livings
<1>4. new.raf = h /\ new.frames = {h} /\ new.still = canvas.still
      /\ new.waves = canvas.waves
  BY <1>1 DEF Livings
<1>5. QED
  BY <1>3, <1>4

\* The same for ColorBends.
LEMMA BendsRequest ==
  ASSUME NEW canvas \in Bends, canvas.frames = {}
  PROVE  LET new == Backdrops!Request(canvas)
         IN  /\ new \in Bends /\ new.frames = {new.raf}
             /\ new.visible = canvas.visible /\ new.props = canvas.props
             /\ new.shape = canvas.shape /\ new.palette = canvas.palette
<1>1. PICK h \in Handles :
        Backdrops!Request(canvas) = [canvas EXCEPT !.raf = h, !.frames = {h}]
  <2>1. canvas.raf \in AHandle
    BY DEF Bends
  <2>2. PICK h \in Handles :
          Backdrops!Request(canvas) =
            [canvas EXCEPT !.raf = h, !.frames = canvas.frames \cup {h}]
    BY <2>1, RequestIsPending
  <2>3. canvas.frames \cup {h} = {h}
    OBVIOUS
  <2>4. QED
    BY <2>2, <2>3
<1> DEFINE new == Backdrops!Request(canvas)
<1>2. h \in AHandle /\ {h} \in SUBSET Handles
  BY DEF AHandle
<1>3. new \in Bends
  BY <1>1, <1>2 DEF Bends
<1>4. /\ new.raf = h /\ new.frames = {h}
      /\ new.visible = canvas.visible /\ new.props = canvas.props
      /\ new.shape = canvas.shape /\ new.palette = canvas.palette
  BY <1>1 DEF Bends
<1>5. QED
  BY <1>3, <1>4

\* What is cancelled is the frame that was pending.
LEMMA CancelEndsIt ==
  ASSUME NEW canvas, canvas.frames \subseteq {canvas.raf}
  PROVE  Backdrops!Cancel(canvas) = [canvas EXCEPT !.frames = {}]
<1>1. canvas.frames \ {canvas.raf} = {}
  OBVIOUS
<1>2. QED
  BY <1>1 DEF Backdrops!Cancel

\* A frame starts one wave and ages all.
LEMMA WavesStayFew ==
  ASSUME NEW waves \in SUBSET (1 .. WaveLife), NEW scrolled \in BOOLEAN,
         Cardinality(waves) <= Backdrops!MaxWaves
  PROVE  LET new == Backdrops!Aged(Backdrops!Started(waves, scrolled))
         IN  /\ new \in SUBSET (1 .. WaveLife)
             /\ Cardinality(new) <= Backdrops!MaxWaves
<1> DEFINE started == Backdrops!Started(waves, scrolled)
           younger == {life - 1 : life \in started}
           new == Backdrops!Aged(started)
<1>1. IsFiniteSet(waves)
  <2>1. IsFiniteSet(1 .. WaveLife)
    BY BackdropsConstants, FS_Interval
  <2>2. QED
    BY <2>1, FS_Subset
<1>2. /\ started \in SUBSET (1 .. WaveLife) /\ IsFiniteSet(started)
      /\ Cardinality(started) <= 4
  <2>1. Backdrops!Cardinality(waves) = Cardinality(waves)
    BY Zenon DEF Cardinality, Backdrops!Cardinality
  <2>2. CASE scrolled /\ Cardinality(waves) < 4
    <3>1. started = waves \cup {WaveLife}
      BY <2>1, <2>2 DEF Backdrops!Started, Backdrops!MaxWaves
    <3>2. WaveLife \in 1 .. WaveLife
      BY BackdropsConstants
    <3>3. /\ IsFiniteSet(waves \cup {WaveLife})
          /\ \/ Cardinality(waves \cup {WaveLife}) = Cardinality(waves)
             \/ Cardinality(waves \cup {WaveLife}) = Cardinality(waves) + 1
      BY <1>1, FS_AddElement
    <3>4. Cardinality(waves) \in Nat
      BY <1>1, FS_CardinalityType
    <3> DEFINE c == Cardinality(waves)
               c1 == Cardinality(waves \cup {WaveLife})
    <3> HIDE DEF started
    <3>5. c1 <= 4
      <4> HIDE DEF c, c1
      <4>1. c \in Nat /\ c < 4 /\ (c1 = c \/ c1 = c + 1)
        BY <2>2, <3>3, <3>4 DEF c, c1
      <4>2. QED
        BY <4>1
    <3>6. started \in SUBSET (1 .. WaveLife)
      BY <3>1, <3>2
    <3>7. QED
      BY <3>1, <3>3, <3>5, <3>6
  <2>3. CASE ~(scrolled /\ Cardinality(waves) < 4)
    <3>1. started = waves
      BY <2>1, <2>3 DEF Backdrops!Started, Backdrops!MaxWaves
    <3>2. QED
      BY <1>1, <3>1 DEF Backdrops!MaxWaves
  <2>4. QED
    BY <2>2, <2>3
<1> HIDE DEF started
<1>3. IsFiniteSet(younger) /\ Cardinality(younger) <= Cardinality(started)
  <2> DEFINE f == [life \in started |-> life - 1]
  <2>1. f \in Surjection(started, younger)
    BY DEF Surjection
  <2> HIDE DEF younger
  <2>2. QED
    BY <1>2, <2>1, FS_Surjection
<1>4. new \subseteq younger
  BY DEF Backdrops!Aged
<1>5. IsFiniteSet(new) /\ Cardinality(new) <= Cardinality(younger)
  BY <1>3, <1>4, FS_Subset
<1>6. new \in SUBSET (1 .. WaveLife)
  BY <1>2, BackdropsConstants DEF Backdrops!Aged
<1>7. /\ Cardinality(new) \in Nat /\ Cardinality(younger) \in Nat
      /\ Cardinality(started) \in Nat
  BY <1>2, <1>3, <1>5, FS_CardinalityType
<1> HIDE DEF younger, new
<1>8. Cardinality(new) <= 4
  BY <1>2, <1>3, <1>5, <1>7
<1>9. QED
  BY <1>6, <1>8 DEF new, started, Backdrops!MaxWaves

\* A cancelled canvas has no frame pending.
LEMMA LivingCancelled ==
  ASSUME NEW canvas \in Livings, canvas.frames \subseteq {canvas.raf}
  PROVE  LET new == Backdrops!Cancel(canvas)
         IN  /\ new \in Livings /\ new.frames = {}
             /\ new.still = canvas.still /\ new.waves = canvas.waves
<1>1. Backdrops!Cancel(canvas) = [canvas EXCEPT !.frames = {}]
  BY CancelEndsIt
<1>2. QED
  BY <1>1 DEF Livings

\* LivingBackground has its frame, or none under reduced motion.
LEMMA LivingAtFirst ==
  ASSUME NEW still \in BOOLEAN
  PROVE  LET new == Backdrops!LivingMounted(still)
         IN  /\ new \in Livings /\ new.frames \subseteq {new.raf}
             /\ Cardinality(new.waves) <= Backdrops!MaxWaves
             /\ new.still = still /\ (still <=> new.frames = {})
<1> DEFINE canvas == [raf |-> Nil, frames |-> {}, still |-> still,
                      drawn |-> still, waves |-> {}]
           asked == Backdrops!Request(canvas)
           ended == Backdrops!Cancel(asked)
<1>1. /\ canvas \in Livings /\ canvas.frames = {} /\ canvas.still = still
      /\ canvas.waves = {}
  BY DEF Livings, AHandle
<1>2. Backdrops!LivingMounted(still) = IF still THEN ended ELSE asked
  BY DEF Backdrops!LivingMounted
<1> HIDE DEF canvas
<1>3. /\ asked \in Livings /\ asked.frames = {asked.raf}
      /\ asked.still = still /\ asked.waves = {}
  BY <1>1, LivingRequest
<1> HIDE DEF asked
<1>4. /\ ended \in Livings /\ ended.frames = {}
      /\ ended.still = still /\ ended.waves = {}
  BY <1>3, LivingCancelled
<1> HIDE DEF ended
<1>5. Cardinality({}) <= Backdrops!MaxWaves
  BY FS_EmptySet DEF Backdrops!MaxWaves
<1>6. CASE still
  BY <1>2, <1>4, <1>5, <1>6
<1>7. CASE ~still
  BY <1>2, <1>3, <1>5, <1>7
<1>8. QED
  BY <1>6, <1>7

\* ColorBends with a new canvas, coloured.
LEMMA BendsAtFirst ==
  ASSUME NEW props \in Backdrops!Props
  PROVE  LET new == Backdrops!Coloured(Backdrops!Made(props), props)
         IN  /\ new \in Bends /\ new.frames = {new.raf} /\ new.visible
             /\ new.props = props
             /\ new.shape = props.shape /\ new.palette = props.palette
<1> DEFINE bare == [raf |-> Nil, frames |-> {}, visible |-> TRUE,
                    props |-> props, shape |-> props.shape, palette |-> Nil]
<1>1. PICK h \in Handles :
        Backdrops!Request(bare) = [bare EXCEPT !.raf = h, !.frames = {h}]
  <2>1. bare.raf \in AHandle /\ bare.frames = {}
    BY DEF AHandle
  <2> HIDE DEF bare
  <2>2. PICK h \in Handles :
          Backdrops!Request(bare) =
            [bare EXCEPT !.raf = h, !.frames = bare.frames \cup {h}]
    BY <2>1, RequestIsPending
  <2>3. bare.frames \cup {h} = {h}
    BY <2>1
  <2>4. QED
    BY <2>2, <2>3
<1>2. Backdrops!Made(props) =
        [raf |-> h, frames |-> {h}, visible |-> TRUE, props |-> props,
         shape |-> props.shape, palette |-> Nil]
  BY <1>1 DEF Backdrops!Made
<1>3. h \in AHandle /\ props.shape \in Shapes /\ props.palette \in Palettes
  BY DEF AHandle, Backdrops!Props
<1> DEFINE made == Backdrops!Made(props)
           new == [made EXCEPT !.props = props, !.shape = props.shape,
                               !.palette = props.palette]
           Bare == [raf : AHandle, frames : SUBSET Handles, visible : BOOLEAN,
                    props : Backdrops!Props, shape : Shapes,
                    palette : Palettes \cup {Nil}]
<1>4. made \in Bare /\ made.raf = h /\ made.frames = {h} /\ made.visible
  BY <1>2, <1>3
<1> HIDE DEF made
<1>5. new \in Bends
  BY <1>3, <1>4 DEF Bends
<1>6. /\ new.raf = h /\ new.frames = {h} /\ new.visible
      /\ new.props = props
      /\ new.shape = props.shape /\ new.palette = props.palette
  BY <1>4
<1>7. Backdrops!Coloured(Backdrops!Made(props), props) = new
  BY DEF Backdrops!Coloured, made
<1> HIDE DEF new
<1>8. QED
  BY <1>5, <1>6, <1>7

\* The canvases as they are mounted first.
LEMMA BackdropsInit == Backdrops!Init => BackdropsInv
  BY DEF Backdrops!Init, BackdropsInv

\* LivingBackground is hidden or shown.
LEMMA LivingSeenStep ==
  ASSUME LivingIsRun, hidden \in BOOLEAN, hidden' = ~hidden,
         living' = Backdrops!LivingSeen(hidden)
  PROVE  LivingIsRun'
<1> DEFINE ended == Backdrops!Cancel(living)
           asked == Backdrops!Request(ended)
<1>1. /\ ended \in Livings /\ ended.frames = {}
      /\ ended.still = living.still /\ ended.waves = living.waves
  BY LivingCancelled DEF LivingIsRun
<1>2. living' = IF hidden /\ ~living.still THEN asked ELSE ended
  BY DEF Backdrops!LivingSeen
<1> HIDE DEF ended
<1>3. /\ asked \in Livings /\ asked.frames = {asked.raf}
      /\ asked.still = living.still /\ asked.waves = living.waves
  BY <1>1, LivingRequest
<1> HIDE DEF asked
<1>4. CASE hidden /\ ~living.still
  BY <1>2, <1>3, <1>4 DEF LivingIsRun, Backdrops!MaxWaves
<1>5. CASE ~(hidden /\ ~living.still)
  BY <1>1, <1>2, <1>5 DEF LivingIsRun, Backdrops!MaxWaves
<1>6. QED
  BY <1>4, <1>5

\* ColorBends is hidden or shown.
LEMMA BendsSeenStep ==
  ASSUME BendsAreRun, hidden \in BOOLEAN, hidden' = ~hidden,
         bends' = Backdrops!BendsSeen(hidden)
  PROVE  BendsAreRun'
<1> DEFINE seen == [bends EXCEPT !.visible = hidden]
           asked == Backdrops!Request(seen)
<1>1. /\ seen \in Bends /\ seen.visible = hidden
      /\ seen.raf = bends.raf /\ seen.frames = bends.frames
      /\ seen.props = bends.props /\ seen.shape = bends.shape
      /\ seen.palette = bends.palette
  BY DEF BendsAreRun, Bends
<1>2. bends' = IF hidden /\ bends.raf = Nil THEN asked ELSE seen
  BY DEF Backdrops!BendsSeen
<1> HIDE DEF seen
<1>3. CASE hidden /\ bends.raf = Nil
  <2>1. Nil \notin Handles
    BY BackdropsConstants
  <2>2. bends.frames \subseteq Handles
    BY DEF BendsAreRun, Bends
  <2>3. seen.frames = {}
    BY <1>1, <1>3, <2>1, <2>2 DEF BendsAreRun
  <2>4. /\ asked \in Bends /\ asked.frames = {asked.raf}
        /\ asked.visible = hidden /\ asked.props = bends.props
        /\ asked.shape = bends.shape /\ asked.palette = bends.palette
    BY <1>1, <2>3, BendsRequest
  <2> HIDE DEF asked
  <2>5. QED
    BY <1>2, <1>3, <2>4 DEF BendsAreRun
<1>4. CASE ~(hidden /\ bends.raf = Nil)
  BY <1>1, <1>2, <1>4 DEF BendsAreRun
<1>5. QED
  BY <1>3, <1>4

\* Every step of the backdrops, one case for each action.
LEMMA BackdropsStep ==
  BackdropsInv /\ [Backdrops!Next]_(Backdrops!vars) => BackdropsInv'
<1> SUFFICES ASSUME BackdropsInv, [Backdrops!Next]_(Backdrops!vars)
             PROVE  BackdropsInv'
  OBVIOUS
<1> USE DEF BackdropsInv
<1>1. CASE UNCHANGED Backdrops!vars
  BY <1>1 DEF Backdrops!vars, LivingIsRun, BendsAreRun
<1>2. ASSUME NEW still \in BOOLEAN, NEW props \in Backdrops!Props,
             Backdrops!Mount(still, props)
      PROVE  BackdropsInv'
  <2>1. LivingIsRun'
    BY <1>2, LivingAtFirst
       DEF Backdrops!Mount, LivingIsRun, Backdrops!MaxWaves
  <2>2. BendsAreRun'
    BY <1>2, BendsAtFirst DEF Backdrops!Mount, BendsAreRun
  <2>3. QED
    BY <1>2, <2>1, <2>2 DEF Backdrops!Mount
<1>3. ASSUME NEW h \in Handles, NEW scrolled \in BOOLEAN,
             Backdrops!LivingFrame(h, scrolled)
      PROVE  BackdropsInv'
  <2> DEFINE older == Backdrops!Aged(Backdrops!Started(living.waves, scrolled))
             run == [living EXCEPT !.frames = @ \ {h}, !.drawn = TRUE,
                                   !.waves = older]
             asked == Backdrops!Request(run)
  <2>1. mounted /\ LivingIsRun /\ BendsAreRun /\ h \in living.frames
    BY <1>3 DEF Backdrops!LivingFrame
  <2>2. living.frames \ {h} = {} /\ ~living.still
    BY <2>1 DEF LivingIsRun
  <2>3. living.waves \in SUBSET (1 .. WaveLife)
    BY <2>1 DEF LivingIsRun, Livings
  <2>4. /\ older \in SUBSET (1 .. WaveLife)
        /\ Cardinality(older) <= Backdrops!MaxWaves
    BY <2>1, <2>3, WavesStayFew DEF LivingIsRun
  <2>5. living' = asked /\ UNCHANGED <<mounted, hidden, bends>>
    BY <1>3 DEF Backdrops!LivingFrame
  <2> HIDE DEF older
  <2>6. /\ run \in Livings /\ run.frames = {} /\ run.still = living.still
        /\ run.waves = older
    BY <2>1, <2>2, <2>4 DEF LivingIsRun, Livings
  <2> HIDE DEF run
  <2>7. /\ asked \in Livings /\ asked.frames = {asked.raf}
        /\ asked.still = living.still /\ asked.waves = older
    BY <2>6, LivingRequest
  <2> HIDE DEF asked
  <2>8. LivingIsRun'
    BY <2>2, <2>4, <2>5, <2>7 DEF LivingIsRun, Backdrops!MaxWaves
  <2>9. BendsAreRun'
    BY <2>1, <2>5 DEF BendsAreRun
  <2>10. QED
    BY <2>1, <2>5, <2>8, <2>9
<1>4. ASSUME NEW h \in Handles, Backdrops!BendsFrame(h)
      PROVE  BackdropsInv'
  <2> DEFINE run == [bends EXCEPT !.frames = @ \ {h}]
             asked == Backdrops!Request(run)
             stopped == [run EXCEPT !.raf = Nil]
  <2>1. mounted /\ LivingIsRun /\ BendsAreRun /\ h \in bends.frames
    BY <1>4 DEF Backdrops!BendsFrame
  <2>2. bends.frames \ {h} = {}
    BY <2>1 DEF BendsAreRun
  <2>3. bends' = IF bends.visible THEN asked ELSE stopped
    BY <1>4 DEF Backdrops!BendsFrame
  <2>4. /\ run \in Bends /\ run.frames = {}
        /\ run.visible = bends.visible /\ run.props = bends.props
        /\ run.shape = bends.shape /\ run.palette = bends.palette
    BY <2>1, <2>2 DEF BendsAreRun, Bends
  <2> HIDE DEF run
  <2>5. BendsAreRun'
    <3>1. UNCHANGED hidden
      BY <1>4 DEF Backdrops!BendsFrame
    <3>2. CASE bends.visible
      <4>1. /\ asked \in Bends /\ asked.frames = {asked.raf}
            /\ asked.visible = bends.visible /\ asked.props = bends.props
            /\ asked.shape = bends.shape /\ asked.palette = bends.palette
        BY <2>4, BendsRequest
      <4> HIDE DEF asked
      <4>2. QED
        BY <2>1, <2>3, <3>1, <3>2, <4>1 DEF BendsAreRun
    <3>3. CASE ~bends.visible
      <4>1. /\ stopped \in Bends /\ stopped.frames = {} /\ stopped.raf = Nil
            /\ stopped.visible = bends.visible /\ stopped.props = bends.props
            /\ stopped.shape = bends.shape /\ stopped.palette = bends.palette
        BY <2>4 DEF Bends, AHandle
      <4> HIDE DEF stopped
      <4>2. QED
        BY <2>1, <2>3, <3>1, <3>3, <4>1 DEF BendsAreRun
    <3>4. QED
      BY <3>2, <3>3
  <2>6. UNCHANGED <<mounted, hidden, living>>
    BY <1>4 DEF Backdrops!BendsFrame
  <2>7. LivingIsRun'
    BY <2>1, <2>6 DEF LivingIsRun
  <2>8. QED
    BY <2>1, <2>5, <2>6, <2>7
<1>5. ASSUME NEW props \in Backdrops!Props, Backdrops!Render(props)
      PROVE  BackdropsInv'
  <2>1. mounted /\ LivingIsRun /\ BendsAreRun
    BY <1>5 DEF Backdrops!Render
  <2>2. UNCHANGED <<mounted, hidden, living>>
    BY <1>5 DEF Backdrops!Render
  <2>3. BendsAreRun'
    <3>1. CASE props.shape # bends.props.shape
      <4>1. bends' = Backdrops!Coloured(Backdrops!Made(props), props)
        BY <1>5, <3>1 DEF Backdrops!Render, Backdrops!Rendered
      <4>2. QED
        BY <2>2, <4>1, BendsAtFirst DEF BendsAreRun
    <3>2. CASE props.shape = bends.props.shape
      <4>1. bends' = [bends EXCEPT !.props = props, !.shape = props.shape,
                                   !.palette = props.palette]
        BY <1>5, <3>2
           DEF Backdrops!Render, Backdrops!Rendered, Backdrops!Coloured
      <4>2. props.shape \in Shapes /\ props.palette \in Palettes
        BY DEF Backdrops!Props
      <4>3. bends' \in Bends
        BY <2>1, <4>1, <4>2 DEF BendsAreRun, Bends
      <4>4. /\ bends'.raf = bends.raf /\ bends'.frames = bends.frames
            /\ bends'.visible = bends.visible /\ bends'.props = props
            /\ bends'.shape = props.shape /\ bends'.palette = props.palette
        BY <2>1, <4>1 DEF BendsAreRun, Bends
      <4>5. QED
        BY <2>1, <2>2, <4>3, <4>4 DEF BendsAreRun
    <3>3. QED
      BY <3>1, <3>2
  <2>4. LivingIsRun'
    BY <2>1, <2>2 DEF LivingIsRun
  <2>5. QED
    BY <2>1, <2>2, <2>3, <2>4
<1>6. CASE Backdrops!Unmount
  <2>1. mounted /\ LivingIsRun /\ BendsAreRun
    BY <1>6 DEF Backdrops!Unmount
  <2>2. Backdrops!Cancel(living).frames = {}
    BY <2>1, LivingCancelled DEF LivingIsRun
  <2>3. Backdrops!Cancel(bends).frames = {}
    BY <2>1, CancelEndsIt DEF BendsAreRun, Bends
  <2>4. [Backdrops!NoCanvas EXCEPT !.frames = {}] = Backdrops!NoCanvas
    BY DEF Backdrops!NoCanvas
  <2>5. QED
    BY <1>6, <2>2, <2>3, <2>4 DEF Backdrops!Unmount
<1>7. CASE Backdrops!Resize
  <2>1. mounted /\ LivingIsRun /\ BendsAreRun
    BY <1>7 DEF Backdrops!Resize
  <2>2. UNCHANGED <<mounted, hidden, bends>>
        /\ living' = [living EXCEPT !.drawn = FALSE]
    BY <1>7 DEF Backdrops!Resize
  <2>3. /\ living' \in Livings /\ living'.raf = living.raf
        /\ living'.frames = living.frames /\ living'.still = living.still
        /\ living'.waves = living.waves
    BY <2>1, <2>2 DEF LivingIsRun, Livings
  <2>4. LivingIsRun'
    BY <2>1, <2>2, <2>3 DEF LivingIsRun, Backdrops!MaxWaves
  <2>5. BendsAreRun'
    BY <2>1, <2>2 DEF BendsAreRun
  <2>6. QED
    BY <2>1, <2>2, <2>4, <2>5
<1>8. CASE Backdrops!HideOrShow
  <2>1. hidden' = ~hidden /\ mounted' = mounted
    BY <1>8 DEF Backdrops!HideOrShow
  <2>2. hidden' \in BOOLEAN
    BY <2>1
  <2>3. CASE mounted
    <3>1. LivingIsRun' /\ BendsAreRun'
      BY <1>8, <2>1, <2>3, LivingSeenStep, BendsSeenStep
         DEF Backdrops!HideOrShow
    <3>2. QED
      BY <2>1, <2>2, <2>3, <3>1
  <2>4. CASE ~mounted
    BY <1>8, <2>1, <2>2, <2>4 DEF Backdrops!HideOrShow
  <2>5. QED
    BY <2>3, <2>4
<1>9. QED
  BY <1>1, <1>2, <1>3, <1>4, <1>5, <1>6, <1>7, <1>8 DEF Backdrops!Next

\* Behaviours about the backdrops keep their invariant.
LEMMA BackdropsInvariant == Spec => [](part = "backdrops" => BackdropsInv)
<1>1. Init => (part = "backdrops" => BackdropsInv)
  BY PartInit, BackdropsInit
<1>2. (part = "backdrops" => BackdropsInv) /\ [Next]_vars
      => (part = "backdrops" => BackdropsInv)'
  BY PartStep, BackdropsStep
<1>3. QED
  BY <1>1, <1>2, PTL DEF Spec

(***************************************************************************)
(* Each backdrop has one loop, for every set of handles that is never      *)
(* exhausted and every way of hiding, showing, re-rendering and leaving    *)
(* the page (LivingBackground.tsx, ColorBends.jsx): at most one frame is   *)
(* pending, and one is while the page is seen, unless reduced motion       *)
(* stopped it.                                                             *)
(***************************************************************************)
THEOREM BackdropsRunOnce == Spec => []OneLoopEach
<1>1. BackdropsInv => Backdrops!OneLoopEach
  <2> SUFFICES ASSUME BackdropsInv PROVE Backdrops!OneLoopEach
    OBVIOUS
  <2>1. CASE mounted
    BY <2>1 DEF BackdropsInv, LivingIsRun, BendsAreRun, Backdrops!OneLoopEach
  <2>2. CASE ~mounted
    BY <2>2 DEF BackdropsInv, Backdrops!NoCanvas, Backdrops!OneLoopEach
  <2>3. QED
    BY <2>1, <2>2
<1>2. (part = "backdrops" => BackdropsInv) => OneLoopEach
  BY <1>1 DEF OneLoopEach
<1>3. QED
  BY <1>2, BackdropsInvariant, PTL

-----------------------------------------------------------------------------
(* The types of all parts.                                                 *)

\* The page's pool is typed as ShieldedPool's.
LEMMA DisclosureTypes ==
  ASSUME PoolProofs!PoolInv, DisclosureInv
  PROVE  Disclosure!TypeOK
<1>1. Disclosure!Pool!TypeOK
  BY DisclosureConstants DEF PoolProofs!PoolInv, PoolProofs!TypeOK,
                             Disclosure!Pool!TypeOK
<1>2. view.open \in BOOLEAN
  BY DEF DisclosureInv, Views
<1>3. /\ view.busy \in view.notes \cup {Nil}
      /\ view.busy = Nil <=> call = Disclosure!Idle
      /\ call.stage \in {"idle", "proving", "checking"}
  <2>1. CASE view.busy = Nil
    <3>1. call = Disclosure!Idle
      BY <2>1 DEF DisclosureInv, CallIsSound
    <3>2. QED
      BY <2>1, <3>1 DEF Disclosure!Idle
  <2>2. CASE view.busy # Nil
    <3>1. call \in Disclosing /\ view.busy \in view.notes
      BY <2>2 DEF DisclosureInv, CallIsSound
    <3>2. call.stage \in {"proving", "checking"}
      BY <3>1 DEF Disclosing
    <3>3. QED
      BY <2>2, <3>1, <3>2, DisclosingIsNotIdle
  <2>3. QED
    BY <2>1, <2>2
<1>4. view.result # Nil => view.result.kind \in {"ok", "error"}
  <2>1. view.result \in {Nil}
          \cup [kind : {"error"}, note : PoolProofs!Note]
          \cup [kind : {"ok"}, note : PoolProofs!Note, onchain : BOOLEAN,
                local : BOOLEAN, recent : BOOLEAN]
    BY DEF DisclosureInv, Views
  <2>2. QED
    BY <2>1
<1>5. QED
  BY <1>1, <1>2, <1>3, <1>4 DEF Disclosure!TypeOK

\* The invariant has the types.
LEMMA BackdropsTypes ==
  ASSUME BackdropsInv
  PROVE  Backdrops!TypeOK
<1>1. {mounted, hidden} \subseteq BOOLEAN
  BY DEF BackdropsInv
<1>2. CASE mounted
  <2>1. /\ living.frames \subseteq Handles /\ living.raf \in Handles \cup {Nil}
        /\ living.waves \subseteq 1 .. WaveLife
        /\ Cardinality(living.waves) <= Backdrops!MaxWaves
    BY <1>2 DEF BackdropsInv, LivingIsRun, Livings, AHandle
  <2>2. /\ bends.frames \subseteq Handles /\ bends.raf \in Handles \cup {Nil}
        /\ bends.props \in Backdrops!Props
    BY <1>2 DEF BackdropsInv, BendsAreRun, Bends, AHandle
  <2>3. Backdrops!Cardinality(living.waves) = Cardinality(living.waves)
    BY Zenon DEF Cardinality, Backdrops!Cardinality
  <2>4. QED
    BY <1>1, <2>1, <2>2, <2>3 DEF Backdrops!TypeOK
<1>3. CASE ~mounted
  BY <1>1, <1>3 DEF BackdropsInv, Backdrops!NoCanvas, Backdrops!TypeOK
<1>4. QED
  BY <1>2, <1>3

\* The invariant has the types.
LEMMA PagesTypesOK ==
  ASSUME PagesInv
  PROVE  Pages!TypeOK
<1>1. PagesTypes /\ MaxVersion \in Nat
  BY PagesConstants DEF PagesInv
<1>2. /\ screen.pool \in {Nil} \cup Nat
      /\ screen.list \subseteq Notes /\ screen.revealed \subseteq Notes
      /\ screen.withdrawNote \in Notes \cup {Nil}
  BY <1>1 DEF PagesTypes, Screens
<1>3. screen.pool \in {Nil} \cup 0 .. version
  BY <1>1, <1>2 DEF PagesTypes
<1>4. version \in 0 .. MaxVersion /\ floor \in 0 .. version
  BY <1>1 DEF PagesTypes
<1>5. QED
  BY <1>1, <1>2, <1>3, <1>4 DEF PagesTypes, Pages!TypeOK

\* The invariant has the types.
LEMMA WidgetsTypes ==
  ASSUME WidgetsInv
  PROVE  Widgets!TypeOK
<1>1. mock.progress \in 8 .. 100 /\ mock.timers \in 0 .. MaxTimers
  BY DEF WidgetsInv, Mocks
<1>2. /\ {carousel.active, carousel.moving} \subseteq 0 .. Cards - 1
      /\ carousel.pointer \in Widgets!Pointers
  BY DEF WidgetsInv, CarouselSound, Carousels
<1>3. QED
  BY <1>1, <1>2 DEF WidgetsInv, InOrder, Widgets!TypeOK

\* The invariant has the types.
LEMMA LandingTypesOK ==
  ASSUME LandingInv
  PROVE  Landing!TypeOK
<1>1. place.hash \in Sections \cup {Nil} /\ place.section \in Sections
  BY DEF LandingInv, LandingTypes, Places
<1>2. /\ menu.open \in BOOLEAN /\ menu.locked \in BOOLEAN
      /\ value.revealed \in BOOLEAN /\ value.hover \in BOOLEAN
      /\ value.focus \in BOOLEAN
      /\ counter.inView \in BOOLEAN /\ counter.frame \in BOOLEAN
      /\ counter.n \in 0 .. To
  BY DEF LandingInv, LandingTypes, Menus, Values, Counters
<1>3. QED
  BY <1>1, <1>2 DEF LandingInv, LandingTypes, Landing!TypeOK

(***************************************************************************)
(* Every variable of every part of the web client has its type, for every  *)
(* choice of the constants.                                                *)
(***************************************************************************)
THEOREM WebTypeCorrect == Spec => []TypeOK
<1>1. PagesInv => Pages!TypeOK
  BY PagesTypesOK
<1>2. PoolProofs!PoolInv /\ DisclosureInv => Disclosure!TypeOK
  BY DisclosureTypes
<1>3. ShellInv => Shell!TypeOK
  <2> SUFFICES ASSUME ShellInv PROVE Shell!TypeOK
    OBVIOUS
  <2>1. {collapsed, peek, moreOpen, confirming} \subseteq BOOLEAN
    BY DEF ShellInv
  <2>2. QED
    BY <2>1 DEF ShellInv, Shell!TypeOK
<1>4. BackdropsInv => Backdrops!TypeOK
  BY BackdropsTypes
<1>5. WidgetsInv => Widgets!TypeOK
  BY WidgetsTypes
<1>6. LandingInv => Landing!TypeOK
  BY LandingTypesOK
<1>7. /\ part = "pages" => PagesInv
      /\ part = "disclosure" => PoolProofs!PoolInv
      /\ part = "disclosure" => DisclosureInv
      /\ part = "shell" => ShellInv
      /\ part = "backdrops" => BackdropsInv
      /\ part = "widgets" => WidgetsInv
      /\ part = "landing" => LandingInv
      => TypeOK
  BY <1>1, <1>2, <1>3, <1>4, <1>5, <1>6 DEF TypeOK
<1>8. QED
  BY <1>7, PagesInvariant, DisclosurePoolInvariant, DisclosureInvariant,
     ShellInvariant, BackdropsInvariant, WidgetsInvariant, LandingInvariant, PTL
=============================================================================
