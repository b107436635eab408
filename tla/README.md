# A formal model of NoirRail

NoirRail is a shielded pool on Stellar/Soroban. Holders deposit tokens into a
contract against a *note* (a Poseidon commitment in a Merkle tree), split notes
privately, and withdraw a note's value with a Groth16 proof that reveals a
nullifier and nothing else about the note. This directory holds TLA+ modules of
the system, TLC configurations that check them on small instances, and proofs
that TLAPS checks for every value of the constants.

## The system and what can go wrong in it

| part | state it keeps | operations | talks to |
|---|---|---|---|
| Pool contract, `contracts/shielded-pool/src/lib.rs` | leaves, frontier, next index, root, 32 recent roots, spent nullifiers, pinned approval root, token balance | `deposit`, `withdraw`, `transfer`, `verify_membership`, `set_approval_root`, views | token contract (calls), circuits (verifies proofs of) |
| Circuits, `circuits/src/*.circom` | none | the statements *withdraw*, *transfer*, *membership* | public signals read by the contract |
| Commitment tree: `merkle_insert`, `packages/sdk/src/merkle.ts`, `merkleProof.circom` | leaves and frontier on chain; leaves in the browser | insert, root, path, fold | three implementations that must agree |
| `contracts/libs/lean-imt` | leaves, root, caches of subtrees | insert, proof, to/from storage | used by noterail |
| `contracts/libs/groth16` | none | parse, verify | used by the contract |
| SDK (`packages/sdk/src`) | none | notes, witnesses, encodings | circuits, web app |
| Terminal (`web/`): dialogs, `lib/stellar.ts`, `lib/notes.ts` | notes and key in localStorage, dialog phases | shield, settle, refresh | RPC server: simulate, submit, poll |
| Wallet and browser store: `lib/wallet.ts`, `lib/notes.ts`, `wallet-context.tsx`, Settings | the key and notes in localStorage, and a copy of both in every tab | connect, disconnect, clear, list, add, mark | the other tabs, through localStorage |
| Pool pages: Overview, Terminal, Assets | the pool as last read, what is revealed, open dialogs | read, reveal, open, close | RPC simulation, the wallet |
| Disclosure page | a snapshot of the pool, the last verdict | disclose | RPC simulation, prover |
| App frame: `AppShell.tsx`, the book, `ConfirmDialog.tsx` | sidebar and its peek, sheet, one entry of localStorage | navigate, collapse, ask | the pages |
| Backdrops: `LivingBackground.tsx`, `ColorBends.jsx` | a pending frame each, waves, material | draw, hide, show, re-render | `requestAnimationFrame` |
| Landing page and widgets: `ui.tsx`, `TerminalMock.tsx`, `MobileCarousel.tsx`, `ActivityStream.tsx` | menu, sealed values, figures, timers | click, point, swipe, tick | timers of the browser |
| noterail (`cli/`) | coin, state and association files | generate, withdraw, associate | files |
| Scripts, styling | none | | |

The behaviours that are hard to test, each with its line in `PROJECT.json`
under `hazards`:

- **proofs are made on an old state.** A witness is built over the leaves as
  read, proved for seconds, submitted, and executed after any number of other
  settlements; the contract accepts any of its last 32 roots. The disclosure
  page reads the leaves once per visit.
- **one nullifier, many proofs.** A note can be spent by two entry points, with
  proofs over different roots, in either order, and a transaction can be
  submitted twice.
- **partial work.** A transfer spends its nullifier and inserts an output
  before it can fail for capacity; an association file is truncated before it
  is written.
- **arithmetic in a field.** Conservation of value is an equation modulo r.
- **a tree kept in four ways**: one stored node per level on chain, all leaves
  in the browser, a path in the circuit, two caches in `lean-imt`.
- **the client between chain and localStorage**: a call of a dialog runs over
  half a dozen awaits; in between the page may be reloaded, another call of the
  same account submitted, the answer of the network lost, and polling may end
  before the transaction's validity does.
- **shared storage without a lock**: tabs over one localStorage, runs over one
  file, each read, extended and written back whole.
- **answers out of order**: reads issued on mount, by a new key and after a
  settlement, each shown when it arrives; two checks of one proof, of which the
  first failure wins.
- **one meaning in three languages**: scalars, points, addresses and hashes are
  cut, padded, reduced and reordered between TypeScript, circom and Rust.
- **loops that keep themselves running**: frames and timers that request their
  successors, and are also started and stopped from outside.

What makes each part correct:

- *pool*: it is a ledger of notes: every call that takes effect issues a note
  for tokens or retires one live nullifier for its exact value; its balance
  covers all live notes; no holder is ever refused; recent roots are those of
  the last settlements.
- *tree*: the frontier's root is the root of the whole padded tree, the
  browser's and noterail's paths fold to it, a root names one tree.
- *terminal*: the vault lists only notes that are on the chain, it lacks none
  whose call was seen through, but for one that another tab overwrites with the
  list it had read before; no note is paid twice, every call comes to an end.
- *store*: a stored note stays stored until local data is cleared; a tab shows
  what a reload of it would find.
- *pages*: a page whose reads are answered is as new as what it was opened for,
  or says it could not read; a value is not hidden again; waiting ends.
- *disclosure*: an accepted disclosure is about a note of this pool in a
  recognised set, honest ones are not refused, and the badge is the contract's
  word.
- *association file*: a file that can be read is a set some run made, and runs
  that follow one another keep each other's labels.
- *encodings and amounts*: what is put in is what is read on the other side.
- *frame, backdrops, widgets, landing page*: one place lit, one loop per canvas,
  nothing held longer than what holds it.

## Modules

| module | what it is |
|---|---|
| `NoteLedger` | abstract specification: notes, retired nullifiers, escrow. No tree, no root, no proof, no failing call |
| `Circuits` | the three statements as relations on public signals |
| `ShieldedPool` | the contract: one action per entry point, with the ordered checks; extends `Circuits`; implements `NoteLedger` |
| `MCShieldedPool` | small instances of `ShieldedPool` |
| `CommitmentTree` | `merkle_insert` and its frontier, `merkle.ts`, `merkleProof.circom` |
| `MCCommitmentTree` | a small instance of it |
| `Terminal` | the dialogs, `send` and the vault, over an instance of `ShieldedPool` and the network |
| `MCTerminal` | a small instance of it |
| `Session` | the key and the notes in localStorage and in the tabs |
| `Pages` | the pages that show the pool, their reads and dialogs |
| `Disclosure` | the disclosure page over an instance of `ShieldedPool` |
| `AppShell`, `Backdrops`, `Widgets`, `Landing` | the frame, the canvases, what moves by itself, the controls of the landing page |
| `AssociationFile` | `updateAssociation` of noterail, its runs side by side |
| `LeanImt` | `lean-imt` with its caches, over the definitions of `CommitmentTree` |
| `Encodings` | conversions of the SDK, parsers of the contract, amounts |
| `Web` | `Pages`, `Disclosure`, `AppShell`, `Backdrops`, `Widgets` and `Landing` side by side |
| `Library` | `Session`, `AssociationFile`, `LeanImt` at two depths and `Encodings` side by side |
| `MCWeb`, `MCLibrary` | small instances of these two |
| `NoteLedgerProofs`, `ShieldedPoolProofs`, `TerminalProofs`, `CommitmentTreeProofs`, `LeanImtProofs`, `AssociationFileProofs`, `WebProofs`, `LibraryProofs` | theorems and their proofs |

`Web` and `Library` are sums, not products: the parts they instantiate share no
state, so a behaviour is a behaviour of one of them, `part` says which, and the
variables of the others are `Nil` in it. Every property speaks about the
behaviours of its part. `Library` extends `Session`, whose variables are at
rest while another part runs, so that `TypeOK`, `VaultIsKept` and
`TabsShowTheStore` are checked as `Session` states and `LibraryProofs` proves
them.

### ShieldedPool and the code

| TLA+ | code |
|---|---|
| `leaves` | `LEAVES_KEY`; the root of a tree is written as its leaves, see below |
| `roots`, `RecordRoot`, `RootIsKnown` | `ROOTS_KEY`, `record_root`, `root_is_known` |
| `nullifiers` | the `(NULL_KEY, nullifier)` entries |
| `approot` | `APPROOT_KEY` |
| `escrow`, `wallet` | balances in the token contract (external) |
| `Deposit`, `Withdraw`, `Transfer`, `VerifyMembership`, `SetApprovalRoot` | the entry points |
| `DepositChecks` ... `MembershipChecks` | their early returns, in the order of the code, each with its `Error` |
| `Donate` | a token transfer to the contract's address made without calling it (external) |

A call succeeds when all of its checks hold (`Succeeds`). A call that returns an
error leaves no trace, because the Soroban host discards the writes of a failed
invocation; that is modelled as external, and it is what keeps a transfer into
a tree with one free place from burning its input. The checks are kept with
their errors, in order, since the properties speak about outcomes.

A call's public signals are not tied to the current state. `Snapshots` holds
the tree at every moment so far, so a proof may be as old as the pool;
nullifiers, outputs and recipients are arbitrary. Duplicated and reordered
transactions are among these calls.

Abstractions of data:

- *Poseidon is collision free.* A commitment is a record of nullifier and
  value, a nullifier hash is the nullifier, a root is its sequence of leaves.
  The last one is justified by `CommitmentTree`, where roots are terms and
  `RootsNameTrees` is checked and proved. Label and secret enter no constraint but the
  commitment's hash.
- *Groth16 is sound and complete*: a proof for given signals verifies exactly
  when some witness satisfies the circuit.
- *Authorisation* is the host's: `deposit` and `withdraw` are called by the
  account they name, `set_approval_root` by the admin.
- The sizes of the field, of the range check and of `i128` are parameters, with
  the order of the real ones as the assumption.
- `amount` fits `i128` and a token supply does: `Amounts` is bounded by
  `I128Max`.

### CommitmentTree and the code

Nodes are terms: `Hash2(l, r)` is the pair. `MerkleInsert` is the loop of
`merkle_insert`; `Climb` its running node, `filled` and `zeros` the stored
vectors. `Nodes`, `Sibling`, `Siblings` and `IndexOf` are the methods of
`MerkleTree` (its memo table caches values of an immutable tree and is left
out); `MerkleProof` is the circuit. `FullTree` is the definition they are all
compared with. `pow2` is the shift `1 << level` of the code.

### Terminal and the code

| TLA+ | code |
|---|---|
| `calls` | the handlers `shield` and `settle` that are under way: the await each is at (`stage`), its note, the recipient typed in, the tree it read, the sequence number it fetched, its polls |
| `stored`, `marked` | `noir.notes` in localStorage, and the entries with `spent` |
| `read` | the list `loadNotes` returned to a handler that has not written yet |
| `Shield`, `Settle` | the handlers up to their first await |
| `ReadPool` | `fetchPoolState`, then `buildWithdrawWitness` on what it read |
| `GetAccount`, `Prepare`, `Submit`, `NotTaken`, `Poll...` | `send`, one action from await to await |
| `PollSuccess`, `LoadNotes` | the last poll, and the `getItem` of `addNote` and `markSpent` |
| `WriteVault`, `AddNote`, `MarkSpent` | their `setItem`, of the whole list as it was read and changed |
| `RequestFails` | an awaited request rejects, or `setItem` throws; the handler's `catch` |
| `seq`, `txs`, `Execute`, `Lapse`, `OthersSettle` | the network (external): the account's sequence number, what became of each transaction, other users |
| `Reload` | the browser (external): the page of a call ends, localStorage stays |

A call is a thread: JavaScript runs it without interruption from one await to
the next, and nothing in the dialogs keeps a second call from starting. The
shield dialog closes on a click beside it while its call goes on; tabs share
key and vault. Two calls may be in two tabs, which is why the `getItem` and the
`setItem` of one are two steps: a list that another tab writes in between is
replaced by one that never held it. Calls of one tab do not run between the
two; theirs are some of the behaviours. `missed` and `overwritten` are history
variables: which writes came since a list was read, and which were replaced by
a list that missed them. `Settle` takes any note that was stored once
(`Listed`), marked or overwritten since or not, for a tab's list is the copy
made when its page was mounted.

The pool is not abstracted: `Execute` takes the `Deposit` or `Withdraw` of
`ShieldedPool`, and `Prepare` evaluates the same checks. Time is: a transaction
may be executed or lapse at any moment, before or after polling ends, which
covers 30 polls a second apart against a validity of 120 s. `MaxPolls` stands
for the 30.

### The store, the pages and the code

| TLA+ | code |
|---|---|
| `Session`: `key`, `vault`, `spent` | `noir.wallet.secret`, `noir.notes` and the notes of it marked `spent` |
| `tabs` | `wallet` of `WalletProvider`, the page shown and its `notes` |
| `Connect`, `Funded` | `connect` up to `await fund`, and behind it |
| `Disconnect`, `ClearLocalData`, `Visit`, `Reload` | the handlers of provider and Settings, a link, the browser's reload |
| `ReadVault`, `WriteVault` | the `getItem` and the `setItem` of `addNote` and `markSpent` |
| `Pages`: `reads`, `Answered`, `Fails` | `fetchPoolState` under way; its `then`, `catch` and `finally` |
| `screen`, `TerminalView` and the other views | the pages' `useState`, and what they render of it |
| `Done`, `NotDone` | a handler of a dialog returns or throws; `onDone` |
| `Disclosure`: `view`, `call` | the page's `useState`; `disclose()` at its awaits |
| `CheckOnChain`, `CheckLocally`, `Finish`, `Throws` | the branches of `Promise.all`, and `catch` |

Two tabs are two processes: the `getItem` and the `setItem` of one handler are
two steps, between which another tab may write. Within a tab a handler runs to
its next await (`Free`). `raced`, `overtaken` and `behind` are history
variables: another tab wrote between a handler's read and write; another tab
wrote the key since this one last did; the notes were written since the list
of this tab was made. They state exactly when a property has its exception. A
transaction is left out of `Session` and `Pages`, where a call succeeds or fails
at some moment; it is in `Terminal`.

A read of the pool is four simulations while the pool goes on, so its answer is
taken from any version since it was issued. `floor` is a history variable, the
version when the last read was issued. The error or dash of a failed read is
modelled as each page has it: the terminal keeps its value and says so, the
others show a dash.

`Disclosure` takes every step of the pool that can meet a disclosure: deposits,
withdrawals, re-pinning. Its proof is over the commitments as read and passes
the same `MembershipChecks` as in `ShieldedPool`.

### The association file, the trees and the conversions

| TLA+ | code |
|---|---|
| `Start`, `AlreadyThere`, `Refuse`, `Create`, `WriteAll` | `update_association`: load, the two early returns and the error, `File::create`, `write_all` |
| `Kill` | the process ends (external) |
| `LeanImt`: `subtrees`, `sparse` | `subtree_cache`, `sparse_cache` |
| `ComputeNode`, `Path`, `GenerateProof`, `Reload` | the methods of those names, `from_storage` of `to_storage` |
| `Encodings`: `ToBytes`, `g2`, `vkToHex`, `poseidon`, ... | the functions of `field.ts`, `groth16.ts`, `poseidon.ts`, `note.ts`, `config.ts` |
| `VkFromBytes`, `ProofFromBytes`, `SignalsFromBytes`, `AddressToFr` | the contract's side of them |

The text of an association file is either a set or broken. Two runs with the
file open write from its start: if the second text is shorter, what is left of
the first behind it makes it unreadable, which is the second disjunct of
`WriteAll`. `LeanImt` has terms for hashes, as `CommitmentTree` has, and its
whole tree as reference. `Encodings` keeps digits: what is said of a number's
bytes is a statement about padding, cutting and order, which a base of 4 shows
as well as one of 256, and which `LibraryProofs` proves for every base. The reference for Poseidon is the circuit's own count of
rounds, full, partial, full; for a conversion it is the parser on the other
side.

### The frame, the canvases, the widgets and the landing page

`AppShell` has the pathname as a sequence of segments, where `startsWith` on
text is a prefix. A frame of `Backdrops` is a handle the browser holds; a handle
may be cancelled after it has run, which does nothing, and a frame that was
pending when the page was hidden may still run. Handles do not run out
(`BackdropsAssumption`). A wave is the number of frames it has left to live, and
a canvas has the set of them. `Widgets` leaves the delays of
timers out: a timeout falls due at any moment after it is set. In `Landing` a
pointer and the focus come and go on their own.

| TLA+ (`Widgets`) | code of `MobileCarousel.tsx` |
|---|---|
| `carousel.paused`, `inView`, `resume` | the refs, and whether `resumeTimer` is waiting |
| `active`, `moving` | the card that is lit; the one that `scrollTo` is on its way to |
| `Pause`, `Release`, `Cancel` | `onPointerDown`; `onPointerUp`; `onPointerCancel` |
| `Advance`, `Resume` | the interval; the timeout set by `resume` |
| `Drag` | the browser scrolls the track (external): a pan, its momentum, a wheel, a key |
| `pointer`, `Lift`, `Slip` | the finger or mouse itself (external), and how it leaves unheard |

The component knows of a pointer what events tell it, and that is less than
there is. Its track is a native scroller without a `touch-action` rule: when a
finger starts to pan, the browser fires `pointercancel` and scrolls on by
itself, and the track hears no more of that finger. Hence `Cancel` leaves a
pointer that is `"panning"`, which only `Lift` ends, and `Drag` has no guard. A
mouse is not captured: when it is released beside the track, no event says so
(`Slip`). One pointer is followed at a time.

## Runs

| run | bounds | shows |
|---|---|---|
| `pool_settlement` | 3 nullifiers, 2 accounts with 2 tokens, 4 leaves, window of 2 roots, field of 6, range 3, i128 up to 2 | `TypeOK`, `Solvent`, `Redeemable`, `RootsFollowSettlements`, `GracePeriod` and the refinement `RefinesLedger` |
| `pool_disclosure` | 3 nullifiers, 1 account, approved sets of no or one note | `Disclosable`, `DisclosureIsAnchored` |
| `frontier_tree` | depth 3, every sequence of up to 8 insertions of 2 commitments | `TypeOK`, `RootOfTheWholeTree`, `PathsVerify`, `RootsNameTrees` |
| `disclosure_unspent` | as `pool_disclosure` | the claim of `membership.circom:5` that a disclosed note is unspent is violated |
| `terminal_vault` | 3 calls, 2 notes of the wallet and 1 of another, 1 repeated poll, window of 2 roots, 3 leaves | `TypeOK`, `VaultIsReal`, `VaultFollowsChain`, `PaidOnce` |
| `terminal_calls_end` | the same with 2 calls | `CallsEnd` under `FairSpec` |
| `terminal_deposits` | 2 calls | that notes are "stored on-device" (`10-terminal.md:37`) is violated |
| `terminal_recipient` | 2 calls | that the recipient bound into the proof is paid is violated |
| `web` | *pages*: 1 note, 2 settlements, 2 reads under way; *disclosure*: 3 notes, 2 of the wallet's, 4 leaves, window of 2 roots; *frame*: 3 chapters; *canvases*: 4 handles, 2 shapes, 2 palettes, waves of 2 frames; *widgets*: 3 cards, 3 rows, 8 events, 2 timeouts; *landing*: 2 sections, 2 questions, 3 steps | `TypeOK`, `QuietPageIsCurrent`, `NoFlicker`, `BadgeIsTheContracts`, `FrameIsCurrent`, `OneLoopEach`, `WidgetsLetGo`, and `WaitingEnds` under `FairSpec` |
| `disclosure_verified` | as `web` | that "the Soroban contract verified the proof" (`disclosure/page.tsx:167`) is violated |
| `amounts_sealed` | as `web` | that amounts are sealed by default (`app/page.tsx:40`) is violated |
| `library` | *store*: 2 tabs, 2 keys, 2 calls, 3 notes; *file*: 3 runs, 3 labels, sets of up to 2; *trees*: depth 1 and 3, 2 commitments; *conversions*: base 4, scalars of 3 bytes, field of 37, 2 decimals, about 1200 inputs | `TypeOK`, `VaultIsKept`, `TabsShowTheStore`, `FileIsASet`, `LabelsAreKept`, `TreeFollowsReloads`, `LanguagesAgree`, `WireIsParsed`, `AmountsRoundTrip`, `TransferIsProvable` |

Why the bounds are enough to be interesting: a window of two roots is full
after one settlement, so that roots do expire and proofs do become stale; four
leaves are filled by two transfers, or met by a transfer at three; the pairs of
outputs hold one whose sum wraps in the field to a valid value and one that is
too large; three nullifiers let two notes share one while others do not. A
field of 6 with a range of 3 is the smallest that keeps the real order
(`I128Max < RangeBound`, `2 * RangeBound <= FieldOrder`). A tree of depth 3
meets every path bit pattern of three levels. Three calls are a deposit and two
settlements of its note, the least that can pay it twice, or three deposits and
settlements that compete for sequence numbers. Two reads under way are
the least that can be answered out of order, two tabs and two calls the least
that can lose a note to each other, and three runs of `updateAssociation` are
two that overlap and one that finds what they left. Depth 1 is a case of its
own in `generate_proof`. The integers that are converted reach two field orders
on either side of zero; digests, keys, proofs and signals hold every byte at
the end where it is cut. `CHECK_DEADLOCK FALSE` is set
for `frontier_tree`, where a full tree takes no more leaves, for the
terminal, where the bounded calls are used up and the user is done, and for
`library`, where a conversion or the last run of `updateAssociation` is over.

Fairness: `FairSpec` asks that a call at an await goes on sooner or later
(`Progress`): the event loop runs a handler whose promise has settled, and a
promise of a request settles, by an answer or by rejection. Nothing is asked of
the network beyond that; no transaction need ever be executed, no page be left
alone, and no user act. A request that is neither answered nor cut off would
hold its dialog up, since the code sets no timeout of its own.

In `Web`, `FairSpec` asks that a read of the pool is answered or fails
(`ReadEnds`, `Answer`) and that a disclosure goes on (`Progress`), for the same
reason. Nobody is made to click, and no page to be left.

The sets of calls are named bounds of the models (`Amounts`, `OutputPairs`,
`ApprovalRoots`); nullifiers are symmetric,
and so are the calls of `terminal_vault` and the tabs, keys and calls of
`library`; the liveness runs use no symmetry.

Every property has a mutant in `PROJECT.json`: a definition with a plausible
fault (marked `Fault:` in the modules) under which TLC finds it violated.

### Findings

`membership.circom:5` states that the proof shows an *unspent* note. Neither the
circuit nor `verify_membership` involves the nullifier, so a withdrawn note can
still be disclosed: deposit, withdraw, disclose. The other parts of the
sentence, a note of the pool that is in the named set, hold
(`DisclosureIsAnchored`).

`shield()` stores a note only after its deposit was seen to succeed. When the
answer of `sendTransaction` is lost, polling ends first, or the page is left,
the deposit may still be executed, and the note with its secrets is nowhere:
the tokens cannot be withdrawn by anyone. A note that was stored may be lost
too, when another tab had read the list before and writes it after: `addNote`
and `markSpent` take no lock. `VaultFollowsChain` says that these are the only
ways, as long as local data is not cleared.

`submitWithdraw` pays out to the wallet whatever recipient the settle dialog
proved. For any other recipient the contract answers `RecipientMismatch`; the
dialog's field has one value that works.

The disclosure page says "The Soroban contract verified the proof" below every
result that is no error, the ones the contract refused included, whose badge
reads "chain rejected". A refusal happens when the pool settles its window of
roots full after the page was opened: the page reads the pool once.
`BadgeIsTheContracts` says that nothing else makes the chain refuse.

Overview and Terminal say that amounts are sealed by default and the total is
visible only with one's key; the tile beside it prints the same total as soon as
there is a position, revealed or not, and without a key.

What was noticed beside these and is in the models without a property against
it: the carousel of the landing page starts to count its pause down when
`pointercancel` comes, so that 2600 ms into a swipe it may advance under the
finger; and a mouse pressed on it and released beside it leaves it paused until
it is touched again. With reduced motion `LivingBackground` draws one frame, and a resize clears
it for good. The shield dialog closes on a click beside it while its call
works, and when that call is done it closes whatever shield dialog is open
then. `TerminalMock` sets one timeout at every tick at 100, and each of them
starts the bar again. A failed pool read on the disclosure page is shown as "No
settled positions to disclose". A key without an account makes every read of
the terminal fail. The comment at `groth16.ts:6` gives the coefficients of G2 in
the other order than the code, which is the one the contract reads.

## Proofs

All theorems hold for every value of the constants under assumptions that the
modules name and TLC evaluates:

| assumption | of | says |
|---|---|---|
| `SizesAssumption`, `Sizes` | `Circuits` | field, range check and i128 have the order of the real ones |
| `PoolAssumption`, `PoolParameters` | `ShieldedPool` | a window of at least one root, amounts that i128 holds, outputs and approved sets made of notes |
| `TreeAssumption`, `TreeParameters` | `CommitmentTree` | some depth, and an empty leaf that is no commitment |
| `TerminalAssumption` | `Terminal` | those of the pool; the wallet is an account, its nullifiers are some, and finitely many calls are made |
| `WebAssumption` | `Web` | those of its six parts |
| `EncodingsAssumption` | `Encodings` | bases of at least 2; the field's order has as many bytes as a scalar, no fewer and no more; an even number of full rounds; inputs of their types (`InputTypes`: a digest is bytes, points and signals are what snarkjs prints, a note is worth what i128 holds, a payment is no less than its least number); as many points and signals as the length prefix can say |
| `LibraryAssumption` | `Library` | those of `Session`, `AssociationFile`, `LeanImt` at both depths, and `Encodings` |

What a module assumes is not inherited by its instances: `Terminal`,
`Disclosure`, `LeanImt` and `Library` assume `Sizes`, `PoolParameters` or
`TreeParameters` of theirs. `AssociationFileProofs` and `LeanImtProofs` have
`AssociationAssumption` and `LeanImtAssumption` as hypotheses, which
`LibraryAssumption` discharges.

`NoteLedgerProofs`: solvency of the abstract ledger. A sum over live notes would
need induction over data; instead a note of value v is a set of v *units* that
carry its nullifier, and what is owed is the union of the units of the live
notes. The invariant `OwedCounted` says the set is finite and no larger than
the escrow; issuing a note adds at most its units, settling one takes its units
away and adds at most as many, withdrawing takes them away.

`ShieldedPoolProofs`, for the contract:

1. `Outcome` is a CHOOSE over a sequence of checks; `SucceedsIfAllHold` and one
   `...Conditions` lemma per entry point turn it into a conjunction.
2. `RecordRootWindow` and `RecordRootOrder` describe `record_root` once.
3. `PoolInv` is the inductive invariant: `TypeOK`, `KnownRoots` (the tree grew
   out of every recent root, and the last one is the tree) and `ValuesFit` (no
   note is worth more than i128 holds). None of the three alone is inductive
   enough: a transfer's outputs fit because its input does, its input is a leaf
   because its root is recent, and the outputs' sum does not wrap because both
   are range-checked.
4. `PoolRefinesLedger`: every step of the contract is a step of the ledger or a
   stutter. `PoolSolvent` and `PoolRedeemable` follow from the ledger's
   theorems through the refinement.
5. `PoolGracePeriod`, `PoolRootsFollowSettlements`, `PoolDisclosable` and
   `PoolDisclosureIsAnchored` follow from the same invariant.

`CommitmentTreeProofs`, for every depth. The trees are recursive functions of
the level, and statements about them inductions over levels: `LevelInduction`
has a set of levels in place of a predicate, and `NodesAre`, `NodesHash` and
`FullTreeIsNodes` say once what the recursive functions are. The inductive
invariant `TreeInv` says what the frontier holds: wherever the path of the next
leaf goes to the right, `filled` is the node to its left. An insertion changes
only the nodes on its path (`AppendChangesItsPath`), the climb computes just
these (`ClimbIsThePath`), so the frontier's root is the root of the whole tree
and the frontier of the longer tree is right again (`FrontierStep`, where the
carry of the index into its next bit is the point). That paths fold to the root
(`TreePathsVerify`) is an induction up the path. `TreeRootsName` follows from
`RootsDiffer`: if two trees differ in a leaf, all nodes above it differ.

`LeanImtProofs`, for every depth, on top of the lemmas on the plain tree:
`LeanInv` says that every node in `sparse` is one of the tree as it is now, and
that as long as `subtrees` is there, what is *not* in `sparse` has no leaf below
it. The second half is why a cached empty subtree is right, and why a reload has
to clear both caches or none. `ComputeIsRight`, `InsertSiblings` and
`ProofSiblings` say that with these two the library computes the plain nodes.

`TerminalProofs`, for any number of calls, polls and accounts:

1. `TerminalRunsPool`: every step is one of `ShieldedPool`, or leaves it as it
   is, since the network executes nothing else. So `PoolInv`, and with the
   refinement `Solvent` and `Redeemable`, hold below the terminal
   (`TerminalKeepsPromises`).
2. The inductive invariant `TerminalInv` relates the page to the chain:
   `CallInv` (what a call holds is an earlier tree; no transaction before it is
   sent), `NoteInv` (a note is drawn once, and a note that is settled was stored
   once), `EffectInv` (a transaction that succeeded is on the chain: its note is
   a leaf, or its nullifier is spent), `ReadInv` (a list that was read lists what
   is real) and `SequenceInv` (the sequence number counts what was executed).
   `VaultIsReal` rests on `EffectInv` and `ReadInv`, since a note is stored after
   the answer *success*, into a list that may be old; `PaidOnce` on a settlement
   succeeding only while its nullifier is not spent, and nullifiers staying so.
   `VaultFollowsChain` is not inductive by itself: `VaultInv` adds that every
   list that was read and is not yet written has the effect of each call that is
   done, unless the call is among those it missed, so that a write can take away
   only what it missed.
3. A step is described once by what it does to calls and vault (`AppStep`) or
   to the chain (`ChainStep`); the parts of the invariant are then kept by each
   of the two kinds rather than by each action.

`AssociationFileProofs`, for any number of runs: `FileInv` says what a run may
have in memory and write, whatever overlaps; that a label is appended only when
it is not there keeps a set injective (`DistinctAppended`). `KeptInv` holds as
long as no harm was done: one run at most is midway, it has the file as it is
in memory, and the labels of the runs that are done are in the file or, while it
is truncated, in what is being written. `LabelsAreKept` alone is not inductive,
since it says nothing of the moment between `File::create` and `write_all`.

`WebProofs`, one invariant for each part:

- *pages*, `PagesInv`: either the last read is still under way and will be no
  older than the floor (`LastIsAwaited`), or it was answered, and the page is as
  new, says it could not read, or an older answer came behind
  (`LastIsAnswered`). Reads are answered in any order, so the lemma
  `WithoutRead` says which reads are left in the sequence and where.
- *disclosure*: the pool below the page is that of `ShieldedPool`, step by step
  (`DisclosureRunsPool`), so that its theorems hold there
  (`DisclosureKeepsPromises`). `DisclosureInv` rests on its `PoolInv`: what
  the page has read is an earlier tree of the pool, and a verdict, pending or on
  the screen, stays true, because a root that has left the window never comes
  back (the tree only grows, and a settlement records a longer one).
- *frame*, `ShellInv`: the path is one of the routes, so that a prefix of it is
  one of seven items, all different; the sidebar is what was stored.
- *widgets and landing page*, `WidgetsInv`, `LandingInv`: a press the track
  knows of is paused with no timeout beside it, and the track goes nowhere but
  where it was going; a pause without a press has a timeout, unless the press
  slipped off (`CarouselSound`). That a press has no timeout beside it is needed
  for the invariant to be inductive. The rows are the last events in order.
- *backdrops*, `BackdropsInv`: the frames pending of a canvas are at most the
  one it holds the handle of, and there is one while it is seen. It rests on a
  request giving a handle that is not pending.

`LibraryProofs`: for the store, for any number of tabs and calls, `StoreInv` has
the types and that a mark is one of a stored note, also in what a handler read.
`ReadIsStored` says that what a handler holds is what is stored unless it was
overtaken; from it every step keeps the vault, which is `VaultIsKept`.
`TabsShowTheStore` is inductive over `StoreInv`. For the other parts, a
behaviour of `Library` about a part is a behaviour of the part
(`LibraryRunsFile`, `LibraryRunsTree`, ...), and the theorems of
`AssociationFileProofs` and `LeanImtProofs` hold in it.
`LibraryTransferIsProvable` is arithmetic: a value that i128 holds is itself
in the field, and a negative one is more than the range check lets through
(`AmountsInTheField`); this is where the payments' bound is used, since a
payment below minus the field's order would come back as a small positive one.

The conversions take most of `LibraryProofs`. `ConversionInv` says that what
there is of an output is what its input converts to (`LibraryConverts`), so
`LibraryLanguagesAgree`, `LibraryWireIsParsed` and `LibraryAmountsRoundTrip` are
facts about the converting functions, for every input. Powers, the value of a
row of digits and the rounds of Poseidon are recursive functions; what is said
of them is an induction over a *set* of numbers (`Counting`, from < being
well-founded), which needs no operator as a parameter, and `NatRecursion` says
once that such functions exist.

1. *Digits.* `Divided`, `DividedUniquely` and `DividedTwice` are the division
   the rest needs. `Reads(v, ...)` says of a row of values that it reads digits
   one by one; by `ReadBounds` it stays below the power of the base, by
   `DigitsReadBack` the digits of a number read as the number modulo that power,
   by `ZerosBehind` zeros at the end multiply it, by `ReadFromTheLeft` the first
   digits alone read as what was read up to them.
2. *Scalars.* Two hex digits to a byte and back give the bytes (`HexReadBack`),
   those of a scalar its residue (`ScalarsAgree`). A digest whose first byte is
   zero is below the field (`BytesBelow`), because the field's order has as
   many bytes as a digest: that is why `addressToField` needs no reduction and
   agrees with `address_to_fr`, which has one.
3. *Rounds.* A run of rounds taken up where another ended is the longer run
   (`RoundsTakenUp`), so that the one loop of `poseidon.ts` is the circuit's three
   phases (`HashesAgree`); that `isFull` divides them at the right rounds is where
   N_F is even.
4. *Bytes by position.* `HoldsAt(b, pos, s)` says that `b` has `s` from `pos` on.
   What is put in a row is held at the sum of what is before it (`HeldInARow`),
   a row of equal parts at multiples of their length (`Flattened`), and `take`
   finds what is held (`HeldTaken`). `CountedReadBack` is the prefix with what
   it counts, for points and signals alike; `KeyReadBack`, `ProofReadBack` and
   `SignalsReadBack` put the places together.
5. *Amounts.* Zeros that were stripped are those that are padded
   (`StrippedBack`, `AmountShown`); of a typed text, the digits that are kept
   and all of them are one reading cut at two places (`AmountTyped`).

Only model-checked: `CallsEnd` and `WaitingEnds`, which are liveness under
fairness, out of the provers' reach. The contract takes no step of its own and
has no liveness property. Every other property of a run is a theorem.

## Not modelled

- In the terminal: notes of other pools and the clearing of local data (they are
  in `Session`), the toast, the texts in the fields of the dialogs.
- The pairing of the Groth16 verifier and the strength of Poseidon: taken as
  ideal. The rounds of Poseidon are in `Encodings`.
- `circom2soroban` and the conversions of noterail, the Rust twins of the SDK's;
  noterail's `generate` and `withdraw`, which write one new file each.
- Rent, archival and budget limits of the host; a full localStorage
  outside the dialogs, whose `setItem` may fail.
- What the canvases paint, styling, text, effects that follow the pointer.
- Scripts and documentation.
- See `components` in `PROJECT.json` for each part and its reason.

## What could come next

- noterail's `generate` and `withdraw`, and the Rust twins of the conversions,
  against those of the SDK.
- The toast and the text fields of the dialogs.
