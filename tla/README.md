# Formal model of the SalemCash UTXO cache and send dialog

This directory holds TLA+ modules of the layered UTXO cache in `src/cash.cpp` and
`src/cash.h`, and of the wallet's send dialog in `src/sendcashdialog.cpp`. It also
holds the TLC configurations that model-check them and the TLAPS proofs about them.

## 1. The system and its parts

A UTXO *view* (`CCashView`) maps outpoints to `Cash` records. Here is how the parts fit together:

* **`CCashViewCache`** (`cash.cpp:34-217`) is a view that keeps a hash map
  `cacheCash` of `CCashCacheEntry` over a *base* view. The base may be another cache.
  * Each entry has two flag bits:
    * DIRTY: the entry may differ from the parent.
    * FRESH: the parent holds no unspent version.
  * A counter `cachedCashUsage` keeps the memory of the records.
  * `hashBlock` caches the best block.
  * The operations are these:
    * `FetchCash` is the read-through used by `GetCash`, `HaveCash` and `AccessCash`. It inserts a clean copy on a hit below, and FRESH when the base returns a spent record.
    * `AddCash` can return early for an unspendable script. It can throw "Adding new cash that replaces non-pruned entry". It sets FRESH only if `possible_overwrite` is false.
    * `SpendCash` erases a FRESH entry and leaves a DIRTY tombstone otherwise.
    * `Uncache` drops an entry that has no flags.
    * `GetBestBlock` pulls lazily. `SetBestBlock` sets the hash.
    * `BatchWrite` merges a child map into this cache. It throws "FRESH flag misapplied".
    * `Flush` calls `base->BatchWrite`, then `clear()`.
* **`CCashViewBacked`** (`cash.cpp:22-30`) forwards reads to the base. That forwarding
  makes a miss travel down the stack.
* **`CCashViewTest`** (`cash_tests.cpp:33-72`) is the base view under the stack in the
  simulation test. It has a `std::map` and a best block. It makes random choices:
  * `GetCash` of a spent record may report a miss;
  * `BatchWrite` may erase a spent record it wrote;
  * a null hash is ignored.
* **The cache stack of the simulation test** (`cash_tests.cpp:111-256`). The test uses
  up to four caches, one on top of another. Calls go to the top layer. `Uncache` may go to any layer, and so may a flush of an
  intermediate layer. The top layer is flushed and deleted, or a new one is pushed.
* **The map's iteration order** is the salted `SaltedOutpointHasher` (`cash.h:83-100`).
  `BatchWrite` walks the child map in that order. When it throws, it has already merged
  and erased an arbitrary subset of the other entries.

* **`SendCashDialog`** (`sendcashdialog.cpp`) is the wallet's Qt send page. It holds a
  list of `SendCashEntry` widgets, the fee section, and the flag `fNewRecipientAllowed`.
  * `on_sendButton_clicked` validates the entries, then runs up to three nested event
    loops: the passphrase dialog of `requestUnlock()` (locked wallet), the
    `SendConfirmationDialog`, whose Yes button a 1 s timer enables after
    `SEND_CONFIRM_DELAY` ticks, and the `processEvents()` inside `addEntry()` when
    `accept()` clears the form after a send.
  * Payment requests from the payment server arrive through `handlePaymentRequest` ->
    `pasteEntry` in any of those loops. `pasteEntry` drops them while
    `fNewRecipientAllowed` is false.
  * The fee choices are read from `QSettings` in the constructor and `setModel` and
    written back in the destructor. The confirmation target is stored as blocks and
    shown as an index into `confTargets`.

The cache is single-threaded: each call runs to completion. The hard behaviours are
long sequences of calls across layers. In those sequences, a FRESH or clean entry must stay
right against layers that later flushes and uncaches change under it. Other hard behaviours are the
counter updates spread over six functions and the two throws in the middle of a
mutation.

## 2. Modules

| Module | Models |
|---|---|
| `UtxoStack` | What the stack promises: a sequence of UTXO sets, base first. Callers add or spend at the top. A flush of layer i makes its parent equal to it. A push copies the top. A drop discards the top. |
| `CashCache` | The cache layers 1..`depth` over the `CCashViewTest` base: one action per operation, the properties, and the refinement mapping to `UtxoStack`. |
| `MCCashCache` | The TLC instance: outpoints, values, script sizes and a block as model values. |
| `CashCacheProofs` | TLAPS proofs of `TypeOK` and of the counter invariant. |
| `CashCacheFresh` | TLAPS proofs of the flag invariants, of `NoLogicError` and of the two action properties, under the `AddCash` contract. |
| `CashCacheRefinement` | TLAPS proof that the cache stack implements `UtxoStack` under the contract. |
| `SendCashFlow` | The send flow of `SendCashDialog`: the phase of `on_sendButton_clicked`, `fNewRecipientAllowed`, the entries, the countdown, and payment requests. |
| `MCSendCashFlow` | The TLC instance: two payment requests as model values. |
| `SendCashFlowProofs` | TLAPS proofs of `TypeOK`, `RecipientGate` and `ShownIsSent`, and lemmas about the recipients loop. |
| `SendCashSettings` | The fee section across restarts: the settings, the fee widgets, and the target conversions. |
| `MCSendCashSettings` | The TLC instance: fees, legacy slider positions and stored targets. |
| `SendCashSettingsProofs` | TLAPS proofs of the settings properties. |

The state of `CashCache` maps to the code like this:

* `cacheCash[i][o]` is the entry of layer i for o, or `ABSENT`. An entry is
  `[coin, dirty, fresh]`, and a record is reduced to its output (a member of `Values`, or `SPENT`
  for a null output).
* `cachedCashUsage[i][o]` is what layer i's counter holds for o. The code's single
  `size_t` is the sum `CounterValue(i)`. Every `+=` and `-=` in the code adds or removes the
  size of one outpoint's record, and `Flush` resets the counter to 0. So the per-outpoint
  form is an exact data refinement, not an abstraction.
* `hashBlock[i]`, `depth`, `baseMap` (`map_`), `hashBestBlock` (`hashBestBlock_`).
* `logicError` records that a `std::logic_error` was thrown. Nothing runs after it.

Each operation is one action, and it models the whole handler:

* `SpendCash` includes its `FetchCash`.
* `AddCash` has its early return, its throw with the counter already
  decremented, and its success path. Its map update is `AddCashTo`, taken over the maps
  it starts from.
* `AddCashTx` is the `AddCash(tx)` utility for one output. With `check` it runs
  `HaveCash`, whose `FetchCash` stays in the cache, and passes its answer as
  `possible_overwrite`; otherwise it passes `fCashBase`. One outpoint stands for the
  loop over `vout`, whose outputs have distinct outpoints and are added independently.
* `Flush(i)` includes the whole `BatchWrite` and the `clear()`. It is `FlushToBase`
  for layer 1, `FlushToCache` for a successful merge, and `FlushThrows` for a throw after
  a partial merge over any subset `P` of the other outpoints.

A miss in `FetchCash` travels down to the highest layer holding an entry (`Holder`). Every
layer above it inserts a copy, and that happens only when the record found is unspent, because
`CCashViewCache::GetCash` reports only unspent records.

The caller side of the `AddCash` contract (`cash.h:248-252`) is the constant
`CallerChecksOverwrite`. When it is TRUE, callers pass `possible_overwrite = false` only for an
outpoint whose view holds no unspent output. That is what the simulation test does at
`cash_tests.cpp:174`. When it is FALSE, callers are free.

**`SendCashFlow`.** Its state maps to the code like this:

* `phase` is where `on_sendButton_clicked` is: `"idle"` when it is not running,
  `"unlocking"` in the passphrase dialog, `"confirming"` in the confirmation dialog's
  `exec()`, and `"accepting"` in the `processEvents()` of `accept()`.
* `allowed` is `fNewRecipientAllowed`. `snapshot` is the `recipients` list.
  `secDelay` is the dialog's counter.
* `entries` is the sequence of entries. An entry is reduced to what the dialog tells
  apart: `"clear"` (`isClear()`, which does not validate), `"valid"`, `"invalid"`, or
  the payment request pasted into it.
* `message` is the status of the last message that `processSendCashReturn` emitted.
  `pending` holds the requests not yet delivered, and `dropped` the ones `pasteEntry`
  returned early on.

The wallet's answers are nondeterministic choices:

* the passphrase dialog is accepted or cancelled;
* `prepareTransaction` returns any status but `TransactionCommitFailed`;
* `sendCash` returns `OK` or `TransactionCommitFailed`.

This split is the one stated in the comment at `sendcashdialog.cpp:544-546`.
`walletLocked` is chosen in `Init` and does not change: `UnlockContext` relocks the
wallet at the end of the flow. An unlocked wallet goes straight on to
`prepareTransaction` inside `SendClicked`. Only that wallet opens no nested loop before
the confirmation dialog.

User actions (`SetAddress`, `EditEntry`, `AddEntry`, `RemoveEntry`, `Clear`) need
`phase = "idle"`, because the modal dialogs block the page's widgets. Payment requests
and the timer come from outside the page, so they are not blocked. `removeEntry`'s
`deleteLater` is taken as done when the handler returns. The `processEvents()` inside
`addEntry` is modelled only on the path after a send, where `fNewRecipientAllowed` is
false. On the other paths, a nested paste gives the same entries as a paste afterwards,
except for a leftover empty entry.

**`SendCashSettings`.**

* `settings` holds the six `QSettings` keys, where `NONE` marks a missing key. It starts
  in any state an older version may have left: a legacy slider position, a custom fee
  without a radio choice, or nothing at all.
* `Start` is the constructor followed by `setModel`. `Destroy` is the destructor.
* `ui` is the fee widgets. The user actions are guarded by the enabled states that
  `updateFeeSectionControls` sets.
* Ticking the minimum-fee box, or unticking it, calls `setMinimumFee`.

## 3. Properties and runs

* `TypeOK`: the types hold, and the layers above the top are empty.
* `FreshInvariant`: a FRESH entry of layer i is for an outpoint that the view below i holds
  no unspent output for (spec invariant 2).
* `CleanMatchesParent`: an entry with no flags holds what the view below it holds
  (spec invariant 1, the ground for `Uncache`).
* `UsageFaithful`: until a logic error, each layer's counter equals the sum of its entries'
  sizes (spec invariant 5, what `SelfTest` checks).
* `NoLogicError`: when callers keep the contract, neither throw happens.
* `LogicErrorAtomic` (action property): a throwing step changes no entry and no counter
  (spec section 7).
* `FlushAtomic` (action property): a `Flush` whose `BatchWrite` throws has merged no child
  entry into the parent and erased none from the child (spec section 7 applied to flush).
* `CallsTakeEffect` (action property): after `SpendCash` the top view holds SPENT for the
  outpoint, and after a successful `AddCash` it holds the added output. A lost call is a
  stutter of `UtxoStack`, so refinement alone would not see it.
* `TxAddNeverThrows` (action property): `AddCash(tx)` with `check`, or of a cashbase,
  never throws, whatever the caller does otherwise. This is what lets a pre-BIP30
  duplicate cashbase overwrite. It is checked with free callers, where nothing else
  stops the throw.
* `ImplementsUtxoStack`: layer k of the abstract stack is what a read through cache
  layer k-1 finds (the base view for k = 1). Every step of the cache is a step of
  `UtxoStack` or a stutter (spec section 8, read consistency and flush transparency).

Send dialog:

* `RecipientGate`: `fNewRecipientAllowed` is false exactly while `on_sendButton_clicked`
  runs. Every early return resets it.
* `ShownIsSent`: while the passphrase or confirmation dialog is open, the recipients in
  the form are exactly the ones validated when send was clicked. This is why the flag
  exists: a request pasted from a nested event loop would otherwise be shown but not sent.
* `YesEventuallyEnabled` (liveness): once the confirmation dialog is open, it is
  eventually closed or its Yes button is enabled.
* `NoRequestDropped`: no payment request is discarded. `handlePaymentRequest` reports
  every request as handled.
* `TypeOK` includes that the form always has at least one entry (`removeEntry` of the last one).
* `ChoiceSurvivesRestart` (action property): a restart shows the fee widgets as the user
  left them, including the index -> blocks -> index round trip of the target.
* `StartRoundsTargetUp` (action property): on every start, the first one from legacy
  settings included, the selector shows the least offered target at least the requested
  one. The requested target is the migrated slider position (`25 - p`), the stored target,
  or the wallet default for 0. The reference `LeastTargetAtLeast` reads the set of
  targets, not the index loop.

The runs:

| Run | cfg | Result | Shows |
|---|---|---|---|
| `cache_stack` | `MCCashCacheStack.cfg` | pass (11,316 states) | With the contract kept, `TypeOK`, `FreshInvariant`, `CleanMatchesParent`, `NoLogicError`, `ImplementsUtxoStack` and `CallsTakeEffect` hold over every sequence of calls on a stack of up to 3 caches. `UsageFaithful` is checked only by `cache_unchecked`, whose behaviours include these. |
| `cache_unchecked` | `MCCashCacheUnchecked.cfg` | pass (43,788 states) | With free callers, both throws occur, and the counters stay exact up to the throw. |
| `cache_tx_add` | `MCCashCacheTx.cfg` | pass (2,956 states) | With free callers and up to 2 caches, `AddCash(tx)` never throws when it checks or adds a cashbase. |
| `cache_atomic` | `MCCashCacheAtomic.cfg` | violation of `LogicErrorAtomic` | `AddCash` decrements the counter (`cash.cpp:74`) before throwing (`cash.cpp:78`). |
| `cache_flush_partial` | `MCCashCacheFlushPartial.cfg` | violation of `FlushAtomic` | Two outpoints, two caches, free callers. The trace: add o1 in layer 1; push; add o1 again in layer 2, marked FRESH over the unspent o1 below; add o2 there; the flush merges o2 into layer 1 and erases it from layer 2, then throws at `cash.cpp:175` on o1. |
| `send_flow` | `MCSendCashFlow.cfg` | pass (400,724 states) | `TypeOK`, `RecipientGate`, `ShownIsSent` and `YesEventuallyEnabled`, over every interleaving of the flow with two payment requests, user edits and the timer. |
| `send_request_dropped` | `MCSendCashFlowDropped.cfg` | violation of `NoRequestDropped` | The trace has four states. A first request is pasted, and send is clicked. The second request then arrives while a nested dialog is open, `pasteEntry` returns on `!fNewRecipientAllowed`, and the request is lost. Which dialog the printed trace shows depends on TLC's search order. It is either the passphrase dialog (a locked wallet, phase `unlocking`) or the confirmation dialog (an unlocked wallet, phase `confirming`). Both traces have the same length. |
| `fee_settings` | `MCSendCashSettings.cfg` | pass (48,546 states) | Both settings properties, from every legacy settings state. |
| `cache_resurrect` | `MCCashCacheResurrect.cfg` | violation of `ImplementsUtxoStack` | The trace: add v1 and flush it to the base; `AddCash(v2, false)` marks the entry FRESH although the base holds v1, and nothing aborts; push a layer and spend; the flush erases the FRESH entry, and v1 is unspent again. |

**Bounds.**
* One outpoint is enough for every property except a partial `BatchWrite`: the model treats outpoints independently, apart from flush and drop, which act on all of them alike. The `cache_flush_partial` run uses two, so that a throw can come after another entry was merged.
* Three values: two spendable values with different script sizes, so a counter that is off shows, and one unspendable value.
* One block hash besides the null one.
* `MaxDepth = 3` gives a base plus three caches, so there is an intermediate layer with a child on it and a grandparent under it. That is the smallest stack where a flush of a middle layer, with FRESH entries two layers apart, can happen.

Each passing property has a mutant in `PROJECT.json`: a plausible bug in the mapped code that TLC catches.

Send dialog bounds:

* Two payment requests, so one can be pasted and another dropped in the same behaviour.
* At most 3 entries. This allows a filled entry next to a clear one and a pasted request.
* `SEND_CONFIRM_DELAY = 3`, its value in `sendcashdialog.h:107`.

Settings bounds:

* Fees 0 and 2000, so a legacy custom fee selects the custom radio and a zero fee does not.
* Legacy slider positions that migrate to 7 and 5 (no selector entry), to 0 (the default
  is used), and to -5.
* Stored targets 6 and 1008.

**Fairness.**

* The cache assumes none. It is a synchronous data structure: each call returns before
  the next starts, and nothing in it must happen on its own.
* `SendCashFlow` assumes weak fairness of `CountDown` and of `SendFinished`, and of
  nothing else. The `QTimer` started in `SendConfirmationDialog::exec()` fires every
  second while the dialog's event loop runs. The code after `processEvents()` runs once it
  returns. The user and the payment server owe nothing: they may never answer a dialog
  or send a request.

## 4. What is proved

`CashCacheProofs` proves, for every value of the constants allowed by `ConstantsAssumption`:

* `TypeCorrect == Spec => []TypeOK`. The supporting lemmas are these:
  * a non-empty bounded set of naturals has a maximum (`MaxExists`, from `WFMin` and the well-foundedness of `<` on `Nat`), so the CHOOSE in `Highest` finds the highest layer;
  * `Holder` returns 0 or a layer that holds an entry, with none above it;
  * a read through the stack returns a coin;
  * `FetchCash` inserts only into layers of the stack;
  * one lemma per operation.
* `UsageCorrect == Spec => []UsageFaithful`. The sum form is not inductive. The
  inductive invariant is `TypeOK /\ UsageExact`, where `UsageExact` says that each counter
  contribution is exactly the size of its entry. TLC checked it on both passing instances
  before it was proved.
  * Each code path keeps `UsageExact`. `FetchCash` adds the size of a copy to a layer that had no entry, which needs the `Holder` lemma. `SpendCash`, `AddCash`, `AddCash(tx)` and `Uncache` subtract exactly the old size. The lemmas `AddToType` and `AddToUsage` state this once for `AddCashTo` over any well-typed, exactly-counted maps. They are cited for `AddCash` over the stack's own maps, and for `AddCash(tx)` over the maps its `HaveCash` fetched. The merge of `BatchWrite` subtracts the parent's old size and adds the merged size.
  * `UsageFaithful` then follows because the two functions summed are equal.

The assumption `ABSENT \notin [coin : ..., dirty : ..., fresh : ...]` is needed: no entry
record is the "no entry" marker.

`SendCashFlowProofs` proves, for every delay, bound and set of requests allowed by
`ConstantsAssumption`:

* `TypeCorrect == Spec => []TypeOK`;
* `GateCorrect == Spec => []RecipientGate`;
* `ShownIsSentCorrect == Spec => []ShownIsSent`.

`Recipients` is the loop of `on_sendButton_clicked` written as a function over the loop
index: `collected[i]` is the list after entry i. The provers can expand this form.
`SelectSeq` computes the same list, but the provers cannot expand it. The loop lemmas
are these:

* `RecipientsIsCollected`: `Recipients` is the last value of the function the `LET`
  defines.
* `PrefixesCollect`: when every entry validates, the prefixes `SubSeq(es, 1, i)` satisfy
  the loop's equation.
* `CollectUnique`: the equation has one solution. This is shown at the least index where
  two solutions would differ (`LeastNat`, from `WFMin`), not by an induction over data.
* `AllValidRecipients`: so when every entry validates, `Recipients(es) = es`.

`SendClicked` requires every entry to validate. `AllValidRecipients` then makes the
snapshot the entries themselves, which gives its type. `TypeOK` is inductive on its own.
The form's bounds come from `PasteType`, `RemoveAtType` and the library's sequence
theorems.

* `ShownIsSent` alone is not inductive: a pasted request changes the entries unless the
  flag is false.
* The inductive invariant is `IInv == phase \in Phases /\ RecipientGate /\ ShownIsSent`.
  It was checked with TLC before it was proved.
* A lemma shows that the shared `Prepare` part keeps the invariant. There is one step
  per action.
* `SendClicked` sets the snapshot to the entries it validates. Every later step of a send
  leaves the entries alone, or is a paste, which `RecipientGate` makes a drop.

`CashCacheFresh` proves, for every value of the constants, under the assumption
`CallerChecksOverwrite` (callers keep the `AddCash` contract, as the simulation test does):

* `InvariantHolds == Spec => []IInv`, the inductive invariant the others rest on;
* `FreshCorrect == Spec => []FreshInvariant`;
* `CleanCorrect == Spec => []CleanMatchesParent`;
* `NoLogicErrorCorrect == Spec => []NoLogicError`;
* `CallsTakeEffectCorrect == Spec => CallsTakeEffect`;
* `TxAddCorrect == Spec => TxAddNeverThrows`, which needs no assumption on callers.

The argument:

* The reads are restated over explicit maps: `ViewIn(cc, bm, d, o)` is what a read of o
  through layers d, ..., 1 of `cc` over the base `bm` finds. A single lemma about `ViewIn`
  then covers the state before a step, the state after it, and the maps an operation builds
  in between, such as the `FetchCash` inside `SpendCash` and `AddCash(tx)`.
* `IInv == TypeOK /\ ~logicError /\ GoodIn(...)`. `EntryGood` says that every entry of
  every layer is right about the view below it: FRESH only over a spent view, and a clean
  entry holds that view.
* `CleanMatchesParent` alone is not inductive. It speaks only of entries with neither flag.
  `Uncache` and the merge of `BatchWrite` rely on every clean entry, including the
  FRESH-and-clean copies that `FetchCash` makes of a spent base record. `IInv` was
  model-checked on the `cache_stack` instance before it was proved.
* The key lemmas:
  * `ViewSplit`, `ViewStep` and `ViewLocal`: a read finds the highest entry, or reads
    through the layer below, and depends only on the layers it passes.
  * `FetchViews`: `FetchCash` changes no read, because every copy it inserts holds what the
    read found.
  * `UncacheViews`: `Uncache` drops a clean entry, so no read changes.
  * `FlushToBaseViews` and `FlushToCacheViews`: after a flush the parent reads what the
    child read, and every other read is unchanged.
  * `MergeFacts`: under `IInv` no child entry is misapplied, and the merged entry is right
    about the parent's view.
  * `FlushThrowsGood`: under `IInv` a throwing flush cannot happen.
* One lemma per action shows that `IInv` is kept. `SpendEffect` and `AddEffect` give the
  top read after `SpendCash` and after an `AddCash` that does not throw.

`CashCacheRefinement` proves `RefinementCorrect`: under `CallerChecksOverwrite`,
`Spec => ImplementsUtxoStack` for every instance. It uses the refinement mapping
`AbsViews`, restated over explicit maps as `AbsIn`. The step lemma `StepRefines` shows
that every step from a state satisfying `IInv` that throws nothing maps as follows:

* the reads, `Uncache`, the best-block calls and an unspendable `AddCash` are stutters, by
  `FetchViews` and `UncacheViews`;
* `SpendCash` is `Spend(o)`, and `AddCash` and `AddCash(tx)` are `Add(o, v)`, by
  `TopWriteViews`, `AddToViews` and `AbsTopWrite`;
* `Flush` of layer i is `Flush(i)`, by `AbsFlush`;
* `PushCache` is `Push`, because the new layer is empty. `AbsPush` uses `AppendProperties`
  and `SeqEqual` of `SequenceTheorems`.
* `DropCache` is `Drop`, by `AbsDrop`;
* a throwing flush is excluded by `~logicError'`, which `IInv'` provides.

The initial states map to `<<all SPENT, all SPENT>>`.

`SendCashSettingsProofs` proves, for every default target, fee and set of legacy settings
allowed by `ConstantsAssumption` and `NoneAssumption` (`NONE` is not a widget state):

* `TypeCorrect == Spec => []TypeOK`;
* `RestartCorrect == Spec => ChoiceSurvivesRestart`;
* `TargetRoundsUp == Spec => StartRoundsTargetUp`.

They rest on these facts:

* `InvariantHolds == Spec => []IInv`. While the dialog runs, the slider key is gone or
  zeroed. Once it is destroyed, `QSettings` holds what the destructor wrote for the widgets.
* `confTargets` increases (`TargetsIncrease`).
* `getIndexForConfTarget` returns the least index whose target is at least the requested one,
  or the last (`IndexForTarget`). It is the inverse of `getConfTargetForIndex` (`RoundTrip`).

Only model-checked, and why:

* `YesEventuallyEnabled`, a liveness property under fairness, which TLAPS cannot prove here.
* What `Recipients` returns when some entry does not validate. Only the all-valid case,
  the one `SendClicked` reaches, is proved. The general case would need an induction over
  the entries with an operator parameter, which the provers cannot instantiate.
* The flag invariants and the refinement with free callers (`CallerChecksOverwrite = FALSE`).
  They do not hold there: the `cache_resurrect` run finds the refinement violated. Every
  cache theorem except `TypeCorrect`, `UsageCorrect` and `TxAddCorrect` assumes the
  contract.
* `LogicErrorAtomic` and `FlushAtomic` are violation runs, disagreements found between the
  code and spec section 7. They are not claims to prove.

## 5. Not modelled

* `AccessByTxid` (`cash.cpp:250-259`), `GetValueIn` and `HaveInputs`
  (`cash.cpp:223-245`). They only make pulls that the model already has as actions.
  `AccessByTxid` probes output indices below `MAX_OUTPUTS_PER_BLOCK`, which are the only
  ones a valid block can have.
* `CCashViewDB` (`txdb.h`). Only declarations are under `src/`. The head-blocks crash
  protocol is planned as a spec-modelled module.
* Properties of the best block. `hashBlock`, `GetBestBlock` and `SetBestBlock` are
  modelled, but no property is checked about them.
* References returned by `AccessCash` held across mutations. The model has values, not
  references.
* In the send dialog:
  * the coin-control selection copied into the transaction (`CashControlDialog` is not under `src/`);
  * the smart-fee and label updates, which are formatting;
  * the RBF checkbox, which is not persisted.
* The slot names in `sendcashdialog.cpp`, which do not all match their declarations in
  `sendcashdialog.h`. Examples: `CashControlButtonClicked` and `CashControlUpdateLabels`
  against `cashControlButtonClicked` and `cashControlUpdateLabels`, and the connection
  at line 413. The model follows the intended slots.
* Serialization of `Cash`, SipHash, the remaining wallet GUI, the benchmarks, RPC and init
  declarations: pure I/O or declarations.

## 6. Plan for the next sittings

1. Model `AccessByTxid`, `HaveInputs` and `GetValueIn` as actions on a two-outpoint
   instance of the same txid.
2. Add the spec-modelled `CCashViewDB` head-blocks protocol with
   crashes between the two writes of its batch.
3. Extend the proofs to the operations added by 1 and 2.
