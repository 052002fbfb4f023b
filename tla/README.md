# Formal model of solana-kit-plugins

The repository is a set of plugins for @solana/kit. Most of it is thin: build an
instruction, send a transaction, decode an account. What can go wrong is where
a plugin awaits in the middle of something: several transactions that belong
together, a value read before an await and used after it, a cache, a timer. This
directory holds TLA+ models of those parts, TLC runs that check them on small
instances, and TLAPS proofs.

Paths below leave out `src/kit-plugin-`.

## Inventory

| Component | State it keeps | Operations | What is hard | What makes it correct | Model |
|---|---|---|---|---|---|
| Arcium circuit upload (`arcium/src/lib/upload-circuit.ts`) | coroutines of one call; raw circuit accounts and computation definition on chain | `uploadCircuit`, `uploadToCircuitAcc` | parallel coroutines, chunks of parallel transactions, partial failure, retries against what a failed call left | a finalized definition is backed by the complete circuit of one call | `CircuitUpload` |
| Arcium events (`events.ts`) | poll counter; timer and subscription | `awaitComputationFinalization`, `…Subscription` | transactions that fail, signature window of ten, events before the subscription, timer against event | the finalization of a computation is reported once, and never another's | `ComputationWatch` |
| Arcium Rescue cipher (`rescue-cipher.ts`, `serialization.ts`) | none; keys of one cipher | constant-time arithmetic, permutation, hash, `encrypt`, `decrypt` | bits at the boundaries, an inverse written backwards, elimination that moves rows | decryption undoes encryption | `ConstantTime`, `RescueCipher` |
| Arcium keys and PDAs (`encryption.ts`, `pda.ts`, `arcium-client.ts`) | attempt counter of one call | `getMXEPublicKeyWithRetry`, PDAs | keys that are only partly set | a key is returned only when it is complete | — |
| TukTuk (`tuktuk-task-scheduler/src/lib/tuktuk-client.ts`) | task queue, bitmap, tasks, cron ids on chain; one timer per monitor | `getOrCreateTaskQueue`, `queueTask`, `createCronJob`, `addCronTransaction`, `monitorTask`, `compileTukTukTransaction`, `fundTaskQueue` | slots chosen from a stale bitmap, slot reuse, overlapping timer ticks, two-step creation | a call that fulfils owns its slot; a monitor settles, and says completed only when it is | `TaskQueue`, `QueueCreation` |
| Metaplex (`metaplex/src/lib/metaplex-client.ts`) | metadata cache per mint | `getTokenMetadata`, `updateTokenMetadata`, `clearCache`, `getCachedMetadata` | read-merge-write over two sources, cache against updates, errors that look like absence | an update changes what it was given and nothing else; the cache does not outlive updates | `MetadataCache` |
| Jupiter pricing (`jupiter-pricing/src/lib/jupiter.ts`, `plugin.ts`) | price cache, symbols, token list, symbol map; one timer per watcher | `getTokenPrices`, `resolveTokenSymbol`, `clearCache`, `watch…`, `transferTokens`, `convert…` | responses out of order, expiry, poll overlap, stop | how old a price may be that is used or told; no callback long after stop | `PriceCache`, `PriceClients` |
| ANS (`ans-name-service/src/lib/ans.ts`, `plugin.ts`) | resolution cache | `getAddressForANSName`, `clearCache`, wrapped transfers | cache against in-flight reads | as for prices | `NameCache`, `PriceClients` |
| Pyth (`pyth/src/lib/pyth-client.ts`) | none; price update accounts on chain | `postPythPriceUpdates`, `reclaimPythPriceUpdateRent`, `watchPythPriceFeed`, reads | parallel posts, partial failure, polls that overlap | what a call returns is there, of one answer | `PythFeeds` |
| Squads (`squads-multisig/src/lib/squads-client.ts`) | multisig, proposals and votes on chain | `createMultisig`, `createProposal`, `approveProposal`, `rejectProposal`, `executeProposal` | several members at once, a transaction index read and then used, votes by index | what is executed was approved by members who meant it | `SquadsProposals` implements `Agreement` |
| Switchboard (`switchboard/src/lib/switchboard-client.ts`) | none | reads, decoding | signed 128-bit decoding | the decoded value is the encoded one | — |
| kite, litesvm | none | wrapping, method switch | nothing concurrent | — | — |
| `*/src/generated`, IDLs | none | Codama encoders and decoders | generated code | — | — |

Components interact through the connection that plugins extend one after
the other (`sendTransactionFromInstructions`, `rpc`, `getPDAAndBump` of
solana-kite), through accounts on chain, and in one place through memory: the ANS plugin
wraps the transfers of the connection it is given, which the Jupiter plugin may have
added, so that a transfer goes through the caches of both (`PriceClients`). So each
model has a client part, translated from the source, and an external part: the
program, crankers, price services and RPC nodes, modelled from how the client uses them.

All the code runs in one JavaScript thread: a piece between two awaits is one
action, and every await is a point where other calls, timers and the cluster
take steps.

## What is modelled

### CircuitUpload — `uploadCircuit`

* `call`, `len`, `pc`, `next` are the state of calls and of their part
  coroutines; `net` and `landed` the transactions sent and executed; `raw`,
  `stored`, `published` the accounts.
* `UploadCircuit` starts all coroutines (lines 384-422). `InitDone`,
  `ResizeDone`, `ChunkDone` are the pieces of a coroutine between awaits;
  `PartRejected` an await that throws, which rejects the `Promise.all` of the
  call at once while the other coroutines go on. `AllPartsDone`, `Resolve`,
  `FinalizeRejected` are the rest of the body of `uploadCircuit`.
* `ExecuteInit … ExecuteFinalize` are the cluster and the Arcium program: a
  transaction lands or fails at any time after it was sent, in any order, also
  after the client was told that it failed.
* Bytes are abstracted to who uploaded them: a slot of an account holds the
  slice of a call. Sizes and loop bounds are kept, with the constants of
  `idl-helpers.ts` as parameters.

`CircuitPublication` is the abstract specification: accounts are claimed for
good, filled, and a call that filled all its accounts publishes, once.
`CircuitUpload` implements it (`ImplementsPublication`): `need` is the set of
parts of a call, `holder` the initialiser of an account, `filled` the parts with
every slot stored. Transactions and loops are stuttering steps.

### TaskQueue — `queueTask`, `createCronJob`, `monitorTask`

* `chain` is the sequence of states of the queue account that RPC nodes may
  still serve, the latest last; reads of the client pick any of them.
* `queueTask` and `createCronJob`/`QueueRead` read and choose a slot, `ReadFailed`
  is a read that throws, `Sent` and `Rejected` end the await on the transaction. The first two differ in their
  reads: a cron job awaits the next cron id before it awaits the queue.
* `monitorTask` arms the interval; `Tick` is the callback up to its await,
  `Answer` and `ReadError` the rest of it; `Expire` is the clock. Ticks do not
  wait for each other, so several requests may be under way.
* `Execute` and `RunTask` are the TukTuk and cron programs and the crankers.
* `sure` is a history variable: when the monitor started every node had the
  task (or it had run already). Without it "gone" can mean "not there yet".

### QueueCreation — `getOrCreateTaskQueue`

* `chain` is again what nodes may serve, here the creators, names and
  authorities of all queues; `state`, `user`, `name` and `queue` belong to the calls.
* `getOrCreateTaskQueue` is the look-up of the name (lines 104-132), `ConfigRead` the
  read of the next id and the first transaction, `Created` its confirmation, `AuthorityRead`
  the look for the authority and the second transaction, `Added` its confirmation.
  `Rejected` is any of the awaits that throws, and the user's program stopping there.
* `Execute` is the TukTuk program: ids in turn, a name once, an authority added by the
  update authority. A call that ended anywhere may be followed by another of the same user.
* `begun` is a history variable: what had landed when the call began, and whether every node was up to date.
  `UndisturbedSucceeds` is about calls nothing came between.

### ComputationWatch — `awaitComputationFinalization`, `…Subscription`

* `log` is the sequence of transactions of the Arcium program. What the code reads of one is
  its error and the event that `parseAnchorEventFromLogs` finds first: the awaited one, another one, none.
* The poll: `SignaturesRead` (up to `Window` of the latest signatures, from a node that may be
  behind), `TransactionRead` and `TransactionMissing` for each, `PollError` for the `catch`, `Paused` for the
  delay and the loop test. `listed` and `covered` are history variables: the signatures that
  attempts without an error or an absent transaction went through; about other attempts, and about what was never
  listed, `PollMissesNothing` says nothing.
* The subscription: `Subscribed`, `Notified`, `StreamEnded` (the loop ends without an
  event), `StreamFailed` (the `catch`) and `Timeout`. The abort and the `clearTimeout` are part of the step that
  settles the call; the `AbortError` that follows changes nothing. The code never rejects on an `AbortError`, whoever aborted (lines 159-160):
  that no stream ends with one but after the client's own abort is an assumption on `@solana/kit`, and `EveryCallSettles` rests on it.

### MetadataCache — `getTokenMetadata`, `updateTokenMetadata`, `clearCache`

* One mint. `cache` holds at most one entry, `chain` as above, `state` and
  `md` where each call is and the metadata it holds.
* `Fetch`/`FetchNull` are the two fetchers, tried in the order of
  `preferMetaplex`; an error and a missing account are both null. `Found`
  stores the entry and, in an update, sends the transaction. `UpdateConfirmed`
  deletes the entry, in the Metaplex branch only.
* Field values are named by origin: the source, or the update that wrote them.
  `name`, `uri` and `uses` stand for the fields that can be given, those that
  are merged and the one that is not. `begun` and the entry's `after` are
  history variables.

### PriceCache, NameCache, PriceClients — prices, names, watchers and transfers

* `Clock` is the time of `Date.now()`: `Advance` moves it, and `Due` says that a request made
  `MaxDelay` ago has been answered or has failed. Time is explicit because the properties are about age.
  A price, a line of the token list, or the owner of a name is represented by the instant at which
  it was true.
* `PriceCache` is `JupiterClient`. `Asks[c]` is the list of mints of call `c`, and `todo[c]` the places in it that are still to be
  fetched or stored; the loop is at the first. `getTokenPrices` takes what is not expired from the cache and
  asks for the rest (`PricesAnswered`, `PricesFailed`); `StorePrice` stores one price after the other, with an await of
  the symbol (`AskSymbol`, `SymbolAnswered`) before each whose symbol is not cached: the price is
  stored, with its expiry counted, only after this await. `resolveTokenSymbol` asks for the token
  list; the map of symbols survives the list. `Running` and `Quiet` keep a piece of code between two
  awaits whole although it takes several steps.
* `NameCache` is `ANSClient`. The reverse cache is never filled by the code and has no state.
* `PriceClients` composes both under one clock: `watch`, `IntervalFires` and `stop` are the timers of
  `watchTokenPrice` and `watchPortfolioValue`, each poll is a call of the price client (`PollOf`); `BalanceRead`,
  `AccountsRead`, `HoldingsFailed` and `CallBack` are the rest of a poll. `transferTokens` resolves the receiver,
  then the token, then the price, then reads the mint, and sends. `Clear` is `clearCache` of either client.

### SquadsProposals — proposals and votes of a multisig

* `setup`, `pc` and `idx` are the calls of `createMultisig` and `createProposal`; `proposals` the
  proposals on chain by transaction index; `net` transactions that may still land. `IndexRead` is
  lines 155-190: the index that a node answers, which may be behind, plus one, and one transaction for the
  vault transaction and the proposal.
* `approveProposal`, `rejectProposal` and `executeProposal` are called for a proposal that a
  `createProposal` returned and send its index alone. `Land` and `Fail` are the cluster and the Squads program: they accept an index that is
  the next one, votes while the proposal is active, and execution once it is approved; a transaction lands in any order, or never, also
  after its sender was told that it failed.
* `Agreement` is the abstract promise: something proposed is carried out at most once, after
  `Threshold` members agreed to it. `ImplementsAgreement`: `agreed` is `asked`, a history
  variable of who called `approveProposal` for which `createProposal`, and `done` the proposals that are executed.

### PythFeeds — posted price updates and the watcher

* A version stands for everything that Hermes publishes at a time; an answer is at least as new as
  what Hermes had when it was asked. `postPythPriceUpdates`, `Fetched`, `FetchFailed` are the call up to its `Promise.all`;
  `leg[c][k]` is the coroutine of one feed (`Send`, `Confirmed`, `LegFailed`), and `AllLegs` is `Promise.all`: the call rejects with
  the first leg that fails while the others go on.
* `reclaimPythPriceUpdateRent` closes an account whose address a call returned.
* `watchPythPriceFeed`, `IntervalFires`, `stop`, `PriceAnswered`, `PollFailed`: polls that are not answered
  within the interval overlap, and each callback marks the polls under way as overtaken.

### ConstantTime, RescueCipher — the cipher

* Pure functions, without state. `ConstantTime` is the arithmetic on two's complement bits:
  `toBinLE`, `adder`, `ctAdd`, `ctSub`, `ctLt`, `ctSelect`, `getBinSize`, and the encoding of
  integers as field elements. `RescueCipher` is the rest: matrices, `det` by elimination, Cauchy matrices, round
  constants, `permute` and its inverse, the Rescue-Prime hash that derives the key, and the counter mode.
* The field, the block size, the rounds and SHAKE256 (a stream of field elements) are parameters.
* Loops are recursive functions (`f[n \in 0 .. N]`), so that theorems can be proved about them; the sampling of the
  round constants takes the first of at most `MaxSamples` matrices that is invertible.
* `Order` is any odd prime; the code's `Math.log2(Number(n))` rounds its argument to a double, which is `Double`.
* `CipherClaims` gives inputs one at a time to the claims that are checked (`CipherInit`, `CipherNext`); its reference
  definitions are modular arithmetic and the determinant by its expansion along the first column.

### Reads

The default commitment of @solana/kit for reads and of solana-kite for sends is
"confirmed". A provider has several nodes and a request may reach one that is
behind the one that confirmed the last transaction, so reads may see a state up
to `MaxLag` behind (0: one node).

## Runs

| Run | Shows | Distinct states |
|---|---|---|
| `circuit_upload` | two calls, circuits of one and two accounts; all safety properties, the refinement, and that every call settles | 44 thousand |
| `task_queue` | a task, two cron jobs and a monitor on two slots | 168 thousand |
| `task_queue_full` | **violated**: `OfferedSlotExists` (finding 1) | |
| `metadata_cache` | a reader and two updates on a mint with both sources | 203 thousand |
| `metadata_uses` | **violated**: `UpdateRetains` (finding 2) | |
| `queue_creation` | two calls, one user or two, one name or two: a call that fulfils returns a queue its user may use, and a call after an interrupted one gets in | 24 thousand |
| `computation_watch` | a poll and a subscription for one computation: neither passes over what it was shown, every call settles | 484 thousand |
| `price_clients` | a price watcher with two polls that overlap, a portfolio valued once, two transfers, and both caches cleared at any time: how old what is cached, told and used may be | 3.0 million |
| `squads_proposals` | two proposals for one index, three members, late transactions: what is executed was agreed to | 1.2 million |
| `pyth_feeds` | posts of one feed, two feeds or one feed twice, and three polls that overlap | 1.2 million |
| `rescue_cipher` | the arithmetic, the permutation and the determinant against their references, over the field of 17 elements | 41 thousand inputs |
| `random_nonce` | **violated**: `RandomNonceEncrypts` (finding 3) | |

Bounds, and why they are enough:

* `circuit_upload`: two calls are a retry and the attempt before it. Six bytes
  an account, two a reallocation, two reallocations a transaction and two bytes
  an upload give a part that is not resized and not chunked (length 2), and a
  circuit (length 11) with a full part that takes two resize transactions, the
  second of them without an instruction, and two chunks, and a second, shorter part.
* `task_queue`: two slots and three callers let all of them collide, lose, win, reuse a
  slot and find the queue full. The bitmap has no more bits than slots here, so that full is full; with a third bit, as in the
  queues the client creates, no call finds it full, some ask for the slot that does not exist, and `LoserHasWinner` speaks of the others: the theorem
  covers every bitmap. `MaxLag = 1`: one state behind is enough for a stale choice.
  `MaxReads = 2` unanswered requests per
  monitor let two ticks overlap and their answers come in any order; the
  `MaxReads` guard disables only ticks that would send one more.
* `metadata_cache`: two updates with different fields and a reader are the
  smallest case in which one undoes the other; both sources are present so
  that a failing source changes where an update goes.
* `queue_creation`: two calls are an interrupted call and the one after it, two users who create
  the same queue, or two names that want the same id.
* `computation_watch`: three transactions and a window of two, so that one can leave the window
  between the two attempts; one transaction of lag makes a listed transaction absent. The code
  has a window of ten and 120 attempts; nothing in it depends on these numbers.
* `price_clients`: a request takes up to one unit, prices live two, names one, a run seven, so that every
  entry expires and is fetched again. A run is longer than each of the ages that `WhatIsUsedIsRecent` allows: five units for
  a price in the cache, six for the price a transfer computes with, and six for the owner it sends to; each of the
  three is reached. The interval of two is as long as a poll of one token may take: a poll that is answered at the
  last moment overlaps the next, which may be answered first. `PollsAssumption` says that there are enough polls for the interval never to be held back by the bound; TLC evaluates it.
  The portfolio is valued once and the user acts twice (`MaxUses`: a watch, a stop, a transfer or a clear), which bounds the run and not what overlaps.
* `squads_proposals`: two proposals collide on an index with one of lag; two of three members decide, so
  that approval and rejection race; two transactions under way at a time (`MaxNet`) come in either order. The theorems below have none of these bounds.
* `pyth_feeds`: a list of two feeds has one leg that fails and one that lands; the same feed twice
  has two accounts. Three polls and two versions let one poll be overtaken by a later and an earlier one.
* `rescue_cipher`: 17 is the smallest prime for which alpha is 3 and its inverse is another exponent
  (11) and in which matrices have both zero and invertible minors; operands from -70 to 70 pass every boundary of the bit width; texts of
  zero to seven elements fill none, one, two or a part of a block of three.
* Deadlock checking is off: calls are finite in number and the system stops
  when they have settled.

Fairness. Circuit upload: every await of a call returns (solana-kite either
confirms a transaction or throws when its blockhash has expired), so the steps
of a call are weakly fair; the cluster is under no obligation and may never execute a transaction.
Task queue: the same for reads and sends, and for timers: the interval
fires and time passes. The answer to a monitor's request is *not* fair: a node
may never answer, and `EveryMonitorSettles` holds all the same because the timeout is tested
before the request.
Arcium events: every request of a poll returns or fails; of a subscription nothing is assumed but that its timer
goes off, so that `EveryCallSettles` holds for a stream that is silent, ends or never starts. Crankers, lagging nodes, clearing and expiry
are never assumed to happen.

Each property of a passing run has a mutant in `PROJECT.json`: a plausible bug
in a definition that makes TLC find the property violated. Mutant
operators stand next to the definition they alter.

## Findings

1. `tuktuk-task-scheduler/src/lib/tuktuk-client.ts:231` and `:308`. The capacity is ignored: a queue created by this
   client (capacity 10, 16 bits) offers slots 10 to 15 when it is full, where "No available task slots in queue"
   should be thrown (run `task_queue_full`).
2. `metaplex/src/lib/metaplex-client.ts:273`. `uses: null` on every update, where the JSDoc says that
   fields not specified are retained (run `metadata_uses`).
3. `arcium/src/lib/serialization.ts:26`. A random nonce has 12 bytes, and `rescue-cipher.ts:986` throws unless it has 16;
   the README of the plugin (line 260) encrypts with it (run `random_nonce`).

Observations, met while modelling and not made a run. The models have the behaviour of the code in each of them
unless the point is about something listed as not modelled.

* `arcium/src/lib/upload-circuit.ts:294`. The resize loop grows an account to
  `10240 * ceil(len / 10240)` bytes, starting at 10240, without the header that line 396
  counts. A part whose length is 0 to 8 bytes below a multiple of 10240 does
  not fit, except a full one. That the initial 10240 bytes include the
  header is an assumption on the Arcium program (`InitBytes`).
  With `InitBytes >= ReallocBytes` the loop is right for all lengths, and proved so.
* `tuktuk-client.ts:406`. An RPC error makes `monitorTask` return `true`; the README of
  the plugin says `true` means completed. `SureIsRun` therefore speaks of answers only.
* `tuktuk-client.ts:187`. Every user of a queue adds itself as `updateAuthority`, which is the
  creator of the queue (line 158): the call of any other user is refused, where the README of the plugin
  (line 24) says that queues are shared pools. That only the update
  authority can add authorities is an assumption on the TukTuk program (`Acceptable`).
* `tuktuk-client.ts:467`. The role flags of an account are those of its first occurrence.
* `arcium/src/lib/events.ts:76`. The poll returns the signature of a transaction that logged the event and
  then failed; the subscription tests `value.err` (line 137).
* `arcium/src/lib/rescue-cipher.ts`. `det` exchanges rows without changing the sign, so it is the determinant only up to sign; its
  callers ask whether it is zero. `getBinSize` takes the logarithm of a double, to which the order of the field rounds up, so that
  operands are one bit wider than they need to be.
* `squads-multisig/src/lib/squads-client.ts`. A proposal whose status is not known is reported as active, the commitment given to
  `getMultisigAccount` is not used, and a retry after a lost answer proposes twice.
* `pyth/src/lib/pyth-client.ts`. A feed that Hermes does not have, or one post that fails, rejects the whole call; the accounts that
  the other posts create are not returned to anyone, and so are not reclaimed: `ReturnedHoldOneAnswer` is about calls that fulfil. A callback that throws is called again.
* `jupiter-pricing`. `convertBetweenTokens` scales by the decimals of the token it converts from, where the README
  (line 173) divides by 10^6.
* `ans-name-service`. Only the first two parts of a name are used.

## Proofs

Eight modules of proofs: one for each module proved about, except that `ArciumProofs` holds those of `ComputationWatch`
and those of the cipher. All are for every value of the constants under the module's named assumptions, and none assumes fairness.

`CircuitUploadProofs` (under `ConstantsAssumption`: naturals, the loop
constants positive, `MaxAccounts` large enough for the lengths):

* `TypeCorrectness`, `AccountsHaveOneWriter`, `PublishedCircuitIsComplete`,
  `ResolvedCallHasPublished` from the inductive invariant `IInv`;
* `FailureForbidsFinalize`, an action property that needs no invariant;
* `UploadsFitTheirAccounts`, under the further assumption `InitBytes >= ReallocBytes`;
* `ChunksAwaitOneAnother`, from the order invariant `OrderInv`;
* `Implementation`: `CircuitUpload` implements `CircuitPublication`, under the further assumption that no
  call is given an empty circuit.

`PublishedIsComplete` is not inductive: a step that finalizes must know that
all slots are stored, which the client knows only through what it awaited. `IInv` is the
chain of evidence: who sent a transaction and what had
landed before (`WellSent`); an init that landed owns its account (`InitOwns`), so
no other call's upload can land there and what landed stays (`SingleWriter`, `UploadsKept`); where a
coroutine is says what has landed (`PartProgress`); finalize comes after all parts and publishing after
finalize (`FinalizeLast`). `UploadFits` has an invariant of its own about sizes (`SizeInv`): after
`i` resize transactions the account has at least the `currentSize` of turn `i` or the whole
part, which rests on lemmas about the ceiling division.

`SquadsProposalsProofs`, for any members, thresholds, number of calls, lag and transactions under way:
a transaction on its way is of the kind and index that its sender meant (`NetIsMeant`), a
proposal on chain is the one its creator asked for and its votes are those of members who voted
(`ProposalsAreOwned`), and a `createProposal` that fulfilled owns its index (`ResolvedOwnsIndex`), which is what gives a vote sent
by index alone its meaning. From these, `Implementation`: every behaviour is one of `Agreement`, so nothing is
executed that the threshold of members did not agree to.

`QueueCreationProofs`: a node shows a past state of the program (`NodesAreBehind`), what was sent
and what landed are tied to the state of the program (`WellFormed`, `SentOnce`), and a call past its
first await has its queue (`HasQueue`); so `ReadyIsUsable`. `UndisturbedSucceeds` needs, for a call that began with every node
up to date and that nobody came between, that what it read is what is there (`Alone`).

`PythFeedsProofs`, for any `Requests` that are sequences of feeds: a post under way belongs to a leg that sent it
(`NetIsPosted`), an account to one whose post has landed (`AccountsArePosted`), a leg that is done has its account
unless it was reclaimed (`DoneIsStored`), and the legs of a call carry versions of its one answer (`LegsFollow`); so `ReturnedAddressesHold`.
`OvertakenPollsGoBack` rests on polls being no older than what they read (`PollIsFresh`).

`TaskQueueProofs`, for any capacity, bitmap, callers and lag: no node shows a task anywhere but in the slot its call chose
(`SlotsAreChosen`), and a transaction is executed at most once and after it was sent (`SentOnce`); so a call that fulfilled has its slot
or its task has run (`QueuedIsPlaced`). `LoserHasWinner`, of every call that asked for a slot of the queue, needs two more: a call that chose a slot keeps its choice, and every cron id below the
program's next was taken by a job that landed (`CronIdsAreTaken`), the ids that nodes show being no later (`CronIdsAreBehind`). `SureIsRun` rests on
`SureStays`: as long as the task of a sure monitor has not run, every node shows it. That the lowest free slot exists is the well-foundedness of the naturals.

`MetadataCacheProofs`, for any calls, fields, sources and lag: what a call holds between its reads and its transaction is metadata of one
source (`HoldsMetadata`), so `SourcesNeverMix`. While nothing comes between, all nodes show the state that the update has read (`Alone`); so the step that lands it
retains the fields it was not given (`UndisturbedUpdateRetains`).

`ArciumProofs` on `ComputationWatch`, for any window, attempts and log: what an attempt has listed is still to be looked at or does not
carry the event (`ListedIsLookedAt`), so `PollMissesNothing`; the computation is finalized by one transaction (`FinalizedOnce`, an assumption
on the Arcium program that `Confirm` makes), so `SubscriptionReturnsFirst`.

`ArciumProofs` on the cipher: `FieldArithmetic`, `Decryption` and `Singular` state the three claims of `CipherClaims` for every
odd prime, block size, rate, capacity, number of rounds, stream of SHAKE256, key, nonce, text and matrix, where the run knows one field of 17 elements.
Nothing is assumed of the matrices. What is assumed:

* `OrderAssumption`: the order is an odd prime, and rounding `Order - 1` to a double stays between the powers of two next to it;
* `CipherAssumption`: the sizes are positive, the block fits the hash's state, and the indices of the Cauchy matrices are
  smaller than the order (2 * 12 against a number of 255 bits); the streams are of natural numbers;
* `AlphaAssumption` and `SampleAssumption`: `getAlphaAndInverse` does not throw and the sampling of an invertible matrix ends,
  without which the code has no cipher to speak of;
* `InputsAssumption`: the types of the inputs; the matrices are square, of any size.

The argument, in the order of the module:

1. *Bits.* The carries of `adder` are those of an addition on paper (`AdderAdds`), and n bits of a number
   stand for the number wrapped around 2^n (`BitsWrap`). `getBinSize` leaves room for twice the order on both sides of zero
   (`BinSizeIsEnough`), so there the operations on bits are those of the integers (`ExactInRoom`). `ctLt` beyond that room is
   wrong in a way that the guards of `encrypt` and of the encoding still reject (`LessThanWraps`, `EncryptsElements`, `EncryptableIsBetween`).
2. *The field.* The laws of addition and multiplication; inverses exist, because the least positive sum of multiples of two numbers
   without a common divisor is one (`OneIsASum`, `InverseExists`).
3. *Sums, products and matrices* as loops: `matMul` is associative (`MatMulAssociates`), from `SumOfRowsIsSumOfColumns`.
4. *The exponents.* Fermat's little theorem: multiplying by x rearranges the elements, and a product does not
   depend on the order of its factors (`ProductOfRearranged`, `FermatHolds`). So raising to `alpha` and to `alphaInverse` undo each other (`PowersInvert`).
5. *The Cauchy matrix.* A row of it times a column of `buildInverseCauchy` is a divided difference over the
   nodes 1 to m and -i of a polynomial of lower degree, which is zero (`DifferenceOfPoly`, `DifferenceIsZero`). So the closed form in the code is the
   inverse on both sides (`CauchyInverts`), with every sign and every left-out factor of it.
6. *The permutation.* A round of `permuteInverse` undoes the round of `permute` in its place, because the number of rounds is even and so the
   exponents pair up (`ExponentsInvert`, `RoundInverts`, `PermutationInverts`). Round constants, digest and round keys are columns of elements
   of the right size, and what is read of the streams lies within them (`StreamsAreLongEnough`, `DigestIsKey`, `KeysAreColumns`).
7. *Messages.* Both directions add the same keystream to an element and take it off (`MessagesInvert`).
8. *The determinant.* By induction over the size: two neighbouring rows that change places change the sign of the expansion
   (`SwapsChangeSign`), and it is linear in each row (`RowsAreLinear`); so it is zero with two equal rows, and multiples of the first
   row added to the others leave it as it is (`SameRows`, `AllMultiplesAdded`). Each row that `nlzRows` moves before those of `lzRows` rotates
   the rows between, which costs at most the sign (`SortingChangesSign`). What `Eliminated` returns is what remains without the first
   row and column (`EliminatedIs`), so each round of `det` takes the pivot out of the determinant (`EliminationStep`), and a round
   without a pivot says that it is zero (`NoPivotIsSingular`). The loop's invariant is `Remains`: the product so far times the determinant
   of the rows that are left is that of the matrix, up to its sign (`DetIsDeterminant`). So the matrix of the round constants,
   which is sampled until `det` is not zero, is not singular (`RoundConstantsAreInvertible`).

`PriceClientsProofs`, for any delays, cache times, intervals, lists of mints, watchers and transfers. With `Span(k)` the time of `k` requests one after the
other, a call that has come to place `i` of its list holds prices at most `Span(i)` old (`FetchInv`), so an entry expires at most `CacheTime` and the
longest fetch after it was true (`EntryInv`). Only one call at a time runs between two awaits (`OneTurn`), so that what a call of one price goes on with
is still in the cache when it does (`ResultInv`); from that, what a watcher was told is compared with the cache alone (`ToldInv`), and the age of the owner and the price
of a transfer is counted request by request (`OwnerInv`, `PaidInv`). `WatchersCallBack` has an invariant of its own (`CallInv`): each poll has a deadline
that no step puts off (`EndsBy`), and of a watcher that is not stopped either the interval or a deadline falls in the time that is left.

Every safety invariant and every action property that a passing run checks is a theorem. Only model-checked is liveness (`EveryCallSettles`,
`EveryMonitorSettles`): fairness and ENABLED are outside what the provers handle.

## Not modelled, and why

* `*/src/generated`: about 52,000 of the 59,600 lines. Codama generates them from IDLs; they are
  encoders, decoders and lists of accounts, with no state and no control of their own. What a
  model would say of them is what the generator says.
* Arcium: AES and SHAKE256 (library code), the number of rounds (floating point), the ciphers
  of cSPL (the same construction with other parameters), `getMXEPublicKeyWithRetry` (a loop of one
  reader around one read), PDAs (hashes).
* Switchboard: one read and the decoding of a 128-bit integer. Kite and LiteSVM: wrapping of methods. Conversions
  and formatting in every plugin; floating-point prices and confidences.
* One-transaction operations whose whole effect is on chain and outside this client: `fundTaskQueue`, `addCronTransaction` and the bytes of
  `compileTukTukTransaction`.
* The following would
  otherwise be missed: a resize transaction is identified by its turn, so that two
  identical resize transactions under one blockhash, which the cluster would take for one,
  are not modelled; circuits of more than 256 accounts (their index is one byte) and empty
  circuits are excluded; a mint has one cache entry and mints share nothing; that the Squads program accepts
  what it does is read off how the client prepares its calls, not off the program.

## Plan

Done: every component with state between awaits has a module with proofs, and so has the cipher. Left:

1. Pure operators against a reference: `compileTukTukTransaction`, Switchboard's int128; the retry loop of the MXE key.
