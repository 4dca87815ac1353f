# Fermi v1 SDK: specifications, model checking and proofs

This directory holds TLA+ specifications of the Fermi v1 TypeScript SDK (`src/` in the
repository), the TLC configurations that check them on small instances, and theorems about
them checked by the TLA+ proof system (TLAPS). Paths such as `streams.ts` are relative to the
SDK's `src/` directory, `docs/...` and `test/...` to the repository.

Contents: 1 the system, 2 the modules, 3 smoke runner, 4 subscriptions, 5 quoter,
6 deferred queue, 7 arithmetic, 8 trigger orders, 9 vault client, 10 fees, submission, parser,
context, accounts and redaction, 11 what is proved and what is only checked, 12 what is not
modelled, 13 what could follow.

## 1. The system

The SDK is a client library with command line tools. It talks to a Solana RPC node, to the
Fermi gateway (gRPC and HTTP), to the gateway's streams (server-sent events and a WebSocket),
and to the file system. It keeps little state of its own; what is hard is that each of its
multi-step operations is interleaved with a network that answers late, twice, out of date or
never, with a process that can be killed, and with a caller that can act between any two
awaits.

| Component | Source | State | Operations | Hard behaviour | Correct means |
|---|---|---|---|---|---|
| Mainnet smoke runner | `flp/mainnetSmoke.ts`, `bin/flp-mainnet-smoke.ts` | receipt file, `.lock`, `.tmp`, records in memory | preflight, reconcile, gates, save, sign, send | crashes between steps, power failure, lagging RPC, a send that throws after it arrived, other use of the wallet | an action is sent once; the receipt survives and tells the truth |
| Stream subscriptions | `streams.ts` | queue, waiter, done, error per subscription; parser buffer | chunk pump, socket events, next, return, close, abort | callbacks racing the consumer, abort racing failure, overlapping calls | frames once and in order, then one true outcome, nobody waits for ever |
| Quoter bot | `quoter.ts`, `bin/run-quoter.ts` | running flag, last client order id, cached price | run, stop, tick (cancel and submit) | stop during a tick, restart, a request that fails after it was accepted | one loop, one quote the bot knows; it does not know of one that was reported as failed |
| Trigger orders | `triggerOrders.ts`, `triggerOrderViews.ts` | none (signed legs, keeper's state is remote) | build, sign, verify, submit, list, cancel | two legs of one OCO group submitted separately, cancel racing a fire, redaction | a leg sent is the leg signed; a final cancel is final |
| Intents | `intents.ts`, `trading.ts`, `relayerClient.ts`, `proto/` | gRPC channel | encode payloads, hash accounts, sign, submit | field widths, message versions, a submission whose answer is lost | what is signed is what is executed |
| FLP vault client | `flp/index.ts`, `flp/v4.ts`, `flpContext.ts`, `flpMetadata.ts` | event queue cache | fetch, derive, build instructions | several reads of a moving chain for one instruction, time windows, version gates | an instruction is built from one consistent view or refused |
| FLP arithmetic | `flp/math.ts`, `flp/v4.ts` | none | ratios, quotes, payouts | rounding, u64 and u128 limits | rounding never favours the depositor; funded batches cover their claims |
| Fee credit | `fees.ts` | none | status, deposit, report | the transfer confirms and the report fails | every credit is of one confirmed transfer |
| Context and deployments | `context.ts`, `deployments.ts`, `auth.ts`, `accountClient.ts` | resolved configuration | resolve group, program, account; canonical account list | precedence of overrides, stale account model | no mixture of deployments |
| State client | `harness.ts` | none | HTTP reads of the gateway's state | rate limits, phases | typed errors, no retry |
| Other tools | `bin/*.ts` (accounts, deposits, withdrawals, portfolio, orders, simulate, smoke check) | none | one-shot scripts over the library | - | argument checks |
| IDLs, metadata | `idl/*`, `flp/idl/*` | - | generated | - | - |

How they interact. The quoter calls `trading.ts`, which builds an intent (`intents.ts`,
`context.ts`) and submits it through `relayerClient.ts`; the gateway orders the intents of a
market. The smoke runner uses the FLP vault client for its snapshot, its instructions and its
event parser. The streams are independent of all of these: a consumer drives them with
`for await`. Trigger orders go through `relayerClient.ts` or the HTTP client that extends the
state client.

## 2. The modules

| Module | Kind | About |
|---|---|---|
| `SubmitOnce` | abstract specification | what the smoke runner promises: journal, then hand over once |
| `SmokeJournal` | specification | the smoke runner, its files, crashes and the chain |
| `SmokeJournalLive` | specification | the same with a history of kills, for how an invocation ends |
| `MCSmokeJournal` | model-checking instance | the symmetry set for TLC |
| `SmokeJournalProofs` | theorems | inductive invariant and safety of the runner |
| `FrameChannel` | abstract specification | what a subscription promises its consumer |
| `AsyncQueue` | operators over shared variables | the queue, waiter and end common to both transports |
| `SseSubscription` | specification | `sseSubscribe`: background loop, network, consumer |
| `TickSubscription` | specification | `subscribeTicks`: socket events, consumer |
| `AsyncQueueProofs` | lemmas | what pushing, finishing and calling do to a queue |
| `SseSubscriptionProofs`, `TickSubscriptionProofs` | theorems | invariants, and that each implements `FrameChannel` |
| `Quoter` | specification | the quoter bot, its requests and the market |
| `QuoterProofs` | theorems | one loop, one quote, every quote known |
| `DeferredQueue` | specification | `closeEpoch` and `fundHeadIfOpen` over a vault that moves |
| `DeferredQueueProofs` | theorems | gapless walk, exact when fresh, true refusals |
| `FlpMath` | operators | every function of `flp/math.ts`, and `batchPayout` |
| `ShareVault` | specification | a vault driven by the amounts of `FlpMath` |
| `MCShareVault` | model-checking instance | the portfolio values for TLC |
| `ShareVaultProofs` | theorems | claims covered, limits, dust, prices, for every scale |
| `TriggerOrders` | specification | the legs of a bracket, their caller, the relayer and the keeper |
| `EventQueues` | specification | the event queues the vault client looks up and remembers |
| `RecoveryRead` | specification | `fetchVault` of both clients, and the recoveries it reads |
| `ParamsNotice` | specification | the delay of staged parameters against the epochs |
| `MCVaultClient` | model-checking instance | the union of the three modules above |
| `FeeCredit` | specification | `depositFeeCredit`: transfer, report, credit |
| `Submission` | specification | placing and cancelling orders, replay numbers, expiries |
| `Selection` | operators | what a loop keeps of a sequence, and pieces one behind the other |
| `SseParser` | specification | the incremental parser, and what a text means without chunks |
| `ClientContext` | specification | `createFermiV1Context` from configuration to account |
| `IntentAccounts` | specification | the canonical account list and the flags that are signed |
| `KeeperRedaction` | specification | what is removed from the keeper's answers |
| `MCClient` | model-checking instance | the union of the six modules above |
| `ClientProofs` | theorems | the parts of `MCVaultClient` and `MCClient`, and trigger orders, for every value of the constants |

A definition whose comment says "A mutation" is a wrong variant of the definition that follows
it, of the kind a plausible bug would produce. No specification uses it; each property has
been seen to fail when its mutation takes the place of the original (the pairs are in
`PROJECT.json`).

Independent parts in one run. The parts in `MCVaultClient` and `MCClient` share no state. Each
is a module with its own variables, initial states and next-state relation. An instance has a
variable `part` that an initial state fixes; only the steps of that part are taken and the
variables of the others rest at one value. Its behaviours are those of the six (or three) parts
side by side, not their product, and an invariant of one part is checked in all its states.

## 3. The smoke runner (`SmokeJournal`)

Correspondence. `run[r]` holds the local variables of `main()` in one invocation: the stage it
has reached, the stage its current `save()` or `reconcileReceipt()` returns to, the records,
the loop index and what the gates use of the preflight snapshot. `lock`, `tmp` and `receipt`
are the files; `onDisk` is the set of receipts that a power failure may leave, because a
rename is durable only after the directory is synced. `tx`, `ticket` and `settled` are the
chain. Every await and every file operation is the end of a step:

- `Acquire` is the exclusive open of `.lock`, `ReadReceipt` the read, `Preflight` the snapshot
  (taken before the reconciliation and used after it), `ReconcileOne` one iteration of
  `reconcileReceipt`, `ReconcileEnd` the save that follows, `StopsEarly` every throw or return
  before the submission.
- `SaveOpen`, `SaveRename`, `SaveSync`, `SaveFails` are `save()`; it blocks on nothing and
  throws when `.tmp` is there.
- `Prepare`, `Sign`, `Send` are `submitSmokeOnce`; `Settle` is the last reconciliation, `Exit`
  the finally block.
- `Crash`, `PowerFailure`, `WriteBack`, `RemoveStaleLock`, `RemoveStaleTmp`: the machine and the
  operator. `Process`, `Abandon`, `Expire`, `Confirm`, `KeeperSettles`, `WalletActivity`: the
  chain.

Assumptions. The operator removes a stale `.lock` or `.tmp` only when no runner is active
(`docs/flp-mainnet-smoke.md` says so). A confirmed transaction is never rolled back; a
processed one may be. An RPC node may answer with an older state but does not invent one. A
signature is fresh each time a transaction is signed, since the blockhash is fetched by the
same run. `confirmed` stands for `finalized` too.

Runs.

| Run | Question | Bounds |
|---|---|---|
| `SmokeJournal` | safety, and that the runner implements `SubmitOnce` (which makes an action sent once): durable before sent, records true, completeness true, nothing sent while an earlier outcome is open, the receipt only grows | 2 invocations, 3 signatures (one per action), at most one unsynced version when an invocation starts |
| `SmokeJournalLive` | an invocation that is not killed ends, and when it has ended the lock is gone | 2 invocations, 2 signatures; 265,733 states |
| `SmokeJournalProcessed` | does a transaction that is only processed stay `unknown`, as the document says? No | 1 invocation, 1 signature |

Two invocations are enough for the lock, since any number of others are excluded in the same
way; three signatures let the whole lifecycle happen. `MaxVersions = 1` cuts only the length of
runs with several unsynced renames: `WriteBack` may sync at any time, and an invocation still
makes several unsynced versions when it saves more than once.

`SmokeJournalLive` extends the runner by a history variable: `killed`, the invocations that were
killed since they started. Without it an invocation that exits cannot be told from one that a crash
took away, which leaves its lock to the operator. `RunnerEnds` is about the others: each ends, by a
gate, a failed call or save, or at its last line, and in the state where it has ended its lock is
gone.

Fairness. `KillsSpec` and `FairSpec` give each invocation weak fairness of its own steps: every file
operation returns, and every RPC call answers or is rejected (web3.js requests run over HTTP sockets
that close). It gives none to the operator or to the chain, and none of the stages waits for
them.

Finding. `docs/flp-mainnet-smoke.md:187` says that a processed-only status stays `unknown`.
`mainnetSmoke.ts:204` looks at `status.err` before it looks at the confirmation level, so a
transaction that failed in a fork that is later abandoned is recorded as `failed` while it may
still succeed. The next reconciliation corrects the record, and until then no further action is
prepared: every record has to be `confirmed` for that. `ConfirmedIsTrue` is therefore about records that
say `confirmed`; what a record that says `failed` claims is not always true.

## 4. The subscriptions (`AsyncQueue`, `SseSubscription`, `TickSubscription`)

Correspondence. `queue`, `waiter`, `done` and `error` are the variables of the closures in
`streams.ts`; `waiter` names the call of `next()` whose `resolve` is kept. `Push`, `Finish`
and `Call` are the bodies of the frame loop, `finish` and `next()`. `answer` and `handed` record
what the consumer has seen. JavaScript runs a callback to its end, so each action is one
callback, or the code between two awaits.

- `SseSubscription`: `loop` is where the background function is. `Respond`, `Arrive`, `Break`,
  `EndOfStream`, `Reject` settle the promise it awaits; `Refuse`, `Pump`, `End`, `Catch` are
  its continuations, and the consumer may act in between. `Close` is `close()` and `return()`;
  `Abort` is the consumer's signal, which reaches only the controller.
- `TickSubscription`: the actions are the three socket events and the consumer's calls. A socket
  that is closing may still deliver messages (as the `ws` package does), and `close()` has
  already finished the subscription by then.

Runs.

| Run | Question | Bounds |
|---|---|---|
| `SseSubscription` | the queue, waiter and end of both transports with the SSE loop: implements `FrameChannel`, a clean end is the server's or asked for, a failure is the transport's, and after an abort or the transport's end the last call is answered; overlapping calls allowed | 3 frames, chunks of at most 2, 4 calls; 1,493 states |
| `TickSubscription` | implements `FrameChannel`, and the outcome is what the socket did | 4 frames, 5 calls; 2,305 states |

Three frames and chunks of two are enough for a chunk that serves a waiter and queues the rest
behind frames that are queued; the calls are enough to drain them and ask again after the end.
`FrameChannel` lets a consumer take only frames that came, in their order, and lets it be told an
outcome only after the frames; so `IsChannel` says at once that frames are in order, that none is
lost or repeated, and that the end is final.

Fairness. `WF_vars(Loop)`: a promise that has settled is resumed. Nothing is assumed of the
server. A refusal's body (`resp.text()`) may hang, but an abort rejects it, hence
`aborted /\ Refuse` in `Loop`. The socket's half is only callbacks, each of which ends by itself:
no fairness is stated and no liveness claimed there.

What the runs show that is not obvious: a call of `next()` that overlaps an earlier one takes
its place as the waiter, and the earlier promise never settles. `EndReleases` therefore speaks of
the last call. A `for await` loop never overlaps its calls. After a cancellation the consumer may
be given frames that were queued, even after it was told of the end; this is why the promises
about outcomes except a consumer that cancelled.

## 5. The quoter (`Quoter`)

Correspondence. `running` and `last` are the bot's fields; `loop[r]` is where the r-th call of
`run()` is, and which request it waits for. `book` is the set of the bot's quotes on the
market, `stray` the requests that were reported as failed and may still arrive. `Quote`,
`Cancelled`, `Submitted` are the parts of `tick()` between its awaits, `ReadFails` and `Fail` its
rejections (logged by `run()`), `Wake` the end of the sleep with the loop's condition.

Assumptions. Intents of one market are executed in the order the relayer accepted them.
Client order ids are distinct, though the code takes them from `Date.now()`. The caller runs
the bot with `run()` and does not call `tick()` itself. With `Patient` the caller waits for
`run()` to return after `stop()`.

Runs: `Quoter` (2 calls of run, 3 quotes, patient caller) checks that there is one loop, that
at most one quote rests at a time beside those whose submission was reported as failed (the code
does not track these, and one that was accepted all the same rests beside the next), and that at
most one is submitted between `stop()` and the next `run()`. `QuoterRestart` (an impatient caller) shows the finding below.
Three quotes let a quote be lost, replaced and replaced again. The bot stops when its calls of
`run()` are used up, hence `CHECK_DEADLOCK FALSE`.

Fairness: a timer fires. No liveness is claimed: `submitIntent` has no deadline, so a request
that is never answered holds the loop for ever, and the code does nothing against it.

Finding. `run()` throws `quoter is already running` (`quoter.ts:142`) to keep a second loop out,
but its guard is the flag, which `stop()` clears while the old loop is still in its tick or
its sleep. After `stop(); run()` the flag is set again, the old loop sees it and goes on, and
two loops share `lastClientOrderId`: each cancels the other's quote, or both submit beside it.

## 6. The deferred queue (`DeferredQueue`)

Correspondence. `call` holds the local variables of one `closeEpoch` or `fundHeadIfOpen` (with
`fundHead`, which it calls); `call.state` is the vault account the caller read earlier (`Fetch`).
`Advance` is the head of the while loop with its bound and its cycle check, `ReadRecord` the
await of a record with the status check that follows, `ReadWindow` the await of the funding window
with `fundingWindowIsCurrent`, and `Build` the end, after the await of the event queues. `RpcFails`
may reject any await. `closeEpoch` of `flp/index.ts` has the same walk. The other variables are the
vault program's: `deferred` is every batch ever deferred, `funded` how many of them are funded.

Assumptions. The program funds deferred batches oldest first and appends a deferred one at the
tail (`docs/flp.md` speaks of the deferred FIFO); the record of a funded batch keeps its link or
loses it, the model admits both. One RPC node answers, and its confirmed view does not go back:
nothing in the code enforces it (the reads of `flp/v4.ts` carry no `minContextSlot`), and against a
pool of nodes a read could be older than the one before it. `RefusalIsTrue` rests on this, and so does
the half of `BuiltIsTrue` about the funding window: a head that was refused as changed, or a window
taken for an older one, might otherwise be an old answer. (`RecoveryRead` and `EventQueues` do not
assume it: there a later read may be behind.)
Calls share nothing, so one is enough. Whether a window is eligible, and open at the time the
caller passes, is a free choice: the program decides again on chain.

Run `DeferredQueue`: 6 epochs, at most 3 batches per call. That is enough for the head to be
funded, the tail to be extended and the queue to be emptied and refilled in the middle of a walk,
and for the walk to stop at its bound, at the end of the queue and at a funded record. The caller
may always read again, so deadlock is checked. What it shows beyond a unit test: the records an
instruction lists are, when it is built, a prefix of what the queue was from the head the caller
saw, in order and without a gap (`WalkIsFifo`), although each was read at a moment of its own; an
instruction that the program can still accept (it compares the epoch and the head with its own)
is exact (`BuiltIsTrue`); and a refusal is true of the moment it was decided
(`RefusalIsTrue`).

## 7. The arithmetic (`FlpMath`, `ShareVault`)

Correspondence. Each function of `flp/math.ts`, and `batchPayout` of `flp/v4.ts`, is an operator of
the same name; a function that throws has a second operator, `...Ok`, that says when it returns.
10000 bps, the virtual offsets, the fixed point of prices and the limits of 64 and 128 bits are
constants, so that TLC can use small ones and the theorems hold for the real ones. BigInt does
not overflow; the limits are checks, and are modelled as such. `priceE12`'s own range checks are
left out: the price is only used to state a property.

`ShareVault` uses them the way `docs/flp.md` and the comments of `math.ts` say the program does:
deposits at the high estimate of the NAV, a batch of locked shares funded at the low one (or, in
recovery, at real assets over real shares), claims in parts and in any order, and a market that
moves the NAV between steps. A fee stays in the vault or leaves it. The vault program is external;
its amounts are the code's.

Run `ShareVault`: offsets of 2, 100% as 4 units, limits of 20 and 40 with at most 4 shares. The
product limit of 40 binds before the others for some batches, and fees of a quarter round at
nearly every amount. A behaviour ends when the bound on shares is reached or nothing is left to
claim and no quote is accepted, hence `CHECK_DEADLOCK FALSE`; `RoundTrip` is evaluated with
hypothetical deposits in every state. One deposit of 6 into a vault of 4 and one of a single unit
make every kind of rounding happen.

## 8. Trigger orders (`TriggerOrders`)

Correspondence. A leg is the plain object `buildSlTpLegs` returns; `legs`, `signature` and
`outcome` are what a caller holds for each kind of leg. `Submit` is `submitTriggerOrder` up to the
request (`TriggerOrderRequestOk` is the checks of `triggerOrderRequest`), `Answer` the rest of it
with `Withheld`, `Timeout` a call that fails. What is checked of the bytes of a payload (its length,
IOC, reduce-only, and the expiry of the terms) is one flag, `closes`, which the caller may spoil like
everything else in a leg. Hashes are the value they cover, so a hash that
agrees means that the value does. `Change` is the caller: it may edit the terms, the payload or
the account list, and may or may not compute the hash anew. Submission over gRPC
(`submitTriggerOrderViaRelayer`) has the same checks. Sizes, the explicit IOC limit and
the signature of a cancel are left out.

The relayer and the keeper are external. From `docs/trigger-orders.md`: the states, who cancels
siblings and when, what a cancel answers, that an attempt in flight may still fill. Assumed beyond
it: the keeper holds no two legs with one client order id, and an attempt that was asked to be
cancelled is not armed again. A relayer that knows trigger orders reports a leg as it is. One that does
not know them executes the order and may answer any status, with a transaction signature or without;
that its answer names no trigger order (`trigger_order_id`) is an assumption, and `AckIsTrue` rests on
it: the client has nothing but the answer to go by.

Run `TriggerOrders` (1,127,931 states): one bracket or single leg for a long position with the oracle between three
prices, one change, two submissions; enough for a lost answer and a second try, a leg changed
after it was signed, both legs filled, and a cancel before, during and after each. A short position
is the mirror image. A behaviour ends when the bounds are used up, hence `CHECK_DEADLOCK FALSE`.

What the run shows and what it does not. Without an oracle price nothing keeps the legs of a
bracket apart: `known` is the premise of `BracketIsExclusive`. `FinalIsFinal` speaks of the legs
an answer lists: a cancel by group, or of all legs, that overtakes a submission lists nothing,
`triggerCancelIsFinal` is true, and the leg is held afterwards. A caller that wants to be sure
cancels by id, where the answer is `not_found` and not final.

## 9. The vault client (`EventQueues`, `RecoveryRead`, `ParamsNotice`)

`EventQueues` is `eventQueueMetas` of `flp/index.ts` with the map `marketQueues` that all calls of
a client share. `Begin` is the code up to the read, `NodeAnswers` what the node returns (it may be
behind), `Settle` the continuation that enters the answers and makes the list, `ReadFails` a
rejection. A read that does not find a market enters `null`, which is never asked again:
`QueuesAreTrue` says that this is the only way a queue is left out, and that otherwise the list has
each market's queue once, at its first place. Whether a node that is behind can be asked at all is
not the client's to know; `missed` makes the case visible instead of excluding it.

`RecoveryRead` is `fetchVault` of `flp/index.ts` (version 3) and `flp/v4.ts`: one read of the vault,
one of the sidecar, and the comparison of mode, batch and start time. Recoveries are started,
extended, taken over, finished and aborted in between, and the second read may be answered with any
earlier state. `number` tells recoveries apart and is not visible to the client. Assumption: two
recoveries that are not one another's continuation start in different seconds. Without it the three
fields do not identify a recovery and the client cannot know. Targets of the right recovery from before
one of its extensions may be returned; `TargetsAreOfTheRecovery` does not exclude it. The checks of
`v4.ts:117` and `v4.ts:121` (a sidecar is expected, and names its vault) are left out: no state of the
model fails them.

`ParamsNotice` is `stagedParamsDelaySeconds`, measured by what it is for: a depositor who asks to
leave when a change is staged is priced before it applies. `Favourable` is the test for changes that
nobody can lose by: the rates and minimums (one, for the six that must not rise) and what has to stay
equal (`others` for what is neither a duration nor a cutoff nor the timelock). `ExitBeforeChange` does
not speak of that test; it looks at what a step does to the parameters in force and to the timing that
applies next. Time goes in seconds, epochs close at their end (a punctual keeper).

The property has one exception, which is not behaviour of the vault or of the SDK but a case in which
the delay is too short (`Stretched`): if, when a change is staged, a timing with a longer epoch and a
shorter cutoff is scheduled, a late request waits for the rest of this epoch and all of the next, and
the maximum of the two sums does not cover it. With epoch and cutoff of 3 and a scheduled epoch of 5
with a cutoff of 1, a request made at the start of the epoch waits 8 seconds and the change 6. The code
does not say that such a request is covered (its comment promises at least the epoch plus its cutoff,
including a scheduled change), so this is no finding but a limit of what holds.

Run `VaultClient` (1,075,084 states): three accounts of which two are markets, two instructions under
construction and three begun, health lists of two; three recoveries, two batches, one extension;
epochs of 3 to 5, cutoffs of 1 to 3, timelocks of 0 and 6, two rates and two values of the rest. Two
overlapping calls and a third one let an entry be overwritten, missed and used; three recoveries let
one be replaced, taken over and followed by one with the same batch; the timings contain each order of
two epochs and two cutoffs, and every parameter changes alone and with the others. The parts end when
their bounds are used up, hence `CHECK_DEADLOCK FALSE`.

## 10. Fees, submission, parser, context, accounts, redaction (`MCClient`)

- `FeeCredit` is `depositFeeCredit`: the status read, the transfer with its memo, the confirmation
  and the report, with a failure at every await, a retry as a second call, a report by hand of a
  transfer that landed after its call failed, and a deposit address that changes. Numbers are
  rounded the way a JavaScript number rounds above 2^53 (`Number`, with a small limit). Assumption:
  the relayer believes a report and credits an instruction once. `CreditIsPaid` then says that the
  client's reports are true. It is not the SDK that prevents a second credit of one transfer, and nothing
  makes a report arrive.
- `Submission` is the place and cancel helpers of `trading.ts`, through the relayer or directly, with
  their replay numbers and expiries. A number is one u64, whoever chose it and whatever it is for: a
  caller may use the same one for an order, for another order, for a cancel and as a replay number, on
  purpose or by mistake. A call may leave an intent and throw. The program is external: as
  `intent_reference.md:85` says it has a rolling replay cache, here the numbers of its last `Window`
  executions. Through the relayer an intent has no expiry unless the caller gives one, so that an
  intent whose number has been forgotten can execute again. `ExecutedOnce` says how much the number is
  worth: two executions of one call are more than `Window` apart. `ReplayIsRepeat` is about the numbers
  the helpers choose, and `DirectEnds` about the expiry that a direct call is given. Assumption: the
  numbers drawn differ from one another and from those that callers pick (`Draw`).
- `SseParser` is `SseParser.push`: decoder, line buffer, frame. A text is a sequence of tokens, and
  every cut is tried, inside a line ending and inside a wide character; half a character without its
  other half is a bad one, as in the decoder. `FramesOf` says what a text means without chunks, by its
  lines and blank lines and with no loop over them; `ChunkingInvisible` compares.
- `ClientContext` is `createFermiV1Context` with `deployments.ts`: precedence, the checks of group,
  program and cluster, and the reads. The registry is a parameter (today's holds one deployment);
  its names and groups are unique and its entries consistent, by the named ASSUME.
- `IntentAccounts` is `buildCanonicalPerpRemainingAccounts`, and the merge of flags in
  `hashExecutionQueueAccountsForCtmEnqueue`. What its loops and sets keep is written with `Selection`:
  the items at the first places of their keys, in order. The code writes down the accounts in front
  twice, for the hash (`HashedMetas`) and for the instruction (`EnqueueKeys`); `SignedAsSeen` would show a
  difference. An oracle has any number of fallbacks, and a token without mint info ends the call.
  SHA-256 is taken to be injective. `SignedAsSeen`
  does not speak of the other hash, of version 5's direct path, which merges nothing.
- `KeeperRedaction` is the redaction of `triggerOrderViews.ts`, forwarded up to twice (bridge and
  client), and the strict view of the harness. A scalar is null, or good or bad for its field; null
  stands for a reason or a sequence as well as its absence does, and nowhere else. A JSON value is a function from its paths to what
  stands at them, so that the recursion of the code over a value is a condition on paths, and a
  statement about values of any depth needs no induction.

Run `Client` (1,397,596 states): two fee calls, two accounts, two addresses and amounts around the
rounding limit; two calls of the submission helpers with two numbers to pick, which are alike
(`MCSymmetry`), up to three executions against a replay cache of one, three slots and a lifetime of
one; streams of at most three lines out of eight kinds; two deployments on two clusters with a third
and a fourth group; two token slots, three tokens and any one of them without mint info, two markets,
three oracles with no fallback, one or two of their own, every assignment; trees of depth 4. Three
executions are a first one, one that makes the cache forget it, and a repetition. Two calls are a
call and its repetition; three lines are a field, a second one and the blank line after, and the
text may end in the middle of each; the groups include one that shares a program with a registered
one and one that is elsewhere. The parts end, hence `CHECK_DEADLOCK FALSE`.

## 11. What is proved, and what is only checked

Each proof module states an inductive invariant (defined beside the properties; TLC finds no state
of the runs that breaks it, if it is added to their invariants), proves that the initial states
satisfy it and that each action preserves it, one lemma per action, and derives the properties.
Type correctness is part of each, so it is proved and the runs do not check it again. Theorems that
no run repeats (`LockExcludes`, `AtMostOnce`, `InOrder`, `NoLostWakeUp`, `AllTracked`, ...) say parts
of what a stronger property of a run says, or what it rests on.

- `SmokeJournalProofs`: for any number of invocations and signatures. `IInv` relates the memory
  of the invocation that holds the lock to every version of the receipt a power failure may
  leave (`Keeps`), and says where in `submitSmokeOnce` the last record stands. From it: types,
  `OneRunner`, `SentIsDurable`, `SentOnce`, `ConfirmedIsTrue`, `EarlierResolved`, `AppendOnly`.
  `PromiseInv` adds what `IInv` does not say: a transaction that the network knows was sent; a
  signed record's signature carries the record's action; of the submissions the visible receipt
  holds at most one is not durable yet; and what an invocation has in memory beyond the receipt is
  the one submission it is about. With both, every step is a step of `SubmitOnce` or a stutter
  (`PromiseKept`: a sync, a write-back or a power failure journals at most one submission, a send
  hands one over, a confirmation is one success), and `CompleteIsTrue` follows (`CompleteTruth`).
- `SseSubscriptionProofs`, `TickSubscriptionProofs`: for any number of frames, calls and any chunk
  size. `IInv` says that what was handed over, followed by the queue (and the chunk being pumped), is
  what came, in order; the proofs rest on the lemmas of `AsyncQueueProofs`. Both subscriptions are
  proved to implement `FrameChannel`.
- `QuoterProofs`: for any number of calls and quotes, assuming `Patient`. Only one loop is active,
  and while a submission is open the quote before it is off the market or was lost.
- `DeferredQueueProofs`: for any number of epochs and any bound. `IInv` says what the program keeps
  (`QueueInv`: epochs in order, linked from the head to the tail), what the caller's snapshot is
  (`SnapshotInv`), and that the walk stands at the batch after the ones it collected (`WalkInv`),
  which stays true when batches are funded behind it and appended before it.
- `ShareVaultProofs`: for every scale, width and fee rate. `IInv` adds to the types that the
  batch passed `batchPayout`, that what was paid is at most the net price of what was claimed in
  all (the price is superadditive), and that it lags behind the exact price by at most two units
  for each claim. From it: `ClaimsCovered`, `EveryClaimPays`, `DustIsBounded`. `PriceNeverFalls`
  and `RecoveryIsFair` are step properties, proved by multiplying out the two ratios; `RoundTrip`
  needs only the types.
- `ClientProofs`: the parts of sections 9 and 10, and trigger orders, for any number of calls,
  accounts, recoveries, orders, deployments, prices, streams and answers.
  - `CacheInv`: an entry, and an answer about to be entered, is true but for missed markets, and
    what a call did not ask for is remembered. `RecoveryInv`: the values the sidecar ever had are told
    apart by what the client compares. `NoticeInv`: the seconds until the request is priced are at most
    those the change still waits.
  - `FeeInv`: every report is the report of a confirmed call. `SubmitInv`: an intent carries the replay
    number of its call, a direct expiry is at most `Lifetime` slots after it was sent, and executions
    of one number on one path are more than `Window` apart. `ContextInv`:
    what is resolved at each stage of `createFermiV1Context`.
  - `TriggerInv`: what was sent, and what the keeper holds, has a signature of the user over exactly
    its terms, and the legs of one build are exclusive if the price was known.
  - `KeeperClean`, `KeeperHidesNoLeg`: one redaction leaves, of the paths of a value, those under no
    forbidden key and, where a leg stands, the fields of its view; so a second one finds nothing to do.
  - `AccountsInv`: the inputs have their types, and the list is unbuilt or the canonical one of them.
    The proof counts places: a key of a list without repetition stands once before the selection and
    once after it, and two lists with no key in common keep that when one is put behind the other.
  - `ParserInv`: the decoder, the line buffer, the unfinished frame and the frames are what the tokens
    pushed so far leave unfinished and mean (`Means`). `TakeCharMeans` is one character more: a
    character of a line changes only the open line; a line feed after a line with a field extends the
    open block; one after an empty line closes the block and appends its frame (`FramesGrow`). The
    reference, which is defined on the whole text, is shown to change in the same way, by what it
    selects (`SelectedGrows`). `DecodedIs` and `TakeCharsMean` carry that over a chunk.

What a fold computes is proved without the library's induction theorems, which take an operator that
no installed prover can instantiate. A fold is a recursive function; that it exists (`LoopOf`,
`LoopRuns`) and what holds along it (`StaysIn`) follow from the least number at which it would fail,
by `NatLessThanWellFounded` and `WFMin`, and a family of conditions is given as a function of sets
where an operator would be needed. `Selection` has its lemmas from the same argument: a set of places
has one enumeration in order (`EnumerationExists`, `InOrderOf`), and one more place at the end extends
it (`EnumerationGrows`).

Assumptions of the proofs are the named ASSUMEs of the modules, and `Patient` where it is stated.

Only model-checked: the liveness properties (`RunnerEnds`, `EndReleases`), which need ENABLED. Every
invariant and every step property of a passing run is a theorem.

## 12. What is not modelled, and why

- In the smoke runner: amounts, caps, fees, transaction sizes, program hashes and vault identity.
  They only ever stop a run, and `StopsEarly` may stop it for no reason. `after` snapshots and
  balances are labels that no decision reads.
- In `streams.ts`: URLs, headers, `JSON.parse`; the one-shot snapshot request.
- In the quoter: prices and sizes, and the price cache.
- In trigger orders: integer ranges, id formats, sizes, the bytes of a payload but for one flag, the
  signature of a cancel.
- In the vault client: instruction layouts, account codecs, event parsing, derived addresses. They
  keep no state and take one value to one value.
- In the arithmetic: the conversion of pre-deposits at graduation, which the program fixes at NAV_mid
  (`docs/flp.md:115`); the SDK has no function for it.
- In fees: a record of transfers that were not credited, which the SDK does not keep. A report that is
  lost for good leaves its transfer without a credit.
- In intents: byte layouts and discriminators; the account hash of version 5's direct path; the unary gRPC call has no deadline, and no fairness
  of the relayer could be justified.
- The state client `harness.ts`: stateless HTTP reads that map errors to types; no decision depends
  on an earlier call. (Its `resolutionSec` is looked up exactly and falls back to one minute at
  lines 595-610, where the comment at 586-588 says "nearest": a difference of documentation with no
  state behind it.)
- Keypair loading, the API key's format, the decoding of accounts; the one-shot tools in `bin/`.
- `idl/fermi_v1.ts` and the other IDLs, exports and build scripts are generated data. That one file
  is more than half of the repository's lines of TypeScript, so a share of all lines says little
  of how much of the logic is covered.

## 13. What could follow

1. Field widths of intents and payloads against the program's layouts.
2. Theorems of the liveness properties, with a prover that handles ENABLED.
