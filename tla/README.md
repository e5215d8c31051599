# Verification of allora-sdk-py

TLA+ models of the Allora Python SDK (`src/src/allora_sdk`), the TLC runs that
check them on small instances, and TLAPS proofs of what matters most for every
instance. `PROJECT.json` ties every definition to the lines it models, every
run to the properties it checks, and every property to a plausible bug of the
code that would break it.

## The system

The SDK is a single asyncio process (the event loop of the caller). What makes
it hard is the interleaving of its tasks at their awaits, and the services it
depends on: a Cosmos chain behind load-balanced RPC nodes, and a CometBFT
websocket. Nothing is persisted; a restart is a new process with the same key,
which matters where the chain or the server replays what the old one did
(`RewardDelegation`).

| component | source | state | operations | what makes it correct |
|---|---|---|---|---|
| transaction submission | `rpc_client/tx_manager.py` | per `PendingTx`: future, attempt, last hash, same-sequence flag; locals of its task: next account sequence; `_inflight` | `submit_transaction`, the detached `_attempt_submissions` with its seven handlers, `wait`, `close` | an operation executes at most once; a response means it executed; a failure is final where it can be known; the future always resolves, also around `close`; no attempt after the deadline |
| gas and fees | `rpc_client/tx_manager.py` | gas limit, last gas limit, fee multiplier per task; gas price cache shared by all | simulation, fee preview, price and congestion queries, the escalation of each handler | limits climb, the cap holds, retries are priced afresh, the ladder ends |
| websocket events | `rpc_client/client_websocket_events.py` | subscriptions with query and active flag, callbacks, the socket, the loop's task, dedupe keys | `subscribe*`, `unsubscribe`, `start`, `stop`, the event loop with reconnect, heartbeat and watchdog, dispatch with typing and deduplication | flags agree with the server; held subscriptions come back after every fault; no pushed event is dropped; the watchdog spares live connections |
| worker: submission | `worker/worker.py` | submit lock, `submitted_nonces` | polling, window events, `_maybe_submit`, the hold timeout | an answered nonce is not sent again; sequential topics never jump an open nonce; sequences handed out are fresh; every eligible nonce is answered |
| worker: life | `worker/worker.py`, `context.py` | startup flags, init lock, detached retry, context, queue, subscription ids | `run`, `_ensure_initialized`, `_run_startup_steps_once`, `stop`, `_cleanup` | nothing outlives a run; a run owns the worker; startup steps are retried |
| use cases | `worker/inferer.py`, `forecaster.py`, `reputer.py`, `utils.py` | the sanity check's cache, the ground-truth cache, the stake on the chain | `initialize`, `submit`, stake top-up | the losses of a bundle rest on one reading of the truth; the stake is topped up exactly |
| autostake | `worker/autostake.py` | key of the last reward processed | reward-settled handler | a reward is delegated once more only for a late replay, none is dropped, the reserve stays |
| RPC client | `rpc_client/client.py`, `config.py` | the gRPC channel with its connection, the cleanup task | construction, reconnect every 30 min with draining, `close` | no connection is left open; closing leaves nobody waiting |
| nonce set | `utils/timestamp_ordered_set.py` | items with timestamps | add, prune | an open nonce is never pruned |
| conversions | `rpc_client/dec_canonical.py`, `event_utils.py`, `utils/format.py` | none | canonical decimals, typed events, formatting | the text reads back as the number; an event that cannot be decoded loses no other |
| loss methods | `loss_methods/*` | none | real-valued functions | out of reach of TLC |
| HTTP API client, wrappers, wallet, tools | `api_client/*`, `rpc_client/client_*.py`, `wallet.py`, `tools/*` | none | request and decode | stateless; the wrappers the workers call are part of `Payloads` |

How they interact: a worker's polling task and its window-event callbacks both
reach `_maybe_submit`, which calls the use case's `submit`, which calls
`TxManager.submit_transaction` and awaits the `PendingTx`; the callbacks run
inside the subscriber's event loop; a rewards event reaches autostake, which
submits a transaction of its own. All submissions of one key share the chain
account's sequence, the price cache and the `_inflight` set; all workers of one
key share the submit lock; reputers may share a ground-truth cache.

## The modules

| module | what it is |
|---|---|
| `TxSubmission` | the submission task of every operation of a set `Ops`, against one chain account |
| `SubmitContract` | what `submit_transaction` promises, without attempts, sequences or nodes |
| `TxImplementsContract` | the mapping from the first to the second |
| `ClientShutdown` | the life of submissions, their waiters, `close()` and the gRPC connections |
| `FeeLadder` | gas limits and fees over the attempts, and the shared price cache |
| `EventSubscriber` | the websocket subscriber and its server |
| `EventDecoding` | from event attributes to a typed event and a reward, as operators |
| `RewardDelegation` | frames, deduplication and concurrent callbacks, up to the delegations |
| `WorkerNonces` | the submission cycles of all workers under one lock |
| `WorkerLifecycle` | one worker object: startup, runs, stop and cleanup |
| `CanonicalDec` | the two forms of a canonical decimal and their reader, as operators |
| `Payloads` | what each use case computes and sends for a nonce, registration and stake |
| `MC*` | model-checking instances of the module they are named after |
| `*Proofs` | proofs about the module they are named after; `TxSubmissionProofs` also about the mapping to `SubmitContract` |

`Payloads` composes `CanonicalDec` with the use cases, `RewardDelegation`
composes `EventDecoding` with dispatch and autostake. The levels above
`TxSubmission` take a transaction as what `SubmitContract` allows: it is
included or not, is answered or times out, and may land after it was given up.

**The unit of interleaving.** asyncio switches tasks only where an await really
suspends. An action is the code between two such awaits, with everything it
calls. Taking a free `asyncio.Lock` does not suspend, so a critical section
without awaits belongs to the action around it.

**TxSubmission.** `pc[p]` names the await at which the task of operation `p` is
suspended: `preflight`, `build` (fee and account queries), `sent` (the
broadcast call), `wait` (`wait_for_tx`), `timeoutCheck` and `asmCheck` (the
confirm-landed query of the two handlers), `asmGrace` (one check of the grace
window), `delay` (the sequence retry delay). Attempt `a` of `p` *is* the
transaction `<<p, a>>`: every retry scales the gas limit, so it has another hash
(`FeeLadder!GasGrows` checks of every broadcast that it carries more than the
one before). The chain is external: `CheckTx`
on any node, `Include` in a block, eviction, a stranger signing with the same
key. A node's check state is the first sequence its mempool leaves free from the
committed one on. `Faults` selects what the environment may do:

- `slow`: inclusion may outlast the 30 s of `wait_for_tx`;
- `flaky`: an RPC fails, passes its deadline, or misses a landed transaction;
- `lag`: nodes behind the load balancer are behind with the account sequence;
- `ante`: a block carries a transaction whose ante handler fails, which executes
  nothing and consumes no sequence.

The history variable `abandoned[p]` records that the task moved off the
sequence of the last transaction it sent although that one had not failed and
consumed it: the one thing after which a second execution cannot be ruled out.

**ClientShutdown.** `stage`, `task` and `future` follow a submission from
`submit_transaction` to the end of its task, `waiter` the callers of `wait()`,
which share the future itself, `inflight` the manager's set, with the done
callback that discards from it as a step of its own. `closer` and `snapshot`
are the locals of each `close()`: stopping the subscriber, cancelling what was
in flight, gathering it, then resolving futures, forgetting the set and closing
the channel in one step. `close()` may itself be cancelled at its awaits
(`CloseCancelled`); at the gather it cancels the tasks once more, waits for them
(`Unwound`) and resolves nothing: `Orphaned` are the futures that leaves
pending. `conn` is the connection of the channel, `draining`
those left to a cleanup task, `call` the connection a task's RPC is on. What
the tasks do between their calls is `TxSubmission`.

**FeeLadder.** Factors are in tenths, gas in units of 10000 in the instances;
`int()` is the floor. Prices are named by the epoch of the market they were read
in, so that "refreshed" can be said. Each query of the price (`QueryPrice` to
`PriceArrives`) is split, because the cache is shared; the confirm-landed
queries touch neither gas nor price and belong to their handler's action. What
lands, and how it fails, is bounded only by the gas the operation needs.

**EventSubscriber.** `loop` says where the event loop is; `toSend` is the rest
of `_connect`'s snapshot, sent one by one while callers subscribe and
unsubscribe. The server handles requests in the order they are sent; `inbox` is
what it has pushed and the loop has not read. It knows a subscription by its
query and refuses duplicates and what exceeds its cap. Faults: a failing
connect, a broken connection, and a server that stops pushing (`deaf`). Of a
block-event subscription only whether it is sent on a live connection differs
from a generic one (`Generic`).

**EventDecoding, RewardDelegation.** A text is what it spells (an integer, a
decimal, a word, a list, or any of these in quotes); decoding is modelled by
what it does to each, not as the identity, since the keys of deduplication and
the amounts depend on it. `Deliver` is the dispatch of a frame to all callbacks
up to their first await; `stage[s]` is the callback for settlement `s` from
there (`balance`, `sent`). `recent` is the subscription's deduplication cache
with its times, `last` the handler's key of the last reward. The server may
push a frame again, the wallet pays fees in between, a delegation may fail,
time out and land later, the process may resubscribe or start again. Two caches
stand against replays, and `Expected(b)` is what they cover: a frame within its
deduplication time, or the last frame that led to a delegation, if one reward in
it is ours. Any other push of a frame again is late, and `late[b]` counts them;
`limbo[s]` counts the delegations given up that may still land.

**WorkerNonces.** A caller is a worker's guarded `initialize`, its poller or its
window-event callback; `line` is `_submit_lock` with those waiting for it.
`caller[c].at` names the await of the cycle. `gap` is how far the sequence a
cycle is about to hand out lies from the account's, and `excused` that something
the lock does not exclude has happened to it (see the property). An error that
the use case's `submit` returns is remembered with its nonce (`Fail`); an
exception it raises, as an inferer does of a prediction that is no number, is
only logged, and the next cycle tries again (`Raise`). `Windows[w]` is how many
nonces a worker's topic opens. The chain opens
and closes windows in order and keeps one bundle per reputer, which a close reads
and wipes: this is why reputers are sequential. The inclusion of a transaction
is a step of its own, after which its result is known.

**WorkerLifecycle.** Processes are the calls of `run()`, their pollers and a
window-event callback; retry tasks are numbered as they are created. `at` names
the await: the init lock, the essential queries, a startup step, the use case's
`initialize`, a subscribe, the result loop, or a stage of `_cleanup`. Every
process may be cancelled, time out or fail at each of them, within
`MaxFaults`. `leaked` records subscriptions a run stored but was interrupted
before it knew their id. `_cleanup` may be cancelled as well: its `except
Exception` does not catch that, so amid the unsubscribes or the wait for the
tasks it ends there (`CleanupCancelled`) and leaves what it had not come to.
`aborted` records the runs it left a poller and ids of. At its first await, the
retry task it has just cancelled, a cancellation is swallowed, as in the code.

**CanonicalDec, Payloads.** A decimal is its `as_tuple()`; a text is its sign,
the digits before and behind the point, and what follows an `E`. `pc[w]` is the
await of a worker's `initialize` or `submit`: `register`, `stake`, `topup`,
`predict` (user code), `sanity`, `inferences`, `truth` (the user's `gt_fn`),
`sent`. The reading of the ground truth is a key and a revision, and `Loss` any
function of a slot and a reading, so that mixed readings show. A cached truth
makes the whole bundle one step, as in the code. Registration and top-ups that
were given up may still execute.

## The runs

| run | instance | shows |
|---|---|---|
| `TxRetryOneOp` | 1 operation, 2 retries, 2 grace checks, deadline, delay, 1 stranger, all faults | `AtMostOnceUnlessAbandoned`, `SuccessIsExecuted`, `NoRetryPastDeadline`, `EveryFutureResolves`, and `ImplementsContract` |
| `TxRetryPrompt` | 2 operations, 1 retry, 1 stranger, `lag` only | `NoDoubleExecution`, `FailureIsFinal`: without slow inclusion and lying queries, competition alone does no harm |
| `TxDoubleExecution` | 1 operation, 2 retries, `slow` only | **violated**: `NoDoubleExecution` |
| `FeeLadder` | 1 submission, 2 retries, moving price, two congestion levels, gas needs inside the first bid, inside the ladder and beyond it | `GasGrows`, `FeeWithinCap`, `HeadroomKept`, `RetryUsesRefreshedPrice`, `LadderEnds` |
| `FeeStalePrice` | 2 submissions sharing the cache | **violated**: `RetryUsesRefreshedPrice` |
| `EventSubscriber` | 1 block-event and 1 generic subscription, heartbeat, cap 2, 2 faults, 1 event | `AgreementAtRest`, `NoEventDropped`, `WatchdogOnlyWhenDeaf`, `HeldBecomesActive` |
| `RewardDelegation` | 2 blocks, 5 settlements of which 3 are ours, 2 replays at any time, 3 faults, 1 fee | `OnceUnlessLate`, `ReserveKept`, `NoRewardDropped` |
| `WorkerNonces` | a reputer (run, poller, event) and an inferer (poller) under one lock, 2 and 3 nonces, 2 per cycle, 1 event, 1 fault | `NoBundleLost`, `NeverResubmitted`, `HandedSequenceFresh`, `OpenNoncesAnswered` |
| `WorkerLifecycle` | 2 runs one after the other, 2 startup steps, 2 subscriptions, 4 faults, 1 event | `NothingOutlivesRuns`, `RunOwnsWorker`, `StepsAreRetried` |
| `WorkerRetryOutlives` | the same | **violated**: `RetryEndsWithWorker` |
| `Payloads` | 2 reputers of two accounts with one cache, an inferer, a forecaster, 2 nonces, 2 submissions, 1 revision, 2 faults | `OneTruthPerBundle`, `CanonicalText`, `TopUpExact` |
| `ClientShutdown` | 2 submissions, a waiter for each, 2 calls of `close`, 2 connections, 1 fault | `ClosedIsQuiet`, `ConnectionsEnd`, `WaitersAnswered` |

Deadlock checking is off in every run: the system rests when every operation is
answered and nobody calls.

**Bounds.** Two retries are the default of `submit_transaction` and reach every
pair of handlers in sequence: a timeout, the rejection of its rebroadcast, and
the attempt after it. One grace check fewer than the code's three changes no
handler; `TxDoubleExecution` has three. One stranger suffices to consume a
sequence under the task. In `FeeLadder` gas needs of 15, 25 and 300 (in units of
10000, the static default 10) lie within the first bid, within the ladder above
an estimate for 15, and beyond what the fee cap pays for, the ante limit 14 above
the first default bid; the fee cap 400 cuts the ladder at the high price or
congestion. In `EventSubscriber` a cap of two with three queries makes every
order of arrival refuse another one; two faults allow a fault during the
reconnect after the first. In `RewardDelegation` one frame carries two rewards of
ours and one of another topic, another frame one of ours and one of the same
amount for another role; the clock runs past the deduplication time, and three
faults allow a failed delegation, a restart and a second failure; two replays,
pushed whenever the server likes, are enough for a settlement to be delegated
three times, and `OnceUnlessLate` counts them. In `WorkerNonces` the reputer's
two windows make an older and a newer nonce; the inferer has three nonces open
at once and takes two in a cycle (`MaxUnfulfilled`), so its oldest is crowded
out of the first ones; one fault is any single hang, raise, timeout, abandoned
transaction, autostake or stop between all others' steps (the proofs lift these
bounds). In `WorkerLifecycle` four faults let a run that was interrupted amid a
subscribe, or whose cleanup was cancelled, be followed by one that is cancelled
in its startup or yields beside the poller that was left. In `Payloads` two submissions are two reputers for one
nonce, one for two, or a retry; the losses of the instance take every form of
the text, and one that is infinite. In `ClientShutdown` the second connection
replaces the first, while the first drains or is broken, and the one fault may
be the cancellation of either `close` at any of its awaits.

**Fairness.** `WF` of a task's own steps: every await ends. gRPC calls have a
deadline (`query_timeout_secs`), `wait_for_tx` 30 s, the grace window and the
delay are bounded sleeps, user code is cut by `submit_hold_timeout_secs`.
Nothing is assumed of the chain: a transaction may stay in the mempool for ever.
`WF` of the event loop: `recv` has a timeout, the watchdog a limit, and a failed
connect is repeated after `reconnect_delay`; callbacks are assumed to return,
and so is a call to `unsubscribe` or `stop` that has begun. In `WorkerNonces`
whoever holds the lock moves on, and a poller polls again. In `ClientShutdown`
a task that is again and again between its calls ends (`SF`): a submission makes
a bounded number of calls. Nothing is assumed of callers, nor of
faults, whose number `MaxFaults` bounds.

### What the violated runs found

- `TxDoubleExecution`: an unconfirmed transaction that merely *waits* in the
  mempool makes CheckTx reject its same-sequence rebroadcast. The handler takes
  that for proof that it landed, checks three times, and, not finding it, fetches
  a fresh sequence. If the original is included just before, the operation
  executes twice. The code names a residual risk under "indexer lag"; no lag is
  needed.
- `FeeStalePrice`: an answer to a price query is cached even when the cache has
  been invalidated since the query was sent.
- `WorkerRetryOutlives`: `run()` clears `_shutting_down` before initialization,
  which no cleanup covers; when it is cancelled there, the callback of a
  subscription an earlier run left behind starts a retry that belongs to no run.

### Observations

What reading and modelling the code showed besides; each is in the model as the
code has it, or excluded by a named assumption.

- The first retry after an insufficient-fees rejection replaces the tier's
  multiplier (1.5) by 1.0 and may bid less than what was just rejected
  (`tx_manager.py:567`, `682-683`).
- `subscribe()` does not send its request on a live connection; only the next
  reconnect does (`Generic`). Conditions on list-valued fields never match.
- A delegation is sent outside `_submit_lock` and can take a sequence a cycle
  was about to hand out; `TxManager` retries the mismatch (`excused`).
- A frame pushed again after the deduplication time, a new subscription or a
  restart is delegated a second time when another reward has been delegated
  since, when it carries two of ours, or when the process is new, although
  `autostake.py:20-21` is meant "to deduplicate EventRewardsSettled handling
  across WebSocket replays and avoid double delegation". `OnceUnlessLate` allows
  one delegation for each such push, and no other.
- Several overlapping calls of `run()` on one object (`Overlap = TRUE`): the
  second is refused only after it has cleared `_shutting_down`.
- A run that ends amid a subscribe leaves the subscription with the websocket
  subscriber (`leaked`). A run that times out does not cancel its context.
- A cancellation of `_cleanup` amid the unsubscribes (`worker.py:1159`) leaves
  the poller, which goes on submitting, the ids, the context and the queue; one
  amid the wait for the tasks (1165) the context and the queue. Unless the
  context was cancelled, the next `run()` is refused ("Worker is already
  running") until `stop()` is called; after it, the poller that was left works
  beside that run's and may stop it, and that run's cleanup releases the stale
  ids. `NothingOutlivesRuns` and `RunOwnsWorker` allow exactly this (`aborted`,
  `Abandoned`).
- When `submit_hold_timeout_secs` passes during the stake top-up after a
  submission, the result is lost: the nonce is submitted again and refused as
  already submitted. An abandoned top-up that executes after the next read of
  the stake overshoots the minimum (`late`).
- An error of `gt_fn` or of the inference query is returned and gives the nonce
  up; an inferer's prediction that is no number is raised and tried again in
  every cycle (`Raise`; `MaxFaults` bounds how often, as for a function that
  hangs, for a nonce that raises every time is never answered). Reputers of different accounts may call a shared `gt_fn` more
  than once for an epoch, against `utils.py:110`.
- A submission that registers between `TxManager.close()`'s snapshot and its
  `_inflight.clear()` loses its strong reference and outlives the manager, and
  no second `close()` sees it; no property excludes it (`ClosedIsQuiet` is about
  what a `close()` saw). A `close()` that is cancelled while it gathers leaves
  futures unresolved, and whoever waits for one waits on: the one exception
  `WaitersAnswered` makes (`Orphaned`). A call during or after `close()` opens a connection
  that nobody closes. One waiter's cancellation cancels every other waiter.
- `WorkerNotWhitelistedError` is never raised. The faucet step calls `sys.exit`
  on a 429.

## The proofs

Every type invariant, safety invariant and action property of the passing runs,
and the refinement, is a theorem. Some theorems have a hypothesis, which is part
of their statement: what the property rests on in the code or in its
environment. Each is met by the run that checks the property, and most are
necessary: a violated run or an observation above shows what happens without.

| hypothesis | of | says | without it |
|---|---|---|---|
| `Prompt` | `FailuresFinal`, `ExecutedOnce` | inclusion does not outlast the wait, queries tell the truth | `TxDoubleExecution` |
| one submission | `PriceRefreshed` | nobody shares the price cache | `FeeStalePrice` |
| `Heartbeat` | `WatchdogJustified` | the heartbeat subscription is on | a quiet connection looks dead |
| `Distinct` | `FlagsAgree`, `EventsDelivered` | no two subscriptions have one query | unsubscribing one ends both |
| `Decoded` | `RewardsKept` | our events are read as they are; `EventsDecoded` derives it from how the chain writes them | an unread reward |
| `NoncesDiffer` | `RewardsKept` | the chain settles a topic and role once per nonce | equal rewards of one nonce have one key |
| `NotOverstated` | `ReserveHeld` | no event tells of more than is paid; follows from `Decoded` | the difference comes from the wallet |
| `~Overlap` | `WorkerLifecycleProofs` | one call of `run()` at a time | observations |

`TxSubmissionProofs!TypeCorrect`: `Spec => []TypeOK`, for any finite or infinite
set of operations and any `MaxRetries`, `GraceChecks`, `MaxForeign` and `Faults`
(assumption `ConstantsAssumption`). Type correctness is not inductive alone:
`Continue` increments the attempt, and from `delay` it does so without looking
at it; `DelayInv` says that the loop sleeps only when a retry is left.

`TxSubmissionProofs!AtMostOnce`: `Spec => []AtMostOnceUnlessAbandoned`. The
inductive invariant `IInv` adds to the type invariant

- `ChainInv`: a sequence below the committed one was consumed by at most one
  transaction, and only sequences below it were consumed;
- `LoopInv`: which attempts have been sent, by the place of the loop;
- `SeqInv`: until the operation is abandoned, all its *live* transactions (those
  that have executed or still can) carry one sequence, and from each place of
  the loop the next attempt will be signed with that sequence, or none is live.

Two executed attempts then carry the same sequence, and `ChainInv` makes them
one. That the next attempt keeps the sequence after a timeout, and that a fresh
one is taken only when nothing is live or the operation is marked as abandoned,
is what every handler has to establish; the chain's steps only take
possibilities away (`ShrinkKeeps`).

`TxSubmissionProofs!SuccessTruthful`: `Spec => []SuccessIsExecuted`. Every handler
either leaves the future alone or resolves it (`Answering`), and resolves it to
a response only when the transaction at `last_tx_hash` has landed with code 0;
in `wait` that transaction is the attempt's own by `LoopInv`. What has executed
stays executed, and a resolved task takes no step.

`TxSubmissionProofs!Refinement`: `Spec => ImplementsContract`, the refinement of
`SubmitContract` with `executions` mapped to the attempts that landed with code
0, `doubtful` to `abandoned` and `answer` to `outcome`. A block is `Execute` or a
stutter, and `Execute` is allowed because `AtMostOnceUnlessAbandoned` holds
after it as well; a step of a task or its caller is an answer, a doubt, both, or
a stutter.

`TxSubmissionProofs!DeadlineRespected`: `Spec => NoRetryPastDeadline`. A handler
that goes on to another attempt has looked at the deadline in the same step
(`RetriesLook`), or was asleep in the sequence retry delay, which the deadline
cuts.

`TxSubmissionProofs!FailuresFinal`, `ExecutedOnce`: `Prompt => (Spec => []...)`
of `FailureIsFinal` and `NoDoubleExecution`. `PromptInv` says that all attempts
but the current one are dead (not executed, and not to be), and the current one
too wherever the loop decides to go on or to fail. A rejected broadcast was
never in a mempool, one that was waited for without success has left it, and a
landed one was found; strangers and lagging nodes only take sequences away.

`FeeLadderProofs!TypeCorrect`, `FeesCapped`, `HeadroomHeld`, `LimitsGrow`,
`PriceRefreshed`: for any number of submissions and retries, any prices of any
epochs, gas needs and caps (assumption `LadderAssumption`: estimates are at least
10, the grain below which a factor in tenths is lost in the floor of `int()`).
The submissions meet only in the price cache, so the invariant is one of each:

- `StartInv`, `BaseInv`: from the simulation on, no handler's base is below the
  first estimate;
- `LastInv`: the limit is the one last accepted, or up to a fifth more (the
  timeout and mismatch handlers seed it so after a landed out-of-gas), which is
  why the escalation of 1.3 or more from either base exceeds what was sent;
- `NextInv`: what was sent is below the next limit, by the place of the loop;
- `FeeInv`: what is sent is what the cap was checked for, after the last await
  at which a fee could change.

`TimesMono` and `TimesGrows` are what they need of multiplication and floor. For
`PriceRefreshed`, `FreshInv` follows the epoch of the cached price, of the one in
flight and of the fee of a lone submission.

`EventSubscriberProofs!TypeCorrect`, `WatchdogJustified`, `FlagsAgree`,
`EventsDelivered`: for any subscriptions, cap, faults and events (assumption
`SubscriberAssumption`). `Known` says that what is to be sent, what the server
has registered and what is on its way belongs to subscriptions that were made,
and that on an open connection the heartbeat is registered: it is asked for
first, and nobody revokes it. `Settled(s)`, for a subscription that is held and
is not being dropped, is the heart of it: at most one reply to it is on its way;
while one is, the flag is down and the reply says whether the server pushes for
it; when none is, the flag says so itself; an event on its way has an active flag
or its confirmation before it; and what is still to be sent has neither.
A disconnect voids it all and the next connect starts from an empty inbox with
all flags down; `Distinct` keeps the reply and the revocation for one
subscription from being those for another.

`ClientShutdownProofs!TypeCorrect`, `CloseIsQuiet`, `CloseLeavesNone`: for any
set of submissions, callers of `wait` and `close`, and connections. `TypeOK`,
`ClosedIsQuiet` and `ConnectionsEnd` are inductive only together with
`FutureInv` (how a future relates to the stage of its submission and its
waiters), `QuietInv` (what a `close` that has passed a stage leaves behind: a
submission it did not see was started after its snapshot), `OpenInv` (the
connection in use is neither draining nor gone) and `SettledInv` (what a task
that ended has left).

`WorkerNoncesProofs!TypeCorrect`, `BundlesAreCounted`, `AnswersAreFinal`,
`SequencesAreFresh`: for any workers, callers, windows, events and faults
(assumption `WorkerAssumption`). The inductive invariant `IInv` is

- `LockInv`: the line of the lock holds those who are not idle, each once, and
  only its head is past waiting. The lemmas on `Append` and `RemoveAt` carry it
  through `Join` and `Leave`, also when one is cancelled in the middle of the
  line; `Alone` is what follows;
- `ChainInv`: a reputer's accepted bundle is of the oldest open nonce, and so is
  what may still land of those abandoned, or older;
- `AnswersInv`: what is settled is remembered and open, so that pruning, which
  keeps what is open, cannot forget it;
- `CallerInv`: what a cycle has picked and not handled yet is not settled, of a
  reputer not newer than the oldest open nonce, and its sequence is the
  account's unless the cycle is excused.

That `NeverResubmitted` and `HandedSequenceFresh` survive the awaits of a cycle
is `Alone`: what changes meanwhile is the chain, which opens and closes windows,
and what the lock does not exclude, which excuses.

`RewardDelegationProofs!DelegatedOnce`: `Spec => []OnceUnlessLate`, for any
blocks, settlements, clock and replays (assumptions `RewardAssumption` and
`WireTruthful`: a frame's key says its block and settlement). The inductive
invariant is `IInv`:

- `OnceInv`: what was delegated, what may still land and what is being delegated
  are together at most one more than the late pushes of the frame;
- `PushedInv`, `RecentInv`: what was taken up came with a frame, and within its
  time a frame is remembered whole, with the time it came;
- `ActiveInv`: the callbacks in progress are about `newest`;
- `LastInv`: if only one reward of the newest block is ours, the key that is
  kept is its key, or a late push of it has not led to a delegation.

An expected push then starts nothing that was started before, or uses up what a
late one was allowed (`StartsFresh`); a late push adds to both sides.

`RewardDelegationProofs!TypeCorrect`, `RewardsKept`: `TypeOK` and
`NoRewardDropped`, with any replays. `TakenInv`: a reward above the reserve whose
frame came is being, was, or may never be delegated. Only a first frame can fail
it, and there `FirstFrameDecides` shows that neither deduplication (`Keyed`: what
is remembered is of frames that came) nor the key that is kept (`KeyInv`: it is of
an earlier settlement of ours, so of another nonce) stops the handler.

`RewardDelegationProofs!ReserveHeld`: `FundsInv` accounts for every unit, `balance
+ spent = InitialBalance + ` the sum over the settled blocks of what is left of
each reward, however often it was delegated. A new block adds rewards that
nothing was taken of, a delegation changes one term, and each term of a reward
not delegated twice is at least what is to be kept (`NetKeeps`).
The lemmas on sums (`SumTake`, `SumUnion`, `SumMono`, `SumChange`) rest on
`SumOne`, the unfolding of `SumFunctionOnSet`; as the induction theorems of the
library cannot be used, `SubsetInduction` takes the predicate as a set and a
counterexample of least cardinality.

`RewardDelegationProofs!EventsDecoded`: `Written => Decoded`, attribute by
attribute: quoted or not, the actor left out when it is the default, our reward
at our wallet's place in the two arrays, as a decimal or an integer.

`PayloadsProofs!TypeCorrect`, `TruthPerBundle`, `TextsCanonical`,
`ToppedUpExactly`: for any workers, nonces, network values, losses, predictions
and forecasts (assumptions `PayloadAssumption` and `NumberAssumption`: what is
written is a decimal or not finite, and withheld values are pairs).

- `CanonicalReadsBack` is about one decimal. Its two lemmas follow the two forms:
  in the plain one zeros and the coefficient are concatenated and split at the
  point, and `StripsPadding` takes exactly the padding off again; in the
  scientific one the adjusted exponent makes up for the digits behind the point.
- `SealedInv` lifts it to the model: what is sent is, for a reputer, the bundle
  of one reading of its own key with all losses finite, else texts that read
  back. It needs `CacheInv` (the cache holds a reading of its own key) and
  `Turn` (which worker can be at which await, with which nonce and payload).
- `TopUpInv`: the stake that was waited for plus the top-up on its way does not
  pass the minimum. A top-up that lands late lifts `stake` and `late` alike.

`WorkerLifecycleProofs!TypeCorrect`, `RunsEndClean`, `RunsOwnWorker`:
`~Overlap => (Spec => []...)` of `TypeOK`, `NothingOutlivesRuns` and
`RunOwnsWorker`, for any number of runs, startup steps, subscriptions, retries,
events and faults (assumption `LifecycleAssumption`). The hypothesis is the
run's: two calls of `run()` in progress at once share `ctx`, the queue and the
subscription ids, and the properties fail. The inductive invariant is `IInv`:

- `PlaceInv`, `RunInv`: which awaits a process of each kind can be at; one run at
  a time, and its poller within it unless its cleanup was aborted;
- `LockInv`, `PassInv`: the init lock has one holder, and at most one run or
  retry makes a pass of the startup steps, exactly while the flag says so. It is
  the flag alone that keeps a detached retry and the next poll apart;
- `StartInv`: whatever shows that the first pass was attempted implies that the
  flags of it are set, so no later process makes a first pass of its own;
- `TaskInv`: a live retry is the one on record, so that cancelling that one in
  cleanup leaves none, and `shuttingDown` lets nobody spawn another;
- `OwnInv`, `SubInv`: context, queue, subscription ids on record, subscriptions
  held and those leaked by a cancelled subscribe, by the place of the run; what
  is on record or held beyond that is of a run in `aborted`.

Only model-checked: the liveness properties (`EveryFutureResolves`, `LadderEnds`,
`HeldBecomesActive`, `WaitersAnswered`, `OpenNoncesAnswered`, `StepsAreRetried`),
which are out of TLAPS's reach, as is what a recursive definition computes for
every input.

## Not modelled

- Formatting, logging, the wording and classification of error texts (the models
  start from the class), protobuf encoding and signing. A gRPC wrapper is an await
  that answers, fails or passes its deadline; those the workers use are part of
  `Payloads`, the others only pass their arguments through.
- The loss methods (real-valued), the HTTP client of the Forge API (a request and
  its decoding), wallet, faucet, tools, and the registry of event types that is
  built by reflection: no state that a step could leave wrong.
- Construction and configuration of the client.
- Overlapping calls of `run()` on one worker are in `WorkerLifecycle` but outside
  the checked instance, as documented there.
- The two calls of `_ensure_initialized` of a poll are one, and those at
  `worker.py:840`, `868` and `905` are left out: `run()` has come back from its
  first call by then, so they find the worker initialized, and at most ask for the
  polling interval once more, whose failure is swallowed, and start a detached
  retry, as the poll's call does; a cancellation there is one at the next await.
- A second cancellation of a `close()` that already unwinds, which only cancels
  the tasks again.
- Conditions on attributes other than the topic, and list-valued fields.
- In `WorkerNonces` a node answers the query for open nonces at least as fresh as
  the event that led to it, and a window is shorter than the 24 h of
  `prune_older_than`. A signal is a `Stop` from outside.

## Plan

What is left, in this order: the safety half of the liveness properties, as
invariants with a measure (a submission's attempts, the requests a connect has
still to send); `AgreementAtRest` when subscriptions share a query, for those
that do not; `RunsEndClean` when calls of `run()` overlap; subscriptions with
conditions on attributes.
