# Crossword: a verification development

TLA+ models of Crossword, the sponsor-funded learning rewards system of this
repository, with the TLC runs that check them and the theorems that TLAPS
proves about them. `PROJECT.json` lists the runs, the mutants that show each
property has teeth, the source lines behind every definition, and the hazards
the properties are aimed at.

    tlc -workers 2 -config EscrowPayouts.cfg MCCrosswordCampaigns
    tlapm ClaimLedgerProofs.tla

## 1. The system

Two generations of the product share the repository.

* The **NEAR product** (`contract-v2`, `src/src/server/v2`): a sponsor escrows a
  USDC prize for a puzzle; whoever solves it derives the solution key, signs a
  permit and is paid; an unclaimed prize is refunded.
* The **Base product** (`contract-base`, `src/src/server/base`): a sponsor funds a
  number of fixed rewards for a lesson; an off-chain issuer attests who completed
  it; the contract pays each attested claim once.

| component | state | operations | talks to | hard behaviour | correct when |
|---|---|---|---|---|---|
| NEAR prize escrow, `contract-v2/src/lib.rs` | campaigns, authorizations, pending allocations, spent references, total reserved | direct and external funding, revoke, clean up, activate, claim, cancel, expire, retry, three callbacks | the USDC contract by promises and callbacks; relayed by the worker | receipts of many actors between a call and its callback; failed transfers; clocks | each prize leaves once, for a permitted receiver or the refund account; reserves are accounted for and covered |
| Base reward escrow, `contract-base/src/LearningRewards.sol` | campaigns, used slots, paid participants, reserves, balance | create, claim, pause, rotate, cancel, refund | an ERC-20; claims signed by the issuer | conflicting signatures, rotation, donations, deadlines | payments never exceed funding; one reward per slot and participant |
| Base issuer, `base/issuer.ts` | bound campaign, next slot, allocations, authorizations | bind, issue | finalized chain state, eligibility, a signer, Postgres | a call is five awaits and two transactions; retries; lost responses; stale reads | slots fit the funding, signatures follow saved rows, one reward per user |
| Publication and review, `base/publication.ts`, `review*.ts`, `layout.ts` | revisions, approvals, layouts, publications | revise, approve, publish, withdraw | the issuer (an unpublished lesson gets no new allocations) | approval racing a revision | what is published is what was approved |
| Chain indexer, `base/chain-indexer.ts` | deployment row with version, blocks, events, snapshots | sync (append or rewind), halt | a Base RPC node | reorganisations between reads, missed logs, broken finality, overlapping syncs | canonical rows are one branch; a healthy ledger equals the contract |
| Reconciled reader, `base/reconciled-chain-reader.ts` | none | read campaign, claim use, receipt | ledger and node | the ledger moves during a read | it returns reconciled state or nothing |
| Gas sponsorship, `base/sponsorship*.ts` | sponsorship rows, recoveries | permit, proxy, reserve, report | paymaster, bundler | answers lost after a reservation; quota races | the budget is never exceeded; a signed operation is never renewed |
| Participants, `base/participant-*.ts` | completions, consents, challenges, eligibility | complete, challenge, verify, recover | wallet verifier, issuer | a challenge verified between two transactions | one use per challenge |
| v2 services, `v2/services.ts` | campaigns, quotes, orders, claims | quote, fund, submit claim, reconcile | ledger, job queue, rails, chain views | races between solvers, crash before an enqueue | one winning claim; the ledger follows the chain |
| Repositories, `v2/repository.ts`, `postgres-repository.ts`, `memory-repository.ts` | campaigns, orders, claims, idempotency records, jobs, events | compare-and-set transitions, idempotent creations, leases, two atomic pairs of writes | services, worker, Postgres | calls of several statements that interleave, locks, unique indexes, connections that fail | a call has the effect and the answer it would have alone |
| Job queue, in the repositories | jobs with leases and attempts | enqueue, lease, complete, reschedule, fail | worker | expired leases, dead workers, lost triggers | no job is leased twice; what is enqueued is done or revived |
| Chain worker, `v2/chain/worker.ts` | none of its own | one handler per job type | ledger, NEAR RPC, One Click | restarts between a transition and a chain call | idempotent effects |
| Paid generation, `v2/x402-ai.ts` | leased idempotency record | generate, settle, record | payment facilitator, AI provider | unknown settlement, expired leases | paid implies delivered or recoverable |
| Rails, `v2/funding/*`, `v2/chain/one-click-payout.ts` | none | quotes, statuses | providers | late or contradictory statuses | terminal statuses only once |
| Request guards, `v2/security.ts`, `auth.ts`, `validation.ts` | rate-limit buckets | authenticate, parse, limit | Postgres | concurrent counters | the limit holds |
| Legacy contract, `contract/` | puzzles | new puzzle, submit | - | retired | - |
| Web application, scripts | browser state | pages, loops, migrations | all services | - | - |

## 2. Modules

| module | role |
|---|---|
| `CrosswordCampaigns` | the NEAR escrow and the USDC contract around it |
| `PrizeEscrow` | abstract specification: what the escrow promises a sponsor and a solver |
| `JobQueue` | the job table: the operators that enqueue, lease, complete, reschedule and fail |
| `FundingLedger` | drafts, funding quotes, orders and the funding handlers of the worker, over `JobQueue` and `CrosswordCampaigns` (it extends both) |
| `ClaimLedger` | claims, refunds and the other handlers of the worker, over the same two |
| `Repository` | abstract specification: the v2 ledger as its callers may see it, each call at one moment (the repository in memory) |
| `PostgresRepository` | the same calls, statement by statement over Postgres |
| `LedgerRows` | the rows and calls that both have in common |
| `PaidGeneration` | the x402 payment and generation of one draft, its record and its facilitator |
| `LearningRewards` | the Base escrow |
| `RewardIssuer` | the issuer, composed with `LearningRewards` (it extends it and interleaves with its actions) |
| `BaseChainIndexer` | the chain, the ledger of the indexer, overlapping syncs and the issuer's reader |
| `GasSponsorship` | permits, proxied paymaster requests, reservations, renewals and reviews of sponsored claims |
| `LessonJourney` | a lesson from draft to withdrawal, and a participant from the wallet proof to the reward |
| `ClaimLedgerProofs`, `FundingLedgerProofs`, `PostgresRepositoryProofs`, `RewardIssuerProofs`, `PaidGenerationProofs`, `GasSponsorshipProofs`, `LessonJourneyProofs`, `BaseChainIndexerProofs` | theorems and proofs about the module of that name; those about `CrosswordCampaigns` come first in `ClaimLedgerProofs`, and those about `LearningRewards` in `RewardIssuerProofs`, since the one module extends the other |
| `MC...` | instances for TLC |

The NEAR product is modelled end to end: `FundingLedger` hands a campaign to
`ClaimLedger` when its prize is in escrow and its lifecycle job is enqueued, and
both run over the contract of `CrosswordCampaigns` itself. On the Base side
`LessonJourney` stops where an eligibility is earned and `RewardIssuer` starts
with it; `BaseChainIndexer` justifies the finalized snapshots that `RewardIssuer`
reads; `GasSponsorship` starts from an allocation that `RewardIssuer` made.

### CrosswordCampaigns

A NEAR receipt executes atomically, so every contract method and every callback
is one action, with the panics and error returns as guards. Promises are sets:
`queries` (`ft_balance_of`), `payouts` (`ft_transfer`) and `inbound`
(`ft_transfer_call`) hold what has been sent and not yet been answered, and any
other action may run in between. The token contract is external; `vault` is the
escrow's balance there, `disbursed` the history of the transfers it executed.
`permits` are the signatures that exist anywhere: a permit is over a nonce its
signer has read, and may be relayed by anyone, late, and more than once.

`ft_resolve_transfer` takes back what a rejected transfer brought, if the escrow
still has it. An exact retry of an authorization changes nothing and is a
stuttering step. A panic leaves the state as it was: it is a disabled action.

Not modelled: views and logs, NEAR storage deposits and their refund, formats
and lengths of ids, the hash of the content, the payout digest (a permit binds
the receiver, and the digest is opaque to the contract), 128-bit overflow.

### PrizeEscrow and the refinement

`PrizeEscrow` knows neither promises nor retries: a prize is held once, receivers
are endorsed, and the prize leaves once, for an endorsed receiver or the refund
account. The mapping reads a campaign's abstract state off the transfers that
were executed, not off its status: the prize has left when the token contract
moved it, although the campaign says `Claiming` until the callback. Claims that
fail, retried refunds and callbacks are stuttering steps. `exits`, the number of
transfers for a campaign, keeps the abstract state from hiding a second one.

### LearningRewards

One action per external method; Solidity's reverts and OpenZeppelin's guard make
each one atomic. A signature is the pair of a signer and a claim, and the signers
sign anything, conflicting claims included: the contract's promises must not
depend on the issuer. The checked subtractions are guards. `retired` is a history: the
authorities (campaign, signer and epoch) that were in force until a rotation took
them away. `RotationRevokes` says that nothing signed under one of them is paid
any more. It is the epoch that makes it true, since the contract lets a sponsor
rotate to the signer that is there already, or back to an earlier one: without
`signerEpoch += 1` the old claims would be good again.
The run has two epochs, enough for a rotation to the same signer; that it holds through any number
of rotations and returns is proved.

### RewardIssuer

`issue` becomes the steps `LoadIssue` (load, first chain read, verification),
`Reserve` (the first transaction), `Sign`, `Recheck` (second chain read) and
`Save` (the second transaction). `EndCall` ends a call at every point: a failed
check, a timeout of `bounded`, a crash, a lost response. A finalized block is a
snapshot of the campaign taken by `Finalize`; a read may return any of them that
is recent enough for `freshState`. The second look, `Recheck`, only decides whether the
user gets an answer: what `Sign` made before it is in `signatures`, and if a rotation
came in between the contract refuses it (`SignedInForce`, a part of `IssuerSafe`: each
signature is of the authority in force or of a retired one). The sponsor, the claimants and the clock of
`LearningRewards` interleave with all of it. The claims that are submitted are those
the issuer signed and any of a signer whose key no server has (`Foreign`): a
sponsor may name such a signer, or rotate to one. Every step is a step of
`LearningRewards` or leaves it alone (`ContractUnderIssuer` proves it), so its
theorems hold here as well, and the run checks its properties together with the
issuer's. What is said of one user's rewards is said of this campaign: the same
participant may well be paid by other campaigns, whose claims their own signers
sign. Publication is required for a new allocation, as the application
configures it.

### BaseChainIndexer

The blocks that may ever exist are a fixed tree, and the chain is its `head` and
`final` block. A reorganisation is a move of `head` to another branch above
`final`. A sync loads the ledger in one transaction, then makes one chain read per
step, so the chain moves between any two, and commits `Rewind`, `Append` or
`Halt` under the version check. The version is only compared and grows with every
commit, so it is the set `current` of the syncs whose version is still the row's.
The contract's state at a block is the set of blocks on the branch that hold
escrow logs; projecting the right logs is reconciled, projecting fewer is not.
`Faults` switches on a node that misses logs or breaks finality.

Two things are below this abstraction. Logs of which a subset happens to project
to the same accounting (a pause and its undoing, both missed) would pass
`reconcileCampaign` as well. And each answer comes from one node; a balancer
that mixes nodes of different heights appears only as failed calls, missed logs
and broken finality. The age checks on the finalized block and on the checkpoint
are failures that may happen at any time. The check of the pinned deployment
block (`chain-indexer.ts:127`) is left out: every branch contains it.

### JobQueue and ClaimLedger

`ClaimLedger` begins where a campaign's prize is escrowed, its order is
`ALLOCATED` and its lifecycle job is enqueued, and follows the campaign to its
end in Postgres and on chain. Time and delivery belong to the queue: a pending
job may be leased at any moment, a lease may run out at any moment, and its owner
may go on working (`run_after` and `lease_expires_at` are left out, so the model
allows more schedules than the code). A batch that leased several jobs behaves
like several workers that leased one each.

| code | actions |
|---|---|
| `createClaimQuote`, `submitClaim`, `requestCampaignRefund` | `CreateClaimQuote`, `SubmitClaim`, `RequestCampaignRefund`, and `EnqueueRequested` for the enqueue that follows, or follows never, or follows on a retry |
| `runChainWorkerBatch` | `LeaseJob`, `Load`, `Finish`, `Throw`, `Die` |
| `processClaim` | `StartPaying`, `SubmitContractClaim`, `TransitionClaimSuccess`, `CloseClaimed`, `EnqueuePayout`, `LoseRace`, `FindConsumed`, `RecoverConsumed`, `ReleaseCampaign` |
| `processOneClickPayoutReconciliation` | `SettleOneClickPayout`, `ObserveOneClickPayout` |
| `processCampaignLifecycle` | `FollowClaimed`, `FollowRefunding`, `FollowOpen`, `FollowExpired`, `EnqueueRefund`, `FinalizeRefund`, `CloseOrder` |
| `processCampaignRefund` | `SubmitRefund`, `AwaitRefund`, `ConcedeRefund`, `MissCancellation`, `RestartLifecycle`, `VerifyRefunding`, `FinalizeRefund`, `CloseOrder` |

Every database transaction and every chain transaction is a step of its own.
`Throw` and `Die` are possible between any two steps and stand for every failed
comparison, timeout and crash. A read shares a step with the write that follows
it in two cases only. Either the write is compared with the row's version: a
change in between makes it fail, which is `Throw`. Or what was read cannot be
undone (a claimed or refunded campaign, a spent nonce, a terminal answer of the
provider): a change in between makes no difference. All other reads are kept in
the run and used stale: the clock of the batch, the campaign row a handler loaded
first, the claim's status.

A row's version is only ever compared with the version that was read. `fresh`
says whether the campaign row a run has loaded is still the one in the table; a
write by anybody clears it in all other runs. A claim's statuses never recur, so
its status serves as its version. `SetClaim` respects the unique index
`v2_claims_winner`.

What solvers do without the backend is part of the model: `ChainMoves` relays any
signed permit, cancels, expires and retries, and runs the token contract's
answers. `ProviderMoves` lets One Click settle or refund a deposit, or report a
failure and refund it later.

Left out: idempotency of claim quotes, operation events, evidence, and the
registration of receivers with the token.

### Repository and PostgresRepository

The two ledgers and `PaidGeneration` take a call of the repository as one step.
`PostgresRepository` is what makes that right. It has one step for each SQL
statement and COMMIT; a caller's entry in `calls` says which statement comes next
and what its transaction has locked.

| code | steps |
|---|---|
| `createCampaign` | `InsertCampaign`, or `LockReceipt`, `InsertLinkedCampaign`, `CommitCampaign` |
| `createFundingOrderAndFreezeCampaign` | `FreezeLookup`, `FreezeLock`, `FreezeInsert`, then `FreezeCommit` or `FreezeLookAgain` |
| `submitClaimAtomically` | `SubmitLock`, `SubmitCampaign`, `SubmitCommit` |
| `finalizeOneClickPayoutAtomically` | `FinalizeLockClaim`, `FinalizeLockCampaign`, `FinalizeCommit` |
| `reserveIdempotency` | `ReserveDelete`, `ReserveInsert`, `ReserveCommit` or `ReserveSelect` |
| `acquireIdempotencyProcessingLease` | `AcquireUpdate`, `AcquireCommit` |
| `enqueueJob`, `leaseJobs` | `EnqueueInsert`, `EnqueueRevive`; `LeaseUpdate`, `LeaseCommit` |
| every other write | one step of its name; `EndJob` is `completeJob`, `rescheduleJob` and `failJob`, `FinishIdempotency` is `completeIdempotency` and `failIdempotency` |

The isolation is READ COMMITTED. A statement waits while another transaction holds
a row or an index value that it needs (`Free`), and then sees what was committed.
`FOR UPDATE` also locks the key that foreign keys refer to, an UPDATE does not.
`Throw` ends a call at any statement, before COMMIT with a rollback and after it
with a lost answer. Postgres would break a circle of transactions that wait for each
other by failing one of them, which the model allows like any other failure, so
the circle itself is excluded by invariants. `NoCircle`, a part of `RepositorySafe`,
says that of the transactions that hold locks one waits for nobody: what each of them
awaits is written down in `Awaited`. `NobodyStuck` says that one can carry out its next
statement, whatever it would wait for, and so also checks `Awaited`.

`ImplementsRepository` is a refinement with the tables mapped to themselves: a call
has its effect, and its answer is decided, at one moment between its start and its
end. `Repository` is `memory-repository.ts` with six weaknesses, each because
Postgres needs it:

* a call may throw before or after its effect;
* time that passes during a call may be seen or not;
* a transition may be refused when another order is open, or another claim has won:
  the unique indexes enforce that, the memory does not;
* a creation that was refused met an open order at some moment of the call (`met`),
  not necessarily at its end; and `null` may answer a freeze whose own key was used
  by another call after it was looked up;
* an empty patch of a draft may be answered with the campaign, whoever owns it and
  whatever its version: Postgres returns before it compares them, the memory
  compares and counts a version;
* `listCampaigns` counts before it reads, in two queries (`CountCampaigns`,
  `ListCampaigns`), so that the total may be that of a moment before the rows.

Answers are reduced to what callers decide on: errors to "refused", rows that
already existed to "existing". Rows that are listed or looked up by campaign have no
order among them: they come by `created_at`, which clocks decide. Left out: the
unique index on `funding_reference`, and the columns that no call compares.

### FundingLedger

A request is an idempotency key of `createFundingQuote`. It has at most one
reservation (`reservations`), one order (`orders`) and one funding reference,
however often and from however many servers it is repeated.

| code | actions |
|---|---|
| `patchCampaign` | `PatchCampaign` |
| `createFundingQuote` | `LoadCampaign`, `Reserve`, `CreateOrderAndFreeze` or `CreateOrder`, `EnqueueReconciliation`, `CompleteQuote`, `FailQuote` |
| `recoverFundingQuote` and the revival that follows it | `Recover`, `ReviveReconciliation` |
| `verifyExternalFundingAuthorization` | `VerifyAuthorization`, `PersistVerification` |
| `recordDirectFundingReceipt` | `RecordDirectReceipt`, `ReviveReconciliation` |
| `refreshFundingOrder` | `RefreshFundingOrder`, `EnsureAllocation`, `ReviveReconciliation` |
| `processAllocation` | `StartAllocation`, `Activate`, `VerifyAllocation` |
| `transitionAllocationLedger` | `RecordCampaign`, `RecordOrder`, `EnqueueLifecycle` |
| `processFundingReconciliation` | `ReconcileEscrowed`, `ReconcileTerminal`, `ReconcileDirect`, `ReconcileRouted`, `EnsureAllocationJob` |
| `runChainWorkerBatch`, `markAllocationIncomplete` | `LeaseJob`, `Finish`, `Throw`, `Die` |

`EndCall` ends a call of the services between any two of its steps. A step that
writes under a version check reads in the same step, as in `ClaimLedger`; what a
call has read of the campaign before it asks the provider for a quote is kept in
the call (`seen`, `terms`, `fresh`), and so is the clock (`at`). A reservation
that has expired is invisible to the code, so `TimePasses` deletes it; a call is
assumed to end before the reservation it made expires (12 s of provider timeout
against 360 s). `Pay` is the creator, who follows the instructions of an order
within its deadline. `Die` is limited to attempts after which the job can be
leased again, so that "unfinished" means work that will be taken up.

### PaidGeneration

A row of `rows` is the leased idempotency record of one payment identifier; a
request is a place between two awaits together with what it last read or wrote.

| code | actions |
|---|---|
| `paidAiGeneration`: lookup, verification, reservation | `Arrive`, `Verify`, `Reserve` |
| `acquireIdempotencyProcessingLease` and the stage it finds | `Acquire`, `NoteUncertain`, `Generate` |
| generation and the order to settle | `SaveGenerated`, `BeginSettling` |
| the facilitator's answer | `ReceiveAnswer`, `LoseAnswer`, `SaveSettled`, `SaveDeclined` |
| completion and the catch block | `Complete`, `HandleError` |
| a receipt that pays for a campaign | `LinkReceipt` |

`Die` ends a request at any await, `LeaseRunsOut` lets another one take it over, and
a write of a stage in `Faulty` may fail before or after it is committed. The
facilitator is external: `Settle` executes or refuses an order, and
`SettleOrphan` one that nobody waits for any more. `MaxMishaps` bounds the deaths,
failed writes, lost answers and overrun leases of one behaviour together. Owner
ids are random and every write of an owner changes the stage, so the pair of them
determines `processing_version`. Left out: records that predate the digest,
malformed stored bodies, mock mode, events, prices, the content of drafts.

### GasSponsorship

A row is the sponsorship of one allocation, `asked` the requests that were written
down before the provider was asked, `signed` the history of what the provider
signed.

| code | actions |
|---|---|
| permits | `FirstPermit`, `RefreshPermit`, `RecoverPermit` |
| the proxied request | `FindPermit`, `Decide` (the transaction), `Answer` or `LoseAnswer`, `Recheck`, `SaveAnswer`, `HandleError`, `Die` |
| reviews of an expired operation | `FindCandidate`, `CommitReview` |
| the managed mode | `ReserveManaged`, `ReportSubmitted`, `ReportUnknown`, `Finalize` |
| the chain | `Pay` |

A token is only compared with the row's, so a request keeps whether the row still
has the one it came with (`fresh`). Gas is counted in operations of at most
`maxOperationWei`. Left out: the bytes of operations and answers (an operation is
what it is compared by), gas limits, rotations and changes of the policy.

### LessonJourney

| code | actions |
|---|---|
| `review-repository.ts`, `publication.ts` | `Revise`, `Approve`, `ApproveLayout`, `StartPublish` and `CommitPublish`, `Withdraw` |
| `issuer.ts`, `bindApprovedCampaign` | `StartBind`, `CommitBind` |
| `participant-repository.ts` | `VerifyEmail`, `StartComplete` and `CommitComplete`, `AskChallenge` |
| `issuer.ts`, `issue` with `verify` | `StartIssue`, `VerifyWallet`, `Reserve` |

A transaction is one step; a call that awaits a chain read or the wallet check
between two transactions has a step for each, keeps what it read in `calls`, and
ends at any point by `EndCall`. `bindApprovedCampaign` has an optional argument, the
material the owner expects, and only compares the layout when it is given
(`issuer.ts:136`); it is modelled as the API (`publication-api.ts:104`) and the
binding script call it, which always give it. The hashes of terms, review and layout commit to
the revision, and its number stands for them. What sponsors do on chain
(`SponsorMoves`) interleaves with everything. Left out: the creation of the
lesson, contact consent, owners, and what drafts and answers contain; slots,
epochs and signatures of claims are `RewardIssuer`'s.

## 3. Checks

All runs finish within the bounds given here on two workers, in two to four
minutes; deadlock is not checked because a bounded clock, or a system at rest,
really stops.

| run | bounds | what it shows |
|---|---|---|
| `EscrowFunding` | 2 campaigns, 2 references, prizes 0 and 1, one deadline, 1 transfer, 1 receiver, clock 0..3, one attempt of a refund, vault to 1 | direct funding, authorization, revocation, replacement and activation; solvency as long as funding is direct; the contract implements `PrizeEscrow` |
| `EscrowPayouts` | 1 campaign, 2 references, 2 receivers, external funding, two deadlines, clock 0..3, nonces and attempts to 2; with fairness | every order of claim, failure, cancel, expiry, retry and callback; payouts settle, allocations conclude and prizes leave (the liveness of `PrizeEscrow`) |
| `LedgerFunding` | 1 campaign with two drafts, a direct and a routed request, 1 call at a time, 1 worker, 2 attempts of a job, clock 0..2 | repeated quotes, crashes in the middle of one, late transfers, a refresh against the worker, allocations that are resumed |
| `LedgerClaims` | 1 campaign, a direct and a routed claim, 1 worker, 2 attempts of a job, clock 0..2 with the deadlines inside it, 2 nonces | races of solvers, failed and relayed payouts, routed payouts, crashes at every step |
| `LedgerWorkers` | 1 campaign that opens and expires later, 1 claim, 2 workers, 1 attempt of a job, clock 0..2 | stale rows, lost leases, cancellation and expiry against a claim |
| `LedgerRepository` | 2 callers in 10 situations (drafts, funding, two claims, a routed payout, reservations, a paid record, jobs, events, lists of campaigns, reads of orders and claims), each with the calls that touch the same rows; 2 attempts of a job, leases run out below version 3 | every interleaving of the statements of two calls, with expiry and failing connections |
| `PaidGeneration` | 1 payment identifier, 2 authorizations, 2 bodies, 2 drafts, 2 requests, 2 campaigns, 3 mishaps; with fairness | lost answers of the facilitator, overrun leases, deaths, failing writes, reuse of an identifier |
| `IssuerRewards` | 2 users, 2 recipients, 2 calls, 2 signers of which the server has one, 2 epochs, 2 finalized blocks, slots 0 and 1, a campaign with 1 reward and a hostile one with 2, an invalid offer, 1 donation, clock 0..3 | retries, rotation, conflicting recipients, the race for the last slot; the safety of the escrow under an honest and a hostile signer |
| `IndexerOverlap` | 4 blocks, 2 syncs, reorganisations deeper than the limit of 1 | the version check |
| `IndexerLive` | 5 blocks on 2 branches, 1 sync at a time and 1 reader, batches of 1, limit of 2, missed logs and broken finality; with fairness | accuracy, also for the issuer that reads; no needless halt, progress to the head, progress to the halt |
| `GasSponsorship` | 2 allocations of one account, budget for 1, 2 proxied requests, 2 reported hashes, 1 renewal, clock 0..2 | races for the budget, renewals under a review, lost answers, reports |
| `LessonJourney` | 1 user, 2 wallets, 2 on-chain ids, 2 challenges, 2 signatures, 2 calls, 2 revisions, the lesson open in 1..2 and claims until 3, clock 0..2, 1 slot | approval against revision, linking against withdrawal, proofs that expire, two wallets of one user, recovery after the end |

Why these bounds are enough to be worth it: an action takes part in at most two
overlapping payouts, calls or syncs in any violation we could construct, and each
bound leaves room for that pair plus one retry (the two runs of `ClaimLedger`
divide this between them: one has the retry and the second claim, the other the
second worker; `attempts` starts again with each reschedule, so a job with one
attempt still runs many times). Where a second campaign, user or
branch matters the run has it. Every property of a passing run is violated by at
least one plausible bug planted in the model (the mutants), within the same
bounds, so no bound is too small to see its property fail. References, transfers,
participants, users, calls, proxies, syncs and workers are only compared, which
makes the symmetry sound; the liveness runs use none.

### Fairness

* `ReceiptsRun`: NEAR executes every receipt it has accepted, so each promise gets
  its answer and its callback (weak fairness per campaign and per reference). A
  transfer may still fail.
* `KeeperRuns`: the worker polls every campaign it funded and calls
  `expire_and_refund` and `retry_refund` (`worker.ts`, `processCampaignLifecycle`
  and `processCampaignRefund`). The worker gives up after eight attempts; the
  bound `MaxSeq` stands for a refund that the token contract finally accepts.
  `EscrowPayouts` funds on the external rail only: on both rails the balance proof
  below has a gap, and a refund of an uncovered prize never succeeds.
* `SyncsRun`: `reconcile-base.ts` is run again and again, and each run takes its
  next step. `FairSpec` of the indexer lets a sync end early only where the code
  gives up: progress is claimed for a node that answers. The chain itself has no
  fairness: the properties of `IndexerLive` are about a chain that comes to rest.
* `FairSpec` of `PaidGeneration`: every await returns or throws (weak fairness of
  each request's next step), a lease runs out, and a client that has no answer
  sends the same request again (strong fairness of its arrival). Mishaps are
  bounded, not fair.

### What is not claimed

Modelling the code showed gaps between what it does and what one may expect of
it. The properties are stated so that they hold of the code; these are the cases
they leave out.

* **The balance proof** (`contract-v2/src/lib.rs`, `on_external_funding_balance`).
  The callback compares the whole `ft_balance_of` with `total_reserved` plus the
  prize. While an `ft_transfer_call` that `ft_on_transfer` rejected has not been
  resolved its amount is in that balance, so an allocation can be proved by
  money that is about to be handed back. `Solvent`, which counts units, is about
  escrows in which every campaign was funded directly.
* **A missed cancellation** (`worker.ts:1480-1486`). A creator who cancels just
  before the opening has the campaign put to `REFUNDING`; the lifecycle job sees
  that, hands over to the refund job and succeeds. If the refund job runs only
  after the opening, it puts the campaign back to `ACTIVE` and enqueues the
  lifecycle job under the deduplication key that the succeeded row still holds:
  nothing is enqueued, and somebody has to ask for the refund after the expiry. It
  can end worse: a lifecycle run that was overtaken before it loaded the campaign may
  load it after that, find on chain a claim that a solver relayed by itself, and write
  `CLAIMING`, in which neither a claim nor a refund request is accepted; its own
  reschedule does nothing, since its lease is gone. The proof of `LedgerSafe` found
  this: instances with fewer workers and attempts do not reach it. `ClaimsCarriedOn`
  therefore speaks of the lifecycle job only where no cancellation was ever enqueued.
* **A last attempt that dies** (`postgres-repository.ts:1431`). `leaseJobs` takes no
  job that has used up its attempts, and only a handler that throws makes it
  `DEAD`: the job stays `RUNNING`, and cannot be revived.
* **Claims signed ahead** (`LearningRewards.sol:132`). A rotation revokes what was signed
  for the epochs up to its own. A signer that signs for an epoch still to come, and is the
  signer when it comes, has signed a good claim; the server never does
  (`SignedInForce`), a sponsor's own signer may.
* **An empty status filter** (`postgres-repository.ts:333`). `listCampaigns` with an empty
  list of statuses returns every campaign from PostgreSQL (`Where` has it) and none from the
  in-memory repository (`memory-repository.ts:149`). No caller passes an empty list,
  and the calls of `LedgerRows` leave it out: there the refinement would fail.
* **Refunds that are given up** (`worker.ts:1548`, `worker.ts:1279`). After eight
  attempts the worker leaves a failing refund to the creator; and a campaign that
  was refunded on chain while the ledger says `CLAIMING` is retried until its job
  is dead.
* **A failed write after the charge** (`x402-ai.ts:841-862`, `1063-1086`). If the
  settlement of an uncertain payment is taken up again and the write that follows
  it fails, the record ends as `FAILED` although the client was charged.
  `Tolerated`, the stages in which the run lets a write fail, leaves that one out.
* **Expired direct orders** (`services.ts`, `refreshFundingOrder`). A refresh marks a
  direct order as expired without reading the chain. Its receipt and its next
  refresh repair it, but a second order of the campaign that was opened in between
  blocks the recording of the first. `FundingCarriedOn` says that the work stays
  scheduled, not that it succeeds.
* **Repeated quotes from the browser** (`app/lib/api.ts:476`). The browser uses a new
  idempotency key for every quote it asks for, so that the repair by a repeated
  request, on which `FundingCarriedOn` counts after a crash before the enqueue, is one
  for clients of the API.

## 4. Proofs

TLC checks the instances above; the theorems hold for every value of the constants under
the named assumptions of the modules: the sets of submitted specs, prizes, deadlines and
terms are well formed; `None` is none of the values; ids are natural numbers; blocks form a
finite tree; the ids of campaigns are finitely many, in the NEAR escrow and in Postgres; a
lease is tried at least once; a direct order has some time of grace after it expires; the
claims that a model may name include those of the approved terms and of the first epoch;
the calls of the repository are those of its interface, and its tables start with rows of
their types that satisfy the unique indexes. Only the last part of `HaltsOnlyWhenBroken`
speaks of how deep the chain forks. The theorems do not assume bounds on the clock, on
nonces, on epochs or on amounts other than that they are natural numbers.

**`ClaimLedgerProofs`, the escrow**. `TypeCorrect` first. `DisbursedOnce` is not
inductive: it says what the token contract did, and is preserved only because a
payout is never started while another is under way. The invariant `PayoutInv`
therefore joins
`AuthorizedIdle` (an authorized campaign has not been funded, so it comes into
being without payouts), `PayoutsMatch` (each payout under way carries the kind,
sequence number and amount of the status that started it), `OnePayoutInFlight`,
`DisbursedOnce` and `SettledIsDisbursed`. It is preserved action by action;
`PrizeDisbursedOnce`, `PayoutsNeverStale` and `SettledMeansDisbursed` follow.
`ReservesAccounted` proves that the running total equals the sum over the live
campaigns. The sum is stated as the cardinality of a set of units, one per atom of
each prize, since a sum defined by recursion cannot be unfolded by the provers;
the lemmas on blocks of units (`AddBlock`, `RemoveBlock`) say what adding and removing
a prize does.
`PayoutsAreSafe` puts together what the run `EscrowPayouts` checks as `PayoutsSafe`.

`PrizesPaidAsSigned` rests on `ReceiversRight`: the receiver of a claim that is
recorded, under way or executed is one that a permit names for that very nonce, and
the terms of a campaign never change. `FundingIsSafe` proves that the four funding
maps agree; `FundingInv` adds what the code relies on without saying so, that every
allocation that waits for its balance query is still authorized and pending, once per
reference. `AllocationsAsAuthorized` follows from it step by step.
`DirectEscrowIsSolvent` is another counting argument: `SolvencyInv` adds that the
names of transfers under way are distinct, and the provers then move blocks of units
between the vault, the reserve and the two kinds of transfers that are not resolved.
`PromiseKept` is the refinement of `PrizeEscrow`: the initial state maps to an initial
state, and each action to a step of the abstract escrow or to a stutter. Claims,
cancellations and retries stutter, the token contract's execution of a payout is the
abstract exit, and it needs `PayoutInv` for the exit to be the only one and
`ReceiversRight` for it to go to an endorsed receiver.

**`ClaimLedgerProofs`, the ledger**. `LedgerIsSafe` and `SettledForGood`, for any number of claims,
workers and attempts. A run acts on what it loaded long ago, perhaps after another
worker has finished its job, so the argument is about what stays true behind its back.
`Grows` says what no step of anybody takes back: the nonce and the clock go up, a
settled escrow stays so, a claim keeps its permit and its end, a closed campaign stays
closed (`REFUNDING` is left again only after a cancellation), a job that was enqueued
is in the table, the provider's terminal answer stands. Two facts about a claim are
therefore for good: `Won` (its permit took the prize) and `Lost` (it did not, and
cannot any more: no promise to its receiver is under way and its nonce is spent, its
deadline over or the campaign claimed); so are `Started` and `Done`, what a job was
enqueued upon and what it leaves behind when it is done. `LedgerInv` says that paid
claims have won and failed ones have lost, that jobs in the table are started and
succeeded ones done, and, in `AtStage`, what a run may rely on at each stage, which is
nothing but such lasting facts; a row that a run has not marked stale is the campaign's.
`Lawful` is a step that takes nothing back, and each action is shown to be lawful and
to account for what it writes. The escrow's side, `EscrowInv`, is `PayoutInv` and
`ReceiversRight` for the one campaign: `LostStays` needs them, since a solver may relay a permit at any moment.

**`FundingLedgerProofs`**. `FundingIsAgreed` and `FundingIsCarriedOn`, for any number of
requests, calls and workers. As in `ClaimLedgerProofs`, a call and a run act on what they
read long ago, so `FundingInv` rests on what no step takes back (`Grows`, `OrderGrows`):
the terms are frozen with the first order, and an order keeps its terms and its deadline;
a prize that came into escrow came under one reference; a creator that has committed
itself to terms has done so for good (`Committed`: the authorization is there or its
reference is spent); the provider's terminal answer stands; a job that was enqueued is in
the table. The invariant then says that every prize in escrow, or on its way there, is
one of an order, and was paid for first if it is routed (`EscrowOK`); that a succeeded
reconciliation is `Concluded`; what a run relies on at its stage and a call at its own
(`RunOK`, `CallOK`); and that a call that makes a quote is alone with the reservation of
its request (`ReservationsOK`), which is what keeps a second order from being created. `FundingCarriedOn`
needs that an order which was given up never gets its prize after all (`GivenUp`). For a
routed order the provider has failed. For a direct one the argument is a matter of clocks:
the deadline of the transfer is the order's expiry, and the worker gives the order up only
`DirectGrace` later. The theorem therefore assumes `DirectGrace > 0`, as the code has it
(`DIRECT_FUNDING_FINALITY_GRACE_MS`, `services.ts:58` and `worker.ts:50`). `EscrowMoves`
says what a step of the chain may do, and each action of the
escrow, of the token and of a worker that calls them is shown to do no more.

**`PostgresRepositoryProofs`**. `RepositoryIsSafe` and `RepositoryRefined`, for any number
of callers, any calls of the interface and any number of rows. The refinement needs an
invariant because a transaction decides on rows that it read some statements ago, and
writes at its COMMIT. `CallOK` says for each statement what the call may still rely on and
which locks it holds: a draft that was locked `FOR UPDATE` is still that draft (`Draft`), a
claim that is submitted or paid is as it was checked (`Submittable`, `Payable`), a record
that is about to be deleted, inserted or leased is still so, a job that is taken can be
taken, and no other order has been opened, and no slug or receipt used, since the index
was looked at. `Behind` says what a step of somebody else leaves of that: it changes no
row that others have locked, opens no order and uses no value whose index entry they hold,
and loses no row that they have found; time may pass only in ways that take nothing away. A step
of a call therefore needs to be shown to respect the locks of the others (`CallStep`), and
what it does itself. Where a transaction commits, its facts give the guard of the atomic
operation of `Repository`; where it only goes on, the interface sees nothing
(`StepKeeps`). Three steps rest on more than the transaction's own locks: a new campaign
has a new id (`NewIds`); a winner of a campaign that is written without waiting for an index
value is still the only one, since `v2_claims_winner` is looked at in the statement that
commits (`WinnersUnique`); and a refused creation met an open order or its own key
(`met`). `NoCircle` follows from the order in which the code locks: claims before
campaigns, and campaigns or records before the index values of an INSERT
(`AwaitsCampaign`, `AwaitsValues`); every other transaction waits for nothing but what it
holds.

**`RewardIssuerProofs`, the contract**. `ClaimsInv` ties each paid signature to its slot and
participant, the number of used slots to the number of payments, and bounds the
slots by the terms; `FundingCapsPayments` and `NobodyRewardedTwice` follow. The
cap on payments is the counting argument of the comment at
`LearningRewards.sol:144`: the used slots are a subset of `0 .. maxClaims - 1`.
`ClosedKeepsNothing`, `ReservesAccounted` and `RefundsAlwaysCovered` follow with
like lemmas on blocks of units (`ReplaceBlock` for a payment); `RewardsAreSafe` puts them together as the run checks them.
`RotationIsFinal` proves the action property `RotationRevokes` from `RotationInv`: a retired
authority is of an epoch below its campaign's (`RetiredInv`), because a rotation
retires the authority in force as it opens the next epoch, and no step lowers one;
what `PayClaim` pays is of the epoch that the campaign is in, so it is not retired.

**`RewardIssuerProofs`, the issuer**. Two inductive invariants. `StoreInv` is about the issuer
alone: slots are handed out in order (`SlotsInv`), a call past its reservation stands
on saved rows (`CallsHold`), and each signature was made for a user at a finalized
block at which the claim was unused (`SignaturesHold`). `Grows` says what no step does
(drop a block, change an allocation, drop an authorization), so an action only
accounts for what it adds. With the types, `ContractUnderIssuer` follows:
`IssuerSpec` implements `LearningRewards!Spec`, so that `RewardsUnderIssuer` needs no
new proof. `ChainInv` relates the two sides. A finalized block is a state the
campaign was in: its authority is in force or was retired since (`AuthorityKept`), the
campaign's epoch has not gone back, it has the same signer
if it is in the same epoch, and what was paid since was paid in that epoch to that
signer or later. This is what makes a stale read harmless: `AuthorizedIsPayable`
shows that a slot that was unused at the block of the signature and is now spent was
spent by a claim of the same epoch and signer, hence one of the issuer's, hence the
same user's. `OneRewardEach` and `IssuerIsSafe` follow more directly. Proving
`OneRewardPerUser` for many campaigns showed that it had to name the campaign:
with one on-chain id it had said more than it meant, since another campaign's own
signer may reward the same participant there.

**`PaidGenerationProofs`**. `PaidInvariant`, then `PaymentsSafe` and `AnswersPaid`. A
request that dies, overruns its lease or is answered late leaves its last read behind;
`PaidInv` says what such a memory is still good for: `RequestsAgree` (what it read is
of its payment's own row), `OrdersHeld` (a settlement that was ordered stands in the
row until the request is told that it was refused) and `FirstIsAlone` (the first to
order a settlement is alone with it while it owns the row). `Lawful` states once what
a step of one request may do to its row; each action is shown to be lawful. The
hypothesis `"SETTLEMENT_UNKNOWN" \notin Faulty` says that the one write of the
note of an uncertain settlement does not fail; without it the theorems are false of the code (see *A failed
write after the charge*).

**`GasSponsorshipProofs`**. `GasInvariant`, then `GasIsSafe`, `AsksOnlySafely` and
`ManagedIsKept`. The budget is a cardinality over the rows that hold a reservation. The
difficulty is that requests, reviews and answers are about an epoch of the row that may be over: `AskedFits`
(earlier epochs have left only stubs that have run out), `AskedOnce` (one request of
an epoch is unanswered), `ProxiesFit`, `SignedFits` and `FoundFits` say what each of them still
knows. Renewal takes the latest of a set of deadlines, whose existence is proved with
the well-foundedness of the numbers.

**`LessonJourneyProofs`**. `JourneyIsSafe` and `JourneyIsKept`: what is published and
funded is what was approved, a challenge is used once and in time, a reward was
earned, and what a participant has is kept. A call that has read something and
commits later is the difficulty: the invariant `JourneyInv` adds `CallsAgree` (what
each call remembers is still so, or the check of its next step fails) and
`RewardedIsVerified`. `StepStable` states once what no step takes back (an approval, a
verified wallet, a used challenge, a completion); each action then only has to
account for what it adds.

**`BaseChainIndexerProofs`**. `LedgerIsOneBranch`, `LedgerIsExact`, `HaltsForAReason`,
`CheckpointAdvances` and `HaltedForGood`, for every tree of blocks, however many syncs
overlap, with missed logs and broken finality. First come facts about the tree: a
branch is closed under ancestors (`LineageTrans`), ordered by block number
(`LineageLinear`) and without gaps (`LineageNumbers`). They are inductive by nature;
each is proved by its lowest counterexample (`LowestBlock`), from the well-foundedness
of the numbers. `IndexerInv` then says of the syncs in `current`, those whose version
is still the row's, what their reads amount to at each stage: they agree with the
ledger (`Agrees`), the search stays on the ledger's branch and, while the chain keeps
its finality, above the finalized block (`Searches`), what is added continues the
branch (`Extends`), and the checkpoint is not under the finalized block, reconciled
and, once it is verified, final (`Checkpointed`). Of a sync whose version has moved
nothing needs to be known: it cannot commit. Two points came out of the proof. The
search never passes the finalized block without matching it only because the
finalized block that was read is no higher than the latest one read before it
(`chain-indexer.ts:84-90`): this is `MatchesFinalized`. And `BASE_REORG_TOO_DEEP` is a
sound verdict although the search reads a chain that moves: `TooDeep` shows that some
two blocks then have no common ancestor within `MaxReorg` (`ShallowForks`), which
`HaltsOnlyWhenBroken` now states. `FairIndexer` carries all of this over to the fair
specification that `IndexerLive` runs.

**Only model-checked** is what is out of the prover's reach: liveness under fairness
(`PayoutsSettle`, `AllocationsConclude`, `ImplementsLivePrizeEscrow`, `SettledIsDelivered`,
`CatchesUp`, `ConflictHalts`), and `NobodyStuck` of `PostgresRepository`, which speaks of
`ENABLED`. No module uses `RECURSIVE` operators.

## 5. Plan

Done: both escrows with their proofs, the issuer, the indexer and reader, the job
queue with every handler of the worker, the repositories, funding, claims, paid generation, gas
sponsorship, and the journey of lessons and participants, with proofs for all of them.
Left, in this order:

1. `SolutionNormalization` and `LayoutPlacement`: the pure algorithms of
   `solution.ts`, `layout.ts` and `puzzle.ts` against reference definitions.
2. An abstract ledger that `FundingLedger` and `ClaimLedger` implement together, and
   their liveness for workers that come back; an abstract issuer (users, slots, one
   reward each) that `RewardIssuer` implements.
3. The legacy contract.

## 6. Not modelled, and why

The React pages and route files hold no state of the system beyond what they post
to the services. Public views and transparency are read-only projections. Encodings (EIP-712, canonical
JSON, hashes, keys) are injective by construction and stand in the models as the
values they encode. Providers' HTTP clients are inputs. Parsing and
authentication are sequential and local, and unit tests reach them. The operator
scripts are run by hand against one campaign.
