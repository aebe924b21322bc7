# GitBounty in TLA+

TLA+ modules, TLC runs and machine-checked proofs about GitBounty: a service that pays
contributors points, and for some bounties cash held by an escrow contract, for merged
pull requests that close published issues. Paths below are relative to the repository
root, `src/` being that root in `PROJECT.json`.

## The system

| Part | Code | State | What happens to it |
| --- | --- | --- | --- |
| Escrow contract | `contracts/contracts/GitBountyEscrow.sol` | bounties, `totalLiabilities`, token balance | `fund`, `settle` (with the signer's authorization), `refund` |
| Evidence and vouchers | `backend/app/routes/escrow.py`, `escrow_chain.py`, migration 0017 | reward terms, funding and chain events, allocations, recipient bindings, vouchers | `verify_funding`, `verify_settlement`, `verify_refund`, `voucher` |
| Recovery | `routes/escrow.py: reconcile` | index cursor | read logs, dispatch to the verifiers, advance |
| Sponsored operations | `backend/app/sponsored.py`, `smoothsend.py`, migration 0019 | signed operations with a status; one pending per wallet | `submit`, `verify`, sending again |
| Cash eligibility | `services/escrow_rewards.py` | escrow allocations | evidence from GitHub, one allocation per bounty |
| Publishing | `routes/maintainer.py` | `issue_points`, history, reward terms | `publish_bounties`, `update_bounty` |
| Detection | `features/merged_prs/*` | none (pure) | paged search, closing references, matching, eligibility, lifecycle state |
| Awards and ledger | `features/points/store.py`, `allocations.py`, migrations 0008, 0013 | `reward_allocations`, `points_ledger`, `merged_prs`, `pull_requests` | `record_merges`, `record_pull_requests`, `claim_points`, adjustments, boards and totals |
| Synchronisation | `features/points/router.py`, `sync_state.py`, migration 0009 | `sync_runs` with a cursor | begin, fetch, commit, succeed or fail, release stale |
| Webhooks | `routes/github_app.py`, `services/webhooks.py` | `webhook_deliveries`, `connected_repositories` | receive, take, apply, retry with back-off |
| Moderation | `routes/moderation.py`, migration 0012 | flags, void entries of the ledger | raise, resolve, withdraw an award |
| Legacy payments | `routes/payments.py`, `smoothsend.py`, migrations 0015, 0016 | challenges, wallets, claims, payments, stored operations | link, claim, prepare, save, confirm, retry |
| Sign-in, managed wallets | `auth.py`, `csrf.py`, `managed_wallets.py`, `services/users.py` | users, keys | sign in, create |
| Rate limiter | `ratelimit.py` | request windows | check, sweep |
| Website, extension | `frontend/` | caches | views over the API; signing and sending of challenges and payments |

How they interact. The chain moves on its own; the backend learns of it only by reading,
two blocks late. A contributor's pull request is noticed by two independent readers, the
contributor's sync and GitHub's webhook, which share nothing but the database. A webhook's
transaction holds the delivery's row lock while it talks to GitHub; a sync reads what is
published, talks to GitHub without a transaction, then writes in one. A reservation made
for somebody without an account is credited when that person registers and claims.
Cash is allocated only by a webhook, to a bounty award it has just reserved or had already
reserved for the same pull request. A voucher request takes a snapshot, waits for a row
lock, reads the chain twice and signs. In a sponsored deployment the server signs an
ERC-4337 operation, stores it, hands it to a bundler, and later asks what became of it;
what it learns goes through the same verifiers a browser's transaction hash goes through.
A direct payment is signed in a browser, against a nonce the server reserved.

What is hard here: reads that are old when they are used (block, nonce, bounty list, search
page, linked wallet, execution mode, the texts of earlier voids); two readers of one event;
signatures that stay valid after they were superseded, and operations that stay runnable
after they were given up; requests that die between two of their commits; recovery that has
to terminate and yet never skip; the boundaries of the claim window. `PROJECT.json` lists
these at their lines, with the property that covers each, or why none does.

Per part, what makes it correct: the contract conserves and releases a bounty's money once,
in its window, to the right party; a claim has one recipient and one usable authorization;
what is recorded is what the chain did; the cursor leaves nothing behind and recovery ends;
a wallet is never wedged by its own operations, and their statuses are true; an award is
reserved once, at an offered value, credited once, and to a person; points and cash of a
bounty go together; the sync's cursor passes nothing that is shown wrongly; a withdrawal is
one flag's and shows everywhere alike; a direct payment is made once and its row says so.

## Modules

* `EscrowPromise` - what an escrowed bounty promises: money in once, out once, paid before
  the window closes or given back from then on.
* `EscrowContract` - the contract. A transaction is one action, since it reverts or
  completes and `nonReentrant` closes the call to the token. Its environment: a token whose
  transfers may be stopped or charged a fee, which may be sent to the contract uncalled; a
  signing key that may sign wrong settlements; block time. An arithmetic revert (checked
  Solidity) is a guard. Events are the sequence `log`. The payer's allowance is left out:
  it only adds a reason to revert. `Promise == INSTANCE EscrowPromise WITH ...` maps states
  to phases; `KeepsPromise` is its specification.
* `EscrowClaims` (extends the contract) - the backend beside it. `via` says whether a
  transaction called the contract directly or through the entry point or a relayer, which
  the verifiers tell apart by execution mode. `latest` is the block before the one being
  built; a block per time unit, so that a timestamp is a block number. The voucher request
  is four steps (snapshot, lock and latest block, contract state, sign and commit), and
  anything may happen between two of them, a redeployment in the other mode too. The
  recording of evidence is one step: its transaction holds the terms' row lock, and the
  evidence is about a block two deep, which does not change. An event is evidence of a
  published bounty if it is of its reference and its amount (`verify_funding_receipt`,
  `verify_settlement_receipt`, `verify_refund_receipt`); the token's `Transfer` beside it is
  not a second fact, since the contract makes both or neither.
* `EscrowIndexer` (extends the claims) - recovery passes. `ReadLogs`, one `RecordNext` per
  event, `Refused` when a verifier raises, `PassFails` for a restart or a node's failure,
  `Advance`. It calls the verifiers of EscrowClaims. `IndexSpec => ClaimSpec` is proved.
* `SponsoredOps` (extends the claims) - operations in place of browsers' transactions.
  `tab` is a submission, holding the row lock of the wallet's key (`KeyFree`) from its
  reading of the nonce to the commit of the signed operation; the gateway's answers come in
  between. `sent` is what the bundler holds: it may execute, drop or never see an operation.
  `Execute` is the EntryPoint: one operation per nonce, whose call succeeds or reverts.
  `verifying` is a request past its first commit: `Confirm`, `RecordEffect` and `Finish`
  are three transactions of `verify`, and `VerifyStops` a death or refusal between
  them. Nothing says that a gateway which showed a receipt shows it again: `Send` may set a
  confirmed operation back to submitted, and then the verifiers no longer believe its
  transaction (`Believe`, `Doubt`; in the claims `ConfirmOperation` and `ResendOperation`),
  while another request about it may be past its first commit.
  `ActsAsClaims`, its refinement, says that all this is behaviour of `EscrowClaims`.
  The EntryPoint's `getNonce` is asked of the latest block, behind the one being built.
* `Awards` - publishing, merges, deliveries, worker, sync, registration and claims over
  the award tables. The unique indexes are `Conflict` and `LedgerAccepts`; `Reserve` is
  insertion of several rows, `on conflict do nothing`, in any order. The reads that are
  old when used are in `hook` and `sync`. An account that never signs in simply never
  registers. The history variable `offered` is for `OfferedValue` only.
* `SyncRuns` - one user's runs. `gh` is what GitHub has, `index` what its search reports of
  it, later. A task walks pages (`fetch_authored_prs`), asks for reviews (`assess`), commits
  rows (`record_pull_requests`) and closes its run (`succeed`), each later than the one
  before; a row of `sync_runs` may be closed as stale while its task works on. Pages are cut
  from the index as it stands when each is asked for, so an update between two pages moves a
  pull request to a page already read. Awards made by a run are those of `Awards`.
* `Moderation` - flags, moderators' transactions, and the ledger they write to. `read_award`
  and `withdraw_award` are the reads and the writes of one transaction, which holds the row
  lock of its flag (`FlagFree`) and none of the award. Entry ids are constants, because
  `like '%entry <id>%'` also finds ids that merely begin alike (`Begins`); what a moderator
  adds to the text in her own words may name one more entry.
* `Standings` (extends the moderation) - what the site shows of the ledger: totals,
  categories, pull requests, the weekly score, boards and a person's place, each operator
  one query of `store.py`.
* `WalletLinks` - challenges and links. Recovery over a message that was not signed yields
  an address nobody holds (`recover_message`): that is what ECDSA recovery does.
* `LegacyPayments` (extends the links) - claims and direct payments. `prep` is a
  `prepare_payment` transaction in its two stretches, before and after the sender's advisory
  lock. `stored` are operations the owner's tabs signed and the server saved; `pool` is the
  gateway, `done` what the smart account executed, by nonce. `confirm_payment` is one
  transaction under the lock of the payment's row; the gateway may show a receipt or not yet.
* `*Proofs` - theorems and proofs about the module they are named after; `EscrowProofs`
  about `EscrowContract` and `EscrowClaims`, `ModerationProofs` about `Standings` too.
* `SumsAndRanks` - lemmas about finite sums and ranks, which three of them use.
* `MC*` - the instances TLC checks.

An operator whose comment begins "Fault:" is no part of a specification: it is a plausible
mistake in the operator after it, kept to show that the properties notice it
(`mutants` in `PROJECT.json`).

How they are composed. `EscrowIndexer` and `SponsoredOps` extend `EscrowClaims`, which
extends `EscrowContract`: they share its variables and add their own, and each is shown to
implement it. `Standings` reads the variables of `Moderation`, `LegacyPayments` those of
`WalletLinks`. Escrow cash is not paid in `Awards` and points are not in the escrow modules:
what joins them is `cash` there and `allocated` here, set under the same conditions.

## Runs

| Run | Checks | Instance and why it is enough |
| --- | --- | --- |
| `escrow_contract` | `TypeOK`, `Solvent`, `LiabilitiesExact`, `LeavesOnce`, `LeavesAsItCame`, `TermsFinal`, `NeverStuck`, `KeepsPromise` | two payers, so that one's money could pay the other; amounts 0..2; seven settlements, three of which can be good and four invalid in one way each, two signed at a time; `MaxUint` 6, so that one work window offered is refused because its claim window would leave the range; every reference offered again with every other amount and window; time 0..4 spans work, claim and refund windows |
| `escrow_claims` | `ClaimTypeOK`, `OneUsable`, `PaysBound`, `EvidenceTrue`, `VouchersAccounted` | one bounty, two voucher requests, both modes, a voucher life of 3 in a claim window of 5: renewals happen, and time 10 lets the refund come and be recorded; amounts 1 and 2, of which one is published, so that fundings and refunds of the wrong amount have to be told apart |
| `escrow_index` | `IndexTypeOK`, `CursorComplete` | two bounties, two passes, overlap 1 and chunk 2, so that passes overlap, fall behind and need several rounds; allocation, a voucher request and a claim window of 2 beside them, so that settlements, refunds and direct recordings mix with recovery; bounties and passes are symmetric |
| `escrow_recovery` | `RecoversProvable` | two bounties, one pass at a time, fair |
| `escrow_browser_closed` | `EventuallyRecorded`, violated | as above, sponsored mode |
| `sponsored_ops` | `OpsTypeOK`, `OneRunnable`, `StatusTrue`, `EndedIsFinal`, `OperationsEnd`, `ActsAsClaims` | a payer's and a contributor's wallet, two submissions and any number of verify requests at once, three operations, so that a fund, a settle and a refund, or two attempts at one, follow each other; each may be sent again at any time until it has ended |
| `sync_runs` | `SyncTypeOK`, `CursorSafe` | two pull requests, a page for each, two runs of which one may be given up while it works; see below |
| `awards` | `TypeOK`, `ClaimNeverBlocked`, `OfferedValue`, `CashWithPoints`, `ShownIsReserved` | two issues, two pull requests of different people that close a common issue, one of them by a maintainer, a worker and a sync, two changes of two values |
| `awards_two_ids` | `BaselineOnce`, violated | the same with one change |
| `moderation` | `Paired`, `WithdrawnOnceSeen`, `ShownIsLeft`, `BoardWhole` | three flags and two moderators, who are symmetric; a bounty and a flat award for one pull request, whose ids 1 and 12 begin alike, and another person's award of the same value, merged later; pages of one row |
| `legacy_payments` | `PayTypeOK`, `TransfersAccounted`, `PaidTrue`, `OneUnfinished`, `PaidIsFinal` | one owner owes one contributor the same amount twice, so that operations for the two differ in their nonce alone; two signings of each; two executions |
| `wallet_stale_challenge` | `EveryWalletSigned`, violated | two people, two challenges each |

Time, signatures, changes, operations, nonces and challenges are bounded by `MaxTime`,
`MaxSigned`, `MaxChanges`, `MaxOps`, `MaxNonce` and `MaxChallenges`, ledger entries by the
length of `Ids`; at the bound the system stops, hence `CHECK_DEADLOCK FALSE`.

What two of these do not say. `WithdrawnOnceSeen` is about requests of which one saw the
other's withdrawal; two that do not see each other may both withdraw one award, and the run
has such behaviours. `BoardWhole` is about the pages of one state of the ledger: somebody
who pages while the ledger changes may see a person twice or not at all. `ShownIsLeft` is
about all time; within a week a correction counts when it was made and the award when it
was merged, as `store.py` means it to.

`SyncRuns` needs three more words. (1) A run takes at most `RunLimit`, the index lags at
most `IndexLag`, and together they are at most `Day`, the day the search goes back behind
the cursor. A run is a bounded number of requests with a timeout of seconds each (ten
pages, a review look-up per open pull request), and GitHub's index lags by seconds to
minutes, so the assumption has room; `CursorSafe` does not hold without it, and the mutant
that searches from the cursor itself shows that the day is what it rests on. (2) The last
value of its clock stands for all later ones: there a running row may always be stale.
(3) `PerPage * MaxPages` covers all pull requests: the hypothesis `AllWalked` of the theorem
about the cursor. Beyond a thousand results GitHub's search gives no more and the code
accepts the loss, so that `CursorSafe` is not true of somebody with more. `Stages` and `Verdicts` bound where a pull
request can be: in the instance one is opened, approved, closed and reopened, so that what
an old run writes may be true again or not; merging (closing for good), drafts and the other
verdicts are in the module and left out of the instance, because the cursor does not look at
them.

### Fairness

`EscrowIndexer` assumes that blocks go on (weak fairness), that some user goes on asking
for reconciliation (weak fairness of `ReadLogs`: nothing in the backend schedules it, the
only caller is the "Refresh contribution & evidence" button of a bounty's page, so this is
an assumption about use, not about the code), and that a step of a pass that is possible
again and again is taken at last (strong fairness of `RecordNext` per event and of
`Advance`): a pass may fail anywhere, but not at the same place for ever. Nothing is
assumed of browsers: no hash need be submitted and no operation confirmed.
`RecoversProvable` says that under this, every reported event is recorded, provided no
confirmed event is one that its verifier refuses; the violated run shows that the proviso
is needed.

`SponsoredOps` assumes that the user goes on checking the operation (weak fairness of
`Confirm`; nothing but a bounty's page asks for it, so this too is an assumption about use,
and a reasonable one, since the wallet stays blocked until then) and that not every request
dies at the same point (strong fairness of `RecordEffect` and `Finish`). Nothing is assumed of
bundler, blocks or submissions, so `OperationsEnd` is about operations that were mined.

The other modules have no liveness: nothing in the code schedules a sync, a payment or a
moderator, and what an award needs in order to come at last (a full sync) is a user's choice.

## What the runs found

* `EventuallyRecorded` is violated. `docs/architecture.md:195` wants closed browsers to be
  recovered from. In sponsored mode the verifiers accept a transaction not sent to the
  contract itself only if the browser has had its operation marked confirmed. Without that
  each recovery pass stops there with 409, and every later event waits behind it.
* `BaselineOnce` is violated. The sync stores the id of GitHub's search results, the id of
  an issue, and the webhook that of the pull request. The flat award is unique per person and
  id, so a merge both paths see is awarded twice.
* `EveryWalletSigned` is violated. `docs/points-rules.md:66` wants a first payout address
  to come from a signed challenge of its owner. The server keeps the last challenge it handed
  out and binds whatever address the signature recovers to over that one; a signature made
  in another tab over an earlier challenge recovers to an address nobody holds, for good.

## What is proved

For every value of the constants, checked by TLAPS, from the assumptions named in the
modules. `EscrowConstants`, `IndexConstants`, `AwardConstants`, `PaymentConstants`,
`WalletConstants` and `ModerationConstants` give constants their types, with the zero
address and the contract's own apart from accounts. `SyncConstants` says also that a
contributor's pull requests are finitely many and that the day of slack covers a run and
the index's lag, `StandingConstants` that no two people have one login (the unique index of migration 0001) and
that asking for no category is not a category. `ClaimConstants` adds that the two wallets of
the contributor are accounts, that the record of no recipient (`NoOne`) is none, and that a
voucher lives a while; `OpConstants` that the server's wallets are accounts and the terms
published are ones `fund` is offered with.

`SumsAndRanks`
* Sums and ranks over sets of any size need induction, and the library's induction theorems
  take an operator as a parameter, which the provers cannot instantiate. The induction is
  carried by a set instead: of the subsets of a finite set that break a claim take a
  smallest one (`SmallestSubset`, from the well-foundedness of strict inclusion), and show
  that taking one member out breaks the claim again.
* From it: the sum of the community modules exists and follows its recursion (`SumUnfolds`),
  whatever member is taken out first (`SumTakesOut`, `SumAdds`); entries that take back what
  others gave leave each giver's amount times one less its takers (`TakenBack`); sets of
  which one is always within the other have the sizes 1 to n (`RanksAreAll`), so that a page
  of them is full (`PageIsFull`).

`EscrowProofs`, the contract
* `TypeCorrect`: each action keeps each variable's type. A transfer keeps balances natural
  (`TransferBalance`), and checked arithmetic does the rest.
* `Solvency`: `balance >= liabilities` is inductive with the types. Funding adds to
  the balance exactly what it adds to the liability, closing takes both, a donation
  only adds.
* `Exact` (`LiabilitiesExact`): the liability is the sum of the funded bounties. It is
  inductive once amounts are natural: funding adds a member to the sum, closing takes one
  out. `Covered` follows with `Solvency`: no funded bounty is worth more than the liability
  or the balance, so `settle` and `refund` can fail neither in the checked subtraction nor
  for want of money. These are the guards of `refund` that `NeverStuck` is about.
* `PaidOnce`, `PaidAsDeposited`, `Windows`: from one inductive invariant on
  the events (`EventInvariant`): a bounty is Absent before its funding event, Funded
  between that and its closing one, closed after; its terms are those of the funding event
  and never change. Without it the log and the state could tell different stories, and no
  property of the log alone is inductive.
* `Implements`: initial states and every step map to the promise (`PromiseStep`).
* `TermsAreFinal` (`TermsFinal`): payer, amount and windows of a funded bounty never change, and a closed
  bounty never changes at all. The contributor works under terms nobody can take back.
* `RefundsDue`: a refund whose window has come meets every guard of `refund` unless the token
  is paused. With `RefundIs`, which says that the action is its guard and its assignments,
  this is what `NeverStuck` claims of refunds, said without ENABLED.
* All of these are proved of `OpenSpec`, where any settlements may become authorized at any
  time, and hold of `Spec` because it is a case of it (`SpecIsOpen`). The runs give the key
  a few `Offers` and at most `MaxSigned` signatures; the guarantees depend on neither.

`EscrowProofs`, records and vouchers
* The inductive invariant `ClaimInv` has four parts. Types, and every authorization made by
  a request and on record. What events say of their bounty stays true, what is settled is in
  the log, what is recorded is such an event, of the published amount. A voucher that was replaced has run out unused,
  a used one is of a settled bounty, one is live. One request at a time holds an allocation,
  and from its reading of the block on nobody can use what was live then (`HolderRead`).
  The last part carries the proof: when a holder signs, every earlier authorization has
  run out by a block that is in the past already, whatever has happened since.
* `ClaimsTyped`, `OneAuthorization`, `RecipientFrozen`, `RecordsTrue` and `VouchersTrue`
  follow from it.
* `SystemHonoursVouchers`, `PaidOnlyEarned`: no voucher is worthless. A request checks the
  bounty in one block and signs in a later one, so the invariant (`WorthInv`) says what it
  still carries: the reward was funded and allocated before anything was asked
  (`AsksEarned`), and the state it checked has the published terms (`OnTerms`), which
  `TermsStep` says last. `SettleGuard` then holds of every signed settlement until its
  deadline or the bounty's end (`SettleIs` shows that it is all `settle` asks). The token
  of EscrowClaims never taxes or pauses a transfer, so that the full amount arrives; `EscrowContract`
  has one that may, and with it the theorem would be false.
* `SystemRecordsFinal`, `SystemRecognises`: verifications write a record once, whatever is
  repeated or comes late, and every settlement of the chain finds its voucher.
* `SystemKeepsPromise`, `SystemCovered`, `SystemPaysOnce`: the system of contract, records
  and vouchers implies `OpenSpec` (`ClaimsAreOpen`; that what a request signs is a well-formed
  settlement comes from `ClaimInv`), so that the contract keeps its guarantees in it.
* `ClaimsOnward`: chain and records only go forward, new events are of the block being built.
  The two modules below use it.

`EscrowIndexerProofs`
* `IndexImplementsClaims`: a pass does what requests could do, so all of the above holds
  with any number of passes; `RecoveryKeepsPromise` is one consequence, and
  `RecoveryRewritesNothing` that a pass over blocks that were read before changes no record.
* `NeverAtHead`, `NothingLeftBehind`: `CursorComplete` alone is not inductive. It needs that
  cursor and passes are behind the head, so that new events are ahead of them
  (`BehindHead`); that what lies behind a pass's end and is not on its list is on record
  (`PassComplete`), which for the blocks before its start is `CursorComplete` itself; and
  that only allocated rewards are settled (`AllocatedFirst`), since an unallocated one's
  settlement counts as nothing to record.

`SponsoredOpsProofs`
* `OpsImplementClaims` (`ActsAsClaims`): each step maps to one of EscrowClaims or a stutter.
  `OneAuthorizationStill`, `PromiseStill` and `VouchersStillHonoured` show what it is for.
* `NeverWedged`, `OperationsTrue`, `OpsTypeCorrect`: from `OpsInv`. One unfinished operation
  per wallet and the nonce of what could still run being the account's own (`NextNonce`)
  keep each other up only together with `TabAlone`: while a submission holds its wallet,
  nothing unfinished is there, and the nonce it read a block late is current after all,
  because whatever is finished was seen with a block on top.
  `StatusesEarned` says what each status needs of the receipt and of the records. A request
  past its first commit cannot rely on the status it committed, which another one may have
  set back to submitted; `ConfirmedTrue` therefore says what such a request relies on, the
  success of its receipt. And as believing is by event, that doubting one operation leaves
  the others believed needs that no two have one event (`OwnEvents`).
* `EndsOnce` (`EndedIsFinal`): a verified or failed operation never changes again, though
  "verified" is written by a request that reads no status before it. What keeps a failed one
  from being overwritten is that only successes are ever `verifying`.

`LegacyPaymentsProofs`
* From one invariant: `Accounted` needs that an operation that could still run is the
  present attempt of a claim on its terms (`StoredFresh`), and that a claim is prepared
  again only when the nonce of its row is spent on nothing (`PrepTrue`, `Burnt`); `OneAtATime`
  that a reserved nonce has no unfinished neighbour but reopened ones (`ReservedAlone`);
  `ClosedRowsTrue` that a closed row's operation was executed (`Ended`). `PaymentsTyped`
  and `PaidForGood` follow.
* `NeverPaidTwice` reads the chain's side: each successful transfer of an owner's account is
  that of one claim and of no other (`EachTransferEarned`), by `Accounted` and the unique
  index on chain, sender and nonce (`NoncesUnique`); and nothing is prepared, let alone
  paid, before the claim and both wallets are there (`Asked`).
* `LinksTakeNobodysWallet` is what is left of `EveryWalletSigned`, which is violated: a stale
  signature may bind an address that nobody holds, never another person's, and what is
  bound stays (`WalletsOwn`, `WalletsFinal`). Payments use it through `PayWallets`.

`ModerationProofs`
* `WithdrawalsPaired`: with `WorkHolds` (who is withdrawing holds an open flag, alone), flags
  have their void and voids their one flag. `NotWithdrawnAgain` rests on `NoneSeen`: what a
  request has read holds no void of its award, because a void's text names its award
  (`VoidsName`) and a number that stands in a text is found.

* `ShownAlways` (`ShownIsLeft`): what each page sums is what is left of the awards. It needs
  `WithdrawnWhole`: a void is about an award that is no void itself, of the same person,
  pull request and category, and as much; which holds because a moderator reads an entry
  that is worth something (`WorkPositive`). Then the voids within a page's entries are those
  of its awards (`SumIsLeft`), and as many as the flags withdrawn (`WithdrawalsAreVoids`).
* `BoardAlwaysWhole` (`BoardWhole`): the queries' order is strict and total because logins
  differ (`BeforeIsOrder`), so a person's rank is the size of a set, one of those sets within
  the other (`BoardHeads`); the place in the page's own order is that rank (`PlaceIsRank`).

`SyncRunsProofs`
* `SyncTypeCorrect`: the types, and that one run at most is recorded as running
  (`OneRunning`); it needs no more than that a run holds its row or has lost it.
* `CursorKept` (`CursorSafe`) is far from inductive, since a row written wrongly may be old by
  then. The invariant follows a run: what the index reports was true and is true still, or
  changed no longer ago than the lag (`Indexed`); what a run carries is as GitHub has it, or
  GitHub's change came too late for the run to see (`Carried`, `Missed`); what had settled
  when the run began (`Due`) it has read or has on a page to come (`Walked`); and the cursor
  a run is about to write is no later than the present one or passes nothing (`Finishing`).
  What a run missed has changed since the run began, or less than the lag before: the day of
  slack is longer than run and lag together, so the next run asks for it. That a walk does
  not end before what is due is counting: ranks in the search's order are 1 to n, so a page
  with a hit behind it is full (`PageIsFull`), and with `AllWalked` no hit is behind the
  last one (`WalkGoesOn`).

`AwardsProofs`
* The inductive invariant `Ind`: the types; published bounties are in `offered`; what a
  worker or a sync has read was on offer once, a sync's without escrow; an author who was
  known is still; reservations never conflict; and the properties. It is needed because
  what a step writes comes from a read many steps old. `RecordKeeps` is its core: what
  `record_merges` adds has an owner, an offered value and no conflict. `CashStep` adds the
  cash of exactly the escrow awards among it.
* `LedgerIsClaims`, `ClaimsGoThrough`, `AwardsAsOffered`, `CashFollowsPoints`,
  `ShownIsAwarded` follow from it.
* `AwardsAreRightful`: awards go to authors of merged pull requests, a bounty's for an issue
  the pull request closes. That a worker writes what it read long ago is harmless because
  nobody is unmerged (`MergedSeen`) and no offer is forgotten. `MatchCloses` is the one fact
  about `matching_bounty` it takes: the issue it picks is among those closed.
* `WinnerIsFinal`: one award and one cash reward per issue, and none is ever taken back.

The properties of this section that no run lists (`RefundNeverRefused`,
`VouchersHonoured`, `EarnedFirst`, `RecordsFinal`, `SettlementsRecognised`, `WalletsOwn`,
`WalletsFinal`, `EachTransferEarned`, `AwardsRightful`, `AwardsFinal`, `OneWinner`) are stated
in the modules of proofs, beside the invariants they come from.

Only model-checked: `NeverStuck`, because it is about ENABLED, which this prover does not
know (what the guards of `refund` need of the state is `Covered`); and what needs fairness,
`RecoversProvable` and `OperationsEnd`.

## What is not modelled, and why

* The chain: reorganisations deeper than the two confirmations, ABI encoding, hashing and
  signature arithmetic (a signature is membership in `signed` or `proofs`), gas and paymaster
  fields of an operation. The escrow tables' triggers repeat checks the handlers make.
* `Awards` takes a transaction as a step, so PostgreSQL's waiting between two inserts is not
  explored, and a publication is one step although the code reads before it writes (what two
  publications do to each other is settled by the row of the repository each writes first).
  The issue states a sync also caches are left out: nothing reads them to award.
* The evidence a cash award needs is a free choice of GitHub's, which includes every answer
  it may give; the rules of `validate_cash_eligibility` that read only that evidence would be
  restated, not checked.
* Webhooks about installations and issues keep a cache of GitHub that no award reads;
  back-off is time, which the worker's retry does not depend on.
* GitHub's text: closing references are the constant `Closes`, categories a field of an award.
  Both are pure text algorithms (`issue_links.py`, `categorise.py`) over regular expressions
  and word lists, which a model would have to repeat character by character.
* Sign-in is one upsert; cookies, OAuth state and CSRF tokens are sealed or compared within
  a request. The creation of a managed wallet is one upsert under a row's lock, and its key
  derivation is arithmetic. Rate limiter, issue cache, GitHub App client, start-up, the
  migration runner (one transaction per file, run by hand), the website's views and the
  extension keep no state that what is modelled here depends on.
* `verify_transaction` and `refresh_paid_receipt` of the direct payments belong to the
  provider before SmoothSend and are called no more; rows whose review is not clear cannot
  come about.

`PROJECT.json` lists each part with what of it is left out.
