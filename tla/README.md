# Formal models of ftg-chain

ftg-chain runs a token backed by renewable-energy certificates: one node process
produces blocks, keeps a ledger of mints and burns, and serves an HTTP API behind
which live a custodial exchange, a fiat settlement service and a compliance service.
Next to it, `x/energymint`, `x/burn`, `x/treasury` and `x/provenance` hold the same
token economy as Cosmos SDK keepers. This directory holds TLA+ models of the parts
that keep state, the TLC runs that check them on small instances, and TLAPS proofs
of the results that matter most for every value of the constants.

    tlc -config trading.cfg MCExchange.tla      # one run; the list is below
    tlapm ExchangeProofs.tla                    # one proof module

## 1. The system

| Part (source) | State it keeps | Operations | What makes it hard | What makes it correct |
|---|---|---|---|---|
| **Exchange** (`x/exchange/keeper/keeper.go`, `rpc_exchange.go`) | wallets, balances and locks, KYC applications, orders, trades, daily volumes, two price-sorted books; all but the books in `exchange_state.json` | create wallet, deposit, withdraw, submit / approve / reject KYC, place and cancel orders, match | one price walk that edits two orders, four balances, two locks, two volumes and a slice per iteration; the file is written once at the end; the books are rebuilt from the orders at start | quantities, locks, balances, trades and books describe the same market at every point, through crashes; nobody unverified trades; a match ends |
| **Settlement** (`x/settlement/keeper/keeper.go`, `rpc_settlement.go`) | deposit intents, withdrawals, escrows, settlement records, five totals, one JSON file | create / confirm deposit, create / process withdrawal, create / fund / execute / refund escrow | operations arrive in any order, late and repeated; expiry is noticed only when somebody calls | an escrow pays out once; totals equal the records; what is finished stays so |
| **Chain state** (`cmd/ftgd/chain_state.go`) | certificates, burns, transactions, 64-bit totals, three treasury balances, one JSON file | mint, burn, two treasury transfers | concurrent requests for one certificate; wrap-around; a torn file | no certificate mints twice; totals reconcile; the treasury holds what was minted |
| **Node and RPC server** (`cmd/ftgd/start_real.go`, `rpc_server.go`) | height in memory and in `state.json`, requests in flight | produce a block, receive and serve requests, stop, crash, restart | handlers read the height under one lock and use it under another; the height is saved every 100 blocks | recorded heights never run ahead of the chain; a crash takes back a bounded number of blocks |
| **EnergyMint** (`x/energymint`) | minters, certificates, totals | mint, add / remove minter | per-certificate truncation, several writes per message | tokens never exceed what the energy backs |
| **Burn** (`x/burn`) | merchants, events, statistics | burn, merchant burn, add merchant | one burn counted in four places | statistics are what the events add up to |
| **Treasury** (`x/treasury`) | commitments; balances at the bank | minting to committed or liquidity, deliver, cancel | every commitment is paid from one shared wallet | a commitment is paid once and stays covered |
| **Provenance** (`x/provenance`) | records by id, an index by certificate, a counter of ids | create a record, add a document, record a change of custody | a record, its index entry and its id are three writes; records are read, changed and written back whole | each certificate leads to its own record; a record only grows |
| **Compliance** (`x/kyc`) | screenings and their counter in `kyc_state.json`; rules, flags, a list of countries | screen a user; check a transaction, resolve a flag | it is the second of two keepers an application passes through, without a lock or a file in common, and its answer is thrown away | every application is screened; no screening is replaced |
| Queries, application shell, node setup, protocol files | none, or one-shot files | getters, `init`, key commands | pointers escape from getters | *not modelled*: no state change, or pure I/O |

**How they interact.** The HTTP server runs each handler in a goroutine. The
exchange, settlement and compliance keepers each have one `sync.RWMutex`; the ledger
has its own, and so has the node's height. No keeper calls another: they meet in the
node process, which lives and dies with all of them and is restarted by systemd
(`Restart=on-failure`), and in one handler, `handleKYCSubmit`, which calls the
exchange keeper and then the compliance keeper. The ticker goroutine produces blocks
and saves the height; the mint and burn handlers read the height and then call the
ledger. The SDK keepers share the bank's balances. They are not wired into the node.

## 2. The modules

| Module | Models | Extends |
|---|---|---|
| `Exchange` | the exchange keeper and its file, one trading pair | community modules |
| `Market` | what the exchange promises: a market in which each order trades in one step | community modules |
| `Compliance` | the compliance keeper and its file: actions without a next-state relation | standard modules |
| `Screening` | the KYC endpoints over both keepers | `Exchange`, `Compliance` |
| `ExchangeProofs` | theorems of `Exchange`: types, accounting, overdrafts, registry | `Exchange`, `TLAPS` |
| `ExchangeBookProofs` | theorems about books, prices, progress of the loop and verified owners | `ExchangeProofs` |
| `ExchangeSumProofs` | theorems about totals: fills, volumes, locks, conservation; the refinement of `Market` | `ExchangeBookProofs`, `Sums` |
| `ScreeningProofs` | theorems of `Screening` | `Screening`, `ExchangeProofs` |
| `Settlement` | the settlement keeper and its file | community modules |
| `ChainState` | the node's ledger: actions without a next-state relation | community modules |
| `Node` | the node around the ledger | `ChainState` |
| `TokenSupply` | what both implementations of the token promise | standard modules |
| `NodeProofs` | theorems of `Node` and `ChainState` | `Node`, `TLAPS` |
| `Bank` | the bank operations the SDK keepers use (external) | community modules |
| `EnergyMint`, `Burn`, `Treasury` | the keepers that move tokens | `Bank` |
| `Provenance` | the keeper of certificate records | `EnergyMint` |
| `Tokens` | the four composed over one set of balances | all of them |
| `SettlementProofs`, `TokensProofs` | their theorems | `Settlement`, `Tokens`; `Sums`, `TLAPS` |
| `Sums` | what a sum over a finite set does when the set or the function changes | `TLAPS` and its theorem modules |
| `MC*` | constants for TLC | the module named |

Definitions keep the source's names, and `PROJECT.json` maps each to its lines. A
definition marked *Mutated form of X* is not part of the model: it is X with a
plausible bug, kept to show that the property it stands beside notices it.

### Exchange

`PlaceOrder` holds the write lock from end to end but is split, since the process
can die between two iterations of its loop:

| Action | Code |
|---|---|
| `PlaceOrder` | validation, the limit check, the lock on the funds, the order stored; leaves `taker` set (the mutex is held) |
| `SkipOwn` | an iteration that meets an order of the taker's own wallet |
| `Fill` | an iteration that trades: trade record, `settleTrade`, both `updateDailyLimit` calls, both orders, the maker's removal. The clock is read three times, for the trade and in each `updateDailyLimit`, and midnight may fall between the readings |
| `FinishOrder` | the taker's status, the remainder's insertion and sort, `save`, unlock |
| `Restart` | the process dies (anywhere) and `NewKeeper` loads the file and rebuilds the books; with `TornWrites` the file may be one that does not parse |
| `NewDay` | midnight UTC, also between two iterations of a match |

All other operations are one action each; every one ends in `Save`, which writes
`disk`. `book` is never written and is rebuilt from live orders, ties in any order
because the code walks a map. `sort.Slice` is stable only for short slices: `Sorted`
returns every result it may produce, keeping ties in order up to `StableSortLen`.

Wallets, orders and applications are numbered in the order of creation where the
code uses random ids. One pair stands for the configured ones: orders of different
pairs do not meet. Amounts, quantities and prices are integers of either sign, since
neither handlers nor keeper look at it but for the price of a limit order and the
minimum quantity: the deposit of a negative amount is a debit that ignores locks.
`Quotient` drops fractions towards zero as Go does. A requested KYC tier is any
integer, and one without an entry in `TierLimits` reads as the limit zero. What the
amounts lack is a width: the `int64` products that wrap (`keeper.go:273`) are listed
as a hazard no property covers. `approvedAt` orders the approvals, for which the
code keeps the time. `runAMLChecks` is reduced to its outcome, a sanctions match or
none.

**Refinement.** `Market` has no book, no loop and no lock: `PlaceOne` adds an order
together with all of its trades, allocated over the resting orders it crosses, best
prices first and as far as it goes. `ImplementsMarket` maps its balances, locks and
orders to those in the file (`disk`); a deposit may be of a negative amount there
too, a withdrawal leaves what is locked. `PlaceOrder`, `SkipOwn` and `Fill` are then
stutters, `FinishOrder` is the step `PlaceOne`, and a crash inside a match is a
stutter too, since the file still holds the state before the order. `Market` leaves
open which of several makers of one price trades, as the code does.

### Screening

`handleKYCSubmit` is split where it holds no lock: `Submit` is the call of
`SubmitKYC`, `ScreenApplicant` the call of `ScreenUser` some time later. In between
other requests are served, and `RestartBoth` may kill the handler. It loads both
files, each whole or torn by itself, in any state of either keeper. `handlers` holds
what the goroutines remember; `due` and `unscreened` are history: the outcome an
application's screening must have, and the applications whose screening a crash
prevented or lost. The two keepers decide by two lists, `HighRisk` in the exchange
(`runAMLChecks`) and `Blocked` in compliance. `CheckTransaction` has no caller, so
that no flag is ever raised and `ResolveFlag` never finds one; neither is modelled.

### Settlement

Each operation is one action and saves as it ends, so a crash between two of them
loses nothing and needs no action; `TornRestart` is a crash inside the write. Time
is a clock in hours that only comparisons read.

### Node and ChainState

`Wrap` reduces a number to a signed counter of width `2 * Half` (Half is 2^63 in the
code). A request is received, with the height of that moment, and served later;
between the two anything may happen. No amount of a burn or a transfer is refused
for its sign: a burn of a negative amount raises the supply, with no certificate
behind it, and lowers the total burned. `produceBlock` is split where the process
can die with the block counted and logged but not saved: `CommitBlock` raises the
height and sets `saving` when the height is due to be saved, and `SaveBlock` writes
it; the node's lock is held in between, so that no request reads the height. A write
that returns an error, which the code drops, is not modelled. A graceful stop is
three actions: `Signal` cancels the context, `BeginFinalSave` reads the height
without the node's lock, `EndFinalSave` writes it and ends the process. The ticker
goroutine may be in its last `produceBlock` all the while, and may save in between;
`late` remembers that it was, since it can produce one block at most. `Crash` is a
death between two steps or inside a write of either file, `Restart` systemd.

### Tokens

A message is one action, enabled when its handler returns no error: the SDK discards
the writes of one that fails. The decimal MWh of a certificate is a number of parts
(`DecScale` to the MWh), which makes truncation visible. `Send` is an ordinary bank
transfer between holders; the treasury's own wallets are assumed to send none by
that way, because only the owner holds their keys. `RecordStep` is any operation of
the provenance keeper, which no message reaches and which asks no other keeper: a
record may be made for any certificate id, minted or not. It stands beside the other
keepers and shares no state with them. Requested quantities, burns and transfers are
of either sign and refused by the minimum or by `sdk.NewCoin`, as in the code;
nothing refuses a negative merchant revenue, which is only added up.

**Refinement.** `TokenSupply` knows certificates, tokens minted and burned and the
supply, and two steps: a mint for a certificate not seen before, and a burn of at
most the supply (a third loses a torn ledger). Which amounts a burn may ask for is a
parameter, `Burnable`: natural numbers for `Tokens`, for `Node` all that its handler
is sent, negative ones included. `Tokens` implements it with the supply being the
sum of all balances at the bank, so that transfers, deliveries and cancellations
must be stutters; `Node` implements it modulo the width of its counters.

## 3. The runs

| Run | Instance | Shows |
|---|---|---|
| `trading` | 2 users, 1 wallet each, 3 limit orders over 2 prices, 2 days, 2.0 M states | orders, books, locks, balances, trades, volumes agree; best execution; no crossed book; the exchange implements `Market` |
| `compliance` | 2 users, 3 wallets, 2 applications, 2 screenings, 3 countries, tiers 1 and 4, an order, torn files, 1.9 M states | one active wallet and one pending application per user; a sanctions match is never undone; a trader's tier is that of its last approval; every application is screened, and no screening replaced |
| `market` | market and limit orders, prices, deposits and withdrawals of either sign, a torn file, fairness, 0.8 M states | base tokens under a lock are taken by negative deposits alone, and every `PlaceOrder` returns |
| `settlement` | 2 deposits, 2 withdrawals, 2 escrows, 4 hours, 0.7 M states | escrows pay once, totals match, finished is final |
| `node` | 2 certificates, 1 burn of either sign, 2 blocks, 2 requests in flight, 3-bit totals, 4.9 M states | no certificate twice in the ledger, totals reconcile modulo their width, heights through crashes, also between a block and its save, and graceful stops; the ledger implements `TokenSupply` |
| `tokens` | 4 accounts, 2 certificates, 2 burns, 2 commitments, 2 records, 0.4 M states | supply is backed, statistics reconcile, commitments are covered and paid once, records are indexed and only grow; the keepers implement `TokenSupply` |
| `leftover`, `quotelock`, `dailylimit`, `activeescrows`, `fees`, `autofreeze` | as above | six statements of the source that the code does not keep, each with its counterexample (section 6) |

**Why the bounds are enough.** Three orders are the fewest in which a taker meets
two makers, or skips its own order to reach another's, or a partial maker meets a
second taker; two prices give sorted and crossed books; two days put midnight inside
a match, and inside a fill. With `PriceScale = 2` and the prices 1 and 2 the floors
of lock, fill and release differ, and the taker's fee is not zero. Three wallets for
two users let a user open a second after the first was frozen, and let two users
apply for one wallet. Of the requested tiers one is granted at once and one, out of
range, only by an administrator, who may grant both to one wallet in either order.
Deposits and withdrawals of 2 and -2 and a market order at the price -2 let a
balance fall below a lock taken earlier. Of the three countries one is on no list,
one on both and one on the compliance list alone; the offer of the `compliance` run
locks nothing, so that it needs no deposit. Two screenings suffice for one to
replace another. A save every two blocks and two blocks put the final save before,
on and after a periodic one. Two escrows, deposits and withdrawals suffice for
totals to mix up entries; four hours let each expire before, at and after the
timeout of one. Three-bit counters overflow with one certificate. Transfers between
treasury balances are of 1: with -1 as well, the run is out of reach, and
`TreasuryHoldsMinted` is proved for either sign. Quantities of 1.5 and 2 MWh over
`DecScale = 2` truncate twice, so that rounding the other way breaks the bound. The
`tokens` run keeps provenance records and long histories of burns and commitments
apart (the constraint `ShortHistory` of `MCTokens`): the two share no variable and
no guard, so that a step of one does the same in every state of the other; mints,
minters and transfers do combine with records. `MaxBalance`, `MaxWallets` and the
like only bound the counters and appear as guards of the operations that would
exceed them.

**Fairness.** Only `market` assumes any: weak fairness of `SkipOwn`, `Fill` and
`FinishOrder`. They are the steps of one goroutine that holds the only lock and
never blocks, so the Go scheduler runs it to the end unless the process dies, after
which nothing holds the lock. No client is assumed to call anything.

## 4. What is proved

The `ASSUME`s on the constants are those in the modules, which TLC evaluates on
every instance. The rest of each argument is checked by TLAPS.

| Theorem | States | Argument |
|---|---|---|
| `ExchangeProofs!TypeCorrect` | `[]TypeOK` | inductive as it is, since `TypeOK` speaks of the file as well: a restart loads what was saved. `Fill` changes six variables, so each gets a lemma (`FillOrders`, `FillSettles`, ...). |
| `ExchangeProofs!OrdersAccounted` | `[]OrderAccounting` | inductive with `TypeOK`; the order being matched satisfies the weaker `BeingMatched` until `FinishOrder` sets its status, and the file only ever holds orders that are accounted for, because no save happens during a match. |
| `ExchangeProofs!DepositsOverdraw` | `OnlyDepositsOverdraw` | action property, one step per operation: orders and withdrawals are within what is available, and in a fill base tokens leave balance and lock together, whatever the quantities and prices. It does not say that locks are covered, which a negative deposit ends. |
| `ExchangeProofs!OneWalletPerUser`, `SanctionsLast` | `[]OnePerUser`, `[]SanctionedIsFrozen` | strengthened to `Registry`, which adds that the file always holds the wallets and applications of the memory, even inside a match; `WalletsKept` and `AppsKept` say what all operations but two do at most. |
| `ExchangeBookProofs!BooksHoldLiveOrders`, `LiveOrdersRest` | `[]BookIsLive`, `[]LiveIsInBook` | strengthened to `Books`: each book lists its orders once, in price order, all of them live and not the taker, and every live limit order among them. `RemoveAt`, `Without`, `Sorted` and `Rebuilt` each get a lemma about the set they leave and its order. |
| `ExchangeBookProofs!RestingOrdersApart` | `[]NoCrossing` | strengthened to `Prices`: limit orders of different wallets are `Uncrossed`, in memory without the order being matched and in the file, and the loop has `Passed` own orders only unless the taker is used up. When the loop ends, `Books` makes what is left of the opposite book worse than the taker's limit. |
| `ExchangeBookProofs!TradesAtBestPrice` | `BestExecution` | action property, from the order of the book and `Passed`; `TradesSaved` says that no restart adds trades. |
| `ExchangeBookProofs!MatchesAdvance` | `[][MatchAdvances]_vars` | action property, the loop's variant: what is left of the opposite book (`Unvisited`) is a natural number that every `SkipOwn` and `Fill` lowers. During a match the only other steps are its end, a crash and midnight. |
| `ExchangeBookProofs!OwnersVerified` | `[]TradersAreVerified` | strengthened to `Verification`: a tier other than none is that of the wallet's last approval, without a sanctions match (`Granted`), no approval is ranked beyond their number, and the wallet of every order has a tier, in memory and in the file. |
| `ExchangeSumProofs!FilledIsTraded` | `[]FillsAreTraded` | strengthened to `FillsRecorded`: the same of the file, and every trade names orders that exist, so that a new order starts with no trades. |
| `ExchangeSumProofs!VolumeCounted` | `[]VolumeIsTraded` | strengthened to `VolumeRecorded`, the same of the file. Each trade has a day it was counted on for its maker and one for its taker, which a fill extends by the days it reads; wallets keep their users and orders their wallets, so past trades stay with the users they were counted for. |
| `ExchangeSumProofs!BaseLocksExact` | `[]BaseLockExact` | a wallet's `Slack` is what it has locked beyond the shares of its live orders; placing, cancelling and finishing keep it (`SlackKept`), and so does a fill in base tokens. |
| `ExchangeSumProofs!QuoteLocksCover` | `OrderTypes \subseteq {"limit"}` implies `[]QuoteLockCovers` | the slack in quote tokens never falls: a buyer pays at most its limit, and `LockCovers` bounds the separately rounded fill and remainder by the lock. Needs that every order has a type that can be placed: a market order is locked at a price it may exceed. |
| `ExchangeSumProofs!TradesConserved` | `TradesConserve` | action property: the sum of the base balances, of which two entries change (`SumChangeTwo`), and the frame of `settleTrade`. Of the quote balances `fees` shows that their sum shrinks. |
| `ExchangeSumProofs!ExchangeIsMarket` | `OrderTypes \subseteq {"limit"}` implies `ImplementsMarket` | strengthened to `MarketInv`: while nobody matches, memory and file agree (`Saved`); during a match they differ by what the match has done so far (`Partway`), see below. |
| `ScreeningProofs!ScreeningIsExchange` | `ScreeningSpec => Spec` | each step of the composition is a step of the exchange or leaves it alone. With it every theorem about `Exchange` holds in `Screening`, `EndpointsKeepSanctions` for one. |
| `ScreeningProofs!EveryoneIsScreened` | `[]ApplicationsAreScreened` | strengthened to `ScreeningInv`: handlers know the user and the due outcome of their application, screenings are numbered up to the counter, and the file holds the applications of the memory. |
| `ScreeningProofs!ScreeningsKept` | `ScreeningsAreKept` | action property, from the numbering in `ScreeningInv`. |
| `NodeProofs!TypeCorrect` | `[]TypeOK` | inductive; `WrapType` bounds every counter. |
| `NodeProofs!CertificateMintsOnce` | `[]NoDoubleMint`, `[][CertificatesStay]_vars` | inductive: the scan and the append are one step. `CertificatesStay`: a step removes certificates from the ledger only by losing all of it. So a certificate can be minted again after a torn ledger, and only then. |
| `NodeProofs!TreasuryHoldsMinted` | `[]TreasuryIsMinted` | modular arithmetic: `WrapCongruent` and `WrapSum` carry congruence modulo `2 * Half` through each update, for amounts of either sign. |
| `NodeProofs!HeightsStayNear` | `[]HeightsNearDisk` | strengthened to `HeightInv`: the saved height is in the same span of `SaveEvery` blocks as the current one, or the current one is the first of the next span and its save is pending; a stopped node has no requests in flight. |
| `NodeProofs!RestartHeightGrows` | `DiskHeightGrows` | action property, from `HeightInv`. |
| `NodeProofs!LedgerIsTokenSupply` | `ImplementsSupply` | each action maps to `Mint`, `Burn` (of any amount in `BurnAmounts`), `Lose` or a stutter; `WrappedMovesAgree` turns two wrapped updates into a congruence modulo `2 * Half`, with which the non-linear arithmetic stays in one lemma. |
| `NodeProofs!SupplyReconciled` | `[]SupplyReconciles` | inductive with `TypeOK`: each total moves by the amount of the record appended, modulo `2 * Half`. |
| `SettlementProofs!TypeCorrect`, `OpenAreCounted` | `[]TypeOK`, `[]ActiveCoversOpen` | each needs the other: the counter is a natural number only because it is at least the number of open escrows, and the cardinality argument needs the types. |
| `SettlementProofs!EscrowsSettleOnce` | `[]SettledOnce` | inductive with `TypeOK`: an escrow that is not completed has no record, so the other operations may move it freely. |
| `SettlementProofs!TotalsAreRecords` | `[]TotalsReconcile` | inductive with `TypeOK`: a total moves when an entry enters the set it is summed over, and entries in that set do not change. |
| `SettlementProofs!FinishedStaysFinished` | `Final` | action property, one step per operation. |
| `TokensProofs!TypeCorrect` | `[]TypeOK` | inductive, over the types of the bank, the mint, the burns, the commitments and the records apart; that a negative amount is refused comes from the guards. The total revenue alone is an integer of either sign. |
| `TokensProofs!MintingIsBacked` | `[]MintWithinBacking` | inductive: `TokensWithin` bounds one certificate, and the bounds add up. |
| `TokensProofs!CommitmentsPaidOnce` | `CommitmentPaidOnce` | action property; needs that the committed wallet is not the minting wallet (`TreasuryAssumption`). |
| `TokensProofs!SupplyBacked`, `KeepersAreTokenSupply` | `[]SupplyIsBacked`, `ImplementsSupply` | `SupplyInv` adds that the certificates are finitely many, so that one more adds its amount to their sum; each message changes the sum of the balances by a mint, a burn or nothing (transfers move two entries of one sum), which is the step of `TokenSupply` it maps to. |
| `TokensProofs!BurnStatsAreTotals` | `[]BurnStatsReconcile` | inductive with `TypeOK`: an event joins the sum of all and of its source. |
| `TokensProofs!CommitmentsCovered` | `[]CommittedCovers` | inductive with `TypeOK`: what leaves the committed wallet is a commitment that leaves the funded ones, or a burn. |
| `TokensProofs!RecordsIndexed` | `[]RecordsAreIndexed` | strengthened to `IndexInv`: ids are given out without a gap, so that the next one is new and their number is the count. |
| `TokensProofs!RecordsGrow` | `RecordsOnlyGrow` | action property; every operation either creates a record or lets one grow (`RecordSteps`). |

**Sums.** Totals are `SumFunction` and `SumFunctionOnSet` of the community module
`Functions`, which are folds. `Sums` derives from their definition what the proofs
need: the sum over the empty set, and its change when an element joins, leaves or
changes its value (`SumEmpty`, `SumAdd`, `SumRemove`, `SumChange`, ...). The
library's induction theorems take an operator and are out of the provers' reach.
`Sums` uses induction on sets that are first-order objects instead: were some subset
of a finite set outside a given set of subsets, there would be one of least
cardinality (`FiniteInduction`), and the same argument shows that the fold exists
(`FoldExists`) and does not depend on the set it is carried out in (`FoldsAgree`). A
sum needs a finite set, which is why `Bank` assumes finitely many accounts.

**The market.** `FinishOrder` is one step of `Market` that does all the trades of an
order, so the invariant has to say what the loop has done before. `Partway(t, f)`
relates memory to file through the order `t` as it was placed and the quantity
`f[m]` it has taken of each maker the market allows it: the taker has filled the sum
of `f`, each maker is the file's one less `f[m]`, a maker with something left behind
means that `t` is used up (`MakersPartway`), no price was taken while a better one
had something left (`BestFirst`), and balances and locks are the file's plus the
sums of the market's gains and releases (`WalletsPartway`). `PlacePartway` starts it
with nothing taken, one `Fill` moves `f` at one maker that had not traded yet
(`FillTaken`, `FillBestFirst`, `FillWallets`), and the other steps keep it. At the
end `NothingLeft` says that what is left over could not trade, so `f` is one of the
market's allocations (`FinishAllocates`) and the save is the step `PlaceOne`
(`FinishPlaces`). It needs limit orders: a market order trades at any price, and
what is left of it is live without resting in a book until a restart puts it there.
`Market` promises neither.

**Only model-checked.** `PlaceOrderReturns` is liveness, which the provers do not
reach; `MatchesAdvance` proves the variant that makes it true, and the run checks
the rest of the argument, that the loop's next step is always enabled. Every other
property of a passing run has a theorem. The statements of section 6 are refuted by
runs.

## 5. What is not modelled

- Transaction checks and flags of the compliance keeper: nothing in the node calls
  `CheckTransaction`, so the list of flags is always empty and `ResolveFlag` always
  fails. Its rules and their thresholds are never read elsewhere.
- Of a provenance record the batch of token ids, the energy source (but for whether
  its type is accepted) and the hashes of documents: nothing reads them.
- Wiring between the node and the SDK keepers: there is none in the code.
- Readers. They change nothing; that getters return pointers into maps after they
  release the read lock is listed as a hazard.
- The width of the exchange's and settlement's numbers.
- Writes that return an error, such as on a full disk: the code drops the error and
  goes on with what it has in memory. Torn writes are modelled.
- What a torn file costs: the keepers start empty, in a state that satisfies every
  invariant, and nothing excludes that a certificate of a lost ledger is minted
  again.
- The words "Email + phone verified" of the basic tier (`types.go:54`): `SubmitKYC`
  grants it by the country alone (`keeper.go:635-639`), and no state of the keeper
  shows whether either was verified.
- The encoding of the files: a file either holds what was saved or does not parse.
- Ids, timestamps other than the day and the expiry, names, references, logging.
- Several trading pairs, and the reuse of one wallet's locks across them.
- Block contents other than the height: nothing reads them.

## 6. What the refuted statements say

- `TradesAtLimitPrices` (`types.go:95`): `rebuildOrderBooks` puts the unfilled rest
  of a market order into the book, where after a restart it makes trades at its own
  price, which may be zero.
- `QuoteLockExact` (`types.go:83`): a buy order that fills below its limit leaves
  the difference locked for good.
- `DailyVolumeWithinTier` (`types.go:191`): orders that rest together exceed the
  daily limit they were each checked against.
- `ActiveIsOpen` (`settlement/keeper/keeper.go:433`): `RefundEscrow` overwrites the
  status before it tests it, and never counts the escrow out.
- `FeesAreCollected` (`types.go:183`): `defaultConfig` names a fee collector
  (`keeper.go:77`), but `settleTrade` takes the fees out of both quote balances and
  credits nobody, so that every trade with a fee lowers the sum of what is held.
- `MatchFreezes` (`kyc/types/types.go:88` and `:104`): a user with a sanctions match
  trades, because nothing reads the auto-freeze setting and the exchange's own list
  of countries is another.

Two more things the code does are in the model without a run that refutes a
statement. A burn at the node lowers the supply and no treasury balance, so that the
three balances, which `chain_state.go:22-25` lists after the supply, may hold more
than it (`chain_state.go:153-162`); `TreasuryIsMinted` says what they do hold. And a
negative burn raises the supply as a mint does, with no certificate
(`rpc_server.go:285-303`); `ImplementsSupply` admits it as a burn and says no more
of it.

## 7. Roadmap

In order:

1. `Exchange`, `Settlement`, `ChainState`, `Node`, `Tokens` and their runs, with
   their theorems (done).
2. `Market` and `TokenSupply`, the abstract specifications, and the refinements to
   them (done, and proved).
3. `Compliance` composed with the exchange in `Screening`, and `Provenance` beside
   the other SDK keepers (done, with their theorems).
4. Proofs of the invariants of the books, of everything that is a sum, and of the
   refinement of `Market` (done).
5. `FixedPoint`: the exchange's `int64` products against exact arithmetic, and the
   bounds on price and quantity under which the two agree.
6. The documented behaviours the code may not have, each decided by a run: the
   escrow auto-refund of `settlement/types/types.go:48`, and the previous custodian
   that `provenance/types/types.go:116` says a custody event starts from.
