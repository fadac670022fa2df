# TLA+ verification of the Protocolink JS SDK

The repository is a TypeScript SDK for Protocolink, a router that runs a list of *logics*
(swap, supply, borrow, flash loan, ...) in one transaction. This directory models the part of it
that decides: how the Adapter is set up, how a lending position is read, how an operation on it is
turned into a list of logics, what happens to that list when it runs, and how the user's tokens
reach the agent that runs it. All paths below are under `src/packages/`.

## The system

| Component | State it keeps | Operations | Modelled in |
|---|---|---|---|
| Protocol readers (`lending/src/protocols/*`) | per instance: `blockTag`, `_reserveDataMap`, the token lists; per process: `Protocol.lstAPYs` | `getPortfolio(s)`: a chain of awaited reads | `LendingProtocol` (aave-v3, spark, aave-v2, radiant-v2) |
| Compound V3 reader (`lending/src/protocols/compound-v3`) | per instance: `blockTag`, `_marketMap` | `getPortfolio`, `getPortfolios` (one `getPortfolio` per market, at the same time) | `CompoundV3` |
| Morpho Blue reader (`lending/src/protocols/morphoblue`) | per instance: `blockTag`; per process: `Protocol.lstAPYs` | `getPortfolio` (one market), `getPortfolios` (all) | `MorphoBlue`, refined against `BlockRead` |
| `Portfolio` (`lending/src/protocol.portfolio.ts`) | balances and seven running totals | constructor, `clone`, `supply`, `withdraw`, `borrow`, `repay`, validations, health | `Portfolio`, `PortfolioOps` |
| Amount arithmetic (`common/src/utils`, `lending/src/adapter.utils.ts`) | none | `calcFee`, `reverseAmountWithFee`, `calcSlippage`, `scaleRepayAmount` | `TokenMath` |
| Adapter construction (`lending/src/adapter.ts`, `protocol.utils.ts`, `initializeReservesConfig` of the forks) | `Adapter.Protocols`; `protocolMap`, `reserveTokens`, `reserveMap`, `hasNativeToken` | `registerProtocol`, `createAdapter`, the reserves configuration from the CDN or the chain | `AdapterConfig` |
| `Adapter` operations (`lending/src/adapter.ts`) | none of its own | `collateralSwap`, `debtSwap`, `leverageByCollateral`, `leverageByDebt`, `deleverage`, four zaps, `openByCollateral`, `openByDebt`, `close` | `Adapter` |
| Router and market (outside the repository) | the agent's balances, the flash loan owed, the position | execution of a list | `Router`, refined against `Promise` |
| `RouterKit` (`core/src/router-kit.ts`) | module-wide address caches, the Router each kit is connected to | the three addresses, `calcAgent`, `getPermit2PermitData`, `getPermit2Approvals`, building the transaction | `RouterKit` |
| Tokens, `Web3Toolkit` (`common/src`) | unified-token cache | `unifyTokens`, `getToken`, `getTokens` | `Tokens` |
| API client (`api/src`) | none | one HTTP call per function | only as the environment of the Adapter |
| Smart accounts, test helpers, generated contracts | none | table lookup, tests | not modelled |

How they interact. A program calls `createAdapter`, which awaits one protocol after the other, and
unifies its token lists at the same time. A front end asks the Adapter for a portfolio; the Adapter calls `setBlockTag`
on the shared protocol instance and then `getPortfolio`, which awaits contract reads and API
calls one after the other. The front end hands the portfolio to an operation, which clones it,
awaits quotations from a swapper and the flash loan aggregator, and returns
`{ destAmount, afterPortfolio, error, logics }`. The list goes through the API's estimate,
`RouterKit` prepares the Permit2 permit or approvals for its inputs, the user signs, and the Router's agent executes it atomically on chain, where interest has accrued,
swaps deliver anything down to their slippage, and interest-bearing receipt tokens arrive a few
wei short.

What is hard. JavaScript has no threads, but every `await` lets other calls run: the readers
share fields between calls. An operation is *planned* in one state of the market and *run* in
another. Amounts of one plan (loan, swap, supply, repay) are computed apart and must fit to the
wei. Errors are thrown half way through and leave the output as it is. What was prepared
for a signature (nonces, deadlines, the Router's address) is used much later. Slow answers meet
timeouts and late ones overwrite caches. `PROJECT.json` lists these
hazards line by line.

What makes each component correct:

* construction: an Adapter has every protocol and every reserve, translates tokens both ways and
  counts no balance twice; creating it always settles;
* token lists: one list prevails, for every call; a batch of tokens reads as one by one;
* readers: a portfolio is of one block, the one asked for; it names every reserve; what is cached
  settles; every call settles;
* portfolio: the running totals are those of the balances, however they were reached;
* arithmetic: a reversed flash loan can be repaid, a full repayment covers the debt;
* operations: the list repays its flash loan, takes from the wallet what it says, runs to its end
  as long as the portfolio it shows is healthy enough, and leaves the account with that portfolio;
* RouterKit: all kits and caches mean one Router, inputs go to the agent that runs the list, and
  what was prepared is good for a day.

## The modules

### `LendingProtocol`

One protocol instance, several `getPortfolio` calls, one action per stretch of code between two
awaits. `blockTag`, `reserveDataMap`, `tokenLists` and `lstAPYs` are the shared fields, `calls`
holds each call's locals. A value read from the chain is represented by the block it was read at,
which is all the properties tell apart. `Send` reads the field `blockTag` at the moment of the
send, as the code does (`{ blockTag: this.blockTag }`). `FillReserveDataMap` assigns the map
before the loop that decodes the answer, so a throw leaves it partial. The
variable `scaled`, chosen at the start, tells aave-v3 and spark, whose balances are multiplied by
an index from a second use of the map, from aave-v2 and radiant-v2.

The history variables `fetched` (this call read the reserves and put the map in place) and `quiet`
(all overlapping calls asked for one block) only serve the properties. A call uses the map twice: the
reserves it lists are those of the first use (`reserve`), the indices of aave-v3 and spark those of the
second (`index`), and between the two another call may put another map in place.

### `CompoundV3`

The same question for a class of another shape. `getPortfolios` runs one `getPortfolio` per market
at once (`GetPortfolios`), `getMarket` puts a market together from three reads with awaits between
them (`ReceiveBasics` to `ReceiveTotals`) before it caches it, and one `getPortfolio` consults the
cache three times: for the list of assets, for the prices (`GetPriceMap`) and for the balances
(`GetUserBalances`). Two calls that both found the cache empty both fill it, and the later one
replaces the market under the other's feet, possibly with another number of assets: `AssetsAt`
gives each market's assets block by block. A market is represented by the blocks of its three
reads and its number of assets. `market`, `priced` and `balanced` are the three markets one call
saw. `Entered` runs a call up to its first await, as calling an async function does.

### `Portfolio`, `PortfolioOps`

`Portfolio` has the class as operators on records; the `Adapter` uses them. `PortfolioOps` runs
any sequence of the four mutating methods. Percentages are basis points, amounts are naturals, gross
APYs integers: `calcBorrowGrossApy` (`lending/src/protocol.utils.ts:141-143`) subtracts what the token
earns by itself from the borrow rate. The code's `BigNumberJS` sums and products are exact, so no
rounding is lost.

### `MorphoBlue` and `BlockRead`

The third shape of reader: it caches nothing. One multicall reads positions, markets and prices of
all the markets asked for (`SendMarkets`, `ReceiveMarkets`), then one read per market for its borrow
rate is under way at once (`ReceiveRate`, in any order), each sent at the `blockTag` the instance
has by then; `Promise.all` rejects with the first that fails (`Reject`). The history variables are
those of `LendingProtocol`.

`BlockRead` is the abstract specification: a call asks for a block and is answered once, or fails;
while all overlapping calls ask for one block the answer is wholly of it, and of a call for the
newest block it is no older than the call. `MorphoBlue` implements it under the mapping `ReadOf`
(the property `ReadsOneBlock`). The readers with caches do not: their cached data is of an earlier
call's block, which `QuietSnapshot` states precisely.

### `TokenMath`

The integer arithmetic of fees and slippages, used by `Adapter`.

### `AdapterConfig`

`createAdapter` as one action per await: the loop over `Adapter.Protocols`, which
`RegisterProtocol` may extend meanwhile, skips what has no market on the chain, and either
constructs (`Created`) or configures the reserves, from the CDN (`ReceiveCdn`) or, when that fails
or five seconds are over (`CdnFails`), from the chain (`ReceiveChain`, `ChainFails`).
`InitializeReservesConfig` is the loop of `initializeReservesConfig`, which pushes onto the very
list it runs over (`Visited`). `Rows` is the part of `getPortfolios` that leaves wrapped tokens out
when the flag is set.

### `Tokens`

`UnifyTokens` answers from the cached list or fetches it; `ReceiveTokens` stores what it fetched, or
just the repository's data after a failure, over whatever is cached by then. `GetTokens` is the loop
over the answers of a multicall and its running index, with a contract's metadata told apart by how
a decoder can read them (a string, a `bytes32`, zeroes that are both). `GetToken` is the same for one
address and serves as the reference.

### `Setup`

The composition of `AdapterConfig` and `Tokens`, what a program does first and at once.

### `Adapter`

One operator per operation, returning the `OperationOutput`. What the APIs answer is the argument
`net` (pairs without a route, whether the flash loan aggregator answers), so that each error path
is taken. Operations are sequential on a cloned portfolio and share no state, so their awaits need
no interleaving. A logic is a record; `bps` says that `balanceBps` is set and the agent's whole
balance is used. Three details matter and are kept: the `TokenAmount` of a swap's output *is* the
supply's input (an alias), logics pushed before an error stay in the list, and an opening edits the
logics of its leverage by position, 1 or 2 counted from nothing (`LogicIndex`, `AddZap`), which must be
the supply's.

Native and wrapped tokens are distinct (`Wrapped`, `Unwrapped`), receipt tokens are
`ProtocolToken[t]`, and `AssetTokenized` names the tokens whose supply is such a token.

### `Router` and `Promise`

`Router` composes the Adapter with its environment: `Ask...` (one per operation),
`SendTransaction` (estimate, signature, interest), `ExecuteLogic` (one logic of the list, with
every outcome it may have), `Revert`, `Commit`. The environment is outside the repository and is
modelled from what the code and its comments assume: a few wei lost in transfers of receipt tokens
("sub 2 wei", "add 2 wei", "sub 3 wei"), balance links, slippage, supply and borrow caps, health
checks.

`Promise` is the abstract specification: an offer, then either one step to what was offered (up
to interest, tolerance and slippage) or nothing. `Router` implements it under the mapping of
`Promises` (the property `KeepsPromise`). Its variable `margin` says how far the outcome may stay
behind the offer: nothing when every swap delivers what it was quoted, the slippage when one does
not, and `Spread` when the quotations were reversed, because `quote` of the OpenOcean swapper
(`lending/src/swappers/openocean-v2/lending-swapper.ts:34`) then quotes the opposite trade and
leaves the swap's cost out. While `exact` holds, a debt offered as repaid in full must be gone.

### `RouterKit`

Several kits, several calls, one action per stretch between two awaits; `addressMap`,
`permit2Known` and `agentMap` are the module's caches, `router[k]` the contract kit `k` connected
itself to at its first use. An address that belongs to a Router is represented by the Router it was
read from, so that a stale one shows. `Prepare` begins `getPermit2PermitData` or
`getPermit2Approvals`; the deadline of the first is computed before its last await
(`AskAllowances`), that of the second after it (`ReceiveAllowances`). `SendApproval` and `Execute`
are the account's transactions, at any later time; `Tick` is a day. Permit2, outside the repository,
is modelled from the calls that are encoded for it: allowances with an amount, an expiration and a
nonce, and a signature that is good until its deadline at its nonce. The history variables
`readdressed` (`setContractAddress` came after the first use) and `disturbed` (another transaction of
the account touched these allowances) name the two cases nothing is promised in.

## The runs

| Run | Question | Bounds |
|---|---|---|
| `aave_reads` | Do interleaved calls of an Aave-like instance keep their blocks apart, what does it take to deliver a partial portfolio, do the caches settle, and the calls? | 3 calls, the first for "latest" or block 3, the second for 3, the third for 1 or 3; 2 reserves, of which one is listed at block 2; block 3 comes later or never; either kind of balances. 1.0 million states, 50 s |
| `compound_reads` | Do Compound V3 calls keep their blocks apart, and when does an asset find no price or balance because the cache was replaced? | 2 calls, 2 markets, one of which gets an asset at block 3; blocks 1 to 3 and "latest" |
| `morpho_reads` | Is a Morpho Blue call, with its reads in parallel, one read of one block, and does it settle? | 2 calls, 2 markets, of which one is listed at block 2; blocks as above |
| `portfolio_totals` | Do the running totals follow the balances? | 3 supplies, 2 borrows, small balances; one collateral with its threshold above its ltv, one with the two equal; one borrow with a negative gross APY |
| `operations` | Do the twelve operations keep their promises on a market with receipt tokens? | below |
| `operations_untokenized` | The same for collateral without receipt tokens (Compound V3, Morpho Blue), quoted in reverse | below |
| `router_kit` | Do kits, caches and late answers agree on the Router, and is what was prepared good for a day? | 2 kits, 2 calls, 2 Routers, 2 accounts, 2 tokens; 2 days |
| `setup` | Does an Adapter come out whole whatever is registered, answers or is silent meanwhile, and do token lists agree? | 1 adapter, 4 protocols, 3 token calls, with and without an empty first list |

The properties, by what they are about:

* *Which block*: `QuietSnapshot`. A call asked for a block, all calls that overlap ask for the same
  one: everything read is of that block, cached data only if the call read it itself.
  `ReadsOneBlock`, the refinement of `BlockRead`.
  `InstanceSnapshot`: when every call of an instance asks for one block, the cached data is of it as well.
* *How much*: `PartialTakesOthers` (what must have happened for a portfolio to lack a reserve),
  `EveryAssetPriced` (calls agreed on a block price every asset; otherwise an asset is left out only
  where two calls read the market, one of them with fewer assets).
* *Which writes*: `CachesSettle`, `MarketsSettle` (an action property each: a cached value which no call is
  reading any more stays as it is and is not read again, whatever block is asked for later).
* *Termination*: `Settles` (from some time on no call is in flight), `CreationSettles`.
* *Totals*: `TotalsMatchBalances`, `CanBorrowIsHealthy`, `HealthDropsOnlyByRisk`.
* *Construction*: `WholeAdapter`, `TranslatesBack`, `CountedOnce`.
* *Token lists*: `CustomPrevails` (every token of an answer is replaced, from one list some call has
  fetched, with the repository's own data before it), `AnswersAgree` (once a list is cached and no fetch is under way, it
  answers everyone for good), `AsOneByOne` (a multicall reads what single calls would).
* *Permits*: `OneRouter`, `FundsArrive` (inputs go to the agent that runs the list), `AgentsKept`,
  `GoodForADay`.
* *Lists of logics*: `LoansPaired` (one flash loan at most, repaid after it), `FundsAsTold` (the
  wallet gives exactly what the operation said), `RunsAsPlanned` (nothing reverts while the
  portfolio shown has room), `NothingMissing` (room or not, what stops a list is a check of the market
  or an empty balance, never an amount planned too high: while the list runs each input taken in a fixed
  amount is there, and at its end the loan is repaid), `FailedTouchNothing` (of every operation but a close), `SwapsAsAsked` (every swap
  states what the market quotes and is made with the caller's slippage), and `KeepsPromise`, the
  refinement of `Promise`.

### Bounds

Two calls suffice for one to disturb another. A partial portfolio of aave-v3 and spark takes three: one
that leaves the partial map, one that is handed it, and one that puts a whole map in its place before the
second asks again; `aave_reads` therefore has three, with tags of their own so that the run stays small.
Two reserves, one listed later, give the partial map; two markets of which one grows give the replaced one. `MaxHead` bounds the chain and
is the only bound in a guard of the readers.

The Router runs use amounts of 10000 to 50000 units: a basis point is then at least one unit, a
flash loan fee is 9 or more, and the few wei of a transfer are visible. Fifty thousand exceeds the
caps and the balances, so that the validations fail too; zero takes the early return. Slippages
are 50 and 200 basis points, below and above the default of 100; `operations_untokenized` has 100
and 200, since a reversed quotation is off by twice the cost of a swap (`SwapFeeBps` is 30), which
a slippage of 50 would not cover. Interest is one wei per debt and a transfer loses up to two: the
code's margins are 2 and 3 wei, and `scaleRepayAmount` by one basis point gives 1 to 4 wei on these
debts. Interest beyond the head-room is covered by nothing in the code and is out of the model.

In `router_kit` a signature is good for one day and an allowance for two, in place of 30: a day before
and after each boundary is what matters. One account may start with nothing, one unit for two days, or
everything for a day, for the first Router. In `setup` the CDN lacks the newest reserve, the API may
list ether in either form or both, one protocol is not registered at the start and one has no market
on the chain. There is one contract for each way its metadata may be encoded, and any two of them are
read together, with the native token between them. Three calls for tokens are needed for two answers
made after the list was cached. Adapters share nothing but the list of registered protocols, so one
suffices. In `setup` the calls for tokens are permuted (`SYMMETRY`), which is sound although the run
checks liveness: `CreationSettles` and the fairness do not mention them. The calls of `compound_reads` are
permuted as well, where nothing temporal but an action property is checked, and those of `aave_reads`, with
liveness and tags of their own, are not.

Deadlock is not checked in runs whose behaviours end: each call is made once, a transaction is
sent once, amounts and balances are bounded.

### Disagreements between the code and what is said of it

| Run | Property | What it shows |
|---|---|---|
| `blocktag_race` | `PricesAtBlockTag` | another call overwrites `blockTag` between two awaits: a portfolio mixes blocks |
| `plain_partial` | `CompletePortfolio` | aave-v2 and radiant-v2: a read at a block before a reserve was listed leaves a partial map, and later portfolios silently lack the reserve |
| `close_same_token` | `CloseTakesNothing` | closing into the debt token: the flash loan is smaller than the repayment it is for |
| `open_slippage` | `OpenSlippageAsAsked` | opening a position swaps at the default slippage whatever the caller asked for |

The passing runs are bounded away from these, and from some further cases which the same modules
exhibit when the constant or the property in the last column is changed:

| Case | Code (`lending/src/`) | Constant that shows it |
|---|---|---|
| the cached reserve data is of the first block asked for, whatever a later call asks | `protocols/aave-v3/lending-protocol.ts:188` | none: `QuietSnapshot` asks it only of the call that filled the cache, `InstanceSnapshot` only where all calls ask for one block |
| aave-v3 and spark deliver a partial portfolio too, when a call is handed a partial map, a third call puts a whole one in place and the first one's second use finds that: the reserve is skipped by `continue` | `protocols/aave-v3/lending-protocol.ts:212`, `:333` | `CompletePortfolio` as an invariant of `aave_reads` |
| two overlapping calls for the newest block, one before and one after an asset is added to a Compound V3 market, leave that asset without a price or a balance | `protocols/compound-v3/lending-protocol.ts:165`, `:202`, `:253` | `EveryAssetPriced` excepts it (its second disjunct) |
| while several first calls fetch the LST table, a late failure overwrites a success with `{}` | `protocol.ts:49` | none: `CachesSettle` begins when no fetch is under way |
| Morpho Blue sets the ltv equal to the threshold: a portfolio that may still borrow need not be healthy (above 1.0001) | `protocols/morphoblue/lending-protocol.ts:167-168` | `CanBorrowIsHealthy` without its second condition; "USDC" in `MCPortfolioOps` |
| a list with only the wrapped form of ether loses that reserve | `protocols/aave-v3/lending-protocol.ts:330` | `CountedOnce` excepts it; such a list is in `MCLists` |
| a close that fails returns its loan and its steps on the market with the error | `adapter.ts:463-534` | `FailedTouchNothing` excepts it |
| closing into the native token wraps a fixed amount, which a few lost wei make too large | `adapter.ts:501-534` | `Withdrawals` with "ETH" in `operations` |
| closing with a debt but no supply takes a flash loan that nothing repays | `adapter.ts:463-534` | `Positions` with such an account |
| a close whose swaps slip may leave the last withdrawal short | `adapter.ts:501-534` | `RunsAsPlanned`, `NothingMissing` except it (`draft.exact`) |
| a reversed quotation beyond the slippage leaves a debt | `swappers/openocean-v2/lending-swapper.ts:34` | `ReverseQuotes = TRUE` with slippage 50 |
| the scale rounds away on a debt below 10000 units (`HeadRoomIsExact` is the exact limit) | `adapter.utils.ts:10` | `operations` with a debt of 5000 in `Positions` and 5000 in `Amounts` |
| opening checks the supply cap for the zap and for the leverage apart, not for their sum | `adapter.ts:303`, `:888` | `RunsAsPlanned` excepts it (`OverCapTogether`) |
| opening raises a swap's output after it was quoted | `adapter.ts:296-316` | `SwapsAsAsked` excepts it (`Opens`) |
| opening without a leverage amount swaps the zap token and supplies nothing | `adapter.ts:296` | none: a position opened with nothing but its swap keeps every promise; `Amounts` has 0 |
| scaling a debt by the slippage does not cover a swap at the limit of that slippage | `adapter.utils.ts:10` | proved: `SlippageEatsTheScale` |
| after `setContractAddress` kits in use and cached addresses stay on the old Router, so funds may go to one agent and the list to another | `../../core/src/router-kit.ts:12-16` | `OneRouter`, `FundsArrive`, `GoodForADay` except it (`readdressed`) |
| a permit carries nonces that another transaction of the account uses up before it is sent | `../../core/src/router-kit.ts:104` | `GoodForADay` excepts it (`disturbed`) |
| a failed fetch of the token list is cached, over a good one that came while it was under way | `../../common/src/tokens/utils.ts:97-115` | none: that a failure is cached is what the code does; `AnswersAgree` excepts calls made before all fetches ended (`settled`) |
| a record of lists whose first list is empty is returned as it is, an empty record throws | `../../common/src/tokens/utils.ts:150-178` | `CustomPrevails` says so of the first; the second is left out |
| an empty symbol with a `bytes32` name: `getTokens` throws, `getToken` reads it | `../../common/src/web3-toolkit.ts:106-124` | `AsOneByOne` excepts it (`Mixed`) |
| a CDN list that lacks a new reserve is taken as it is | `protocol.utils.ts:145-164` | `WholeAdapter` asks for the CDN's reserves or the chain's |

Two more were seen in code that the modules abstract from: aave-v2 shows the supply APY for a borrow
(`protocols/aave-v2/lending-protocol.ts:392`), and Morpho Blue scales the total supply of the loan token
by the decimals of the collateral (`protocols/morphoblue/lending-protocol.ts:131`).

## Fairness

`Settles` (`aave_reads`, `morpho_reads`) needs weak fairness of `Continue(c)` for every call. The event
loop resumes every continuation whose promise has settled, so a step that waits for nothing is
taken. A step that waits for an answer is taken because the answer arrives or fails: the provider
gives up on a request after its timeout, and a connection that breaks rejects the promise; both
are the disjunct `Reject`, or, for the LST table, its `catch`. (The HTTP client of the token lists and
the LST table has no timeout of its own: a server that keeps a connection open and never answers is out
of the model.) Nothing is assumed of `GetPortfolio`, `GetPortfolios` or `NewBlock`.

`CreationSettles` (`setup`) needs weak fairness of `Created` (a promise that has settled), of `CdnFails`
(the request has a timer of five seconds, which fires whether or not the CDN is silent) and of
`ReceiveChain \/ ChainFails` (the node answers or its provider gives up). Nothing is assumed of
`ReceiveCdn`: the CDN may never answer.

## What is proved

`LendingProtocolProofs` (any number of calls, reserves and blocks):

* `TypeCorrect`;
* `QuietCallsReadOneBlock`: while all overlapping calls ask for one block, each portfolio is of it,
  save the cached reserve data;
* `PartialPortfoliosTakeOthers` (`PartialTakesOthers`): a portfolio lacks a reserve only after another
  call's read, of a block from before a listing, was cut short; in aave-v3 and spark, where the index of
  every reserve is destructured, only if yet another call has put a whole map in place;
* `OneBlockPortfolios` (`InstanceSnapshot`): when every call of the instance asks for one block, every
  portfolio is that block's, its cached reserve data included;
* `SettledCachesStay` (`CachesSettle`): the map, the LST table and the token lists stay as they are once
  they are there and no call is reading them (an action property).

The inductive invariant `IInv` adds to the types: the map is set once a call is past its first
await (so the second use sends nothing), a quiet call in flight has its tag in the field
`blockTag`, an outstanding read carries it, and a call that filled the map read it at its own tag.
None of the properties is inductive by itself: an answer is right because the *request* was, and
the request because the *field* was when it was sent. `PartialInv` says where the map a call was
handed came from: a partial one from a call that was cut short (and stays rejected), a whole one that
came after it from a call that fetched it. `OneBlockInv` says that all calls are quiet and that the field,
the map and the reads are of the one block. `SettledCachesStay` rests on the map being there for
every call past its first await, so that none of them starts to read it again.

`CompoundV3Proofs` (any number of calls, markets and blocks, any history of the assets):

* `TypeCorrect`. It needs one fact besides the types: whatever a call awaits was sent at a block of
  the chain (`ReadsSent`), or the answer would have no block;
* `QuietPortfoliosAreSnapshots` (`QuietSnapshot`);
* `EveryListedAssetIsPriced` (`EveryAssetPriced`);
* `SettledMarketsStay` (`MarketsSettle`), an action property.

Its `IInv` has the same skeleton, `CallInv` and `QuietInv` and `PairInv`: calls in flight together
are all quiet, for one block, or none is. The step that matters is a `ReceiveTotals` that replaces
a market another call is using. A quiet call still filling and a cached market can only meet if
the market was cached by another quiet call, so it is the market of the same block
(`QuietMarkets`), and replacing it changes nothing. Of quiet calls `EveryListedAssetIsPriced` follows: the three
markets of such a call are equal. Of the others it needs to be known who has read what a call was handed;
`ReadInv` says that of the cache and of every market handed out of it, through whatever replaces them.

`MorphoBlueProofs` (any number of calls, markets and blocks): `TypeCorrect` and `CallsReadOneBlock`, the
refinement of `BlockRead`, by step simulation: `AskStep`, and `ContinueStep` for each continuation. The
abstract `Answer` asks for what no single step establishes, that *all* blocks read are the one asked
for, so `IInv` carries it along: of a quiet call, the outstanding reads, the market's block and each
rate received are at its tag, or, for "latest", between the head at the call and the head now.

`RouterKitProofs` (any number of kits, calls, accounts, tokens and Routers): `TypeCorrect`,
`CachesShareOneRouter` (`OneRouter`), `InputsReachTheirAgent` (`FundsArrive`) and `CachedAgentsStay`
(`AgentsKept`). `OneRouter` is not inductive: an answer still under way could fill a cache with another
Router, and the Router could be moved while only a cache knows it. `IInv` adds that the outstanding
reads ask the configured Router too (`AsksOneRouter`), and that before the first use of any kit nothing
is known and nothing is under way (`UnusedIsEmpty`): then moving the Router disturbs nothing, and
afterwards it sets `readdressed`. `FundsArrive` follows since payee and executor are both the configured
Router at the time of `Execute`, and both are kept.

`PreparedForADay` (`GoodForADay`) needs a second invariant, `Promises`: unless another transaction touched
them, the allowances of a prepared call still have the nonces it was made for, each of its inputs has a
permit, an approval or an allowance beyond the deadline (`Covered`), and a call that reverted did so
after its deadline. The deadline is computed before the last await in one case and after it in the
other; `Promises` bounds it by a day from now while the allowances are awaited.

`PortfolioProofs` (any market, any sequence of operations): `TotalsAlwaysMatch` (`TotalsMatchBalances`),
`TypeCorrect`, `BorrowersAreHealthy` (`CanBorrowIsHealthy`) and `HealthKept` (`HealthDropsOnlyByRisk`, an
action property). The invariant `Balanced` says that each running total is the sum over the balances
it is about, computed afresh. No balance becomes negative, nor any total but the two that gross APYs weigh.
That a portfolio which can borrow has a health rate above 1 is proved where no supplied collateral has its
threshold below its ltv, that it is healthy (above 1.0001) where each threshold is that much above it;
Morpho Blue, with the two equal, has only the first. The sums are folds over the market's tokens: `Parts` gives such a sum
once for any weights, changing one balance changes one summand, and each of the four methods changes
a total by exactly that summand. For the health theorems sums are compared term by term
(`SumBounded`).

`SetupProofs` (any adapters, protocols, reserves, calls and lists). It is proved under `FairSpec`, of which
only the safety part is used. Three invariants, each about state the others leave alone:

* `TInv`, for `AnswersKeepAgreeing` (`AnswersAgree`): a call which found the list settled implies that it
  is cached and nobody fetches it;
* `CInv`, for `AdaptersAreWhole` (`WholeAdapter`), `AlwaysTranslatesBack` (`TranslatesBack`) and
  `AlwaysCountedOnce` (`CountedOnce`): every protocol that has a market on the chain and was registered
  when the creation began is constructed or still ahead of the loop, whatever `registerProtocol` appends
  meanwhile, and what is constructed has its reserves from `InitializeReservesConfig`. Of that loop,
  over a list that grows under it, `VisitsAll` says what it visits;
* `LInv`, for `CustomAlwaysPrevails` (`CustomPrevails`), `AlwaysAsOneByOne` (`AsOneByOne`) and, with `CInv`,
  `TypeCorrect`: a cached list holds the repository's own tokens as they are, and `OInv`: what is cached
  and what a call was answered with is a list some call has fetched, its own if it fetched one; tokens read are those of single calls. Of the loop of `getTokens`, `InStep` says that until
  it throws its running index is at the answers of the next address.

`RouterProofs` (any market, tokens, positions, amounts, slippages and answers of the APIs). First the
arithmetic:

* `ReversalIsTight`: a reversed flash loan is repaid, fee included, from the amount it was reversed
  from, and is the largest such loan but for one unit;
* `HeadRoomIsExact`: a scaled repayment covers the debt, with room to spare from exactly ten thousand
  units times basis points on;
* `SlippageEatsTheScale`: for every debt and every positive slippage `s`, scaling by `s` and
  slipping by `s` ends below the debt.

Then the lists of logics, from one lemma per operation (`CollateralSwapSound`, ..., `CloseSound`) and the
invariant `PlanFits`, that the plan is what its operation answers to the request:

* `FailuresTouchNothing` (`FailedTouchNothing`), for every operation but a close, and `SwapsAreAsAsked`
  (`SwapsAsAsked`), for every operation but the openings;
* `LoansArePaired` (`LoansPaired`), for accounts that owe nothing or have some supply (`Covered`, a
  hypothesis on `Positions`). The proof attempt without it failed for a reason: `close` of an account
  with a debt and no supply returns its loan and its repayments without an error and without the loan's
  repayment (`adapter.ts:501-534`, in the table above). On the market such an account can only
  arise by liquidation.

Then what a list takes from the user's wallet, `FundsAreAsTold` (`FundsAsTold`), for all twelve operations.
`Estimate` runs through the list with what is at hand, so its result says nothing of a part of the list;
the proof gives each part a meaning of its own. `Turns(s, a, b)`: with at least the amount `a` at hand, the
logics `s` run without asking for anything and leave at least `b` of what `a` was (with a receipt token
standing for what is supplied). Single logics turn one amount into another (`MarketTurns`, `StepFair`), turns
compose (`TwoTurns`, `TurnsOn`), and an operation's list is such a chain from the loan to its repayment, the
arithmetic above saying that the last amount covers what is due (`ReversedIsDue`, `FeesAgree`). The loops of
`close` have the invariants `Repaying` and `Withdrawing`: the logics so far *move* the balance of the token
closed into by exactly the loop's running sum (`Moves`), so the loan is spent when the first loop ends and
`destAmount` is what is left when the loan is repaid. One lemma per operation says what it tells
(`CollateralSwapTells`, ..., `CloseTells`), and `PlanTells` carries that to the plan. Its condition `Worthwhile`
was found while proving:

* `collateralSwap`, `zapWithdraw` and, of each supply, `close` leave two or three wei of a receipt token out of
  what they count on (`adapter.ts:610`, `:1398`); asked for one or two wei they quote a negative amount;
* a `close` whose withdrawals do not cover its loan (20000 USDC supplied against 10000 ETH owed, in the units
  of `MCRouter`) is returned without an error, with a negative
  `destAmount` (`adapter.ts:534`), and takes the rest from the user.

Last that the list runs, `NothingIsMissing` (`NothingMissing`), whatever each swap delivers down to its
slippage, whatever the market's checks let pass, with interest on the debts and, but for a close, with up
to two wei lost in the transfers of receipt tokens. The estimate is no help here, since it counts with what
is quoted. The proof says of each logic what it `Surely` gives, given what it takes (a swap nothing, a
receipt token two wei less), and what the agent owes after it (`OwedAfter`); `OutcomePasses` shows that every
outcome of every handler does so much. `Safe(l, x, y)` then says that where `x` holds of the balances and the
debt, `l` has its input, and `y` holds after any outcome; `Runs(s, x, y)` composes such steps along a list
(`RunsOn`), and there is one lemma per operation (`CollateralSwapRuns`, ..., `OpenRuns`): its amounts were
chosen for the worst swap, so the chain of certificates closes. `PlanServes` carries this to the plan until it
is sent, `Going` from there: whatever is left of the list can be run from where the transaction stands.

A `close` has no such certificate: it repays its loan from what its withdrawals are *quoted* to bring, so it
is held to `NothingMissing` only while every swap delivers that and no wei is lost. Under this condition its
estimate does say what happens. Its funds are nothing (`FundsAreAsTold`), and since the funds only ever grow
along the list, they are nothing after every logic: each bill was at hand (`PaidThroughout`). A logic then
gives at least what was counted and takes no more (`OutcomeFollows`, `MoreIsLeft`), so the balances stay at or
above the counted ones, and what is owed goes from nothing back to nothing along the list (`Settles`, which
`CloseTells` establishes with the loops' invariants). `Settling` is the invariant. It needs `Covered`, as
`LoansPaired` does; the other operations need nothing but `Worthwhile`.

The proof found an error in the model: `Repaid` looked for a borrow of the very token repaid and had none
when a native debt is repaid with the wrapped token. It now repays the `Debt` of the token, one
for both forms, as the portfolio's `findBorrow` has it.

`FoldLemmas` has what these proofs share: a set of naturals has a least element, so an assertion that
survives every step of a loop holds at its end; a fold of the community modules is a recursive function of
the index; what is in a concatenation is in one of its parts. It also has the lemmas on joined lists and
on the flash loans paired in them that need nothing of the Router.

Assumptions are the named ASSUMEs of the modules, which TLC evaluates on every run: at least one reserve and
every configured reserve readable at the first head; at least one market; rates of at most 10000 basis
points; a `Wrapped` and an `Unwrapped` that agree, a native and a wrapped token with one receipt token,
which is no token of the market; positive prices and swap fees below the whole; requests within the market's
tokens, slippages of at most 10000 basis points; a default Router among the Routers, deadlines that are
naturals, and a signature's before an allowance's; token lists without duplicates, receipt tokens of one's
own and apart from what is supplied; at least one token in the repository's own data of a chain; one
metadata answer per field and contract; supplies and borrows listed for every token of the market and no
other.

Only model-checked:

* liveness (`Settles`, `CreationSettles`), which is out of the prover's reach;
* `Router!TypeOK`: it does not even hold for every constant, since operations on one or two wei of a token
  with a receipt subtract two or three (`adapter.ts:610`, `:1398`) and go below zero; the code then asks for
  a quotation of a negative amount;
* `RunsAsPlanned` and the refinement `KeepsPromise`. Both compare the executed position with the one shown,
  through prices and the limits of the market, with a room and a margin (`Roomy`, `Margin`) that are chosen for the
  amounts of the runs and are not enough for every amount. `NothingMissing`, which is proved, says for every
  constant that no list fails by its own planning; whether the market's limits let it through is left to TLC.

## What is not modelled, and why

* Formatting, display getters, `netAPY`, `utilization`, conversions of units: no property is about
  them.
* Which swapper is asked and which token a swap goes through (`findSwapper`, `chooseSuitableToken`): the
  Adapter's operations take the market of one swapper, with or without a route for a pair.
* The classes `Token` and `TokenAmount` and their guards (`isTokenArray`, ...): addresses and amounts stand
  for them. The choice of the icon, the name and the slug of a token.
* The layout of what is signed (EIP-712 types) and of calldata; `estimateGas`. Permit2 and the Router are
  modelled from the calls that are encoded for them.
* The HTTP endpoints of the API and the CDN: they answer, fail or are silent. The wrappers of `api/src`
  build one request each and keep no state.
* Smart accounts (a table), test helpers.
* `getProtocolInfo(s)`, which reads the same caches and adds no state.
* Supplying Compound's base token while in debt for it (the market repays instead), so
  `operations_untokenized` has no base supply.
* The API's and the contracts' internals. The contract bindings under every `contracts/` directory are
  generated by TypeChain from ABIs and hold no logic; they are seven tenths of the lines under
  `packages/` that are not tests.

## Plan

1. `LendingProtocol` with proofs. *Done.*
2. `Portfolio`, `PortfolioOps`. *Done.*
3. `TokenMath` with proofs. *Done.*
4. `Adapter`, `Router`, `Promise`, all twelve operations. *Done.*
5. `CompoundV3` with proofs. *Done.*
6. `RouterKit` with proofs. *Done.*
7. `Tokens`: the cached list, its failures, the running index. *Done.*
8. `MorphoBlue`, `BlockRead` and the refinement, proved. *Done.*
9. `AdapterConfig`, composed with `Tokens` in `Setup`. *Done.*
10. Theorems about `Portfolio`, `Setup`, `GoodForADay` and the lists of logics. *Done.*
11. The theorem about `FundsAsTold`. *Done.*
12. The theorem about `NothingMissing`, for all twelve operations. *Done.* The step simulation of `Promise` for a
    list without swaps is left.
13. `findSwapper` and `chooseSuitableToken`; two debts in one close; `isRepayAll` with other amounts.

## Running

    tlc -workers 2 -config operations.cfg MCRouter.tla
    tlc -workers 2 -config setup.cfg MCSetup.tla
    tlapm RouterKitProofs.tla
