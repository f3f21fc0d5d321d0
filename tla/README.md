# Verification of the SpaceMMO game services

TLA+ models of the services behind the game (`services/`), TLC configurations
that check them on small instances, and theorems that TLAPS proves for every
instance. `PROJECT.json` lists the runs, the mutants that show each property can
fail, the source lines every definition models, the hazards and the findings.

All paths below are relative to the repository. Line numbers are those of the
commit the project was written against.

## The system

A player's client and the dedicated Unreal server call a minimal ASP.NET Core
API (`services/SpaceMMO.Api`). Each request gets an EF Core context of its own,
opens one Postgres transaction at the default isolation level READ COMMITTED,
runs one service (`services/SpaceMMO.Data`) with the pure rules of
`services/SpaceMMO.Domain`, and commits. There is no cache between the requests
and no message queue: requests meet only in the rows they read, lock and write.
Nothing is retried. What makes the system hard is therefore the same everywhere:

* READ COMMITTED: each statement sees what was committed when it started, and a
  statement that waited for a row sees that row's latest version and no other's;
* EF's identity map: once an entity is tracked, a later query, `FOR UPDATE` or
  not, gives back the tracked values and drops the ones it read;
* absolute writes: a tracked entity is written back as the value in memory, so an
  unlocked read-modify-write loses updates;
* requests end anywhere: a dropped connection, a deadlock victim, a failed
  constraint. Then everything the transaction did is undone.

### Inventory of components

| component | state | operations | where it is hard | what must hold |
|---|---|---|---|---|
| Market order book (`MarketService`, `MatchingEngine`, `Settlement`, `MarketFees`) | orders with escrow and reserved goods, trades, balances, hangar stacks | place, cancel, match, settle | two takers of one order, cancel against fill, partial fills at better prices, lock order, stale balance | orders hold exactly what they owe; no over- or underfill; credits leave only as fees and tax; closed orders stay closed |
| Faction orders (`FactionOrderService`, `FaucetBudget`) | the day's grants per character, balance, hangar stack | sell to the faction | read-modify-write of the day's row, absolute write of the balance | the daily cap; the ledger explains the balance |
| Quests (`QuestService`, `QuestProgress`) | a row per quest taken, the day's grants, skill experience | accept, record an event, turn in | events in other services' transactions, unlocked turn-in, re-acceptance | no event lost or counted twice; a quest pays once; the cap |
| Gathering (`GatheringService`, `GatheringYield`) | what each deposit still holds, when it refills, when a character last gathered | gather | two gatherers at one deposit, first touch, lazy respawn, stale time of the last gather | no more leaves a deposit than it held; time is spent once |
| Industry (`IndustryService`, `IndustryRefund`, `IndustrySlots`, `IndustryFees`) | jobs, their inputs, slots in use | start, claim, cancel | claim against cancel, the slot count, rounding of refunds | outputs or refunds, once; no more jobs than slots |
| Repair and wear (`RepairService`, `Repairs`) | condition of instances, materials, balance | repair, wear out | stale balance, material stacks | a repair is paid for; condition stays in range |
| Inventory (`InventoryService`) and equipment (`EquipmentService`) | stacks, instances, slots | add, remove, transfer, equip, unequip | unlocked stacks, the two-phase swap of a slot | items are neither made nor lost; one item per slot |
| Ships, docking, whereabouts (`ShipService`, `DockingService`, `WhereaboutsService`) | where ships and characters are, holds | summon, stow, board, dock, undock | several requests with neither lock nor transaction | no step puts a second ship of one hull in the world; the record comes to have ship and pilot where the world has them |
| Combat (`CombatService`) and death (`DeathCostService`) | health, stamina, attack records, deaths, loot | hit, respawn, apply the cost, loot | two lethal hits, a cost applied twice, two looters | one death per life, its cost once, loot once |
| Skills (`SkillAwards`, `SkillCurve`) | experience per skill | award | read-modify-write inside other services' transactions | experience is never lost |
| Ownership (`Caller`, sessions, passwords, the service credential) | sessions | resolve the caller | it tracks the character before the service locks it | see the findings |
| Game server (`SpaceMMOPlayerController`, `SpaceMMODockingComponent`, pawns) | pawns and who is in them, the station a controller holds, what it last reported | possess, dock, place a summoned ship, report, restore | it moves pawns first and tells the backend later, without waiting; what it sends may be lost or overtaken | the record catches up with the world |
| Content, characters and world endpoints, diagnostics, the economy simulator, the client's screens, asset tooling | definitions, reads | load, list, log | sequential or pure, or outside the services | not modelled |

Calls between components: the endpoints call `Caller` and then one service;
gathering, industry, docking and combat call quests inside their own
transaction; market, faction orders, gathering, industry, repair, death and
equipment call inventory; quests, gathering, industry and combat call skills.

## Modules

| module | what it is |
|---|---|
| `MarketRules` | the pure rules of the book: fees, escrow, settlement, crossing, priority |
| `Transactions` | row locks, tracked rows and deadlocks, shared by the services' modules |
| `TransactionsProofs` | lemmas on rows, locks, numbers and sums that the proofs share |
| `MarketTxn` | one station's book for one item, as concurrent requests work it |
| `MarketTxnProofs` | its inductive invariants and theorems, and the proof that it implements `AtomicBook` |
| `AtomicBook` | what the book promises: one placement or one cancel at a time, with no requests |
| `MCMarketTxn` | instances for TLC, and the refinement of `AtomicBook` |
| `RewardRules` | a step's progress, the daily budget, what a faction buys |
| `RewardTxn` | quests and faction sales, as concurrent requests |
| `RewardTxnProofs` | its inductive invariant and theorems |
| `MCRewardTxn` | instances for TLC |
| `GatherTxn`, `MCGatherTxn` | gathering from deposits one shares or has for oneself |
| `GatherTxnProofs` | gathering's inductive invariant and theorems |
| `IndustryTxn`, `MCIndustryTxn` | jobs started, claimed and cancelled, beside goods being stored |
| `IndustryTxnProofs` | industry's inductive invariant and theorems |
| `DeathTxn`, `MCDeathTxn` | hits, deaths, what they cost, respawns and loot |
| `DeathTxnProofs` | their inductive invariants and theorems |
| `Ships`, `MCShips`, `MCShipsDocked` | a character's ships: the backend's record, the game server's world and the requests between them |
| `ShipsProofs` | its types, and that no step makes a second ship of a hull, for any constants |
| `FalJob` | the queue client for paid generations, as processes that overlap and crash |
| `FalJobProofs` | its inductive invariant and theorems |

### The order book (`MarketTxn`)

State. `balance`, `hangar` and `orders` are the committed rows (`characters`,
`inventory_items`, `market_orders`), `nextId` the id sequence and `clock` the
time that expires orders. `charLock`, `orderLock` and `stackLock` say which
request holds each row. The rest is private to a request, as its EF context and
its uncommitted writes are: `pc`, `call`, `seenBalance` (the balance of the
character entity the endpoint loaded), `cand` (rows the crossing query has found
but not locked), `entities` (tracked orders), `stacks` (tracked stacks, with the
quantity read and the one to be written), `delta` (relative changes of balances)
and `fills` (the trades). An order is named by the request that places it.

Steps. A request takes a step up to each statement where it may wait:

| action | code |
|---|---|
| `Resolve` | the endpoint and `Caller.OwnedCharacterAsync`: the character is tracked from here |
| `LockCharacter`, `RefuseFunds` | `MarketService` 118–151: the lock, the fee, the check of the upfront cost |
| `ReserveGoods`, `RefuseGoods` | 153–172 and `InventoryService.RemoveAsync` |
| `Scan`, `LockCandidate` | 592–634: the query's snapshot, then one row at a time, tested again once it is locked |
| `InsertOrder` | 180–215: the order and the stack are written, fee and escrow are taken |
| `Fill`, `Flush` | 219–304: one fill, then the write of the buyer's stack |
| `Commit` | 306–307 and 384–385 |
| `LockOrder`, `RefuseCancel`, `Release` | 326–382: `CancelOrderAsync` |
| `FlushFails` | a write that meets a row that should not be there, or misses one that should |
| `DeadlockVictim`, `Disconnect` | Postgres breaks a deadlock; the caller goes away or the process dies |
| `Tick` | the clock |

Abstractions. One station and one item: orders elsewhere share only the
character's row and other stacks. The top-up of the hangar from pockets (158–165),
item styles and cost basis are left out; no property depends on them. Creating
the hangar is left out: every character has one. The ledger and trade rows appear
as `delta` and `fills`. `PlacedAt` is not kept: ids are handed out in the order
orders are inserted and break its ties. `FOR KEY SHARE` locks taken by foreign
keys are left out: they never block the relative updates, and a request that
would wait for one goes on. An order's row is written with what the match leaves
(194); the model counts down fill by fill, which nobody sees before the commit.
`Conflict` is judged by whether a row is there: a stack deleted and created again
in between counts as there, where the code's write by id would fail; the request
may fail at that step anyway (`Disconnect`). A cancel names an order that a
request of the instance places.

What it implements. `AtomicBook` has two variables, the credits and the book as
traders see it, and two actions. `Place` takes a set of resting offers whole, the
last one perhaps in part, in the order of price and age, pays everybody and rests
what is left; `Cancel` withdraws. `MCMarketTxn` maps `balance` to its credits and
each row of `orders`, without what it holds, to an offer. Every commit of the
detailed module is then one `Place` or one `Cancel`, and every other step changes
neither. A placement of `AtomicBook` need not meet all the offers it crosses:
which it meets is left open, because the code's query sees only what is committed
when it runs (see "Told without a run").

### Quests and faction sales (`RewardTxn`)

State. `balance`, `counters` (a hangar stack, skill experience and the credits
granted in each day, which requests read, change in memory and write back),
`quests` (`character_quests`) and `ledger` (the sum of a character's entries) are
committed; `charLock`, `questLock` and `counterLock` are row locks. `txn[r]` is
private to request `r`: where it is (`pc`), its `call`, `seenBalance`, the `event`
it records, the rows it has found (`cand`) and has still to apply the event to
(`todo`), the `entities` and counters it tracks, and the reward it is paying
(`due`, `owed`, `paid`).
`recorded` and `noted` are history: the units of events applied to each step of
each row. A row is named by the request that accepts the quest.

| action | code |
|---|---|
| `Resolve` | the endpoints and `Caller.OwnedCharacterAsync` |
| `GuardActive`, `InsertQuest`, `RefuseAccept` | `QuestService.AcceptAsync` 68–121 |
| `LockCharacter` | the caller of `RecordProgressAsync`: gathering locks the character first, claiming a job does not |
| `Scan`, `LockQuest` | 220–231: the query and its row locks |
| `ApplyEvent` | 238–302 and `QuestProgress.Apply` |
| `CountWhereDocked` | 306–311: a step just reached may be docking where the character is |
| `FindReady`, `RefuseTurnIn` | `TurnInAsync` 340–358 |
| `Complete`, `Grant`, `RefuseGrant`, `Pay` | `CompleteAsync`, `ApplyDailyCapAsync`, `AdjustBalanceAsync` |
| `ReadBudget`, `TakeGoods`, `RecordGrant`, `RefuseSale` | `FactionOrderService.SellAsync` |
| `SaveQuest`, `SaveCounter`, `SaveBalance`, `SaveFails`, `Commit` | `SaveChangesAsync`, row by row in any order, and the commit |
| `DeadlockVictim`, `Disconnect`, `Tick` | failures and time |

Abstractions. What a character did to raise an event (the goods gathered, the
job claimed) belongs to other modules; here it is the event and the locks held.
An objective stands for a type of action with its target, so a family of items is
one objective. One item is sold to the faction and one skill rewarded. Where a
character is docked does not change in an instance. A counter of zero stands for
a row that is not there. The prerequisite and whether a quest is in progress are
read in one step: a completed prerequisite stays completed, so reading it earlier
shows nothing else. Foreign keys' share locks are left out, as in `MarketTxn`.
Retired quests are left out: content does not change while the server runs.

### Gathering (`GatherTxn`)

State. `lastGathered`, `pockets` and `xp` are the character's, `states` the rows of
`resource_node_states`: one for everybody where the deposit is shared, one for
each character where it is not, and none until somebody touches it. `txn[r]` holds
the request's step, the time of the last gather as the endpoint loaded it, the
clock as read under the character's lock, and the deposit's row as locked. `drawn`
and `refills` are history, and so are `late` (deposits worked by a request that had
read the clock before the one ahead of it) and `overlapped` (characters with two
requests at once).

| action | code |
|---|---|
| `Resolve` | the endpoint and `Caller.OwnedCharacterAsync` |
| `LockCharacter`, `Refuse` | `GatheringService` 104–131: the lock, the tool and the skill, the clock |
| `SelectState`, `SelectNothing`, `InsertState` | 252–337: `SELECT … FOR UPDATE`; where there is no row, `INSERT … ON CONFLICT DO NOTHING` and select again |
| `GatherNothing`, `Gather` | 133–223 with `ApplyRespawn`, `GatheringYield` and `RoomForAsync` |
| `Disconnect`, `Tick` | failures and time |

Abstractions. A tick of the clock is a tick of extraction. The wear of the tool,
the style and where the character stands only refuse; quests count what was
gathered in the same transaction, which is `RewardTxn`'s.

### Industry (`IndustryTxn`)

State. `balance`, `xp`, `hangar`, `pockets` and `jobs` are committed rows.
`charLock` is taken by starts, `jobLock` by claims and cancels; storing goods takes
none. `txn[r]` has the balance the endpoint saw, and the stacks and experience as
first read. `returned` and `settled` are history, and `mixed` the characters with
two requests under way that share no lock.

| action | code |
|---|---|
| `Resolve` | the endpoints and `Caller` |
| `BeginStart`, `RefuseStart`, `SaveStart` | `StartJobAsync`: lock, slot, fee, inputs from hangar and pockets (`TopUpAsync`), then the save |
| `BeginEnd`, `RefuseEnd`, `SaveClaim`, `SaveCancel` | `ClaimJobAsync`, `CancelJobAsync`, `IndustryRefund` |
| `BeginStore`, `RefuseStore`, `SaveStore` | `CharacterEndpoints.TransferAsync`, `InventoryService.TransferAsync` |
| `Abort`, `Tick` | a refused save, a caller that goes away, a crash; time |

Abstractions. One station and one style. Skill, tool and retired recipes are
refusals like the others and left out. Stacks are read in one step and saved with
the commit in another: what lies between changes nothing others see, and a save
that meets a row that should not be there, or misses one that should, cannot
happen (`SaveFails`), which leaves the request to `Abort`. Cost basis, putting the
output on (`EquipIfSlotEmptyAsync`) and the quests a claim advances (`RewardTxn`)
are left out, and so is a claim that waits for a row a start has written: it would
only come later.

### Fights, deaths and loot (`DeathTxn`)

State. `health`, `lastCombat`, `xp`, `attacks`, `deaths`, `condition`, `carried` and
`crates` are rows; `world` says who is docked and who has been placed in the world.
Health is stored as of the last fight and worked out when asked (`Current`), so
the history keeps `vitality`, health that really ticks. `landed` and `destroyed`
count damage and goods; `overlapped` has the characters that two requests respawn
at once.

| action | code |
|---|---|
| `Begin` | the endpoints: what is read before the locks |
| `LockCharacter` | `LockPairAsync` row by row in the order of ids, `ReadPairAsync`, the clock |
| `HitLands`, `RefuseHit` | `CombatService.HitAsync` 285–360, `PvpRules`, `CombatHealth` |
| `SettleDeath`, `NothingOwed` | `DeathCostService.ApplyAsync` and `DeathCosts`, called by itself or first in a respawn |
| `Revive`, `RefuseRespawn` | `CombatService.RespawnAsync`, on the character that was tracked |
| `LockCrate`, `Take`, `RefuseLoot` | `DeathCostService.LootAsync` |
| `Disconnect`, `Tick` | failures and time |

Abstractions. One weapon stands for what is worn, and its damage for the hit.
Reach and standing are refusals left out; so are stamina, the experience of other
skills (and constitution, which would raise `MaxHealth`), cost basis, creatures,
and characters with no station to return to. A material is one unit of volume. A
hit that holds both locks is as good as instant: the clock does not tick between
its reading of the time and its save.

### Ships (`Ships`)

One character, its hulls, and three parties. The backend keeps the record: `docked`,
`active`, `aboard` and `seen` on the character's row, `hangar` and `deployed` on each
hull's. The game server keeps the world: `pilot` is the pawn its player possesses,
with the station that pawn's docking component remembers; `parked` has the pawns of
hulls nobody is in; `held` and `reported` are what the controller remembers
(`ResumeAtStationId`, `ReportedAboardHullId`). The wire is between them: `sent` has
the requests the backend has not taken up, a set because nothing orders them;
`answers` what it said of the active ship, `nudges` the calls by which the player's
client asks the game server to look. `looking` and `saving` are the backend's
handlers at work: those that have read the character's row, with what it held, and
those that have read all they go by, with the columns they will save.

Nothing is assumed of the requests. Whatever is sent may be lost (`Tell`), is taken up
in any order, and the player waits for nothing. A handler reads, and its `Save` comes
any number of other steps later, over whatever the rows then hold: EF writes the
columns that were assigned another value than was read, and no others. A request
that would change nothing ends when it has read. A server may end at any time, with
or without its last words.

| action | code |
|---|---|
| `Dock`, `Undock` | `DockingService` 50–124 |
| `Board`, `Disembark`, `RecordShipWhereabouts` | `ShipService` 198–425: rows read, and what is to be saved |
| `RecordSeen` | `WhereaboutsService` 52–71 |
| `LookAtCharacter`, then `Summon`, `RefuseSummon`, `Stow` or `TellActiveShip` | `ShipService.SummonAsync` 52–167, `StowAsync`, `ActiveShipAsync` 286–333: the character's row first, then the hull's |
| `Save` | their `SaveChangesAsync`; a client that hears its summons granted nudges the game server |
| `SummonShip` | `SpaceMMOStationOverlay` 1769–1784, `SpaceMMOBackendClient` 1332–1362: the player's own client asks |
| `ShipSummoned`, `PlaceSummonedShip` | `SpaceMMOPlayerController` 2445–2742: ask what the active ship is, then adopt the pawn flown, stand one beside the station or where it was recorded, or do nothing |
| `Embark`, `StepOut` | `ServerEmbark`, `ServerDisembark`, and what possession does (`RefreshPossessedPawn`, `ReportBoarding`) |
| `DockHere`, `DockShip`, `LeaveDock` | `SpaceMMODockingComponent`: the dock key on foot or alongside; in a ship where one can step out, which puts the ship away; the key again, or the range check |
| `RecordWhereabouts` | 2916–2971, every 15 seconds |
| `SignIn`, `SignOut`, `ShutDown` | `AdoptIdentity` with `RestoreWhereabouts`, `Destroyed`, `EndPlay` |

Abstractions. A request that fails before its save is one that was lost. The Ships
tab's own refusals are left out: they go by a list that may be old, so any hull may be
asked for. A request that is sent twice before it is taken up counts once. Positions
are places: stations and fields, some of them ground to stand on. A pawn that has left
its station waits for the range check before it does anything else. A station is in
the world before anyone who is docked there is put back. Ships that are nobody's go once nobody is in them. Death, the home start, a second session
of one account, holds and retired stations are left out; the quests that docking
advances are `RewardTxn`'s.

### Paid generations (`FalJob`)

`fal_job.py` submits a job that costs money, and is run again by whoever finds its
receipt. State: `disk` and `temp`, what each file and its temporary name hold;
`queue` and `outcome`, the provider's; `proc`, each process. A file opened by one
process and moved by another goes on being written where it now is
(`handle`), so two that save one receipt at once can tear it; `overlapped` says
they did.

| action | code |
|---|---|
| `CreateExclusively`, `RefuseCreate`, `OpenTemp`, `Write`, `Replace`, `SaveFails` | `save_json` 23–33; a download goes through a temporary name in the same way |
| `CheckReceipt`, `CallSubmit`, `CallFails` | `submit` 54–83: the receipt comes before the call, and an error leaves it |
| `ReadReceipt`, `Query`, `ReadResult`, `FetchResult`, `QueryFails`, `Judge`, `Download` | `resume` 142–167, `queue_status`, `download_result` |
| `CheckUpload`, `Upload` | `upload` 170–182 |
| `Crash`, `ProviderAdvances` | a process that dies; the provider's queue |

One task directory holds one job, one result and one medium.

## Properties, runs and bounds

| run | checks | what it shows |
|---|---|---|
| `market` | `TypeOK`, `CommitmentsExact`, `CopiesCurrent`, `TradesAgreed`, `OrdersAccountForTrades`, `CreditsConserved`, `ClosedForGood`, `ImplementsAtomicBook` | what orders hold, what tracked copies show, what trades record and where credits go stay exact through concurrent takers, better prices, cancels and failures; and what is committed is what one placement or cancel after another would do |
| `market_ends` | `EveryRequestEnds` | no request waits for ever: locks are released and deadlocks are broken |
| `rewards` | `TypeOK`, `ProgressExact`, `PrerequisitesHeld`, `QuestsOnlyAdvance` | no event is lost or counted twice, prerequisites hold and quests never go back, through concurrent events, completions, turn-ins, sales and failures |
| `gather` | `TypeOK`, `DepositsAddUp`, `PacksAddUp`, `SupplyKept`, `RateKept` | no unit leaves a deposit twice or gets lost on its way to a full pack; deposits do not refill early and time waited is worth no more than it should |
| `industry` | `TypeOK`, `SettledOnce`, `FeesAddUp`, `GoodsAddUp`, `WorkPaid`, `SlotsKept` | a job ends once, each costs its fee, goods and experience add up and slots are kept |
| `death` | `TypeOK`, `HealthAsIfTicking`, `FightsAddUp`, `WearExplained`, `RespawnSettles`, `GoodsAccounted`, `NeverStuck`, `FightsMoveForward` | stored health is what it would be had it ticked; each death costs once, before its character lives again; goods are carried, in a crate or destroyed; fights cannot deadlock |
| `fal_job` | `TypeOK`, `SubmittedOnce`, `DeliveredIsThere`, `NamedJobKept` | a task is paid for once, its id survives crashes, and a receipt does not promise what is not there |
| `ships` | `TypeOK`, `NoSecondShip`, `WhereaboutsCatchUp` | whatever is lost, late, out of order or handled on stale rows, no step brings a second ship of a hull into the world but the adoption told of below; and the record comes to have whoever stays put, and the ship flown, where they are |
| `market_overspend` | `NeverOverspent`, violated | finding 1 |
| `rewards_paid_twice` | `StoryPaysOnce`, violated | finding 2 |
| `death_owed` | `OneDeathOwed`, violated | finding 3 |
| `ships_docked` | `FlyingAwayUndocks`, violated | finding 4 |

Bounds of `market`: two characters, a book of two asks at different prices (one
of which expires), three requests drawn from five calls, the clock up to 1.
Three requests are what the interesting cases need: two takers of one order and
a third that cancels it, or an order placed, filled in part by another and
cancelled. The asks are priced so that a taker fills at a better price than its
limit, takes two orders of which the last in part, and may meet a seller who
came after it. Requests are numbered in the order they arrive, which is a
symmetry: a request only differs from another by its number. `market_ends` keeps
the clock at 0, which takes nothing from the waiting. The violation runs use the
smallest book that shows the disagreement.

Bounds of `rewards`: everything a quest or a sale touches belongs to one
character, so one is enough. The journal starts with a story under way or ready
to be turned in beside a haul just begun or nearly done; three requests are drawn
from five calls. They are what it takes to hand in a story, accept what it
unlocks and complete two quests by one event, to advance one step twice at once,
and to deadlock a claim that completes a quest with a gather. Two units of budget
and a reward of two make the cap bite; the clock moves once.

Bounds of `gather`: two characters of different pace, a shared deposit of three
units and one of two that each has for oneself, four requests, pockets that one of
the two nearly fills, the clock up to 2, which is both the respawn time and the
most that can be banked. Four requests empty a deposit, come too early and too
late for its respawn, and meet at the first touch.

Bounds of `industry`: one character works with two recipes, of which the second
uses what the first makes, beside another who may only try to claim the first's
job. Four requests start, end and start again; the store call meets them anywhere.
The first recipe takes two ticks, so a cancel may come before, at half time and
after; three of its ore come in part from pockets, and go back as three, two or
none. The first experience gained opens a second slot.

Bounds of `death`: two characters of two factions, one of health 2 and one that
starts hurt, dead, or dead at a station; four requests are what it takes to kill,
cost, respawn and loot, with the clock up to 2: one tick of waiting and one of
regeneration. `death_owed` needs a hit that kills at once, and no clock.

Bounds of `fal_job`: three processes, which is one more than it takes to overlap,
each with any of the four commands, dying or failing at any write.

Bounds of `ships`: two hulls, each kept at a station of its own; a hub on the ground
with a hillside a walk away, and a shipyard in orbit, where a ship stays alongside.
The character starts on foot with no ship about, on foot beside a ship left standing,
or in flight. Three requests on their way are what a ship's docking sends at once
(dock, disembark, stow). Two handlers at work are what it takes for one to save over
what another has read: two summonses, a summons and a stow, a boarding and a question
about the active ship. Two nudges and two questions at once let an old answer come
after a newer one. Two acts of the player, a sign-out or the server's end among them,
with all that the timers, the backend and the answers do in between, reach a pawn
destroyed under its pilot by an old answer, and two pawns of one hull by an adoption.
`NoSecondShip` is proved for all bounds; `ships_docked` has one hull and four acts,
which is what its trace takes.

What some properties leave out. `SupplyKept` leaves out deposits worked out of
turn, `RateKept` characters with two requests at once, `GoodsAddUp`, `WorkPaid` and
`SlotsKept` those with requests under way that share no lock, `RespawnSettles` those
that two requests respawn at once (finding 3), and `NamedJobKept` a receipt that two
processes save at once. Each says so in its comment. Inside those histories the runs
let everything else happen.

Both properties of `ships` let everything happen: no order, no patience and no lasting
server is assumed. What they do not promise is what the code does not give.
`NoSecondShip` excepts one step, in which a ship restored in flight is taken for the
hull the record says is flown while another of that hull stands somewhere
(`TakenFor`): nothing looks. And the part of `WhereaboutsCatchUp` about the ship says
again and again, not for good, because each summons of a hull takes it off the record
until the next report. That what is recorded of boarding and stowing agrees with the
world is no property, because it is told once and a lost word stays lost.

The configurations of the services and of `fal_job` turn TLC's deadlock check off:
when every request has ended the instance has nothing left to do. That requests do
end is `EveryRequestEnds`. Those of `ships` do so because the player's acts are
bounded, and one who has signed out may have nothing left to do.

Fairness. `FairSpec` asks weak fairness of `Step(r)` for each request: the server
runs every request it has taken on, and Postgres grants a lock once it is free
and breaks deadlocks. It does not ask that a request arrives, that the clock
moves, or that connections drop (`Resolve`, `Tick`, `Disconnect`). Postgres queues
lock requests, so a request whose row is freed again and again does get it; in
the instance rows are freed a bounded number of times and weak fairness is enough.

`Ships` has a `FairSpec` of its own. A handler that has begun goes on (weak fairness).
Of the reports of whereabouts that the 15-second timer sends, some arrive whole, and of
those that are true some are handled (strong fairness): a network that loses any
number of reports, but not every one for ever. The backend takes up many requests at
once where the instance takes two, and reports that have become untrue may come first,
which is why the handling asks strong fairness of the true ones. Nothing else is fair:
no player acts, no summons, boarding, docking or stow need arrive.

## Findings

1. **Two orders can spend the same credits** (`market_overspend`). The endpoint
   loads the character in the request's context (`Caller.cs:89-91`), so the
   `FOR UPDATE` query of `LockAndReadBalanceAsync` (`MarketService.cs:569`) locks
   the row and returns the entity loaded earlier, with the earlier balance. The
   comment at 563–564 says the lock prevents exactly this. No check constraint
   keeps a balance from going negative.
2. **A quest can be turned in twice at once** (`rewards_paid_twice`). The ready
   row is read without a lock (`QuestService.cs:346`): both requests complete it
   and both pay, where 332–333 promises that the second throws. Accepting has the
   same effect one request after another: `AcceptAsync` refuses a quest in
   progress or completed (87–98), not one that waits to be turned in.
3. **A respawn can undo a death** (`death_owed`). The endpoint takes the death's
   cost in one transaction and revives under no lock, on the character tracked
   before (`CombatEndpoints.cs:188-192`, `CombatService.cs:373`). A respawn that the
   game server gave up on, and its retry, are two such requests; killed between
   them, a character lives again while the death is still owed, and may die once
   more. `DeathCostService.cs:131` says that only one can be owed.
4. **Flying away does not always undock** (`ships_docked`). Docking on foot records
   the station and returns without telling the controller
   (`SpaceMMODockingComponent.cpp:209-214`). A ship boarded next has a docking
   component that is docked nowhere, and its range check does nothing; the record
   stays docked, and the market of that station open, however far the ship flies.
   The comment at 495–497 says that flying away undocks, so that nobody keeps trading
   on a book from somewhere else.

Told without a run. The modules show these as well; each was found by TLC as the
violation of one invariant, and has no run of its own any more:

* a hangar stack can lose or gain goods: stacks are read, changed in memory and
  written back without a lock (`InventoryService.cs:164`), so a delivery and the
  owner's own placement overwrite each other. `docs/economy-design.md:367-368` calls
  any drift a dupe bug;
* banked time can be spent twice: as in finding 1 the character is tracked before it
  is locked, so two gathers sent together both see the `LastGatheredAt` from before
  either (`GatheringService.cs:133`). The comment at 202–203 says calling repeatedly
  cannot do this;
* two placements can deadlock: a fill credits the other party's character row
  after order rows are locked (`MarketService.cs:278`), where 126–127 says locks are
  always taken in the same order. Postgres breaks it (`DeadlockVictim`) and one of
  the two players gets an error;
* crossing orders placed together can both rest: the query at
  `MarketService.cs:592-634` locks the rows it finds and not the book, where
  `docs/economy-design.md:423` promises an immediate match;
* a sale to the faction can undo a reward: `FactionOrderService.cs:135` writes the
  balance the endpoint read, plus the price, where every other payment is a
  relative update (`docs/economy-design.md:369-370` asks the ledger to explain the
  balances);
* a sale can exceed the daily cap: it reads the day's row to size the sale and
  again to record the grant (`FactionOrderService.cs:106`, 130), and a reward
  committed in between is not taken off (`docs/economy-design.md:371-373`);
* a game server that dies after a boarding and before the next report of whereabouts
  leaves a character that wakes up on foot and is recorded aboard. Every answer about
  its ship is then "being flown", so no summons brings it, where
  `ShipService.cs:120` calls a ship in the world always recoverable. One that dies
  after a step out and before the next report wakes the player in the ship it had
  left, which is also stood where it was;
* boarding, stepping out and stowing are told once and not again: if the word is lost
  the record stays wrong about who is aboard or what is in the hangar, and after the
  next sign-in a ship can be adopted while another pawn of its hull stands outside;
* a summons destroys the hull's pawn on the word that nobody is in it
  (`SpaceMMOPlayerController.cpp:2600-2602`). The word is as old as the answer: a
  second summons, pressed before the first is done, takes the pawn from under a
  player who has boarded in between;
* a summons is granted on the hull's and the character's rows as they were read
  (`ShipService.cs:52-167`), and saved without a lock: one granted for a hull outside
  is saved after that hull was put away, or for a station the character has left;
* stepping out of a restored ship before it learns its hull leaves the character
  recorded aboard, and signing out between a summons and its nudge leaves a ship
  standing that is recorded in a hangar;
* whereabouts that arrive late stand a hull outside that has been put away
  (`ShipService.cs:403-405`): nothing says which report is newer, and nothing makes
  HTTP requests arrive in the order they were sent;
* a second hull summoned while the first is flown becomes the active one, so a player
  who signs out and in again is restored into a ship that never learns its hull
  (2547–2549 say that it does);
* a ship left between two reports is recorded where the last report had it, not where
  it was left.

## Proofs

`MarketTxnProofs` proves, for any sets of characters, requests and calls, any
initial book that is consistent and any rates allowed by `RatesAssumption`:

* `TypeCorrect`: `Spec => []TypeOK`, with stacks that never go negative;
* `CommitmentsHeld`: `Spec => []CommitmentsExact`;
* `TradesHeld`: `Spec => []TradesAgreed`;
* `CopiesStayCurrent`: `Spec => []CopiesCurrent`;
* `ClosedStaysClosed`: `Spec => ClosedForGood`;
* `AccountsHeld`: `Spec => []OrdersAccountForTrades`;
* `CreditsHeld`: `Spec => []CreditsConserved`;
* `BookRefined`: `Spec => ImplementsAtomicBook`;
* `NothingIsMinted`: `Spec => NothingMinted`, no step makes balances and escrow together
  more than they were.

None of these is inductive alone. What an order holds after a commit is what the
request's copy held, so the copies must be exact too (`CopiesExact`); a commit
must not undo another's, so copies must be of rows the request has locked and
that have not changed since (`LockedCopies`); and that needs to know which private
fields are in use at each step (`ControlOK`): only a request past its scan has
candidates, only one that placed has fills, and one that ended has nothing.
`IInv` is the conjunction of the named parts; `InitIInv` and `StepIInv` show that
it is inductive, with one lemma per part and one step per action that can disturb
it, and the theorems follow from `Invariance`. Three theorems are about the arithmetic.
`ReleasedAtLimit`, under `CommitmentsExact`: whatever price a fill executes at, it
releases its share of the escrow at the buyer's own limit. `ChargedNoMoreThanDue`: what
is rounded up is the least whole amount that will do. `SellerNeverOwes`: a sale's tax is
at most its price.

The sums follow from what each request owes before it commits (`SumInv`). What an
order being placed has taken is what it is short of (`TakersAccount`). What a request
will change on balances, what its tracked orders hold more or less than the committed
ones, and the fees and tax it will have charged come to nothing together
(`AllSettled`). A fill changes all three, a commit moves all three from the request's
sum into the book's, and the sums over all rows move by as much. What it will have
charged is never negative, which is why nothing is minted (`NothingIsMinted`); that
holds of whoever overspends, too (finding 1).

The refinement (`BookInv`) adds what the atomic book says of a placement as a whole.
A request fills better offers first, and leaves none it can still use behind one it
has filled (`FilledInOrder`); so what it took of each offer is what is left of its
quantity after the better ones, or all of that offer (`TakenIsFilled`). Its balance
changes are what those fills pay at the makers' prices, less its fee and escrow, or the
escrow of the order it cancels (`DeltasExplained`). The id it was given is its own and
one of as many as there are requests (`IdsLast`). Then a commit is `Place` of just the
offers it filled (`PlacesAtOnce`) or `Cancel` (`CancelsAtOnce`), and every other step
leaves balances and offers alone.

`GatherTxnProofs` proves, for any characters, nodes, requests, sizes, rates and
times allowed by `GatherTxnAssumption`:

* `GatherTypeCorrect`: `Spec => []TypeOK`: no deposit holds more than it can, no
  pack more than its capacity;
* `DepositsHeld`: `Spec => []DepositsAddUp`;
* `SupplyHeld`: `Spec => []SupplyKept`;
* `RateHeld`: `Spec => []RateKept`;
* `PacksHeld`: `Spec => []PacksAddUp`.

What a request saves is computed from its copy of the deposit's row, so the copy must
be the row from the moment it is read until the commit, which the row's lock gives
(`ControlOK`). Only an emptied deposit waits to refill (`EmptyWaits`), so a refill
adds exactly what the deposit holds. A character that asks one request at a time has
read the time it last gathered (`OneAtATime`), and each request moves that time to its
own by as much as it takes, which bounds what it has gathered by the time it has waited
(`RatePaced`). A refill comes a respawn time after the last (`RefillsPaced`).

`RewardTxnProofs` proves, for any quests, characters, requests and calls, and any
journal that is consistent (each row exact, its prerequisites completed;
`RewardTxnAssumption`):

* `RewardTypeCorrect`: `Spec => []TypeOK`, with counters that never go negative;
* `ProgressHeld`: `Spec => []ProgressExact`;
* `PrerequisitesKept`: `Spec => []PrerequisitesHeld`;
* `QuestsAdvance`: `Spec => QuestsOnlyAdvance`.

A request that records an event holds the lock of every quest row it has, the row is
still under way in the database, and its copy is exact once what the request has noted
but not committed is counted (`RecordedRow`). A turn-in locks nothing until it saves.
Its row is none the less the database's but for the completion (`TurnedIn`), because a
row that is no longer under way changes in one way only, by another turn-in of it: that
is why progress is safe though the turn-in races, and why only the pay is not (finding
2). A request that accepts a quest has seen its prerequisites completed (`MayAccept`),
which no commit undoes (`CommitForward`). `OwnKeeps` is shared by all steps that touch
only the request's own context and locks; the commit has lemmas of its own.
`PayoutWithinCap` and `SaleWithinCap` are about one decision: what is paid fits in what
the record of the day leaves of the cap, whatever the cap. That requests which overlap
decide by one record is not excluded; see "Told without a run".

`IndustryTxnProofs` proves, for any characters, requests, recipes, calls and stores
allowed by `IndustryTxnAssumption`:

* `TypesKept`: `Spec => []TypeOK`, with stacks that never go negative;
* `JobsSettleOnce`: `Spec => []SettledOnce`;
* `FeesPaid`: `Spec => []FeesAddUp`;
* `SlotsBound`: `Spec => []SlotsKept`;
* `ClaimsAreTaught`: `Spec => []WorkPaid`;
* `GoodsConserved`: `Spec => []GoodsAddUp`.

A request about to save holds the row it waited for, and what it decided under that
lock still stands: the job it ends is still running, the goods it takes are in what it
has read (`Prepared`). That is enough for jobs to end once and fees to be paid,
because both are about rows the locks are on. Slots, experience and goods are about
rows nobody locks. They hold for a character whose requests share locks, because these
go one after another (`InTurn`), so that each has read what is there (`UpToDate`);
`mixed` has the others, for whom the properties say nothing, as the code promises
nothing. `RefundBounded` is the arithmetic of a refund: never more than was taken, though
it is rounded up.

`DeathTxnProofs` proves, for any characters, requests, materials, calls and worlds
allowed by `DeathTxnAssumption`:

* `TypesKept`: `Spec => []TypeOK`;
* `HealthTicks`: `Spec => []HealthAsIfTicking`;
* `ClocksForward`: `Spec => FightsMoveForward`;
* `FightsPay`: `Spec => []FightsAddUp`;
* `WearOnce`: `Spec => []WearExplained`;
* `NoDeathFree`: `Spec => []RespawnSettles`;
* `GoodsHeld`: `Spec => []GoodsAccounted`;
* `NoDeadlock`: `Spec => []NeverStuck`.

A request holds the rows of the characters it has seen until it commits, and they are
as it saw them; only a respawn lets go of its character half-way (`Shape`, `Control`,
`Locks`). So the absolute values a hit writes overwrite nothing. For the health
formula, the time since a character's last fight is what its row says and no attack is
of a time to come (`Times`): the clock a hit is decided by is the one it read once it
held its locks, and no tick falls between. For the debts of the dead: so long as no two
respawns of a character are under way (`OneRespawn`), one that is about to revive has
settled what was owed (`Settled`) and no character owes twice or alive (`OwedOnce`). For
the goods, carried, dropped and destroyed are sums that each step moves between. For
the deadlock: of the requests that wait only for one another, take the one that holds
the greatest character: it waits for one greater still, which nobody among them holds.
Crates are taken last.

`ShipsProofs` proves, for any hulls, stations, places, walks, starts and bounds allowed
by `ShipsAssumption`:

* `ShipsTypeCorrect`: `Spec => []TypeOK`;
* `NeverASecondShip`: `Spec => NoSecondShip`.

Nothing is assumed of the order of requests, of their arrival or of the server. The
types hold with what a request of each kind asks to be kept (`WellFormed`) and what a
handler that has looked must have seen (`Looks`: a summons some station, a question
some active ship); `Typed` is their inductive form. For the second theorem the pawns
of a hull are counted, parked (`Among`) and possessed (`Count`), and each step makes
the count of no hull greater, or leaves it at most one (`NoneMore`). Boarding takes a
parked pawn and possesses it, stepping out does the reverse; a summons removes one
before it stands one, and if there was none stands the only one; an answer that stands
a ship where it was recorded does so only if there is none. Nothing the backend does
touches a pawn. What is left is the adoption of a restored ship, which the property
excepts because the code does not look.

`FalJobProofs` proves, for any number of processes, any commands and any result the
provider may make (`FalJobAssumption`):

* `FalJobTypeCorrect`: `Spec => []TypeOK`;
* `OneGeneration`: `Spec => []SubmittedOnce`;
* `NamedForGood`: `Spec => NamedJobKept`;
* `DeliveredHeld`: `Spec => []DeliveredIsThere`.

That one job is submitted rests on claims: a process has one from the moment it has
created the receipt, and keeps it for good once the provider has its job; whoever has
one, the receipt is there, so nobody else creates it (`Claimed`). Ids are only ever
copied (`IdsKnown`), so all are of that job, and before the provider's answer nobody
has one (`Unanswered`). What is moved into place is what its writer meant to save when
nobody else was writing the file (`WritersOK`). A crash or a failed write at any step
only ends a process or sends `submit` to its one last save, and the lemmas of those
steps are shared (`EndKeeps`, `RaiseKeeps`).

Sums. `TransactionsProofs` has what the proofs need of `SumFunction`, the library's fold
over a function: that it depends on the values alone, splits off any element, moves by
what one value moves, adds, pads with noughts and grows. The library's induction
theorems take the property as a parameter, which the provers cannot instantiate, so
induction over a finite set is a lemma on sets of subsets (`SubsetInduction`), by a least
counterexample.

Assumed: the modules' assumptions about their constants, which TLC evaluates on every
run. Only model-checked: `EveryRequestEnds` and `WhereaboutsCatchUp`, which are liveness
under fairness and out of the prover's reach, and the four runs that find a violation.
Every invariant and action property of the other runs, and the refinement, is proved.

## Plan

Done: the order book, checked, proved and shown and proved to implement an atomic book;
quests and faction sales, gathering, industry, fights and deaths, ships with the game
server that stands them in the world, and the client for paid generations, each checked
and proved.

Next: atomic specifications of industry and of a character's journal, as `AtomicBook`
is of the order book; equipment and repair, if runs can be spared.

## Not modelled

The parts `PROJECT.json` lists as `not_modelled`, each with its reason: those in
the plan above, and content loading, accounts and reads, diagnostics, the economy
simulator, the rest of the Unreal client and the scripts that make assets, which keep
no state that requests share or do not run with the services.

The map counts lines of the languages it was measured over, and in this repository
most of that is Python: some 60,000 lines of scripts that build meshes, rigs, levels
and pictures, each one a sequential program that turns files into files. They are
not the system. What runs is the C# of `services/` and the game server's C++, which
are what the models are of. Of the scripts, only `fal_job.py` keeps state that
processes share and crashes can harm, and it is modelled; modelling the others for
the count would say nothing of the game.
