-------------------------------- MODULE DeathTxn --------------------------------
(****************************************************************************)
(* Hits, deaths, what they cost and what they drop, as concurrent requests   *)
(* (services/SpaceMMO.Data/Combat/CombatService.cs, DeathCostService.cs).     *)
(* A hit decides under the locks of both characters and only records a        *)
(* death; the game server's call, or else the respawn, takes what it costs.   *)
(*                                                                           *)
(* A crate is named by the request that dropped it.  Goods are materials of   *)
(* one unit of volume each; what is worn is one thing, the weapon.            *)
(****************************************************************************)
EXTENDS Integers, Sequences, FiniteSets, Functions, Transactions

CONSTANTS Characters,    \* by id
          Requests,      \* numbered in the order they arrive
          Calls,         \* the calls the requests may make
          Materials,     \* by item id
          Faction,       \* of each character
          Protected,     \* characters new to the game
          Armed,         \* characters with a weapon
          Worlds,        \* what may be there at the start
          Capacity,      \* of a character's pockets
          Damage, MaxHealth,
          RegenDelay, RegenRate,  \* ticks after a fight, and health a tick from then on
          RetaliationWindow,
          NewCondition, WearPerDeath,
          LootableFor,
          MaxClock       \* bound on the clock

(* Health not hurt since it was last full, and a time that has not been.      *)
Null == -1

Zones == {"anchorage", "approach"} \cup {Faction[c] : c \in Characters}
HitCall == [op: {"hit"}, char: Characters, target: Characters, zone: Zones]
CostCall == [op: {"cost"}, char: Characters]
RespawnCall == [op: {"respawn"}, char: Characters]
LootCall == [op: {"loot"}, char: Characters, wanted: SUBSET Materials]

Amounts == [Materials -> Nat]
Death == [docked: BOOLEAN, settled: BOOLEAN]
Crate == [items: Amounts, expires: Nat]

ASSUME DeathTxnAssumption ==
    /\ Characters \subseteq Nat /\ IsFiniteSet(Characters)
    /\ Materials \subseteq Nat /\ IsFiniteSet(Materials)
    /\ Requests \subseteq Nat \ {0} /\ IsFiniteSet(Requests)
    /\ Calls \subseteq HitCall \cup CostCall \cup RespawnCall \cup LootCall
    /\ \A c \in Calls : c.op = "hit" => c.char # c.target
    /\ {Damage, MaxHealth, RegenDelay, RegenRate, RetaliationWindow} \subseteq Nat \ {0}
    /\ {Capacity, NewCondition, WearPerDeath, LootableFor, MaxClock} \subseteq Nat
    /\ Protected \subseteq Characters /\ Armed \subseteq Characters
    /\ \A w \in Worlds :
          /\ w.docked \subseteq Characters /\ w.placed \subseteq Characters
          /\ w.health \in [Characters -> 0 .. MaxHealth]
          /\ w.carried \in [Characters -> Amounts]

VARIABLES
    world,                           \* which characters are docked, and placed in the world
    health, lastCombat, xp, attacks, \* of characters; attacks also by whom
    deaths, condition, carried,      \* of characters
    crates,                          \* dropped containers, by the request that made them
    clock,
    charLock, crateLock,
    txn,
    vitality, quiet,                 \* history: health that ticks, ticks since the last fight
    landed, destroyed,               \* history: damage landed, goods that are no more
    overlapped                       \* history: characters respawned by two requests at once

rowVars == <<health, lastCombat, xp, attacks, deaths, condition, carried, crates>>
historyVars == <<vitality, quiet, landed, destroyed>>
dbVars == <<rowVars, historyVars>>
lockVars == <<charLock, crateLock>>
vars == <<world, dbVars, clock, lockVars, txn, overlapped>>

None == [m \in Materials |-> 0]
NoCall == [op |-> "none"]

(* `seen` is the characters the context tracks, as they were when locked;     *)
(* `pockets` and `items` what a looter's query found.                         *)
AtRest(step) ==
    [pc |-> step, call |-> NoCall, armed |-> FALSE, toLock |-> {}, now |-> 0,
     seen |-> EmptyFn, crate |-> Nobody, pockets |-> None, items |-> None]

Steps == {"idle", "lock", "hit", "settle", "revive", "lockCrate", "take", "done"}
Row == [health: Nat \cup {Null}, last: Nat \cup {Null}, xp: Nat]

TypeOK ==
    /\ health \in [Characters -> 0 .. MaxHealth \cup {Null}]
    /\ lastCombat \in [Characters -> 0 .. MaxClock \cup {Null}]
    /\ xp \in [Characters -> Nat] /\ landed \in [Characters -> Nat]
    /\ attacks \in [Characters \X Characters -> 0 .. MaxClock \cup {Null}]
    /\ deaths \in [Characters -> Seq(Death)]
    /\ condition \in [Characters -> 0 .. NewCondition]
    /\ carried \in [Characters -> Amounts] /\ destroyed \in Amounts
    /\ IsPartialFn(crates, Requests, Crate)
    /\ clock \in 0 .. MaxClock
    /\ charLock \in [Characters -> Requests \cup {Nobody}]
    /\ crateLock \in [Requests -> Requests \cup {Nobody}]
    /\ vitality \in [Characters -> 0 .. MaxHealth] /\ quiet \in [Characters -> 0 .. RegenDelay]
    /\ overlapped \subseteq Characters
    /\ \A r \in Requests :
          /\ DOMAIN txn[r] = DOMAIN AtRest("idle")
          /\ txn[r].pc \in Steps /\ txn[r].call \in Calls \cup {NoCall}
          /\ txn[r].toLock \subseteq Characters /\ txn[r].now \in 0 .. MaxClock
          /\ IsPartialFn(txn[r].seen, Characters, Row)
          /\ txn[r].crate \in Requests \cup {Nobody}
          /\ {txn[r].pockets, txn[r].items} \subseteq Amounts

(* A character dead at the start owes what that death costs.                  *)
Init ==
    /\ world \in Worlds
    /\ health = world.health
    /\ lastCombat = [c \in Characters |-> 0]
    /\ xp = [c \in Characters |-> 0]
    /\ attacks = [p \in Characters \X Characters |-> Null]
    /\ deaths = [c \in Characters |->
                    IF health[c] = 0 THEN <<[docked |-> c \in world.docked, settled |-> FALSE]>>
                    ELSE <<>>]
    /\ condition = [c \in Characters |-> NewCondition]
    /\ carried = world.carried
    /\ crates = EmptyFn
    /\ clock = 0
    /\ charLock = [c \in Characters |-> Nobody]
    /\ crateLock = [r \in Requests |-> Nobody]
    /\ txn = [r \in Requests |-> AtRest("idle")]
    /\ vitality = health
    /\ quiet = [c \in Characters |-> 0]
    /\ landed = [c \in Characters |-> 0]
    /\ destroyed = None
    /\ overlapped = {}

--------------------------------------------------------------------------------
Lesser(x, y) == IF x <= y THEN x ELSE y
Positive(x) == IF x > 0 THEN x ELSE 0
CharOf(r) == txn[r].call.char

(* Fault: health is as it was stored, however long ago.                       *)
AsStored(row, now) == IF row.health = Null THEN MaxHealth ELSE row.health

(* Fault: regeneration does not stop at full health.                          *)
NeverFull(row, now) ==
    IF row.health > 0 /\ row.last # Null
    THEN row.health + RegenRate * Positive(now - row.last - RegenDelay)
    ELSE IF row.health = Null THEN MaxHealth ELSE row.health

(* CombatHealth.Current: as of the last fight, and worked out when asked.     *)
Current(row, now) ==
    LET regenerating == now - row.last - RegenDelay IN
    CASE row.health = Null -> MaxHealth
      [] row.health = 0 -> 0
      [] row.health > 0 /\ (row.last = Null \/ regenerating <= 0) -> Lesser(row.health, MaxHealth)
      [] OTHER -> Lesser(MaxHealth, row.health + RegenRate * regenerating)

WasProvoked(attackedAt, now) ==
    attackedAt # Null /\ now - attackedAt \in 0 .. RetaliationWindow

CanAttack(call, attackedAt, now) ==
    LET provoked == WasProvoked(attackedAt, now) IN
    /\ Faction[call.char] # Faction[call.target]
    /\ call.zone # "anchorage"
    /\ call.target \notin Protected \/ provoked
    /\ call.zone \in {"approach", Faction[call.char]} \/ provoked

Release(r) ==
    /\ charLock' = Released(charLock, r)
    /\ crateLock' = Released(crateLock, r)

EndTransaction(r) ==
    /\ txn' = [txn EXCEPT ![r] = AtRest("done")]
    /\ Release(r)
    /\ UNCHANGED <<world, clock, overlapped>>

Rollback(r) == EndTransaction(r) /\ UNCHANGED dbVars

--------------------------------------------------------------------------------
(* Respawns of the same character that are under way.                         *)
Respawning(c) ==
    {s \in Requests : txn[s].call = [op |-> "respawn", char |-> c]}

(* What is read before the lock: the weapon in hand, and who may be protected *)
(* and where, which no request here changes.                                  *)
Begin(r, c) ==
    /\ txn[r].pc = "idle"
    /\ \A s \in Requests : s < r => txn[s].pc # "idle"
    /\ \E crate \in IF c.op = "loot" THEN DOMAIN crates ELSE {Nobody} :
          txn' = [txn EXCEPT ![r] =
              [AtRest("lock") EXCEPT
                  !.call = c, !.crate = crate, !.now = IF c.op = "hit" THEN clock ELSE 0,
                  !.armed = c.char \in Armed /\ condition[c.char] > 0,
                  !.toLock = IF c.op = "hit" THEN {c.char, c.target} ELSE {c.char}]]
    /\ overlapped' = IF c.op = "respawn" /\ Respawning(c.char) # {} THEN overlapped \cup {c.char}
                     ELSE overlapped
    /\ UNCHANGED <<world, dbVars, clock, lockVars>>

RowOf(c) == [health |-> health[c], last |-> lastCombat[c], xp |-> xp[c]]

(* Fault: in the order the query was given them, attacker first.              *)
AttackerFirst(r, c) == c = CharOf(r) \/ CharOf(r) \notin txn[r].toLock

LowestIdFirst(r, c) == \A d \in txn[r].toLock : c <= d

(* Fault: a respawn costs nothing itself.                                     *)
UncostedRespawn == [hit |-> "hit", cost |-> "settle", respawn |-> "revive", loot |-> "lockCrate"]

AfterLock == [hit |-> "hit", cost |-> "settle", respawn |-> "settle", loot |-> "lockCrate"]

(* Fault: the row is read without FOR UPDATE.                                 *)
ReadsUnlocked(r, c) == TRUE

CanLock(r, c) == Free(charLock, c, r)

(* Fault: a hit is judged by when it arrived.                                 *)
TimeOfArrival(r) == txn[r].now

(* The clock is read once the lock is held.                                   *)
TimeOfDecision(r) == clock

(* FOR UPDATE, row by row; the rows are tracked as they stand once locked.    *)
LockCharacter(r, c) ==
    LET rest == txn[r].toLock \ {c} IN
    /\ txn[r].pc = "lock"
    /\ c \in txn[r].toLock
    /\ LowestIdFirst(r, c)
    /\ CanLock(r, c)
    /\ charLock' = [charLock EXCEPT ![c] = r]
    /\ txn' = [txn EXCEPT ![r].toLock = rest,
                          ![r].seen = Put(@, c, RowOf(c)),
                          ![r].now = IF rest = {} THEN TimeOfDecision(r) ELSE @,
                          ![r].pc = IF rest = {} THEN AfterLock[txn[r].call.op] ELSE @]
    /\ UNCHANGED <<world, dbVars, clock, crateLock, overlapped>>

--------------------------------------------------------------------------------
(* HitAsync, once both are locked                                            *)

Target(r) == txn[r].call.target
HealthNow(r, c) == Current(txn[r].seen[c], txn[r].now)

HitAllowed(r) ==
    /\ HealthNow(r, CharOf(r)) > 0
    /\ HealthNow(r, Target(r)) > 0
    /\ txn[r].armed
    /\ CanAttack(txn[r].call, attacks[<<Target(r), CharOf(r)>>], txn[r].now)

(* Both are written as they stand now, and a target at nothing has died.      *)
HitLands(r) ==
    LET a == CharOf(r) t == Target(r)
        dealt == Lesser(Damage, HealthNow(r, t))
        after == HealthNow(r, t) - dealt
    IN  /\ txn[r].pc = "hit"
        /\ HitAllowed(r)
        /\ health' = [health EXCEPT ![a] = HealthNow(r, a), ![t] = after]
        /\ lastCombat' = [lastCombat EXCEPT ![a] = txn[r].now, ![t] = txn[r].now]
        /\ attacks' = [attacks EXCEPT ![<<a, t>>] = txn[r].now]
        /\ xp' = [xp EXCEPT ![a] = txn[r].seen[a].xp + dealt]
        /\ deaths' = IF after > 0 THEN deaths
                     ELSE [deaths EXCEPT ![t] =
                              Append(@, [docked |-> t \in world.docked, settled |-> FALSE])]
        /\ vitality' = [vitality EXCEPT ![t] = Positive(@ - Damage)]
        /\ quiet' = [quiet EXCEPT ![a] = 0, ![t] = 0]
        /\ landed' = [landed EXCEPT ![a] = @ + dealt]
        /\ EndTransaction(r)
        /\ UNCHANGED <<condition, carried, crates, destroyed>>

RefuseHit(r) == txn[r].pc = "hit" /\ ~HitAllowed(r) /\ Rollback(r)

--------------------------------------------------------------------------------
(* ApplyAsync: what a death costs                                            *)

(* Fault: the latest death, whether its costs have been taken or not.         *)
AnyDeath(c) == DOMAIN deaths[c]

Owed(c) == {i \in DOMAIN deaths[c] : ~deaths[c][i].settled}

(* The locks go, and a respawn goes on with the character it tracks.          *)
Costed(r) ==
    /\ txn' = [txn EXCEPT ![r] = IF txn[r].call.op = "respawn"
                                 THEN [@ EXCEPT !.pc = "revive", !.now = 0] ELSE AtRest("done")]
    /\ Release(r)
    /\ UNCHANGED <<world, clock, overlapped>>

Dropped(q) == q - q \div 2

(* A place for the crate: beside the body, or where the world last had them.  *)
HasPlace(r) == txn[r].call.op = "cost" \/ CharOf(r) \in world.placed

(* The oldest death owed.  Half of each stack drops, where there is a place   *)
(* for it, and the rest is destroyed; a death at a station costs nothing.     *)
SettleDeath(r) ==
    LET c == CharOf(r)
        dropped == [m \in Materials |-> IF HasPlace(r) THEN Dropped(carried[c][m]) ELSE 0]
    IN  /\ txn[r].pc = "settle"
        /\ \E i \in Owed(c) :
              /\ \A j \in Owed(c) : i <= j
              /\ deaths' = [deaths EXCEPT ![c][i].settled = TRUE]
              /\ IF deaths[c][i].docked
                 THEN UNCHANGED <<carried, condition, crates, destroyed>>
                 ELSE /\ condition' = [condition EXCEPT ![c] = Positive(@ - WearPerDeath)]
                      /\ carried' = [carried EXCEPT ![c] = None]
                      /\ crates' = IF dropped = None THEN crates
                                   ELSE Put(crates, r, [items |-> dropped,
                                                        expires |-> txn[r].now + LootableFor])
                      /\ destroyed' = [m \in Materials |->
                                          destroyed[m] + carried[c][m] - dropped[m]]
        /\ Costed(r)
        /\ UNCHANGED <<health, lastCombat, xp, attacks, vitality, quiet, landed>>

NothingOwed(r) ==
    /\ txn[r].pc = "settle"
    /\ Owed(CharOf(r)) = {}
    /\ Costed(r)
    /\ UNCHANGED dbVars

--------------------------------------------------------------------------------
(* RespawnAsync: no lock, and the character as ApplyAsync tracked it         *)

SeenDead(r) == Current(txn[r].seen[CharOf(r)], clock) = 0

Revive(r) ==
    LET c == CharOf(r) IN
    /\ txn[r].pc = "revive"
    /\ SeenDead(r)
    /\ Free(charLock, c, r)
    /\ health' = [health EXCEPT ![c] = Null]
    /\ lastCombat' = [lastCombat EXCEPT ![c] = Null]
    /\ vitality' = [vitality EXCEPT ![c] = MaxHealth]
    /\ EndTransaction(r)
    /\ UNCHANGED <<xp, attacks, deaths, condition, carried, crates, quiet, landed, destroyed>>

RefuseRespawn(r) == txn[r].pc = "revive" /\ ~SeenDead(r) /\ Rollback(r)

--------------------------------------------------------------------------------
(* LootAsync                                                                 *)

(* Fault: the crate is read without FOR UPDATE.                               *)
CrateUnlocked(r) == TRUE

CanLockCrate(r) == Free(crateLock, txn[r].crate, r)

(* The looter is locked already; then the crate, the time and what is there.  *)
LockCrate(r) ==
    LET k == txn[r].crate IN
    /\ txn[r].pc = "lockCrate"
    /\ CanLockCrate(r)
    /\ crateLock' = [crateLock EXCEPT ![k] = r]
    /\ txn' = [txn EXCEPT ![r].pc = "take", ![r].now = clock,
                          ![r].items = crates[k].items, ![r].pockets = carried[CharOf(r)]]
    /\ UNCHANGED <<world, dbVars, clock, charLock, overlapped>>

RoomFor(pockets) == Capacity - SumFunction(pockets)

(* As much of each stack asked for as fits, in the order of the items' ids.   *)
Fits(r, m) ==
    LET t == txn[r]
        asked == IF t.call.wanted = {} THEN Materials ELSE t.call.wanted
        free == RoomFor(t.pockets)
        before == SumFunctionOnSet(t.items, {n \in asked : n < m})
    IN  IF m \in asked THEN Lesser(t.items[m], Positive(free - before)) ELSE 0

Takes(r) == [m \in Materials |-> Fits(r, m)]

MayTake(r) ==
    /\ crates[txn[r].crate].expires > txn[r].now
    /\ txn[r].seen[CharOf(r)].health # 0
    /\ Takes(r) # None

Take(r) ==
    LET t == txn[r] IN
    /\ t.pc = "take"
    /\ MayTake(r)
    /\ carried' = [carried EXCEPT ![CharOf(r)] = [m \in Materials |-> t.pockets[m] + Takes(r)[m]]]
    /\ crates' = [crates EXCEPT ![t.crate].items = [m \in Materials |-> t.items[m] - Takes(r)[m]]]
    /\ EndTransaction(r)
    /\ UNCHANGED <<health, lastCombat, xp, attacks, deaths, condition, historyVars>>

(* Gone, dead, no room, or not there.                                         *)
RefuseLoot(r) == txn[r].pc = "take" /\ ~MayTake(r) /\ Rollback(r)

--------------------------------------------------------------------------------
(* Health that ticks: what the stored health stands for.                      *)
Regenerated(c) ==
    IF vitality[c] > 0 /\ quiet[c] = RegenDelay THEN Lesser(MaxHealth, vitality[c] + RegenRate)
    ELSE vitality[c]

(* A hit that holds both locks decides and saves as of the time it has read,  *)
(* which no other request can tell from its being instant.                    *)
Tick ==
    /\ clock < MaxClock
    /\ \A r \in Requests : txn[r].pc # "hit"
    /\ clock' = clock + 1
    /\ vitality' = [c \in Characters |-> Regenerated(c)]
    /\ quiet' = [c \in Characters |-> Lesser(quiet[c] + 1, RegenDelay)]
    /\ UNCHANGED <<world, rowVars, landed, destroyed, lockVars, txn, overlapped>>

(* The caller goes away, or the process dies.                                 *)
Disconnect(r) == txn[r].pc \notin {"idle", "done"} /\ Rollback(r)

Next ==
    \/ \E r \in Requests :
          \/ \E c \in Calls : Begin(r, c)
          \/ \E c \in Characters : LockCharacter(r, c)
          \/ HitLands(r) \/ RefuseHit(r)
          \/ SettleDeath(r) \/ NothingOwed(r)
          \/ Revive(r) \/ RefuseRespawn(r)
          \/ LockCrate(r) \/ Take(r) \/ RefuseLoot(r)
          \/ Disconnect(r)
    \/ Tick

Spec == Init /\ [][Next]_vars

--------------------------------------------------------------------------------
(* Health.cs:17-20: health stored as of the last fight and worked out when    *)
(* asked is what it would be had it ticked, whatever hits, regeneration and   *)
(* respawns meet: no hit is lost and no regeneration lost or granted twice.   *)
HealthAsIfTicking == \A c \in Characters : Current(RowOf(c), clock) = vitality[c]

(* CombatService.cs:225-231: no hit overwrites the experience another earned. *)
FightsAddUp == xp = landed

(* DeathCostService.cs:72: costs are taken once for each death: what is worn   *)
(* shows exactly the deaths away from a station that have been settled.       *)
WearExplained ==
    \A c \in Characters :
        condition[c] = Positive(NewCondition - WearPerDeath * Cardinality(
            {i \in DOMAIN deaths[c] : deaths[c][i].settled /\ ~deaths[c][i].docked}))

(* DeathCostService.cs:73-74: no death goes free.  Who lives again owes       *)
(* nothing, and a death is owed for at most once at a time, so long as no two *)
(* requests respawn a character at once.                                      *)
RespawnSettles ==
    \A c \in Characters \ overlapped :
        /\ Cardinality(Owed(c)) <= 1
        /\ Owed(c) # {} => health[c] = 0

(* Goods neither appear nor vanish: what was carried at the start is carried, *)
(* lies in a crate or was destroyed by a death, and two looters never take    *)
(* the same ore twice.                                                        *)
GoodsAccounted ==
    \A m \in Materials :
        SumFunction([c \in Characters |-> carried[c][m]])
            + SumFunction([k \in DOMAIN crates |-> crates[k].items[m]]) + destroyed[m]
            = SumFunction([c \in Characters |-> world.carried[c][m]])

(* CombatService.cs:233-236: a fight's clock is never written backwards.      *)
FightsMoveForward ==
    [][/\ \A c \in Characters : lastCombat'[c] # Null => lastCombat'[c] >= lastCombat[c]
       /\ \A p \in Characters \X Characters : attacks'[p] >= attacks[p]]_vars

WaitsFor(r) ==
    CASE txn[r].pc = "lock" ->
            {charLock[c] : c \in {d \in txn[r].toLock : LowestIdFirst(r, d)}} \ {Nobody, r}
      [] txn[r].pc = "revive" -> {charLock[CharOf(r)]} \ {Nobody, r}
      [] txn[r].pc = "lockCrate" -> {crateLock[txn[r].crate]} \ {Nobody, r}
      [] OTHER -> {}

(* CombatService.cs:536: two players shooting each other at the same moment   *)
(* cannot deadlock, nor can a looter and whoever shoots at them.              *)
NeverStuck == \A r \in Requests : ~Stuck(r, [s \in Requests |-> WaitsFor(s)])

(* DeathCostService.cs:131: "Only one can be owed -- the dead cannot die       *)
(* again, and a respawn settles what is owed".                                *)
OneDeathOwed == \A c \in Characters : Cardinality(Owed(c)) <= 1

================================================================================
