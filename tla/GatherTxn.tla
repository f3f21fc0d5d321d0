-------------------------------- MODULE GatherTxn --------------------------------
(****************************************************************************)
(* Gathering from deposits as concurrent requests                            *)
(* (services/SpaceMMO.Data/Gathering/GatheringService.cs).  A deposit that    *)
(* has been touched has a row: one that everyone draws from, or one for each  *)
(* character.  A tick of the clock is a tick of extraction.  The quests that  *)
(* count what was gathered, in the same transaction, are RewardTxn's.         *)
(****************************************************************************)
EXTENDS Naturals, FiniteSetsExt, Transactions

CONSTANTS Characters,
          Requests,        \* numbered in the order they arrive
          Calls,           \* a character and a deposit each
          Nodes,           \* deposits
          Shared,          \* those that everyone draws from
          Everyone,        \* the owner of a shared deposit's row
          Qualified,       \* who has the skill and the tool for which deposit
          UnitsPerTick,    \* by skill level, of each character
          MaxBankedTicks,
          QuantityMax,     \* of each deposit
          RespawnTicks,
          XpPerUnit,
          Capacity,        \* of a character's pockets
          InitialPockets,  \* what they carry at the start
          MaxClock         \* bound on the clock

ASSUME GatherTxnAssumption ==
    /\ Requests \subseteq Nat \ {0}
    /\ Calls \subseteq [char: Characters, node: Nodes]
    /\ IsFiniteSet(Characters) /\ IsFiniteSet(Nodes)
    /\ Shared \subseteq Nodes /\ Qualified \subseteq Characters \X Nodes
    /\ UnitsPerTick \in [Characters -> Nat \ {0}]
    /\ {MaxBankedTicks, RespawnTicks, XpPerUnit} \subseteq Nat \ {0}
    /\ QuantityMax \in [Nodes -> Nat \ {0}]
    /\ Capacity \in Nat /\ InitialPockets \in [Characters -> 0 .. Capacity]
    /\ MaxClock \in Nat

(* A character that has never gathered, and a deposit that is not empty.      *)
Never == MaxClock + RespawnTicks + 1

OwnerOf(c) == IF c.node \in Shared THEN Everyone ELSE c.char
DepositOf(c) == <<c.node, OwnerOf(c)>>
Deposits == {DepositOf(c) : c \in [char: Characters, node: Nodes]}
State == [remaining: Nat, respawnAt: Nat]

VARIABLES
    lastGathered, pockets, xp,  \* of characters
    states,                     \* rows of the deposits that have been touched
    clock,
    charLock, stateLock,
    txn,
    drawn, refills,             \* history: taken from each deposit, and its refills
    worked, late,               \* history: when each was worked, and where by a request
                                \* that had read the clock before the one ahead of it
    overlapped                  \* history: characters with two requests at once

dbVars == <<lastGathered, pockets, xp, states, drawn, refills, worked, late>>
lockVars == <<charLock, stateLock>>
vars == <<dbVars, clock, lockVars, txn, overlapped>>

Untouched(d) == [remaining |-> QuantityMax[d[1]], respawnAt |-> Never]
NoCall == [char |-> Everyone, node |-> Everyone]

(* `last` is of the character the endpoint loaded, which the lock's query     *)
(* does not refresh; `state` the deposit's row as it was when locked.         *)
AtRest(step) ==
    [pc |-> step, call |-> NoCall, last |-> 0, now |-> 0,
     state |-> [remaining |-> 0, respawnAt |-> 0]]

Steps == {"idle", "lockCharacter", "select", "insert", "work", "done"}

Txn == [pc: Steps, call: Calls \cup {NoCall}, last: 0 .. Never, now: 0 .. MaxClock, state: State]

TypeOK ==
    /\ lastGathered \in [Characters -> 0 .. MaxClock \cup {Never}]
    /\ pockets \in [Characters -> 0 .. Capacity]
    /\ xp \in [Characters -> Nat]
    /\ IsPartialFn(states, Deposits, State)
    /\ \A d \in DOMAIN states : states[d].remaining <= QuantityMax[d[1]]
    /\ clock \in 0 .. MaxClock
    /\ charLock \in [Characters -> Requests \cup {Nobody}]
    /\ stateLock \in [Deposits -> Requests \cup {Nobody}]
    /\ drawn \in [Deposits -> Nat] /\ refills \in [Deposits -> Nat]
    /\ worked \in [Deposits -> 0 .. MaxClock]
    /\ late \subseteq Deposits /\ overlapped \subseteq Characters
    /\ txn \in [Requests -> Txn]

Init ==
    /\ lastGathered = [c \in Characters |-> Never]
    /\ pockets = InitialPockets
    /\ xp = [c \in Characters |-> 0]
    /\ states = EmptyFn
    /\ clock = 0
    /\ charLock = [c \in Characters |-> Nobody]
    /\ stateLock = [d \in Deposits |-> Nobody]
    /\ txn = [r \in Requests |-> AtRest("idle")]
    /\ drawn = [d \in Deposits |-> 0]
    /\ refills = [d \in Deposits |-> 0]
    /\ worked = [d \in Deposits |-> 0]
    /\ late = {}
    /\ overlapped = {}

--------------------------------------------------------------------------------
CharOf(r) == txn[r].call.char
Deposit(r) == DepositOf(txn[r].call)
Lesser(x, y) == IF x <= y THEN x ELSE y

EndTransaction(r) ==
    /\ txn' = [txn EXCEPT ![r] = AtRest("done")]
    /\ charLock' = Released(charLock, r)
    /\ stateLock' = Released(stateLock, r)
    /\ UNCHANGED <<clock, overlapped>>

(* A row inserted and not committed goes with its lock.                       *)
Rollback(r) == EndTransaction(r) /\ UNCHANGED dbVars

Under(c) == {r \in Requests : txn[r].pc \notin {"idle", "done"} /\ CharOf(r) = c}

(* The endpoint loads the caller's character, which the context tracks.       *)
Resolve(r, c) ==
    /\ txn[r].pc = "idle"
    /\ \A s \in Requests : s < r => txn[s].pc # "idle"
    /\ txn' = [txn EXCEPT ![r].call = c, ![r].last = lastGathered[c.char],
                          ![r].pc = "lockCharacter"]
    /\ overlapped' = IF Under(c.char) # {} THEN overlapped \cup {c.char} ELSE overlapped
    /\ UNCHANGED <<dbVars, clock, lockVars>>

MayWork(r) == <<CharOf(r), txn[r].call.node>> \in Qualified

CanLockCharacter(r) == Free(charLock, CharOf(r), r)

(* The time is read before the deposit is waited for.                         *)
LockCharacter(r) ==
    /\ txn[r].pc = "lockCharacter"
    /\ CanLockCharacter(r)
    /\ MayWork(r)
    /\ charLock' = [charLock EXCEPT ![CharOf(r)] = r]
    /\ txn' = [txn EXCEPT ![r].now = clock, ![r].pc = "select"]
    /\ UNCHANGED <<dbVars, clock, stateLock, overlapped>>

Refuse(r) ==
    /\ txn[r].pc = "lockCharacter"
    /\ CanLockCharacter(r)
    /\ ~MayWork(r)
    /\ Rollback(r)

--------------------------------------------------------------------------------
(* ResolveAndLockStateAsync                                                  *)

(* The row, if it is committed or r has inserted it.                          *)
Sees(r) == Deposit(r) \in DOMAIN states \/ stateLock[Deposit(r)] = r

(* Fault: the row is read without FOR UPDATE.                                 *)
StateUnlocked(r) == TRUE

CanLockState(r) == Free(stateLock, Deposit(r), r)

SelectState(r) ==
    LET d == Deposit(r) IN
    /\ txn[r].pc = "select"
    /\ Sees(r)
    /\ CanLockState(r)
    /\ stateLock' = [stateLock EXCEPT ![d] = r]
    /\ txn' = [txn EXCEPT ![r].state = IF d \in DOMAIN states THEN states[d] ELSE Untouched(d),
                          ![r].pc = "work"]
    /\ UNCHANGED <<dbVars, clock, charLock, overlapped>>

SelectNothing(r) ==
    /\ txn[r].pc = "select"
    /\ ~Sees(r)
    /\ txn' = [txn EXCEPT ![r].pc = "insert"]
    /\ UNCHANGED <<dbVars, clock, lockVars, overlapped>>

(* ON CONFLICT DO NOTHING, which waits for an insert not yet committed.       *)
InsertState(r) ==
    LET d == Deposit(r) IN
    /\ txn[r].pc = "insert"
    /\ \/ d \in DOMAIN states /\ UNCHANGED stateLock
       \/ d \notin DOMAIN states /\ Free(stateLock, d, r) /\ stateLock' = [stateLock EXCEPT ![d] = r]
    /\ txn' = [txn EXCEPT ![r].pc = "select"]
    /\ UNCHANGED <<dbVars, clock, charLock, overlapped>>

--------------------------------------------------------------------------------
(* The deposit's row once a respawn that is due has been applied.             *)
RespawnDue(r) == txn[r].state.respawnAt # Never /\ txn[r].now >= txn[r].state.respawnAt
Respawned(r) == IF RespawnDue(r) THEN Untouched(Deposit(r)) ELSE txn[r].state

(* Never gathered is fully rested.                                            *)
Elapsed(r) ==
    IF txn[r].last = Never THEN MaxBankedTicks
    ELSE IF txn[r].now > txn[r].last THEN txn[r].now - txn[r].last ELSE 0

EntitledTicks(elapsed) == Lesser(elapsed, MaxBankedTicks)

UnitsAvailable(r) ==
    Lesser(EntitledTicks(Elapsed(r)) * UnitsPerTick[CharOf(r)], Respawned(r).remaining)

(* Fault: the whole swing goes into the pack.                                 *)
NoEndOfRoom(r) == UnitsAvailable(r)

RoomFor(r) == Lesser(UnitsAvailable(r), Capacity - pockets[CharOf(r)])

RecordWork(r) ==
    LET d == Deposit(r) IN
    /\ refills' = IF RespawnDue(r) THEN [refills EXCEPT ![d] = @ + 1] ELSE refills
    /\ worked' = [worked EXCEPT ![d] = txn[r].now]
    /\ late' = IF txn[r].now < worked[d] THEN late \cup {d} ELSE late

(* Nothing to take, or no room for it: only a respawn is saved.               *)
GatherNothing(r) ==
    /\ txn[r].pc = "work"
    /\ RoomFor(r) = 0
    /\ states' = Put(states, Deposit(r), Respawned(r))
    /\ RecordWork(r)
    /\ EndTransaction(r)
    /\ UNCHANGED <<lastGathered, pockets, xp, drawn>>

(* Fault: the deposit gives what was swung for, and the pack takes what fits. *)
DrawnDownBySwing(r) == UnitsAvailable(r)

DrawnDown(r) == RoomFor(r)

(* Fault: an emptied deposit is back at once.                                 *)
BackAtOnce(r) == txn[r].now

RespawnTime(r) == txn[r].now + RespawnTicks

(* Fault: the time waited is not used up.                                     *)
StillRested(r) == txn[r].last

TimeUsedUp(r) == txn[r].now

Gather(r) ==
    LET c == CharOf(r)
        d == Deposit(r)
        left == Respawned(r).remaining - DrawnDown(r)
    IN  /\ txn[r].pc = "work"
        /\ RoomFor(r) > 0
        /\ states' = Put(states, d, [remaining |-> left,
                                     respawnAt |-> IF left = 0 THEN RespawnTime(r)
                                                   ELSE Respawned(r).respawnAt])
        /\ pockets' = [pockets EXCEPT ![c] = @ + RoomFor(r)]
        /\ xp' = [xp EXCEPT ![c] = @ + XpPerUnit * RoomFor(r)]
        /\ lastGathered' = [lastGathered EXCEPT ![c] = TimeUsedUp(r)]
        /\ drawn' = [drawn EXCEPT ![d] = @ + DrawnDown(r)]
        /\ RecordWork(r)
        /\ EndTransaction(r)

--------------------------------------------------------------------------------
(* The caller goes away, or the process dies.                                 *)
Disconnect(r) == txn[r].pc \notin {"idle", "done"} /\ Rollback(r)

Tick ==
    /\ clock < MaxClock
    /\ clock' = clock + 1
    /\ UNCHANGED <<dbVars, lockVars, txn, overlapped>>

Next ==
    \/ \E r \in Requests :
          \/ \E c \in Calls : Resolve(r, c)
          \/ LockCharacter(r) \/ Refuse(r)
          \/ SelectState(r) \/ SelectNothing(r) \/ InsertState(r)
          \/ GatherNothing(r) \/ Gather(r) \/ Disconnect(r)
    \/ Tick

Spec == Init /\ [][Next]_vars

--------------------------------------------------------------------------------
(* GatheringService.cs:241-249: what a deposit held and every refill of it    *)
(* has been drawn from it or is still there, whoever touches it first and     *)
(* whoever works it at once.                                                  *)
DepositsAddUp ==
    \A d \in Deposits :
        drawn[d] + (IF d \in DOMAIN states THEN states[d].remaining ELSE QuantityMax[d[1]])
            = QuantityMax[d[1]] * (refills[d] + 1)

Gathered(c) == pockets[c] - InitialPockets[c]

(* GatheringService.cs:162-165: what left the deposits is in the packs, to    *)
(* the unit, and is what was learnt from.                                     *)
PacksAddUp ==
    /\ SumFunction([c \in Characters |-> Gathered(c)]) = SumFunction(drawn)
    /\ \A c \in Characters : xp[c] = XpPerUnit * Gathered(c)

(* GatheringService.cs:188-191 and 342-348: whoever comes and however often,  *)
(* a deposit gives in all what it holds once and once more for every respawn  *)
(* time, but for requests that overtake each other.                           *)
SupplyKept ==
    \A d \in Deposits \ late :
        drawn[d] <= QuantityMax[d[1]] * (1 + clock \div RespawnTicks)

(* GatheringService.cs:66-69: however often a character asks, it gathers what *)
(* the time it has waited entitles it to, and no more, so long as it asks one *)
(* request at a time.                                                         *)
Entitled(c) == UnitsPerTick[c] * (MaxBankedTicks + clock)
RateKept == \A c \in Characters \ overlapped : Gathered(c) <= Entitled(c)

================================================================================
