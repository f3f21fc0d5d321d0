----------------------------- MODULE DeathTxnProofs -----------------------------
(****************************************************************************)
(* What DeathTxn's safety properties rest on, proved for every set of        *)
(* characters, requests, materials, calls and worlds.                        *)
(*                                                                           *)
(* A request holds the rows of the characters it has seen until it commits,  *)
(* and they are as it saw them (LocksOf); a respawn alone lets go of its     *)
(* character half-way, and is told so by its step (ControlOf).               *)
(****************************************************************************)
EXTENDS DeathTxn, TransactionsProofs, SequenceTheorems

Txn ==
    [pc: Steps, call: Calls \cup {NoCall}, armed: BOOLEAN, toLock: SUBSET Characters,
     now: 0 .. MaxClock, seen: UNION {[S -> Row] : S \in SUBSET Characters},
     crate: Requests \cup {Nobody}, pockets: Amounts, items: Amounts]

RowsTyped ==
    /\ health \in [Characters -> 0 .. MaxHealth \cup {Null}]
    /\ lastCombat \in [Characters -> 0 .. MaxClock \cup {Null}]
    /\ xp \in [Characters -> Nat] /\ landed \in [Characters -> Nat]
    /\ attacks \in [Characters \X Characters -> 0 .. MaxClock \cup {Null}]
    /\ deaths \in [Characters -> Seq(Death)]
    /\ condition \in [Characters -> 0 .. NewCondition]
    /\ carried \in [Characters -> Amounts] /\ destroyed \in Amounts
    /\ IsPartialFn(crates, Requests, Crate)
    /\ vitality \in [Characters -> 0 .. MaxHealth] /\ quiet \in [Characters -> 0 .. RegenDelay]

RequestsTyped ==
    /\ world \in Worlds
    /\ clock \in 0 .. MaxClock
    /\ charLock \in [Characters -> Requests \cup {Nobody}]
    /\ crateLock \in [Requests -> Requests \cup {Nobody}]
    /\ overlapped \subseteq Characters
    /\ txn \in [Requests -> Txn]

Shape == RowsTyped /\ RequestsTyped

(* The rows a call locks, and where a request is in its call.                *)
LockSet(call) == IF call.op = "hit" THEN {call.char, call.target} ELSE {call.char}

UnderWay(t) == t.pc \notin {"idle", "done"}

ControlOf(r) ==
    LET t == txn[r] IN
    /\ UnderWay(t) => t.call \in Calls /\ t.toLock \cup DOMAIN t.seen = LockSet(t.call)
    /\ ~UnderWay(t) => t.call = NoCall /\ DOMAIN t.seen = {}
    /\ IF t.pc = "lock"
       THEN t.toLock # {} /\ \A c \in DOMAIN t.seen, d \in t.toLock : c < d
       ELSE t.toLock = {}
    /\ t.pc = "hit" => t.call.op = "hit" /\ t.now = clock
    /\ t.pc = "settle" => t.call.op \in {"cost", "respawn"}
    /\ t.pc = "revive" => t.call.op = "respawn"
    /\ t.pc \in {"lockCrate", "take"} => t.call.op = "loot"
    /\ UnderWay(t) /\ t.call.op = "loot" => t.crate \in DOMAIN crates
    /\ r \in DOMAIN crates => t.pc \in {"revive", "done"}

Control == \A r \in Requests : ControlOf(r)

(* What is locked is what has been seen, and it is as it was seen.           *)
LocksOf(r) ==
    LET t == txn[r] IN
    /\ \A c \in Characters : charLock[c] = r <=> t.pc # "revive" /\ c \in DOMAIN t.seen
    /\ \A c \in Characters : charLock[c] = r => t.seen[c] = RowOf(c)
    /\ \A k \in Requests : crateLock[k] = r <=> t.pc = "take" /\ k = t.crate
    /\ t.pc = "take" => t.pockets = carried[CharOf(r)] /\ t.items = crates[t.crate].items

Locks == \A r \in Requests : LocksOf(r)

(* How long ago a character last fought; no attack is of a time to come.     *)
QuietOf(c) ==
    IF lastCombat[c] = Null THEN health[c] = Null
    ELSE lastCombat[c] <= clock /\ quiet[c] = Lesser(clock - lastCombat[c], RegenDelay)

Times ==
    /\ \A c \in Characters : QuietOf(c)
    /\ \A p \in Characters \X Characters : attacks[p] <= clock

(* A respawn that is to revive a dead character has settled what it owed, so  *)
(* long as no other respawn of it is under way.                              *)
OneRespawn ==
    \A c \in Characters \ overlapped : \A r, s \in Respawning(c) : r = s

Settled ==
    \A r \in Requests :
        txn[r].pc = "revive" /\ CharOf(r) \notin overlapped /\ txn[r].seen[CharOf(r)].health = 0 =>
            health[CharOf(r)] = 0 /\ Owed(CharOf(r)) = {}

OwedOnce ==
    \A c \in Characters \ overlapped :
        /\ \A i, j \in Owed(c) : i = j
        /\ Owed(c) # {} => health[c] = 0

--------------------------------------------------------------------------------
(* The operators the module is built from.                                   *)

LEMMA Sizes ==
    /\ IsFiniteSet(Characters) /\ IsFiniteSet(Requests) /\ IsFiniteSet(Materials)
    /\ Characters \subseteq Nat /\ Materials \subseteq Nat
    /\ Requests \subseteq Nat /\ Nobody \notin Requests
    /\ MaxHealth \in Nat /\ MaxHealth > 0 /\ Damage \in Nat /\ Damage > 0
    /\ RegenDelay \in Nat /\ RegenDelay > 0 /\ RegenRate \in Nat /\ RegenRate > 0
    /\ Capacity \in Nat /\ NewCondition \in Nat /\ WearPerDeath \in Nat
    /\ LootableFor \in Nat /\ MaxClock \in Nat
    /\ Null \in Int /\ Null < 0
BY DeathTxnAssumption DEF Nobody, Null

(* Health that is worked out is in its range, and nothing only if it was.    *)
LEMMA HealthWorkedOut ==
    ASSUME NEW row \in Row, NEW now \in Int
    PROVE  /\ row.health = Null => Current(row, now) = MaxHealth
           /\ row.health = 0 => Current(row, now) = 0
           /\ row.health > 0 /\ (row.last = Null \/ now - row.last - RegenDelay <= 0) =>
                  Current(row, now) = Lesser(row.health, MaxHealth)
           /\ row.health > 0 /\ row.last # Null /\ now - row.last - RegenDelay > 0 =>
                  Current(row, now) =
                      Lesser(MaxHealth, row.health + RegenRate * (now - row.last - RegenDelay))
<1>1. row.health \in Int /\ row.last \in Int
  BY Sizes DEF Row
<1> QED BY <1>1, Sizes DEF Current

LEMMA HealthTyped ==
    ASSUME NEW row \in Row, NEW now \in Int
    PROVE  /\ Current(row, now) \in 0 .. MaxHealth
           /\ Current(row, now) = 0 <=> row.health = 0
<1>1. /\ row.health \in Nat \/ row.health = Null
      /\ row.last \in Int
  BY Sizes DEF Row
<1>2. CASE row.health = Null
  BY <1>2, HealthWorkedOut, Sizes
<1>3. CASE row.health = 0
  BY <1>3, HealthWorkedOut, Sizes
<1>4. CASE row.health \in Nat /\ row.health > 0 /\ (row.last = Null \/ now - row.last - RegenDelay <= 0)
  BY <1>4, HealthWorkedOut, Sizes DEF Lesser
<1>5. CASE row.health \in Nat /\ row.health > 0 /\ row.last # Null /\ now - row.last - RegenDelay > 0
  <2> DEFINE gained == RegenRate * (now - row.last - RegenDelay)
  <2>1. now - row.last - RegenDelay \in Nat
    BY <1>1, <1>5, Sizes
  <2>2. gained \in Nat
    BY <2>1, ProductNat, Sizes
  <2>3. Current(row, now) = Lesser(MaxHealth, row.health + gained)
    BY <1>5, HealthWorkedOut
  <2> HIDE DEF gained
  <2> QED BY <1>5, <2>2, <2>3, Sizes DEF Lesser
<1> QED BY <1>1, <1>2, <1>3, <1>4, <1>5, Sizes

LEMMA RowTyped ==
    ASSUME Shape, NEW c \in Characters
    PROVE  RowOf(c) \in Row
<1>1. health[c] \in Nat \cup {Null} /\ lastCombat[c] \in Nat \cup {Null} /\ xp[c] \in Nat
  BY Sizes DEF Shape, RowsTyped
<1> QED BY <1>1 DEF RowOf, Row

(* The fields of a request.                                                  *)
LEMMA TxnTyped ==
    ASSUME Shape, NEW r \in Requests
    PROVE  /\ txn[r] \in Txn /\ txn[r].pc \in Steps
           /\ txn[r].call \in Calls \cup {NoCall} /\ txn[r].armed \in BOOLEAN
           /\ txn[r].toLock \subseteq Characters
           /\ txn[r].now \in Nat /\ txn[r].now <= MaxClock
           /\ DOMAIN txn[r].seen \subseteq Characters
           /\ \A c \in DOMAIN txn[r].seen : txn[r].seen[c] \in Row
           /\ txn[r].seen \in UNION {[S -> Row] : S \in SUBSET Characters}
           /\ txn[r].crate \in Requests \cup {Nobody}
           /\ txn[r].pockets \in Amounts /\ txn[r].items \in Amounts
<1>1. txn[r] \in Txn
  BY DEF Shape, RequestsTyped
<1>2. txn[r].now \in 0 .. MaxClock
  BY <1>1 DEF Txn
<1>3. txn[r].seen \in UNION {[S -> Row] : S \in SUBSET Characters}
  BY <1>1 DEF Txn
<1>4. DOMAIN txn[r].seen \subseteq Characters /\ \A c \in DOMAIN txn[r].seen : txn[r].seen[c] \in Row
  BY <1>3
<1> QED BY <1>1, <1>2, <1>3, <1>4, Sizes DEF Txn

LEMMA CallTyped ==
    ASSUME NEW c \in Calls
    PROVE  /\ c.char \in Characters /\ c.op \in {"hit", "cost", "respawn", "loot"}
           /\ c.op = "hit" => c.target \in Characters /\ c.target # c.char
           /\ c.op = "loot" => c.wanted \subseteq Materials
           /\ LockSet(c) \subseteq Characters /\ c.char \in LockSet(c)
           /\ c # NoCall
<1>1. c \in HitCall \cup CostCall \cup RespawnCall \cup LootCall
  BY DeathTxnAssumption
<1>2. c.op = "hit" => c.char # c.target
  BY DeathTxnAssumption
<1>3. CASE c \in HitCall
  BY <1>2, <1>3 DEF HitCall, LockSet, NoCall
<1>4. CASE c \in CostCall
  BY <1>4 DEF CostCall, LockSet, NoCall
<1>5. CASE c \in RespawnCall
  BY <1>5 DEF RespawnCall, LockSet, NoCall
<1>6. CASE c \in LootCall
  BY <1>6 DEF LootCall, LockSet, NoCall
<1> QED BY <1>1, <1>3, <1>4, <1>5, <1>6

LEMMA RestTyped ==
    ASSUME NEW step \in {"idle", "done", "lock"}
    PROVE  /\ AtRest(step) \in Txn
           /\ AtRest(step).pc = step /\ AtRest(step).call = NoCall /\ AtRest(step).toLock = {}
           /\ DOMAIN AtRest(step).seen = {}
<1>1. EmptyFn \in UNION {[S -> Row] : S \in SUBSET Characters} /\ DOMAIN EmptyFn = {}
  <2>1. EmptyFn \in [{} -> Row]
    BY DEF EmptyFn
  <2> QED BY <2>1
<1>2. None \in Amounts /\ step \in Steps /\ 0 \in 0 .. MaxClock
  BY Sizes DEF None, Amounts, Steps
<1> QED BY <1>1, <1>2 DEF AtRest, Txn

--------------------------------------------------------------------------------
(* Types.                                                                    *)

LEMMA EndTyped ==
    ASSUME Shape, NEW r \in Requests, EndTransaction(r)
    PROVE  RequestsTyped'
<1>1. txn' = [txn EXCEPT ![r] = AtRest("done")] /\ AtRest("done") \in Txn
  BY RestTyped DEF EndTransaction
<1>2. charLock' = Released(charLock, r) /\ crateLock' = Released(crateLock, r)
      /\ charLock \in [Characters -> Requests \cup {Nobody}]
      /\ crateLock \in [Requests -> Requests \cup {Nobody}]
  BY DEF EndTransaction, Release, Shape, RequestsTyped
<1>3. charLock' \in [Characters -> Requests \cup {Nobody}]
      /\ crateLock' \in [Requests -> Requests \cup {Nobody}]
  BY <1>2, ReleasedRows
<1> QED BY <1>1, <1>3 DEF EndTransaction, Shape, RequestsTyped

LEMMA BeginTyped ==
    ASSUME Shape, NEW r \in Requests, NEW c \in Calls, Begin(r, c)
    PROVE  Shape'
<1>1. PICK crate \in IF c.op = "loot" THEN DOMAIN crates ELSE {Nobody} :
        txn' = [txn EXCEPT ![r] =
              [AtRest("lock") EXCEPT
                  !.call = c, !.crate = crate, !.now = IF c.op = "hit" THEN clock ELSE 0,
                  !.armed = c.char \in Armed /\ condition[c.char] > 0,
                  !.toLock = IF c.op = "hit" THEN {c.char, c.target} ELSE {c.char}]]
  BY DEF Begin
<1>2. crate \in Requests \cup {Nobody}
  BY <1>1 DEF Shape, RowsTyped, IsPartialFn
<1>3. (IF c.op = "hit" THEN clock ELSE 0) \in 0 .. MaxClock
  BY Sizes DEF Shape, RequestsTyped
<1>4. (IF c.op = "hit" THEN {c.char, c.target} ELSE {c.char}) \in SUBSET Characters
  BY CallTyped
<1>5. (c.char \in Armed /\ condition[c.char] > 0) \in BOOLEAN
  OBVIOUS
<1> DEFINE new == [AtRest("lock") EXCEPT
                  !.call = c, !.crate = crate, !.now = IF c.op = "hit" THEN clock ELSE 0,
                  !.armed = c.char \in Armed /\ condition[c.char] > 0,
                  !.toLock = IF c.op = "hit" THEN {c.char, c.target} ELSE {c.char}]
<1>6. new \in Txn
  <2>1. PICK now : now = IF c.op = "hit" THEN clock ELSE 0
    OBVIOUS
  <2>2. PICK armed : armed = (c.char \in Armed /\ condition[c.char] > 0)
    OBVIOUS
  <2>3. PICK toLock : toLock = IF c.op = "hit" THEN {c.char, c.target} ELSE {c.char}
    OBVIOUS
  <2>4. now \in 0 .. MaxClock /\ armed \in BOOLEAN /\ toLock \in SUBSET Characters
    BY <1>3, <1>4, <1>5, <2>1, <2>2, <2>3
  <2>5. new = [AtRest("lock") EXCEPT !.call = c, !.crate = crate, !.now = now,
                                     !.armed = armed, !.toLock = toLock]
    BY <2>1, <2>2, <2>3
  <2>6. AtRest("lock") \in Txn
    BY RestTyped
  <2> HIDE DEF new
  <2> QED BY <1>2, <2>4, <2>5, <2>6 DEF Txn
<1> HIDE DEF new
<1>7. txn' \in [Requests -> Txn]
  BY <1>1, <1>6 DEF new, Shape, RequestsTyped
<1>8. RowsTyped'
  BY DEF Begin, dbVars, rowVars, historyVars, Shape, RowsTyped
<1>9. overlapped' \subseteq Characters
  BY CallTyped DEF Begin, Shape, RequestsTyped
<1> QED BY <1>7, <1>8, <1>9 DEF Begin, lockVars, Shape, RequestsTyped

LEMMA LockTyped ==
    ASSUME Shape, Control, NEW r \in Requests, NEW c \in Characters, LockCharacter(r, c)
    PROVE  Shape'
<1> DEFINE rest == txn[r].toLock \ {c}
           new == [txn[r] EXCEPT !.toLock = rest, !.seen = Put(@, c, RowOf(c)),
                                 !.now = IF rest = {} THEN TimeOfDecision(r) ELSE @,
                                 !.pc = IF rest = {} THEN AfterLock[txn[r].call.op] ELSE @]
<1>1. txn' = [txn EXCEPT ![r] = new]
  BY DEF LockCharacter
<1>2. IsPartialFn(txn[r].seen, Characters, Row)
  BY TxnTyped DEF IsPartialFn
<1>3. IsPartialFn(Put(txn[r].seen, c, RowOf(c)), Characters, Row)
  BY <1>2, RowTyped, PutPartial
<1>4. Put(txn[r].seen, c, RowOf(c)) \in UNION {[S -> Row] : S \in SUBSET Characters}
  BY <1>3 DEF IsPartialFn
<1>5. txn[r].call \in Calls /\ txn[r].call.op \in {"hit", "cost", "respawn", "loot"}
  BY CallTyped DEF LockCharacter, Control, ControlOf, UnderWay
<1>6. AfterLock[txn[r].call.op] \in Steps
  BY <1>5 DEF AfterLock, Steps
<1>7. /\ rest \in SUBSET Characters
      /\ (IF rest = {} THEN TimeOfDecision(r) ELSE txn[r].now) \in 0 .. MaxClock
      /\ (IF rest = {} THEN AfterLock[txn[r].call.op] ELSE txn[r].pc) \in Steps
  BY <1>6, TxnTyped DEF TimeOfDecision, Shape, RequestsTyped, Txn
<1>8. new \in Txn
  <2>1. txn[r] \in Txn
    BY TxnTyped
  <2> HIDE DEF rest
  <2> QED BY <1>4, <1>7, <2>1 DEF Txn
<1> HIDE DEF new
<1>9. txn' \in [Requests -> Txn]
  BY <1>1, <1>8 DEF Shape, RequestsTyped
<1>10. RowsTyped'
  BY DEF LockCharacter, dbVars, rowVars, historyVars, Shape, RowsTyped
<1> QED BY <1>9, <1>10 DEF LockCharacter, Shape, RequestsTyped

LEMMA LockCrateTyped ==
    ASSUME Shape, Control, NEW r \in Requests, LockCrate(r)
    PROVE  Shape'
<1> DEFINE new == [txn[r] EXCEPT !.pc = "take", !.now = clock,
                      !.items = crates[txn[r].crate].items, !.pockets = carried[CharOf(r)]]
<1>1. txn' = [txn EXCEPT ![r] = new]
  BY DEF LockCrate
<1>2. txn[r].call \in Calls /\ txn[r].crate \in DOMAIN crates /\ CharOf(r) \in Characters
  BY CallTyped DEF LockCrate, Control, ControlOf, UnderWay, CharOf
<1>3. crates[txn[r].crate].items \in Amounts /\ carried[CharOf(r)] \in Amounts
      /\ txn[r].crate \in Requests
  BY <1>2 DEF Shape, RowsTyped, IsPartialFn, Crate
<1>4. clock \in 0 .. MaxClock /\ txn[r] \in Txn
  BY TxnTyped DEF Shape, RequestsTyped
<1>5. new \in Txn
  BY <1>3, <1>4 DEF Txn, Steps
<1> HIDE DEF new
<1>6. RowsTyped'
  BY DEF LockCrate, dbVars, rowVars, historyVars, Shape, RowsTyped
<1>7. crateLock' \in [Requests -> Requests \cup {Nobody}]
  BY <1>3 DEF LockCrate, Shape, RequestsTyped
<1>8. txn' \in [Requests -> Txn]
  BY <1>1, <1>5 DEF Shape, RequestsTyped
<1> QED BY <1>6, <1>7, <1>8 DEF LockCrate, Shape, RequestsTyped

LEMMA CostedTyped ==
    ASSUME Shape, NEW r \in Requests, Costed(r)
    PROVE  RequestsTyped'
<1> DEFINE new == IF txn[r].call.op = "respawn" THEN [txn[r] EXCEPT !.pc = "revive", !.now = 0]
                  ELSE AtRest("done")
<1>1. txn' = [txn EXCEPT ![r] = new]
  BY DEF Costed
<1>2. new \in Txn
  <2>1. txn[r] \in Txn /\ 0 \in 0 .. MaxClock /\ "revive" \in Steps /\ AtRest("done") \in Txn
    BY TxnTyped, RestTyped, Sizes DEF Steps
  <2> QED BY <2>1 DEF Txn
<1> HIDE DEF new
<1>3. charLock' = Released(charLock, r) /\ crateLock' = Released(crateLock, r)
      /\ charLock \in [Characters -> Requests \cup {Nobody}]
      /\ crateLock \in [Requests -> Requests \cup {Nobody}]
  BY DEF Costed, Release, Shape, RequestsTyped
<1>4. charLock' \in [Characters -> Requests \cup {Nobody}]
      /\ crateLock' \in [Requests -> Requests \cup {Nobody}]
  BY <1>3, ReleasedRows
<1> QED BY <1>1, <1>2, <1>4 DEF Costed, Shape, RequestsTyped

(* What a request that is to decide a hit knows: both characters, and their  *)
(* rows as they are, as of now.                                              *)
Dealt(r) == Lesser(Damage, HealthNow(r, Target(r)))
After(r) == HealthNow(r, Target(r)) - Dealt(r)

LEMMA HitKnown ==
    ASSUME Shape, Control, Locks, NEW r \in Requests, txn[r].pc = "hit"
    PROVE  /\ CharOf(r) \in Characters /\ Target(r) \in Characters /\ CharOf(r) # Target(r)
           /\ txn[r].now = clock /\ clock \in 0 .. MaxClock
           /\ charLock[CharOf(r)] = r /\ charLock[Target(r)] = r
           /\ txn[r].seen[CharOf(r)] = RowOf(CharOf(r))
           /\ txn[r].seen[Target(r)] = RowOf(Target(r))
           /\ HealthNow(r, CharOf(r)) = Current(RowOf(CharOf(r)), clock)
           /\ HealthNow(r, Target(r)) = Current(RowOf(Target(r)), clock)
           /\ HealthNow(r, CharOf(r)) \in 0 .. MaxHealth
           /\ HealthNow(r, Target(r)) \in 0 .. MaxHealth
           /\ HealthNow(r, CharOf(r)) = 0 <=> health[CharOf(r)] = 0
           /\ HealthNow(r, Target(r)) = 0 <=> health[Target(r)] = 0
           /\ Dealt(r) \in 0 .. MaxHealth /\ After(r) \in 0 .. MaxHealth
<1>1. UnderWay(txn[r])
  BY DEF UnderWay
<1>2. txn[r].call \in Calls /\ txn[r].call.op = "hit" /\ txn[r].toLock = {}
      /\ txn[r].toLock \cup DOMAIN txn[r].seen = LockSet(txn[r].call) /\ txn[r].now = clock
  BY <1>1 DEF Control, ControlOf
<1>3. DOMAIN txn[r].seen = {CharOf(r), Target(r)}
  BY <1>2 DEF LockSet, CharOf, Target
<1>4. CharOf(r) \in Characters /\ Target(r) \in Characters /\ CharOf(r) # Target(r)
  BY <1>2, CallTyped DEF CharOf, Target
<1>5. charLock[CharOf(r)] = r /\ charLock[Target(r)] = r
  BY <1>3, <1>4 DEF Locks, LocksOf
<1>6. txn[r].seen[CharOf(r)] = RowOf(CharOf(r)) /\ txn[r].seen[Target(r)] = RowOf(Target(r))
  BY <1>4, <1>5 DEF Locks, LocksOf
<1>7. clock \in 0 .. MaxClock /\ clock \in Int
  BY DEF Shape, RequestsTyped
<1>8. HealthNow(r, CharOf(r)) = Current(RowOf(CharOf(r)), clock)
      /\ HealthNow(r, Target(r)) = Current(RowOf(Target(r)), clock)
  BY <1>2, <1>6 DEF HealthNow
<1>9. /\ HealthNow(r, CharOf(r)) \in 0 .. MaxHealth
      /\ HealthNow(r, Target(r)) \in 0 .. MaxHealth
      /\ HealthNow(r, CharOf(r)) = 0 <=> RowOf(CharOf(r)).health = 0
      /\ HealthNow(r, Target(r)) = 0 <=> RowOf(Target(r)).health = 0
  BY <1>4, <1>7, <1>8, RowTyped, HealthTyped
<1>10. Dealt(r) \in 0 .. MaxHealth /\ After(r) \in 0 .. MaxHealth
  <2> DEFINE h == HealthNow(r, Target(r))
  <2>1. h \in 0 .. MaxHealth /\ Dealt(r) = Lesser(Damage, h) /\ After(r) = h - Lesser(Damage, h)
    BY <1>9 DEF Dealt, After
  <2> HIDE DEF h
  <2> QED BY <2>1, Sizes DEF Lesser
<1>11. RowOf(CharOf(r)).health = health[CharOf(r)] /\ RowOf(Target(r)).health = health[Target(r)]
  BY DEF RowOf
<1> QED BY <1>2, <1>4, <1>5, <1>6, <1>7, <1>8, <1>9, <1>10, <1>11

(* A hit, in the names above.                                                *)
LEMMA HitWrites ==
    ASSUME NEW r \in Requests, HitLands(r)
    PROVE  /\ txn[r].pc = "hit" /\ HitAllowed(r)
           /\ health' = [health EXCEPT ![CharOf(r)] = HealthNow(r, CharOf(r)),
                                       ![Target(r)] = After(r)]
           /\ lastCombat' = [lastCombat EXCEPT ![CharOf(r)] = txn[r].now, ![Target(r)] = txn[r].now]
           /\ attacks' = [attacks EXCEPT ![<<CharOf(r), Target(r)>>] = txn[r].now]
           /\ xp' = [xp EXCEPT ![CharOf(r)] = txn[r].seen[CharOf(r)].xp + Dealt(r)]
           /\ deaths' = IF After(r) > 0 THEN deaths
                        ELSE [deaths EXCEPT ![Target(r)] = Append(@,
                                 [docked |-> Target(r) \in world.docked, settled |-> FALSE])]
           /\ vitality' = [vitality EXCEPT ![Target(r)] = Positive(@ - Damage)]
           /\ quiet' = [quiet EXCEPT ![CharOf(r)] = 0, ![Target(r)] = 0]
           /\ landed' = [landed EXCEPT ![CharOf(r)] = @ + Dealt(r)]
           /\ EndTransaction(r)
           /\ UNCHANGED <<condition, carried, crates, destroyed>>
BY DEF HitLands, Dealt, After

LEMMA HitTyped ==
    ASSUME Shape, Control, Locks, NEW r \in Requests, HitLands(r)
    PROVE  Shape'
<1> DEFINE a == CharOf(r)
           t == Target(r)
           death == [docked |-> t \in world.docked, settled |-> FALSE]
<1>1. RequestsTyped' /\ txn[r].pc = "hit"
  BY HitWrites, EndTyped
<1>2. /\ a \in Characters /\ t \in Characters /\ txn[r].now \in 0 .. MaxClock
      /\ txn[r].seen[a] = RowOf(a)
      /\ HealthNow(r, a) \in 0 .. MaxHealth
      /\ Dealt(r) \in 0 .. MaxHealth /\ After(r) \in 0 .. MaxHealth
  BY <1>1, HitKnown
<1>3. RowsTyped
  BY DEF Shape
<1>4. /\ health' = [health EXCEPT ![a] = HealthNow(r, a), ![t] = After(r)]
      /\ lastCombat' = [lastCombat EXCEPT ![a] = txn[r].now, ![t] = txn[r].now]
      /\ attacks' = [attacks EXCEPT ![<<a, t>>] = txn[r].now]
      /\ xp' = [xp EXCEPT ![a] = txn[r].seen[a].xp + Dealt(r)]
      /\ deaths' = IF After(r) > 0 THEN deaths
                   ELSE [deaths EXCEPT ![t] = Append(@, death)]
      /\ vitality' = [vitality EXCEPT ![t] = Positive(@ - Damage)]
      /\ quiet' = [quiet EXCEPT ![a] = 0, ![t] = 0]
      /\ landed' = [landed EXCEPT ![a] = @ + Dealt(r)]
      /\ UNCHANGED <<condition, carried, crates, destroyed>>
  BY HitWrites
<1> HIDE DEF a, t, death
<1>5. health' \in [Characters -> 0 .. MaxHealth \cup {Null}]
  BY <1>2, <1>3, <1>4 DEF RowsTyped
<1>6. lastCombat' \in [Characters -> 0 .. MaxClock \cup {Null}]
  BY <1>2, <1>3, <1>4 DEF RowsTyped
<1>7. attacks' \in [Characters \X Characters -> 0 .. MaxClock \cup {Null}]
  BY <1>2, <1>3, <1>4 DEF RowsTyped
<1>8. xp' \in [Characters -> Nat] /\ landed' \in [Characters -> Nat]
  <2>1. xp \in [Characters -> Nat] /\ landed \in [Characters -> Nat]
    BY <1>3 DEF RowsTyped
  <2>2. txn[r].seen[a].xp = xp[a] /\ Dealt(r) \in Nat
    BY <1>2, Sizes DEF RowOf
  <2>3. txn[r].seen[a].xp + Dealt(r) \in Nat /\ landed[a] + Dealt(r) \in Nat
    BY <1>2, <2>1, <2>2
  <2> QED BY <1>2, <1>4, <2>1, <2>3
<1>9. deaths' \in [Characters -> Seq(Death)]
  <2>1. death \in Death
    BY DEF Death, death
  <2>2. deaths \in [Characters -> Seq(Death)]
    BY <1>3 DEF RowsTyped
  <2>3. Append(deaths[t], death) \in Seq(Death)
    BY <1>2, <2>1, <2>2, AppendProperties
  <2> QED BY <1>2, <1>4, <2>2, <2>3
<1>10. vitality' \in [Characters -> 0 .. MaxHealth]
  <2>1. vitality \in [Characters -> 0 .. MaxHealth]
    BY <1>3 DEF RowsTyped
  <2>2. Positive(vitality[t] - Damage) \in 0 .. MaxHealth
    BY <1>2, <2>1, Sizes DEF Positive
  <2> QED BY <1>2, <1>4, <2>1, <2>2
<1>11. quiet' \in [Characters -> 0 .. RegenDelay]
  <2>1. quiet \in [Characters -> 0 .. RegenDelay] /\ 0 \in 0 .. RegenDelay
    BY <1>3, Sizes DEF RowsTyped
  <2> QED BY <1>2, <1>4, <2>1
<1> QED BY <1>1, <1>3, <1>4, <1>5, <1>6, <1>7, <1>8, <1>9, <1>10, <1>11 DEF Shape, RowsTyped

(* Settling the oldest death owed marks it, and nothing else about deaths.   *)
Marked(d, c, i) == [d EXCEPT ![c][i].settled = TRUE]

LEMMA DeathsMarked ==
    ASSUME Shape, NEW c \in Characters, NEW i \in Owed(c),
           NEW marked, marked = Marked(deaths, c, i)
    PROVE  /\ marked \in [Characters -> Seq(Death)]
           /\ \A d \in Characters : d # c => marked[d] = deaths[d]
           /\ DOMAIN marked[c] = DOMAIN deaths[c]
           /\ \A j \in DOMAIN deaths[c] :
                 /\ marked[c][j].docked = deaths[c][j].docked
                 /\ marked[c][j].settled = (j = i \/ deaths[c][j].settled)
<1> DEFINE new == [deaths[c][i] EXCEPT !.settled = TRUE]
           row == [deaths[c] EXCEPT ![i] = new]
<1>1. deaths \in [Characters -> Seq(Death)] /\ deaths[c] \in Seq(Death)
  BY DEF Shape, RowsTyped
<1>2. i \in 1 .. Len(deaths[c]) /\ DOMAIN deaths[c] = 1 .. Len(deaths[c])
  BY <1>1 DEF Owed
<1>3. deaths[c][i] \in Death
  BY <1>1, <1>2
<1>4. new \in Death /\ new.settled = TRUE /\ new.docked = deaths[c][i].docked
  BY <1>3 DEF Death
<1>5. marked = [deaths EXCEPT ![c] = row]
  BY DEF Marked
<1> HIDE DEF new
<1>6. /\ row \in Seq(Death) /\ Len(row) = Len(deaths[c])
      /\ \A j \in 1 .. Len(deaths[c]) : row[j] = IF j = i THEN new ELSE deaths[c][j]
  BY <1>1, <1>2, <1>4, ExceptSeq
<1>7. DOMAIN row = DOMAIN deaths[c]
  BY <1>2
<1> HIDE DEF row
<1>8. marked \in [Characters -> Seq(Death)] /\ marked[c] = row
      /\ \A d \in Characters : d # c => marked[d] = deaths[d]
  BY <1>1, <1>5, <1>6
<1>9. \A j \in DOMAIN deaths[c] : deaths[c][j].settled \in BOOLEAN
  <2> SUFFICES ASSUME NEW j \in DOMAIN deaths[c] PROVE deaths[c][j].settled \in BOOLEAN
    OBVIOUS
  <2>1. deaths[c][j] \in Death
    BY <1>1, <1>2
  <2> QED BY <2>1 DEF Death
<1>10. ASSUME NEW j \in DOMAIN deaths[c]
       PROVE  /\ row[j].docked = deaths[c][j].docked
              /\ row[j].settled = (j = i \/ deaths[c][j].settled)
  <2>1. CASE j = i
    BY <1>2, <1>4, <1>6, <2>1
  <2>2. CASE j # i
    BY <1>2, <1>6, <1>9, <2>2
  <2> QED BY <2>1, <2>2
<1> QED BY <1>7, <1>8, <1>10

(* What a death drops, where there is a place for it.                        *)
DroppedBy(r) ==
    [m \in Materials |-> IF HasPlace(r) THEN Dropped(carried[CharOf(r)][m]) ELSE 0]

LEMMA HalfDropped ==
    ASSUME NEW q \in Nat
    PROVE  Dropped(q) \in Nat /\ Dropped(q) <= q
BY DEF Dropped

LEMMA DroppedTyped ==
    ASSUME Shape, NEW r \in Requests, CharOf(r) \in Characters
    PROVE  /\ DroppedBy(r) \in Amounts
           /\ \A m \in Materials : DroppedBy(r)[m] <= carried[CharOf(r)][m]
<1>1. carried[CharOf(r)] \in Amounts
  BY DEF Shape, RowsTyped
<1>2. ASSUME NEW m \in Materials
      PROVE  DroppedBy(r)[m] \in Nat /\ DroppedBy(r)[m] <= carried[CharOf(r)][m]
  <2>1. carried[CharOf(r)][m] \in Nat
    BY <1>1 DEF Amounts
  <2> QED BY <2>1, HalfDropped DEF DroppedBy
<1>3. DroppedBy(r) = [m \in Materials |-> DroppedBy(r)[m]]
  BY DEF DroppedBy
<1> QED BY <1>2, <1>3 DEF Amounts

(* A request that settles a death, and the death: at a station it costs      *)
(* nothing, and elsewhere what is carried goes.                              *)
LEMMA SettleKnown ==
    ASSUME Shape, Control, Locks, NEW r \in Requests, txn[r].pc = "settle"
    PROVE  /\ CharOf(r) \in Characters /\ charLock[CharOf(r)] = r
           /\ txn[r].seen[CharOf(r)] = RowOf(CharOf(r)) /\ DOMAIN txn[r].seen = {CharOf(r)}
           /\ txn[r].call \in Calls /\ txn[r].call.op \in {"cost", "respawn"}
           /\ txn[r].toLock = {} /\ r \notin DOMAIN crates
<1>1. UnderWay(txn[r])
  BY DEF UnderWay
<1>2. txn[r].call \in Calls /\ txn[r].call.op \in {"cost", "respawn"} /\ txn[r].toLock = {}
      /\ txn[r].toLock \cup DOMAIN txn[r].seen = LockSet(txn[r].call) /\ r \notin DOMAIN crates
  BY <1>1 DEF Control, ControlOf
<1>3. DOMAIN txn[r].seen = {CharOf(r)} /\ CharOf(r) \in Characters
  BY <1>2, CallTyped DEF LockSet, CharOf
<1>4. charLock[CharOf(r)] = r
  BY <1>3 DEF Locks, LocksOf
<1>5. txn[r].seen[CharOf(r)] = RowOf(CharOf(r))
  BY <1>3, <1>4 DEF Locks, LocksOf
<1> QED BY <1>2, <1>3, <1>4, <1>5

SettlesAtStation(r, i) ==
    /\ deaths[CharOf(r)][i].docked
    /\ UNCHANGED <<carried, condition, crates, destroyed>>

SettlesElsewhere(r, i) ==
    /\ ~deaths[CharOf(r)][i].docked
    /\ condition' = [condition EXCEPT ![CharOf(r)] = Positive(@ - WearPerDeath)]
    /\ carried' = [carried EXCEPT ![CharOf(r)] = None]
    /\ destroyed' = [m \in Materials |->
                        destroyed[m] + carried[CharOf(r)][m] - DroppedBy(r)[m]]
    /\ \/ DroppedBy(r) = None /\ crates' = crates
       \/ DroppedBy(r) # None
          /\ crates' = Put(crates, r, [items |-> DroppedBy(r),
                                       expires |-> txn[r].now + LootableFor])

LEMMA SettleWrites ==
    ASSUME NEW r \in Requests, SettleDeath(r)
    PROVE  /\ txn[r].pc = "settle" /\ Costed(r)
           /\ UNCHANGED <<health, lastCombat, xp, attacks, vitality, quiet, landed>>
           /\ \E i \in Owed(CharOf(r)) :
                 /\ \A j \in Owed(CharOf(r)) : i <= j
                 /\ deaths' = [deaths EXCEPT ![CharOf(r)][i].settled = TRUE]
                 /\ SettlesAtStation(r, i) \/ SettlesElsewhere(r, i)
<1>1. PICK i \in Owed(CharOf(r)) :
        /\ \A j \in Owed(CharOf(r)) : i <= j
        /\ deaths' = [deaths EXCEPT ![CharOf(r)][i].settled = TRUE]
        /\ IF deaths[CharOf(r)][i].docked
           THEN UNCHANGED <<carried, condition, crates, destroyed>>
           ELSE /\ condition' = [condition EXCEPT ![CharOf(r)] = Positive(@ - WearPerDeath)]
                /\ carried' = [carried EXCEPT ![CharOf(r)] = None]
                /\ crates' = IF DroppedBy(r) = None THEN crates
                             ELSE Put(crates, r, [items |-> DroppedBy(r),
                                                  expires |-> txn[r].now + LootableFor])
                /\ destroyed' = [m \in Materials |->
                                    destroyed[m] + carried[CharOf(r)][m] - DroppedBy(r)[m]]
  BY Zenon DEF SettleDeath, DroppedBy
<1>2. SettlesAtStation(r, i) \/ SettlesElsewhere(r, i)
  BY <1>1 DEF SettlesAtStation, SettlesElsewhere
<1>3. txn[r].pc = "settle" /\ Costed(r)
      /\ UNCHANGED <<health, lastCombat, xp, attacks, vitality, quiet, landed>>
  BY DEF SettleDeath
<1> QED BY <1>1, <1>2, <1>3

LEMMA NoneTyped == None \in Amounts
BY DEF None, Amounts

LEMMA SettleTyped ==
    ASSUME Shape, Control, Locks, NEW r \in Requests, SettleDeath(r)
    PROVE  Shape'
<1> DEFINE c == CharOf(r)
<1>1. txn[r].pc = "settle" /\ Costed(r)
      /\ UNCHANGED <<health, lastCombat, xp, attacks, vitality, quiet, landed>>
  BY SettleWrites
<1>2. PICK i \in Owed(c) :
        /\ deaths' = [deaths EXCEPT ![c][i].settled = TRUE]
        /\ SettlesAtStation(r, i) \/ SettlesElsewhere(r, i)
  BY SettleWrites
<1>3. c \in Characters
  BY <1>1, SettleKnown
<1>4. RequestsTyped' /\ RowsTyped
  BY <1>1, CostedTyped DEF Shape
<1>5. deaths' \in [Characters -> Seq(Death)]
  <2>1. PICK marked : marked = deaths'
    OBVIOUS
  <2>2. marked = Marked(deaths, c, i)
    BY <1>2, <2>1 DEF Marked
  <2> HIDE DEF c
  <2> QED BY <1>3, <2>1, <2>2, DeathsMarked
<1>6. CASE SettlesAtStation(r, i)
  BY <1>1, <1>4, <1>5, <1>6 DEF Shape, RowsTyped, SettlesAtStation
<1>7. CASE SettlesElsewhere(r, i)
  <2>1. condition' = [condition EXCEPT ![c] = Positive(@ - WearPerDeath)]
        /\ condition \in [Characters -> 0 .. NewCondition]
    BY <1>4, <1>7 DEF RowsTyped, SettlesElsewhere
  <2>2. Positive(condition[c] - WearPerDeath) \in 0 .. NewCondition
    <3>1. condition[c] \in 0 .. NewCondition
      BY <1>3, <2>1
    <3> QED BY <3>1, Sizes DEF Positive
  <2>3. condition' \in [Characters -> 0 .. NewCondition]
    BY <1>3, <2>1, <2>2
  <2>4. carried' \in [Characters -> Amounts] /\ carried \in [Characters -> Amounts]
    BY <1>3, <1>4, <1>7, NoneTyped DEF RowsTyped, SettlesElsewhere
  <2>5. DroppedBy(r) \in Amounts /\ \A m \in Materials : DroppedBy(r)[m] <= carried[c][m]
    BY <1>3, DroppedTyped
  <2>6. destroyed' \in Amounts
    <3>1. destroyed \in Amounts /\ carried[c] \in Amounts
      BY <1>3, <1>4, <2>4 DEF RowsTyped
    <3>2. ASSUME NEW m \in Materials
          PROVE  destroyed[m] + carried[c][m] - DroppedBy(r)[m] \in Nat
      <4>1. destroyed[m] \in Nat /\ carried[c][m] \in Nat /\ DroppedBy(r)[m] \in Nat
        BY <2>5, <3>1 DEF Amounts
      <4> QED BY <2>5, <4>1
    <3>3. destroyed' = [m \in Materials |-> destroyed[m] + carried[c][m] - DroppedBy(r)[m]]
      BY <1>7 DEF SettlesElsewhere
    <3> QED BY <3>2, <3>3 DEF Amounts
  <2>7. IsPartialFn(crates', Requests, Crate)
    <3>1. IsPartialFn(crates, Requests, Crate)
      BY <1>4 DEF RowsTyped
    <3>2. txn[r].now + LootableFor \in Nat
      BY TxnTyped, Sizes
    <3>3. [items |-> DroppedBy(r), expires |-> txn[r].now + LootableFor] \in Crate
      BY <2>5, <3>2 DEF Crate
    <3>4. IsPartialFn(Put(crates, r, [items |-> DroppedBy(r), expires |-> txn[r].now + LootableFor]),
                      Requests, Crate)
      BY <3>1, <3>3, PutPartial
    <3> QED BY <1>7, <3>1, <3>4 DEF SettlesElsewhere
  <2> QED BY <1>1, <1>4, <1>5, <2>3, <2>4, <2>6, <2>7 DEF Shape, RowsTyped
<1> QED BY <1>2, <1>6, <1>7

LEMMA NothingOwedTyped ==
    ASSUME Shape, NEW r \in Requests, NothingOwed(r)
    PROVE  Shape'
<1>1. RequestsTyped' /\ RowsTyped
  BY CostedTyped DEF NothingOwed, Shape
<1> QED BY <1>1 DEF NothingOwed, dbVars, rowVars, historyVars, Shape, RowsTyped

LEMMA RollbackTyped ==
    ASSUME Shape, NEW r \in Requests, Rollback(r)
    PROVE  Shape'
<1>1. RequestsTyped' /\ RowsTyped
  BY EndTyped DEF Rollback, Shape
<1> QED BY <1>1 DEF Rollback, dbVars, rowVars, historyVars, Shape, RowsTyped

(* A character a respawn revives.                                            *)
LEMMA ReviveKnown ==
    ASSUME Shape, Control, NEW r \in Requests, txn[r].pc = "revive"
    PROVE  /\ CharOf(r) \in Characters /\ txn[r].call \in Calls /\ txn[r].call.op = "respawn"
           /\ DOMAIN txn[r].seen = {CharOf(r)} /\ txn[r].toLock = {}
           /\ txn[r].seen[CharOf(r)] \in Row /\ clock \in 0 .. MaxClock
           /\ SeenDead(r) <=> txn[r].seen[CharOf(r)].health = 0
<1>1. UnderWay(txn[r])
  BY DEF UnderWay
<1>2. txn[r].call \in Calls /\ txn[r].call.op = "respawn" /\ txn[r].toLock = {}
      /\ txn[r].toLock \cup DOMAIN txn[r].seen = LockSet(txn[r].call)
  BY <1>1 DEF Control, ControlOf
<1>3. DOMAIN txn[r].seen = {CharOf(r)} /\ CharOf(r) \in Characters
  BY <1>2, CallTyped DEF LockSet, CharOf
<1>4. txn[r].seen[CharOf(r)] \in Row
  BY <1>3, TxnTyped
<1>5. clock \in 0 .. MaxClock /\ clock \in Int
  BY DEF Shape, RequestsTyped
<1>6. SeenDead(r) <=> txn[r].seen[CharOf(r)].health = 0
  BY <1>4, <1>5, HealthTyped DEF SeenDead
<1> QED BY <1>2, <1>3, <1>4, <1>5, <1>6

LEMMA ReviveTyped ==
    ASSUME Shape, Control, NEW r \in Requests, Revive(r)
    PROVE  Shape'
<1>1. RequestsTyped' /\ RowsTyped
  BY EndTyped DEF Revive, Shape
<1>2. CharOf(r) \in Characters /\ MaxHealth \in 0 .. MaxHealth
  BY ReviveKnown, Sizes DEF Revive
<1>3. health' \in [Characters -> 0 .. MaxHealth \cup {Null}]
      /\ lastCombat' \in [Characters -> 0 .. MaxClock \cup {Null}]
      /\ vitality' \in [Characters -> 0 .. MaxHealth]
  BY <1>1, <1>2 DEF Revive, RowsTyped
<1> QED BY <1>1, <1>3 DEF Revive, Shape, RowsTyped

(* A looter with its crate locked: what it takes is there.                   *)
LEMMA TakesTyped ==
    ASSUME Shape, Control, NEW r \in Requests, txn[r].pc = "take"
    PROVE  /\ Takes(r) \in Amounts
           /\ \A m \in Materials : Takes(r)[m] <= txn[r].items[m]
<1>1. UnderWay(txn[r])
  BY DEF UnderWay
<1>2. txn[r].call \in Calls /\ txn[r].call.op = "loot"
  BY <1>1 DEF Control, ControlOf
<1>3. txn[r].call.wanted \subseteq Materials
  BY <1>2, CallTyped
<1>4. txn[r].items \in [Materials -> Nat] /\ txn[r].pockets \in [Materials -> Nat]
  BY TxnTyped DEF Amounts
<1>5. SumFunction(txn[r].pockets) \in Int
  <2> DEFINE f == txn[r].pockets
  <2>1. DOMAIN f = Materials /\ \A m \in DOMAIN f : f[m] \in Int
    BY <1>4
  <2> HIDE DEF f
  <2>2. IsFiniteSet(DOMAIN f)
    BY <2>1, Sizes
  <2>3. SumFunction(f) \in Int
    BY <2>1, <2>2, SumTyped
  <2> QED BY <2>3 DEF f
<1>6. ASSUME NEW m \in Materials
      PROVE  Fits(r, m) \in Nat /\ Fits(r, m) <= txn[r].items[m]
  <2> DEFINE asked == IF txn[r].call.wanted = {} THEN Materials ELSE txn[r].call.wanted
             earlier == {n \in asked : n < m}
             before == SumFunctionOnSet(txn[r].items, earlier)
             pocketed == SumFunction(txn[r].pockets)
             room == Positive(Capacity - pocketed - before)
  <2>1. earlier \subseteq Materials
    BY <1>3
  <2>2. IsFiniteSet(earlier) /\ \A n \in earlier : txn[r].items[n] \in Int
    <3> HIDE DEF earlier
    <3>1. IsFiniteSet(earlier)
      BY <2>1, Sizes, FS_Subset
    <3>2. \A n \in earlier : txn[r].items[n] \in Int
      BY <1>4, <2>1
    <3> QED BY <3>1, <3>2
  <2>3. before \in Int
    <3> HIDE DEF earlier
    <3> QED BY <2>2, SumInt
  <2>4. Fits(r, m) = IF m \in asked THEN Lesser(txn[r].items[m], Positive(Capacity - pocketed - before))
                     ELSE 0
    BY DEF Fits, RoomFor
  <2>5. txn[r].items[m] \in Nat /\ pocketed \in Int
    BY <1>4, <1>5
  <2> HIDE DEF before, pocketed, asked
  <2>6. Positive(Capacity - pocketed - before) \in Nat
    BY <2>3, <2>5, Sizes DEF Positive
  <2> QED BY <2>4, <2>5, <2>6 DEF Lesser
<1>7. Takes(r) \in [Materials -> Nat] /\ \A m \in Materials : Takes(r)[m] = Fits(r, m)
  BY <1>6 DEF Takes
<1> QED BY <1>6, <1>7 DEF Amounts

LEMMA TakeKnown ==
    ASSUME Shape, Control, Locks, NEW r \in Requests, txn[r].pc = "take"
    PROVE  /\ CharOf(r) \in Characters /\ txn[r].crate \in Requests /\ txn[r].crate \in DOMAIN crates
           /\ charLock[CharOf(r)] = r /\ crateLock[txn[r].crate] = r
           /\ txn[r].pockets = carried[CharOf(r)] /\ txn[r].items = crates[txn[r].crate].items
           /\ crates[txn[r].crate] \in Crate
<1>1. UnderWay(txn[r])
  BY DEF UnderWay
<1>2. txn[r].call \in Calls /\ txn[r].call.op = "loot" /\ txn[r].toLock = {}
      /\ txn[r].toLock \cup DOMAIN txn[r].seen = LockSet(txn[r].call) /\ txn[r].crate \in DOMAIN crates
  BY <1>1 DEF Control, ControlOf
<1>3. DOMAIN txn[r].seen = {CharOf(r)} /\ CharOf(r) \in Characters
  BY <1>2, CallTyped DEF LockSet, CharOf
<1>4. txn[r].crate \in Requests /\ crates[txn[r].crate] \in Crate
  BY <1>2 DEF Shape, RowsTyped, IsPartialFn
<1>5. charLock[CharOf(r)] = r /\ crateLock[txn[r].crate] = r
  BY <1>3, <1>4 DEF Locks, LocksOf
<1>6. txn[r].pockets = carried[CharOf(r)] /\ txn[r].items = crates[txn[r].crate].items
  BY DEF Locks, LocksOf
<1> QED BY <1>2, <1>3, <1>4, <1>5, <1>6

(* What is left, and what the looter carries off.                            *)
Left(r) == [m \in Materials |-> txn[r].items[m] - Takes(r)[m]]
Loaded(r) == [m \in Materials |-> txn[r].pockets[m] + Takes(r)[m]]

LEMMA LoadTyped ==
    ASSUME Shape, Control, NEW r \in Requests, txn[r].pc = "take"
    PROVE  Left(r) \in Amounts /\ Loaded(r) \in Amounts
<1>1. Takes(r) \in Amounts /\ \A m \in Materials : Takes(r)[m] <= txn[r].items[m]
  BY TakesTyped
<1>2. txn[r].items \in Amounts /\ txn[r].pockets \in Amounts
  BY TxnTyped
<1>3. ASSUME NEW m \in Materials
      PROVE  txn[r].items[m] - Takes(r)[m] \in Nat /\ txn[r].pockets[m] + Takes(r)[m] \in Nat
  <2>1. txn[r].items[m] \in Nat /\ txn[r].pockets[m] \in Nat /\ Takes(r)[m] \in Nat
    BY <1>1, <1>2 DEF Amounts
  <2> QED BY <1>1, <2>1
<1> QED BY <1>3 DEF Left, Loaded, Amounts

LEMMA TakeTyped ==
    ASSUME Shape, Control, Locks, NEW r \in Requests, Take(r)
    PROVE  Shape'
<1> DEFINE k == txn[r].crate
           after == [crates[k] EXCEPT !.items = Left(r)]
<1>1. RequestsTyped' /\ RowsTyped /\ txn[r].pc = "take"
  BY EndTyped DEF Take, Shape
<1>2. /\ carried' = [carried EXCEPT ![CharOf(r)] = Loaded(r)]
      /\ crates' = [crates EXCEPT ![k] = after]
  BY DEF Take, Left, Loaded
<1>3. CharOf(r) \in Characters /\ k \in DOMAIN crates /\ crates[k] \in Crate
  BY <1>1, TakeKnown
<1>4. Left(r) \in Amounts /\ Loaded(r) \in Amounts
  BY <1>1, LoadTyped
<1>5. after \in Crate
  BY <1>3, <1>4 DEF Crate
<1>6. IsPartialFn(crates, Requests, Crate) /\ carried \in [Characters -> Amounts]
  BY <1>1 DEF RowsTyped
<1> HIDE DEF after, k
<1>7. IsPartialFn(crates', Requests, Crate)
  BY <1>2, <1>3, <1>5, <1>6 DEF IsPartialFn
<1>8. carried' \in [Characters -> Amounts]
  BY <1>2, <1>3, <1>4, <1>6
<1> QED BY <1>1, <1>7, <1>8 DEF Take, historyVars, Shape, RowsTyped

(* Time passes: health that ticks stays in its range.                        *)
LEMMA TickTyped ==
    ASSUME Shape, Tick
    PROVE  Shape'
<1>1. RowsTyped /\ RequestsTyped
  BY DEF Shape
<1>2. vitality' \in [Characters -> 0 .. MaxHealth]
  <2>1. vitality \in [Characters -> 0 .. MaxHealth]
    BY <1>1 DEF RowsTyped
  <2>2. ASSUME NEW c \in Characters
        PROVE  Regenerated(c) \in 0 .. MaxHealth
    <3>1. vitality[c] \in 0 .. MaxHealth
      BY <2>1
    <3> QED BY <3>1, Sizes DEF Regenerated, Lesser
  <2> QED BY <2>2 DEF Tick
<1>3. quiet' \in [Characters -> 0 .. RegenDelay]
  <2>1. quiet \in [Characters -> 0 .. RegenDelay]
    BY <1>1 DEF RowsTyped
  <2>2. ASSUME NEW c \in Characters
        PROVE  Lesser(quiet[c] + 1, RegenDelay) \in 0 .. RegenDelay
    <3>1. quiet[c] \in 0 .. RegenDelay
      BY <2>1
    <3> QED BY <3>1, Sizes DEF Lesser
  <2> QED BY <2>2 DEF Tick
<1>4. clock' \in 0 .. MaxClock
  BY <1>1, Sizes DEF Tick, RequestsTyped
<1> QED BY <1>1, <1>2, <1>3, <1>4 DEF Tick, rowVars, lockVars, Shape, RowsTyped, RequestsTyped

LEMMA InitShape == ASSUME Init PROVE Shape
<1>1. /\ world.docked \subseteq Characters
      /\ world.health \in [Characters -> 0 .. MaxHealth]
      /\ world.carried \in [Characters -> Amounts]
  BY DeathTxnAssumption DEF Init
<1>2. deaths \in [Characters -> Seq(Death)]
  <2>1. ASSUME NEW c \in Characters
        PROVE  (IF health[c] = 0 THEN <<[docked |-> c \in world.docked, settled |-> FALSE]>>
                ELSE <<>>) \in Seq(Death)
    <3>1. [docked |-> c \in world.docked, settled |-> FALSE] \in Death
      BY DEF Death
    <3> QED BY <3>1
  <2> QED BY <2>1 DEF Init
<1>3. IsPartialFn(crates, Requests, Crate)
  BY EmptyPartial DEF Init
<1>4. destroyed \in Amounts /\ carried \in [Characters -> Amounts]
  BY <1>1, NoneTyped DEF Init
<1>5. 0 \in 0 .. MaxClock /\ 0 \in 0 .. RegenDelay /\ NewCondition \in 0 .. NewCondition /\ 0 \in Nat
  BY Sizes
<1>6. RowsTyped
  BY <1>1, <1>2, <1>3, <1>4, <1>5 DEF Init, RowsTyped
<1>7. txn \in [Requests -> Txn]
  BY RestTyped DEF Init
<1> QED BY <1>5, <1>6, <1>7 DEF Init, Shape, RequestsTyped

LEMMA ShapeStep ==
    ASSUME Shape, Control, Locks, Next
    PROVE  Shape'
<1>1. ASSUME NEW r \in Requests, NEW c \in Calls, Begin(r, c) PROVE Shape'
  BY <1>1, BeginTyped
<1>2. ASSUME NEW r \in Requests, NEW c \in Characters, LockCharacter(r, c) PROVE Shape'
  BY <1>2, LockTyped
<1>3. ASSUME NEW r \in Requests, HitLands(r) PROVE Shape'
  BY <1>3, HitTyped
<1>4. ASSUME NEW r \in Requests, SettleDeath(r) PROVE Shape'
  BY <1>4, SettleTyped
<1>5. ASSUME NEW r \in Requests, NothingOwed(r) PROVE Shape'
  BY <1>5, NothingOwedTyped
<1>6. ASSUME NEW r \in Requests, Revive(r) PROVE Shape'
  BY <1>6, ReviveTyped
<1>7. ASSUME NEW r \in Requests, LockCrate(r) PROVE Shape'
  BY <1>7, LockCrateTyped
<1>8. ASSUME NEW r \in Requests, Take(r) PROVE Shape'
  BY <1>8, TakeTyped
<1>9. ASSUME NEW r \in Requests,
             RefuseHit(r) \/ RefuseRespawn(r) \/ RefuseLoot(r) \/ Disconnect(r)
      PROVE  Shape'
  BY <1>9, RollbackTyped DEF RefuseHit, RefuseRespawn, RefuseLoot, Disconnect
<1>10. CASE Tick
  BY <1>10, TickTyped
<1> QED BY <1>1, <1>2, <1>3, <1>4, <1>5, <1>6, <1>7, <1>8, <1>9, <1>10 DEF Next

--------------------------------------------------------------------------------
(* A request's step leaves the other requests, what they hold and the rows   *)
(* they hold as they were.                                                   *)
OthersKeep(r) ==
    /\ \A q \in Requests \ {r} : txn'[q] = txn[q]
    /\ \A q \in Requests \ {r} : \A c \in Characters : charLock'[c] = q <=> charLock[c] = q
    /\ \A q \in Requests \ {r} : \A k \in Requests : crateLock'[k] = q <=> crateLock[k] = q
    /\ clock' = clock

RowsKeep(r) ==
    /\ \A c \in Characters : charLock[c] \in Requests \ {r} =>
          /\ health'[c] = health[c] /\ lastCombat'[c] = lastCombat[c]
          /\ xp'[c] = xp[c] /\ carried'[c] = carried[c]
    /\ \A k \in DOMAIN crates : crateLock[k] # r => crates'[k] = crates[k]
    /\ DOMAIN crates \subseteq DOMAIN crates'
    /\ DOMAIN crates' \subseteq DOMAIN crates \cup {r}

LEMMA OthersStand ==
    ASSUME Shape, Control, Locks, NEW r \in Requests, OthersKeep(r), RowsKeep(r),
           NEW q \in Requests, q # r
    PROVE  ControlOf(q)' /\ LocksOf(q)'
<1>1. txn'[q] = txn[q] /\ clock' = clock
  BY DEF OthersKeep
<1>2. ControlOf(q)
  BY DEF Control
<1>3. ControlOf(q)'
  BY <1>1, <1>2 DEF ControlOf, UnderWay, RowsKeep
<1>4. \A c \in Characters : charLock'[c] = q <=> txn[q].pc # "revive" /\ c \in DOMAIN txn[q].seen
  BY DEF OthersKeep, Locks, LocksOf
<1>5. ASSUME NEW c \in Characters, charLock'[c] = q
      PROVE  txn[q].seen[c] = RowOf(c)'
  <2>1. charLock[c] = q
    BY <1>5 DEF OthersKeep
  <2>2. txn[q].seen[c] = RowOf(c)
    BY <2>1 DEF Locks, LocksOf
  <2> QED BY <2>1, <2>2 DEF RowOf, RowsKeep
<1>6. \A k \in Requests : crateLock'[k] = q <=> txn[q].pc = "take" /\ k = txn[q].crate
  BY DEF OthersKeep, Locks, LocksOf
<1>7. ASSUME txn[q].pc = "take"
      PROVE  txn[q].pockets = carried'[CharOf(q)] /\ txn[q].items = crates'[txn[q].crate].items
  <2>1. /\ CharOf(q) \in Characters /\ txn[q].crate \in DOMAIN crates
        /\ charLock[CharOf(q)] = q /\ crateLock[txn[q].crate] = q
        /\ txn[q].pockets = carried[CharOf(q)] /\ txn[q].items = crates[txn[q].crate].items
    BY <1>7, TakeKnown
  <2> QED BY <2>1 DEF RowsKeep
<1>8. LocksOf(q)'
  BY <1>1, <1>4, <1>5, <1>6, <1>7 DEF LocksOf, CharOf
<1> QED BY <1>3, <1>8

(* A request whose locks go.                                                 *)
LEMMA LocksGo ==
    ASSUME Shape, NEW r \in Requests, Release(r)
    PROVE  /\ \A q \in Requests \ {r} : \A c \in Characters : charLock'[c] = q <=> charLock[c] = q
           /\ \A q \in Requests \ {r} : \A k \in Requests : crateLock'[k] = q <=> crateLock[k] = q
           /\ \A c \in Characters : charLock'[c] # r
           /\ \A k \in Requests : crateLock'[k] # r
<1>1. charLock' = Released(charLock, r) /\ crateLock' = Released(crateLock, r)
      /\ charLock \in [Characters -> Requests \cup {Nobody}]
      /\ crateLock \in [Requests -> Requests \cup {Nobody}]
  BY DEF Release, Shape, RequestsTyped
<1>2. /\ \A x \in Characters : charLock'[x] = IF charLock[x] = r THEN Nobody ELSE charLock[x]
      /\ \A x \in Requests : crateLock'[x] = IF crateLock[x] = r THEN Nobody ELSE crateLock[x]
  BY <1>1 DEF Released
<1> QED BY <1>2, Sizes

LEMMA EndStands ==
    ASSUME Shape, NEW r \in Requests, EndTransaction(r)
    PROVE  OthersKeep(r) /\ ControlOf(r)' /\ LocksOf(r)' /\ txn'[r] = AtRest("done")
<1>1. txn' = [txn EXCEPT ![r] = AtRest("done")] /\ Release(r) /\ clock' = clock
  BY DEF EndTransaction
<1>2. txn \in [Requests -> Txn]
  BY DEF Shape, RequestsTyped
<1>3. txn'[r] = AtRest("done") /\ \A q \in Requests \ {r} : txn'[q] = txn[q]
  BY <1>1, <1>2
<1>4. OthersKeep(r)
  BY <1>1, <1>3, LocksGo DEF OthersKeep
<1>5. /\ txn'[r].pc = "done" /\ txn'[r].call = NoCall /\ txn'[r].toLock = {}
      /\ DOMAIN txn'[r].seen = {}
  BY <1>3, RestTyped
<1>6. ControlOf(r)'
  BY <1>5 DEF ControlOf, UnderWay
<1>7. LocksOf(r)'
  BY <1>1, <1>5, LocksGo DEF LocksOf
<1> QED BY <1>3, <1>4, <1>6, <1>7

LEMMA CostedStands ==
    ASSUME Shape, Control, Locks, NEW r \in Requests, txn[r].pc = "settle", Costed(r)
    PROVE  /\ OthersKeep(r) /\ ControlOf(r)' /\ LocksOf(r)'
           /\ txn[r].call.op = "respawn" =>
                 txn'[r].pc = "revive" /\ txn'[r].seen = txn[r].seen /\ txn'[r].call = txn[r].call
           /\ txn[r].call.op # "respawn" => txn'[r] = AtRest("done")
<1> DEFINE new == IF txn[r].call.op = "respawn" THEN [txn[r] EXCEPT !.pc = "revive", !.now = 0]
                  ELSE AtRest("done")
<1>1. txn' = [txn EXCEPT ![r] = new] /\ Release(r) /\ clock' = clock
  BY DEF Costed
<1>2. txn \in [Requests -> Txn] /\ txn[r] \in Txn
  BY DEF Shape, RequestsTyped
<1>3. txn'[r] = new /\ \A q \in Requests \ {r} : txn'[q] = txn[q]
  BY <1>1, <1>2
<1>4. OthersKeep(r)
  BY <1>1, <1>3, LocksGo DEF OthersKeep
<1>5. /\ txn[r].call \in Calls /\ DOMAIN txn[r].seen = {CharOf(r)} /\ txn[r].toLock = {}
      /\ txn[r].call.op \in {"cost", "respawn"}
  BY SettleKnown
<1>6. LockSet(txn[r].call) = {CharOf(r)}
  BY <1>5 DEF LockSet, CharOf
<1>7. CASE txn[r].call.op = "respawn"
  <2>1. /\ txn'[r].pc = "revive" /\ txn'[r].seen = txn[r].seen /\ txn'[r].call = txn[r].call
        /\ txn'[r].toLock = {}
    BY <1>2, <1>3, <1>5, <1>7 DEF Txn
  <2>2. ControlOf(r)'
    BY <1>5, <1>6, <1>7, <2>1 DEF ControlOf, UnderWay
  <2>3. LocksOf(r)'
    BY <1>1, <2>1, LocksGo DEF LocksOf
  <2> QED BY <1>4, <1>7, <2>1, <2>2, <2>3
<1>8. CASE txn[r].call.op # "respawn"
  <2>1. txn'[r] = AtRest("done")
    BY <1>3, <1>8
  <2>2. /\ txn'[r].pc = "done" /\ txn'[r].call = NoCall /\ txn'[r].toLock = {}
        /\ DOMAIN txn'[r].seen = {}
    BY <2>1, RestTyped
  <2>3. ControlOf(r)'
    BY <2>2 DEF ControlOf, UnderWay
  <2>4. LocksOf(r)'
    BY <1>1, <2>2, LocksGo DEF LocksOf
  <2> QED BY <1>4, <1>8, <2>1, <2>3, <2>4
<1> QED BY <1>7, <1>8

LEMMA BeginStands ==
    ASSUME Shape, Control, Locks, NEW r \in Requests, NEW c \in Calls, Begin(r, c)
    PROVE  OthersKeep(r) /\ RowsKeep(r) /\ ControlOf(r)' /\ LocksOf(r)'
<1>1. PICK crate \in IF c.op = "loot" THEN DOMAIN crates ELSE {Nobody} :
        txn' = [txn EXCEPT ![r] =
              [AtRest("lock") EXCEPT
                  !.call = c, !.crate = crate, !.now = IF c.op = "hit" THEN clock ELSE 0,
                  !.armed = c.char \in Armed /\ condition[c.char] > 0,
                  !.toLock = IF c.op = "hit" THEN {c.char, c.target} ELSE {c.char}]]
  BY DEF Begin
<1>2. txn \in [Requests -> Txn] /\ txn[r].pc = "idle"
  BY DEF Begin, Shape, RequestsTyped
<1>3. /\ txn'[r].pc = "lock" /\ txn'[r].call = c /\ txn'[r].crate = crate
      /\ txn'[r].toLock = LockSet(c) /\ DOMAIN txn'[r].seen = {}
      /\ \A q \in Requests \ {r} : txn'[q] = txn[q]
  BY <1>1, <1>2, EmptyPartial DEF AtRest, LockSet
<1>4. OthersKeep(r)
  BY <1>3 DEF OthersKeep, Begin, lockVars
<1>5. RowsKeep(r)
  BY DEF RowsKeep, Begin, dbVars, rowVars
<1>6. r \notin DOMAIN crates /\ \A d \in Characters : charLock[d] # r
  BY <1>2 DEF Control, ControlOf, UnderWay, Locks, LocksOf
<1>7. ControlOf(r)'
  <2>1. DOMAIN crates' = DOMAIN crates
    BY DEF Begin, dbVars, rowVars
  <2> QED BY <1>1, <1>3, <1>6, <2>1, CallTyped DEF ControlOf, UnderWay
<1>8. \A k \in Requests : crateLock[k] # r
  BY <1>2 DEF Locks, LocksOf
<1>9. LocksOf(r)'
  BY <1>3, <1>6, <1>8 DEF LocksOf, Begin, lockVars
<1> QED BY <1>4, <1>5, <1>7, <1>9

LEMMA LockStands ==
    ASSUME Shape, Control, Locks, NEW r \in Requests, NEW c \in Characters, LockCharacter(r, c)
    PROVE  OthersKeep(r) /\ RowsKeep(r) /\ ControlOf(r)' /\ LocksOf(r)'
<1> DEFINE rest == txn[r].toLock \ {c}
           new == [txn[r] EXCEPT !.toLock = rest, !.seen = Put(@, c, RowOf(c)),
                                 !.now = IF rest = {} THEN TimeOfDecision(r) ELSE @,
                                 !.pc = IF rest = {} THEN AfterLock[txn[r].call.op] ELSE @]
<1>1. /\ txn' = [txn EXCEPT ![r] = new] /\ txn[r].pc = "lock" /\ c \in txn[r].toLock
      /\ LowestIdFirst(r, c) /\ Free(charLock, c, r) /\ charLock' = [charLock EXCEPT ![c] = r]
      /\ UNCHANGED <<world, dbVars, clock, crateLock, overlapped>>
  BY DEF LockCharacter, CanLock
<1>2. txn \in [Requests -> Txn] /\ txn[r] \in Txn
      /\ charLock \in [Characters -> Requests \cup {Nobody}]
  BY DEF Shape, RequestsTyped
<1>3. /\ txn'[r].toLock = rest /\ txn'[r].seen = Put(txn[r].seen, c, RowOf(c))
      /\ txn'[r].now = (IF rest = {} THEN clock ELSE txn[r].now)
      /\ txn'[r].pc = (IF rest = {} THEN AfterLock[txn[r].call.op] ELSE "lock")
      /\ txn'[r].call = txn[r].call /\ txn'[r].crate = txn[r].crate
      /\ \A q \in Requests \ {r} : txn'[q] = txn[q]
  BY <1>1, <1>2 DEF Txn, TimeOfDecision
<1>4. \A d \in Characters : charLock'[d] = IF d = c THEN r ELSE charLock[d]
  BY <1>1, <1>2
<1>5. OthersKeep(r)
  <2>1. ASSUME NEW q \in Requests \ {r}, NEW d \in Characters
        PROVE  charLock'[d] = q <=> charLock[d] = q
    <3>1. q # r /\ q # Nobody
      BY Sizes
    <3>2. CASE d = c
      BY <1>1, <1>4, <3>1, <3>2 DEF Free
    <3>3. CASE d # c
      BY <1>4, <3>3
    <3> QED BY <3>2, <3>3
  <2>2. \A q \in Requests \ {r} : txn'[q] = txn[q]
    BY <1>3
  <2>3. crateLock' = crateLock /\ clock' = clock
    BY <1>1
  <2> QED BY <2>1, <2>2, <2>3 DEF OthersKeep
<1>6. RowsKeep(r)
  BY <1>1 DEF RowsKeep, dbVars, rowVars
<1>7. IsPartialFn(txn[r].seen, Characters, Row) /\ RowOf(c) \in Row
  BY TxnTyped, RowTyped DEF IsPartialFn
<1>8. /\ DOMAIN txn'[r].seen = DOMAIN txn[r].seen \cup {c}
      /\ txn'[r].seen[c] = RowOf(c)
      /\ \A d \in DOMAIN txn[r].seen : d # c => txn'[r].seen[d] = txn[r].seen[d]
  <2>1. PICK f : f = txn[r].seen
    OBVIOUS
  <2>2. PICK row : row = RowOf(c)
    OBVIOUS
  <2>3. IsPartialFn(f, Characters, Row) /\ row \in Row
    BY <1>7, <2>1, <2>2
  <2>4. /\ IsPartialFn(Put(f, c, row), Characters, Row)
        /\ DOMAIN Put(f, c, row) = DOMAIN f \cup {c}
        /\ Put(f, c, row)[c] = row
        /\ \A d \in DOMAIN f : d # c => Put(f, c, row)[d] = f[d]
    BY <2>3 DEF IsPartialFn, Put
  <2> QED BY <1>3, <2>1, <2>2, <2>4
<1>9. /\ txn[r].call \in Calls /\ txn[r].toLock \cup DOMAIN txn[r].seen = LockSet(txn[r].call)
      /\ \A e \in DOMAIN txn[r].seen, d \in txn[r].toLock : e < d
      /\ r \notin DOMAIN crates
      /\ txn[r].call.op = "loot" => txn[r].crate \in DOMAIN crates
  BY <1>1 DEF Control, ControlOf, UnderWay
<1>10. rest \cup DOMAIN txn'[r].seen = LockSet(txn[r].call)
  BY <1>1, <1>8, <1>9
<1>11. txn[r].call.op \in {"hit", "cost", "respawn", "loot"}
  BY <1>9, CallTyped
<1>12. ControlOf(r)'
  <2>1. DOMAIN crates' = DOMAIN crates /\ clock' = clock
    BY <1>1 DEF dbVars, rowVars
  <2>2. CASE rest = {}
    <3>1. /\ txn'[r].pc = AfterLock[txn[r].call.op] /\ txn'[r].now = clock /\ txn'[r].toLock = {}
      BY <1>3, <2>2
    <3>2. /\ txn[r].call.op = "hit" => txn'[r].pc = "hit"
          /\ txn[r].call.op \in {"cost", "respawn"} => txn'[r].pc = "settle"
          /\ txn[r].call.op = "loot" => txn'[r].pc = "lockCrate"
      BY <3>1 DEF AfterLock
    <3> HIDE DEF rest, new
    <3> QED BY <1>3, <1>9, <1>10, <1>11, <2>1, <2>2, <3>1, <3>2 DEF ControlOf, UnderWay
  <2>3. CASE rest # {}
    <3>1. \A e \in DOMAIN txn'[r].seen, d \in rest : e < d
      <4> SUFFICES ASSUME NEW e \in DOMAIN txn'[r].seen, NEW d \in rest PROVE e < d
        OBVIOUS
      <4>1. CASE e = c
        <5>1. c <= d /\ c # d /\ d \in Nat /\ c \in Nat
          BY <1>1, TxnTyped, Sizes DEF LowestIdFirst
        <5> QED BY <4>1, <5>1
      <4>2. CASE e # c
        BY <1>8, <1>9, <4>2
      <4> QED BY <4>1, <4>2
    <3>2. txn'[r].pc = "lock" /\ txn'[r].toLock = rest
      BY <1>3, <2>3
    <3> HIDE DEF rest, new
    <3> QED BY <1>3, <1>9, <1>10, <2>1, <2>3, <3>1, <3>2 DEF ControlOf, UnderWay
  <2> QED BY <2>2, <2>3
<1>13. LocksOf(r)'
  <2>1. txn'[r].pc \notin {"revive", "take"}
    BY <1>3, <1>11 DEF AfterLock
  <2>2. \A d \in Characters : charLock[d] = r <=> d \in DOMAIN txn[r].seen
    BY <1>1 DEF Locks, LocksOf
  <2>3. \A d \in Characters : charLock'[d] = r <=> d \in DOMAIN txn'[r].seen
    BY <1>4, <1>8, <2>2
  <2>4. ASSUME NEW d \in Characters, charLock'[d] = r
        PROVE  txn'[r].seen[d] = RowOf(d)'
    <3>1. RowOf(d)' = RowOf(d)
      BY <1>1 DEF RowOf, dbVars, rowVars
    <3>2. CASE d = c
      BY <1>8, <3>1, <3>2
    <3>3. CASE d # c
      <4>1. charLock[d] = r /\ d \in DOMAIN txn[r].seen
        BY <1>4, <2>2, <2>4, <3>3
      <4>2. txn[r].seen[d] = RowOf(d)
        BY <4>1 DEF Locks, LocksOf
      <4> QED BY <1>8, <3>1, <3>3, <4>1, <4>2
    <3> QED BY <3>2, <3>3
  <2>5. \A k \in Requests : crateLock[k] # r
    BY <1>1 DEF Locks, LocksOf
  <2> HIDE DEF rest, new
  <2> QED BY <1>1, <2>1, <2>3, <2>4, <2>5 DEF LocksOf
<1> QED BY <1>5, <1>6, <1>12, <1>13

LEMMA LockCrateStands ==
    ASSUME Shape, Control, Locks, NEW r \in Requests, LockCrate(r)
    PROVE  OthersKeep(r) /\ RowsKeep(r) /\ ControlOf(r)' /\ LocksOf(r)'
<1> DEFINE k == txn[r].crate
           new == [txn[r] EXCEPT !.pc = "take", !.now = clock,
                      !.items = crates[k].items, !.pockets = carried[CharOf(r)]]
<1>1. /\ txn' = [txn EXCEPT ![r] = new] /\ txn[r].pc = "lockCrate"
      /\ Free(crateLock, k, r) /\ crateLock' = [crateLock EXCEPT ![k] = r]
      /\ UNCHANGED <<world, dbVars, clock, charLock, overlapped>>
  BY DEF LockCrate, CanLockCrate
<1>2. txn \in [Requests -> Txn] /\ txn[r] \in Txn
      /\ crateLock \in [Requests -> Requests \cup {Nobody}]
  BY DEF Shape, RequestsTyped
<1>3. /\ txn'[r].pc = "take" /\ txn'[r].toLock = txn[r].toLock /\ txn'[r].seen = txn[r].seen
      /\ txn'[r].call = txn[r].call /\ txn'[r].crate = k
      /\ txn'[r].items = crates[k].items /\ txn'[r].pockets = carried[CharOf(r)]
      /\ \A q \in Requests \ {r} : txn'[q] = txn[q]
  BY <1>1, <1>2 DEF Txn
<1>4. /\ txn[r].call \in Calls /\ txn[r].call.op = "loot" /\ txn[r].toLock = {}
      /\ txn[r].toLock \cup DOMAIN txn[r].seen = LockSet(txn[r].call)
      /\ k \in DOMAIN crates /\ r \notin DOMAIN crates
  BY <1>1 DEF Control, ControlOf, UnderWay
<1>5. k \in Requests
  BY <1>4 DEF Shape, RowsTyped, IsPartialFn
<1> HIDE DEF new, k
<1>6. \A j \in Requests : crateLock'[j] = IF j = k THEN r ELSE crateLock[j]
  BY <1>1, <1>2, <1>5
<1>7. OthersKeep(r)
  BY <1>1, <1>3, <1>5, <1>6, Sizes DEF OthersKeep, Free
<1>8. RowsKeep(r)
  BY <1>1 DEF RowsKeep, dbVars, rowVars
<1>9. ControlOf(r)'
  BY <1>1, <1>3, <1>4 DEF ControlOf, UnderWay, dbVars, rowVars
<1>10. LocksOf(r)'
  <2>1. \A d \in Characters : charLock'[d] = r <=> d \in DOMAIN txn'[r].seen
    BY <1>1, <1>3 DEF Locks, LocksOf
  <2>2. ASSUME NEW d \in Characters, charLock'[d] = r
        PROVE  txn'[r].seen[d] = RowOf(d)'
    <3>1. RowOf(d)' = RowOf(d) /\ charLock[d] = r
      BY <1>1, <2>2 DEF RowOf, dbVars, rowVars
    <3> QED BY <1>3, <3>1 DEF Locks, LocksOf
  <2>3. \A j \in Requests : crateLock[j] # r
    BY <1>1 DEF Locks, LocksOf
  <2>4. \A j \in Requests : crateLock'[j] = r <=> j = k
    BY <1>5, <1>6, <2>3
  <2>5. txn'[r].pockets = carried'[CharOf(r)'] /\ txn'[r].items = crates'[k].items
    BY <1>1, <1>3 DEF CharOf, dbVars, rowVars
  <2> QED BY <1>3, <2>1, <2>2, <2>4, <2>5 DEF LocksOf
<1> QED BY <1>7, <1>8, <1>9, <1>10

(* The steps that write: what they write, the request has locked, or, a      *)
(* respawn's row at the end, nobody has.                                     *)
LEMMA HitKeepsRows ==
    ASSUME Shape, Control, Locks, NEW r \in Requests, HitLands(r)
    PROVE  RowsKeep(r)
<1> DEFINE a == CharOf(r)
           t == Target(r)
<1>1. txn[r].pc = "hit"
  BY HitWrites
<1>2. charLock[a] = r /\ charLock[t] = r
  BY <1>1, HitKnown
<1>3. /\ health' = [health EXCEPT ![a] = HealthNow(r, a), ![t] = After(r)]
      /\ lastCombat' = [lastCombat EXCEPT ![a] = txn[r].now, ![t] = txn[r].now]
      /\ xp' = [xp EXCEPT ![a] = txn[r].seen[a].xp + Dealt(r)]
      /\ UNCHANGED <<carried, crates>>
  BY HitWrites
<1>4. RowsTyped
  BY DEF Shape
<1> HIDE DEF a, t
<1>5. \A c \in Characters : charLock[c] \in Requests \ {r} => c # a /\ c # t
  BY <1>2
<1>6. \A c \in Characters : c # a /\ c # t =>
        health'[c] = health[c] /\ lastCombat'[c] = lastCombat[c] /\ xp'[c] = xp[c]
  BY <1>3, <1>4 DEF RowsTyped
<1> QED BY <1>3, <1>5, <1>6 DEF RowsKeep

LEMMA SettleKeepsRows ==
    ASSUME Shape, Control, Locks, NEW r \in Requests, SettleDeath(r)
    PROVE  RowsKeep(r)
<1> DEFINE c == CharOf(r)
<1>1. txn[r].pc = "settle" /\ UNCHANGED <<health, lastCombat, xp>>
  BY SettleWrites
<1>2. charLock[c] = r /\ r \notin DOMAIN crates
  BY <1>1, SettleKnown
<1>3. PICK i \in Owed(c) : SettlesAtStation(r, i) \/ SettlesElsewhere(r, i)
  BY SettleWrites
<1>4. \A d \in Characters : charLock[d] \in Requests \ {r} => carried'[d] = carried[d]
  BY <1>2, <1>3 DEF SettlesAtStation, SettlesElsewhere, Shape, RowsTyped
<1>5. CASE crates' = crates
  BY <1>1, <1>4, <1>5 DEF RowsKeep
<1>6. CASE crates' # crates
  <2> DEFINE crate == [items |-> DroppedBy(r), expires |-> txn[r].now + LootableFor]
  <2>1. crates' = Put(crates, r, crate)
    BY <1>3, <1>6 DEF SettlesAtStation, SettlesElsewhere
  <2> HIDE DEF crate
  <2>2. DOMAIN crates' = DOMAIN crates \cup {r} /\ \A k \in DOMAIN crates : crates'[k] = crates[k]
    BY <1>2, <2>1 DEF Put
  <2> QED BY <1>1, <1>4, <2>2 DEF RowsKeep
<1> QED BY <1>5, <1>6

LEMMA ReviveKeepsRows ==
    ASSUME Shape, Control, Locks, NEW r \in Requests, Revive(r)
    PROVE  RowsKeep(r)
<1> DEFINE c == CharOf(r)
<1>1. /\ health' = [health EXCEPT ![c] = Null] /\ lastCombat' = [lastCombat EXCEPT ![c] = Null]
      /\ UNCHANGED <<xp, carried, crates>> /\ Free(charLock, c, r)
  BY DEF Revive
<1>2. \A d \in Characters : charLock[d] \in Requests \ {r} => d # c
  BY <1>1, Sizes DEF Free
<1> HIDE DEF c
<1>3. \A d \in Characters : d # c => health'[d] = health[d] /\ lastCombat'[d] = lastCombat[d]
  BY <1>1 DEF Shape, RowsTyped
<1> QED BY <1>1, <1>2, <1>3 DEF RowsKeep

LEMMA TakeKeepsRows ==
    ASSUME Shape, Control, Locks, NEW r \in Requests, Take(r)
    PROVE  RowsKeep(r)
<1> DEFINE c == CharOf(r)
           k == txn[r].crate
           after == [crates[k] EXCEPT !.items = Left(r)]
<1>1. /\ carried' = [carried EXCEPT ![c] = Loaded(r)] /\ crates' = [crates EXCEPT ![k] = after]
      /\ UNCHANGED <<health, lastCombat, xp>> /\ txn[r].pc = "take"
  BY DEF Take, Left, Loaded
<1>2. charLock[c] = r /\ crateLock[k] = r /\ k \in DOMAIN crates
  BY <1>1, TakeKnown
<1> HIDE DEF c, k, after
<1>3. \A d \in Characters : charLock[d] \in Requests \ {r} => carried'[d] = carried[d]
  BY <1>1, <1>2 DEF Shape, RowsTyped
<1>4. DOMAIN crates' = DOMAIN crates /\ \A j \in DOMAIN crates : crateLock[j] # r => crates'[j] = crates[j]
  BY <1>1, <1>2
<1> QED BY <1>1, <1>3, <1>4 DEF RowsKeep

(* Between them: who is where in its call, and that what is locked is as it  *)
(* was seen.                                                                 *)
LEMMA StandsForAll ==
    ASSUME Shape, Control, Locks, NEW r \in Requests, OthersKeep(r), RowsKeep(r),
           ControlOf(r)', LocksOf(r)'
    PROVE  Control' /\ Locks'
<1>1. ASSUME NEW q \in Requests PROVE ControlOf(q)' /\ LocksOf(q)'
  BY OthersStand
<1> QED BY <1>1 DEF Control, Locks

LEMMA TickStands ==
    ASSUME Shape, Control, Locks, Tick
    PROVE  Control' /\ Locks'
<1>1. UNCHANGED <<rowVars, lockVars, txn>> /\ \A r \in Requests : txn[r].pc # "hit"
  BY DEF Tick
<1>2. ASSUME NEW r \in Requests PROVE ControlOf(r)'
  BY <1>1 DEF Control, ControlOf, UnderWay, rowVars
<1>3. ASSUME NEW r \in Requests PROVE LocksOf(r)'
  <2>1. ASSUME NEW c \in Characters, charLock[c] = r PROVE txn[r].seen[c] = RowOf(c)'
    <3>1. RowOf(c)' = RowOf(c)
      BY <1>1 DEF RowOf, rowVars
    <3> QED BY <2>1, <3>1 DEF Locks, LocksOf
  <2> QED BY <1>1, <2>1 DEF Locks, LocksOf, CharOf, rowVars, lockVars
<1> QED BY <1>2, <1>3 DEF Control, Locks

LEMMA StandStep ==
    ASSUME Shape, Control, Locks, Next
    PROVE  Control' /\ Locks'
<1>1. ASSUME NEW r \in Requests, NEW c \in Calls, Begin(r, c) PROVE Control' /\ Locks'
  BY <1>1, BeginStands, StandsForAll
<1>2. ASSUME NEW r \in Requests, NEW c \in Characters, LockCharacter(r, c) PROVE Control' /\ Locks'
  BY <1>2, LockStands, StandsForAll
<1>3. ASSUME NEW r \in Requests, HitLands(r) PROVE Control' /\ Locks'
  BY <1>3, HitWrites, EndStands, HitKeepsRows, StandsForAll
<1>4. ASSUME NEW r \in Requests, SettleDeath(r) PROVE Control' /\ Locks'
  BY <1>4, SettleWrites, CostedStands, SettleKeepsRows, StandsForAll
<1>5. ASSUME NEW r \in Requests, NothingOwed(r) PROVE Control' /\ Locks'
  <2>1. RowsKeep(r)
    BY <1>5 DEF NothingOwed, RowsKeep, dbVars, rowVars
  <2> QED BY <1>5, <2>1, CostedStands, StandsForAll DEF NothingOwed
<1>6. ASSUME NEW r \in Requests, Revive(r) PROVE Control' /\ Locks'
  BY <1>6, EndStands, ReviveKeepsRows, StandsForAll DEF Revive
<1>7. ASSUME NEW r \in Requests, LockCrate(r) PROVE Control' /\ Locks'
  BY <1>7, LockCrateStands, StandsForAll
<1>8. ASSUME NEW r \in Requests, Take(r) PROVE Control' /\ Locks'
  BY <1>8, EndStands, TakeKeepsRows, StandsForAll DEF Take
<1>9. ASSUME NEW r \in Requests, Rollback(r) PROVE Control' /\ Locks'
  <2>1. RowsKeep(r)
    BY <1>9 DEF Rollback, RowsKeep, dbVars, rowVars
  <2> QED BY <1>9, <2>1, EndStands, StandsForAll DEF Rollback
<1>10. CASE Tick
  BY <1>10, TickStands
<1> QED BY <1>1, <1>2, <1>3, <1>4, <1>5, <1>6, <1>7, <1>8, <1>9, <1>10
        DEF Next, RefuseHit, RefuseRespawn, RefuseLoot, Disconnect

LEMMA InitStands == ASSUME Init PROVE Control /\ Locks
<1>1. ASSUME NEW r \in Requests PROVE ControlOf(r) /\ LocksOf(r)
  <2>1. /\ txn[r] = AtRest("idle") /\ crates = EmptyFn
        /\ \A c \in Characters : charLock[c] = Nobody
        /\ \A k \in Requests : crateLock[k] = Nobody
    BY DEF Init
  <2>2. txn[r].pc = "idle" /\ txn[r].call = NoCall /\ txn[r].toLock = {} /\ DOMAIN txn[r].seen = {}
    BY <2>1, RestTyped
  <2>3. r # Nobody /\ DOMAIN crates = {}
    BY <2>1, Sizes DEF EmptyFn
  <2>4. ControlOf(r)
    BY <2>2, <2>3 DEF ControlOf, UnderWay
  <2>5. LocksOf(r)
    <3>1. (\A c \in Characters : charLock[c] # r) /\ (\A k \in Requests : crateLock[k] # r)
      BY <2>1, <2>3
    <3> QED BY <2>2, <3>1 DEF LocksOf
  <2> QED BY <2>4, <2>5
<1> QED BY <1>1 DEF Control, Locks

Inv == Shape /\ Control /\ Locks

(* The types DeathTxn declares.                                              *)
LEMMA TypesHold == ASSUME Shape PROVE TypeOK
<1>1. ASSUME NEW r \in Requests
      PROVE  /\ DOMAIN txn[r] = DOMAIN AtRest("idle")
             /\ txn[r].pc \in Steps /\ txn[r].call \in Calls \cup {NoCall}
             /\ txn[r].toLock \subseteq Characters /\ txn[r].now \in 0 .. MaxClock
             /\ IsPartialFn(txn[r].seen, Characters, Row)
             /\ txn[r].crate \in Requests \cup {Nobody}
             /\ {txn[r].pockets, txn[r].items} \subseteq Amounts
  <2>1. DOMAIN txn[r] = DOMAIN AtRest("idle") /\ txn[r].now \in 0 .. MaxClock
    BY TxnTyped DEF Txn, AtRest
  <2>2. IsPartialFn(txn[r].seen, Characters, Row)
    BY TxnTyped DEF IsPartialFn
  <2> QED BY <2>1, <2>2, TxnTyped
<1> QED BY <1>1 DEF Shape, RowsTyped, RequestsTyped, TypeOK

LEMMA Stutter ==
    ASSUME Inv, UNCHANGED vars
    PROVE  Inv'
<1>1. Shape'
  BY DEF Inv, Shape, RowsTyped, RequestsTyped, vars, dbVars, rowVars, historyVars, lockVars
<1>2. ASSUME NEW r \in Requests PROVE ControlOf(r)' /\ LocksOf(r)'
  <2>1. \A c \in Characters : RowOf(c)' = RowOf(c)
    BY DEF RowOf, vars, dbVars, rowVars
  <2>2. ControlOf(r)'
    BY DEF Inv, Control, ControlOf, UnderWay, vars, dbVars, rowVars
  <2>3. LocksOf(r)'
    BY <2>1 DEF Inv, Locks, LocksOf, CharOf, vars, dbVars, rowVars, lockVars
  <2> QED BY <2>2, <2>3
<1> QED BY <1>1, <1>2 DEF Inv, Control, Locks

LEMMA InvHolds == Spec => []Inv
<1>1. Init => Inv
  BY InitShape, InitStands DEF Inv
<1>2. Inv /\ [Next]_vars => Inv'
  BY ShapeStep, StandStep, Stutter DEF Inv
<1> QED BY <1>1, <1>2, PTL DEF Spec

(* CombatService.cs, DeathCostService.cs: rows, requests and the health that *)
(* ticks keep their types; health never leaves its range.                    *)
THEOREM TypesKept == Spec => []TypeOK
<1>1. Inv => TypeOK
  BY TypesHold DEF Inv
<1> QED BY <1>1, InvHolds, PTL

--------------------------------------------------------------------------------
(* Time, and health as if it ticked.                                         *)

LEMMA TimesInit == ASSUME Init PROVE Times
BY Sizes DEF Init, Times, QuietOf, Lesser

LEMMA TimesSame ==
    ASSUME Times, UNCHANGED <<health, lastCombat, quiet, attacks, clock>>
    PROVE  Times'
BY DEF Times, QuietOf

LEMMA HitTimes ==
    ASSUME Inv, Times, NEW r \in Requests, HitLands(r)
    PROVE  Times'
<1> DEFINE a == CharOf(r)
           t == Target(r)
<1>1. txn[r].pc = "hit" /\ Shape /\ Control /\ Locks
  BY HitWrites DEF Inv
<1>2. a \in Characters /\ t \in Characters /\ txn[r].now = clock /\ clock \in 0 .. MaxClock
  BY <1>1, HitKnown
<1>3. /\ health' = [health EXCEPT ![a] = HealthNow(r, a), ![t] = After(r)]
      /\ lastCombat' = [lastCombat EXCEPT ![a] = txn[r].now, ![t] = txn[r].now]
      /\ attacks' = [attacks EXCEPT ![<<a, t>>] = txn[r].now]
      /\ quiet' = [quiet EXCEPT ![a] = 0, ![t] = 0]
      /\ clock' = clock
  BY HitWrites DEF EndTransaction
<1>4. RowsTyped
  BY <1>1 DEF Shape
<1> HIDE DEF a, t
<1>5. ASSUME NEW c \in Characters PROVE QuietOf(c)'
  <2>1. CASE c = a \/ c = t
    <3>1. lastCombat'[c] = clock /\ quiet'[c] = 0
      BY <1>2, <1>3, <1>4, <2>1 DEF RowsTyped
    <3> QED BY <1>2, <1>3, <3>1, Sizes DEF QuietOf, Lesser
  <2>2. CASE c # a /\ c # t
    <3>1. lastCombat'[c] = lastCombat[c] /\ quiet'[c] = quiet[c] /\ health'[c] = health[c]
      BY <1>3, <1>4, <2>2 DEF RowsTyped
    <3> QED BY <1>3, <3>1 DEF Times, QuietOf
  <2> QED BY <2>1, <2>2
<1>6. ASSUME NEW p \in Characters \X Characters PROVE attacks'[p] <= clock'
  BY <1>2, <1>3, <1>4 DEF Times, RowsTyped
<1> QED BY <1>5, <1>6 DEF Times

LEMMA TickTimes ==
    ASSUME Inv, Times, Tick
    PROVE  Times'
<1>1. RowsTyped /\ clock \in Nat
  BY Sizes DEF Inv, Shape, RequestsTyped
<1>2. /\ clock' = clock + 1
      /\ quiet' = [c \in Characters |-> Lesser(quiet[c] + 1, RegenDelay)]
      /\ UNCHANGED <<health, lastCombat, attacks>>
  BY DEF Tick, rowVars
<1>3. ASSUME NEW c \in Characters PROVE QuietOf(c)'
  <2>1. QuietOf(c) /\ quiet'[c] = Lesser(quiet[c] + 1, RegenDelay)
    BY <1>2 DEF Times
  <2>2. lastCombat[c] \in Nat \cup {Null} /\ quiet[c] \in Nat
    BY <1>1, Sizes DEF RowsTyped
  <2> QED BY <1>1, <1>2, <2>1, <2>2, Sizes DEF QuietOf, Lesser
<1>4. ASSUME NEW p \in Characters \X Characters PROVE attacks'[p] <= clock'
  <2>1. attacks[p] <= clock /\ attacks[p] \in Int
    BY <1>1, Sizes DEF Times, RowsTyped
  <2> QED BY <1>1, <1>2, <2>1
<1> QED BY <1>3, <1>4 DEF Times

LEMMA ReviveTimes ==
    ASSUME Inv, Times, NEW r \in Requests, Revive(r)
    PROVE  Times'
<1> DEFINE c == CharOf(r)
<1>1. /\ health' = [health EXCEPT ![c] = Null] /\ lastCombat' = [lastCombat EXCEPT ![c] = Null]
      /\ UNCHANGED <<attacks, quiet, clock>>
  BY DEF Revive, EndTransaction
<1>2. RowsTyped
  BY DEF Inv, Shape
<1> HIDE DEF c
<1>3. ASSUME NEW d \in Characters PROVE QuietOf(d)'
  <2>1. \/ health'[d] = Null /\ lastCombat'[d] = Null
        \/ health'[d] = health[d] /\ lastCombat'[d] = lastCombat[d]
    BY <1>1, <1>2 DEF RowsTyped
  <2> QED BY <1>1, <2>1 DEF Times, QuietOf
<1> QED BY <1>1, <1>3 DEF Times

LEMMA TimesStep ==
    ASSUME Inv, Times, Next
    PROVE  Times'
<1>1. ASSUME NEW r \in Requests, NEW c \in Calls, Begin(r, c) PROVE Times'
  BY <1>1, TimesSame DEF Begin, dbVars, rowVars, historyVars
<1>2. ASSUME NEW r \in Requests, NEW c \in Characters, LockCharacter(r, c) PROVE Times'
  BY <1>2, TimesSame DEF LockCharacter, dbVars, rowVars, historyVars
<1>3. ASSUME NEW r \in Requests, HitLands(r) PROVE Times'
  BY <1>3, HitTimes
<1>4. ASSUME NEW r \in Requests, SettleDeath(r) \/ NothingOwed(r) PROVE Times'
  BY <1>4, TimesSame DEF SettleDeath, NothingOwed, Costed, dbVars, rowVars, historyVars
<1>5. ASSUME NEW r \in Requests, Revive(r) PROVE Times'
  BY <1>5, ReviveTimes
<1>6. ASSUME NEW r \in Requests, LockCrate(r) PROVE Times'
  BY <1>6, TimesSame DEF LockCrate, dbVars, rowVars, historyVars
<1>7. ASSUME NEW r \in Requests, Take(r) PROVE Times'
  BY <1>7, TimesSame DEF Take, EndTransaction, historyVars
<1>8. ASSUME NEW r \in Requests, Rollback(r) PROVE Times'
  BY <1>8, TimesSame DEF Rollback, EndTransaction, dbVars, rowVars, historyVars
<1>9. CASE Tick
  BY <1>9, TickTimes
<1> QED BY <1>1, <1>2, <1>3, <1>4, <1>5, <1>6, <1>7, <1>8, <1>9
        DEF Next, RefuseHit, RefuseRespawn, RefuseLoot, Disconnect

(* What the worked-out health of a character is, by its row and the time.    *)
LEMMA RowHealth ==
    ASSUME Inv, Times, NEW c \in Characters, NEW now \in Nat
    PROVE  /\ health[c] = Null => Current(RowOf(c), now) = MaxHealth
           /\ health[c] = 0 => Current(RowOf(c), now) = 0
           /\ health[c] > 0 => /\ lastCombat[c] \in Nat /\ health[c] \in 0 .. MaxHealth
                               /\ lastCombat[c] <= clock
                               /\ quiet[c] = Lesser(clock - lastCombat[c], RegenDelay)
           /\ health[c] > 0 /\ now - lastCombat[c] - RegenDelay <= 0 =>
                 Current(RowOf(c), now) = health[c]
           /\ health[c] > 0 /\ now - lastCombat[c] - RegenDelay > 0 =>
                 Current(RowOf(c), now) =
                     Lesser(MaxHealth, health[c] + RegenRate * (now - lastCombat[c] - RegenDelay))
<1>1. /\ health[c] \in 0 .. MaxHealth \cup {Null} /\ lastCombat[c] \in Nat \cup {Null}
      /\ RowOf(c) \in Row /\ RowOf(c).health = health[c] /\ RowOf(c).last = lastCombat[c]
  <2>1. Shape /\ RowsTyped
    BY DEF Inv, Shape
  <2>2. RowOf(c) \in Row
    BY <2>1, RowTyped
  <2> QED BY <2>1, <2>2, Sizes DEF RowsTyped, RowOf
<1>2. QuietOf(c)
  BY DEF Times
<1>3. now \in Int
  OBVIOUS
<1>4. /\ health[c] = Null => Current(RowOf(c), now) = MaxHealth
      /\ health[c] = 0 => Current(RowOf(c), now) = 0
      /\ health[c] > 0 /\ (lastCombat[c] = Null \/ now - lastCombat[c] - RegenDelay <= 0) =>
             Current(RowOf(c), now) = Lesser(health[c], MaxHealth)
      /\ health[c] > 0 /\ lastCombat[c] # Null /\ now - lastCombat[c] - RegenDelay > 0 =>
             Current(RowOf(c), now) =
                 Lesser(MaxHealth, health[c] + RegenRate * (now - lastCombat[c] - RegenDelay))
  BY <1>1, <1>3, HealthWorkedOut
<1>5. health[c] > 0 => /\ lastCombat[c] \in Nat /\ health[c] \in 0 .. MaxHealth
                       /\ lastCombat[c] <= clock
                       /\ quiet[c] = Lesser(clock - lastCombat[c], RegenDelay)
  BY <1>1, <1>2, Sizes DEF QuietOf
<1>6. health[c] > 0 => Lesser(health[c], MaxHealth) = health[c] /\ lastCombat[c] # Null
  BY <1>5, Sizes DEF Lesser
<1> QED BY <1>4, <1>5, <1>6

LEMMA OneMoreTick ==
    ASSUME NEW n \in Int, NEW k \in Int
    PROVE  n * (k + 1) = n * k + n
OBVIOUS

(* One tick more: the formula and the ticking agree.                         *)
LEMMA TickHealth ==
    ASSUME Inv, Times, NEW c \in Characters, Current(RowOf(c), clock) = vitality[c]
    PROVE  Current(RowOf(c), clock + 1) = Regenerated(c)
<1>1. clock \in Nat /\ clock + 1 \in Nat
  BY Sizes DEF Inv, Shape, RequestsTyped
<1>2. health[c] \in 0 .. MaxHealth \cup {Null} /\ quiet[c] \in Nat /\ vitality[c] \in 0 .. MaxHealth
  BY Sizes DEF Inv, Shape, RowsTyped
<1>3. CASE health[c] = Null
  <2>1. Current(RowOf(c), clock + 1) = MaxHealth /\ vitality[c] = MaxHealth
    BY <1>1, <1>3, RowHealth
  <2> QED BY <2>1, Sizes DEF Regenerated, Lesser
<1>4. CASE health[c] = 0
  <2>1. Current(RowOf(c), clock + 1) = 0 /\ vitality[c] = 0
    BY <1>1, <1>4, RowHealth
  <2> QED BY <2>1, Sizes DEF Regenerated, Lesser
<1>5. CASE health[c] > 0
  <2> DEFINE d == clock - lastCombat[c] - RegenDelay
  <2>1. /\ lastCombat[c] \in Nat /\ health[c] \in 0 .. MaxHealth /\ lastCombat[c] <= clock
        /\ quiet[c] = Lesser(clock - lastCombat[c], RegenDelay)
    BY <1>1, <1>5, RowHealth
  <2>2. d \in Int /\ clock + 1 - lastCombat[c] - RegenDelay = d + 1
        /\ quiet[c] = Lesser(d + RegenDelay, RegenDelay)
    <3>1. d + RegenDelay = clock - lastCombat[c] /\ d \in Int
          /\ clock + 1 - lastCombat[c] - RegenDelay = d + 1
      BY <1>1, <2>1, Sizes
    <3> QED BY <2>1, <3>1
  <2>3. /\ d <= 0 => vitality[c] = health[c]
        /\ d > 0 => vitality[c] = Lesser(MaxHealth, health[c] + RegenRate * d)
    BY <1>1, <1>5, RowHealth
  <2>4. /\ d + 1 <= 0 => Current(RowOf(c), clock + 1) = health[c]
        /\ d + 1 > 0 => Current(RowOf(c), clock + 1) = Lesser(MaxHealth, health[c] + RegenRate * (d + 1))
    <3> DEFINE next == clock + 1
    <3>1. next \in Nat /\ next - lastCombat[c] - RegenDelay = d + 1
      BY <1>1, <2>1, Sizes
    <3> HIDE DEF next, d
    <3>2. Current(RowOf(c), next) =
            IF d + 1 <= 0 THEN health[c] ELSE Lesser(MaxHealth, health[c] + RegenRate * (d + 1))
      BY <1>5, <2>2, <3>1, RowHealth
    <3> QED BY <2>2, <3>2 DEF next
  <2> HIDE DEF d
  <2>5. CASE d < 0
    <3>1. quiet[c] # RegenDelay
      BY <2>2, <2>5, Sizes DEF Lesser
    <3> QED BY <2>2, <2>3, <2>4, <2>5, <3>1 DEF Regenerated
  <2>6. CASE d = 0
    <3>1. quiet[c] = RegenDelay /\ RegenRate * (d + 1) = RegenRate
      BY <2>2, <2>6, Sizes DEF Lesser
    <3> QED BY <1>5, <2>3, <2>4, <2>6, <3>1 DEF Regenerated
  <2>7. CASE d > 0
    <3> DEFINE gained == RegenRate * d
    <3>1. RegenRate * (d + 1) = gained + RegenRate
      BY <2>2, Sizes, OneMoreTick
    <3>2. gained \in Nat
      BY <2>2, <2>7, Sizes, ProductNat
    <3>3. quiet[c] = RegenDelay
      BY <2>2, <2>7, Sizes DEF Lesser
    <3>4. vitality[c] = Lesser(MaxHealth, health[c] + gained)
          /\ Current(RowOf(c), clock + 1) = Lesser(MaxHealth, health[c] + (gained + RegenRate))
      BY <2>2, <2>3, <2>4, <2>7, <3>1
    <3> HIDE DEF gained
    <3> QED BY <1>5, <2>1, <3>2, <3>3, <3>4, Sizes DEF Regenerated, Lesser
  <2> QED BY <2>2, <2>5, <2>6, <2>7
<1> QED BY <1>2, <1>3, <1>4, <1>5, Sizes

LEMMA HealthInit == ASSUME Init, Inv, Times PROVE HealthAsIfTicking
<1>1. ASSUME NEW c \in Characters PROVE Current(RowOf(c), clock) = vitality[c]
  <2>1. /\ clock = 0 /\ lastCombat[c] = 0 /\ vitality[c] = health[c] /\ health[c] \in 0 .. MaxHealth
    <3>1. world \in Worlds /\ health = world.health
      BY DEF Init
    <3>2. world.health \in [Characters -> 0 .. MaxHealth]
      BY <3>1, DeathTxnAssumption
    <3> QED BY <3>1, <3>2 DEF Init
  <2>2. clock \in Nat /\ clock - lastCombat[c] - RegenDelay <= 0
    BY <2>1, Sizes
  <2>3. /\ health[c] = 0 => Current(RowOf(c), clock) = 0
        /\ health[c] > 0 => Current(RowOf(c), clock) = health[c]
    BY <2>2, RowHealth
  <2> QED BY <2>1, <2>3, Sizes
<1> QED BY <1>1 DEF HealthAsIfTicking

LEMMA HealthSame ==
    ASSUME HealthAsIfTicking, UNCHANGED <<health, lastCombat, vitality, clock>>
    PROVE  HealthAsIfTicking'
<1>1. ASSUME NEW c \in Characters PROVE Current(RowOf(c)', clock') = vitality'[c]
  <2>1. Current(RowOf(c)', clock') = Current(RowOf(c), clock)
    BY DEF Current, RowOf
  <2> QED BY <2>1 DEF HealthAsIfTicking
<1> QED BY <1>1 DEF HealthAsIfTicking, Current

LEMMA HealthThen ==
    ASSUME NEW row \in Row, NEW now \in Nat, row.last = now, row.health \in 0 .. MaxHealth
    PROVE  Current(row, now) = row.health
<1>1. /\ row.health = 0 => Current(row, now) = 0
      /\ row.health > 0 => Current(row, now) = Lesser(row.health, MaxHealth)
  <2>1. now \in Int /\ now - row.last - RegenDelay <= 0
    BY Sizes
  <2> QED BY <2>1, HealthWorkedOut
<1> QED BY <1>1, Sizes DEF Lesser

LEMMA HitHealth ==
    ASSUME Inv, Times, HealthAsIfTicking, NEW r \in Requests, HitLands(r)
    PROVE  HealthAsIfTicking'
<1> DEFINE a == CharOf(r)
           t == Target(r)
<1>1. txn[r].pc = "hit" /\ HitAllowed(r) /\ Inv' /\ Times'
  <2>1. txn[r].pc = "hit" /\ HitAllowed(r)
    BY HitWrites
  <2>2. Next
    BY DEF Next
  <2> QED BY <2>1, <2>2, ShapeStep, StandStep, TimesStep DEF Inv
<1>2. /\ a \in Characters /\ t \in Characters /\ a # t
      /\ txn[r].now = clock /\ clock \in 0 .. MaxClock
      /\ HealthNow(r, a) = Current(RowOf(a), clock)
      /\ HealthNow(r, t) = Current(RowOf(t), clock)
      /\ HealthNow(r, a) \in 0 .. MaxHealth
      /\ HealthNow(r, t) \in 0 .. MaxHealth
  BY <1>1, HitKnown DEF Inv
<1>3. HealthNow(r, a) > 0 /\ HealthNow(r, t) > 0
  BY <1>1 DEF HitAllowed
<1>4. /\ health' = [health EXCEPT ![a] = HealthNow(r, a), ![t] = After(r)]
      /\ lastCombat' = [lastCombat EXCEPT ![a] = txn[r].now, ![t] = txn[r].now]
      /\ vitality' = [vitality EXCEPT ![t] = Positive(@ - Damage)]
      /\ clock' = clock
  BY HitWrites DEF EndTransaction
<1>5. RowsTyped
  BY DEF Inv, Shape
<1>6. HealthNow(r, a) = vitality[a] /\ HealthNow(r, t) = vitality[t]
  BY <1>2 DEF HealthAsIfTicking
<1>7. After(r) = Positive(vitality[t] - Damage)
  <2> DEFINE h == HealthNow(r, t)
  <2>1. After(r) = h - Lesser(Damage, h) /\ h \in 0 .. MaxHealth /\ vitality[t] = h
    BY <1>2, <1>6 DEF After, Dealt
  <2> HIDE DEF h
  <2> QED BY <2>1, Sizes DEF Lesser, Positive
<1> HIDE DEF a, t
<1>8. xp' = [xp EXCEPT ![a] = txn[r].seen[a].xp + Dealt(r)]
  BY HitWrites DEF a
<1>9. ASSUME NEW c \in Characters PROVE Current(RowOf(c)', clock') = vitality'[c]
  <2>1. CASE c = a \/ c = t
    <3>1. lastCombat'[c] = clock' /\ health'[c] = vitality'[c]
      BY <1>2, <1>4, <1>5, <1>6, <1>7, <2>1 DEF RowsTyped
    <3>2. RowOf(c)' \in Row /\ vitality'[c] \in 0 .. MaxHealth
      <4>1. health'[c] \in Nat \cup {Null} /\ lastCombat'[c] \in Nat \cup {Null} /\ xp'[c] \in Nat
            /\ vitality'[c] \in 0 .. MaxHealth
        BY <1>1, Sizes DEF Inv, Shape, RowsTyped
      <4> QED BY <4>1 DEF RowOf, Row
    <3>3. RowOf(c)'.health = health'[c] /\ RowOf(c)'.last = lastCombat'[c]
      BY DEF RowOf
    <3>4. clock' \in Nat
      BY <1>2, <1>4, Sizes
    <3> QED BY <3>1, <3>2, <3>3, <3>4, HealthThen
  <2>2. CASE c # a /\ c # t
    <3>1. RowOf(c)' = RowOf(c) /\ vitality'[c] = vitality[c]
      BY <1>4, <1>5, <1>8, <2>2 DEF RowOf, RowsTyped
    <3> QED BY <1>4, <3>1 DEF HealthAsIfTicking
  <2> QED BY <2>1, <2>2
<1> QED BY <1>9 DEF HealthAsIfTicking, Current

LEMMA ReviveHealth ==
    ASSUME Inv, Times, HealthAsIfTicking, NEW r \in Requests, Revive(r)
    PROVE  HealthAsIfTicking'
<1> DEFINE c == CharOf(r)
<1>1. /\ health' = [health EXCEPT ![c] = Null] /\ lastCombat' = [lastCombat EXCEPT ![c] = Null]
      /\ vitality' = [vitality EXCEPT ![c] = MaxHealth]
      /\ UNCHANGED <<xp, clock>>
  BY DEF Revive, EndTransaction
<1>2. RowsTyped /\ clock \in Nat
  BY Sizes DEF Inv, Shape, RequestsTyped
<1> HIDE DEF c
<1>3. ASSUME NEW d \in Characters PROVE Current(RowOf(d)', clock') = vitality'[d]
  <2>1. CASE d = c
    <3>1. RowOf(d)' \in Row /\ RowOf(d)'.health = Null /\ vitality'[d] = MaxHealth
      BY <1>1, <1>2, <2>1 DEF RowsTyped, RowOf, Row
    <3>2. clock' \in Int
      BY <1>1, <1>2
    <3> QED BY <3>1, <3>2, HealthWorkedOut
  <2>2. CASE d # c
    <3>1. RowOf(d)' = RowOf(d) /\ vitality'[d] = vitality[d]
      BY <1>1, <1>2, <2>2 DEF RowOf, RowsTyped
    <3> QED BY <1>1, <3>1 DEF HealthAsIfTicking
  <2> QED BY <2>1, <2>2
<1> QED BY <1>3 DEF HealthAsIfTicking, Current

LEMMA TickKeepsHealth ==
    ASSUME Inv, Times, HealthAsIfTicking, Tick
    PROVE  HealthAsIfTicking'
<1>1. ASSUME NEW c \in Characters PROVE Current(RowOf(c)', clock') = vitality'[c]
  <2>1. RowOf(c)' = RowOf(c) /\ clock' = clock + 1 /\ vitality'[c] = Regenerated(c)
    BY DEF Tick, rowVars, RowOf
  <2>2. Current(RowOf(c), clock) = vitality[c]
    BY DEF HealthAsIfTicking
  <2> QED BY <2>1, <2>2, TickHealth
<1> QED BY <1>1 DEF HealthAsIfTicking, Current

LEMMA HealthStep ==
    ASSUME Inv, Times, HealthAsIfTicking, Next
    PROVE  HealthAsIfTicking'
<1>1. ASSUME NEW r \in Requests, NEW c \in Calls, Begin(r, c) PROVE HealthAsIfTicking'
  BY <1>1, HealthSame DEF Begin, dbVars, rowVars, historyVars
<1>2. ASSUME NEW r \in Requests, NEW c \in Characters, LockCharacter(r, c) PROVE HealthAsIfTicking'
  BY <1>2, HealthSame DEF LockCharacter, dbVars, rowVars, historyVars
<1>3. ASSUME NEW r \in Requests, HitLands(r) PROVE HealthAsIfTicking'
  BY <1>3, HitHealth
<1>4. ASSUME NEW r \in Requests, SettleDeath(r) \/ NothingOwed(r) PROVE HealthAsIfTicking'
  BY <1>4, HealthSame DEF SettleDeath, NothingOwed, Costed, dbVars, rowVars, historyVars
<1>5. ASSUME NEW r \in Requests, Revive(r) PROVE HealthAsIfTicking'
  BY <1>5, ReviveHealth
<1>6. ASSUME NEW r \in Requests, LockCrate(r) PROVE HealthAsIfTicking'
  BY <1>6, HealthSame DEF LockCrate, dbVars, rowVars, historyVars
<1>7. ASSUME NEW r \in Requests, Take(r) PROVE HealthAsIfTicking'
  BY <1>7, HealthSame DEF Take, EndTransaction, historyVars
<1>8. ASSUME NEW r \in Requests, Rollback(r) PROVE HealthAsIfTicking'
  BY <1>8, HealthSame DEF Rollback, EndTransaction, dbVars, rowVars, historyVars
<1>9. CASE Tick
  BY <1>9, TickKeepsHealth
<1> QED BY <1>1, <1>2, <1>3, <1>4, <1>5, <1>6, <1>7, <1>8, <1>9
        DEF Next, RefuseHit, RefuseRespawn, RefuseLoot, Disconnect

LEMMA HealthHolds == Spec => [](Inv /\ Times /\ HealthAsIfTicking)
<1> DEFINE I == Inv /\ Times /\ HealthAsIfTicking
<1>1. Init => I
  BY InitShape, InitStands, TimesInit, HealthInit DEF Inv
<1>2. I /\ [Next]_vars => I'
  <2>1. ASSUME I, Next PROVE I'
    BY <2>1, ShapeStep, StandStep, TimesStep, HealthStep DEF Inv
  <2>2. ASSUME I, UNCHANGED vars PROVE I'
    BY <2>2, Stutter, TimesSame, HealthSame DEF vars, dbVars, rowVars, historyVars
  <2> QED BY <2>1, <2>2
<1> QED BY <1>1, <1>2, PTL DEF Spec

(* Health.cs:17-20: a character's stored health, worked out for now, is what *)
(* it would be had it ticked: the two rows a hit writes were locked and read *)
(* as they stand, and no clock has moved between the reading and the saving. *)
THEOREM HealthTicks == Spec => []HealthAsIfTicking
BY HealthHolds, PTL

(* CombatService.cs:233-236: a fight's clock is never written backwards,     *)
(* because the clock is read once the locks are held.                        *)
THEOREM ClocksForward == Spec => FightsMoveForward
<1> DEFINE Forward ==
       /\ \A c \in Characters : lastCombat'[c] # Null => lastCombat'[c] >= lastCombat[c]
       /\ \A p \in Characters \X Characters : attacks'[p] >= attacks[p]
<1>1. ASSUME Inv, Times, UNCHANGED <<lastCombat, attacks>> PROVE Forward
  <2>1. RowsTyped
    BY <1>1 DEF Inv, Shape
  <2>2. \A c \in Characters : lastCombat[c] \in Int
    BY <2>1, Sizes DEF RowsTyped
  <2>3. \A p \in Characters \X Characters : attacks[p] \in Int
    BY <2>1, Sizes DEF RowsTyped
  <2> QED BY <1>1, <2>2, <2>3
<1>2. ASSUME Inv, Times, NEW r \in Requests, HitLands(r) PROVE Forward
  <2> DEFINE a == CharOf(r)
             t == Target(r)
  <2>1. txn[r].pc = "hit" /\ RowsTyped
    BY <1>2, HitWrites DEF Inv, Shape
  <2>2. txn[r].now = clock /\ clock \in 0 .. MaxClock
    BY <1>2, <2>1, HitKnown DEF Inv
  <2>3. /\ lastCombat' = [lastCombat EXCEPT ![a] = txn[r].now, ![t] = txn[r].now]
        /\ attacks' = [attacks EXCEPT ![<<a, t>>] = txn[r].now]
    BY <1>2, HitWrites
  <2> HIDE DEF a, t
  <2>4. ASSUME NEW c \in Characters PROVE lastCombat'[c] # Null => lastCombat'[c] >= lastCombat[c]
    <3>1. QuietOf(c) /\ lastCombat[c] \in Nat \cup {Null}
      BY <1>2, <2>1, Sizes DEF Times, RowsTyped
    <3>2. lastCombat[c] <= clock
      BY <2>2, <3>1, Sizes DEF QuietOf
    <3>3. lastCombat'[c] = clock \/ lastCombat'[c] = lastCombat[c]
      BY <2>1, <2>2, <2>3 DEF RowsTyped
    <3> QED BY <2>2, <3>1, <3>2, <3>3, Sizes
  <2>5. ASSUME NEW p \in Characters \X Characters PROVE attacks'[p] >= attacks[p]
    <3>1. attacks[p] <= clock /\ attacks[p] \in Int
      BY <1>2, <2>1, Sizes DEF Times, RowsTyped
    <3>2. attacks'[p] = clock \/ attacks'[p] = attacks[p]
      BY <2>1, <2>2, <2>3 DEF RowsTyped
    <3> QED BY <2>2, <3>1, <3>2
  <2> QED BY <2>4, <2>5
<1>3. ASSUME Inv, Times, NEW r \in Requests, Revive(r) PROVE Forward
  <2>1. RowsTyped /\ lastCombat' = [lastCombat EXCEPT ![CharOf(r)] = Null] /\ attacks' = attacks
    BY <1>3 DEF Inv, Shape, Revive
  <2>2. ASSUME NEW c \in Characters PROVE lastCombat'[c] # Null => lastCombat'[c] >= lastCombat[c]
    <3>1. lastCombat[c] \in Int /\ (lastCombat'[c] = Null \/ lastCombat'[c] = lastCombat[c])
      BY <2>1, Sizes DEF RowsTyped
    <3> QED BY <3>1
  <2>3. \A p \in Characters \X Characters : attacks[p] \in Int
    BY <2>1, Sizes DEF RowsTyped
  <2> QED BY <2>1, <2>2, <2>3
<1>4. ASSUME Inv, Times, [Next]_vars PROVE Forward
  <2>1. ASSUME NEW r \in Requests, NEW c \in Calls, Begin(r, c) PROVE UNCHANGED <<lastCombat, attacks>>
    BY <2>1 DEF Begin, dbVars, rowVars
  <2>2. ASSUME NEW r \in Requests, NEW c \in Characters, LockCharacter(r, c)
        PROVE  UNCHANGED <<lastCombat, attacks>>
    BY <2>2 DEF LockCharacter, dbVars, rowVars
  <2>3. ASSUME NEW r \in Requests,
               SettleDeath(r) \/ NothingOwed(r) \/ LockCrate(r) \/ Take(r) \/ Rollback(r)
        PROVE  UNCHANGED <<lastCombat, attacks>>
    BY <2>3 DEF SettleDeath, NothingOwed, LockCrate, Take, Rollback, dbVars, rowVars
  <2>4. Tick \/ UNCHANGED vars => UNCHANGED <<lastCombat, attacks>>
    BY DEF Tick, vars, dbVars, rowVars
  <2> HIDE DEF Forward
  <2> QED BY <1>1, <1>2, <1>3, <1>4, <2>1, <2>2, <2>3, <2>4
          DEF Next, RefuseHit, RefuseRespawn, RefuseLoot, Disconnect
<1>5. Inv /\ Times /\ [Next]_vars => [Forward]_vars
  BY <1>4
<1> QED BY <1>5, HealthHolds, PTL DEF Spec, FightsMoveForward

--------------------------------------------------------------------------------
(* What fights earn.                                                         *)

LEMMA FightsSame ==
    ASSUME FightsAddUp, UNCHANGED <<xp, landed>>
    PROVE  FightsAddUp'
BY DEF FightsAddUp

LEMMA FightsStep ==
    ASSUME Inv, FightsAddUp, Next
    PROVE  FightsAddUp'
<1>1. ASSUME NEW r \in Requests, NEW c \in Calls, Begin(r, c) PROVE FightsAddUp'
  BY <1>1, FightsSame DEF Begin, dbVars, rowVars, historyVars
<1>2. ASSUME NEW r \in Requests, NEW c \in Characters, LockCharacter(r, c) PROVE FightsAddUp'
  BY <1>2, FightsSame DEF LockCharacter, dbVars, rowVars, historyVars
<1>3. ASSUME NEW r \in Requests, HitLands(r) PROVE FightsAddUp'
  <2>1. txn[r].pc = "hit" /\ RowsTyped
    BY <1>3, HitWrites DEF Inv, Shape
  <2>2. txn[r].seen[CharOf(r)].xp = xp[CharOf(r)]
    <3>1. txn[r].seen[CharOf(r)] = RowOf(CharOf(r))
      BY <2>1, HitKnown DEF Inv
    <3> QED BY <3>1 DEF RowOf
  <2>3. /\ xp' = [xp EXCEPT ![CharOf(r)] = txn[r].seen[CharOf(r)].xp + Dealt(r)]
        /\ landed' = [landed EXCEPT ![CharOf(r)] = @ + Dealt(r)]
    BY <1>3, HitWrites
  <2> QED BY <2>1, <2>2, <2>3 DEF FightsAddUp, RowsTyped
<1>4. ASSUME NEW r \in Requests, SettleDeath(r) \/ NothingOwed(r) PROVE FightsAddUp'
  BY <1>4, FightsSame DEF SettleDeath, NothingOwed, dbVars, rowVars, historyVars
<1>5. ASSUME NEW r \in Requests, Revive(r) \/ LockCrate(r) \/ Take(r) \/ Rollback(r) PROVE FightsAddUp'
  BY <1>5, FightsSame DEF Revive, LockCrate, Take, Rollback, dbVars, rowVars, historyVars
<1>6. CASE Tick
  BY <1>6, FightsSame DEF Tick, rowVars
<1> QED BY <1>1, <1>2, <1>3, <1>4, <1>5, <1>6
        DEF Next, RefuseHit, RefuseRespawn, RefuseLoot, Disconnect

(* CombatService.cs:225-231: experience is written as seen plus what the hit *)
(* earns, and no hit overwrites what another earned, since both locked the   *)
(* attacker and see it as it is.                                             *)
THEOREM FightsPay == Spec => []FightsAddUp
<1>1. Init => FightsAddUp
  BY DEF Init, FightsAddUp
<1>2. Inv /\ FightsAddUp /\ [Next]_vars => FightsAddUp'
  BY FightsStep, FightsSame DEF vars, dbVars, rowVars, historyVars
<1> QED BY <1>1, <1>2, InvHolds, PTL DEF Spec

--------------------------------------------------------------------------------
(* Deaths, and what is owed for them.                                        *)

DeathOf(r) == [docked |-> Target(r) \in world.docked, settled |-> FALSE]

LEMMA DeathAdded ==
    ASSUME Shape, NEW c \in Characters, NEW death \in Death,
           deaths' = [deaths EXCEPT ![c] = Append(@, death)]
    PROVE  /\ \A d \in Characters : d # c => deaths'[d] = deaths[d]
           /\ \E n : /\ n \notin DOMAIN deaths[c]
                     /\ DOMAIN deaths'[c] = DOMAIN deaths[c] \cup {n}
                     /\ deaths'[c][n] = death
                     /\ \A j \in DOMAIN deaths[c] : deaths'[c][j] = deaths[c][j]
<1> DEFINE n == Len(deaths[c]) + 1
           row == Append(deaths[c], death)
<1>1. deaths \in [Characters -> Seq(Death)] /\ deaths[c] \in Seq(Death)
  BY DEF Shape, RowsTyped
<1>2. /\ row \in Seq(Death) /\ Len(row) = Len(deaths[c]) + 1
      /\ \A i \in 1 .. Len(deaths[c]) : row[i] = deaths[c][i]
      /\ row[Len(deaths[c]) + 1] = death
  BY <1>1, AppendProperties
<1> HIDE DEF row
<1>3. DOMAIN row = 1 .. Len(row) /\ DOMAIN deaths[c] = 1 .. Len(deaths[c]) /\ Len(deaths[c]) \in Nat
  BY <1>1, <1>2
<1>4. n \notin DOMAIN deaths[c] /\ DOMAIN row = DOMAIN deaths[c] \cup {n}
  BY <1>2, <1>3
<1>5. deaths'[c] = row /\ \A d \in Characters : d # c => deaths'[d] = deaths[d]
  BY <1>1 DEF row
<1> QED BY <1>2, <1>3, <1>4, <1>5

LEMMA OwedMarked ==
    ASSUME Shape, NEW c \in Characters, NEW i \in Owed(c),
           deaths' = [deaths EXCEPT ![c][i].settled = TRUE]
    PROVE  /\ Owed(c)' = Owed(c) \ {i}
           /\ \A d \in Characters : d # c => deaths'[d] = deaths[d]
           /\ DOMAIN deaths'[c] = DOMAIN deaths[c]
           /\ \A j \in DOMAIN deaths[c] :
                 /\ deaths'[c][j].docked = deaths[c][j].docked
                 /\ deaths'[c][j].settled = (j = i \/ deaths[c][j].settled)
<1>1. /\ \A d \in Characters : d # c => deaths'[d] = deaths[d]
      /\ DOMAIN deaths'[c] = DOMAIN deaths[c]
      /\ \A j \in DOMAIN deaths[c] :
            /\ deaths'[c][j].docked = deaths[c][j].docked
            /\ deaths'[c][j].settled = (j = i \/ deaths[c][j].settled)
  <2>1. PICK marked : marked = deaths'
    OBVIOUS
  <2>2. marked = Marked(deaths, c, i)
    BY <2>1 DEF Marked
  <2>3. /\ \A d \in Characters : d # c => marked[d] = deaths[d]
        /\ DOMAIN marked[c] = DOMAIN deaths[c]
        /\ \A j \in DOMAIN deaths[c] :
              /\ marked[c][j].docked = deaths[c][j].docked
              /\ marked[c][j].settled = (j = i \/ deaths[c][j].settled)
    BY <2>2, DeathsMarked
  <2> QED BY <2>1, <2>3
<1>2. ASSUME NEW j PROVE j \in Owed(c)' <=> j \in Owed(c) /\ j # i
  <2>1. j \in Owed(c)' <=> j \in DOMAIN deaths[c] /\ ~deaths'[c][j].settled
    BY <1>1 DEF Owed
  <2>2. j \in Owed(c) <=> j \in DOMAIN deaths[c] /\ ~deaths[c][j].settled
    BY DEF Owed
  <2> QED BY <1>1, <2>1, <2>2
<1> QED BY <1>1, <1>2

(* Deaths that wear what is worn: those away from a station, once settled.   *)
Worn(c) == {i \in DOMAIN deaths[c] : deaths[c][i].settled /\ ~deaths[c][i].docked}

WearOf(c) == condition[c] = Positive(NewCondition - WearPerDeath * Cardinality(Worn(c)))

LEMMA WornFinite ==
    ASSUME Shape, NEW c \in Characters
    PROVE  IsFiniteSet(Worn(c)) /\ Cardinality(Worn(c)) \in Nat
<1>1. deaths[c] \in Seq(Death)
  BY DEF Shape, RowsTyped
<1>2. DOMAIN deaths[c] = 1 .. Len(deaths[c]) /\ Len(deaths[c]) \in Nat
  BY <1>1
<1>3. IsFiniteSet(1 .. Len(deaths[c]))
  BY <1>2, FS_Interval
<1>4. Worn(c) \subseteq 1 .. Len(deaths[c])
  BY <1>2 DEF Worn
<1> QED BY <1>3, <1>4, FS_Subset, FS_CardinalityType

LEMMA WearSame ==
    ASSUME WearExplained, UNCHANGED <<deaths, condition>>
    PROVE  WearExplained'
BY DEF WearExplained

LEMMA WearGrows ==
    ASSUME NEW n \in Nat
    PROVE  Positive(Positive(NewCondition - WearPerDeath * n) - WearPerDeath)
             = Positive(NewCondition - WearPerDeath * (n + 1))
<1> DEFINE worn == WearPerDeath * n
<1>1. WearPerDeath * (n + 1) = worn + WearPerDeath /\ worn \in Nat
  BY OneMoreTick, ProductNat, Sizes
<1> HIDE DEF worn
<1>2. Positive(Positive(NewCondition - worn) - WearPerDeath) = Positive(NewCondition - (worn + WearPerDeath))
  BY <1>1, Sizes DEF Positive
<1> QED BY <1>1, <1>2 DEF worn

LEMMA WearOne ==
    WearExplained <=> \A c \in Characters : WearOf(c)
BY DEF WearExplained, WearOf, Worn

LEMMA HitWear ==
    ASSUME Inv, WearExplained, NEW r \in Requests, HitLands(r)
    PROVE  \A c \in Characters : WearOf(c)'
<1> SUFFICES ASSUME NEW c \in Characters PROVE WearOf(c)'
  OBVIOUS
<1>1. txn[r].pc = "hit" /\ Shape /\ Control /\ Locks /\ condition' = condition
      /\ deaths' = (IF After(r) > 0 THEN deaths
                    ELSE [deaths EXCEPT ![Target(r)] = Append(@, DeathOf(r))])
  BY HitWrites DEF Inv, DeathOf
<1>2. Target(r) \in Characters
  BY <1>1, HitKnown
<1>3. WearOf(c)
  BY WearOne
<1>4. Worn(c)' = Worn(c)
  <2>1. CASE deaths' = deaths
    BY <2>1 DEF Worn
  <2>2. CASE deaths' = [deaths EXCEPT ![Target(r)] = Append(@, DeathOf(r))]
    <3>1. DeathOf(r) \in Death /\ ~DeathOf(r).settled
      BY DEF DeathOf, Death
    <3>2. /\ \A d \in Characters : d # Target(r) => deaths'[d] = deaths[d]
          /\ \E n : /\ n \notin DOMAIN deaths[Target(r)]
                    /\ DOMAIN deaths'[Target(r)] = DOMAIN deaths[Target(r)] \cup {n}
                    /\ deaths'[Target(r)][n] = DeathOf(r)
                    /\ \A j \in DOMAIN deaths[Target(r)] :
                          deaths'[Target(r)][j] = deaths[Target(r)][j]
      BY <1>1, <1>2, <2>2, <3>1, DeathAdded
    <3> QED BY <3>1, <3>2 DEF Worn
  <2> QED BY <1>1, <2>1, <2>2
<1> QED BY <1>1, <1>3, <1>4 DEF WearOf

LEMMA SettleWear ==
    ASSUME Inv, WearExplained, NEW r \in Requests, SettleDeath(r)
    PROVE  \A c \in Characters : WearOf(c)'
<1> SUFFICES ASSUME NEW d \in Characters PROVE WearOf(d)'
  OBVIOUS
<1>1. txn[r].pc = "settle" /\ Shape /\ Control /\ Locks
  BY SettleWrites DEF Inv
<1>2. PICK c \in Characters : c = CharOf(r)
  BY <1>1, SettleKnown
<1>3. PICK i \in Owed(c) :
        /\ deaths' = [deaths EXCEPT ![c][i].settled = TRUE]
        /\ SettlesAtStation(r, i) \/ SettlesElsewhere(r, i)
  BY <1>2, SettleWrites
<1>4. condition \in [Characters -> 0 .. NewCondition]
  BY <1>1 DEF Shape, RowsTyped
<1>5. WearOf(d)
  BY WearOne
<1>6. /\ \A e \in Characters : e # c => deaths'[e] = deaths[e]
      /\ DOMAIN deaths'[c] = DOMAIN deaths[c]
      /\ \A j \in DOMAIN deaths[c] :
            /\ deaths'[c][j].docked = deaths[c][j].docked
            /\ deaths'[c][j].settled = (j = i \/ deaths[c][j].settled)
  BY <1>1, <1>2, <1>3, OwedMarked
<1>7. i \in DOMAIN deaths[c] /\ ~deaths[c][i].settled
  BY <1>3 DEF Owed
<1>8. CASE d # c
  <2>1. deaths'[d] = deaths[d]
    BY <1>6, <1>8
  <2>2. condition'[d] = condition[d]
    BY <1>2, <1>3, <1>4, <1>8 DEF SettlesAtStation, SettlesElsewhere
  <2> QED BY <1>5, <2>1, <2>2 DEF WearOf, Worn
<1>9. CASE d = c /\ deaths[c][i].docked
  <2>1. condition'[d] = condition[d]
    BY <1>2, <1>3, <1>9 DEF SettlesAtStation, SettlesElsewhere
  <2>2. ASSUME NEW j PROVE j \in Worn(c)' <=> j \in Worn(c)
    BY <1>6, <1>7, <1>9 DEF Worn
  <2>3. Worn(c)' = Worn(c)
    BY <2>2
  <2> QED BY <1>5, <1>9, <2>1, <2>3 DEF WearOf
<1>10. CASE d = c /\ ~deaths[c][i].docked
  <2>1. condition' = [condition EXCEPT ![c] = Positive(@ - WearPerDeath)]
    BY <1>2, <1>3, <1>10 DEF SettlesAtStation, SettlesElsewhere
  <2>2. ASSUME NEW j PROVE j \in Worn(c)' <=> j \in Worn(c) \cup {i}
    BY <1>6, <1>7, <1>10 DEF Worn
  <2>3. Worn(c)' = Worn(c) \cup {i} /\ i \notin Worn(c)
    BY <1>7, <2>2 DEF Worn
  <2>4. IsFiniteSet(Worn(c)) /\ Cardinality(Worn(c)) \in Nat
    BY <1>1, <1>2, WornFinite
  <2>5. Cardinality(Worn(c) \cup {i}) = Cardinality(Worn(c)) + 1
    <3> DEFINE S == Worn(c)
    <3>1. IsFiniteSet(S) /\ i \notin S
      BY <2>3, <2>4
    <3> HIDE DEF S
    <3>2. Cardinality(S \cup {i}) = Cardinality(S) + 1
      BY <3>1, FS_AddElement
    <3> QED BY <3>2 DEF S
  <2>6. condition'[c] = Positive(condition[c] - WearPerDeath)
    BY <1>2, <1>4, <2>1
  <2>7. condition[c] = Positive(NewCondition - WearPerDeath * Cardinality(Worn(c)))
    BY <1>5, <1>10 DEF WearOf
  <2>8. condition'[c] = Positive(NewCondition - WearPerDeath * (Cardinality(Worn(c)) + 1))
    BY <2>4, <2>6, <2>7, WearGrows
  <2>9. condition'[c] = Positive(NewCondition - WearPerDeath * Cardinality(Worn(c)'))
    BY <2>3, <2>5, <2>8
  <2> QED BY <1>10, <2>9 DEF WearOf
<1> QED BY <1>8, <1>9, <1>10

LEMMA WearStep ==
    ASSUME Inv, WearExplained, Next
    PROVE  WearExplained'
<1>0. (\A c \in Characters : WearOf(c)') => WearExplained'
  BY DEF WearExplained, WearOf, Worn
<1>1. ASSUME NEW r \in Requests, NEW c \in Calls, Begin(r, c) PROVE WearExplained'
  BY <1>1, WearSame DEF Begin, dbVars, rowVars
<1>2. ASSUME NEW r \in Requests, NEW c \in Characters, LockCharacter(r, c) PROVE WearExplained'
  BY <1>2, WearSame DEF LockCharacter, dbVars, rowVars
<1>3. ASSUME NEW r \in Requests, HitLands(r) PROVE WearExplained'
  BY <1>0, <1>3, HitWear
<1>4. ASSUME NEW r \in Requests, SettleDeath(r) PROVE WearExplained'
  BY <1>0, <1>4, SettleWear
<1>5. ASSUME NEW r \in Requests,
             NothingOwed(r) \/ Revive(r) \/ LockCrate(r) \/ Take(r) \/ Rollback(r)
      PROVE  WearExplained'
  BY <1>5, WearSame DEF NothingOwed, Revive, LockCrate, Take, Rollback, dbVars, rowVars
<1>6. CASE Tick
  BY <1>6, WearSame DEF Tick, rowVars
<1> QED BY <1>1, <1>2, <1>3, <1>4, <1>5, <1>6
        DEF Next, RefuseHit, RefuseRespawn, RefuseLoot, Disconnect

(* DeathCostService.cs:72: each death away from a station wears what is worn *)
(* once, and only once it is settled, whatever the calls for it do at once.  *)
THEOREM WearOnce == Spec => []WearExplained
<1>1. Init => WearExplained
  <2> SUFFICES ASSUME Init, NEW c \in Characters PROVE WearOf(c)
    BY WearOne
  <2>1. Worn(c) = {} /\ condition[c] = NewCondition
    BY DEF Init, Worn
  <2>2. Cardinality(Worn(c)) = 0
    BY <2>1, FS_EmptySet
  <2>3. WearPerDeath * 0 = 0
    BY Sizes
  <2> QED BY <2>1, <2>2, <2>3, Sizes DEF WearOf, Positive
<1>2. Inv /\ WearExplained /\ [Next]_vars => WearExplained'
  BY WearStep, WearSame DEF vars, dbVars, rowVars
<1> QED BY <1>1, <1>2, InvHolds, PTL DEF Spec

--------------------------------------------------------------------------------
(* No death goes free.                                                       *)

Debts == OneRespawn /\ Settled /\ OwedOnce

(* A step that only ends requests, or moves them on, under the same calls.   *)
CallsKeep ==
    /\ \A s \in Requests : txn'[s].call = txn[s].call \/ txn'[s].call = NoCall
    /\ overlapped' = overlapped

LEMMA RespawnsKeep ==
    ASSUME OneRespawn, CallsKeep
    PROVE  OneRespawn'
<1>1. ASSUME NEW c \in Characters PROVE Respawning(c)' \subseteq Respawning(c)
  <2>1. NoCall # [op |-> "respawn", char |-> c]
    BY DEF NoCall
  <2> QED BY <2>1 DEF CallsKeep, Respawning
<1> QED BY <1>1 DEF OneRespawn, CallsKeep

LEMMA OthersCalls ==
    ASSUME NEW r \in Requests, OthersKeep(r), overlapped' = overlapped,
           txn'[r].call = txn[r].call \/ txn'[r].call = NoCall
    PROVE  CallsKeep
BY DEF OthersKeep, CallsKeep

LEMMA RespawnIs ==
    ASSUME NEW call \in Calls, call.op = "respawn"
    PROVE  call = [op |-> "respawn", char |-> call.char]
<1>1. call \in HitCall \cup CostCall \cup RespawnCall \cup LootCall
  BY DeathTxnAssumption
<1> QED BY <1>1 DEF HitCall, CostCall, RespawnCall, LootCall

LEMMA BeginDebts ==
    ASSUME Inv, Debts, NEW r \in Requests, NEW call \in Calls, Begin(r, call)
    PROVE  Debts'
<1>1. PICK crate \in IF call.op = "loot" THEN DOMAIN crates ELSE {Nobody} :
        txn' = [txn EXCEPT ![r] =
              [AtRest("lock") EXCEPT
                  !.call = call, !.crate = crate, !.now = IF call.op = "hit" THEN clock ELSE 0,
                  !.armed = call.char \in Armed /\ condition[call.char] > 0,
                  !.toLock = IF call.op = "hit" THEN {call.char, call.target} ELSE {call.char}]]
  BY DEF Begin
<1>2. txn \in [Requests -> Txn] /\ txn[r].pc = "idle" /\ UNCHANGED <<deaths, health>>
  BY DEF Inv, Begin, Shape, RequestsTyped, dbVars, rowVars
<1>3. /\ txn'[r].pc = "lock" /\ txn'[r].call = call
      /\ \A q \in Requests \ {r} : txn'[q] = txn[q]
  BY <1>1, <1>2 DEF AtRest
<1>4. /\ overlapped \subseteq overlapped'
      /\ call.op = "respawn" /\ Respawning(call.char) # {} => call.char \in overlapped'
  BY DEF Begin
<1>5. OneRespawn'
  <2> SUFFICES ASSUME NEW c \in Characters, c \notin overlapped',
                      NEW p \in Respawning(c)', NEW q \in Respawning(c)'
               PROVE  p = q
    BY DEF OneRespawn
  <2>1. \A s \in Respawning(c)' : s # r => s \in Respawning(c)
    BY <1>3 DEF Respawning
  <2>2. CASE call = [op |-> "respawn", char |-> c]
    <3>1. call.op = "respawn" /\ call.char = c
      BY <2>2
    <3>2. Respawning(c) = {}
      BY <1>4, <3>1
    <3> QED BY <2>1, <3>2
  <2>3. CASE call # [op |-> "respawn", char |-> c]
    <3>1. p # r /\ q # r
      BY <1>3, <2>3 DEF Respawning
    <3>2. c \notin overlapped
      BY <1>4
    <3> QED BY <2>1, <3>1, <3>2 DEF Debts, OneRespawn
  <2> QED BY <2>2, <2>3
<1>6. Settled'
  <2> SUFFICES ASSUME NEW s \in Requests, txn'[s].pc = "revive", CharOf(s)' \notin overlapped',
                      txn'[s].seen[CharOf(s)'].health = 0
               PROVE  (health[CharOf(s)] = 0 /\ Owed(CharOf(s)) = {})'
    BY DEF Settled
  <2>1. txn'[s] = txn[s]
    BY <1>3
  <2>2. CharOf(s)' = CharOf(s)
    BY <2>1 DEF CharOf
  <2>3. health[CharOf(s)] = 0 /\ Owed(CharOf(s)) = {}
    BY <1>4, <2>1, <2>2 DEF Debts, Settled
  <2>4. Owed(CharOf(s))' = Owed(CharOf(s))
    BY <1>2, <2>2 DEF Owed
  <2> QED BY <1>2, <2>2, <2>3, <2>4
<1>7. OwedOnce'
  BY <1>2, <1>4 DEF Debts, OwedOnce, Owed
<1> QED BY <1>5, <1>6, <1>7 DEF Debts

(* A request's other steps, where deaths and health stay.                    *)
LEMMA DebtsKeep ==
    ASSUME Inv, Debts, NEW r \in Requests, OthersKeep(r), UNCHANGED <<deaths, health, overlapped>>,
           txn'[r].call = txn[r].call \/ txn'[r].call = NoCall, txn'[r].pc # "revive"
    PROVE  Debts'
<1>1. OneRespawn'
  BY OthersCalls, RespawnsKeep DEF Debts
<1>2. Settled'
  <2> SUFFICES ASSUME NEW s \in Requests, txn'[s].pc = "revive", CharOf(s)' \notin overlapped',
                      txn'[s].seen[CharOf(s)'].health = 0
               PROVE  (health[CharOf(s)] = 0 /\ Owed(CharOf(s)) = {})'
    BY DEF Settled
  <2>1. txn'[s] = txn[s] /\ CharOf(s)' = CharOf(s)
    BY DEF OthersKeep, CharOf
  <2>2. health[CharOf(s)] = 0 /\ Owed(CharOf(s)) = {}
    BY <2>1 DEF Debts, Settled
  <2> QED BY <2>1, <2>2 DEF Owed
<1>3. OwedOnce'
  BY DEF Debts, OwedOnce, Owed
<1> QED BY <1>1, <1>2, <1>3 DEF Debts

(* A hit: the living owe nothing, so who dies of it owes for this death only, *)
(* and nobody who waits to be revived is hit.                                *)
LEMMA HitDebts ==
    ASSUME Inv, Debts, NEW r \in Requests, HitLands(r)
    PROVE  Debts'
<1>1. txn[r].pc = "hit" /\ HitAllowed(r) /\ Shape /\ Control /\ Locks
  BY HitWrites DEF Inv
<1>2. PICK a \in Characters, t \in Characters : a = CharOf(r) /\ t = Target(r)
  BY <1>1, HitKnown
<1>3. health[a] # 0 /\ health[t] # 0 /\ a # t
      /\ HealthNow(r, a) \in 0 .. MaxHealth /\ HealthNow(r, a) > 0 /\ After(r) \in 0 .. MaxHealth
  <2>1. HealthNow(r, a) > 0 /\ HealthNow(r, t) > 0
    BY <1>1, <1>2 DEF HitAllowed
  <2>2. /\ HealthNow(r, a) = 0 <=> health[a] = 0
        /\ HealthNow(r, t) = 0 <=> health[t] = 0
        /\ HealthNow(r, a) \in 0 .. MaxHealth /\ After(r) \in 0 .. MaxHealth /\ a # t
    BY <1>1, <1>2, HitKnown
  <2> QED BY <2>1, <2>2, Sizes
<1>4. /\ health' = [health EXCEPT ![a] = HealthNow(r, a), ![t] = After(r)]
      /\ deaths' = IF After(r) > 0 THEN deaths
                   ELSE [deaths EXCEPT ![t] = Append(@, DeathOf(r))]
      /\ EndTransaction(r)
  BY <1>2, HitWrites DEF DeathOf
<1>5. overlapped' = overlapped /\ txn'[r] = AtRest("done") /\ OthersKeep(r)
  BY <1>1, <1>4, EndStands DEF EndTransaction
<1>6. txn'[r].pc = "done" /\ txn'[r].call = NoCall
  BY <1>5, RestTyped
<1>7. \A c \in Characters : c # a /\ c # t => health'[c] = health[c]
  BY <1>1, <1>4 DEF Shape, RowsTyped
<1>8. health'[t] = After(r)
  BY <1>1, <1>3, <1>4 DEF Shape, RowsTyped
<1>9. \A c \in Characters : c # t => deaths'[c] = deaths[c]
  BY <1>1, <1>4 DEF Shape, RowsTyped
<1>10. \A c \in Characters : c # t => Owed(c)' = Owed(c)
  BY <1>9 DEF Owed
<1>11. OneRespawn'
  BY <1>5, <1>6, OthersCalls, RespawnsKeep DEF Debts
<1>12. Settled'
  <2> SUFFICES ASSUME NEW s \in Requests, txn'[s].pc = "revive", CharOf(s)' \notin overlapped',
                      txn'[s].seen[CharOf(s)'].health = 0
               PROVE  (health[CharOf(s)] = 0 /\ Owed(CharOf(s)) = {})'
    BY DEF Settled
  <2>1. txn'[s] = txn[s]
    BY <1>5, <1>6 DEF OthersKeep
  <2>2. txn[s].pc = "revive"
    BY <2>1
  <2>3. PICK c \in Characters : c = CharOf(s)
    BY <1>1, <2>2, ReviveKnown
  <2>4. CharOf(s)' = c
    BY <2>1, <2>3 DEF CharOf
  <2>5. health[c] = 0 /\ Owed(c) = {}
    BY <1>5, <2>1, <2>2, <2>3, <2>4 DEF Debts, Settled
  <2>6. c # a /\ c # t
    BY <1>3, <2>5
  <2>7. health'[c] = 0 /\ Owed(c)' = {}
    BY <1>7, <1>10, <2>5, <2>6
  <2> QED BY <2>4, <2>7 DEF Owed
<1>13. OwedOnce'
  <2> SUFFICES ASSUME NEW c \in Characters, c \notin overlapped'
               PROVE  /\ \A i, j \in Owed(c)' : i = j
                      /\ Owed(c)' # {} => health'[c] = 0
    BY DEF OwedOnce
  <2>1. c \notin overlapped /\ (\A i, j \in Owed(c) : i = j) /\ (Owed(c) # {} => health[c] = 0)
    BY <1>5 DEF Debts, OwedOnce
  <2>2. CASE c # a /\ c # t
    BY <1>7, <1>10, <2>1, <2>2
  <2>3. CASE c = a
    BY <1>3, <1>10, <2>1, <2>3
  <2>4. CASE c = t
    <3>1. Owed(t) = {}
      BY <1>3, <2>1, <2>4
    <3>2. CASE After(r) > 0
      <4>1. Owed(t)' = Owed(t)
        BY <1>4, <3>2 DEF Owed
      <4> QED BY <2>4, <3>1, <4>1
    <3>3. CASE ~(After(r) > 0)
      <4>1. After(r) = 0 /\ DeathOf(r) \in Death /\ ~DeathOf(r).settled
        BY <1>3, <3>3, Sizes DEF DeathOf, Death
      <4>2. deaths' = [deaths EXCEPT ![t] = Append(@, DeathOf(r))]
        BY <1>4, <3>3
      <4>3. PICK n : /\ n \notin DOMAIN deaths[t]
                     /\ DOMAIN deaths'[t] = DOMAIN deaths[t] \cup {n}
                     /\ deaths'[t][n] = DeathOf(r)
                     /\ \A j \in DOMAIN deaths[t] : deaths'[t][j] = deaths[t][j]
        BY <1>1, <4>1, <4>2, DeathAdded
      <4>4. Owed(t)' \subseteq {n}
        BY <3>1, <4>3 DEF Owed
      <4> QED BY <1>8, <2>4, <4>1, <4>4
    <3> QED BY <3>2, <3>3
  <2> QED BY <2>2, <2>3, <2>4
<1> QED BY <1>11, <1>12, <1>13 DEF Debts

(* A request that has taken the costs: it owes nothing for its character, and *)
(* goes on, if it goes on, with the character as it had locked it.           *)
LEMMA CostedDebts ==
    ASSUME Inv, Debts, NEW r \in Requests, txn[r].pc = "settle", Costed(r), health' = health,
           \A d \in Characters : Owed(d)' \subseteq Owed(d),
           NEW c \in Characters, c = CharOf(r), c \in overlapped \/ Owed(c)' = {}
    PROVE  Debts'
<1>1. Shape /\ Control /\ Locks
  BY DEF Inv
<1>2. /\ OthersKeep(r) /\ overlapped' = overlapped
      /\ txn[r].call.op = "respawn" =>
            txn'[r].pc = "revive" /\ txn'[r].seen = txn[r].seen /\ txn'[r].call = txn[r].call
      /\ txn[r].call.op # "respawn" => txn'[r] = AtRest("done")
  BY <1>1, CostedStands DEF Costed
<1>3. txn'[r].call = txn[r].call \/ txn'[r].call = NoCall
  BY <1>2, RestTyped
<1>4. OneRespawn'
  BY <1>2, <1>3, OthersCalls, RespawnsKeep DEF Debts
<1>5. Settled'
  <2> SUFFICES ASSUME NEW s \in Requests, txn'[s].pc = "revive", CharOf(s)' \notin overlapped',
                      txn'[s].seen[CharOf(s)'].health = 0
               PROVE  (health[CharOf(s)] = 0 /\ Owed(CharOf(s)) = {})'
    BY DEF Settled
  <2>1. CASE s # r
    <3>1. txn'[s] = txn[s]
      BY <1>2, <2>1 DEF OthersKeep
    <3>2. txn[s].pc = "revive"
      BY <3>1
    <3>3. PICK d \in Characters : d = CharOf(s)
      BY <1>1, <3>2, ReviveKnown
    <3>4. CharOf(s)' = d
      BY <3>1, <3>3 DEF CharOf
    <3>5. health[d] = 0 /\ Owed(d) = {}
      BY <1>2, <3>1, <3>2, <3>3, <3>4 DEF Debts, Settled
    <3>6. health'[d] = 0 /\ Owed(d)' = {}
      BY <3>5
    <3> QED BY <3>4, <3>6 DEF Owed
  <2>2. CASE s = r
    <3>1. txn[r].call.op = "respawn"
      <4>1. AtRest("done").pc = "done"
        BY RestTyped
      <4> QED BY <1>2, <2>2, <4>1
    <3>2. txn'[r].seen = txn[r].seen /\ CharOf(r)' = c
      BY <1>2, <3>1 DEF CharOf
    <3>3. txn[r].seen[c] = RowOf(c)
      BY <1>1, SettleKnown
    <3>4. health[c] = 0
      BY <2>2, <3>2, <3>3 DEF RowOf
    <3>5. Owed(c)' = {}
      BY <1>2, <2>2, <3>2
    <3> QED BY <2>2, <3>2, <3>4, <3>5 DEF Owed
  <2> QED BY <2>1, <2>2
<1>6. OwedOnce'
  <2> SUFFICES ASSUME NEW d \in Characters, d \notin overlapped'
               PROVE  /\ \A i, j \in Owed(d)' : i = j
                      /\ Owed(d)' # {} => health'[d] = 0
    BY DEF OwedOnce
  <2>1. d \notin overlapped /\ (\A i, j \in Owed(d) : i = j) /\ (Owed(d) # {} => health[d] = 0)
    BY <1>2 DEF Debts, OwedOnce
  <2>2. Owed(d)' \subseteq Owed(d)
    OBVIOUS
  <2> QED BY <2>1, <2>2
<1> QED BY <1>4, <1>5, <1>6 DEF Debts

LEMMA SettleDebts ==
    ASSUME Inv, Debts, NEW r \in Requests, SettleDeath(r)
    PROVE  Debts'
<1>1. txn[r].pc = "settle" /\ Costed(r) /\ health' = health /\ Shape /\ Control /\ Locks
  BY SettleWrites DEF Inv
<1>2. PICK c \in Characters : c = CharOf(r)
  BY <1>1, SettleKnown
<1>3. PICK i \in Owed(c) : deaths' = [deaths EXCEPT ![c][i].settled = TRUE]
  BY <1>2, SettleWrites
<1>4. Owed(c)' = Owed(c) \ {i} /\ \A d \in Characters : d # c => deaths'[d] = deaths[d]
  BY <1>1, <1>3, OwedMarked
<1>5. \A d \in Characters : Owed(d)' \subseteq Owed(d)
  <2> SUFFICES ASSUME NEW d \in Characters PROVE Owed(d)' \subseteq Owed(d)
    OBVIOUS
  <2>1. CASE d = c
    BY <1>4, <2>1
  <2>2. CASE d # c
    BY <1>4, <2>2 DEF Owed
  <2> QED BY <2>1, <2>2
<1>6. c \in overlapped \/ Owed(c)' = {}
  <2>1. c \notin overlapped => \A j \in Owed(c) : j = i
    BY <1>3 DEF Debts, OwedOnce
  <2> QED BY <1>4, <2>1
<1> QED BY <1>1, <1>2, <1>5, <1>6, CostedDebts

LEMMA NothingOwedDebts ==
    ASSUME Inv, Debts, NEW r \in Requests, NothingOwed(r)
    PROVE  Debts'
<1>1. /\ txn[r].pc = "settle" /\ Costed(r) /\ health' = health /\ deaths' = deaths
      /\ Owed(CharOf(r)) = {} /\ Shape /\ Control /\ Locks
  BY DEF NothingOwed, Inv, dbVars, rowVars
<1>2. PICK c \in Characters : c = CharOf(r)
  BY <1>1, SettleKnown
<1>3. \A d \in Characters : Owed(d)' = Owed(d)
  BY <1>1 DEF Owed
<1>4. Owed(c)' = {}
  BY <1>1, <1>2, <1>3
<1> QED BY <1>1, <1>2, <1>3, <1>4, CostedDebts

(* A respawn that revives: it has settled what its character owed, and no    *)
(* other respawn waits to revive the same character.                         *)
LEMMA ReviveDebts ==
    ASSUME Inv, Debts, NEW r \in Requests, Revive(r)
    PROVE  Debts'
<1>1. /\ txn[r].pc = "revive" /\ SeenDead(r) /\ EndTransaction(r) /\ deaths' = deaths
      /\ health' = [health EXCEPT ![CharOf(r)] = Null] /\ Shape /\ Control /\ Locks
  BY DEF Revive, Inv
<1>2. PICK c \in Characters : c = CharOf(r)
  BY <1>1, ReviveKnown
<1>3. overlapped' = overlapped /\ txn'[r] = AtRest("done") /\ OthersKeep(r)
  BY <1>1, EndStands DEF EndTransaction
<1>4. txn'[r].pc = "done" /\ txn'[r].call = NoCall
  BY <1>3, RestTyped
<1>5. \A d \in Characters : d # c => health'[d] = health[d]
  BY <1>1, <1>2 DEF Shape, RowsTyped
<1>6. \A d \in Characters : Owed(d)' = Owed(d)
  BY <1>1 DEF Owed
<1>7. OneRespawn'
  BY <1>3, <1>4, OthersCalls, RespawnsKeep DEF Debts
<1>8. Settled'
  <2> SUFFICES ASSUME NEW s \in Requests, txn'[s].pc = "revive", CharOf(s)' \notin overlapped',
                      txn'[s].seen[CharOf(s)'].health = 0
               PROVE  (health[CharOf(s)] = 0 /\ Owed(CharOf(s)) = {})'
    BY DEF Settled
  <2>1. txn'[s] = txn[s] /\ s # r
    BY <1>3, <1>4 DEF OthersKeep
  <2>2. txn[s].pc = "revive"
    BY <2>1
  <2>3. PICK d \in Characters : d = CharOf(s)
    BY <1>1, <2>2, ReviveKnown
  <2>4. CharOf(s)' = d
    BY <2>1, <2>3 DEF CharOf
  <2>5. health[d] = 0 /\ Owed(d) = {} /\ d \notin overlapped
    BY <1>3, <2>1, <2>2, <2>3, <2>4 DEF Debts, Settled
  <2>6. d # c
    <3> SUFFICES ASSUME d = c PROVE FALSE
      OBVIOUS
    <3>1. /\ txn[r].call \in Calls /\ txn[r].call.op = "respawn"
          /\ txn[s].call \in Calls /\ txn[s].call.op = "respawn"
      BY <1>1, <2>2, ReviveKnown
    <3>2. txn[r].call = [op |-> "respawn", char |-> c] /\ txn[s].call = [op |-> "respawn", char |-> c]
      BY <1>2, <2>3, <3>1, RespawnIs DEF CharOf
    <3>3. r \in Respawning(c) /\ s \in Respawning(c)
      BY <3>2 DEF Respawning
    <3> QED BY <2>1, <2>5, <3>3 DEF Debts, OneRespawn
  <2>7. health'[d] = 0 /\ Owed(d)' = {}
    BY <1>5, <1>6, <2>5, <2>6
  <2> QED BY <2>4, <2>7 DEF Owed
<1>9. OwedOnce'
  <2> SUFFICES ASSUME NEW d \in Characters, d \notin overlapped'
               PROVE  /\ \A i, j \in Owed(d)' : i = j
                      /\ Owed(d)' # {} => health'[d] = 0
    BY DEF OwedOnce
  <2>1. d \notin overlapped /\ (\A i, j \in Owed(d) : i = j) /\ (Owed(d) # {} => health[d] = 0)
    BY <1>3 DEF Debts, OwedOnce
  <2>2. CASE d # c
    BY <1>5, <1>6, <2>1, <2>2
  <2>3. CASE d = c
    <3>1. txn[r].seen[c].health = 0
      BY <1>1, <1>2, ReviveKnown
    <3>2. Owed(c) = {}
      BY <1>1, <1>2, <2>1, <2>3, <3>1 DEF Debts, Settled
    <3> QED BY <1>6, <2>3, <3>2
  <2> QED BY <2>2, <2>3
<1> QED BY <1>7, <1>8, <1>9 DEF Debts

LEMMA RestDebts ==
    ASSUME Inv, Debts, NEW r \in Requests, EndTransaction(r), UNCHANGED <<deaths, health>>
    PROVE  Debts'
<1>1. OthersKeep(r) /\ txn'[r] = AtRest("done") /\ overlapped' = overlapped
  BY EndStands DEF Inv, EndTransaction
<1>2. txn'[r].pc = "done" /\ txn'[r].call = NoCall
  BY <1>1, RestTyped
<1> QED BY <1>1, <1>2, DebtsKeep

LEMMA LockDebts ==
    ASSUME Inv, Debts, NEW r \in Requests, NEW c \in Characters, LockCharacter(r, c)
    PROVE  Debts'
<1>1. OthersKeep(r) /\ UNCHANGED <<deaths, health, overlapped>>
  BY LockStands DEF Inv, LockCharacter, dbVars, rowVars
<1>2. txn[r].pc = "lock" /\ txn \in [Requests -> Txn] /\ txn[r] \in Txn
  BY DEF LockCharacter, Inv, Shape, RequestsTyped
<1>3. txn[r].call.op \in {"hit", "cost", "respawn", "loot"}
  BY <1>2, CallTyped DEF Inv, Control, ControlOf, UnderWay
<1> DEFINE rest == txn[r].toLock \ {c}
<1>4. /\ txn'[r].pc = (IF rest = {} THEN AfterLock[txn[r].call.op] ELSE "lock")
      /\ txn'[r].call = txn[r].call
  BY <1>2 DEF LockCharacter, Txn
<1>5. txn'[r].pc # "revive"
  BY <1>3, <1>4 DEF AfterLock
<1> QED BY <1>1, <1>4, <1>5, DebtsKeep

LEMMA LockCrateDebts ==
    ASSUME Inv, Debts, NEW r \in Requests, LockCrate(r)
    PROVE  Debts'
<1>1. OthersKeep(r) /\ UNCHANGED <<deaths, health, overlapped>>
  BY LockCrateStands DEF Inv, LockCrate, dbVars, rowVars
<1>2. txn \in [Requests -> Txn] /\ txn[r] \in Txn
  BY DEF Inv, Shape, RequestsTyped
<1>3. txn'[r].pc = "take" /\ txn'[r].call = txn[r].call
  BY <1>2 DEF LockCrate, Txn
<1> QED BY <1>1, <1>3, DebtsKeep

LEMMA DebtsSame ==
    ASSUME Debts, UNCHANGED <<txn, deaths, health, overlapped>>
    PROVE  Debts'
BY DEF Debts, OneRespawn, Respawning, Settled, OwedOnce, Owed, CharOf

LEMMA DebtsStep ==
    ASSUME Inv, Debts, Next
    PROVE  Debts'
<1>1. ASSUME NEW r \in Requests, NEW c \in Calls, Begin(r, c) PROVE Debts'
  BY <1>1, BeginDebts
<1>2. ASSUME NEW r \in Requests, NEW c \in Characters, LockCharacter(r, c) PROVE Debts'
  BY <1>2, LockDebts
<1>3. ASSUME NEW r \in Requests, HitLands(r) PROVE Debts'
  BY <1>3, HitDebts
<1>4. ASSUME NEW r \in Requests, SettleDeath(r) PROVE Debts'
  BY <1>4, SettleDebts
<1>5. ASSUME NEW r \in Requests, NothingOwed(r) PROVE Debts'
  BY <1>5, NothingOwedDebts
<1>6. ASSUME NEW r \in Requests, Revive(r) PROVE Debts'
  BY <1>6, ReviveDebts
<1>7. ASSUME NEW r \in Requests, LockCrate(r) PROVE Debts'
  BY <1>7, LockCrateDebts
<1>8. ASSUME NEW r \in Requests, Take(r) \/ Rollback(r) PROVE Debts'
  BY <1>8, RestDebts DEF Take, Rollback, dbVars, rowVars
<1>9. CASE Tick
  BY <1>9, DebtsSame DEF Tick, rowVars
<1> QED BY <1>1, <1>2, <1>3, <1>4, <1>5, <1>6, <1>7, <1>8, <1>9
        DEF Next, RefuseHit, RefuseRespawn, RefuseLoot, Disconnect

LEMMA DebtsInit == ASSUME Init PROVE Debts
<1>1. \A r \in Requests : txn[r].pc = "idle" /\ txn[r].call = NoCall
  BY RestTyped DEF Init
<1>2. OneRespawn
  <2>1. ASSUME NEW c \in Characters PROVE Respawning(c) = {}
    <3>1. NoCall # [op |-> "respawn", char |-> c]
      BY DEF NoCall
    <3> QED BY <1>1, <3>1 DEF Respawning
  <2> QED BY <2>1 DEF OneRespawn
<1>3. Settled
  BY <1>1 DEF Settled
<1>4. OwedOnce
  <2>1. ASSUME NEW c \in Characters
        PROVE  (\A i, j \in Owed(c) : i = j) /\ (Owed(c) # {} => health[c] = 0)
    <3>1. deaths[c] = IF health[c] = 0 THEN <<[docked |-> c \in world.docked, settled |-> FALSE]>>
                      ELSE <<>>
      BY DEF Init
    <3>2. CASE health[c] = 0
      <4>1. DOMAIN deaths[c] = 1 .. 1
        BY <3>1, <3>2
      <4> QED BY <3>2, <4>1 DEF Owed
    <3>3. CASE health[c] # 0
      BY <3>1, <3>3 DEF Owed
    <3> QED BY <3>2, <3>3
  <2> QED BY <2>1 DEF OwedOnce
<1> QED BY <1>2, <1>3, <1>4 DEF Debts

(* DeathCostService.cs:73-74: who lives again owes nothing, and owes for one  *)
(* death at most, so long as no two requests respawn a character at once: a  *)
(* respawn settles under the character's lock before it revives.             *)
THEOREM NoDeathFree == Spec => []RespawnSettles
<1>1. Init => Debts
  BY DebtsInit
<1>2. Inv /\ Debts /\ [Next]_vars => Debts'
  BY DebtsStep, DebtsSame DEF vars, dbVars, rowVars
<1>3. Debts => RespawnSettles
  <2> SUFFICES ASSUME Debts, NEW c \in Characters \ overlapped
               PROVE  Cardinality(Owed(c)) <= 1 /\ (Owed(c) # {} => health[c] = 0)
    BY DEF RespawnSettles
  <2>1. (\A i, j \in Owed(c) : i = j) /\ (Owed(c) # {} => health[c] = 0)
    BY DEF Debts, OwedOnce
  <2>2. CASE Owed(c) = {}
    BY <2>2, FS_EmptySet
  <2>3. CASE Owed(c) # {}
    <3>1. PICK i \in Owed(c) : Owed(c) = {i}
      BY <2>1, <2>3
    <3>2. Cardinality({i}) = 1
      BY FS_Singleton
    <3> QED BY <2>1, <3>1, <3>2
  <2> QED BY <2>1, <2>2, <2>3
<1> QED BY <1>1, <1>2, <1>3, InvHolds, PTL DEF Spec

--------------------------------------------------------------------------------
(* Where goods are.                                                          *)

CarriedOf(m) == [c \in Characters |-> carried[c][m]]
LyingOf(m) == [k \in DOMAIN crates |-> crates[k].items[m]]

GoodsOf(m) ==
    SumFunction(CarriedOf(m)) + SumFunction(LyingOf(m)) + destroyed[m]
        = SumFunction([c \in Characters |-> world.carried[c][m]])

LEMMA GoodsByItem ==
    /\ GoodsAccounted <=> \A m \in Materials : GoodsOf(m)
    /\ GoodsAccounted' <=> \A m \in Materials : GoodsOf(m)'
BY DEF GoodsAccounted, GoodsOf, CarriedOf, LyingOf

LEMMA GoodsSame ==
    ASSUME GoodsAccounted, UNCHANGED <<carried, crates, destroyed, world>>
    PROVE  GoodsAccounted'
BY DEF GoodsAccounted

LEMMA GoodsTyped ==
    ASSUME Shape, NEW m \in Materials
    PROVE  /\ DOMAIN CarriedOf(m) = Characters
           /\ \A c \in Characters : CarriedOf(m)[c] = carried[c][m] /\ CarriedOf(m)[c] \in Nat
           /\ IsFiniteSet(DOMAIN CarriedOf(m))
           /\ DOMAIN LyingOf(m) = DOMAIN crates
           /\ \A k \in DOMAIN crates : LyingOf(m)[k] = crates[k].items[m] /\ LyingOf(m)[k] \in Nat
           /\ IsFiniteSet(DOMAIN LyingOf(m))
           /\ SumFunction(CarriedOf(m)) \in Int /\ SumFunction(LyingOf(m)) \in Int
           /\ destroyed[m] \in Nat
<1>1. /\ carried \in [Characters -> Amounts] /\ destroyed \in Amounts
      /\ IsPartialFn(crates, Requests, Crate)
  BY DEF Shape, RowsTyped
<1>2. \A c \in Characters : carried[c][m] \in Nat
  BY <1>1 DEF Amounts
<1>3. DOMAIN crates \subseteq Requests /\ \A k \in DOMAIN crates : crates[k] \in Crate
  BY <1>1 DEF IsPartialFn
<1>4. \A k \in DOMAIN crates : crates[k].items[m] \in Nat
  BY <1>3 DEF Crate, Amounts
<1>5. /\ DOMAIN CarriedOf(m) = Characters
      /\ \A c \in Characters : CarriedOf(m)[c] = carried[c][m] /\ CarriedOf(m)[c] \in Nat
  BY <1>2 DEF CarriedOf
<1>6. /\ DOMAIN LyingOf(m) = DOMAIN crates
      /\ \A k \in DOMAIN crates : LyingOf(m)[k] = crates[k].items[m] /\ LyingOf(m)[k] \in Nat
  BY <1>4 DEF LyingOf
<1>7. IsFiniteSet(DOMAIN CarriedOf(m)) /\ IsFiniteSet(DOMAIN LyingOf(m))
  BY <1>3, <1>5, <1>6, Sizes, FS_Subset
<1>8. \A c \in DOMAIN CarriedOf(m) : CarriedOf(m)[c] \in Int
  BY <1>5
<1>9. \A k \in DOMAIN LyingOf(m) : LyingOf(m)[k] \in Int
  BY <1>6
<1>10. SumFunction(CarriedOf(m)) \in Int
  <2> DEFINE f == CarriedOf(m)
  <2>1. IsFiniteSet(DOMAIN f) /\ \A x \in DOMAIN f : f[x] \in Int
    BY <1>7, <1>8
  <2> HIDE DEF f
  <2>2. SumFunction(f) \in Int
    BY <2>1, SumTyped
  <2> QED BY <2>2 DEF f
<1>11. SumFunction(LyingOf(m)) \in Int
  <2> DEFINE f == LyingOf(m)
  <2>1. IsFiniteSet(DOMAIN f) /\ \A x \in DOMAIN f : f[x] \in Int
    BY <1>7, <1>9
  <2> HIDE DEF f
  <2>2. SumFunction(f) \in Int
    BY <2>1, SumTyped
  <2> QED BY <2>2 DEF f
<1>12. destroyed[m] \in Nat
  BY <1>1 DEF Amounts
<1> QED BY <1>5, <1>6, <1>7, <1>10, <1>11, <1>12

(* What one character's pockets change by, the goods carried change by; and  *)
(* so with one crate, or a crate more.                                       *)
LEMMA PocketsChange ==
    ASSUME Shape, NEW m \in Materials, NEW c \in Characters, NEW pockets \in Amounts,
           carried' = [carried EXCEPT ![c] = pockets]
    PROVE  SumFunction(CarriedOf(m)') = SumFunction(CarriedOf(m)) + pockets[m] - carried[c][m]
<1> DEFINE f == CarriedOf(m)
           g == CarriedOf(m)'
<1>1. carried \in [Characters -> Amounts] /\ pockets[m] \in Nat
  BY DEF Shape, RowsTyped, Amounts
<1>2. /\ DOMAIN f = Characters /\ IsFiniteSet(DOMAIN f)
      /\ \A x \in DOMAIN f : f[x] \in Int /\ f[x] = carried[x][m]
  BY GoodsTyped
<1>3. DOMAIN g = Characters /\ \A x \in Characters : g[x] = carried'[x][m]
  BY DEF CarriedOf
<1>4. \A x \in Characters : carried'[x] = IF x = c THEN pockets ELSE carried[x]
  BY <1>1
<1> HIDE DEF f, g
<1>5. /\ DOMAIN g = DOMAIN f /\ c \in DOMAIN f /\ g[c] = pockets[m] /\ f[c] = carried[c][m]
      /\ \A x \in DOMAIN f : x # c => g[x] = f[x]
  BY <1>2, <1>3, <1>4
<1>6. \A x \in DOMAIN f : f[x] \in Int /\ g[x] \in Int
  BY <1>1, <1>2, <1>5
<1>7. SumFunction(g) = SumFunction(f) + g[c] - f[c]
  BY <1>2, <1>5, <1>6, SumMoves
<1> QED BY <1>5, <1>7 DEF f, g

LEMMA CrateChanges ==
    ASSUME Shape, NEW m \in Materials, NEW k \in DOMAIN crates, NEW items \in Amounts,
           crates' = [crates EXCEPT ![k].items = items]
    PROVE  SumFunction(LyingOf(m)') = SumFunction(LyingOf(m)) + items[m] - crates[k].items[m]
<1> DEFINE f == LyingOf(m)
           g == LyingOf(m)'
<1>1. crates[k] \in Crate /\ items[m] \in Nat
  BY DEF Shape, RowsTyped, IsPartialFn, Amounts
<1>2. /\ DOMAIN f = DOMAIN crates /\ IsFiniteSet(DOMAIN f)
      /\ \A x \in DOMAIN f : f[x] \in Int /\ f[x] = crates[x].items[m]
  BY GoodsTyped
<1>3. DOMAIN g = DOMAIN crates' /\ \A x \in DOMAIN crates' : g[x] = crates'[x].items[m]
  BY DEF LyingOf
<1>4. /\ DOMAIN crates' = DOMAIN crates /\ crates'[k].items = items
      /\ \A x \in DOMAIN crates : x # k => crates'[x] = crates[x]
  BY <1>1 DEF Crate
<1> HIDE DEF f, g
<1>5. /\ DOMAIN g = DOMAIN f /\ k \in DOMAIN f /\ g[k] = items[m] /\ f[k] = crates[k].items[m]
      /\ \A x \in DOMAIN f : x # k => g[x] = f[x]
  BY <1>2, <1>3, <1>4
<1>6. \A x \in DOMAIN f : f[x] \in Int /\ g[x] \in Int
  BY <1>1, <1>2, <1>5
<1>7. SumFunction(g) = SumFunction(f) + g[k] - f[k]
  BY <1>2, <1>5, <1>6, SumMoves
<1> QED BY <1>5, <1>7 DEF f, g

LEMMA CrateDropped ==
    ASSUME Shape, NEW m \in Materials, NEW k, k \notin DOMAIN crates, NEW crate \in Crate,
           crates' = Put(crates, k, crate)
    PROVE  SumFunction(LyingOf(m)') = SumFunction(LyingOf(m)) + crate.items[m]
<1> DEFINE f == LyingOf(m)
           g == LyingOf(m)'
<1>1. crate.items[m] \in Nat
  BY DEF Crate, Amounts
<1>2. /\ DOMAIN f = DOMAIN crates /\ IsFiniteSet(DOMAIN f)
      /\ \A x \in DOMAIN f : f[x] \in Int /\ f[x] = crates[x].items[m]
  BY GoodsTyped
<1>3. DOMAIN g = DOMAIN crates' /\ \A x \in DOMAIN crates' : g[x] = crates'[x].items[m]
  BY DEF LyingOf
<1>4. /\ DOMAIN crates' = DOMAIN crates \cup {k} /\ crates'[k] = crate
      /\ \A x \in DOMAIN crates : crates'[x] = crates[x]
  BY DEF Put
<1> HIDE DEF f, g
<1>5. /\ DOMAIN g = DOMAIN f \cup {k} /\ k \notin DOMAIN f /\ g[k] = crate.items[m]
      /\ g[k] \in Int
      /\ \A x \in DOMAIN f : f[x] \in Int /\ g[x] = f[x]
  BY <1>1, <1>2, <1>3, <1>4
<1>6. SumFunction(g) = SumFunction(f) + g[k]
  BY <1>2, <1>5, SumGrows
<1> QED BY <1>5, <1>6 DEF f, g

LEMMA SettleGoods ==
    ASSUME Inv, GoodsAccounted, NEW r \in Requests, SettleDeath(r)
    PROVE  GoodsAccounted'
<1>1. txn[r].pc = "settle" /\ world' = world /\ Shape /\ Control /\ Locks
  BY SettleWrites DEF Inv, Costed
<1>2. PICK c \in Characters : c = CharOf(r)
  BY <1>1, SettleKnown
<1>3. r \notin DOMAIN crates
  BY <1>1, SettleKnown
<1>4. PICK i : SettlesAtStation(r, i) \/ SettlesElsewhere(r, i)
  BY SettleWrites
<1>5. CASE SettlesAtStation(r, i)
  BY <1>1, <1>5, GoodsSame DEF SettlesAtStation
<1>6. CASE SettlesElsewhere(r, i)
  <2> SUFFICES ASSUME NEW m \in Materials PROVE GoodsOf(m)'
    BY GoodsByItem
  <2>1. GoodsOf(m)
    BY GoodsByItem
  <2>2. /\ SumFunction(CarriedOf(m)) \in Int /\ SumFunction(LyingOf(m)) \in Int
        /\ destroyed[m] \in Nat
    BY <1>1, GoodsTyped
  <2>3. /\ carried' = [carried EXCEPT ![c] = None]
        /\ destroyed' = [n \in Materials |-> destroyed[n] + carried[c][n] - DroppedBy(r)[n]]
        /\ \/ DroppedBy(r) = None /\ crates' = crates
           \/ crates' = Put(crates, r, [items |-> DroppedBy(r), expires |-> txn[r].now + LootableFor])
    BY <1>2, <1>6 DEF SettlesElsewhere
  <2>4. DroppedBy(r) \in Amounts
    BY <1>1, <1>2, DroppedTyped
  <2>5. carried[c][m] \in Nat /\ DroppedBy(r)[m] \in Nat /\ None[m] = 0
    BY <1>1, <2>4 DEF Shape, RowsTyped, Amounts, None
  <2>6. SumFunction(CarriedOf(m)') = SumFunction(CarriedOf(m)) + None[m] - carried[c][m]
    BY <1>1, <2>3, NoneTyped, PocketsChange
  <2>7. destroyed'[m] = destroyed[m] + carried[c][m] - DroppedBy(r)[m]
    BY <2>3
  <2>8. SumFunction(LyingOf(m)') = SumFunction(LyingOf(m)) + DroppedBy(r)[m]
    <3>1. CASE DroppedBy(r) = None /\ crates' = crates
      <4>1. LyingOf(m)' = LyingOf(m)
        BY <3>1 DEF LyingOf
      <4> QED BY <2>2, <2>5, <3>1, <4>1
    <3>2. CASE crates' = Put(crates, r, [items |-> DroppedBy(r), expires |-> txn[r].now + LootableFor])
      <4> DEFINE crate == [items |-> DroppedBy(r), expires |-> txn[r].now + LootableFor]
      <4>1. crate \in Crate /\ crate.items = DroppedBy(r)
        <5>1. txn[r].now + LootableFor \in Nat
          BY <1>1, TxnTyped, Sizes
        <5> QED BY <2>4, <5>1 DEF Crate
      <4>2. crates' = Put(crates, r, crate)
        BY <3>2
      <4> HIDE DEF crate
      <4>3. SumFunction(LyingOf(m)') = SumFunction(LyingOf(m)) + crate.items[m]
        BY <1>1, <1>3, <4>1, <4>2, CrateDropped
      <4> QED BY <4>1, <4>3
    <3> QED BY <2>3, <3>1, <3>2
  <2> DEFINE sumC == SumFunction(CarriedOf(m))
             sumL == SumFunction(LyingOf(m))
             was == carried[c][m]
             fell == DroppedBy(r)[m]
             gone == destroyed[m]
             total == SumFunction([d \in Characters |-> world.carried[d][m]])
  <2>9. /\ sumC \in Int /\ sumL \in Int /\ gone \in Int /\ was \in Int /\ fell \in Int
        /\ sumC + sumL + gone = total
        /\ SumFunction(CarriedOf(m)') = sumC + 0 - was
        /\ SumFunction(LyingOf(m)') = sumL + fell
        /\ destroyed'[m] = gone + was - fell
    BY <2>1, <2>2, <2>5, <2>6, <2>7, <2>8 DEF GoodsOf
  <2> HIDE DEF sumC, sumL, was, fell, gone, total
  <2>10. SumFunction(CarriedOf(m)') + SumFunction(LyingOf(m)') + destroyed'[m] = total
    BY <2>9
  <2> QED BY <1>1, <2>10 DEF GoodsOf, total
<1> QED BY <1>4, <1>5, <1>6

LEMMA TakeGoods ==
    ASSUME Inv, GoodsAccounted, NEW r \in Requests, Take(r)
    PROVE  GoodsAccounted'
<1>1. txn[r].pc = "take" /\ UNCHANGED <<world, destroyed>> /\ Shape /\ Control /\ Locks
  BY DEF Take, Inv, EndTransaction, historyVars
<1>2. PICK c \in Characters, k \in DOMAIN crates : c = CharOf(r) /\ k = txn[r].crate
  BY <1>1, TakeKnown
<1>3. txn[r].pockets = carried[c] /\ txn[r].items = crates[k].items
  BY <1>1, <1>2, TakeKnown
<1>4. /\ carried' = [carried EXCEPT ![c] = Loaded(r)]
      /\ crates' = [crates EXCEPT ![k].items = Left(r)]
  BY <1>2 DEF Take, Left, Loaded
<1>5. Left(r) \in Amounts /\ Loaded(r) \in Amounts /\ Takes(r) \in Amounts
  BY <1>1, LoadTyped, TakesTyped
<1> SUFFICES ASSUME NEW m \in Materials PROVE GoodsOf(m)'
  BY GoodsByItem
<1>6. GoodsOf(m)
  BY GoodsByItem
<1>7. /\ SumFunction(CarriedOf(m)) \in Int /\ SumFunction(LyingOf(m)) \in Int
      /\ destroyed[m] \in Nat /\ carried[c][m] \in Nat /\ crates[k].items[m] \in Nat
  BY <1>1, GoodsTyped
<1>8. Takes(r)[m] \in Nat
  BY <1>5 DEF Amounts
<1>9. /\ Left(r)[m] = crates[k].items[m] - Takes(r)[m]
      /\ Loaded(r)[m] = carried[c][m] + Takes(r)[m]
  BY <1>3 DEF Left, Loaded
<1>10. SumFunction(CarriedOf(m)') = SumFunction(CarriedOf(m)) + Loaded(r)[m] - carried[c][m]
  BY <1>1, <1>4, <1>5, PocketsChange
<1>11. SumFunction(LyingOf(m)') = SumFunction(LyingOf(m)) + Left(r)[m] - crates[k].items[m]
  BY <1>1, <1>4, <1>5, CrateChanges
<1> DEFINE sumC == SumFunction(CarriedOf(m))
           sumL == SumFunction(LyingOf(m))
           had == carried[c][m]
           lay == crates[k].items[m]
           took == Takes(r)[m]
           gone == destroyed[m]
           total == SumFunction([d \in Characters |-> world.carried[d][m]])
<1>12. /\ sumC \in Int /\ sumL \in Int /\ gone \in Int /\ had \in Int /\ lay \in Int /\ took \in Int
       /\ sumC + sumL + gone = total
       /\ SumFunction(CarriedOf(m)') = sumC + (had + took) - had
       /\ SumFunction(LyingOf(m)') = sumL + (lay - took) - lay
       /\ destroyed'[m] = gone
  BY <1>1, <1>6, <1>7, <1>8, <1>9, <1>10, <1>11 DEF GoodsOf
<1> HIDE DEF sumC, sumL, had, lay, took, gone, total
<1>13. SumFunction(CarriedOf(m)') + SumFunction(LyingOf(m)') + destroyed'[m] = total
  BY <1>12
<1> QED BY <1>1, <1>13 DEF GoodsOf, total

LEMMA GoodsStep ==
    ASSUME Inv, GoodsAccounted, Next
    PROVE  GoodsAccounted'
<1>1. ASSUME NEW r \in Requests, NEW c \in Calls, Begin(r, c) PROVE GoodsAccounted'
  BY <1>1, GoodsSame DEF Begin, dbVars, rowVars, historyVars
<1>2. ASSUME NEW r \in Requests, NEW c \in Characters, LockCharacter(r, c) PROVE GoodsAccounted'
  BY <1>2, GoodsSame DEF LockCharacter, dbVars, rowVars, historyVars
<1>3. ASSUME NEW r \in Requests, HitLands(r) PROVE GoodsAccounted'
  BY <1>3, GoodsSame DEF HitLands, EndTransaction
<1>4. ASSUME NEW r \in Requests, SettleDeath(r) PROVE GoodsAccounted'
  BY <1>4, SettleGoods
<1>5. ASSUME NEW r \in Requests, NothingOwed(r) PROVE GoodsAccounted'
  BY <1>5, GoodsSame DEF NothingOwed, Costed, dbVars, rowVars, historyVars
<1>6. ASSUME NEW r \in Requests, Revive(r) \/ LockCrate(r) \/ Rollback(r) PROVE GoodsAccounted'
  BY <1>6, GoodsSame DEF Revive, LockCrate, Rollback, EndTransaction, dbVars, rowVars, historyVars
<1>7. ASSUME NEW r \in Requests, Take(r) PROVE GoodsAccounted'
  BY <1>7, TakeGoods
<1>8. CASE Tick
  BY <1>8, GoodsSame DEF Tick, rowVars
<1> QED BY <1>1, <1>2, <1>3, <1>4, <1>5, <1>6, <1>7, <1>8
        DEF Next, RefuseHit, RefuseRespawn, RefuseLoot, Disconnect

LEMMA GoodsInit == ASSUME Init PROVE GoodsAccounted
<1> SUFFICES ASSUME NEW m \in Materials PROVE GoodsOf(m)
  BY GoodsByItem
<1>1. Shape
  BY InitShape
<1>2. /\ CarriedOf(m) = [c \in Characters |-> world.carried[c][m]]
      /\ DOMAIN LyingOf(m) = {} /\ destroyed[m] = 0
  BY DEF Init, CarriedOf, LyingOf, EmptyFn, None
<1>3. SumFunction(LyingOf(m)) = 0
  BY <1>2, SumOfNothing
<1>4. SumFunction(CarriedOf(m)) \in Int
  BY <1>1, GoodsTyped
<1> QED BY <1>2, <1>3, <1>4 DEF GoodsOf

(* CombatService.cs:536, DeathCostService.cs: what was carried at the start  *)
(* is carried, lies in a crate or was destroyed by a death, whoever dies,    *)
(* settles and loots at once.                                                *)
THEOREM GoodsHeld == Spec => []GoodsAccounted
<1>1. Init => GoodsAccounted
  BY GoodsInit
<1>2. Inv /\ GoodsAccounted /\ [Next]_vars => GoodsAccounted'
  BY GoodsStep, GoodsSame DEF vars, dbVars, rowVars, historyVars
<1> QED BY <1>1, <1>2, InvHolds, PTL DEF Spec

--------------------------------------------------------------------------------
(* Nobody is stuck.                                                          *)

LEMMA GreatestOne ==
    ASSUME NEW S, IsFiniteSet(S), S \subseteq Nat, S # {}
    PROVE  \E x \in S : \A y \in S : y <= x
<1> DEFINE G == {T \in SUBSET S : T = {} \/ \E x \in T : \A y \in T : y <= x}
<1>1. ASSUME NEW T \in SUBSET S, \A U \in SUBSET T : U # T => U \in G
      PROVE  T \in G
  <2>1. CASE T = {}
    BY <2>1
  <2>2. CASE T # {}
    <3>1. PICK e \in T : TRUE
      BY <2>2
    <3>2. T \ {e} \in SUBSET T /\ T \ {e} # T
      BY <3>1
    <3>3. T \ {e} \in G
      BY <1>1, <3>2
    <3>4. CASE T \ {e} = {}
      BY <3>1, <3>4
    <3>5. CASE T \ {e} # {}
      <4>1. PICK x \in T \ {e} : \A y \in T \ {e} : y <= x
        BY <3>3, <3>5
      <4>2. x \in Nat /\ e \in Nat /\ T \subseteq Nat
        BY <3>1, <4>1
      <4>3. CASE e <= x
        BY <3>1, <4>1, <4>3
      <4>4. CASE x < e
        <5>1. \A y \in T : y <= e
          BY <4>1, <4>2, <4>4
        <5> QED BY <3>1, <5>1
      <4> QED BY <4>2, <4>3, <4>4
    <3> QED BY <3>4, <3>5
  <2> QED BY <2>1, <2>2
<1> HIDE DEF G
<1>2. SUBSET S \subseteq G
  BY <1>1, SubsetInduction
<1>3. S \in G
  BY <1>2
<1> QED BY <1>3 DEF G

(* Who a request waits for holds the character, or the crate, it wants; and  *)
(* who holds a crate waits for nobody.                                       *)
LEMMA Waits ==
    ASSUME Inv, NEW r \in Requests, NEW q \in WaitsFor(r)
    PROVE  /\ q \in Requests
           /\ \/ txn[q].pc = "take"
              \/ \E c \in Characters : charLock[c] = q
           /\ txn[r].pc = "lock" =>
                 \E d \in Characters : /\ charLock[d] = q
                                       /\ \A c \in Characters : charLock[c] = r => c < d
<1>1. Shape /\ Control /\ Locks
  BY DEF Inv
<1>2. charLock \in [Characters -> Requests \cup {Nobody}]
      /\ crateLock \in [Requests -> Requests \cup {Nobody}]
  BY <1>1 DEF Shape, RequestsTyped
<1>3. CASE txn[r].pc = "lock"
  <2>1. PICK d \in txn[r].toLock : q = charLock[d] /\ q # Nobody
    BY <1>3 DEF WaitsFor
  <2>2. d \in Characters
    BY <1>1, TxnTyped
  <2>3. \A c \in Characters : charLock[c] = r => c \in DOMAIN txn[r].seen
    BY <1>1 DEF Locks, LocksOf
  <2>4. \A c \in DOMAIN txn[r].seen, e \in txn[r].toLock : c < e
    BY <1>1, <1>3 DEF Control, ControlOf
  <2> QED BY <1>2, <2>1, <2>2, <2>3, <2>4
<1>4. CASE txn[r].pc = "revive"
  <2>1. q = charLock[CharOf(r)] /\ q # Nobody
    BY <1>4 DEF WaitsFor
  <2>2. CharOf(r) \in Characters
    BY <1>1, <1>4, ReviveKnown
  <2> QED BY <1>2, <1>4, <2>1, <2>2
<1>5. CASE txn[r].pc = "lockCrate"
  <2>1. q = crateLock[txn[r].crate] /\ q # Nobody
    BY <1>5 DEF WaitsFor
  <2>2. txn[r].crate \in Requests
    <3>1. txn[r].crate \in DOMAIN crates
      BY <1>1, <1>5 DEF Control, ControlOf, UnderWay
    <3> QED BY <1>1, <3>1 DEF Shape, RowsTyped, IsPartialFn
  <2>3. q \in Requests
    BY <1>2, <2>1, <2>2
  <2>4. txn[q].pc = "take"
    BY <1>1, <2>1, <2>2, <2>3 DEF Locks, LocksOf
  <2> QED BY <1>5, <2>3, <2>4
<1>6. CASE txn[r].pc \notin {"lock", "revive", "lockCrate"}
  BY <1>6 DEF WaitsFor
<1> QED BY <1>3, <1>4, <1>5, <1>6

LEMMA NobodyStuck == ASSUME Inv PROVE NeverStuck
<1> SUFFICES ASSUME NEW r \in Requests, NEW S \in SUBSET Requests, r \in S,
                    \A s \in S : WaitsFor(s) # {} /\ WaitsFor(s) \subseteq S
             PROVE  FALSE
  BY DEF NeverStuck, Stuck
<1> DEFINE held == {c \in Characters : charLock[c] \in S}
<1>1. ASSUME NEW s \in S, NEW q \in WaitsFor(s)
      PROVE  q \in S /\ \E c \in Characters : charLock[c] = q
  <2>1. q \in S /\ WaitsFor(q) # {}
    OBVIOUS
  <2>2. txn[q].pc # "take"
    BY <2>1 DEF WaitsFor
  <2> QED BY <2>1, <2>2, Waits
<1>2. held # {}
  BY <1>1
<1>3. ASSUME NEW c \in held PROVE \E d \in held : c < d
  <2>1. PICK q \in S : charLock[c] = q
    OBVIOUS
  <2>2. txn[q].pc # "revive"
    BY <2>1 DEF Inv, Locks, LocksOf
  <2>3. txn[q].pc = "lock"
    <3>1. WaitsFor(q) # {}
      BY <2>1
    <3>2. txn[q].pc \in {"lock", "revive", "lockCrate"}
      BY <3>1 DEF WaitsFor
    <3>3. txn[q].pc # "lockCrate"
      <4> SUFFICES ASSUME txn[q].pc = "lockCrate" PROVE FALSE
        OBVIOUS
      <4>1. PICK p \in WaitsFor(q) : p \in S
        BY <3>1
      <4>2. p = crateLock[txn[q].crate] /\ txn[q].crate \in DOMAIN crates
        BY <4>1 DEF WaitsFor, Inv, Control, ControlOf, UnderWay
      <4>3. txn[q].crate \in Requests /\ p \in Requests
        BY <4>1, <4>2 DEF Inv, Shape, RowsTyped, IsPartialFn
      <4>4. txn[p].pc = "take"
        BY <4>2, <4>3 DEF Inv, Locks, LocksOf
      <4>5. WaitsFor(p) = {}
        BY <4>4 DEF WaitsFor
      <4> QED BY <4>1, <4>5
    <3> QED BY <2>2, <3>2, <3>3
  <2>4. PICK p \in WaitsFor(q) : p \in S
    BY <2>1
  <2>5. PICK d \in Characters : charLock[d] = p /\ \A e \in Characters : charLock[e] = q => e < d
    BY <2>1, <2>3, <2>4, Waits
  <2> QED BY <2>1, <2>4, <2>5
<1>4. IsFiniteSet(held) /\ held \subseteq Nat
  <2>1. held \subseteq Characters
    OBVIOUS
  <2> HIDE DEF held
  <2> QED BY <2>1, Sizes, FS_Subset
<1> HIDE DEF held
<1>5. PICK x \in held : \A y \in held : y <= x
  BY <1>2, <1>4, GreatestOne
<1>6. PICK y \in held : x < y
  BY <1>3, <1>5
<1>7. x \in Nat /\ y \in Nat /\ y <= x
  BY <1>4, <1>5, <1>6
<1> QED BY <1>6, <1>7

(* CombatService.cs:536: however many shoot each other, settle, respawn and  *)
(* loot at the same moment, no set of requests wait only for one another:    *)
(* who holds a character waits only for a greater one, and who holds a crate *)
(* waits for nothing.                                                        *)
THEOREM NoDeadlock == Spec => []NeverStuck
<1>1. Inv => NeverStuck
  BY NobodyStuck
<1> QED BY <1>1, InvHolds, PTL

================================================================================
