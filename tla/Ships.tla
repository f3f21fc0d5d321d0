--------------------------------- MODULE Ships ---------------------------------
(****************************************************************************)
(* One character's ships, as the backend records them                        *)
(* (services/SpaceMMO.Data/Ships/ShipService.cs, Docking, Whereabouts) and   *)
(* as they stand in the game server's world (SpaceMMOPlayerController.cpp,   *)
(* SpaceMMODockingComponent.cpp).  The game server moves pawns first and     *)
(* tells the backend afterwards, without waiting for its answer; the player's *)
(* own client summons, and nudges the game server to ask what came of it.    *)
(*                                                                           *)
(* Nothing orders the requests, nothing sends a lost one again, and no       *)
(* handler locks what it reads: requests overtake one another, are lost,     *)
(* and are handled on rows that others change before they save.              *)
(****************************************************************************)
EXTENDS Naturals, FiniteSets, Sequences, SequencesExt

CONSTANTS Hulls,
          Stations,
          Fields,         \* other places
          Ground,         \* places one can stand on
          Shipyards,      \* stations a ship can be brought to
          Walks,          \* pairs of places a walk apart
          Home,           \* where the character is at the start
          Berth,          \* the station each hull is kept at then
          Flown,          \* the hulls it may be flying then, NoHull for none
          Beside,         \* the hulls that may stand there then, NoHull for none
          Nowhere,
          NoHull,
          Kept,           \* a column that a save leaves alone
          MaxSent,        \* bound on the requests on their way
          MaxBusy,        \* bound on the handlers at work at once
          MaxTold,        \* bound on the nudges, and on the questions they raise at once
          MaxParked,      \* bound on the pawns nobody is in
          MaxActs         \* bound on what the player does, its sign-outs and shutdowns

Places == Stations \cup Fields

ASSUME ShipsAssumption ==
    /\ Ground \subseteq Places /\ Shipyards \subseteq Stations
    /\ Walks \subseteq Ground \X Ground /\ Home \in Ground \cap Stations
    /\ Nowhere \notin Places /\ NoHull \notin Hulls
    /\ Berth \in [Hulls -> Stations]
    /\ Flown \subseteq Hulls \cup {NoHull} /\ Beside \subseteq Hulls \cup {NoHull}
    /\ Kept \notin Places \cup Hulls \cup {Nowhere, NoHull} /\ Kept \notin BOOLEAN
    /\ {MaxSent, MaxBusy, MaxTold, MaxParked, MaxActs} \subseteq Nat

VARIABLES
    docked, active, aboard, seen,   \* the character's row
    hangar, deployed,               \* the hulls' rows
    pilot, held, reported,          \* the pawn possessed, and what its controller remembers
    parked,                         \* pawns of hulls that nobody is in
    sent, nudges, answers,          \* requests, summons to look into, active ships told
    looking, saving,                \* handlers that have read the character's row, or all they read
    acts                            \* how often players did something, as MaxActs bounds it

characterVars == <<docked, active, aboard, seen>>
recordVars == <<characterVars, hangar, deployed>>
worldVars == <<pilot, held, reported, parked>>
handlerVars == <<looking, saving>>
vars == <<recordVars, worldVars, sent, nudges, answers, handlerVars, acts>>

SomeStation == Stations \cup {Nowhere}
SomePlace == Places \cup {Nowhere}
SomeHull == Hulls \cup {NoHull}

(* A pawn's docking component remembers a station of its own.                *)
Away == [in |-> "away", hull |-> NoHull, at |-> Nowhere, dock |-> Nowhere]
Pawnless == [Away EXCEPT !.in = "none"]
OnFoot(p, s) == [in |-> "foot", hull |-> NoHull, at |-> p, dock |-> s]
Flying(h, p, s) == [in |-> "ship", hull |-> h, at |-> p, dock |-> s]
Pawn(h, p, s) == [hull |-> h, at |-> p, dock |-> s]

Request(op, h, p, flag) == [op |-> op, hull |-> h, at |-> p, flag |-> flag]
Ops == {"dock", "undock", "board", "disembark", "stow", "where", "seen", "active", "summon"}
Requests == [op: Ops, hull: SomeHull, at: SomePlace, flag: BOOLEAN]

(* What a handler will save: the columns it assigned another value than it    *)
(* read, of the character's row and of one hull's; EF writes no others.      *)
Nothing ==
    [docked |-> Kept, active |-> Kept, aboard |-> Kept, at |-> Kept, flying |-> Kept,
     hangar |-> Kept, deployed |-> Kept]
Changes ==
    [docked: SomeStation \cup {Kept}, active: SomeHull \cup {Kept},
     aboard: SomeHull \cup {Kept}, at: Places \cup {Kept}, flying: BOOLEAN \cup {Kept},
     hangar: Stations \cup {Kept}, deployed: SomePlace \cup {Kept}]
Assigned(new, read) == IF new = read THEN Kept ELSE new
Saved(change, now) == IF change = Kept THEN now ELSE change

TypeOK ==
    /\ docked \in SomeStation /\ active \in SomeHull /\ aboard \in SomeHull
    /\ seen \in [at: Places, flying: BOOLEAN]
    /\ hangar \in [Hulls -> Stations] /\ deployed \in [Hulls -> SomePlace]
    /\ pilot \in {Away, Pawnless} \cup {OnFoot(p, s) : p \in Places, s \in SomeStation}
                 \cup {Flying(h, p, s) : h \in SomeHull, p \in Places, s \in SomeStation}
    /\ held \in SomeStation /\ reported \in SomeHull
    /\ parked \in Seq([hull: Hulls, at: Places, dock: SomeStation])
    /\ sent \subseteq Requests /\ nudges \in Nat
    /\ answers \subseteq ([hull: SomeHull, station: SomeStation, aboard: BOOLEAN,
                        deployed: SomePlace, summoned: BOOLEAN])
    /\ looking \subseteq ([req: Requests, docked: SomeStation, active: SomeHull, aboard: SomeHull])
    /\ saving \subseteq ([req: Requests, change: Changes])
    /\ acts \in 0 .. MaxActs

(* Just signed in, on foot and docked, or in flight in one of the hulls, with *)
(* no ship there or one that was left standing.                              *)
Init ==
    \E flown \in Flown, beside \in Beside :
        /\ beside # NoHull => beside # flown
        /\ active = (IF flown = NoHull THEN beside ELSE flown) /\ aboard = flown
        /\ seen = [at |-> Home, flying |-> flown # NoHull]
        /\ docked = IF flown = NoHull THEN Home ELSE Nowhere
        /\ pilot = IF flown = NoHull THEN OnFoot(Home, Home) ELSE Flying(NoHull, Home, Nowhere)
        /\ held = docked /\ reported = NoHull
        /\ hangar = Berth
        /\ deployed = [h \in Hulls |-> IF h \in {flown, beside} THEN Home ELSE Nowhere]
        /\ parked = IF beside = NoHull THEN <<>> ELSE <<Pawn(beside, Home, Nowhere)>>
        /\ sent = {Request("active", NoHull, Nowhere, FALSE)} /\ nudges = 0 /\ answers = {}
        /\ looking = {} /\ saving = {} /\ acts = 0

Online == pilot # Away
OutOfRange == pilot.dock \notin {Nowhere, pilot.at}

--------------------------------------------------------------------------------
(* The backend takes up a request, in any order, or it is lost, which a      *)
(* failure before its save comes to as well.                                 *)

TakeUp(r) ==
    /\ Cardinality(looking) + Cardinality(saving) < MaxBusy
    /\ sent' = sent \ {r}
    /\ UNCHANGED <<recordVars, worldVars, nudges>>

(* Of a request that changes nothing no more is heard.                       *)
WillSave(r, change) ==
    /\ TakeUp(r)
    /\ saving' = saving \cup (IF change = Nothing THEN {} ELSE {[req |-> r, change |-> change]})
    /\ UNCHANGED <<looking, answers>>

Dock(r) ==
    /\ r.op = "dock"
    /\ WillSave(r, [Nothing EXCEPT !.docked = Assigned(r.at, docked)])

Undock(r) ==
    /\ r.op = "undock"
    /\ WillSave(r, [Nothing EXCEPT !.docked = Assigned(Nowhere, docked)])

Board(r) ==
    /\ r.op = "board"
    /\ WillSave(r, [Nothing EXCEPT !.aboard = Assigned(r.hull, aboard),
                                   !.active = Assigned(r.hull, active)])

Disembark(r) ==
    /\ r.op = "disembark"
    /\ WillSave(r, [Nothing EXCEPT !.aboard = Assigned(NoHull, aboard)])

RecordShipWhereabouts(r) ==
    /\ r.op = "where"
    /\ WillSave(r, [Nothing EXCEPT !.deployed = Assigned(r.at, deployed[r.hull])])

RecordSeen(r) ==
    /\ r.op = "seen"
    /\ WillSave(r, [Nothing EXCEPT !.at = Assigned(r.at, seen.at),
                                   !.flying = Assigned(r.flag, seen.flying)])

NoShip(summoned) ==
    [hull |-> NoHull, station |-> Nowhere, aboard |-> FALSE, deployed |-> Nowhere,
     summoned |-> summoned]

(* Three handlers read the character's row and then a hull's.                *)
LookAtCharacter(r) ==
    /\ r.op \in {"summon", "stow", "active"}
    /\ TakeUp(r)
    /\ \/ /\ r.op = "summon" => docked # Nowhere
          /\ r.op = "active" => active # NoHull
          /\ looking' = looking \cup {[req |-> r, docked |-> docked,
                                         active |-> active, aboard |-> aboard]}
          /\ UNCHANGED answers
       \/ /\ r.op = "summon" /\ docked = Nowhere
          /\ UNCHANGED <<looking, answers>>
       \/ /\ r.op = "active" /\ active = NoHull
          /\ answers' = answers \cup {NoShip(r.flag)}
          /\ UNCHANGED looking
    /\ UNCHANGED saving

Looked(l, change) ==
    /\ looking' = looking \ {l}
    /\ saving' = saving \cup {[req |-> l.req, change |-> change]}
    /\ UNCHANGED <<recordVars, worldVars, sent, nudges, answers>>

Stow(l) ==
    LET r == l.req IN
    /\ r.op = "stow"
    /\ Looked(l, [Nothing EXCEPT !.hangar = Assigned(r.at, hangar[r.hull]),
                                 !.deployed = Assigned(Nowhere, deployed[r.hull]),
                                 !.aboard = IF l.aboard = r.hull THEN NoHull ELSE Kept])

(* Fault: a hull that is nowhere is at the origin.                           *)
AtTheOrigin(h) == "origin"

Recalled(h) == Nowhere

Summon(l) ==
    LET h == l.req.hull
        s == l.docked
    IN  /\ l.req.op = "summon"
        /\ hangar[h] = s \/ deployed[h] # Nowhere \/ s \in Shipyards
        /\ Looked(l, [Nothing EXCEPT !.hangar = Assigned(s, hangar[h]),
                                     !.deployed = Assigned(Recalled(h), deployed[h]),
                                     !.active = Assigned(h, l.active)])

RefuseSummon(l) ==
    LET h == l.req.hull
        s == l.docked
    IN  /\ l.req.op = "summon"
        /\ hangar[h] # s /\ deployed[h] = Nowhere /\ s \notin Shipyards
        /\ looking' = looking \ {l}
        /\ UNCHANGED <<recordVars, worldVars, sent, nudges, answers, saving>>

ActiveShip(h, aboardIt, summoned) ==
    [hull |-> h, station |-> hangar[h], aboard |-> aboardIt, deployed |-> deployed[h],
     summoned |-> summoned]

TellActiveShip(l) ==
    /\ l.req.op = "active"
    /\ answers' = answers \cup {ActiveShip(l.active, l.aboard = l.active, l.req.flag)}
    /\ looking' = looking \ {l}
    /\ UNCHANGED <<recordVars, worldVars, sent, nudges, saving>>

(* The client that summoned and hears so nudges the game server.             *)
Save(w) ==
    LET r == w.req
        c == w.change
    IN  /\ docked' = Saved(c.docked, docked)
        /\ active' = Saved(c.active, active)
        /\ aboard' = Saved(c.aboard, aboard)
        /\ seen' = [at |-> Saved(c.at, seen.at), flying |-> Saved(c.flying, seen.flying)]
        /\ hangar' = [h \in Hulls |-> IF h = r.hull THEN Saved(c.hangar, hangar[h]) ELSE hangar[h]]
        /\ deployed' = [h \in Hulls |->
                            IF h = r.hull THEN Saved(c.deployed, deployed[h]) ELSE deployed[h]]
        /\ saving' = saving \ {w}
        /\ \/ r.op = "summon" /\ r.flag /\ nudges < MaxTold /\ nudges' = nudges + 1
           \/ UNCHANGED nudges
        /\ UNCHANGED <<worldVars, sent, answers, looking>>

Handled(r) ==
    \/ Dock(r) \/ Undock(r) \/ Board(r) \/ Disembark(r)
    \/ RecordShipWhereabouts(r) \/ RecordSeen(r) \/ LookAtCharacter(r)

Carried(l) == Stow(l) \/ Summon(l) \/ RefuseSummon(l) \/ TellActiveShip(l)

Backend ==
    \/ \E r \in sent : Handled(r)
    \/ \E l \in looking : Carried(l)
    \/ \E w \in saving : Save(w)

--------------------------------------------------------------------------------
(* What is sent gets onto the wire or is lost.                               *)
Tell(rs, lost) == sent' = sent \cup (rs \ lost)

Say(rs) ==
    /\ Cardinality(sent \cup rs) <= MaxSent
    /\ \E lost \in SUBSET rs : Tell(rs, lost)
    /\ UNCHANGED <<nudges, answers, handlerVars>>

(* The player's client.  What its Ships tab refuses goes by a list that may   *)
(* be old.                                                                   *)

SummonShip(h) ==
    /\ Online
    /\ Say({Request("summon", h, Nowhere, TRUE)})
    /\ UNCHANGED <<recordVars, worldVars>>

--------------------------------------------------------------------------------
(* The game server.                                                          *)

(* The questions about the active ship that are out.                         *)
Asked ==
    Cardinality({r \in sent \cup {l.req : l \in looking} : r.op = "active"}) + Cardinality(answers)

ShipSummoned ==
    /\ nudges > 0 /\ Asked < MaxTold /\ Cardinality(sent) < MaxSent
    /\ nudges' = nudges - 1
    /\ \/ Tell({Request("active", NoHull, Nowhere, TRUE)}, {})
       \/ UNCHANGED sent
    /\ UNCHANGED <<recordVars, worldVars, answers, handlerVars>>

DecideShipPlacement(a) ==
    IF a.hull = NoHull THEN "nothing"
    ELSE IF a.aboard THEN "adopt"
    ELSE IF a.summoned THEN "beside"
    ELSE IF a.deployed # Nowhere THEN "recorded" ELSE "nothing"

Standing(h) == {k \in DOMAIN parked : parked[k].hull = h}

WordOfIt(h, p) == {Request("where", h, p, FALSE)}

(* A pawn restored in flight learns which hull it is; nothing looks whether   *)
(* another of that hull stands somewhere.                                    *)
AdoptFlyingPawn(a) ==
    /\ IF pilot.in = "ship" /\ pilot.hull = NoHull
       THEN pilot' = [pilot EXCEPT !.hull = a.hull] /\ reported' = a.hull
       ELSE UNCHANGED <<pilot, reported>>
    /\ UNCHANGED <<parked, sent>>

(* Fault: a hull that somebody flies is not looked for.                      *)
RecallParked(h, left) ==
    \/ Standing(h) = {} /\ left = parked /\ UNCHANGED pilot
    \/ (\E k \in Standing(h) : left = RemoveAt(parked, k)) /\ UNCHANGED pilot

(* A summons recalls a pawn of the hull, wherever it is and whoever is in it, *)
(* before it looks for the ground to stand a new one on.                     *)
Recall(h, left) ==
    \/ Standing(h) = {} /\ pilot.hull # h /\ left = parked /\ UNCHANGED pilot
    \/ (\E k \in Standing(h) : left = RemoveAt(parked, k)) /\ UNCHANGED pilot
    \/ pilot.hull = h /\ left = parked /\ pilot' = Pawnless

StandBesideStation(a) ==
    \E left \in {parked} \cup {RemoveAt(parked, k) : k \in Standing(a.hull)} :
        /\ Recall(a.hull, left)
        /\ parked' = IF a.station \in Ground
                     THEN Append(left, Pawn(a.hull, a.station, Nowhere)) ELSE left
        /\ LET word == IF a.station \in Ground THEN WordOfIt(a.hull, a.station) ELSE {}
           IN  \E lost \in SUBSET word : Tell(word, lost)
        /\ UNCHANGED reported

StandAsRecorded(a) ==
    /\ IF Standing(a.hull) # {} \/ pilot.hull = a.hull
       THEN UNCHANGED <<parked, sent>>
       ELSE /\ parked' = Append(parked, Pawn(a.hull, a.deployed, Nowhere))
            /\ \E lost \in SUBSET WordOfIt(a.hull, a.deployed) :
                   Tell(WordOfIt(a.hull, a.deployed), lost)
    /\ UNCHANGED <<pilot, reported>>

PlaceSummonedShip(a) ==
    /\ Cardinality(sent) < MaxSent /\ Len(parked) < MaxParked
    /\    CASE DecideShipPlacement(a) = "adopt" -> AdoptFlyingPawn(a)
            [] DecideShipPlacement(a) = "beside" -> StandBesideStation(a)
            [] DecideShipPlacement(a) = "recorded" -> StandAsRecorded(a)
            [] OTHER -> UNCHANGED <<pilot, reported, parked, sent>>
    /\ answers' = answers \ {a}
    /\ UNCHANGED <<recordVars, held, nudges, handlerVars>>

(* ReportBoarding, on every possession.                                      *)
Boarding(h) ==
    IF h = reported THEN {}
    ELSE IF h = NoHull THEN {Request("disembark", NoHull, Nowhere, FALSE)}
    ELSE {Request("board", h, Nowhere, FALSE)}

(* The station the controller holds is handed to a pawn's docking component.  *)
DockOf(own) == IF held # Nowhere THEN held ELSE own

Embark(k) ==
    /\ pilot.in = "foot" /\ ~OutOfRange
    /\ parked[k].at = pilot.at
    /\ pilot' = Flying(parked[k].hull, pilot.at, DockOf(parked[k].dock))
    /\ parked' = RemoveAt(parked, k)
    /\ reported' = parked[k].hull
    /\ Say(Boarding(parked[k].hull))
    /\ UNCHANGED <<recordVars, held>>

(* A ship that is not known to be anybody's is left out of the model once    *)
(* nobody is in it.                                                          *)
StepOut ==
    /\ pilot.in = "ship" /\ pilot.at \in Ground /\ ~OutOfRange
    /\ Len(parked) < MaxParked
    /\ pilot' = OnFoot(pilot.at, DockOf(Nowhere))
    /\ parked' = IF pilot.hull = NoHull THEN parked
                 ELSE Append(parked, Pawn(pilot.hull, pilot.at, pilot.dock))
    /\ reported' = NoHull
    /\ Say(Boarding(NoHull))
    /\ UNCHANGED <<recordVars, held>>

Move(p) ==
    /\ p # pilot.at /\ ~OutOfRange
    /\ pilot.in = "ship" \/ (pilot.in = "foot" /\ <<pilot.at, p>> \in Walks)
    /\ pilot' = [pilot EXCEPT !.at = p]
    /\ UNCHANGED <<recordVars, held, reported, parked, sent, nudges, answers, handlerVars>>

(* The dock key, undocked: on foot, or in a ship that stays alongside.       *)
DockHere ==
    /\ pilot.in \in {"foot", "ship"}
    /\ pilot.dock = Nowhere /\ pilot.at \in Stations
    /\ pilot.in = "ship" => pilot.at \notin Ground
    /\ pilot' = [pilot EXCEPT !.dock = pilot.at]
    /\ Say({Request("dock", NoHull, pilot.at, FALSE)})
    /\ UNCHANGED <<recordVars, held, reported, parked>>

StowAsServer(h, s) == IF h = NoHull THEN {} ELSE {Request("stow", h, s, FALSE)}

DockShip ==
    /\ pilot.in = "ship" /\ pilot.dock = Nowhere
    /\ pilot.at \in Stations \cap Ground
    /\ pilot' = OnFoot(pilot.at, pilot.at)
    /\ held' = pilot.at
    /\ reported' = NoHull
    /\ Say({Request("dock", NoHull, pilot.at, FALSE)} \cup Boarding(NoHull)
              \cup StowAsServer(pilot.hull, pilot.at))
    /\ UNCHANGED <<recordVars, parked>>

(* The dock key, docked, or the range check of a pawn that has left.         *)
LeaveDock ==
    /\ pilot.dock # Nowhere
    /\ pilot' = [pilot EXCEPT !.dock = Nowhere]
    /\ held' = Nowhere
    /\ Say({Request("undock", NoHull, Nowhere, FALSE)})
    /\ UNCHANGED <<recordVars, reported, parked>>

(* Fault: only the character is reported (before task 155).                  *)
OnlyTheCharacter(p) ==
    IF p.in \in {"foot", "ship"} THEN {Request("seen", NoHull, p.at, p.in = "ship")} ELSE {}

WhereaboutsOf(p) ==
    CASE p.in = "foot" -> {Request("seen", NoHull, p.at, FALSE)}
      [] p.in = "ship" -> {Request("seen", NoHull, p.at, TRUE)}
                            \cup (IF p.hull = NoHull THEN {} ELSE WordOfIt(p.hull, p.at))
      [] OTHER -> {}

RecordWhereabouts(lost) ==
    /\ pilot.in \in {"foot", "ship"}
    /\ Tell(WhereaboutsOf(pilot), lost)
    /\ UNCHANGED <<recordVars, worldVars, nudges, answers, handlerVars>>

--------------------------------------------------------------------------------
(* Sessions.  An answer to a controller that is gone is dropped.             *)

(* What was sent, without the questions about the active ship, and with no    *)
(* client to hear that a summons was granted.                                *)
Unheard(r) == [r EXCEPT !.flag = IF r.op = "summon" THEN FALSE ELSE @]
Unasked(s) == {Unheard(r) : r \in {q \in s : q.op # "active"}}

EndSession(lastWords) ==
    /\ pilot' = Away /\ held' = Nowhere /\ reported' = NoHull
    /\ nudges' = 0 /\ answers' = {}
    /\ \E lost \in SUBSET lastWords : sent' = Unasked(sent) \cup (lastWords \ lost)
    /\ Cardinality(sent') <= MaxSent
    /\ looking' = {[l EXCEPT !.req = Unheard(@)] : l \in {k \in looking : k.req.op # "active"}}
    /\ saving' = {[w EXCEPT !.req = Unheard(@)] : w \in saving}
    /\ UNCHANGED recordVars

SignOut == Online /\ EndSession(WhereaboutsOf(pilot)) /\ UNCHANGED parked

(* The game server's process ends; its last words may be lost.                *)
ShutDown == EndSession(WhereaboutsOf(pilot)) /\ parked' = <<>>

(* Who was flying comes back in a ship, of a hull nobody has told it yet.    *)
SignIn ==
    /\ ~Online
    /\ pilot' = IF seen.flying THEN Flying(NoHull, seen.at, docked) ELSE OnFoot(seen.at, docked)
    /\ held' = docked
    /\ Say({Request("active", NoHull, Nowhere, FALSE)})
    /\ UNCHANGED <<recordVars, reported, parked>>

PlayerActs ==
    /\ acts < MaxActs /\ acts' = acts + 1
    /\ \/ \E h \in Hulls : SummonShip(h)
       \/ \E k \in DOMAIN parked : Embark(k)
       \/ StepOut \/ DockHere \/ DockShip \/ LeaveDock
       \/ \E p \in Places : Move(p)
       \/ SignOut \/ ShutDown

Next ==
    \/ PlayerActs
    \/ /\ Backend \/ ShipSummoned \/ SignIn
          \/ \E lost \in SUBSET WhereaboutsOf(pilot) : RecordWhereabouts(lost)
          \/ \E a \in answers : PlaceSummonedShip(a)
       /\ UNCHANGED acts

Spec == Init /\ [][Next]_vars

(* What is fair: a handler that has begun goes on; the timer's reports arrive *)
(* and are handled again and again, however many are lost, while they tell    *)
(* what is so.                                                               *)
Truths == sent \cap WhereaboutsOf(pilot)

FairSpec ==
    /\ Spec
    /\ WF_vars(((\E l \in looking : Carried(l)) \/ (\E w \in saving : Save(w))) /\ UNCHANGED acts)
    /\ SF_vars(RecordWhereabouts({}) /\ UNCHANGED acts)
    /\ SF_vars((\E r \in Truths : RecordSeen(r)) /\ UNCHANGED acts)
    /\ SF_vars((\E r \in Truths : RecordShipWhereabouts(r)) /\ UNCHANGED acts)

(* Whatever was lost, came late or out of turn, or ended in between: where    *)
(* whoever stays signed in and stays put was last seen becomes where it is,   *)
(* for good, and the hull it is known to fly is recorded there again and      *)
(* again, as often as summonses of that hull take it off the record.         *)
WhereaboutsCatchUp ==
    <>[][FALSE]_<<pilot.in, pilot.hull, pilot.at>> =>
        /\ <>[](pilot.in \in {"foot", "ship"} =>
                    seen = [at |-> pilot.at, flying |-> pilot.in = "ship"])
        /\ []<>(pilot.hull # NoHull => deployed[pilot.hull] = pilot.at)

Copies(h) == Cardinality(Standing(h)) + (IF pilot.hull = h THEN 1 ELSE 0)

(* A ship restored in flight is taken for h.                                 *)
TakenFor(h) == pilot.in = "ship" /\ pilot.hull = NoHull /\ pilot'.hull = h

(* No step brings a second ship of one hull into the world: not two summonses *)
(* handled together, not an answer that is older than a boarding, a parting or *)
(* a shutdown, not a request that was lost.  The exception is a ship restored *)
(* in flight, which PlaceSummonedShip takes for the hull that the answer says *)
(* is flown without looking for another.                                     *)
NoSecondShip ==
    [][\A h \in Hulls : Copies(h)' <= 1 \/ Copies(h)' <= Copies(h) \/ TakenFor(h)]_vars

================================================================================
