------------------------------ MODULE ShipsProofs ------------------------------
(* What is proved of Ships, for any hulls, stations, places and walks and any  *)
(* bounds: its types; and that nothing but a restored ship taken for a hull   *)
(* that stands elsewhere makes a second ship of one hull.                    *)
EXTENDS Ships, FiniteSetTheorems, SequenceTheorems, TLAPS

--------------------------------------------------------------------------------
(* Requests and what is kept of them.                                        *)

(* What a request asks to be kept in a row.                                  *)
WellFormed(m) ==
    /\ m.op \in {"dock", "stow"} => m.at \in Stations
    /\ m.op = "seen" => m.at \in Places
Messages == {m \in Requests : WellFormed(m)}

(* Who is docked nowhere is refused a summons at once; who has no active ship *)
(* is told so at once.                                                       *)
Looks ==
    {l \in [req: Messages, docked: SomeStation, active: SomeHull, aboard: SomeHull] :
        /\ l.req.op = "summon" => l.docked # Nowhere
        /\ l.req.op = "active" => l.active # NoHull}
Saves == [req: Messages, change: Changes]
Reply == [hull: SomeHull, station: SomeStation, aboard: BOOLEAN, deployed: SomePlace,
          summoned: BOOLEAN]

Pilots == {Away, Pawnless} \cup {OnFoot(p, s) : p \in Places, s \in SomeStation}
          \cup {Flying(h, p, s) : h \in SomeHull, p \in Places, s \in SomeStation}
Pawns == [hull: Hulls, at: Places, dock: SomeStation]

RecordOK ==
    /\ docked \in SomeStation /\ active \in SomeHull /\ aboard \in SomeHull
    /\ seen \in [at: Places, flying: BOOLEAN]
    /\ hangar \in [Hulls -> Stations] /\ deployed \in [Hulls -> SomePlace]
WorldOK == /\ pilot \in Pilots /\ held \in SomeStation /\ reported \in SomeHull
           /\ parked \in Seq(Pawns)
WireOK == sent \subseteq Messages /\ nudges \in Nat /\ answers \subseteq Reply
HandlersOK == looking \subseteq Looks /\ saving \subseteq Saves

(* The inductive invariant of the types.                                     *)
Typed == RecordOK /\ WorldOK /\ WireOK /\ HandlersOK /\ acts \in 0 .. MaxActs

LEMMA TypedMeansTypeOK == Typed => TypeOK
<1> SUFFICES ASSUME Typed PROVE TypeOK
  OBVIOUS
<1>1. sent \subseteq Requests
  BY DEF Typed, WireOK, Messages
<1>2. looking \subseteq [req: Requests, docked: SomeStation, active: SomeHull, aboard: SomeHull]
  BY DEF Typed, HandlersOK, Looks, Messages
<1>3. saving \subseteq [req: Requests, change: Changes]
  BY DEF Typed, HandlersOK, Saves, Messages
<1> QED
  BY <1>1, <1>2, <1>3 DEF Typed, RecordOK, WorldOK, WireOK, TypeOK, Pilots, Pawns, Reply

--------------------------------------------------------------------------------
(* Sequences with an element added or removed.                               *)

(* The elements of two sequences, one after the other.                       *)
LEMMA Joined ==
    ASSUME NEW S, NEW s \in Seq(S), NEW t \in Seq(S)
    PROVE  /\ s \o t \in Seq(S) /\ Len(s \o t) = Len(s) + Len(t)
           /\ \A i \in 1 .. Len(s) + Len(t) :
                  (s \o t)[i] = IF i <= Len(s) THEN s[i] ELSE t[i - Len(s)]
OBVIOUS

(* Removing an element moves those behind it up.                             *)
LEMMA Removed ==
    ASSUME NEW S, NEW s \in Seq(S), NEW i \in DOMAIN s
    PROVE  /\ RemoveAt(s, i) \in Seq(S) /\ Len(RemoveAt(s, i)) = Len(s) - 1
           /\ \A j \in 1 .. Len(s) - 1 :
                  RemoveAt(s, i)[j] = IF j < i THEN s[j] ELSE s[j + 1]
<1> DEFINE a == SubSeq(s, 1, i - 1)
           b == SubSeq(s, i + 1, Len(s))
<1>1. i \in 1 .. Len(s) /\ Len(s) \in Nat
  OBVIOUS
<1>2. a \in Seq(S) /\ Len(a) = i - 1 /\ \A j \in 1 .. Len(a) : a[j] = s[j]
  BY <1>1
<1>3. b \in Seq(S) /\ Len(b) = Len(s) - i /\ \A j \in 1 .. Len(b) : b[j] = s[i + j]
  BY <1>1
<1> HIDE DEF a, b
<1>4. /\ a \o b \in Seq(S) /\ Len(a \o b) = Len(a) + Len(b)
      /\ \A j \in 1 .. Len(a) + Len(b) :
             (a \o b)[j] = IF j <= Len(a) THEN a[j] ELSE b[j - Len(a)]
  <2>1. a \in Seq(S) /\ b \in Seq(S)
    BY <1>2, <1>3
  <2> QED BY <2>1, Joined, Zenon
<1>5. Len(a) + Len(b) = Len(s) - 1
  BY <1>1, <1>2, <1>3
<1>6. ASSUME NEW j \in 1 .. Len(s) - 1
      PROVE  (a \o b)[j] = IF j < i THEN s[j] ELSE s[j + 1]
  <2>1. CASE j < i
    BY <1>1, <1>2, <1>4, <1>5, <2>1
  <2>2. CASE ~(j < i)
    <3>1. j \in 1 .. Len(a) + Len(b) /\ ~(j <= Len(a)) /\ Len(a) = i - 1
      BY <1>1, <1>2, <1>5, <2>2
    <3>2. (a \o b)[j] = b[j - Len(a)]
      <4>1. (a \o b)[j] = IF j <= Len(a) THEN a[j] ELSE b[j - Len(a)]
        BY <1>4, <3>1, Zenon
      <4>2. ~(j <= Len(a))
        BY <3>1
      <4> QED BY <4>1, <4>2
    <3>3. j - Len(a) \in 1 .. Len(b) /\ i + (j - Len(a)) = j + 1
      <4>1. Len(a) = i - 1 /\ Len(b) = Len(s) - i /\ Len(s) \in Nat /\ i \in Nat
        BY <1>1, <1>2, <1>3
      <4>2. j \in Nat /\ i <= j /\ j <= Len(s) - 1
        BY <1>1, <2>2
      <4> QED BY <4>1, <4>2
    <3>4. b[j - Len(a)] = s[j + 1]
      <4>1. b[j - Len(a)] = s[i + (j - Len(a))]
        BY <1>3, <3>3, Zenon
      <4> QED BY <3>3, <4>1
    <3> QED BY <2>2, <3>2, <3>4
  <2> QED BY <2>1, <2>2
<1> QED
  BY <1>4, <1>5, <1>6 DEF RemoveAt, a, b

(* The pawns of a hull among those of s.                                     *)
Among(s, h) == {k \in DOMAIN s : s[k].hull = h}

LEMMA AmongFinite ==
    ASSUME NEW S, NEW s \in Seq(S), NEW h
    PROVE  IsFiniteSet(Among(s, h)) /\ Cardinality(Among(s, h)) \in Nat
<1>1. Among(s, h) \subseteq 1 .. Len(s) /\ Len(s) \in Nat
  BY DEF Among
<1>2. IsFiniteSet(1 .. Len(s))
  BY <1>1, FS_Interval
<1>3. IsFiniteSet(Among(s, h))
  BY <1>1, <1>2, FS_Subset
<1> QED
  BY <1>3, FS_CardinalityType

LEMMA AmongAppended ==
    ASSUME NEW S, NEW s \in Seq(S), NEW e \in S, NEW h
    PROVE  Cardinality(Among(Append(s, e), h))
               = Cardinality(Among(s, h)) + (IF e.hull = h THEN 1 ELSE 0)
<1>1. Len(s) + 1 \notin Among(s, h)
  BY DEF Among
<1>2. Among(Append(s, e), h) = IF e.hull = h THEN Among(s, h) \cup {Len(s) + 1} ELSE Among(s, h)
  BY DEF Among
<1>3. IsFiniteSet(Among(s, h)) /\ Cardinality(Among(s, h)) \in Nat
  BY AmongFinite
<1>4. Cardinality(Among(s, h) \cup {Len(s) + 1}) = Cardinality(Among(s, h)) + 1
  BY <1>1, <1>3, FS_AddElement
<1> QED
  BY <1>2, <1>3, <1>4

LEMMA AmongRemoved ==
    ASSUME NEW S, NEW s \in Seq(S), NEW i \in DOMAIN s, NEW h
    PROVE  Cardinality(Among(RemoveAt(s, i), h))
               = Cardinality(Among(s, h)) - (IF s[i].hull = h THEN 1 ELSE 0)
<1> DEFINE t == RemoveAt(s, i)
           rest == Among(s, h) \ {i}
           f == [k \in rest |-> IF k < i THEN k ELSE k - 1]
<1>1. /\ t \in Seq(S) /\ Len(t) = Len(s) - 1
      /\ \A j \in 1 .. Len(s) - 1 : t[j] = IF j < i THEN s[j] ELSE s[j + 1]
  BY Removed
<1>2. i \in 1 .. Len(s) /\ Len(s) \in Nat /\ DOMAIN s = 1 .. Len(s) /\ DOMAIN t = 1 .. Len(s) - 1
  BY <1>1
<1>3. rest \subseteq 1 .. Len(s) /\ i \notin rest
  BY <1>2 DEF Among
<1> HIDE DEF t
<1>4. f \in [rest -> Among(t, h)]
  <2>1. ASSUME NEW k \in rest PROVE f[k] \in Among(t, h)
    <3>1. k \in 1 .. Len(s) /\ k # i /\ s[k].hull = h
      BY <1>2 DEF Among
    <3>2. f[k] \in 1 .. Len(s) - 1 /\ t[f[k]] = s[k]
      BY <1>1, <1>2, <3>1
    <3> QED BY <1>2, <3>1, <3>2 DEF Among
  <2> QED BY <2>1
<1>5. \A x, y \in rest : f[x] = f[y] => x = y
  BY <1>2, <1>3
<1>6. ASSUME NEW j \in Among(t, h) PROVE \E k \in rest : f[k] = j
  <2>1. j \in 1 .. Len(s) - 1 /\ t[j].hull = h
    BY <1>2, <1>6 DEF Among
  <2>2. CASE j < i
    <3>1. j \in rest
      BY <1>1, <1>2, <2>1, <2>2 DEF Among
    <3> QED BY <2>2, <3>1
  <2>3. CASE ~(j < i)
    <3>1. j + 1 \in rest /\ ~(j + 1 < i) /\ j + 1 - 1 = j
      BY <1>1, <1>2, <2>1, <2>3 DEF Among
    <3>2. f[j + 1] = j
      <4> HIDE DEF rest
      <4> QED BY <2>1, <3>1
    <3> QED BY <3>1, <3>2
  <2> QED BY <2>2, <2>3
<1>7. IsFiniteSet(Among(s, h)) /\ Cardinality(Among(s, h)) \in Nat
  BY AmongFinite
<1>8. IsFiniteSet(rest)
  BY <1>7, FS_Subset
<1>9. Cardinality(rest) = Cardinality(Among(t, h))
  <2>1. f \in Bijection(rest, Among(t, h))
    <3> HIDE DEF f, rest
    <3> QED BY <1>4, <1>5, <1>6 DEF Bijection, Injection, Surjection, IsInjective
  <2>2. ExistsBijection(rest, Among(t, h))
    BY <2>1 DEF ExistsBijection
  <2>3. IsFiniteSet(Among(t, h))
    BY <1>1, AmongFinite
  <2> QED BY <1>8, <2>2, <2>3, FS_Bijection
<1>10. Cardinality(rest) = Cardinality(Among(s, h)) - (IF i \in Among(s, h) THEN 1 ELSE 0)
  <2>1. Cardinality(rest) = IF i \in Among(s, h) THEN Cardinality(Among(s, h)) - 1
                            ELSE Cardinality(Among(s, h))
    BY <1>7, FS_RemoveElement, Zenon
  <2> HIDE DEF rest
  <2> QED BY <1>7, <2>1
<1>11. i \in Among(s, h) <=> s[i].hull = h
  BY DEF Among
<1> QED
  BY <1>9, <1>10, <1>11 DEF t

--------------------------------------------------------------------------------
(* The pawn possessed and what is told of it.                                *)

LEMMA PilotShape ==
    ASSUME NEW p \in Pilots
    PROVE  /\ p.in \in {"away", "none", "foot", "ship"}
           /\ p.hull \in SomeHull /\ p.dock \in SomeStation
           /\ p.in # "ship" => p.hull = NoHull
           /\ p.in \in {"foot", "ship"} => p.at \in Places
           /\ p.in = "away" <=> p = Away
           /\ p.in = "foot" => p = OnFoot(p.at, p.dock)
           /\ p.in = "ship" => p = Flying(p.hull, p.at, p.dock)
           /\ p.dock # Nowhere => p.in \in {"foot", "ship"}
BY DEF Pilots, Away, Pawnless, OnFoot, Flying, SomeHull, SomeStation

LEMMA PilotTyped ==
    ASSUME NEW p \in Places, NEW s \in SomeStation, NEW h \in SomeHull
    PROVE  OnFoot(p, s) \in Pilots /\ Flying(h, p, s) \in Pilots
BY DEF Pilots

LEMMA PilotChanged ==
    ASSUME NEW p \in Pilots, p.in \in {"foot", "ship"}
    PROVE  /\ \A a \in Places : [p EXCEPT !.at = a] \in Pilots
           /\ \A s \in SomeStation : [p EXCEPT !.dock = s] \in Pilots
           /\ p.in = "ship" => \A h \in SomeHull : [p EXCEPT !.hull = h] \in Pilots
<1>1. p.in = "foot" => p = OnFoot(p.at, p.dock)
  BY PilotShape
<1>2. p.in = "ship" => p = Flying(p.hull, p.at, p.dock)
  BY PilotShape
<1>3. p.hull \in SomeHull /\ p.dock \in SomeStation /\ p.at \in Places
  BY PilotShape
<1>4. CASE p.in = "foot"
  <2>1. \A a \in Places : [p EXCEPT !.at = a] = OnFoot(a, p.dock)
    BY <1>1, <1>4 DEF OnFoot
  <2>2. \A s \in SomeStation : [p EXCEPT !.dock = s] = OnFoot(p.at, s)
    BY <1>1, <1>4 DEF OnFoot
  <2> QED BY <1>3, <1>4, <2>1, <2>2, PilotTyped
<1>5. CASE p.in = "ship"
  <2>1. \A a \in Places : [p EXCEPT !.at = a] = Flying(p.hull, a, p.dock)
    BY <1>2, <1>5 DEF Flying
  <2>2. \A s \in SomeStation : [p EXCEPT !.dock = s] = Flying(p.hull, p.at, s)
    BY <1>2, <1>5 DEF Flying
  <2>3. \A h \in SomeHull : [p EXCEPT !.hull = h] = Flying(h, p.at, p.dock)
    BY <1>2, <1>5 DEF Flying
  <2> QED BY <1>3, <1>5, <2>1, <2>2, <2>3, PilotTyped
<1> QED
  BY <1>4, <1>5

LEMMA Apart == Nowhere \notin Stations /\ Nowhere \notin Places /\ NoHull \notin Hulls
BY ShipsAssumption DEF Places

LEMMA RequestTyped ==
    ASSUME NEW op \in Ops, NEW h \in SomeHull, NEW p \in SomePlace, NEW f \in BOOLEAN
    PROVE  Request(op, h, p, f) \in Requests
BY DEF Request, Requests

LEMMA Words ==
    /\ \A s \in Stations : Request("dock", NoHull, s, FALSE) \in Messages
    /\ Request("undock", NoHull, Nowhere, FALSE) \in Messages
    /\ Request("disembark", NoHull, Nowhere, FALSE) \in Messages
    /\ \A f \in BOOLEAN : Request("active", NoHull, Nowhere, f) \in Messages
    /\ \A h \in Hulls : Request("board", h, Nowhere, FALSE) \in Messages
    /\ \A h \in Hulls : Request("summon", h, Nowhere, TRUE) \in Messages
    /\ \A h \in Hulls, s \in Stations : Request("stow", h, s, FALSE) \in Messages
    /\ \A h \in Hulls, p \in Places : WordOfIt(h, p) \subseteq Messages
    /\ \A p \in Places, f \in BOOLEAN : Request("seen", NoHull, p, f) \in Messages
<1>1. /\ NoHull \in SomeHull /\ Hulls \subseteq SomeHull /\ Nowhere \in SomePlace
      /\ Places \subseteq SomePlace /\ Stations \subseteq SomePlace
  BY DEF SomeHull, SomePlace, Places
<1>2. ASSUME NEW op \in Ops, NEW h \in SomeHull, NEW p \in SomePlace, NEW f \in BOOLEAN,
             op \in {"dock", "stow"} => p \in Stations, op = "seen" => p \in Places
      PROVE  Request(op, h, p, f) \in Messages
  <2>1. Request(op, h, p, f) \in Requests
    BY RequestTyped
  <2>2. WellFormed(Request(op, h, p, f))
    BY <1>2 DEF Request, WellFormed
  <2> QED BY <2>1, <2>2 DEF Messages
<1>3. /\ \A s \in Stations : Request("dock", NoHull, s, FALSE) \in Messages
      /\ Request("undock", NoHull, Nowhere, FALSE) \in Messages
      /\ Request("disembark", NoHull, Nowhere, FALSE) \in Messages
      /\ \A f \in BOOLEAN : Request("active", NoHull, Nowhere, f) \in Messages
  BY <1>1, <1>2 DEF Ops
<1>4. /\ \A h \in Hulls : Request("board", h, Nowhere, FALSE) \in Messages
      /\ \A h \in Hulls : Request("summon", h, Nowhere, TRUE) \in Messages
      /\ \A h \in Hulls, s \in Stations : Request("stow", h, s, FALSE) \in Messages
  BY <1>1, <1>2 DEF Ops
<1>5. /\ \A h \in Hulls, p \in Places : WordOfIt(h, p) \subseteq Messages
      /\ \A p \in Places, f \in BOOLEAN : Request("seen", NoHull, p, f) \in Messages
  BY <1>1, <1>2 DEF WordOfIt, Ops
<1> QED
  BY <1>3, <1>4, <1>5

LEMMA BoardingTold ==
    ASSUME NEW h \in SomeHull
    PROVE  Boarding(h) \subseteq Messages
BY Words DEF Boarding, SomeHull

LEMMA StowingTold ==
    ASSUME NEW h \in SomeHull, NEW s \in Stations
    PROVE  StowAsServer(h, s) \subseteq Messages
BY Words DEF StowAsServer, SomeHull

LEMMA WhereaboutsTold ==
    ASSUME NEW p \in Pilots
    PROVE  WhereaboutsOf(p) \subseteq Messages
<1>1. p.in \in {"foot", "ship"} => p.at \in Places /\ p.hull \in SomeHull
  BY PilotShape
<1>2. CASE p.in = "foot"
  BY <1>1, <1>2, Words DEF WhereaboutsOf
<1>3. CASE p.in = "ship"
  <2>1. Request("seen", NoHull, p.at, TRUE) \in Messages
    BY <1>1, <1>3, Words
  <2>2. p.hull # NoHull => WordOfIt(p.hull, p.at) \subseteq Messages
    BY <1>1, <1>3, Words DEF SomeHull
  <2> QED BY <1>3, <2>1, <2>2 DEF WhereaboutsOf
<1>4. CASE p.in \notin {"foot", "ship"}
  BY <1>4 DEF WhereaboutsOf
<1> QED
  BY <1>2, <1>3, <1>4

LEMMA DockTyped ==
    ASSUME WorldOK, NEW own \in SomeStation
    PROVE  DockOf(own) \in SomeStation
BY DEF DockOf, WorldOK

LEMMA PawnTyped ==
    ASSUME NEW h \in Hulls, NEW p \in Places, NEW s \in SomeStation
    PROVE  Pawn(h, p, s) \in Pawns
BY DEF Pawn, Pawns

LEMMA SayTyped ==
    ASSUME WireOK, HandlersOK, NEW rs, rs \subseteq Messages, Say(rs)
    PROVE  WireOK' /\ HandlersOK'
BY DEF Say, Tell, WireOK, HandlersOK, handlerVars

LEMMA InitTyped == Init => Typed
<1> SUFFICES ASSUME Init PROVE Typed
  OBVIOUS
<1>1. PICK flown \in Flown, beside \in Beside :
          /\ beside # NoHull => beside # flown
          /\ active = (IF flown = NoHull THEN beside ELSE flown) /\ aboard = flown
          /\ seen = [at |-> Home, flying |-> flown # NoHull]
          /\ docked = IF flown = NoHull THEN Home ELSE Nowhere
          /\ pilot = IF flown = NoHull THEN OnFoot(Home, Home) ELSE Flying(NoHull, Home, Nowhere)
          /\ held = docked /\ reported = NoHull
          /\ hangar = Berth
          /\ deployed = [h \in Hulls |-> IF h \in {flown, beside} THEN Home ELSE Nowhere]
          /\ parked = IF beside = NoHull THEN <<>> ELSE <<Pawn(beside, Home, Nowhere)>>
          /\ sent = {Request("active", NoHull, Nowhere, FALSE)} /\ nudges = 0 /\ answers = {}
          /\ looking = {} /\ saving = {} /\ acts = 0
  BY Zenon DEF Init
<1>2. /\ Home \in Stations /\ Home \in Places /\ flown \in SomeHull /\ beside \in SomeHull
      /\ Berth \in [Hulls -> Stations] /\ MaxActs \in Nat
  BY ShipsAssumption DEF Places, SomeHull
<1>3. RecordOK
  BY <1>1, <1>2 DEF RecordOK, SomeStation, SomeHull, SomePlace
<1>4. WorldOK
  <2>1. OnFoot(Home, Home) \in Pilots /\ Flying(NoHull, Home, Nowhere) \in Pilots
    BY <1>2, PilotTyped DEF SomeStation, SomeHull
  <2>2. beside # NoHull => Pawn(beside, Home, Nowhere) \in Pawns
    BY <1>2, PawnTyped DEF SomeStation, SomeHull
  <2>3. parked \in Seq(Pawns)
    BY <1>1, <2>2
  <2> QED BY <1>1, <1>2, <2>1, <2>3 DEF WorldOK, SomeStation, SomeHull
<1>5. WireOK /\ HandlersOK
  BY <1>1, Words DEF WireOK, HandlersOK
<1>6. acts \in 0 .. MaxActs
  BY <1>1, <1>2
<1> QED
  BY <1>3, <1>4, <1>5, <1>6 DEF Typed

--------------------------------------------------------------------------------
(* The backend                                                               *)

LEMMA TakenUp ==
    ASSUME WorldOK, RecordOK, sent \subseteq Messages, nudges \in Nat, NEW r \in sent, TakeUp(r)
    PROVE  WorldOK' /\ RecordOK' /\ sent' \subseteq Messages /\ nudges' \in Nat
BY DEF TakeUp, WorldOK, RecordOK, worldVars, recordVars, characterVars

LEMMA NothingKept == Nothing \in Changes
BY DEF Nothing, Changes

LEMMA WillSaveTyped ==
    ASSUME RecordOK, WorldOK, WireOK, HandlersOK, NEW r \in sent, NEW c \in Changes,
           WillSave(r, c)
    PROVE  RecordOK' /\ WorldOK' /\ WireOK' /\ HandlersOK'
<1>1. WorldOK' /\ RecordOK' /\ sent' \subseteq Messages /\ nudges' \in Nat
  BY TakenUp DEF WillSave, WireOK
<1>2. [req |-> r, change |-> c] \in Saves
  BY DEF WireOK, Saves
<1>3. saving' \subseteq Saves /\ looking' = looking /\ answers' = answers
  BY <1>2 DEF WillSave, HandlersOK
<1> QED
  BY <1>1, <1>3 DEF WireOK, HandlersOK

LEMMA HandledTyped ==
    ASSUME RecordOK, WorldOK, WireOK, HandlersOK, NEW r \in sent, Handled(r)
    PROVE  RecordOK' /\ WorldOK' /\ WireOK' /\ HandlersOK'
<1>1. r \in Requests /\ WellFormed(r)
  BY DEF WireOK, Messages
<1>2. r.op \in Ops /\ r.hull \in SomeHull /\ r.at \in SomePlace /\ r.flag \in BOOLEAN
  BY <1>1 DEF Requests
<1>3. CASE Dock(r)
  <2>1. [Nothing EXCEPT !.docked = Assigned(r.at, docked)] \in Changes
    BY <1>1, <1>3 DEF Dock, WellFormed, Nothing, Changes, Assigned, SomeStation
  <2> QED BY <1>3, <2>1, WillSaveTyped DEF Dock
<1>4. CASE Undock(r)
  <2>1. [Nothing EXCEPT !.docked = Assigned(Nowhere, docked)] \in Changes
    BY DEF Nothing, Changes, Assigned, SomeStation
  <2> QED BY <1>4, <2>1, WillSaveTyped DEF Undock
<1>5. CASE Board(r)
  <2>1. [Nothing EXCEPT !.aboard = Assigned(r.hull, aboard),
                        !.active = Assigned(r.hull, active)] \in Changes
    BY <1>2 DEF Nothing, Changes, Assigned
  <2> QED BY <1>5, <2>1, WillSaveTyped DEF Board
<1>6. CASE Disembark(r)
  <2>1. [Nothing EXCEPT !.aboard = Assigned(NoHull, aboard)] \in Changes
    BY DEF Nothing, Changes, Assigned, SomeHull
  <2> QED BY <1>6, <2>1, WillSaveTyped DEF Disembark
<1>7. CASE RecordShipWhereabouts(r)
  <2>1. [Nothing EXCEPT !.deployed = Assigned(r.at, deployed[r.hull])] \in Changes
    BY <1>2 DEF Nothing, Changes, Assigned
  <2> QED BY <1>7, <2>1, WillSaveTyped DEF RecordShipWhereabouts
<1>8. CASE RecordSeen(r)
  <2>1. [Nothing EXCEPT !.at = Assigned(r.at, seen.at),
                        !.flying = Assigned(r.flag, seen.flying)] \in Changes
    BY <1>1, <1>2, <1>8 DEF RecordSeen, WellFormed, Nothing, Changes, Assigned
  <2> QED BY <1>8, <2>1, WillSaveTyped DEF RecordSeen
<1>9. CASE LookAtCharacter(r)
  <2>1. WorldOK' /\ RecordOK' /\ sent' \subseteq Messages /\ nudges' \in Nat
    BY <1>9, TakenUp DEF LookAtCharacter, WireOK
  <2>2. answers' \subseteq Reply
    <3>1. NoShip(r.flag) \in Reply
      BY <1>2 DEF NoShip, Reply, SomeHull, SomeStation, SomePlace
    <3> QED BY <1>9, <3>1 DEF LookAtCharacter, WireOK
  <2>3. looking' \subseteq Looks
    <3>1. [req |-> r, docked |-> docked, active |-> active, aboard |-> aboard]
              \in [req: Messages, docked: SomeStation, active: SomeHull, aboard: SomeHull]
      BY DEF RecordOK, WireOK
    <3>2. CASE looking' = looking
      BY <3>2 DEF HandlersOK
    <3>3. CASE /\ r.op = "summon" => docked # Nowhere
               /\ r.op = "active" => active # NoHull
               /\ looking' = looking \cup {[req |-> r, docked |-> docked,
                                              active |-> active, aboard |-> aboard]}
      BY <3>1, <3>3 DEF HandlersOK, Looks
    <3> QED BY <1>9, <3>2, <3>3 DEF LookAtCharacter
  <2>4. saving' = saving
    BY <1>9 DEF LookAtCharacter
  <2> QED BY <2>1, <2>2, <2>3, <2>4 DEF WireOK, HandlersOK
<1> QED
  BY <1>3, <1>4, <1>5, <1>6, <1>7, <1>8, <1>9 DEF Handled

LEMMA LookedTyped ==
    ASSUME RecordOK, WorldOK, WireOK, HandlersOK, NEW l \in looking, NEW c \in Changes,
           Looked(l, c)
    PROVE  RecordOK' /\ WorldOK' /\ WireOK' /\ HandlersOK'
<1>1. [req |-> l.req, change |-> c] \in Saves
  BY DEF HandlersOK, Looks, Saves
<1>2. HandlersOK'
  BY <1>1 DEF Looked, HandlersOK
<1> QED
  BY <1>2 DEF Looked, RecordOK, WorldOK, WireOK, recordVars, characterVars, worldVars

LEMMA CarriedTyped ==
    ASSUME RecordOK, WorldOK, WireOK, HandlersOK, NEW l \in looking, Carried(l)
    PROVE  RecordOK' /\ WorldOK' /\ WireOK' /\ HandlersOK'
<1>1. /\ l.req \in Requests /\ WellFormed(l.req)
      /\ l.docked \in SomeStation /\ l.active \in SomeHull /\ l.aboard \in SomeHull
      /\ l.req.op = "summon" => l.docked # Nowhere
      /\ l.req.op = "active" => l.active # NoHull
  BY DEF HandlersOK, Looks, Messages
<1>2. l.req.hull \in SomeHull /\ l.req.flag \in BOOLEAN
  BY <1>1 DEF Requests
<1>3. CASE Stow(l)
  <2>1. l.req.at \in Stations
    BY <1>1, <1>3 DEF Stow, WellFormed
  <2>2. [Nothing EXCEPT !.hangar = Assigned(l.req.at, hangar[l.req.hull]),
                        !.deployed = Assigned(Nowhere, deployed[l.req.hull]),
                        !.aboard = IF l.aboard = l.req.hull THEN NoHull ELSE Kept] \in Changes
    BY <2>1 DEF Nothing, Changes, Assigned, SomePlace, SomeHull
  <2> QED BY <1>3, <2>2, LookedTyped DEF Stow
<1>4. CASE Summon(l)
  <2>1. l.docked \in Stations
    BY <1>1, <1>4 DEF Summon, SomeStation
  <2>2. [Nothing EXCEPT !.hangar = Assigned(l.docked, hangar[l.req.hull]),
                        !.deployed = Assigned(Recalled(l.req.hull), deployed[l.req.hull]),
                        !.active = Assigned(l.req.hull, l.active)] \in Changes
    BY <1>2, <2>1 DEF Nothing, Changes, Assigned, Recalled, SomePlace, SomeHull
  <2> QED BY <1>4, <2>2, LookedTyped DEF Summon
<1>5. CASE RefuseSummon(l)
  BY <1>5 DEF RefuseSummon, RecordOK, WorldOK, WireOK, HandlersOK, recordVars, characterVars,
              worldVars
<1>6. CASE TellActiveShip(l)
  <2>1. l.active \in Hulls
    BY <1>1, <1>6 DEF TellActiveShip, SomeHull
  <2>2. hangar[l.active] \in Stations /\ deployed[l.active] \in SomePlace
    BY <2>1 DEF RecordOK
  <2>3. ActiveShip(l.active, l.aboard = l.active, l.req.flag) \in Reply
    BY <1>1, <1>2, <2>2 DEF ActiveShip, Reply, SomeStation
  <2>4. WireOK' /\ HandlersOK'
    BY <1>6, <2>3 DEF TellActiveShip, WireOK, HandlersOK
  <2> QED BY <1>6, <2>4 DEF TellActiveShip, RecordOK, WorldOK, recordVars, characterVars, worldVars
<1> QED
  BY <1>3, <1>4, <1>5, <1>6 DEF Carried

LEMMA SaveTyped ==
    ASSUME RecordOK, WorldOK, WireOK, HandlersOK, NEW w \in saving, Save(w)
    PROVE  RecordOK' /\ WorldOK' /\ WireOK' /\ HandlersOK'
<1> DEFINE c == w.change
<1>1. c \in Changes
  BY DEF HandlersOK, Saves
<1>2. /\ c.docked \in SomeStation \cup {Kept} /\ c.active \in SomeHull \cup {Kept}
      /\ c.aboard \in SomeHull \cup {Kept} /\ c.at \in Places \cup {Kept}
      /\ c.flying \in BOOLEAN \cup {Kept} /\ c.hangar \in Stations \cup {Kept}
      /\ c.deployed \in SomePlace \cup {Kept}
  BY <1>1 DEF Changes
<1>3. docked' \in SomeStation /\ active' \in SomeHull /\ aboard' \in SomeHull
  BY <1>2 DEF Save, Saved, RecordOK
<1>4. seen' \in [at: Places, flying: BOOLEAN]
  BY <1>2 DEF Save, Saved, RecordOK
<1>5. hangar' \in [Hulls -> Stations] /\ deployed' \in [Hulls -> SomePlace]
  BY <1>2 DEF Save, Saved, RecordOK
<1>6. WireOK' /\ HandlersOK'
  BY DEF Save, WireOK, HandlersOK
<1>7. WorldOK'
  BY DEF Save, WorldOK, worldVars
<1> QED
  BY <1>3, <1>4, <1>5, <1>6, <1>7 DEF RecordOK

--------------------------------------------------------------------------------
(* The player's client and the game server                                   *)

LEMMA SummonShipTyped ==
    ASSUME RecordOK, WorldOK, WireOK, HandlersOK, NEW h \in Hulls, SummonShip(h)
    PROVE  RecordOK' /\ WorldOK' /\ WireOK' /\ HandlersOK'
<1>1. {Request("summon", h, Nowhere, TRUE)} \subseteq Messages
  BY Words
<1>2. WireOK' /\ HandlersOK'
  BY <1>1, SayTyped DEF SummonShip
<1> QED
  BY <1>2 DEF SummonShip, RecordOK, WorldOK, recordVars, characterVars, worldVars

LEMMA ShipSummonedTyped ==
    ASSUME RecordOK, WorldOK, WireOK, HandlersOK, ShipSummoned
    PROVE  RecordOK' /\ WorldOK' /\ WireOK' /\ HandlersOK'
<1>1. {Request("active", NoHull, Nowhere, TRUE)} \subseteq Messages
  BY Words
<1>2. nudges' \in Nat
  BY DEF ShipSummoned, WireOK
<1>3. sent' \subseteq Messages /\ answers' \subseteq Reply
  BY <1>1 DEF ShipSummoned, Tell, WireOK
<1> QED
  BY <1>2, <1>3 DEF WireOK, ShipSummoned, RecordOK, WorldOK, HandlersOK, recordVars, characterVars, worldVars,
              handlerVars

(* What became of the pawn possessed and of those parked when a pawn of the   *)
(* hull h was recalled.                                                      *)
LEMMA RecallTyped ==
    ASSUME WorldOK, NEW h \in Hulls, NEW left,
           left \in {parked} \cup {RemoveAt(parked, k) : k \in Standing(h)}, Recall(h, left)
    PROVE  pilot' \in Pilots /\ left \in Seq(Pawns)
<1>1. left \in Seq(Pawns)
  <2>1. \A k \in Standing(h) : RemoveAt(parked, k) \in Seq(Pawns)
    BY Removed DEF Standing, WorldOK
  <2> QED BY <2>1 DEF WorldOK
<1>2. pilot' \in Pilots
  BY DEF Recall, WorldOK, Pilots
<1> QED
  BY <1>1, <1>2

LEMMA PlaceTyped ==
    ASSUME RecordOK, WorldOK, WireOK, HandlersOK, NEW a \in answers, PlaceSummonedShip(a)
    PROVE  RecordOK' /\ WorldOK' /\ WireOK' /\ HandlersOK'
<1>1. /\ a.hull \in SomeHull /\ a.station \in SomeStation /\ a.deployed \in SomePlace
      /\ pilot \in Pilots /\ parked \in Seq(Pawns)
  BY DEF WireOK, WorldOK, Reply
<1>2. RecordOK' /\ HandlersOK' /\ held' \in SomeStation /\ nudges' \in Nat /\ answers' \subseteq Reply
  BY DEF PlaceSummonedShip, RecordOK, WorldOK, WireOK, HandlersOK, recordVars, characterVars,
         handlerVars
<1>3. /\ pilot' \in Pilots /\ reported' \in SomeHull /\ parked' \in Seq(Pawns)
      /\ sent' \subseteq Messages
  <2>1. CASE AdoptFlyingPawn(a)
    <3>1. pilot.in = "ship" => [pilot EXCEPT !.hull = a.hull] \in Pilots
      BY <1>1, PilotChanged
    <3> QED BY <1>1, <2>1, <3>1 DEF AdoptFlyingPawn, WorldOK, WireOK
  <2>2. CASE a.hull \in Hulls /\ StandBesideStation(a)
    <3>1. PICK left \in {parked} \cup {RemoveAt(parked, k) : k \in Standing(a.hull)} :
              /\ Recall(a.hull, left)
              /\ parked' = IF a.station \in Ground
                           THEN Append(left, Pawn(a.hull, a.station, Nowhere)) ELSE left
              /\ LET word == IF a.station \in Ground THEN WordOfIt(a.hull, a.station) ELSE {}
                 IN  \E lost \in SUBSET word : Tell(word, lost)
      BY <2>2 DEF StandBesideStation
    <3>2. pilot' \in Pilots /\ left \in Seq(Pawns)
      BY <2>2, <3>1, RecallTyped
    <3>3. a.station \in Ground => a.station \in Places
      BY ShipsAssumption
    <3>4. a.station \in Ground => Pawn(a.hull, a.station, Nowhere) \in Pawns
      BY <2>2, <3>3, PawnTyped DEF SomeStation
    <3>5. parked' \in Seq(Pawns)
      BY <3>1, <3>2, <3>4
    <3>6. a.station \in Ground => WordOfIt(a.hull, a.station) \subseteq Messages
      BY <2>2, <3>3, Words
    <3>7. sent' \subseteq Messages
      BY <3>1, <3>6 DEF Tell, WireOK
    <3> QED BY <2>2, <3>2, <3>5, <3>7 DEF StandBesideStation, WorldOK
  <2>3. CASE a.hull \in Hulls /\ a.deployed \in Places /\ StandAsRecorded(a)
    <3>1. Pawn(a.hull, a.deployed, Nowhere) \in Pawns
      BY <2>3, PawnTyped DEF SomeStation
    <3>2. WordOfIt(a.hull, a.deployed) \subseteq Messages
      BY <2>3, Words
    <3>3. parked' \in Seq(Pawns)
      BY <1>1, <2>3, <3>1 DEF StandAsRecorded
    <3>4. sent' \subseteq Messages
      BY <2>3, <3>2 DEF StandAsRecorded, Tell, WireOK
    <3> QED BY <2>3, <3>3, <3>4 DEF StandAsRecorded, WorldOK
  <2>4. CASE UNCHANGED <<pilot, reported, parked, sent>>
    BY <2>4 DEF WorldOK, WireOK
  <2>5. CASE DecideShipPlacement(a) = "adopt"
    <3>1. AdoptFlyingPawn(a)
      BY <2>5 DEF PlaceSummonedShip
    <3> QED BY <2>1, <3>1
  <2>6. CASE DecideShipPlacement(a) = "beside"
    <3>1. a.hull # NoHull
      BY <2>6 DEF DecideShipPlacement
    <3>2. a.hull \in Hulls /\ StandBesideStation(a)
      BY <1>1, <2>6, <3>1 DEF PlaceSummonedShip, SomeHull
    <3> QED BY <2>2, <3>2
  <2>7. CASE DecideShipPlacement(a) = "recorded"
    <3>1. a.hull # NoHull /\ a.deployed # Nowhere
      BY <2>7 DEF DecideShipPlacement
    <3>2. a.hull \in Hulls /\ a.deployed \in Places /\ StandAsRecorded(a)
      BY <1>1, <2>7, <3>1 DEF PlaceSummonedShip, SomeHull, SomePlace
    <3> QED BY <2>3, <3>2
  <2>8. CASE DecideShipPlacement(a) \notin {"adopt", "beside", "recorded"}
    <3>1. UNCHANGED <<pilot, reported, parked, sent>>
      BY <2>8 DEF PlaceSummonedShip
    <3> QED BY <2>4, <3>1
  <2> QED BY <2>5, <2>6, <2>7, <2>8
<1> QED
  BY <1>2, <1>3 DEF WorldOK, WireOK

LEMMA EmbarkTyped ==
    ASSUME RecordOK, WorldOK, WireOK, HandlersOK, NEW k \in DOMAIN parked, Embark(k)
    PROVE  RecordOK' /\ WorldOK' /\ WireOK' /\ HandlersOK'
<1>1. pilot \in Pilots /\ parked \in Seq(Pawns) /\ pilot.in = "foot"
  BY DEF WorldOK, Embark
<1>2. parked[k] \in Pawns
  BY <1>1
<1>3. parked[k].hull \in SomeHull /\ parked[k].dock \in SomeStation /\ pilot.at \in Places
  BY <1>1, <1>2, PilotShape DEF Pawns, SomeHull
<1>4. DockOf(parked[k].dock) \in SomeStation
  BY <1>3, DockTyped
<1>5. Flying(parked[k].hull, pilot.at, DockOf(parked[k].dock)) \in Pilots
  BY <1>3, <1>4, PilotTyped
<1>6. RemoveAt(parked, k) \in Seq(Pawns)
  BY <1>1, Removed
<1>7. WireOK' /\ HandlersOK'
  BY <1>3, BoardingTold, SayTyped DEF Embark
<1>8. WorldOK'
  BY <1>3, <1>5, <1>6 DEF Embark, WorldOK
<1> QED
  BY <1>7, <1>8 DEF Embark, RecordOK, recordVars, characterVars

LEMMA StepOutTyped ==
    ASSUME RecordOK, WorldOK, WireOK, HandlersOK, StepOut
    PROVE  RecordOK' /\ WorldOK' /\ WireOK' /\ HandlersOK'
<1>1. pilot \in Pilots /\ parked \in Seq(Pawns) /\ pilot.in = "ship"
  BY DEF WorldOK, StepOut
<1>2. pilot.hull \in SomeHull /\ pilot.dock \in SomeStation /\ pilot.at \in Places
  BY <1>1, PilotShape
<1>3. Nowhere \in SomeStation /\ NoHull \in SomeHull
  BY DEF SomeStation, SomeHull
<1>4. OnFoot(pilot.at, DockOf(Nowhere)) \in Pilots
  BY <1>2, <1>3, DockTyped, PilotTyped
<1>5. pilot.hull # NoHull => Pawn(pilot.hull, pilot.at, pilot.dock) \in Pawns
  BY <1>2, PawnTyped DEF SomeHull
<1>6. parked' \in Seq(Pawns)
  BY <1>1, <1>5 DEF StepOut
<1>7. WireOK' /\ HandlersOK'
  BY <1>3, BoardingTold, SayTyped DEF StepOut
<1>8. WorldOK'
  BY <1>3, <1>4, <1>6 DEF StepOut, WorldOK
<1> QED
  BY <1>7, <1>8 DEF StepOut, RecordOK, recordVars, characterVars

LEMMA MoveTyped ==
    ASSUME RecordOK, WorldOK, WireOK, HandlersOK, NEW p \in Places, Move(p)
    PROVE  RecordOK' /\ WorldOK' /\ WireOK' /\ HandlersOK'
<1>1. pilot \in Pilots /\ pilot.in \in {"foot", "ship"}
  BY DEF WorldOK, Move
<1>2. pilot' \in Pilots
  BY <1>1, PilotChanged DEF Move
<1> QED
  BY <1>2 DEF Move, RecordOK, WorldOK, WireOK, HandlersOK, recordVars, characterVars, handlerVars

LEMMA DockHereTyped ==
    ASSUME RecordOK, WorldOK, WireOK, HandlersOK, DockHere
    PROVE  RecordOK' /\ WorldOK' /\ WireOK' /\ HandlersOK'
<1>1. pilot \in Pilots /\ pilot.in \in {"foot", "ship"} /\ pilot.at \in Stations
  BY DEF WorldOK, DockHere
<1>2. pilot' \in Pilots
  BY <1>1, PilotChanged DEF DockHere, SomeStation
<1>3. {Request("dock", NoHull, pilot.at, FALSE)} \subseteq Messages
  BY <1>1, Words
<1>4. WireOK' /\ HandlersOK'
  BY <1>3, SayTyped DEF DockHere
<1> QED
  BY <1>2, <1>4 DEF DockHere, RecordOK, WorldOK, recordVars, characterVars

LEMMA LeaveDockTyped ==
    ASSUME RecordOK, WorldOK, WireOK, HandlersOK, LeaveDock
    PROVE  RecordOK' /\ WorldOK' /\ WireOK' /\ HandlersOK'
<1>1. pilot \in Pilots /\ pilot.dock # Nowhere
  BY DEF WorldOK, LeaveDock
<1>2. pilot.in \in {"foot", "ship"}
  BY <1>1, PilotShape
<1>3. pilot' \in Pilots /\ Nowhere \in SomeStation
  BY <1>1, <1>2, PilotChanged DEF LeaveDock, SomeStation
<1>4. {Request("undock", NoHull, Nowhere, FALSE)} \subseteq Messages
  BY Words
<1>5. WireOK' /\ HandlersOK'
  BY <1>4, SayTyped DEF LeaveDock
<1> QED
  BY <1>3, <1>5 DEF LeaveDock, RecordOK, WorldOK, recordVars, characterVars

LEMMA DockShipTyped ==
    ASSUME RecordOK, WorldOK, WireOK, HandlersOK, DockShip
    PROVE  RecordOK' /\ WorldOK' /\ WireOK' /\ HandlersOK'
<1>1. pilot \in Pilots /\ pilot.in = "ship" /\ pilot.at \in Stations
  BY DEF WorldOK, DockShip
<1>2. pilot.hull \in SomeHull /\ pilot.at \in Places /\ NoHull \in SomeHull
  BY <1>1, PilotShape DEF SomeHull
<1>3. pilot.at \in SomeStation /\ OnFoot(pilot.at, pilot.at) \in Pilots
  BY <1>1, <1>2, PilotTyped DEF SomeStation
<1>4. {Request("dock", NoHull, pilot.at, FALSE)} \cup Boarding(NoHull)
          \cup StowAsServer(pilot.hull, pilot.at) \subseteq Messages
  BY <1>1, <1>2, Words, BoardingTold, StowingTold
<1>5. WireOK' /\ HandlersOK'
  BY <1>4, SayTyped DEF DockShip
<1>6. WorldOK'
  BY <1>2, <1>3 DEF DockShip, WorldOK
<1> QED
  BY <1>5, <1>6 DEF DockShip, RecordOK, recordVars, characterVars

LEMMA ReportTyped ==
    ASSUME RecordOK, WorldOK, WireOK, HandlersOK, NEW lost, RecordWhereabouts(lost)
    PROVE  RecordOK' /\ WorldOK' /\ WireOK' /\ HandlersOK'
<1>1. WhereaboutsOf(pilot) \subseteq Messages
  BY WhereaboutsTold DEF WorldOK
<1>2. WireOK'
  BY <1>1 DEF RecordWhereabouts, Tell, WireOK
<1> QED
  BY <1>2 DEF RecordWhereabouts, RecordOK, WorldOK, HandlersOK, recordVars, characterVars,
              worldVars, handlerVars

--------------------------------------------------------------------------------
(* Sessions                                                                  *)

LEMMA UnheardTyped ==
    ASSUME NEW m \in Messages
    PROVE  Unheard(m) \in Messages /\ Unheard(m).op = m.op
BY DEF Unheard, Messages, Requests, WellFormed

LEMMA UnaskedTyped ==
    ASSUME NEW s, s \subseteq Messages
    PROVE  Unasked(s) \subseteq Messages
BY UnheardTyped DEF Unasked

LEMMA SessionEnds ==
    ASSUME RecordOK, WorldOK, WireOK, HandlersOK, NEW words, words \subseteq Messages,
           EndSession(words)
    PROVE  /\ RecordOK' /\ WireOK' /\ HandlersOK'
           /\ pilot' = Away /\ held' \in SomeStation /\ reported' \in SomeHull
<1>1. WireOK'
  BY UnaskedTyped DEF EndSession, WireOK
<1>2. looking' \subseteq Looks
  <2>1. ASSUME NEW l \in looking PROVE [l EXCEPT !.req = Unheard(@)] \in Looks
    <3>1. l \in Looks /\ l.req \in Messages
      BY DEF HandlersOK, Looks
    <3>2. Unheard(l.req) \in Messages /\ Unheard(l.req).op = l.req.op
      BY <3>1, UnheardTyped
    <3> QED BY <3>1, <3>2 DEF Looks
  <2> QED BY <2>1 DEF EndSession
<1>3. saving' \subseteq Saves
  <2>1. ASSUME NEW w \in saving PROVE [w EXCEPT !.req = Unheard(@)] \in Saves
    <3>1. w \in Saves /\ w.req \in Messages
      BY DEF HandlersOK, Saves
    <3>2. Unheard(w.req) \in Messages
      BY <3>1, UnheardTyped
    <3> QED BY <3>1, <3>2 DEF Saves
  <2> QED BY <2>1 DEF EndSession
<1> QED
  BY <1>1, <1>2, <1>3 DEF EndSession, RecordOK, HandlersOK, recordVars, characterVars,
                          SomeStation, SomeHull

LEMMA SignOutTyped ==
    ASSUME RecordOK, WorldOK, WireOK, HandlersOK, SignOut
    PROVE  RecordOK' /\ WorldOK' /\ WireOK' /\ HandlersOK'
<1>1. WhereaboutsOf(pilot) \subseteq Messages /\ Away \in Pilots
  BY WhereaboutsTold DEF WorldOK, Pilots
<1>2. /\ RecordOK' /\ WireOK' /\ HandlersOK'
      /\ pilot' = Away /\ held' \in SomeStation /\ reported' \in SomeHull
  BY <1>1, SessionEnds DEF SignOut
<1> QED
  BY <1>1, <1>2 DEF SignOut, WorldOK

LEMMA ShutDownTyped ==
    ASSUME RecordOK, WorldOK, WireOK, HandlersOK, ShutDown
    PROVE  RecordOK' /\ WorldOK' /\ WireOK' /\ HandlersOK'
<1>1. WhereaboutsOf(pilot) \subseteq Messages /\ Away \in Pilots
  BY WhereaboutsTold DEF WorldOK, Pilots
<1>2. /\ RecordOK' /\ WireOK' /\ HandlersOK'
      /\ pilot' = Away /\ held' \in SomeStation /\ reported' \in SomeHull
  BY <1>1, SessionEnds DEF ShutDown
<1> QED
  BY <1>1, <1>2 DEF ShutDown, WorldOK

LEMMA SignInTyped ==
    ASSUME RecordOK, WorldOK, WireOK, HandlersOK, SignIn
    PROVE  RecordOK' /\ WorldOK' /\ WireOK' /\ HandlersOK'
<1>1. seen.at \in Places /\ docked \in SomeStation /\ NoHull \in SomeHull
  BY DEF RecordOK, SomeHull
<1>2. Flying(NoHull, seen.at, docked) \in Pilots /\ OnFoot(seen.at, docked) \in Pilots
  BY <1>1, PilotTyped
<1>3. {Request("active", NoHull, Nowhere, FALSE)} \subseteq Messages
  BY Words
<1>4. WireOK' /\ HandlersOK'
  BY <1>3, SayTyped DEF SignIn
<1>5. WorldOK'
  BY <1>1, <1>2 DEF SignIn, WorldOK
<1> QED
  BY <1>4, <1>5 DEF SignIn, RecordOK, recordVars, characterVars

--------------------------------------------------------------------------------
(* Every step                                                                *)

LEMMA PlayerTyped ==
    ASSUME Typed, PlayerActs
    PROVE  Typed'
<1> USE DEF Typed
<1>1. acts' \in 0 .. MaxActs
  BY ShipsAssumption DEF PlayerActs
<1>2. ASSUME NEW h \in Hulls, SummonShip(h) PROVE RecordOK' /\ WorldOK' /\ WireOK' /\ HandlersOK'
  BY <1>2, SummonShipTyped
<1>3. ASSUME NEW k \in DOMAIN parked, Embark(k)
      PROVE  RecordOK' /\ WorldOK' /\ WireOK' /\ HandlersOK'
  BY <1>3, EmbarkTyped
<1>4. ASSUME NEW p \in Places, Move(p) PROVE RecordOK' /\ WorldOK' /\ WireOK' /\ HandlersOK'
  BY <1>4, MoveTyped
<1>5. ASSUME StepOut \/ DockHere \/ DockShip \/ LeaveDock
      PROVE  RecordOK' /\ WorldOK' /\ WireOK' /\ HandlersOK'
  BY <1>5, StepOutTyped, DockHereTyped, DockShipTyped, LeaveDockTyped
<1>6. ASSUME SignOut \/ ShutDown PROVE RecordOK' /\ WorldOK' /\ WireOK' /\ HandlersOK'
  BY <1>6, SignOutTyped, ShutDownTyped
<1> QED
  BY <1>1, <1>2, <1>3, <1>4, <1>5, <1>6 DEF PlayerActs

LEMMA StepTyped ==
    ASSUME Typed, [Next]_vars
    PROVE  Typed'
<1> USE DEF Typed
<1>1. CASE PlayerActs
  BY <1>1, PlayerTyped
<1>2. ASSUME Backend PROVE RecordOK' /\ WorldOK' /\ WireOK' /\ HandlersOK'
  BY <1>2, HandledTyped, CarriedTyped, SaveTyped DEF Backend
<1>3. ASSUME ShipSummoned \/ SignIn PROVE RecordOK' /\ WorldOK' /\ WireOK' /\ HandlersOK'
  BY <1>3, ShipSummonedTyped, SignInTyped
<1>4. ASSUME NEW lost \in SUBSET WhereaboutsOf(pilot), RecordWhereabouts(lost)
      PROVE  RecordOK' /\ WorldOK' /\ WireOK' /\ HandlersOK'
  BY <1>4, ReportTyped
<1>5. ASSUME NEW a \in answers, PlaceSummonedShip(a)
      PROVE  RecordOK' /\ WorldOK' /\ WireOK' /\ HandlersOK'
  BY <1>5, PlaceTyped
<1>6. CASE UNCHANGED vars
  BY <1>6 DEF vars, recordVars, characterVars, worldVars, handlerVars, RecordOK, WorldOK, WireOK,
              HandlersOK
<1> QED
  BY <1>1, <1>2, <1>3, <1>4, <1>5, <1>6 DEF Next

(* The types of the character's row, the hulls', the pawns, what is on its way *)
(* and what the handlers have read hold in every reachable state             *)
(* (ShipService, DockingService, WhereaboutsService, the player controller).   *)
THEOREM ShipsTypeCorrect == Spec => []TypeOK
<1>1. Spec => []Typed
  BY InitTyped, StepTyped, PTL DEF Spec
<1> QED
  BY <1>1, TypedMeansTypeOK, PTL

--------------------------------------------------------------------------------
(* How many pawns of a hull there are                                        *)

Count(s, p, h) == Cardinality(Among(s, h)) + (IF p.hull = h THEN 1 ELSE 0)

LEMMA CopiesCounted ==
    ASSUME NEW h
    PROVE  Copies(h) = Count(parked, pilot, h) /\ Copies(h)' = Count(parked', pilot', h)
BY DEF Copies, Standing, Count, Among

LEMMA CountTyped ==
    ASSUME NEW s \in Seq(Pawns), NEW p, NEW h
    PROVE  Cardinality(Among(s, h)) \in Nat /\ Count(s, p, h) \in Nat
<1>1. Cardinality(Among(s, h)) \in Nat
  BY AmongFinite
<1> QED
  BY <1>1 DEF Count

LEMMA CountAppended ==
    ASSUME NEW s \in Seq(Pawns), NEW e \in Pawns, NEW p, NEW h
    PROVE  Count(Append(s, e), p, h) = Count(s, p, h) + (IF e.hull = h THEN 1 ELSE 0)
<1>1. Cardinality(Among(s, h)) \in Nat
  BY CountTyped
<1>2. Cardinality(Among(Append(s, e), h))
          = Cardinality(Among(s, h)) + (IF e.hull = h THEN 1 ELSE 0)
  BY AmongAppended
<1> QED
  BY <1>1, <1>2 DEF Count

LEMMA CountRemoved ==
    ASSUME NEW s \in Seq(Pawns), NEW k \in DOMAIN s, NEW p, NEW h
    PROVE  Count(RemoveAt(s, k), p, h) = Count(s, p, h) - (IF s[k].hull = h THEN 1 ELSE 0)
<1>1. Cardinality(Among(s, h)) \in Nat
  BY CountTyped
<1>2. Cardinality(Among(RemoveAt(s, k), h))
          = Cardinality(Among(s, h)) - (IF s[k].hull = h THEN 1 ELSE 0)
  BY AmongRemoved
<1> QED
  BY <1>1, <1>2 DEF Count

LEMMA CountNone ==
    ASSUME NEW s \in Seq(Pawns), NEW p, NEW h, Among(s, h) = {}, p.hull # h
    PROVE  Count(s, p, h) = 0
BY FS_EmptySet DEF Count

(* A pawn that nobody flies any longer, or that is another's, counts for less. *)
LEMMA CountFlown ==
    ASSUME NEW s \in Seq(Pawns), NEW p, NEW q, NEW h, q.hull = h => p.hull = h
    PROVE  Count(s, q, h) <= Count(s, p, h)
<1>1. Cardinality(Among(s, h)) \in Nat
  BY CountTyped
<1> QED
  BY <1>1 DEF Count

(* What a step may make of a hull's pawns.                                   *)
NoneMore(h) ==
    \/ Count(parked', pilot', h) <= 1
    \/ Count(parked', pilot', h) <= Count(parked, pilot, h)
    \/ TakenFor(h)

LEMMA UntouchedPawns ==
    ASSUME WorldOK, NEW h \in Hulls, parked' = parked, pilot'.hull \in {pilot.hull, NoHull}
    PROVE  NoneMore(h)
<1>1. pilot'.hull = h => pilot.hull = h
  BY Apart
<1>2. parked \in Seq(Pawns)
  BY DEF WorldOK
<1>3. Count(parked, pilot', h) <= Count(parked, pilot, h)
  BY <1>1, <1>2, CountFlown
<1> QED
  BY <1>3 DEF NoneMore

LEMMA BackendElsewhere ==
    ASSUME Backend
    PROVE  UNCHANGED worldVars
<1>1. ASSUME NEW r \in sent, Handled(r) PROVE UNCHANGED worldVars
  BY <1>1 DEF Handled, Dock, Undock, Board, Disembark, RecordShipWhereabouts, RecordSeen,
              LookAtCharacter, WillSave, TakeUp
<1>2. ASSUME NEW l \in looking, Carried(l) PROVE UNCHANGED worldVars
  BY <1>2 DEF Carried, Stow, Summon, RefuseSummon, TellActiveShip, Looked
<1>3. ASSUME NEW w \in saving, Save(w) PROVE UNCHANGED worldVars
  BY <1>3 DEF Save
<1> QED
  BY <1>1, <1>2, <1>3 DEF Backend

LEMMA EmbarkOne ==
    ASSUME WorldOK, NEW h \in Hulls, NEW k \in DOMAIN parked, Embark(k)
    PROVE  NoneMore(h)
<1>1. pilot \in Pilots /\ parked \in Seq(Pawns) /\ pilot.in = "foot"
  BY DEF WorldOK, Embark
<1>2. pilot.hull # h
  BY <1>1, PilotShape, Apart
<1>3. pilot'.hull = parked[k].hull /\ parked' = RemoveAt(parked, k)
  BY DEF Embark, Flying
<1>4. Cardinality(Among(parked', h))
          = Cardinality(Among(parked, h)) - (IF parked[k].hull = h THEN 1 ELSE 0)
  BY <1>1, <1>3, AmongRemoved
<1>5. Cardinality(Among(parked, h)) \in Nat
  BY <1>1, CountTyped
<1>6. Count(parked', pilot', h) <= Count(parked, pilot, h)
  BY <1>2, <1>3, <1>4, <1>5 DEF Count
<1> QED
  BY <1>6 DEF NoneMore

LEMMA StepOutOne ==
    ASSUME WorldOK, NEW h \in Hulls, StepOut
    PROVE  NoneMore(h)
<1>1. pilot \in Pilots /\ parked \in Seq(Pawns) /\ pilot.in = "ship"
  BY DEF WorldOK, StepOut
<1>2. pilot.hull \in SomeHull /\ pilot.dock \in SomeStation /\ pilot.at \in Places
  BY <1>1, PilotShape
<1>3. pilot'.hull = NoHull
  BY DEF StepOut, OnFoot
<1>4. CASE pilot.hull = NoHull
  <2>1. parked' = parked
    BY <1>4 DEF StepOut
  <2> QED BY <1>3, <2>1, UntouchedPawns
<1>5. CASE pilot.hull # NoHull
  <2>1. Pawn(pilot.hull, pilot.at, pilot.dock) \in Pawns
    BY <1>2, <1>5, PawnTyped DEF SomeHull
  <2>2. /\ parked' = Append(parked, Pawn(pilot.hull, pilot.at, pilot.dock))
        /\ Pawn(pilot.hull, pilot.at, pilot.dock).hull = pilot.hull
    BY <1>5 DEF StepOut, Pawn
  <2>3. Cardinality(Among(parked', h))
            = Cardinality(Among(parked, h)) + (IF pilot.hull = h THEN 1 ELSE 0)
    BY <1>1, <2>1, <2>2, AmongAppended
  <2>4. Cardinality(Among(parked, h)) \in Nat
    BY <1>1, CountTyped
  <2>5. pilot'.hull # h
    BY <1>3, Apart
  <2>6. Count(parked', pilot', h) <= Count(parked, pilot, h)
    BY <2>3, <2>4, <2>5 DEF Count
  <2> QED BY <2>6 DEF NoneMore
<1> QED
  BY <1>4, <1>5

(* A recall leaves no more pawns of any hull, and of the hull it is for one   *)
(* less or none.                                                             *)
LEMMA RecallOne ==
    ASSUME WorldOK, NEW g \in Hulls, NEW h \in Hulls, NEW left,
           left \in {parked} \cup {RemoveAt(parked, k) : k \in Standing(g)}, Recall(g, left)
    PROVE  /\ left \in Seq(Pawns)
           /\ Count(left, pilot', h) <= Count(parked, pilot, h)
           /\ g = h => \/ Count(left, pilot', h) = 0
                       \/ Count(left, pilot', h) = Count(parked, pilot, h) - 1
<1>1. parked \in Seq(Pawns) /\ left \in Seq(Pawns)
  BY RecallTyped DEF WorldOK
<1>2. Count(parked, pilot, h) \in Nat /\ Count(left, pilot', h) \in Nat
  BY <1>1, CountTyped
<1>3. CASE Standing(g) = {} /\ pilot.hull # g /\ left = parked /\ UNCHANGED pilot
  <2>1. Among(parked, g) = {}
    BY <1>3 DEF Standing, Among
  <2>2. g = h => Count(left, pilot', h) = 0
    BY <1>1, <1>3, <2>1, CountNone
  <2>3. Count(left, pilot', h) = Count(parked, pilot, h)
    BY <1>3
  <2> QED BY <1>1, <1>2, <2>2, <2>3
<1>4. CASE (\E k \in Standing(g) : left = RemoveAt(parked, k)) /\ UNCHANGED pilot
  <2>1. PICK k \in Standing(g) : left = RemoveAt(parked, k)
    BY <1>4
  <2>2. k \in DOMAIN parked /\ parked[k].hull = g
    BY DEF Standing
  <2>3. Count(left, pilot, h) = Count(parked, pilot, h) - (IF parked[k].hull = h THEN 1 ELSE 0)
    BY <1>1, <2>1, <2>2, CountRemoved
  <2>4. Count(left, pilot', h) = Count(parked, pilot, h) - (IF g = h THEN 1 ELSE 0)
    BY <1>4, <2>2, <2>3
  <2> QED BY <1>1, <1>2, <2>4
<1>5. CASE pilot.hull = g /\ left = parked /\ pilot' = Pawnless
  <2>1. pilot'.hull = NoHull /\ NoHull # h
    BY <1>5, Apart DEF Pawnless, Away
  <2>2. Cardinality(Among(parked, h)) \in Nat
    BY <1>1, CountTyped
  <2>3. Count(left, pilot', h) = Cardinality(Among(parked, h))
    BY <1>5, <2>1, <2>2 DEF Count
  <2>4. Count(parked, pilot, h) = Cardinality(Among(parked, h)) + (IF g = h THEN 1 ELSE 0)
    BY <1>5 DEF Count
  <2> QED BY <1>1, <2>2, <2>3, <2>4
<1> QED
  BY <1>3, <1>4, <1>5 DEF Recall

LEMMA PlaceOne ==
    ASSUME WorldOK, WireOK, NEW h \in Hulls, NEW a \in answers, PlaceSummonedShip(a)
    PROVE  NoneMore(h)
<1>1. /\ a.hull \in SomeHull /\ a.station \in SomeStation /\ a.deployed \in SomePlace
      /\ pilot \in Pilots /\ parked \in Seq(Pawns)
  BY DEF WireOK, WorldOK, Reply
<1>2. CASE AdoptFlyingPawn(a)
  <2>1. CASE pilot.in = "ship" /\ pilot.hull = NoHull
    <3>1. pilot'.hull = a.hull /\ parked' = parked
      BY <1>1, <1>2, <2>1, PilotShape DEF AdoptFlyingPawn, Flying
    <3>2. CASE a.hull = h
      BY <2>1, <3>1, <3>2 DEF NoneMore, TakenFor
    <3>3. CASE a.hull # h
      <4>1. Count(parked, pilot', h) <= Count(parked, pilot, h)
        BY <1>1, <3>1, <3>3, CountFlown
      <4> QED BY <3>1, <4>1 DEF NoneMore
    <3> QED BY <3>2, <3>3
  <2>2. CASE ~(pilot.in = "ship" /\ pilot.hull = NoHull)
    <3>1. pilot' = pilot /\ parked' = parked
      BY <1>2, <2>2 DEF AdoptFlyingPawn
    <3> QED BY <3>1, UntouchedPawns
  <2> QED BY <2>1, <2>2
<1>3. CASE a.hull \in Hulls /\ StandBesideStation(a)
  <2>1. PICK left \in {parked} \cup {RemoveAt(parked, k) : k \in Standing(a.hull)} :
            /\ Recall(a.hull, left)
            /\ parked' = IF a.station \in Ground
                         THEN Append(left, Pawn(a.hull, a.station, Nowhere)) ELSE left
    BY <1>3 DEF StandBesideStation
  <2>2. /\ left \in Seq(Pawns)
        /\ Count(left, pilot', h) <= Count(parked, pilot, h)
        /\ a.hull = h => \/ Count(left, pilot', h) = 0
                         \/ Count(left, pilot', h) = Count(parked, pilot, h) - 1
    BY <1>3, <2>1, RecallOne
  <2>3. Count(parked, pilot, h) \in Nat /\ Count(left, pilot', h) \in Nat
    BY <1>1, <2>2, CountTyped
  <2>4. CASE a.station \notin Ground
    BY <2>1, <2>2, <2>4 DEF NoneMore
  <2>5. CASE a.station \in Ground
    <3>1. /\ Pawn(a.hull, a.station, Nowhere) \in Pawns
          /\ Pawn(a.hull, a.station, Nowhere).hull = a.hull
      BY <1>3, <2>5, PawnTyped, ShipsAssumption DEF SomeStation, Pawn
    <3>2. Count(parked', pilot', h) = Count(left, pilot', h) + (IF a.hull = h THEN 1 ELSE 0)
      BY <2>1, <2>2, <2>5, <3>1, CountAppended
    <3>3. Count(parked', pilot', h) <= 1 \/ Count(parked', pilot', h) <= Count(parked, pilot, h)
      BY <2>2, <2>3, <3>2
    <3> QED BY <3>3 DEF NoneMore
  <2> QED BY <2>4, <2>5
<1>4. CASE a.hull \in Hulls /\ a.deployed \in Places /\ StandAsRecorded(a)
  <2>1. CASE Standing(a.hull) # {} \/ pilot.hull = a.hull
    <3>1. pilot' = pilot /\ parked' = parked
      BY <1>4, <2>1 DEF StandAsRecorded
    <3> QED BY <3>1, UntouchedPawns
  <2>2. CASE Standing(a.hull) = {} /\ pilot.hull # a.hull
    <3>1. pilot' = pilot /\ parked' = Append(parked, Pawn(a.hull, a.deployed, Nowhere))
      BY <1>4, <2>2 DEF StandAsRecorded
    <3>2. /\ Pawn(a.hull, a.deployed, Nowhere) \in Pawns
          /\ Pawn(a.hull, a.deployed, Nowhere).hull = a.hull
      BY <1>4, PawnTyped DEF SomeStation, Pawn
    <3>3. Count(parked', pilot', h) = Count(parked, pilot, h) + (IF a.hull = h THEN 1 ELSE 0)
      BY <1>1, <3>1, <3>2, CountAppended
    <3>4. a.hull = h => Count(parked, pilot, h) = 0
      BY <1>1, <2>2, CountNone DEF Standing, Among
    <3>5. Count(parked, pilot, h) \in Nat
      BY <1>1, CountTyped
    <3>6. Count(parked', pilot', h) <= 1 \/ Count(parked', pilot', h) <= Count(parked, pilot, h)
      BY <3>3, <3>4, <3>5
    <3> QED BY <3>6 DEF NoneMore
  <2> QED BY <2>1, <2>2
<1>5. CASE pilot' = pilot /\ parked' = parked
  BY <1>5, UntouchedPawns
<1>6. CASE DecideShipPlacement(a) = "adopt"
  <2>1. AdoptFlyingPawn(a)
    BY <1>6 DEF PlaceSummonedShip
  <2> QED BY <1>2, <2>1
<1>7. CASE DecideShipPlacement(a) = "beside"
  <2>1. a.hull # NoHull
    BY <1>7 DEF DecideShipPlacement
  <2>2. a.hull \in Hulls /\ StandBesideStation(a)
    BY <1>1, <1>7, <2>1 DEF PlaceSummonedShip, SomeHull
  <2> QED BY <1>3, <2>2
<1>8. CASE DecideShipPlacement(a) = "recorded"
  <2>1. a.hull # NoHull /\ a.deployed # Nowhere
    BY <1>8 DEF DecideShipPlacement
  <2>2. a.hull \in Hulls /\ a.deployed \in Places /\ StandAsRecorded(a)
    BY <1>1, <1>8, <2>1 DEF PlaceSummonedShip, SomeHull, SomePlace
  <2> QED BY <1>4, <2>2
<1>9. CASE DecideShipPlacement(a) \notin {"adopt", "beside", "recorded"}
  <2>1. pilot' = pilot /\ parked' = parked
    BY <1>9 DEF PlaceSummonedShip
  <2> QED BY <1>5, <2>1
<1> QED
  BY <1>6, <1>7, <1>8, <1>9

LEMMA PlayerOne ==
    ASSUME WorldOK, NEW h \in Hulls, PlayerActs
    PROVE  NoneMore(h)
<1>1. ASSUME NEW g \in Hulls, SummonShip(g) PROVE NoneMore(h)
  BY <1>1, UntouchedPawns DEF SummonShip, worldVars
<1>2. ASSUME NEW k \in DOMAIN parked, Embark(k) PROVE NoneMore(h)
  BY <1>2, EmbarkOne
<1>3. ASSUME NEW p \in Places, Move(p) PROVE NoneMore(h)
  <2>1. pilot'.hull = pilot.hull /\ parked' = parked
    BY <1>3, PilotShape DEF Move, WorldOK, OnFoot, Flying
  <2> QED BY <2>1, UntouchedPawns
<1>4. CASE StepOut
  BY <1>4, StepOutOne
<1>5. CASE DockHere
  <2>1. pilot'.hull = pilot.hull /\ parked' = parked
    BY <1>5, PilotShape DEF DockHere, WorldOK, OnFoot, Flying
  <2> QED BY <2>1, UntouchedPawns
<1>6. CASE DockShip
  BY <1>6, UntouchedPawns DEF DockShip, OnFoot
<1>7. CASE LeaveDock
  <2>1. pilot'.hull = pilot.hull /\ parked' = parked
    BY <1>7, PilotShape DEF LeaveDock, WorldOK, OnFoot, Flying
  <2> QED BY <2>1, UntouchedPawns
<1>8. CASE SignOut
  BY <1>8, UntouchedPawns DEF SignOut, EndSession, Away
<1>9. CASE ShutDown
  <2>1. parked' = <<>> /\ pilot'.hull = NoHull
    BY <1>9 DEF ShutDown, EndSession, Away
  <2>2. parked' \in Seq(Pawns) /\ Among(parked', h) = {} /\ pilot'.hull # h
    BY <2>1, Apart DEF Among
  <2>3. Count(parked', pilot', h) = 0
    BY <2>2, CountNone
  <2> QED BY <2>3 DEF NoneMore
<1> QED
  BY <1>1, <1>2, <1>3, <1>4, <1>5, <1>6, <1>7, <1>8, <1>9 DEF PlayerActs

LEMMA StepOne ==
    ASSUME Typed, NEW h \in Hulls, [Next]_vars
    PROVE  NoneMore(h)
<1>1. WorldOK /\ WireOK
  BY DEF Typed
<1>2. CASE PlayerActs
  BY <1>1, <1>2, PlayerOne
<1>3. CASE Backend
  BY <1>1, <1>3, BackendElsewhere, UntouchedPawns DEF worldVars
<1>4. CASE ShipSummoned
  BY <1>1, <1>4, UntouchedPawns DEF ShipSummoned, worldVars
<1>5. CASE SignIn
  BY <1>1, <1>5, UntouchedPawns DEF SignIn, Flying, OnFoot
<1>6. ASSUME NEW lost \in SUBSET WhereaboutsOf(pilot), RecordWhereabouts(lost)
      PROVE  NoneMore(h)
  BY <1>1, <1>6, UntouchedPawns DEF RecordWhereabouts, worldVars
<1>7. ASSUME NEW a \in answers, PlaceSummonedShip(a) PROVE NoneMore(h)
  BY <1>1, <1>7, PlaceOne
<1>8. CASE UNCHANGED vars
  BY <1>1, <1>8, UntouchedPawns DEF vars, worldVars
<1> QED
  BY <1>2, <1>3, <1>4, <1>5, <1>6, <1>7, <1>8 DEF Next

(* Whatever requests overtake one another, are lost or are handled on rows    *)
(* that changed since they were read, and whenever the server ends, no step   *)
(* brings a second ship of one hull into the world, but for a ship restored in *)
(* flight that is taken for one that stands elsewhere (PlaceSummonedShip and  *)
(* what it calls, the doors, the dock key; ShipService behind them).         *)
THEOREM NeverASecondShip == Spec => NoSecondShip
<1>1. Spec => []Typed
  BY InitTyped, StepTyped, PTL DEF Spec
<1>2. ASSUME Typed, [Next]_vars
      PROVE  [\A h \in Hulls : Copies(h)' <= 1 \/ Copies(h)' <= Copies(h) \/ TakenFor(h)]_vars
  <2>1. ASSUME NEW h \in Hulls
        PROVE  Copies(h)' <= 1 \/ Copies(h)' <= Copies(h) \/ TakenFor(h)
    <3>1. NoneMore(h)
      BY <1>2, StepOne
    <3>2. Copies(h) = Count(parked, pilot, h) /\ Copies(h)' = Count(parked', pilot', h)
      BY CopiesCounted
    <3> QED BY <3>1, <3>2 DEF NoneMore
  <2> QED BY <2>1
<1> QED
  BY <1>1, <1>2, PTL DEF Spec, NoSecondShip

================================================================================
