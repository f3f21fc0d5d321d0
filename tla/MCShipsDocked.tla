---------------------------- MODULE MCShipsDocked -----------------------------
(* The same, with what the game server last told the backend about docking, or *)
(* was told of it at a sign-in.                                               *)
EXTENDS MCShips

VARIABLE said

Told ==
    CASE DockHere \/ DockShip -> pilot.at
      [] LeaveDock -> Nowhere
      [] SignIn -> docked
      [] OTHER -> said

DockedSpec == Init /\ said = docked /\ [][Next /\ said' = Told]_<<vars, said>>

(* SpaceMMODockingComponent.cpp:495-497: flying away undocks.  Once the range *)
(* check has looked, and the record has what was last told, the character is  *)
(* docked nowhere but where it is.                                           *)
FlyingAwayUndocks ==
    Online /\ ~OutOfRange /\ pilot.in # "none" /\ docked = said
        => docked \in {Nowhere, pilot.at}

================================================================================
