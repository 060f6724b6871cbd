--------------------------- MODULE FlightModeProofs ---------------------------
(* The safety invariants of FlightMode.  One invariant is inductive: it     *)
(* says, for every place StatusController can be in, who is enabled, which  *)
(* late writes are still to come, and which angles are those of the         *)
(* takeover.                                                                *)
EXTENDS FlightMode, TLAPS

\* Who is enabled in a mode that has been entered.
EnabledIn(mode) == CASE mode = "DEFAULT" -> {}
                     [] mode = "MANULLY" -> {"manully"}
                     [] mode = "ATTITUDE" -> {"attitude", "controller"}

EnabledByPlace ==
    /\ status.pc \in {"idle", "disable"} => enabled = EnabledIn(mFlightStatus)
    /\ status.pc = "stopController" => enabled = {"controller"}
    /\ status.pc \in {"change", "enable"} => enabled = {}
    /\ status.pc \in {"navTarget", "ctlTarget", "startController"} => enabled = {"attitude"}
    /\ status.pc \notin {"idle"} => status.target \in {"MANULLY", "ATTITUDE"}
    /\ status.pc = "enable" => mFlightStatus = status.target

Place(w) == IF w = "manully" THEN manully ELSE controller

\* A writer that is disabled and has written since is not about to again.
LateByPlace ==
    \A w \in Writers : /\ late[w] <= 1
                       /\ w \notin enabled /\ late[w] = 1 => Place(w) = "idle"

Taken == \/ status.pc \in {"ctlTarget", "startController"}
         \/ status.pc = "idle" /\ mFlightStatus = "ATTITUDE"

AnglesByPlace ==
    Taken /\ ~overlapped =>
        /\ navTarget = "new"
        /\ attitude.pc \in {"store", "set"} => attitude.angle = "new"
        /\ status.pc # "ctlTarget" => ctlTarget = "new"

IInv == TypeOK /\ EnabledByPlace /\ LateByPlace /\ AnglesByPlace

LEMMA InitIInv == Init => IInv
<1> SUFFICES ASSUME Init PROVE IInv
  OBVIOUS
<1> USE DEF Init
<1>1. TypeOK
  BY DEF TypeOK, Statuses, Writers
<1>2. EnabledByPlace
  BY DEF EnabledByPlace, EnabledIn
<1>3. LateByPlace
  BY DEF LateByPlace, Place, Writers
<1>4. AnglesByPlace
  BY DEF AnglesByPlace, Taken
<1> QED
  BY <1>1, <1>2, <1>3, <1>4 DEF IInv

LEMMA SteerType ==
  ASSUME NEW w \in Writers, Steer(w), late \in [Writers -> Nat]
  PROVE  late' \in [Writers -> Nat] /\ steering' = w
  BY DEF Steer

LEMMA TypeStep == TypeOK /\ EnabledByPlace /\ [Next]_vars => TypeOK'
<1> SUFFICES ASSUME TypeOK, EnabledByPlace, [Next]_vars PROVE TypeOK'
  OBVIOUS
<1> USE DEF TypeOK, Statuses, Writers
<1>1. CASE FlipSwitch
  BY <1>1 DEF FlipSwitch, modeVars, targetVars
<1>2. CASE StatusWork
  <2> USE DEF GoTo, targetVars
  <2> UNCHANGED <<rawStatus, manully, controller, steering>>
    BY <1>2 DEF StatusWork
  <2>1. CASE Decide
    BY <2>1 DEF Decide
  <2>2. CASE Disable
    BY <2>2 DEF Disable, NavigatorOf
  <2>3. CASE Release
    BY <2>3 DEF Release
  <2>4. CASE Change
    BY <2>4 DEF Change
  <2>5. CASE Enable
    BY <2>5 DEF Enable, NavigatorOf, EnabledByPlace
  <2>6. CASE TakeAttitude
    BY <2>6 DEF TakeAttitude
  <2>7. CASE SetTarget
    BY <2>7 DEF SetTarget
  <2>8. CASE StartController
    BY <2>8 DEF StartController
  <2> QED
    BY <1>2, <2>1, <2>2, <2>3, <2>4, <2>5, <2>6, <2>7, <2>8 DEF StatusWork
<1>3. CASE ManullyWork
  <2>1. CASE ManullyChecks
    BY <2>1 DEF ManullyChecks, Outside, modeVars, targetVars
  <2>2. CASE ManullyWrites
    BY <2>2, SteerType DEF ManullyWrites, Outside, modeVars, targetVars
  <2> QED
    BY <1>3, <2>1, <2>2 DEF ManullyWork
<1>4. CASE ControllerWork
  <2>1. CASE ControllerChecks
    BY <2>1 DEF ControllerChecks, Outside, modeVars, targetVars
  <2>2. CASE ControllerWrites
    BY <2>2, SteerType DEF ControllerWrites, Outside, modeVars, targetVars
  <2> QED
    BY <1>4, <2>1, <2>2 DEF ControllerWork
<1>5. CASE AttitudeWork
  BY <1>5 DEF AttitudeWork, AttitudeChecks, AttitudeReads, AttitudeStores, AttitudeSets,
              Outside, modeVars, targetVars
<1>6. CASE UNCHANGED vars
  BY <1>6 DEF vars, modeVars, targetVars
<1> QED
  BY <1>1, <1>2, <1>3, <1>4, <1>5, <1>6 DEF Next

LEMMA EnabledStep == TypeOK /\ EnabledByPlace /\ [Next]_vars => EnabledByPlace'
<1> SUFFICES ASSUME TypeOK, EnabledByPlace, [Next]_vars PROVE EnabledByPlace'
  OBVIOUS
<1> USE DEF TypeOK, Statuses, EnabledByPlace, EnabledIn
<1>1. CASE StatusWork
  <2> USE DEF GoTo
  <2>1. CASE Decide
    BY <2>1 DEF Decide
  <2>2. CASE Disable
    BY <2>2 DEF Disable, NavigatorOf
  <2>3. CASE Release
    BY <2>3 DEF Release
  <2>4. CASE Change
    BY <2>4 DEF Change
  <2>5. CASE Enable
    BY <2>5 DEF Enable, NavigatorOf
  <2>6. CASE TakeAttitude
    BY <2>6 DEF TakeAttitude
  <2>7. CASE SetTarget
    BY <2>7 DEF SetTarget
  <2>8. CASE StartController
    BY <2>8 DEF StartController
  <2> QED
    BY <1>1, <2>1, <2>2, <2>3, <2>4, <2>5, <2>6, <2>7, <2>8 DEF StatusWork
<1>2. CASE UNCHANGED modeVars
  BY <1>2 DEF modeVars
<1> QED
  BY <1>1, <1>2 DEF Next, vars, FlipSwitch, Outside,
     ManullyWork, ManullyChecks, ManullyWrites,
     ControllerWork, ControllerChecks, ControllerWrites, AttitudeWork

(* Only the writer itself and Disable or Release touch what LateByPlace     *)
(* says of a writer.                                                        *)
LEMMA SteerLate ==
  ASSUME NEW w \in Writers, Steer(w), late \in [Writers -> Nat], LateByPlace,
         Place(w) = "write", enabled' = enabled
  PROVE  /\ late'[w] <= 1
         /\ \A v \in Writers \ {w} : late'[v] = late[v]
  BY DEF Steer, LateByPlace

LEMMA LateStep == TypeOK /\ EnabledByPlace /\ LateByPlace /\ [Next]_vars => LateByPlace'
<1> SUFFICES ASSUME TypeOK, EnabledByPlace, LateByPlace, [Next]_vars PROVE LateByPlace'
  OBVIOUS
<1> USE DEF TypeOK, Writers
<1>1. CASE StatusWork
  <2> UNCHANGED <<rawStatus, manully, controller, steering>>
    BY <1>1 DEF StatusWork
  <2> USE DEF LateByPlace, Place
  <2>1. CASE Decide
    BY <2>1 DEF Decide
  <2>2. CASE Disable
    BY <2>2 DEF Disable, NavigatorOf, GoTo, EnabledByPlace, EnabledIn, Statuses
  <2>3. CASE Release
    BY <2>3 DEF Release, GoTo, EnabledByPlace
  <2>4. CASE Change
    BY <2>4 DEF Change
  <2>5. CASE Enable
    BY <2>5 DEF Enable, NavigatorOf
  <2>6. CASE TakeAttitude
    BY <2>6 DEF TakeAttitude
  <2>7. CASE SetTarget
    BY <2>7 DEF SetTarget
  <2>8. CASE StartController
    BY <2>8 DEF StartController
  <2> QED
    BY <1>1, <2>1, <2>2, <2>3, <2>4, <2>5, <2>6, <2>7, <2>8 DEF StatusWork
<1>2. CASE ManullyChecks
  BY <1>2 DEF ManullyChecks, Outside, modeVars, LateByPlace, Place
<1>3. CASE ManullyWrites
  <2>1. enabled' = enabled /\ Place("manully") = "write" /\ Steer("manully")
    BY <1>3 DEF ManullyWrites, Outside, modeVars, Place
  <2>2. late'["manully"] <= 1 /\ late'["controller"] = late["controller"]
    BY <2>1, SteerLate
  <2> QED
    BY <1>3, <2>1, <2>2 DEF ManullyWrites, LateByPlace, Place
<1>4. CASE ControllerChecks
  BY <1>4 DEF ControllerChecks, Outside, modeVars, LateByPlace, Place
<1>5. CASE ControllerWrites
  <2>1. enabled' = enabled /\ Place("controller") = "write" /\ Steer("controller")
    BY <1>5 DEF ControllerWrites, Outside, modeVars, Place
  <2>2. late'["controller"] <= 1 /\ late'["manully"] = late["manully"]
    BY <2>1, SteerLate
  <2> QED
    BY <1>5, <2>1, <2>2 DEF ControllerWrites, LateByPlace, Place
<1>6. CASE UNCHANGED <<enabled, manully, controller, late>>
  BY <1>6 DEF LateByPlace, Place
<1> QED
  BY <1>1, <1>2, <1>3, <1>4, <1>5, <1>6 DEF Next, vars, modeVars, FlipSwitch, Outside,
     ManullyWork, ControllerWork, AttitudeWork

(* A navigate() that reads mPitchTarget after a takeover wrote it can only  *)
(* write back an angle of that takeover.                                    *)
LEMMA AnglesStep == TypeOK /\ EnabledByPlace /\ AnglesByPlace /\ [Next]_vars => AnglesByPlace'
<1> SUFFICES ASSUME TypeOK, EnabledByPlace, AnglesByPlace, [Next]_vars PROVE AnglesByPlace'
  OBVIOUS
<1> USE DEF TypeOK, AnglesByPlace, Taken
<1>1. CASE StatusWork
  <2> USE DEF GoTo
  <2>1. CASE Decide
    BY <2>1 DEF Decide
  <2>2. CASE Disable
    BY <2>2 DEF Disable, NavigatorOf
  <2>3. CASE Release
    BY <2>3 DEF Release
  <2>4. CASE Change
    BY <2>4 DEF Change
  <2>5. CASE Enable
    BY <2>5 DEF Enable, NavigatorOf, EnabledByPlace, Statuses
  <2>6. CASE TakeAttitude
    <3>1. ~overlapped' => attitude.pc \notin {"store", "set"}
      BY <2>6, Zenon DEF TakeAttitude
    <3> QED
      BY <2>6, <3>1 DEF TakeAttitude
  <2>7. CASE SetTarget
    BY <2>7 DEF SetTarget
  <2>8. CASE StartController
    <3>1. Taken /\ status.pc # "ctlTarget"
      BY <2>8 DEF StartController
    <3>2. ~overlapped' => ~overlapped
      BY <2>8, Zenon DEF StartController
    <3>3. UNCHANGED <<navTarget, ctlTarget, attitude>>
      BY <2>8 DEF StartController, targetVars
    <3> QED
      BY <3>1, <3>2, <3>3
  <2> QED
    BY <1>1, <2>1, <2>2, <2>3, <2>4, <2>5, <2>6, <2>7, <2>8 DEF StatusWork
<1>2. CASE AttitudeWork
  <2> UNCHANGED <<status, mFlightStatus, overlapped>>
    BY <1>2 DEF AttitudeWork, Outside, modeVars
  <2>1. CASE AttitudeChecks
    BY <2>1 DEF AttitudeChecks, targetVars
  <2>2. ASSUME NEW from \in {"load", "forward"}, NEW to \in {"store", "set"},
               AttitudeReads(from, to)
        PROVE  AnglesByPlace'
    BY <2>2 DEF AttitudeReads, targetVars
  <2>3. CASE AttitudeStores
    BY <2>3 DEF AttitudeStores
  <2>4. CASE AttitudeSets
    BY <2>4 DEF AttitudeSets
  <2> QED
    BY <1>2, <2>1, <2>2, <2>3, <2>4 DEF AttitudeWork
<1>3. CASE UNCHANGED <<mFlightStatus, status, attitude, navTarget, ctlTarget, overlapped>>
  BY <1>3
<1> QED
  BY <1>1, <1>2, <1>3 DEF Next, vars, modeVars, targetVars, FlipSwitch, Outside,
     ManullyWork, ManullyChecks, ManullyWrites,
     ControllerWork, ControllerChecks, ControllerWrites

(* The invariant holds for every number of flips of the switch.             *)
THEOREM Invariance == Spec => []IInv
<1>1. IInv /\ [Next]_vars => IInv'
  BY TypeStep, EnabledStep, LateStep, AnglesStep DEF IInv
<1> QED
  BY InitIInv, <1>1, PTL DEF Spec

-----------------------------------------------------------------------------
(* The values of the variables: of StatusController (status_controller.cpp  *)
(* 23-70), of the navigators and of the controller.                         *)
THEOREM TypeCorrect == Spec => []TypeOK
<1>1. IInv => TypeOK
  BY DEF IInv
<1> QED
  BY Invariance, <1>1, PTL

(* Never two in charge of the servos: the manual navigator is enabled alone *)
(* (status_controller.cpp 50-65, attitude_navigator.cpp 53-72).             *)
THEOREM NeverTwoInCharge == Spec => []OneInCharge
<1>1. IInv => OneInCharge
  BY DEF IInv, TypeOK, EnabledByPlace, EnabledIn, OneInCharge, Statuses
<1> QED
  BY Invariance, <1>1, PTL

(* Between two changes of mode exactly its own objects are enabled.         *)
THEOREM ModeEnablesItsOwn == Spec => []EnabledByMode
<1>1. IInv => EnabledByMode
  BY DEF IInv, EnabledByPlace, EnabledIn, EnabledByMode
<1> QED
  BY Invariance, <1>1, PTL

(* mIsEnabled, read once per work(), lets one late write through, never two.*)
THEOREM AtMostOneLateWrite == Spec => []OneLateWrite
<1>1. IInv => OneLateWrite
  BY DEF IInv, LateByPlace, OneLateWrite
<1> QED
  BY Invariance, <1>1, PTL

(* The attitude to hold is the one the takeover found, but for a navigate() *)
(* it met between its read and its write (attitude_navigator.cpp 25-61).    *)
THEOREM HoldsTakeoverAttitude == Spec => []TargetFromTakeover
<1>1. IInv => TargetFromTakeover
  BY DEF IInv, AnglesByPlace, Taken, TargetFromTakeover
<1> QED
  BY Invariance, <1>1, PTL

=============================================================================
