------------------------------ MODULE FlightMode ------------------------------
(* Who steers the aircraft: StatusController, the two navigators and        *)
(* AttitudeController, each an IIntervalThread, as setupController() of     *)
(* chicken.cpp wires them.  Nothing of theirs is locked, so a work() of one *)
(* interleaves with the others access by access.  Angles are abstracted to  *)
(* the takeover they were taken at: "new" for the one under way or last,    *)
(* "old" for any before it.                                                 *)
(* What AttitudeController::reset() does to its windows is in Pid.          *)
EXTENDS Naturals

VARIABLES
    rawStatus,      \* the pilot's switch, as getRawServoSignal().status asks
    mFlightStatus,
    status,         \* where StatusController is in work(), and its targetStatus
    enabled,        \* the objects whose mIsEnabled is true
    manully,        \* where ManullyNavigator is in work()
    attitude,       \* where AttitudeNavigator is in work(), and the angle it has read
    controller,     \* where AttitudeController is in work()
    navTarget,      \* AttitudeNavigator::mPitchTarget, mRollTarget
    ctlTarget,      \* AttitudeController::mTargetPitch, mTargetRoll
    steering,       \* who wrote mOverrideServoSignal last
    late,           \* history: writes of each writer since it was disabled
    overlapped      \* history: the last takeover met an angle in a navigate()

modeVars == <<mFlightStatus, status, enabled>>
targetVars == <<navTarget, ctlTarget>>
vars == <<rawStatus, modeVars, manully, attitude, controller, targetVars,
          steering, late, overlapped>>

\* The navigator setNavigator() registered for a status: DEFAULT has the
\* attitude navigator too.
NavigatorOf(s) == IF s = "MANULLY" THEN "manully" ELSE "attitude"

\* Who writes the servos while a navigator is enabled: itself or the controller.
WriterOf(s) == IF s = "MANULLY" THEN "manully" ELSE "controller"

Writers == {"manully", "controller"}
Statuses == {"DEFAULT", "MANULLY", "ATTITUDE"}

Init ==
    /\ rawStatus \in {"MANULLY", "ATTITUDE"}
    /\ mFlightStatus = "DEFAULT"
    /\ status = [pc |-> "idle", target |-> "DEFAULT"]
    /\ enabled = {}
    /\ manully = "idle" /\ controller = "idle"
    /\ attitude = [pc |-> "idle", angle |-> "new"]
    /\ navTarget = "new" /\ ctlTarget = "new"
    /\ steering = "none"
    /\ late = [w \in Writers |-> 0]
    /\ overlapped = FALSE

FlipSwitch ==
    /\ rawStatus' = IF rawStatus = "MANULLY" THEN "ATTITUDE" ELSE "MANULLY"
    /\ UNCHANGED <<modeVars, manully, attitude, controller, targetVars,
                   steering, late, overlapped>>

-----------------------------------------------------------------------------
(* StatusController::work(): one step per access to what others use.        *)

GoTo(next) == status' = [status EXCEPT !.pc = next]

Decide ==
    /\ status.pc = "idle"
    /\ rawStatus # mFlightStatus
    /\ status' = [pc |-> "disable", target |-> rawStatus]
    /\ UNCHANGED <<mFlightStatus, enabled, attitude, targetVars, late, overlapped>>

\* Bug: the old navigator is not disabled.
DisableForgotten ==
    /\ status.pc = "disable"
    /\ GoTo("change")
    /\ UNCHANGED <<enabled, mFlightStatus, attitude, targetVars, late, overlapped>>

\* setEnabled(false) of the old navigator: nothing when it is not enabled.
Disable ==
    /\ status.pc = "disable"
    /\ LET n == NavigatorOf(mFlightStatus) IN
       /\ enabled' = enabled \ {n}
       /\ GoTo(IF n = "attitude" /\ n \in enabled THEN "stopController" ELSE "change")
       /\ late' = IF n = "manully" THEN [late EXCEPT ![n] = 0] ELSE late
    /\ UNCHANGED <<mFlightStatus, attitude, targetVars, overlapped>>

\* Bug: onRelease leaves the controller running.
ReleaseForgotten ==
    /\ status.pc = "stopController"
    /\ GoTo("change")
    /\ UNCHANGED <<enabled, mFlightStatus, attitude, targetVars, late, overlapped>>

\* AttitudeNavigator::onRelease
Release ==
    /\ status.pc = "stopController"
    /\ enabled' = enabled \ {"controller"}
    /\ late' = [late EXCEPT !["controller"] = 0]
    /\ GoTo("change")
    /\ UNCHANGED <<mFlightStatus, attitude, targetVars, overlapped>>

Change ==
    /\ status.pc = "change"
    /\ mFlightStatus' = status.target
    /\ GoTo("enable")
    /\ UNCHANGED <<enabled, attitude, targetVars, late, overlapped>>

\* setEnabled(true) of the new one, its mIsEnabled first.  From here on every
\* angle there is belongs to an earlier takeover.
Enable ==
    /\ status.pc = "enable"
    /\ LET n == NavigatorOf(mFlightStatus) IN
       /\ enabled' = enabled \cup {n}
       /\ IF n = "attitude" /\ n \notin enabled
          THEN /\ GoTo("navTarget")
               /\ navTarget' = "old" /\ ctlTarget' = "old"
               /\ attitude' = [attitude EXCEPT !.angle = "old"]
          ELSE GoTo("idle") /\ UNCHANGED <<targetVars, attitude>>
    /\ UNCHANGED <<mFlightStatus, late, overlapped>>

\* AttitudeNavigator::onTakeover: the present attitude becomes the target,
\* the controller gets it, the controller is enabled.
TakeAttitude ==
    /\ status.pc = "navTarget"
    /\ navTarget' = "new"
    /\ overlapped' = (attitude.pc \in {"store", "set"})
    /\ GoTo("ctlTarget")
    /\ UNCHANGED <<mFlightStatus, enabled, attitude, ctlTarget, late>>

\* Bug: onTakeover does not hand its target on.
SetTargetForgotten ==
    /\ status.pc = "ctlTarget"
    /\ GoTo("startController")
    /\ UNCHANGED <<mFlightStatus, enabled, attitude, targetVars, late, overlapped>>

SetTarget ==
    /\ status.pc = "ctlTarget"
    /\ ctlTarget' = navTarget
    /\ GoTo("startController")
    /\ UNCHANGED <<mFlightStatus, enabled, attitude, navTarget, late, overlapped>>

StartController ==
    /\ status.pc = "startController"
    /\ enabled' = enabled \cup {"controller"}
    /\ GoTo("idle")
    /\ UNCHANGED <<mFlightStatus, attitude, targetVars, late, overlapped>>

StatusWork ==
    /\ \/ Decide \/ Disable \/ Release \/ Change \/ Enable
       \/ TakeAttitude \/ SetTarget \/ StartController
    /\ UNCHANGED <<rawStatus, manully, controller, steering>>

-----------------------------------------------------------------------------
(* The three others.  mIsEnabled is read once, at the start of work().      *)

Steer(w) ==
    /\ steering' = w
    /\ late' = IF w \in enabled THEN late ELSE [late EXCEPT ![w] = @ + 1]

Outside == <<rawStatus, modeVars>>

\* INavigator::work, ManullyNavigator::navigate: the pilot's signal is copied.
ManullyChecks ==
    /\ manully = "idle" /\ "manully" \in enabled
    /\ manully' = "write"
    /\ UNCHANGED <<Outside, attitude, controller, targetVars, steering, late, overlapped>>

ManullyWrites ==
    /\ manully = "write"
    /\ manully' = "idle"
    /\ Steer("manully")
    /\ UNCHANGED <<Outside, attitude, controller, targetVars, overlapped>>

\* Bug: work() does not look whether the controller is enabled.
ControllerNeverChecks ==
    /\ controller = "idle"
    /\ controller' = "write"
    /\ UNCHANGED <<Outside, manully, attitude, targetVars, steering, late, overlapped>>

\* AttitudeController::work
ControllerChecks ==
    /\ controller = "idle" /\ "controller" \in enabled
    /\ controller' = "write"
    /\ UNCHANGED <<Outside, manully, attitude, targetVars, steering, late, overlapped>>

ControllerWrites ==
    /\ controller = "write"
    /\ controller' = "idle"
    /\ Steer("controller")
    /\ UNCHANGED <<Outside, manully, attitude, targetVars, overlapped>>

\* INavigator::work, AttitudeNavigator::navigate: mPitchTarget is read, written
\* back with the stick's movement added, read again and given to the controller.
AttitudeChecks ==
    /\ attitude.pc = "idle" /\ "attitude" \in enabled
    /\ attitude' = [attitude EXCEPT !.pc = "load"]
    /\ UNCHANGED targetVars

AttitudeReads(from, to) ==
    /\ attitude.pc = from
    /\ attitude' = [pc |-> to, angle |-> navTarget]
    /\ UNCHANGED targetVars

AttitudeStores ==
    /\ attitude.pc = "store"
    /\ navTarget' = attitude.angle
    /\ attitude' = [attitude EXCEPT !.pc = "forward"]
    /\ UNCHANGED ctlTarget

AttitudeSets ==
    /\ attitude.pc = "set"
    /\ ctlTarget' = attitude.angle
    /\ attitude' = [attitude EXCEPT !.pc = "idle"]
    /\ UNCHANGED navTarget

AttitudeWork ==
    /\ \/ AttitudeChecks
       \/ AttitudeReads("load", "store")
       \/ AttitudeStores
       \/ AttitudeReads("forward", "set")
       \/ AttitudeSets
    /\ UNCHANGED <<Outside, manully, controller, steering, late, overlapped>>

ManullyWork == ManullyChecks \/ ManullyWrites
ControllerWork == ControllerChecks \/ ControllerWrites

Next == FlipSwitch \/ StatusWork \/ ManullyWork \/ ControllerWork \/ AttitudeWork

Spec == Init /\ [][Next]_vars

\* Every thread's loop comes round, whatever its interval.
FairSpec ==
    /\ Spec
    /\ WF_vars(StatusWork) /\ WF_vars(ManullyWork)
    /\ WF_vars(ControllerWork) /\ WF_vars(AttitudeWork)

-----------------------------------------------------------------------------

TypeOK ==
    /\ rawStatus \in Statuses \ {"DEFAULT"}
    /\ mFlightStatus \in Statuses
    /\ status \in [pc : {"idle", "disable", "stopController", "change", "enable",
                         "navTarget", "ctlTarget", "startController"},
                  target : Statuses]
    /\ status.pc \in {"navTarget", "ctlTarget", "startController"} =>
           mFlightStatus = "ATTITUDE"
    /\ enabled \subseteq {"manully", "attitude", "controller"}
    /\ manully \in {"idle", "write"} /\ controller \in {"idle", "write"}
    /\ attitude \in [pc : {"idle", "load", "store", "forward", "set"},
                    angle : {"old", "new"}]
    /\ navTarget \in {"old", "new"} /\ ctlTarget \in {"old", "new"}
    /\ steering \in Writers \cup {"none"}
    /\ late \in [Writers -> Nat]
    /\ overlapped \in BOOLEAN

(* The two navigators are never enabled together, and the controller never  *)
(* while the manual navigator is: no two of them fight over the servos for  *)
(* longer than the step they are in.                                        *)
OneInCharge ==
    "manully" \in enabled => enabled = {"manully"}

(* Between two changes of mode exactly the objects of the mode are enabled, *)
(* although DEFAULT has a navigator that the first change disables before   *)
(* it was ever enabled.                                                     *)
EnabledByMode ==
    status.pc = "idle" =>
        enabled = CASE mFlightStatus = "DEFAULT" -> {}
                    [] mFlightStatus = "MANULLY" -> {"manully"}
                    [] mFlightStatus = "ATTITUDE" -> {"attitude", "controller"}

(* A released writer writes at most once more: the work() that had passed   *)
(* the check of mIsEnabled when it was cleared.                             *)
OneLateWrite == \A w \in Writers : late[w] <= 1

(* After a takeover the attitude to hold is the one it found, unless it     *)
(* fell between the read and the write of mPitchTarget, or of the           *)
(* controller's copy, in a navigate() of the other thread.                  *)
TargetFromTakeover ==
    mFlightStatus = "ATTITUDE" /\ status.pc = "idle" /\ ~overlapped =>
        navTarget = "new" /\ ctlTarget = "new"

(* A switch that is left alone has its way: in the end only the writer of   *)
(* the mode it asks for steers, late writes of the other one notwithstanding.*)
SwitchObeyed ==
    \A s \in Statuses \ {"DEFAULT"} :
        <>[](rawStatus = s) => <>[](steering = WriterOf(s))

=============================================================================
