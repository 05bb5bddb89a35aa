------------------------------ MODULE RunManager ------------------------------
(***************************************************************************)
(* Automatic observation: growth_daq_run_manager asks growth_controller,   *)
(* over a ZeroMQ request socket with a timeout of a second, for the house- *)
(* keeping data, switches the high voltage and resumes or pauses           *)
(* growth_daq, which is the machine of DaqControl.  Any call may time out  *)
(* and still be executed later, and each of the three programs may die     *)
(* and is started again by God.                                            *)
(***************************************************************************)
EXTENDS Naturals, Sequences

CONSTANTS
  Powered,      (* channels with a default DAC value above 0 mV            *)
  HkRounds,     (* HK_CHECK_PERIOD_SEC / WAIT_DURATION_SEC                 *)
  FaultKinds,   (* what may go wrong: "timeout", "crash", "spi" (a write   *)
                (* to the SlowDAC)                                         *)
  MaxFaults     (* bound: how often                                        *)

HvChannel == 0..1   (* HV_CHANNEL_LOWER to HV_CHANNEL_UPPER                *)

ASSUME ManagerAssumption ==
  /\ Powered \subseteq HvChannel
  /\ HkRounds \in Nat \ {0}
  /\ FaultKinds \subseteq {"timeout", "crash", "spi"}
  /\ MaxFaults \in Nat

VARIABLES
  server, run,              (* growth_daq, as DaqControl describes it      *)
  fit,                      (* slide switch on, temperatures in the limits *)
  todo,                     (* calls the loop of the manager still makes   *)
  daq_run_can_be_started,
  time_since_last_hk_check, (* in rounds of the loop                       *)
  up,                       (* growth_controller answers                   *)
  late,                     (* calls given up by the manager that the      *)
                            (* controller or growth_daq has yet to execute *)
  on_off_status, dac,       (* of each channel: output, DAC at its default *)
  prompt,                   (* whether a run boots and ends, and a call    *)
                            (* that was given up is executed, within       *)
                            (* WAIT_DURATION_SEC; fixed at the start       *)
  faults                    (* history: what went wrong, in order          *)

Daq == INSTANCE DaqControl

control == <<server, run>>
manager == <<todo, daq_run_can_be_started, time_since_last_hk_check>>
hv == <<on_off_status, dac>>
managerVars == <<control, fit, manager, up, late, hv, prompt, faults>>

Call(op) == [op |-> op]
ChannelCall(op, ch) == [op |-> op, ch |-> ch]
DaqCalls == {Call("status"), Call("resume"), Call("pause"), Call("switch")}
ChannelCalls == {ChannelCall(op, ch) : op \in {"set", "on"}, ch \in HvChannel}
Calls == DaqCalls \cup ChannelCalls
           \cup {Call("hk"), Call("hvStatus"), Call("hvLog"), Call("offAll")}

Fault(kind) ==
  /\ kind \in FaultKinds /\ Len(faults) < MaxFaults
  /\ faults' = Append(faults, kind)

ManagerInit ==
  /\ server = "serving" /\ run = "none"
  /\ fit \in BOOLEAN
  /\ todo = << >> /\ daq_run_can_be_started = FALSE
  /\ time_since_last_hk_check = HkRounds
  /\ up = TRUE /\ late = {}
  /\ on_off_status = [ch \in HvChannel |-> "off"] /\ dac = [ch \in HvChannel |-> FALSE]
  /\ prompt \in BOOLEAN /\ faults = << >>

-----------------------------------------------------------------------------
(* The loop of the manager.                                                *)

(* hv_on(): for ch in [0,1], set and on, and a last status for the log.    *)
SetAndOn(ch) ==
  IF ch \in Powered THEN <<ChannelCall("set", ch), ChannelCall("on", ch)>> ELSE << >>
HvOn == SetAndOn(0) \o SetAndOn(1) \o <<Call("hvLog")>>

StartResumeFirst == <<Call("resume")>> \o HvOn        (* mutant            *)
StartRun == HvOn \o <<Call("resume")>>
ShutMisnamed == <<Call("pause"), Call("off")>>        (* mutant            *)
ShutHvForgotten == <<Call("pause")>>                  (* mutant            *)
ShutDown == <<Call("pause"), Call("offAll")>>

(* sleep() is over: check_hk() when its period has passed, then status.  A *)
(* thread that was created runs long before the sleep is over.             *)
Wake ==
  /\ todo = << >>
  /\ run # "created"
  /\ prompt => run \in {"none", "observing"} /\ late = {}
  /\ IF time_since_last_hk_check + 1 >= HkRounds
     THEN /\ todo' = <<Call("hk"), Call("status")>>
          /\ time_since_last_hk_check' = 0
     ELSE /\ todo' = <<Call("status")>>
          /\ time_since_last_hk_check' = time_since_last_hk_check + 1
  /\ UNCHANGED <<control, fit, daq_run_can_be_started, up, late, hv, faults, prompt>>

(* What the manager goes on to do after a reply to daq.status().           *)
AfterStatus ==
  IF Daq!Paused THEN IF daq_run_can_be_started THEN StartRun ELSE << >>
  ELSE IF daq_run_can_be_started THEN <<Call("hvStatus")>> ELSE ShutDown

NeverAgain == << >>                                   (* mutant            *)
AfterHvStatus == IF \E ch \in HvChannel : on_off_status[ch] # "on" THEN HvOn ELSE << >>

(* ... with switch_output() when the file is old enough.                   *)
SwitchIfLong == {<< >>, <<Call("switch")>>}

-----------------------------------------------------------------------------
(* What the controller does for a call.                                    *)

SetDac(ch) ==
  /\ \/ dac' = [dac EXCEPT ![ch] = ch \in Powered] /\ UNCHANGED faults
     \/ Fault("spi") /\ UNCHANGED dac
  /\ UNCHANGED <<control, on_off_status>>

SwitchOutput(ch) ==
  /\ on_off_status' = [on_off_status EXCEPT ![ch] = "on"]
  /\ UNCHANGED <<control, dac, faults>>

(* off() of every channel; a failure to set the DAC to 0 mV is not looked  *)
(* at.                                                                     *)
OffAll ==
  /\ on_off_status' = [ch \in HvChannel |-> "off"]
  /\ \/ dac' = [ch \in HvChannel |-> FALSE] /\ UNCHANGED faults
     \/ Fault("spi") /\ UNCHANGED dac
  /\ UNCHANGED control

Effect(call) ==
  \/ call.op = "resume" /\ Daq!Resume /\ UNCHANGED <<hv, faults>>
  \/ call.op = "pause" /\ Daq!Pause /\ UNCHANGED <<hv, faults>>
  \/ call.op = "set" /\ SetDac(call.ch)
  \/ call.op = "on" /\ SwitchOutput(call.ch)
  \/ call.op = "offAll" /\ OffAll
  \/ /\ call.op \in {"hk", "status", "switch", "hvStatus", "hvLog"}
     /\ UNCHANGED <<control, hv, faults>>

CanAnswer(call) == up /\ (call \in DaqCalls => server = "serving")

(* A call is executed and answered in time.  What the manager makes of the *)
(* answer depends on the call.                                             *)
Answered ==
  /\ todo # << >> /\ CanAnswer(Head(todo))
  /\ Effect(Head(todo))
  /\ daq_run_can_be_started' = IF Head(todo).op = "hk" THEN fit ELSE daq_run_can_be_started
  /\ \/ Head(todo).op = "status" /\ todo' = AfterStatus
     \/ Head(todo).op = "hvStatus" /\ \E more \in SwitchIfLong : todo' = AfterHvStatus \o more
     \/ Head(todo).op \notin {"status", "hvStatus"} /\ todo' = Tail(todo)
  /\ UNCHANGED <<fit, time_since_last_hk_check, up, late, prompt>>

(* A call fails: nothing answers it, or the answer comes too late and the  *)
(* call, if it has not been lost, is executed later.  The manager takes an *)
(* error of hk.read() for unfit conditions, stops at one of daq.status(),  *)
(* leaves the high voltage alone after one of hv.status(), and does not    *)
(* look at the others.                                                     *)
Failed ==
  /\ todo # << >>
  /\ \/ ~CanAnswer(Head(todo)) /\ UNCHANGED <<late, faults>>
     \/ Fault("timeout") /\ late' \in {late, late \cup {Head(todo)}}
  /\ daq_run_can_be_started' = IF Head(todo).op = "hk" THEN FALSE ELSE daq_run_can_be_started
  /\ \/ Head(todo).op = "status" /\ todo' = << >>
     \/ Head(todo).op = "hvStatus" /\ todo' \in SwitchIfLong
     \/ Head(todo).op \notin {"status", "hvStatus"} /\ todo' = Tail(todo)
  /\ UNCHANGED <<control, fit, time_since_last_hk_check, up, hv, prompt>>

ExecutedLate ==
  \E call \in late :
    /\ CanAnswer(call)
    /\ Effect(call)
    /\ late' = late \ {call}
    /\ UNCHANGED <<fit, manager, up, prompt>>

-----------------------------------------------------------------------------
(* The rest of the world.                                                  *)

ConditionsChange ==
  /\ fit' = ~fit
  /\ UNCHANGED <<control, manager, up, late, hv, faults, prompt>>

DaqAdvances ==
  /\ Daq!Advance
  /\ UNCHANGED <<fit, manager, up, late, hv, faults, prompt>>

(* What waits in its socket, or still in the one of the controller.        *)
DaqCrashes ==
  /\ Fault("crash") /\ Daq!Crash
  /\ late' \in {late, late \ DaqCalls}
  /\ UNCHANGED <<fit, manager, up, hv, prompt>>

DaqRestarts ==
  /\ Daq!Restart
  /\ UNCHANGED <<fit, manager, up, late, hv, faults, prompt>>

ControllerCrashes ==
  /\ up /\ Fault("crash")
  /\ up' = FALSE /\ late' \in {{}, late \cap DaqCalls}
  /\ UNCHANGED <<control, fit, manager, hv, prompt>>

(* ControllerModuleHV::initialize() turns both channels off.               *)
ControllerRestarts ==
  /\ ~up /\ up' = TRUE
  /\ on_off_status' = [ch \in HvChannel |-> "off"] /\ dac' = [ch \in HvChannel |-> FALSE]
  /\ UNCHANGED <<control, fit, manager, late, faults, prompt>>

(* The manager dies and is started again.                                  *)
ManagerRestarts ==
  /\ Fault("crash")
  /\ todo' = << >> /\ daq_run_can_be_started' = FALSE
  /\ time_since_last_hk_check' = HkRounds
  /\ UNCHANGED <<control, fit, up, late, hv, prompt>>

Manager == Wake \/ Answered \/ Failed
God == DaqRestarts \/ ControllerRestarts
World == ConditionsChange \/ DaqCrashes \/ ControllerCrashes \/ ManagerRestarts

ManagerNext == Manager \/ ExecutedLate \/ DaqAdvances \/ God \/ World

ManagerSpec == ManagerInit /\ [][ManagerNext]_managerVars

(* The manager loops, runs move on, God starts what died and calls that    *)
(* are still in a socket are executed.  Nothing else is promised.          *)
FairManagerSpec ==
  /\ ManagerSpec
  /\ WF_managerVars(Manager) /\ WF_managerVars(ExecutedLate) /\ WF_managerVars(DaqAdvances)
  /\ WF_managerVars(DaqRestarts) /\ WF_managerVars(ControllerRestarts)
-----------------------------------------------------------------------------
AllOn == \A ch \in Powered : on_off_status[ch] = "on"
AllOff == \A ch \in HvChannel : on_off_status[ch] = "off"

(* Every variable has its type.                                            *)
ManagerTypeOK ==
  /\ server \in Daq!Servers /\ run \in Daq!Phases
  /\ fit \in BOOLEAN /\ up \in BOOLEAN
  /\ todo \in Seq(Calls) /\ late \subseteq Calls
  /\ daq_run_can_be_started \in BOOLEAN
  /\ time_since_last_hk_check \in 0..HkRounds
  /\ on_off_status \in [HvChannel -> {"on", "off"}] /\ dac \in [HvChannel -> BOOLEAN]
  /\ prompt \in BOOLEAN /\ faults \in Seq(FaultKinds) /\ Len(faults) <= MaxFaults

(* So far every call was answered in time.                                 *)
AllAnswered == prompt /\ \A k \in 1..Len(faults) : faults[k] = "spi"

(* The order of the calls keeps the detectors supplied: as long as every   *)
(* call is answered, events are recorded only with the high voltage on.    *)
ObservesWithHv == AllAnswered /\ run = "observing" => AllOn

(* When the conditions stay unfit, the high voltage goes off for good and  *)
(* the run is over.  One lost hv.off_all is enough to prevent it: the run  *)
(* is paused already, and the manager does not look at a paused run.       *)
UnfitMeansOff == <>[]~fit => <>[](AllOff /\ Daq!Paused)

(* It does as long as every call is answered, whatever the SlowDAC does.   *)
UnfitMeansOffIfAnswered == []AllAnswered => UnfitMeansOff

(* Whatever timed out, died or was executed late before: when the          *)
(* conditions stay fit, growth_daq comes to observe with the outputs on.   *)
(* Two resumes in a row that start two threads are left out.               *)
FitMeansObserving ==
  <>[]fit => <>[](run = "observing" /\ AllOn) \/ <>(server = "undefined")
=============================================================================
