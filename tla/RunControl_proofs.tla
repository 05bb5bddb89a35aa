-------------------------- MODULE RunControl_proofs --------------------------
(***************************************************************************)
(* Theorems about RunManager, for any channels with a supply, any period   *)
(* of the housekeeping check and any number and kind of faults, and about  *)
(* StartStop, for any number of channels, any preset modes the host may    *)
(* set and any number of lost replies.                                     *)
(***************************************************************************)
EXTENDS RunManager, StartStop, TLAPS, SequenceTheorems

(***************************************************************************)
(* RunManager.                                                             *)
(***************************************************************************)

(* As long as every call is answered in time, all three programs run and   *)
(* no call is executed that was given up.                                  *)
NothingDown == AllAnswered => server = "serving" /\ up /\ late = {}

(* A run that begins found the outputs on, and while it boots the manager  *)
(* sleeps; it does not wake before the run is under way.                   *)
SuppliedFromTheStart ==
  AllAnswered => /\ run \in {"created", "booting"} => todo = << >>
                 /\ run \in {"created", "booting", "observing"} => AllOn

(* A resume that is to come is the last call of its round; no run is there *)
(* yet, and each channel is on or its on() comes before.                   *)
ResumeComesLast ==
  AllAnswered => \A n \in 1..Len(todo) : todo[n].op = "resume" =>
    /\ n = Len(todo) /\ run = "none"
    /\ \A ch \in Powered : \/ on_off_status[ch] = "on"
                           \/ \E k \in 1..n - 1 : todo[k] = ChannelCall("on", ch)

(* The outputs go off only after a pause that a run under way obeys.       *)
OffAfterPause ==
  AllAnswered => \A n \in 1..Len(todo) : todo[n].op = "offAll" =>
    /\ n = Len(todo)
    /\ \/ n = 1 /\ run \in {"stopping", "ending", "none"}
       \/ n = 2 /\ todo[1].op = "pause"

ManagerInv ==
  ManagerTypeOK /\ NothingDown /\ SuppliedFromTheStart /\ ResumeComesLast /\ OffAfterPause

USE ManagerAssumption DEF HvChannel, control, manager, hv

-----------------------------------------------------------------------------
(* A fault is recorded after the others, and only one of the SlowDAC       *)
(* leaves every call answered.                                             *)
LEMMA FaultRecorded ==
  ASSUME faults \in Seq(FaultKinds), Len(faults) <= MaxFaults, NEW kind, Fault(kind)
  PROVE  /\ faults' \in Seq(FaultKinds) /\ Len(faults') <= MaxFaults
         /\ prompt' = prompt /\ AllAnswered' => AllAnswered /\ kind = "spi"
<1>1. kind \in FaultKinds /\ faults' = Append(faults, kind) /\ Len(faults) < MaxFaults
  BY DEF Fault
<1>2. /\ faults' \in Seq(FaultKinds) /\ Len(faults') = Len(faults) + 1
      /\ \A k \in 1..Len(faults) : faults'[k] = faults[k]
      /\ faults'[Len(faults) + 1] = kind
  BY <1>1, AppendProperties
<1>3. Len(faults) \in Nat BY LenProperties
<1>4. prompt' = prompt /\ AllAnswered' => AllAnswered /\ kind = "spi"
  BY <1>2, <1>3 DEF AllAnswered
<1> QED BY <1>1, <1>2, <1>3, <1>4

(* A concatenation has the elements of the one and then of the other.      *)
Joins(r, s, t) ==
  /\ Len(s) \in Nat /\ Len(t) \in Nat /\ Len(r) = Len(s) + Len(t)
  /\ \A n \in 1..Len(s) : n \in 1..Len(r) /\ r[n] = s[n]
  /\ \A n \in 1..Len(t) : Len(s) + n \in 1..Len(r) /\ r[Len(s) + n] = t[n]
  /\ \A n \in 1..Len(r) : n \in 1..Len(s) \/ \E m \in 1..Len(t) : n = Len(s) + m

(* The elements of a concatenation.                                        *)
LEMMA ConcatElements ==
  ASSUME NEW S, NEW s \in Seq(S), NEW t \in Seq(S)
  PROVE  s \o t \in Seq(S) /\ Joins(s \o t, s, t)
<1>1. s \o t \in Seq(S) /\ Len(s) \in Nat /\ Len(t) \in Nat /\ Len(s \o t) = Len(s) + Len(t)
  BY ConcatProperties, LenProperties
<1>2. \A i \in 1..Len(s) + Len(t) : (s \o t)[i] = IF i <= Len(s) THEN s[i] ELSE t[i - Len(s)]
  BY ConcatProperties
<1>3. \A n \in 1..Len(s) : n \in 1..Len(s \o t) /\ (s \o t)[n] = s[n] BY <1>1, <1>2
<1>4. ASSUME NEW n \in 1..Len(t)
      PROVE Len(s) + n \in 1..Len(s \o t) /\ (s \o t)[Len(s) + n] = t[n]
  <2>1. Len(s) + n \in 1..Len(s) + Len(t) /\ ~(Len(s) + n <= Len(s)) /\ (Len(s) + n) - Len(s) = n
    BY <1>1
  <2> QED BY <1>1, <1>2, <2>1
<1>5. ASSUME NEW n \in 1..Len(s \o t), n \notin 1..Len(s)
      PROVE \E m \in 1..Len(t) : n = Len(s) + m
  <2>1. n - Len(s) \in 1..Len(t) /\ n = Len(s) + (n - Len(s)) BY <1>1, <1>5
  <2> QED BY <2>1
<1> QED BY <1>1, <1>3, <1>4, <1>5 DEF Joins

(* The calls for the high voltage of a channel.                            *)
LEMMA SetAndOnCalls ==
  ASSUME NEW ch \in HvChannel
  PROVE  /\ SetAndOn(ch) \in Seq(Calls)
         /\ \A n \in 1..Len(SetAndOn(ch)) : SetAndOn(ch)[n].op \in {"set", "on"}
         /\ ch \in Powered => \E k \in 1..Len(SetAndOn(ch)) : SetAndOn(ch)[k] = ChannelCall("on", ch)
<1> DEFINE both == <<ChannelCall("set", ch), ChannelCall("on", ch)>>
<1>1. both \in Seq(Calls) /\ << >> \in Seq(Calls) BY DEF Calls, ChannelCalls
<1>2. \A n \in 1..Len(both) : both[n].op \in {"set", "on"} BY DEF ChannelCall
<1>3. 2 \in 1..Len(both) /\ both[2] = ChannelCall("on", ch) OBVIOUS
<1>4. CASE ch \in Powered
  <2>1. SetAndOn(ch) = both BY <1>4 DEF SetAndOn
  <2> HIDE DEF both
  <2> QED BY <1>1, <1>2, <1>3, <2>1
<1>5. CASE ch \notin Powered
  <2>1. SetAndOn(ch) = << >> BY <1>5 DEF SetAndOn
  <2> QED BY <1>1, <1>5, <2>1
<1> QED BY <1>4, <1>5

(* hv_on() switches on every channel that has a supply, and nothing off.   *)
LEMMA HvOnCalls ==
  /\ HvOn \in Seq(Calls)
  /\ \A n \in 1..Len(HvOn) : HvOn[n].op \in {"set", "on", "hvLog"}
  /\ \A ch \in Powered : \E k \in 1..Len(HvOn) : HvOn[k] = ChannelCall("on", ch)
<1> DEFINE a == SetAndOn(0)
           b == SetAndOn(1)
           c == <<Call("hvLog")>>
           S == Calls
<1>1. 0 \in HvChannel /\ 1 \in HvChannel OBVIOUS
<1>2. a \in Seq(S) /\ b \in Seq(S) BY <1>1, SetAndOnCalls
<1>3. c \in Seq(S) /\ Len(c) = 1 /\ c[1].op = "hvLog" BY DEF Calls, Call
<1>4. HvOn = (a \o b) \o c BY DEF HvOn
<1>5. \A n \in 1..Len(a) : a[n].op \in {"set", "on"} BY <1>1, SetAndOnCalls
<1>6. \A n \in 1..Len(b) : b[n].op \in {"set", "on"} BY <1>1, SetAndOnCalls
<1>7. 0 \in Powered => \E k \in 1..Len(a) : a[k] = ChannelCall("on", 0) BY <1>1, SetAndOnCalls
<1>8. 1 \in Powered => \E k \in 1..Len(b) : b[k] = ChannelCall("on", 1) BY <1>1, SetAndOnCalls
<1> HIDE DEF a, b, c, S
<1> DEFINE ab == a \o b
<1>9. ab \in Seq(S) /\ Joins(ab, a, b) BY <1>2, ConcatElements
<1> HIDE DEF ab
<1>10. HvOn \in Seq(S) /\ Joins(HvOn, ab, c)
  <2>1. HvOn = ab \o c BY <1>4 DEF ab
  <2> QED BY <1>3, <1>9, <2>1, ConcatElements
<1>11. \A n \in 1..Len(ab) : ab[n].op \in {"set", "on"}
  <2> TAKE n \in 1..Len(ab)
  <2>1. CASE n \in 1..Len(a)
    <3>1. ab[n] = a[n] BY <1>9, <2>1 DEF Joins
    <3> QED BY <1>5, <2>1, <3>1
  <2>2. ASSUME NEW m \in 1..Len(b), n = Len(a) + m PROVE ab[n].op \in {"set", "on"}
    <3>1. ab[n] = b[m] BY <1>9, <2>2 DEF Joins
    <3> QED BY <1>6, <3>1
  <2> QED BY <1>9, <2>1, <2>2 DEF Joins
<1>12. \A ch \in Powered : \E k \in 1..Len(ab) : ab[k] = ChannelCall("on", ch)
  <2>1. 0 \in Powered => \E k \in 1..Len(ab) : ab[k] = ChannelCall("on", 0)
    BY <1>7, <1>9 DEF Joins
  <2>2. 1 \in Powered => \E k \in 1..Len(ab) : ab[k] = ChannelCall("on", 1)
    BY <1>8, <1>9 DEF Joins
  <2>3. \A ch \in Powered : ch = 0 \/ ch = 1 OBVIOUS
  <2> QED BY <2>1, <2>2, <2>3
<1>13. \A n \in 1..Len(HvOn) : HvOn[n].op \in {"set", "on", "hvLog"}
  BY <1>3, <1>10, <1>11 DEF Joins
<1>14. \A ch \in Powered : \E k \in 1..Len(HvOn) : HvOn[k] = ChannelCall("on", ch)
  BY <1>10, <1>12 DEF Joins
<1> QED BY <1>10, <1>13, <1>14 DEF S

(* A run is started after hv_on(), the channels that have a supply first.  *)
LEMMA StartRunCalls ==
  /\ StartRun \in Seq(Calls)
  /\ \A n \in 1..Len(StartRun) : StartRun[n].op \in {"set", "on", "hvLog", "resume"}
  /\ \E n \in 1..Len(StartRun) : StartRun[n].op = "resume"
  /\ \A n \in 1..Len(StartRun) : StartRun[n].op = "resume" =>
       /\ n = Len(StartRun)
       /\ \A ch \in Powered : \E k \in 1..n - 1 : StartRun[k] = ChannelCall("on", ch)
<1> DEFINE c == <<Call("resume")>>
<1>1. c \in Seq(Calls) /\ Len(c) = 1 /\ c[1].op = "resume" BY DEF Calls, DaqCalls, Call
<1>2. StartRun = HvOn \o c BY DEF StartRun
<1> HIDE DEF c
<1>3. StartRun \in Seq(Calls) /\ Joins(StartRun, HvOn, c)
  BY <1>1, <1>2, HvOnCalls, ConcatElements
<1>4. \A n \in 1..Len(StartRun) : StartRun[n].op \in {"set", "on", "hvLog", "resume"}
  BY <1>1, <1>3, HvOnCalls DEF Joins
<1>6. \E n \in 1..Len(StartRun) : StartRun[n].op = "resume" BY <1>1, <1>3 DEF Joins
<1>5. ASSUME NEW n \in 1..Len(StartRun), StartRun[n].op = "resume"
      PROVE  /\ n = Len(StartRun)
             /\ \A ch \in Powered : \E k \in 1..n - 1 : StartRun[k] = ChannelCall("on", ch)
  <2>1. n = Len(HvOn) + 1 BY <1>1, <1>3, <1>5, HvOnCalls DEF Joins
  <2>2. n - 1 = Len(HvOn) /\ n = Len(StartRun) BY <1>1, <1>3, <2>1 DEF Joins
  <2> QED BY <1>3, <2>2, HvOnCalls DEF Joins
<1> QED BY <1>3, <1>4, <1>5, <1>6

-----------------------------------------------------------------------------
(* What a call does to the types and to the record of the faults.          *)
LEMMA EffectTypes ==
  ASSUME ManagerTypeOK, NEW call \in Calls, Effect(call)
  PROVE  /\ server' \in Daq!Servers /\ run' \in Daq!Phases
         /\ on_off_status' \in [HvChannel -> {"on", "off"}] /\ dac' \in [HvChannel -> BOOLEAN]
         /\ faults' = faults \/ Fault("spi")
<1> USE DEF ManagerTypeOK
<1>1. CASE call.op = "resume" /\ Daq!Resume /\ UNCHANGED <<hv, faults>>
  BY <1>1 DEF Daq!Resume, Daq!Servers, Daq!Phases, Daq!control, Daq!Paused
<1>2. CASE call.op = "pause" /\ Daq!Pause /\ UNCHANGED <<hv, faults>>
  BY <1>2 DEF Daq!Pause, Daq!Servers, Daq!Phases, Daq!Stopped
<1>3. CASE SetDac(call.ch)
  <2>1. dac' \in [HvChannel -> BOOLEAN] /\ (faults' = faults \/ Fault("spi")) BY <1>3, SMTT(30) DEF SetDac
  <2>2. UNCHANGED <<server, run, on_off_status>> BY <1>3 DEF SetDac
  <2> QED BY <2>1, <2>2
<1>4. CASE SwitchOutput(call.ch) BY <1>4 DEF SwitchOutput
<1>5. CASE OffAll
  <2>1. dac' \in [HvChannel -> BOOLEAN] /\ (faults' = faults \/ Fault("spi")) BY <1>5 DEF OffAll
  <2>2. UNCHANGED <<server, run>> /\ on_off_status' \in [HvChannel -> {"on", "off"}]
    BY <1>5 DEF OffAll
  <2> QED BY <2>1, <2>2
<1>6. CASE UNCHANGED <<control, hv, faults>> BY <1>6
<1> QED BY <1>1, <1>2, <1>3, <1>4, <1>5, <1>6 DEF Effect

(* The calls the manager makes next.                                       *)
LEMMA PlansTyped ==
  /\ << >> \in Seq(Calls) /\ SwitchIfLong \subseteq Seq(Calls)
  /\ AfterStatus \in Seq(Calls) /\ AfterHvStatus \in Seq(Calls)
  /\ <<Call("hk"), Call("status")>> \in Seq(Calls) /\ <<Call("status")>> \in Seq(Calls)
  /\ \A more \in SwitchIfLong : AfterHvStatus \o more \in Seq(Calls)
<1>1. /\ << >> \in Seq(Calls) /\ <<Call("hk"), Call("status")>> \in Seq(Calls)
      /\ <<Call("status")>> \in Seq(Calls) /\ <<Call("switch")>> \in Seq(Calls)
      /\ <<Call("hvStatus")>> \in Seq(Calls) /\ ShutDown \in Seq(Calls)
  BY DEF Calls, DaqCalls, Call, ShutDown
<1>2. SwitchIfLong \subseteq Seq(Calls) BY <1>1 DEF SwitchIfLong
<1>3. AfterStatus \in Seq(Calls) BY <1>1, StartRunCalls DEF AfterStatus
<1>4. AfterHvStatus \in Seq(Calls) BY <1>1, HvOnCalls DEF AfterHvStatus
<1>5. \A more \in SwitchIfLong : AfterHvStatus \o more \in Seq(Calls)
  BY <1>2, <1>4, ConcatElements
<1> QED BY <1>1, <1>2, <1>3, <1>4, <1>5

(* The call made now, and those after it.                                  *)
LEMMA HeadAndTail ==
  ASSUME todo \in Seq(Calls), todo # << >>
  PROVE  /\ Head(todo) \in Calls /\ Head(todo) = todo[1] /\ Tail(todo) \in Seq(Calls)
         /\ Len(todo) \in Nat \ {0} /\ Len(Tail(todo)) = Len(todo) - 1
         /\ \A n \in 1..Len(Tail(todo)) : n + 1 \in 1..Len(todo) /\ Tail(todo)[n] = todo[n + 1]
<1>1. Head(todo) \in Calls /\ Tail(todo) \in Seq(Calls) /\ Len(Tail(todo)) = Len(todo) - 1
  BY HeadTailProperties
<1>2. \A n \in 1..Len(Tail(todo)) : Tail(todo)[n] = todo[n + 1] BY HeadTailProperties
<1>3. Len(todo) \in Nat \ {0} BY EmptySeq
<1>4. Head(todo) = todo[1] OBVIOUS
<1> QED BY <1>1, <1>2, <1>3, <1>4

(* Every step of the manager and of the world keeps the types.             *)
LEMMA ManagerTypeOKStep == ManagerTypeOK /\ [ManagerNext]_managerVars => ManagerTypeOK'
<1> SUFFICES ASSUME ManagerTypeOK, [ManagerNext]_managerVars PROVE ManagerTypeOK'
  OBVIOUS
<1> USE DEF ManagerTypeOK
<1> DEFINE F == faults' \in Seq(FaultKinds) /\ Len(faults') <= MaxFaults
<1>0. /\ \A kind : Fault(kind) => F
      /\ faults' = faults => F
  BY FaultRecorded
<1> HIDE DEF F
<1>1. CASE Wake
  <2>1. todo' \in Seq(Calls) BY <1>1, PlansTyped DEF Wake
  <2>2. time_since_last_hk_check' \in 0..HkRounds BY <1>1 DEF Wake
  <2> QED BY <1>1, <2>1, <2>2 DEF Wake
<1>2. CASE Answered
  <2>1. Head(todo) \in Calls /\ Tail(todo) \in Seq(Calls) BY <1>2, HeadAndTail DEF Answered
  <2>2. /\ server' \in Daq!Servers /\ run' \in Daq!Phases
        /\ on_off_status' \in [HvChannel -> {"on", "off"}] /\ dac' \in [HvChannel -> BOOLEAN]
        /\ faults' = faults \/ Fault("spi")
    BY <1>2, <2>1, EffectTypes DEF Answered
  <2>3. F BY <1>0, <2>2
  <2>4. todo' \in Seq(Calls) BY <1>2, <2>1, PlansTyped DEF Answered
  <2>5. daq_run_can_be_started' \in BOOLEAN BY <1>2 DEF Answered
  <2>6. UNCHANGED <<fit, time_since_last_hk_check, up, late, prompt>> BY <1>2 DEF Answered
  <2> QED BY <2>2, <2>3, <2>4, <2>5, <2>6 DEF F
<1>3. CASE Failed
  <2>1. Head(todo) \in Calls /\ Tail(todo) \in Seq(Calls) BY <1>3, HeadAndTail DEF Failed
  <2>2. F /\ late' \subseteq Calls BY <1>0, <1>3, <2>1 DEF Failed
  <2>3. todo' \in Seq(Calls) BY <1>3, <2>1, PlansTyped DEF Failed
  <2>4. daq_run_can_be_started' \in BOOLEAN BY <1>3 DEF Failed
  <2>5. UNCHANGED <<control, fit, time_since_last_hk_check, up, hv, prompt>> BY <1>3 DEF Failed
  <2> QED BY <2>2, <2>3, <2>4, <2>5 DEF F
<1>4. CASE ExecutedLate
  <2>1. PICK call \in late : /\ Effect(call) /\ late' = late \ {call}
                             /\ UNCHANGED <<fit, manager, up, prompt>>
    BY <1>4 DEF ExecutedLate
  <2>2. /\ server' \in Daq!Servers /\ run' \in Daq!Phases
        /\ on_off_status' \in [HvChannel -> {"on", "off"}] /\ dac' \in [HvChannel -> BOOLEAN]
        /\ faults' = faults \/ Fault("spi")
    BY <2>1, EffectTypes
  <2>3. F BY <1>0, <2>2
  <2> QED BY <2>1, <2>2, <2>3 DEF F
<1>5. CASE DaqAdvances \/ DaqRestarts
  <2>1. server' \in Daq!Servers /\ run' \in Daq!Phases
    BY <1>5 DEF DaqAdvances, DaqRestarts, Daq!Advance, Daq!Restart, Daq!Servers, Daq!Phases
  <2> QED BY <1>5, <2>1 DEF DaqAdvances, DaqRestarts
<1>6. CASE ConditionsChange
  <2>1. fit' \in BOOLEAN BY <1>6 DEF ConditionsChange
  <2> QED BY <1>6, <2>1 DEF ConditionsChange
<1>7. CASE DaqCrashes
  <2>1. server' \in Daq!Servers /\ run' \in Daq!Phases
    BY <1>7 DEF DaqCrashes, Daq!Crash, Daq!Servers, Daq!Phases
  <2>2. F /\ late' \subseteq Calls BY <1>0, <1>7 DEF DaqCrashes
  <2> QED BY <1>7, <2>1, <2>2 DEF DaqCrashes, F
<1>8. CASE ControllerCrashes
  <2>1. F /\ late' \subseteq Calls /\ up' \in BOOLEAN BY <1>0, <1>8 DEF ControllerCrashes
  <2> QED BY <1>8, <2>1 DEF ControllerCrashes, F
<1>9. CASE ControllerRestarts
  <2>1. up' \in BOOLEAN BY <1>9 DEF ControllerRestarts
  <2>2. on_off_status' \in [HvChannel -> {"on", "off"}] /\ dac' \in [HvChannel -> BOOLEAN]
    BY <1>9 DEF ControllerRestarts
  <2> QED BY <1>9, <2>1, <2>2 DEF ControllerRestarts
<1>10. CASE ManagerRestarts
  <2>1. F /\ daq_run_can_be_started' \in BOOLEAN BY <1>0, <1>10 DEF ManagerRestarts
  <2> QED BY <1>10, <2>1, PlansTyped DEF ManagerRestarts, F
<1>11. CASE UNCHANGED managerVars BY <1>11 DEF managerVars
<1> QED BY <1>1, <1>2, <1>3, <1>4, <1>5, <1>6, <1>7, <1>8, <1>9, <1>10, <1>11
        DEF ManagerNext, Manager, God, World

(* An answer to hv.status() leads to outputs switched on and a new file.   *)
LEMMA HvStatusLeadsTo ==
  ASSUME NEW more \in SwitchIfLong, NEW n \in 1..Len(AfterHvStatus \o more)
  PROVE  (AfterHvStatus \o more)[n].op \in {"set", "on", "hvLog", "switch"}
<1> DEFINE s == AfterHvStatus
           r == s \o more
<1>1. s \in Seq(Calls) /\ more \in Seq(Calls) BY PlansTyped
<1>2. \A k \in 1..Len(s) : s[k].op \in {"set", "on", "hvLog", "switch"}
  BY HvOnCalls DEF AfterHvStatus
<1>3. \A k \in 1..Len(more) : more[k].op \in {"set", "on", "hvLog", "switch"}
  <2>1. CASE more = << >> BY <2>1
  <2>2. CASE more = <<Call("switch")>> BY <2>2 DEF Call
  <2> QED BY <2>1, <2>2 DEF SwitchIfLong
<1> HIDE DEF s
<1>4. Joins(r, s, more) BY <1>1, ConcatElements
<1>5. CASE n \in 1..Len(s)
  <2>1. r[n] = s[n] BY <1>4, <1>5 DEF Joins
  <2> QED BY <1>2, <1>5, <2>1 DEF s
<1>6. ASSUME NEW m \in 1..Len(more), n = Len(s) + m
      PROVE r[n].op \in {"set", "on", "hvLog", "switch"}
  <2>1. r[n] = more[m] BY <1>4, <1>6 DEF Joins
  <2> QED BY <1>3, <2>1
<1>7. n \in 1..Len(r) BY DEF s
<1>8. n \in 1..Len(s) \/ \E m \in 1..Len(more) : n = Len(s) + m BY <1>4, <1>7 DEF Joins
<1> QED BY <1>5, <1>6, <1>8 DEF s

(* As long as every call is answered, nothing but the SlowDAC fails.       *)
LEMMA AnsweredSoFar ==
  ASSUME ManagerTypeOK, [ManagerNext]_managerVars, AllAnswered'
  PROVE  /\ AllAnswered
         /\ faults' = faults \/ Fault("spi")
         /\ ~Fault("timeout") /\ ~Fault("crash")
<1> USE DEF ManagerTypeOK
<1>0. prompt' = prompt
  BY DEF ManagerNext, Manager, God, World, Wake, Answered, Failed, ExecutedLate, DaqAdvances,
         DaqRestarts, ControllerRestarts, ConditionsChange, DaqCrashes, ControllerCrashes,
         ManagerRestarts, managerVars
<1>1. ASSUME NEW kind, Fault(kind) PROVE AllAnswered /\ kind = "spi"
  <2>1. faults \in Seq(FaultKinds) /\ Len(faults) <= MaxFaults OBVIOUS
  <2>2. prompt' = prompt /\ AllAnswered' => AllAnswered /\ kind = "spi"
    BY <1>1, <2>1, FaultRecorded
  <2> QED BY <1>0, <2>2
<1>2. ~Fault("timeout") /\ ~Fault("crash") BY <1>1
<1>3. faults' = faults \/ Fault("spi")
  <2>1. CASE Answered
    <3>1. Head(todo) \in Calls BY <2>1, HeadAndTail DEF Answered
    <3> QED BY <2>1, <3>1, EffectTypes DEF Answered
  <2>2. CASE Failed BY <1>2, <2>2 DEF Failed
  <2>3. CASE ExecutedLate
    <3>1. PICK call \in late : Effect(call) BY <2>3 DEF ExecutedLate
    <3> QED BY <3>1, EffectTypes
  <2>4. CASE Wake BY <2>4 DEF Wake
  <2>5. CASE DaqAdvances \/ God BY <2>5 DEF DaqAdvances, God, DaqRestarts, ControllerRestarts
  <2>6. CASE World BY <1>2, <2>6
    DEF World, ConditionsChange, DaqCrashes, ControllerCrashes, ManagerRestarts
  <2>7. CASE UNCHANGED managerVars BY <2>7 DEF managerVars
  <2> QED BY <2>1, <2>2, <2>3, <2>4, <2>5, <2>6, <2>7 DEF ManagerNext, Manager
<1>4. faults' = faults => AllAnswered BY <1>0 DEF AllAnswered
<1> QED BY <1>1, <1>2, <1>3, <1>4

(* What an answered call does to the run and to the outputs.               *)
LEMMA EffectOnRun ==
  ASSUME ManagerTypeOK, NEW call \in Calls, Effect(call), server = "serving"
  PROVE  /\ run' # run => \/ call.op = "resume" /\ run = "none" /\ run' = "created"
                          \/ call.op = "pause" /\ run = "observing" /\ run' = "stopping"
         /\ call.op = "resume" /\ run = "none" => run' = "created"
         /\ call.op = "pause" => run' # "observing"
         /\ server' # "serving" => call.op = "resume" /\ run = "created"
         /\ call.op # "offAll" =>
              \A ch \in HvChannel : on_off_status[ch] = "on" => on_off_status'[ch] = "on"
         /\ \A ch \in HvChannel : call = ChannelCall("on", ch) => on_off_status'[ch] = "on"
<1> USE DEF ManagerTypeOK
<1>1. CASE call.op = "resume" /\ Daq!Resume /\ UNCHANGED <<hv, faults>>
  BY <1>1 DEF Daq!Resume, Daq!control, Daq!Paused, ChannelCall
<1>2. CASE call.op = "pause" /\ Daq!Pause /\ UNCHANGED <<hv, faults>>
  BY <1>2 DEF Daq!Pause, Daq!Stopped, ChannelCall
<1>3. CASE call.op = "set" /\ SetDac(call.ch) BY <1>3 DEF SetDac, ChannelCall
<1>4. CASE call.op = "on" /\ SwitchOutput(call.ch) BY <1>4 DEF SwitchOutput, ChannelCall
<1>5. CASE call.op = "offAll" /\ OffAll BY <1>5 DEF OffAll, ChannelCall
<1>6. CASE call.op \in {"hk", "status", "switch", "hvStatus", "hvLog"} /\ UNCHANGED <<control, hv, faults>>
  BY <1>6 DEF ChannelCall
<1> QED BY <1>1, <1>2, <1>3, <1>4, <1>5, <1>6 DEF Effect

(* The calls of a round that an answer leaves, or leads to.                *)
LEMMA AnsweredStep ==
  ASSUME ManagerInv, AllAnswered, Answered
  PROVE  /\ server' = "serving" /\ up' /\ late' = {}
         /\ SuppliedFromTheStart' /\ ResumeComesLast' /\ OffAfterPause'
<1> DEFINE call == Head(todo)
<1> USE DEF ManagerInv, ManagerTypeOK
<1>1. /\ todo # << >> /\ call \in Calls /\ call = todo[1] /\ Tail(todo) \in Seq(Calls)
      /\ Len(todo) \in Nat \ {0} /\ Len(Tail(todo)) = Len(todo) - 1
      /\ \A n \in 1..Len(Tail(todo)) : n + 1 \in 1..Len(todo) /\ Tail(todo)[n] = todo[n + 1]
  BY HeadAndTail DEF Answered
<1>2. server = "serving" /\ up /\ late = {} BY DEF NothingDown
<1>3. /\ run' # run => \/ call.op = "resume" /\ run = "none" /\ run' = "created"
                       \/ call.op = "pause" /\ run = "observing" /\ run' = "stopping"
      /\ call.op = "pause" => run' # "observing"
      /\ server' # "serving" => call.op = "resume" /\ run = "created"
      /\ call.op # "offAll" =>
           \A ch \in HvChannel : on_off_status[ch] = "on" => on_off_status'[ch] = "on"
      /\ \A ch \in HvChannel : call = ChannelCall("on", ch) => on_off_status'[ch] = "on"
  BY <1>1, <1>2, EffectOnRun DEF Answered
<1>4. run \in {"none", "observing", "stopping", "ending"}
  BY <1>1 DEF SuppliedFromTheStart, Daq!Phases
<1>5. 1 \in 1..Len(todo) BY <1>1
<1>6. call.op = "resume" => /\ Len(todo) = 1 /\ run = "none" /\ AllOn
  <2>1. call.op = "resume" =>
          /\ 1 = Len(todo) /\ run = "none"
          /\ \A ch \in Powered : \/ on_off_status[ch] = "on"
                                 \/ \E k \in 1..1 - 1 : todo[k] = ChannelCall("on", ch)
    BY <1>1, <1>5 DEF ResumeComesLast
  <2>2. 1..1 - 1 = {} OBVIOUS
  <2> QED BY <2>1, <2>2 DEF AllOn
<1>7. call.op = "offAll" => Len(todo) = 1 /\ run \in {"stopping", "ending", "none"}
  BY <1>1, <1>5 DEF OffAfterPause
<1>8. \/ call.op = "status" /\ todo' = AfterStatus
      \/ call.op = "hvStatus" /\ \E more \in SwitchIfLong : todo' = AfterHvStatus \o more
      \/ call.op \notin {"status", "hvStatus"} /\ todo' = Tail(todo)
  BY DEF Answered
<1>9. UNCHANGED <<up, late>> BY DEF Answered
<1>10. AllOn /\ call.op # "offAll" => AllOn' BY <1>3 DEF AllOn
<1> HIDE DEF call
<1>11. SuppliedFromTheStart'
  <2>1. CASE run' = "created"
    <3>1. call.op = "resume" /\ Len(todo) = 1 /\ AllOn BY <1>3, <1>4, <1>6, <2>1
    <3>2. todo' = Tail(todo) BY <1>8, <3>1
    <3>3. todo' = << >> BY <1>1, <3>1, <3>2, EmptySeq
    <3> QED BY <1>10, <3>1, <3>3 DEF SuppliedFromTheStart
  <2>2. CASE run' = "observing"
    <3>1. run = "observing" /\ call.op # "offAll" BY <1>3, <1>7, <2>2
    <3> QED BY <1>10, <2>2, <3>1 DEF SuppliedFromTheStart
  <2>3. CASE run' \notin {"created", "observing"}
    <3>1. run' # "booting" BY <1>3, <1>4
    <3> QED BY <2>3, <3>1 DEF SuppliedFromTheStart
  <2> QED BY <2>1, <2>2, <2>3
<1>12. CASE call.op = "status"
  <2>1. run' = run /\ todo' = AfterStatus BY <1>3, <1>8, <1>12
  <2>2. CASE AfterStatus = StartRun /\ Daq!Paused
    <3>1. run' = "none" BY <1>4, <2>1, <2>2 DEF Daq!Paused
    <3>2. ResumeComesLast' BY <2>1, <2>2, <3>1, StartRunCalls DEF ResumeComesLast
    <3>3. OffAfterPause' BY <2>1, <2>2, StartRunCalls DEF OffAfterPause
    <3> QED BY <1>2, <1>3, <1>9, <1>11, <1>12, <3>2, <3>3
  <2>3. CASE AfterStatus \in {<< >>, <<Call("hvStatus")>>, ShutDown}
    <3>1. ASSUME AfterStatus = << >>
          PROVE  ResumeComesLast' /\ OffAfterPause'
      BY <2>1, <3>1 DEF ResumeComesLast, OffAfterPause
    <3>2. ASSUME AfterStatus = <<Call("hvStatus")>>
          PROVE  ResumeComesLast' /\ OffAfterPause'
      <4>1. \A n \in 1..Len(todo') : todo'[n].op = "hvStatus" BY <2>1, <3>2 DEF Call
      <4> QED BY <4>1 DEF ResumeComesLast, OffAfterPause
    <3>3. ASSUME AfterStatus = ShutDown
          PROVE  ResumeComesLast' /\ OffAfterPause'
      <4>1. /\ Len(todo') = 2 /\ todo'[1].op = "pause" /\ todo'[2].op = "offAll"
            /\ \A n \in 1..Len(todo') : n = 1 \/ n = 2
        BY <2>1, <3>3 DEF ShutDown, Call
      <4> QED BY <4>1 DEF ResumeComesLast, OffAfterPause
    <3>4. ResumeComesLast' /\ OffAfterPause' BY <2>3, <3>1, <3>2, <3>3
    <3> QED BY <1>2, <1>3, <1>9, <1>11, <1>12, <3>4
  <2> QED BY <2>2, <2>3 DEF AfterStatus
<1>13. CASE call.op = "hvStatus"
  <2>1. PICK more \in SwitchIfLong : todo' = AfterHvStatus \o more BY <1>8, <1>13
  <2>2. \A n \in 1..Len(todo') : todo'[n].op \notin {"resume", "offAll"}
    BY <2>1, HvStatusLeadsTo
  <2>3. ResumeComesLast' BY <2>2 DEF ResumeComesLast
  <2>4. OffAfterPause' BY <2>2 DEF OffAfterPause
  <2> QED BY <1>2, <1>3, <1>9, <1>11, <1>13, <2>3, <2>4
<1>14. CASE call.op \notin {"status", "hvStatus"}
  <2>1. todo' = Tail(todo) /\ Len(todo') = Len(todo) - 1 BY <1>1, <1>8, <1>14
  <2>2. ASSUME NEW n \in 1..Len(todo'), todo'[n].op = "resume"
        PROVE  /\ n = Len(todo') /\ run' = "none"
               /\ \A ch \in Powered : \/ on_off_status'[ch] = "on"
                                      \/ \E k \in 1..n - 1 : todo'[k] = ChannelCall("on", ch)
    <3>1. n + 1 \in 1..Len(todo) /\ todo[n + 1].op = "resume" BY <1>1, <2>1, <2>2
    <3>2. /\ n + 1 = Len(todo) /\ run = "none"
          /\ \A ch \in Powered : \/ on_off_status[ch] = "on"
                                 \/ \E k \in 1..(n + 1) - 1 : todo[k] = ChannelCall("on", ch)
      BY <3>1 DEF ResumeComesLast
    <3>3. Len(todo) # 1 /\ n = Len(todo')
      <4>1. Len(todo) \in Nat /\ n \in Nat /\ n >= 1 BY <1>1, <2>1
      <4>2. n + 1 = Len(todo) BY <3>2
      <4> QED BY <2>1, <4>1, <4>2
    <3>4. call.op \notin {"resume", "offAll"} /\ run' = "none" BY <1>3, <1>6, <1>7, <3>2, <3>3
    <3>5. ASSUME NEW ch \in Powered, on_off_status'[ch] # "on"
          PROVE  \E k \in 1..n - 1 : todo'[k] = ChannelCall("on", ch)
      <4>1. ch \in HvChannel /\ on_off_status[ch] # "on" BY <1>3, <3>4, <3>5
      <4>2. PICK k \in 1..(n + 1) - 1 : todo[k] = ChannelCall("on", ch) BY <3>2, <4>1
      <4>3. k # 1 BY <1>1, <1>3, <3>5, <4>1, <4>2
      <4>4. k - 1 \in 1..n - 1 /\ k - 1 \in 1..Len(todo') /\ (k - 1) + 1 = k BY <2>2, <4>2, <4>3
      <4>5. todo'[k - 1] = todo[k] BY <1>1, <2>1, <4>4
      <4> QED BY <4>2, <4>4, <4>5
    <3> QED BY <3>3, <3>4, <3>5
  <2>3. ResumeComesLast' BY <2>2 DEF ResumeComesLast
  <2>4. ASSUME NEW n \in 1..Len(todo'), todo'[n].op = "offAll"
        PROVE  /\ n = Len(todo')
               /\ n = 1 /\ run' \in {"stopping", "ending", "none"}
    <3>1. n + 1 \in 1..Len(todo) /\ todo[n + 1].op = "offAll" BY <1>1, <2>1, <2>4
    <3>2. n + 1 = Len(todo) /\ n + 1 = 2 /\ todo[1].op = "pause"
      BY <2>4, <3>1 DEF OffAfterPause
    <3>3. call.op = "pause" BY <1>1, <3>2
    <3>4. n = 1 /\ n = Len(todo')
      <4>1. n \in Int /\ Len(todo) = 2 BY <3>2
      <4> QED BY <2>1, <3>2, <4>1
    <3>5. run' \in {"stopping", "ending", "none"} BY <1>3, <1>4, <3>3
    <3> QED BY <3>4, <3>5
  <2>5. OffAfterPause' BY <2>4 DEF OffAfterPause
  <2>6. server' = "serving" BY <1>3, <1>6
  <2> QED BY <1>2, <1>9, <1>11, <2>3, <2>5, <2>6
<1> QED BY <1>12, <1>13, <1>14

(* Every step keeps the outputs on for the run, as long as every call is   *)
(* answered.                                                               *)
LEMMA SupplyStep ==
  ManagerInv /\ [ManagerNext]_managerVars =>
    NothingDown' /\ SuppliedFromTheStart' /\ ResumeComesLast' /\ OffAfterPause'
<1> DEFINE P == NothingDown' /\ SuppliedFromTheStart' /\ ResumeComesLast' /\ OffAfterPause'
<1> SUFFICES ASSUME ManagerInv, [ManagerNext]_managerVars, AllAnswered' PROVE P
  BY DEF NothingDown, SuppliedFromTheStart, ResumeComesLast, OffAfterPause
<1>1. ManagerTypeOK BY DEF ManagerInv
<1>2. AllAnswered /\ ~Fault("timeout") /\ ~Fault("crash") BY <1>1, AnsweredSoFar
<1>3. server = "serving" /\ up /\ late = {} BY <1>2 DEF ManagerInv, NothingDown
<1> USE DEF ManagerInv, NothingDown, SuppliedFromTheStart, ResumeComesLast, OffAfterPause, AllOn
<1>4. CASE Wake
  <2>1. run \in {"none", "observing"} BY <1>2, <1>4 DEF Wake, AllAnswered
  <2>2. todo' \in {<<Call("hk"), Call("status")>>, <<Call("status")>>} BY <1>4 DEF Wake
  <2>3. \A n \in 1..Len(todo') : todo'[n].op \notin {"resume", "offAll"} BY <2>2 DEF Call
  <2>4. UNCHANGED <<server, run, up, late, on_off_status>> BY <1>4 DEF Wake
  <2> QED BY <1>2, <1>3, <2>1, <2>3, <2>4
<1>5. CASE Answered BY <1>2, <1>5, AnsweredStep
<1>6. CASE Failed
  <2>1. CanAnswer(Head(todo)) BY <1>3 DEF CanAnswer
  <2> QED BY <1>2, <1>6, <2>1 DEF Failed
<1>7. CASE ExecutedLate BY <1>3, <1>7 DEF ExecutedLate
<1>8. CASE DaqAdvances
  <2>1. UNCHANGED <<server, todo, up, late, on_off_status>>
    BY <1>8 DEF DaqAdvances, Daq!Advance
  <2>2. \/ run = "created" /\ run' = "booting"
        \/ run = "booting" /\ run' = "observing"
        \/ run = "stopping" /\ run' = "ending"
        \/ run = "ending" /\ run' = "none"
    BY <1>8 DEF DaqAdvances, Daq!Advance
  <2> QED BY <1>2, <1>3, <2>1, <2>2
<1>9. CASE DaqRestarts \/ ControllerRestarts
  BY <1>3, <1>9 DEF DaqRestarts, ControllerRestarts, Daq!Restart
<1>10. CASE ConditionsChange BY <1>2, <1>10 DEF ConditionsChange
<1>11. CASE DaqCrashes \/ ControllerCrashes \/ ManagerRestarts
  BY <1>2, <1>11 DEF DaqCrashes, ControllerCrashes, ManagerRestarts
<1>12. CASE UNCHANGED managerVars BY <1>2, <1>12 DEF managerVars
<1> QED BY <1>4, <1>5, <1>6, <1>7, <1>8, <1>9, <1>10, <1>11, <1>12
        DEF ManagerNext, Manager, God, World

-----------------------------------------------------------------------------
(* The programs start in the invariant.                                    *)
LEMMA InitManagerInv == ManagerInit => ManagerInv
<1> SUFFICES ASSUME ManagerInit PROVE ManagerInv
  OBVIOUS
<1> USE DEF ManagerInit
<1>1. ManagerTypeOK
  <2>1. /\ fit \in BOOLEAN /\ up \in BOOLEAN /\ daq_run_can_be_started \in BOOLEAN
        /\ prompt \in BOOLEAN /\ dac \in [HvChannel -> BOOLEAN]
    OBVIOUS
  <2>2. server \in Daq!Servers /\ run \in Daq!Phases BY DEF Daq!Servers, Daq!Phases
  <2>3. todo \in Seq(Calls) /\ faults \in Seq(FaultKinds) /\ Len(faults) <= MaxFaults
    BY EmptySeq
  <2> QED BY <2>1, <2>2, <2>3 DEF ManagerTypeOK
<1>2. NothingDown /\ SuppliedFromTheStart BY DEF NothingDown, SuppliedFromTheStart
<1>3. ResumeComesLast /\ OffAfterPause BY DEF ResumeComesLast, OffAfterPause
<1> QED BY <1>1, <1>2, <1>3 DEF ManagerInv

(* The inductive invariant holds.                                          *)
THEOREM ManagerInvariance == ManagerSpec => []ManagerInv
<1>1. ManagerInv /\ [ManagerNext]_managerVars => ManagerInv'
  BY ManagerTypeOKStep, SupplyStep DEF ManagerInv
<1> QED BY InitManagerInv, <1>1, PTL DEF ManagerSpec

(* Every reachable state of the manager, the controller and growth_daq is  *)
(* type-correct.                                                           *)
THEOREM ManagerTypeCorrect == ManagerSpec => []ManagerTypeOK
<1>1. ManagerInv => ManagerTypeOK BY DEF ManagerInv
<1> QED BY ManagerInvariance, <1>1, PTL

(* Events are recorded only with the high voltage on, as long as every     *)
(* call is answered, whatever the conditions do and however often a write  *)
(* to the SlowDAC fails.                                                   *)
THEOREM NoRunWithoutHv == ManagerSpec => []ObservesWithHv
<1>1. ManagerInv => ObservesWithHv BY DEF ManagerInv, SuppliedFromTheStart, ObservesWithHv
<1> QED BY ManagerInvariance, <1>1, PTL

-----------------------------------------------------------------------------
(* What the calls of a round say of the run: a pause comes first and is    *)
(* followed by the offAll, an output is switched on for a run under way or *)
(* one that is to be resumed, what a status leads to is not known yet, and *)
(* while a run ends nothing but the offAll is left to do.                  *)
PlanFitsRun ==
  AllAnswered => \A n \in 1..Len(todo) :
    /\ todo[n].op = "pause" => n = 1 /\ Len(todo) = 2 /\ todo[2].op = "offAll"
    /\ todo[n].op = "on" =>
         run = "observing" \/ \E k \in 1..Len(todo) : todo[k].op = "resume"
    /\ todo[n].op \in {"status", "hvStatus"} => n = Len(todo)
    /\ todo[n].op = "hvStatus" => run = "observing"
    /\ run \in {"stopping", "ending"} => todo[n].op = "offAll"

(* An output is on only for a run, or for one that is to be resumed or has *)
(* just been paused.                                                       *)
HvOnlyForARun ==
  AllAnswered /\ run \notin {"created", "booting", "observing"} =>
    AllOff \/ \E n \in 1..Len(todo) : todo[n].op \in {"resume", "offAll"}

(* What an answered call does to outputs that are off.                     *)
LEMMA EffectOnOutputs ==
  ASSUME ManagerTypeOK, NEW call \in Calls, Effect(call)
  PROVE  /\ call.op = "offAll" => AllOff'
         /\ AllOff /\ call.op # "on" => AllOff'
<1> USE DEF ManagerTypeOK, AllOff
<1>1. CASE call.op \in {"resume", "pause"} /\ UNCHANGED hv BY <1>1
<1>2. CASE call.op = "set" /\ SetDac(call.ch) BY <1>2 DEF SetDac
<1>3. CASE call.op = "on" BY <1>3
<1>4. CASE call.op = "offAll" /\ OffAll BY <1>4 DEF OffAll
<1>5. CASE call.op \in {"hk", "status", "switch", "hvStatus", "hvLog"} /\ UNCHANGED hv
  BY <1>5
<1> QED BY <1>1, <1>2, <1>3, <1>4, <1>5 DEF Effect

(* An answer leaves outputs on only for a run.                             *)
LEMMA AnsweredPlan ==
  ASSUME ManagerInv, PlanFitsRun, HvOnlyForARun, AllAnswered, Answered
  PROVE  PlanFitsRun' /\ HvOnlyForARun'
<1> DEFINE call == Head(todo)
<1> USE DEF ManagerInv, ManagerTypeOK
<1>1. /\ todo # << >> /\ call \in Calls /\ call = todo[1] /\ Tail(todo) \in Seq(Calls)
      /\ Len(todo) \in Nat \ {0} /\ Len(Tail(todo)) = Len(todo) - 1
      /\ \A n \in 1..Len(Tail(todo)) : n + 1 \in 1..Len(todo) /\ Tail(todo)[n] = todo[n + 1]
  BY HeadAndTail DEF Answered
<1>2. server = "serving" BY DEF NothingDown
<1>3. /\ run' # run => \/ call.op = "resume" /\ run = "none" /\ run' = "created"
                       \/ call.op = "pause" /\ run = "observing" /\ run' = "stopping"
      /\ call.op = "resume" /\ run = "none" => run' = "created"
      /\ call.op = "offAll" => AllOff'
      /\ AllOff /\ call.op # "on" => AllOff'
  BY <1>1, <1>2, EffectOnRun, EffectOnOutputs DEF Answered
<1>4. run \in {"none", "observing", "stopping", "ending"}
  BY <1>1 DEF SuppliedFromTheStart, Daq!Phases
<1>5. 1 \in 1..Len(todo) BY <1>1
<1>6. call.op \in {"resume", "offAll"} => Len(todo) = 1
  <2>1. call.op = "resume" => 1 = Len(todo) BY <1>1, <1>5 DEF ResumeComesLast
  <2>2. call.op = "offAll" => 1 = Len(todo) BY <1>1, <1>5 DEF OffAfterPause
  <2> QED BY <2>1, <2>2
<1>7. /\ call.op = "pause" => Len(todo) = 2 /\ todo[2].op = "offAll"
      /\ call.op = "on" => run = "observing" \/ \E k \in 1..Len(todo) : todo[k].op = "resume"
      /\ call.op \in {"status", "hvStatus"} => 1 = Len(todo)
      /\ call.op = "hvStatus" => run = "observing"
      /\ run \in {"stopping", "ending"} => call.op = "offAll"
  <2>1. /\ todo[1].op = "pause" => Len(todo) = 2 /\ todo[2].op = "offAll"
        /\ todo[1].op = "on" => run = "observing" \/ \E k \in 1..Len(todo) : todo[k].op = "resume"
        /\ todo[1].op \in {"status", "hvStatus"} => 1 = Len(todo)
        /\ todo[1].op = "hvStatus" => run = "observing"
        /\ run \in {"stopping", "ending"} => todo[1].op = "offAll"
    BY <1>5 DEF PlanFitsRun
  <2>2. call = todo[1] BY <1>1
  <2> HIDE DEF call
  <2> QED BY <2>1, <2>2
<1>8. \/ call.op = "status" /\ todo' = AfterStatus
      \/ call.op = "hvStatus" /\ \E more \in SwitchIfLong : todo' = AfterHvStatus \o more
      \/ call.op \notin {"status", "hvStatus"} /\ todo' = Tail(todo)
  BY DEF Answered
<1>9. run \notin {"created", "booting", "observing"} =>
        AllOff \/ \E n \in 1..Len(todo) : todo[n].op \in {"resume", "offAll"}
  BY DEF HvOnlyForARun
<1> HIDE DEF call
<1>10. CASE call.op = "status"
  <2>1. run' = run /\ todo' = AfterStatus /\ run \in {"none", "observing"}
    BY <1>3, <1>4, <1>7, <1>8, <1>10
  <2>2. run = "none" => AllOff'
    <3>1. \A n \in 1..Len(todo) : n = 1 BY <1>7, <1>10
    <3>2. run = "none" => AllOff BY <1>1, <1>9, <1>10, <3>1
    <3> QED BY <1>3, <1>10, <3>2
  <2>3. CASE AfterStatus = StartRun /\ Daq!Paused
    <3>1. PlanFitsRun' BY <2>1, <2>3, StartRunCalls DEF PlanFitsRun
    <3>2. HvOnlyForARun' BY <2>1, <2>3, StartRunCalls DEF HvOnlyForARun
    <3> QED BY <3>1, <3>2
  <2>4. CASE AfterStatus = << >> /\ Daq!Paused
    <3>1. run = "none" BY <2>1, <2>4 DEF Daq!Paused
    <3> QED BY <2>1, <2>2, <2>4, <3>1 DEF PlanFitsRun, HvOnlyForARun
  <2>5. CASE AfterStatus = <<Call("hvStatus")>> /\ ~Daq!Paused
    <3>1. run' = "observing" BY <2>1, <2>5 DEF Daq!Paused
    <3>2. Len(todo') = 1 /\ \A n \in 1..Len(todo') : todo'[n].op = "hvStatus" /\ n = 1
      BY <2>1, <2>5 DEF Call
    <3> QED BY <3>1, <3>2 DEF PlanFitsRun, HvOnlyForARun
  <2>6. CASE AfterStatus = ShutDown
    <3>1. /\ Len(todo') = 2 /\ todo'[1].op = "pause" /\ todo'[2].op = "offAll"
          /\ \A n \in 1..Len(todo') : n = 1 \/ n = 2
      BY <2>1, <2>6 DEF ShutDown, Call
    <3>2. run' \notin {"stopping", "ending"} BY <2>1
    <3>3. PlanFitsRun' BY <3>1, <3>2 DEF PlanFitsRun
    <3>4. 2 \in 1..Len(todo') BY <3>1
    <3>5. HvOnlyForARun' BY <3>1, <3>4 DEF HvOnlyForARun
    <3> QED BY <3>3, <3>5
  <2> QED BY <2>3, <2>4, <2>5, <2>6 DEF AfterStatus
<1>11. CASE call.op = "hvStatus"
  <2>1. run' = "observing" BY <1>3, <1>7, <1>11
  <2>2. \A n \in 1..Len(todo') : todo'[n].op \in {"set", "on", "hvLog", "switch"}
    BY <1>8, <1>11, HvStatusLeadsTo
  <2> QED BY <2>1, <2>2 DEF PlanFitsRun, HvOnlyForARun
<1>12. CASE call.op \in {"resume", "offAll"}
  <2>1. todo' = Tail(todo) /\ Len(todo') = 0 BY <1>1, <1>6, <1>8, <1>12
  <2>2. \A n \in 1..Len(todo') : FALSE BY <2>1
  <2>3. PlanFitsRun' BY <2>2 DEF PlanFitsRun
  <2>4. CASE call.op = "offAll" BY <1>3, <2>3, <2>4 DEF HvOnlyForARun
  <2>5. CASE call.op = "resume"
    <3>1. run = "none" BY <1>1, <1>5, <2>5 DEF ResumeComesLast
    <3>2. run' = "created" BY <1>3, <2>5, <3>1
    <3> QED BY <2>3, <3>2 DEF HvOnlyForARun
  <2> QED BY <1>12, <2>4, <2>5
<1>13. CASE call.op = "pause"
  <2>1. todo' = Tail(todo) /\ Len(todo') = 1 /\ 1 \in 1..Len(todo') BY <1>1, <1>7, <1>8, <1>13
  <2>2. todo'[1] = todo[1 + 1] BY <1>1, <2>1
  <2>3. todo'[1].op = "offAll" /\ \A n \in 1..Len(todo') : n = 1 BY <1>7, <1>13, <2>1, <2>2
  <2> QED BY <2>1, <2>3 DEF PlanFitsRun, HvOnlyForARun
<1>14. CASE call.op \notin {"status", "hvStatus", "resume", "offAll", "pause"}
  <2>1. todo' = Tail(todo) /\ Len(todo') = Len(todo) - 1 /\ run' = run BY <1>1, <1>3, <1>8, <1>14
  <2>2. \A n \in 1..Len(todo') : n + 1 \in 1..Len(todo) /\ todo'[n] = todo[n + 1]
    BY <1>1, <2>1
  <2>3. ASSUME NEW op \in {"resume", "offAll"}, \E n \in 1..Len(todo) : todo[n].op = op
        PROVE  \E n \in 1..Len(todo') : todo'[n].op = op
    <3>1. PICK n \in 1..Len(todo) : todo[n].op = op BY <2>3
    <3>2. n # 1 BY <1>1, <1>14, <3>1
    <3>3. n - 1 \in 1..Len(todo') /\ (n - 1) + 1 = n BY <1>1, <2>1, <3>2
    <3> QED BY <2>2, <3>1, <3>3
  <2>4. ASSUME NEW n \in 1..Len(todo')
        PROVE  /\ todo'[n].op # "pause"
               /\ todo'[n].op = "on" =>
                    run' = "observing" \/ \E k \in 1..Len(todo') : todo'[k].op = "resume"
               /\ todo'[n].op \in {"status", "hvStatus"} => n = Len(todo')
               /\ todo'[n].op = "hvStatus" => run' = "observing"
               /\ run' \in {"stopping", "ending"} => todo'[n].op = "offAll"
    <3>1. n + 1 \in 1..Len(todo) /\ todo'[n] = todo[n + 1] /\ n + 1 # 1 BY <2>2, <2>4
    <3>2. /\ todo[n + 1].op # "pause"
          /\ todo[n + 1].op = "on" =>
               run = "observing" \/ \E k \in 1..Len(todo) : todo[k].op = "resume"
          /\ todo[n + 1].op \in {"status", "hvStatus"} => n + 1 = Len(todo)
          /\ todo[n + 1].op = "hvStatus" => run = "observing"
          /\ run \in {"stopping", "ending"} => todo[n + 1].op = "offAll"
      BY <3>1 DEF PlanFitsRun
    <3>3. ASSUME n + 1 = Len(todo) PROVE n = Len(todo')
      <4>1. n \in Int /\ Len(todo) \in Int BY <1>1, <3>1
      <4> QED BY <2>1, <3>3, <4>1
    <3>4. (\E k \in 1..Len(todo) : todo[k].op = "resume")
            => \E k \in 1..Len(todo') : todo'[k].op = "resume"
      BY <2>3
    <3> QED BY <2>1, <3>1, <3>2, <3>3, <3>4
  <2>5. PlanFitsRun' BY <2>4 DEF PlanFitsRun
  <2>6. ASSUME run' \notin {"created", "booting", "observing"}
        PROVE  AllOff' \/ \E n \in 1..Len(todo') : todo'[n].op \in {"resume", "offAll"}
    <3>1. CASE \E n \in 1..Len(todo) : todo[n].op \in {"resume", "offAll"}
      BY <2>3, <3>1
    <3>2. CASE AllOff /\ call.op # "on" BY <1>3, <3>2
    <3>3. CASE call.op = "on"
      <4>1. \E n \in 1..Len(todo) : todo[n].op = "resume" BY <1>7, <2>1, <2>6, <3>3
      <4> QED BY <3>1, <4>1
    <3> QED BY <1>9, <2>1, <2>6, <3>1, <3>2, <3>3
  <2>7. HvOnlyForARun' BY <2>6 DEF HvOnlyForARun
  <2> QED BY <2>5, <2>7
<1> QED BY <1>10, <1>11, <1>12, <1>13, <1>14

(* Every step leaves outputs on only for a run.                            *)
LEMMA PlanStep ==
  ManagerInv /\ PlanFitsRun /\ HvOnlyForARun /\ [ManagerNext]_managerVars
    => PlanFitsRun' /\ HvOnlyForARun'
<1> SUFFICES ASSUME ManagerInv, PlanFitsRun, HvOnlyForARun, [ManagerNext]_managerVars, AllAnswered'
             PROVE  PlanFitsRun' /\ HvOnlyForARun'
  BY DEF PlanFitsRun, HvOnlyForARun
<1>1. ManagerTypeOK BY DEF ManagerInv
<1>2. AllAnswered /\ ~Fault("timeout") /\ ~Fault("crash") BY <1>1, AnsweredSoFar
<1>3. server = "serving" /\ up /\ late = {} BY <1>2 DEF ManagerInv, NothingDown
<1>4. CASE Wake
  <2>1. run \in {"none", "observing"} /\ todo = << >> BY <1>2, <1>4 DEF Wake, AllAnswered
  <2>2. UNCHANGED <<run, on_off_status>> BY <1>4 DEF Wake
  <2>3. run = "none" => AllOff BY <1>2, <2>1 DEF HvOnlyForARun
  <2>4. AllOff => AllOff' BY <2>2 DEF AllOff
  <2>5. \A n \in 1..Len(todo') : todo'[n].op = "hk" \/ (todo'[n].op = "status" /\ n = Len(todo'))
    <3>1. CASE todo' = <<Call("status")>>
      <4>1. Len(todo') = 1 /\ todo'[1].op = "status" /\ \A n \in 1..Len(todo') : n = 1
        BY <3>1 DEF Call
      <4> QED BY <4>1
    <3>2. CASE todo' = <<Call("hk"), Call("status")>>
      <4>1. /\ Len(todo') = 2 /\ todo'[1].op = "hk" /\ todo'[2].op = "status"
            /\ \A n \in 1..Len(todo') : n = 1 \/ n = 2
        BY <3>2 DEF Call
      <4> QED BY <4>1
    <3> QED BY <1>4, <3>1, <3>2 DEF Wake
  <2>6. PlanFitsRun' BY <2>1, <2>2, <2>5 DEF PlanFitsRun
  <2> QED BY <2>1, <2>2, <2>3, <2>4, <2>6 DEF HvOnlyForARun
<1>5. CASE Answered BY <1>2, <1>5, AnsweredPlan
<1>6. CASE Failed
  <2>1. CanAnswer(Head(todo)) BY <1>3 DEF CanAnswer
  <2> QED BY <1>2, <1>6, <2>1 DEF Failed
<1>7. CASE ExecutedLate BY <1>3, <1>7 DEF ExecutedLate
<1>8. CASE DaqAdvances
  <2>1. UNCHANGED <<todo, on_off_status>> BY <1>8 DEF DaqAdvances
  <2>2. \/ run \in {"created", "booting"} /\ run' \in {"booting", "observing"}
        \/ run \in {"stopping", "ending"} /\ run' \in {"ending", "none"}
    BY <1>8 DEF DaqAdvances, Daq!Advance
  <2>3. CASE run \in {"created", "booting"}
    <3>1. todo' = << >> /\ run' \in {"booting", "observing"}
      BY <1>2, <2>1, <2>2, <2>3 DEF ManagerInv, SuppliedFromTheStart
    <3> QED BY <3>1 DEF PlanFitsRun, HvOnlyForARun
  <2>4. CASE run \in {"stopping", "ending"}
    <3>1. \A n \in 1..Len(todo') : todo'[n].op = "offAll"
      BY <1>2, <2>1, <2>4 DEF PlanFitsRun
    <3>2. PlanFitsRun' BY <3>1 DEF PlanFitsRun
    <3>3. AllOff \/ \E n \in 1..Len(todo) : todo[n].op \in {"resume", "offAll"}
      BY <1>2, <2>4 DEF HvOnlyForARun
    <3>4. HvOnlyForARun' BY <2>1, <3>3 DEF HvOnlyForARun, AllOff
    <3> QED BY <3>2, <3>4
  <2> QED BY <2>2, <2>3, <2>4
<1>9. CASE DaqRestarts \/ ControllerRestarts
  BY <1>3, <1>9 DEF DaqRestarts, ControllerRestarts, Daq!Restart
<1>10. CASE UNCHANGED <<todo, run, on_off_status>>
  BY <1>2, <1>10 DEF PlanFitsRun, HvOnlyForARun, AllOff
<1>11. CASE ConditionsChange BY <1>10, <1>11 DEF ConditionsChange
<1>12. CASE DaqCrashes \/ ControllerCrashes \/ ManagerRestarts
  BY <1>2, <1>12 DEF DaqCrashes, ControllerCrashes, ManagerRestarts
<1>13. CASE UNCHANGED managerVars BY <1>10, <1>13 DEF managerVars
<1> QED BY <1>4, <1>5, <1>6, <1>7, <1>8, <1>9, <1>11, <1>12, <1>13
        DEF ManagerNext, Manager, God, World

(* As long as every call is answered, the high voltage is on only for a    *)
(* run: when the manager has done with a round and no run is there, both   *)
(* outputs are off, whatever the conditions did in the middle of it and    *)
(* however often a write to the SlowDAC failed.                            *)
THEOREM HvOffWithoutRun ==
  ManagerSpec => [](AllAnswered /\ run = "none" /\ todo = << >> => AllOff)
<1> DEFINE P == PlanFitsRun /\ HvOnlyForARun
           Off == AllAnswered /\ run = "none" /\ todo = << >> => AllOff
<1>1. ManagerInit => P BY DEF ManagerInit, PlanFitsRun, HvOnlyForARun, AllOff
<1>2. ManagerInv /\ P /\ [ManagerNext]_managerVars => P' BY PlanStep
<1>3. P => Off BY DEF HvOnlyForARun
<1> HIDE DEF P, Off
<1>4. ManagerSpec => []Off BY <1>1, <1>2, <1>3, ManagerInvariance, PTL DEF ManagerSpec
<1> QED BY <1>4 DEF Off

HIDE ManagerAssumption DEF HvChannel, control, manager, hv

-----------------------------------------------------------------------------
(***************************************************************************)
(* StartStop.                                                              *)
(***************************************************************************)

(* The bus carries the write the host is at, and the board works on a      *)
(* write only while there is one.  A host that gave up leaves its write on *)
(* the bus for ever: the board waits for a semaphore nobody releases.      *)
OneWriteAtATime ==
  /\ bus # "free" => pc \in {bus, "dead"}
  /\ iBus_beWritten_state \in {"beWritten2", "WaitDone"} => bus # "free"
  /\ pc = "dead" => iBus_beWritten_state = "ClearStartRegister_2" /\ Semaphore

(* A reset that is under way meets no write but the one that asked for it, *)
(* and none comes between the host's request and its write.                *)
ResetAlone ==
  Resetting => /\ bus = "free" \/ (bus = "reset" /\ iBus_beWritten_state = "WaitDone")
               /\ pc \notin {"requestRead", "write"}

(* The host writes the StartStopRegister only after it has seen the        *)
(* semaphore taken, and nothing gives the semaphore back before it asks.   *)
(* Until then the register, once written, is what the host ordered.        *)
HeldWhileWriting ==
  /\ pc = "write" => Semaphore
  /\ pc = "write" /\ iBus_beWritten_state = "WaitDone" => StartStopRegister = order
  /\ pc \in {"release", "releaseRead"} /\ Semaphore => StartStopRegister = order

(* The board clears the bit of a channel it has just found in the scan.    *)
ClearsAChannel ==
  iBus_beWritten_state \in {"ClearStartRegister", "ClearStartRegister_2"} =>
    LoopI < NumberOfProducerNodes

IInv == TypeOK /\ OneWriteAtATime /\ ResetAlone /\ HeldWhileWriting /\ ClearsAChannel

USE ConstantsAssumption DEF Channel, Writes, BoardStates, Goto, In, Resetting

-----------------------------------------------------------------------------
(* The host and the board start in the invariant.                          *)
LEMMA InitIInv == Init => IInv
<1> SUFFICES ASSUME Init PROVE IInv
  OBVIOUS
<1> USE DEF Init
<1>1. TypeOK
  <2>1. mode \in BOOLEAN /\ Semaphore \in BOOLEAN /\ Semaphore_Wait \in BOOLEAN
        /\ PresetMode \in BOOLEAN /\ ResetRegister \in BOOLEAN
    OBVIOUS
  <2> QED BY <2>1 DEF TypeOK
<1>2. OneWriteAtATime /\ ResetAlone BY DEF OneWriteAtATime, ResetAlone
<1>3. HeldWhileWriting /\ ClearsAChannel BY DEF HeldWhileWriting, ClearsAChannel
<1> QED BY <1>1, <1>2, <1>3 DEF IInv

(* A write that was answered is followed by the release or a read of the   *)
(* semaphore, or ends the call.                                            *)
LEMMA AfterWriteValues ==
  /\ AfterWrite("request") = "requestRead"
  /\ AfterWrite("write") = "release"
  /\ AfterWrite("release") = "releaseRead"
  /\ AfterWrite("mode") = "idle"
  /\ AfterWrite("reset") = "idle"
  BY DEF AfterWrite

(* Every step of the host and of the board keeps the types.                *)
LEMMA TypeOKStep == TypeOK /\ OneWriteAtATime /\ ClearsAChannel /\ [Next]_vars => TypeOK'
<1> SUFFICES ASSUME TypeOK, OneWriteAtATime, ClearsAChannel, [Next]_vars PROVE TypeOK'
  OBVIOUS
<1> USE DEF TypeOK, host, chMgr
<1>1. CASE HostCall
  <2>1. ASSUME NEW channels \in SUBSET Channel, Order(channels) PROVE TypeOK'
    BY <2>1 DEF Order
  <2>2. ASSUME NEW m \in PresetModes, SetPresetMode(m) PROVE TypeOK'
    <3>1. mode' \in BOOLEAN BY <2>2 DEF SetPresetMode
    <3> QED BY <2>2, <3>1 DEF SetPresetMode
  <2>3. CASE Reset BY <2>3 DEF Reset
  <2> QED BY <1>1, <2>1, <2>2, <2>3 DEF HostCall
<1>2. CASE Write BY <1>2 DEF Write
<1>3. CASE ReadBack
  <2>1. pc' \in {"write", "request", "release", "idle"} BY <1>3 DEF ReadBack
  <2> QED BY <1>3, <2>1 DEF ReadBack
<1>4. CASE GiveUp BY <1>4 DEF GiveUp
<1>5. CASE Initialize
  <2>1. Semaphore' \in BOOLEAN /\ PresetMode' \in BOOLEAN /\ ResetRegister' \in BOOLEAN
    BY <1>5 DEF Initialize
  <2> QED BY <1>5, <2>1 DEF Initialize
<1>6. CASE Idle
  <2>1. Semaphore_Wait' \in BOOLEAN BY <1>6 DEF Idle
  <2>2. iBus_beWritten_state' \in BoardStates /\ LoopI' \in {0, LoopI} BY <1>6 DEF Idle
  <2> QED BY <1>6, <2>1, <2>2 DEF Idle
<1>7. CASE ResetWait
  <2>1. ResetRegister' \in BOOLEAN BY <1>7 DEF ResetWait
  <2> QED BY <1>7, <2>1 DEF ResetWait
<1>8. CASE ClearStartRegister
  <2>1. Semaphore_Wait' \in BOOLEAN BY <1>8 DEF ClearStartRegister
  <2> QED BY <1>8, <2>1 DEF ClearStartRegister
<1>9. CASE ClearStartRegister_2 BY <1>9 DEF ClearStartRegister_2, ClearsAChannel
<1>10. CASE BeWritten2
  <2>1. Semaphore' \in BOOLEAN BY <1>10 DEF BeWritten2
  <2>2. PresetMode' \in BOOLEAN BY <1>10 DEF BeWritten2
  <2>3. ResetRegister' \in BOOLEAN BY <1>10 DEF BeWritten2
  <2>4. StartStopRegister' \in {order, StartStopRegister} BY <1>10 DEF BeWritten2
  <2> QED BY <1>10, <2>1, <2>2, <2>3, <2>4 DEF BeWritten2
<1>11. CASE WaitDone
  <2>1. pc \in Writes BY <1>11 DEF WaitDone, OneWriteAtATime
  <2>2. pc' \in Writes \cup {"idle", "requestRead", "releaseRead"}
    BY <1>11, <2>1, AfterWriteValues DEF WaitDone
  <2>3. losses' \in 0..MaxLosses BY <1>11 DEF WaitDone
  <2> QED BY <1>11, <2>2, <2>3 DEF WaitDone
<1>12. ASSUME NEW ch \in Channel, Reach(ch) PROVE TypeOK'
  BY <1>12 DEF Reach
<1>13. CASE UNCHANGED vars BY <1>13 DEF vars
<1> QED BY <1>1, <1>2, <1>3, <1>4, <1>5, <1>6, <1>7, <1>8, <1>9, <1>10, <1>11, <1>12, <1>13
        DEF Next, Host, Board

(* The handshake: every step keeps what the host and the board rely on.    *)
LEMMA HandshakeStep ==
  IInv /\ [Next]_vars => OneWriteAtATime' /\ ResetAlone' /\ HeldWhileWriting' /\ ClearsAChannel'
<1> SUFFICES ASSUME IInv, [Next]_vars
             PROVE OneWriteAtATime' /\ ResetAlone' /\ HeldWhileWriting' /\ ClearsAChannel'
  OBVIOUS
<1> DEFINE H == OneWriteAtATime' /\ ResetAlone' /\ HeldWhileWriting' /\ ClearsAChannel'
<1> USE DEF IInv, TypeOK, OneWriteAtATime, ResetAlone, HeldWhileWriting, ClearsAChannel,
            host, chMgr
<1>1. CASE HostCall
  <2>1. ASSUME NEW channels \in SUBSET Channel, Order(channels) PROVE H
    BY <2>1 DEF Order
  <2>2. ASSUME NEW m \in PresetModes, SetPresetMode(m) PROVE H
    BY <2>2 DEF SetPresetMode
  <2>3. CASE Reset BY <2>3 DEF Reset
  <2> QED BY <1>1, <2>1, <2>2, <2>3 DEF HostCall
<1>2. CASE Write BY <1>2 DEF Write
<1>3. CASE ReadBack BY <1>3 DEF ReadBack
<1>4. CASE GiveUp BY <1>4 DEF GiveUp
<1>5. CASE Initialize BY <1>5 DEF Initialize
<1>6. CASE Idle BY <1>6 DEF Idle
<1>7. CASE ResetWait BY <1>7 DEF ResetWait
<1>8. CASE ClearStartRegister BY <1>8 DEF ClearStartRegister
<1>9. CASE ClearStartRegister_2 BY <1>9 DEF ClearStartRegister_2
<1>10. CASE BeWritten2 BY <1>10 DEF BeWritten2, RegisterWritten
<1>11. CASE WaitDone BY <1>11, AfterWriteValues DEF WaitDone
<1>12. ASSUME NEW ch \in Channel, Reach(ch) PROVE H
  BY <1>12 DEF Reach
<1>13. CASE UNCHANGED vars BY <1>13 DEF vars
<1> QED BY <1>1, <1>2, <1>3, <1>4, <1>5, <1>6, <1>7, <1>8, <1>9, <1>10, <1>11, <1>12, <1>13
        DEF Next, Host, Board

-----------------------------------------------------------------------------
(* The inductive invariant holds.                                          *)
THEOREM Invariance == Spec => []IInv
<1>1. IInv /\ [Next]_vars => IInv' BY TypeOKStep, HandshakeStep DEF IInv
<1> QED BY InitIInv, <1>1, PTL DEF Spec

(* Every reachable state of the host and of the board is type-correct.     *)
THEOREM TypeCorrect == Spec => []TypeOK
<1>1. IInv => TypeOK BY DEF IInv
<1> QED BY Invariance, <1>1, PTL

(* What the host ordered is in force when it goes on to give the semaphore *)
(* back: no write was dropped and no channel cleared meanwhile, whichever  *)
(* replies were lost.                                                      *)
THEOREM OrderTakesEffect == Spec => WriteTookEffect
<1> DEFINE A == pc = "write" /\ pc' = "release" => StartStopRegister = order
<1>1. IInv /\ [Next]_vars => A
  <2> SUFFICES ASSUME IInv, [Next]_vars, pc = "write", pc' = "release"
               PROVE StartStopRegister = order
    OBVIOUS
  <2>1. In("WaitDone")
    BY DEF Next, HostCall, Host, Board, Order, SetPresetMode, Reset, Write, ReadBack, GiveUp,
           Initialize, Idle, ResetWait, ClearStartRegister, ClearStartRegister_2, BeWritten2,
           WaitDone, Reach, host, chMgr, vars
  <2> QED BY <2>1 DEF IInv, HeldWhileWriting
<1>2. IInv /\ [Next]_vars => [A]_vars BY <1>1
<1> QED BY <1>2, Invariance, PTL DEF Spec, WriteTookEffect

(* Without a preset mode the board is never found waiting for a release it *)
(* cannot be sent: it enters the clearing of a channel only for a preset   *)
(* that ran out, so that no call of the host is given up.                  *)
THEOREM NonStopIsServed == Spec => ([]~PresetMode => [](pc # "dead"))
<1> DEFINE J == iBus_beWritten_state \notin {"ClearStartRegister", "ClearStartRegister_2"}
<1>1. Init => J BY DEF Init
<1>2. J /\ ~PresetMode /\ [Next]_vars => J'
  BY DEF Next, HostCall, Host, Board, Order, SetPresetMode, Reset, Write, ReadBack, GiveUp,
         Initialize, Idle, ResetWait, ClearStartRegister, ClearStartRegister_2, BeWritten2,
         WaitDone, Reach, ScanFindsDone, PresetDone, host, chMgr, vars
<1>3. IInv /\ J => pc # "dead" BY DEF IInv, OneWriteAtATime
<1> HIDE DEF J
<1> QED BY <1>1, <1>2, <1>3, Invariance, PTL DEF Spec

=============================================================================
