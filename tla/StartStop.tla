------------------------------ MODULE StartStop ------------------------------
(***************************************************************************)
(* Starting and stopping the channels of the board.  The host              *)
(* (ChannelManager, SemaphoreRegister) writes the StartStopRegister        *)
(* between a request and a release of the semaphore register; the board    *)
(* (UserModule_ChannelManager) has one state machine that serves the       *)
(* writes and clears the bit of a channel whose preset is reached.         *)
(***************************************************************************)
EXTENDS Naturals

CONSTANTS
  NumberOfProducerNodes,  (* channels, numbered from 0                     *)
  PresetModes,            (* the modes the host may set: TRUE is a preset  *)
                          (* on livetime or events, FALSE is NonStop       *)
  MaxLosses               (* bound: write replies lost                     *)

ASSUME ConstantsAssumption ==
  /\ NumberOfProducerNodes \in Nat \ {0}
  /\ PresetModes \subseteq BOOLEAN
  /\ MaxLosses \in Nat

VARIABLES
  pc, order, mode,        (* the host: its next register access, the       *)
                          (* channels to be started, the mode to be set    *)
  bus,                    (* the register being written, "free" when none  *)
  iBus_beWritten_state,
  StartStopRegister, Semaphore, Semaphore_Wait,
  PresetMode, ResetRegister, LoopI,
  reached,                (* channels whose preset counter has run out     *)
  losses

host == <<pc, order, mode>>
chMgr == <<iBus_beWritten_state, StartStopRegister, Semaphore, Semaphore_Wait,
           PresetMode, ResetRegister, LoopI, reached>>
vars == <<host, bus, chMgr, losses>>

Channel == 0..NumberOfProducerNodes - 1
Writes == {"request", "write", "release", "mode", "reset"}
BoardStates == {"Idle", "beWritten2", "WaitDone", "ResetWait", "Initialize",
                "ClearStartRegister", "ClearStartRegister_2"}

Init ==
  /\ pc = "idle" /\ order = {} /\ mode = FALSE /\ bus = "free"
  /\ iBus_beWritten_state = "Initialize"
  /\ StartStopRegister = {} /\ Semaphore = FALSE /\ Semaphore_Wait = FALSE
  /\ PresetMode = FALSE /\ ResetRegister = FALSE /\ LoopI = 0
  /\ reached = {} /\ losses = 0

-----------------------------------------------------------------------------
(* The host: calls that use the board, one at a time.                      *)

(* startAcquisition(channels) and stopAcquisition(), which orders {}.      *)
OrderUnheld(channels) ==                 (* mutant: without the semaphore *)
  /\ pc = "idle" /\ pc' = "write"
  /\ order' = channels
  /\ UNCHANGED <<mode, bus, chMgr, losses>>

StopUnheld(channels) ==                  (* mutant: stops without asking   *)
  /\ pc = "idle" /\ pc' = IF channels = {} THEN "write" ELSE "request"
  /\ order' = channels
  /\ UNCHANGED <<mode, bus, chMgr, losses>>

Order(channels) ==
  /\ pc = "idle" /\ pc' = "request"
  /\ order' = channels
  /\ UNCHANGED <<mode, bus, chMgr, losses>>

SetPresetMode(m) ==
  /\ pc = "idle" /\ pc' = "mode"
  /\ mode' = m
  /\ UNCHANGED <<order, bus, chMgr, losses>>

Reset ==
  /\ pc = "idle" /\ pc' = "reset"
  /\ UNCHANGED <<order, mode, bus, chMgr, losses>>

Resetting == ResetRegister \/ iBus_beWritten_state \in {"ResetWait", "Initialize"}

(* A packet takes milliseconds on the UART and a reset a few clocks of the *)
(* board, so that the reset is over before the next write arrives.         *)
Write ==
  /\ pc \in Writes /\ bus = "free"
  /\ ~Resetting
  /\ bus' = pc
  /\ UNCHANGED <<host, chMgr, losses>>

AfterWrite(p) ==
  CASE p = "request" -> "requestRead" [] p = "write" -> "release"
    [] p = "release" -> "releaseRead" [] OTHER -> "idle"

(* request() and release() read the semaphore back and repeat the write    *)
(* until they find it as they want it.  Reads are served at any time.      *)
ReadBack ==
  /\ bus = "free"
  /\ \/ pc = "requestRead" /\ pc' = IF Semaphore THEN "write" ELSE "request"
     \/ pc = "releaseRead" /\ pc' = IF Semaphore THEN "release" ELSE "idle"
  /\ UNCHANGED <<order, mode, bus, chMgr, losses>>

(* The retries of RMAPHandlerUART::write() end in an exception when the    *)
(* board does not answer: its state machine is waiting for something else. *)
GiveUp ==
  /\ bus # "free"
  /\ iBus_beWritten_state = "ClearStartRegister_2" /\ Semaphore
  /\ pc' = "dead"
  /\ UNCHANGED <<order, mode, bus, chMgr, losses>>

-----------------------------------------------------------------------------
(* The board: iBus_beWritten_Process, one action per state.                *)

Goto(s) == iBus_beWritten_state' = s
In(s) == iBus_beWritten_state = s

Initialize ==
  /\ In("Initialize") /\ Goto("Idle")
  /\ StartStopRegister' = {} /\ Semaphore' = FALSE
  /\ PresetMode' = FALSE /\ ResetRegister' = FALSE /\ LoopI' = 0
  /\ UNCHANGED <<host, bus, Semaphore_Wait, reached, losses>>

PresetDone(ch) == PresetMode /\ ch \in reached

ScanFindsDone == LoopI \in StartStopRegister /\ PresetDone(LoopI)

(* Idle: a write first, then a reset, then the scan for a channel that is  *)
(* done.  LoopI moves on only in ClearStartRegister_2.                     *)
Idle ==
  /\ In("Idle")
  /\ Semaphore_Wait' = FALSE
  /\ \/ /\ bus # "free"
        /\ Goto("beWritten2") /\ UNCHANGED LoopI
     \/ /\ bus = "free" /\ ResetRegister
        /\ Goto("ResetWait") /\ UNCHANGED LoopI
     \/ /\ bus = "free" /\ ~ResetRegister /\ LoopI = NumberOfProducerNodes
        /\ LoopI' = 0 /\ Goto("Idle")
     \/ /\ bus = "free" /\ ~ResetRegister /\ LoopI < NumberOfProducerNodes
        /\ ScanFindsDone
        /\ Goto("ClearStartRegister") /\ UNCHANGED LoopI
  /\ UNCHANGED <<host, bus, StartStopRegister, Semaphore, PresetMode, ResetRegister,
                 reached, losses>>

(* Reset_internal holds the preset counters in reset.                      *)
ResetWait ==
  /\ In("ResetWait") /\ Goto("Initialize")
  /\ ResetRegister' = FALSE /\ reached' = {}
  /\ UNCHANGED <<host, bus, StartStopRegister, Semaphore, Semaphore_Wait, PresetMode,
                 LoopI, losses>>

ClearStartRegister ==
  /\ In("ClearStartRegister") /\ Goto("ClearStartRegister_2")
  /\ Semaphore_Wait' = TRUE
  /\ UNCHANGED <<host, bus, StartStopRegister, Semaphore, PresetMode, ResetRegister,
                 LoopI, reached, losses>>

ClearAndSkip ==                           (* mutant: leaves a channel out   *)
  /\ In("ClearStartRegister_2")
  /\ ~Semaphore
  /\ Goto("Idle")
  /\ StartStopRegister' = StartStopRegister \ {LoopI}
  /\ LoopI' = LoopI + 2
  /\ UNCHANGED <<host, bus, Semaphore, Semaphore_Wait, PresetMode, ResetRegister,
                 reached, losses>>

ClearStartRegister_2 ==
  /\ In("ClearStartRegister_2")
  /\ ~Semaphore
  /\ Goto("Idle")
  /\ StartStopRegister' = StartStopRegister \ {LoopI}
  /\ LoopI' = LoopI + 1
  /\ UNCHANGED <<host, bus, Semaphore, Semaphore_Wait, PresetMode, ResetRegister,
                 reached, losses>>

RegisterWritten == bus = "write" /\ Semaphore

(* The write itself: the StartStopRegister takes it only while the         *)
(* semaphore is held, the semaphore only while the board does not wait.    *)
BeWritten2 ==
  /\ In("beWritten2") /\ Goto("WaitDone")
  /\ StartStopRegister' = IF RegisterWritten THEN order ELSE StartStopRegister
  /\ Semaphore' = IF bus \in {"request", "release"}
                  THEN bus = "request" /\ ~Semaphore_Wait ELSE Semaphore
  /\ PresetMode' = IF bus = "mode" THEN mode ELSE PresetMode
  /\ ResetRegister' = IF bus = "reset" THEN TRUE ELSE ResetRegister
  /\ UNCHANGED <<host, bus, Semaphore_Wait, LoopI, reached, losses>>

(* beWrittenDone, and the reply to the host; a reply that is lost makes    *)
(* the host write the same value again.                                    *)
WaitDone ==
  /\ In("WaitDone") /\ Goto("Idle")
  /\ bus' = "free"
  /\ \/ pc' = AfterWrite(pc) /\ UNCHANGED losses
     \/ losses < MaxLosses /\ losses' = losses + 1 /\ UNCHANGED pc
  /\ UNCHANGED <<order, mode, StartStopRegister, Semaphore, Semaphore_Wait, PresetMode,
                 ResetRegister, LoopI, reached>>

(* The livetime or event counter of a started channel reaches its preset.  *)
Reach(ch) ==
  /\ ch \in StartStopRegister \ reached
  /\ reached' = reached \cup {ch}
  /\ UNCHANGED <<host, bus, iBus_beWritten_state, StartStopRegister, Semaphore,
                 Semaphore_Wait, PresetMode, ResetRegister, LoopI, losses>>

Board == \/ Initialize \/ Idle \/ ResetWait \/ ClearStartRegister
         \/ ClearStartRegister_2 \/ BeWritten2 \/ WaitDone
HostCall == \/ \E channels \in SUBSET Channel : Order(channels)
            \/ \E m \in PresetModes : SetPresetMode(m)
            \/ Reset
Host == Write \/ ReadBack \/ GiveUp

Next == HostCall \/ Host \/ Board \/ \E ch \in Channel : Reach(ch)

Spec == Init /\ [][Next]_vars

(* The board is clocked and the host does not stop in the middle of a      *)
(* call.  No call and no preset that runs out is promised.                 *)
FairSpec == Spec /\ WF_vars(Board) /\ WF_vars(Host)

-----------------------------------------------------------------------------
(* Every variable has its type.                                            *)
TypeOK ==
  /\ pc \in Writes \cup {"idle", "requestRead", "releaseRead", "dead"}
  /\ order \subseteq Channel /\ mode \in BOOLEAN
  /\ bus \in Writes \cup {"free"}
  /\ iBus_beWritten_state \in BoardStates
  /\ StartStopRegister \subseteq Channel
  /\ Semaphore \in BOOLEAN /\ Semaphore_Wait \in BOOLEAN
  /\ PresetMode \in BOOLEAN /\ ResetRegister \in BOOLEAN
  /\ LoopI \in 0..NumberOfProducerNodes
  /\ reached \subseteq Channel /\ losses \in 0..MaxLosses

(* When the host goes on from the write to the release, the channels are   *)
(* on and off as it ordered: the board did not drop the write for want of  *)
(* the semaphore, and it has not cleared a channel since.                  *)
WriteTookEffect ==
  [][(pc = "write" /\ pc' = "release") => StartStopRegister = order]_vars

(* A stop that was ordered stops all channels.  In a preset mode it need   *)
(* not: ClearStartRegister_2 waits for the host to release the semaphore,  *)
(* and serves no write, the release among them.                            *)
StopTakesEffect == (pc # "idle" /\ order = {}) ~> (StartStopRegister = {})

(* Without a preset mode, the one growth_daq uses, every stop does.        *)
StopTakesEffectInNonStop == []~PresetMode => StopTakesEffect
=============================================================================
