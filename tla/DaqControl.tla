------------------------------ MODULE DaqControl ------------------------------
(***************************************************************************)
(* What a client of growth_daq can rely on: how the requests it sends move *)
(* the process and its observation run, nothing of events and files.       *)
(* DaqProcess implements it, and RunManager is written against it.         *)
(***************************************************************************)

VARIABLES
  server,   (* "serving" requests, "joining" the run before it returns,    *)
            (* "exited", or "undefined" once two run threads exist         *)
  run       (* the observation run                                         *)

control == <<server, run>>

Phases == {"none", "created", "booting", "observing", "stopping", "ending"}
Servers == {"serving", "joining", "exited", "undefined"}

(* What getStatus says of a run.                                           *)
Paused == run \in {"none", "created"}

Stopped == IF run = "observing" THEN "stopping" ELSE run

(* A run that is still booting forgets a pause.                            *)
Pause ==
  /\ server = "serving"
  /\ run' = Stopped
  /\ UNCHANGED server

Stop ==
  /\ server = "serving"
  /\ run' = Stopped
  /\ server' = "joining"

(* Ignored while the status is Running, even if the run is about to end.   *)
Resume ==
  /\ server = "serving"
  /\ \/ run = "none" /\ run' = "created" /\ UNCHANGED server
     \/ run = "created" /\ server' = "undefined" /\ UNCHANGED run
     \/ ~Paused /\ UNCHANGED control

Advance ==
  /\ server \in {"serving", "joining"}
  /\ \/ run = "created" /\ run' = "booting"
     \/ run = "booting" /\ run' = "observing"
     \/ run = "stopping" /\ run' = "ending"
     \/ run = "ending" /\ run' = "none"
  /\ UNCHANGED server

(* The exposure is over.                                                   *)
Expire ==
  /\ server \in {"serving", "joining"}
  /\ run = "observing" /\ run' = "ending"
  /\ UNCHANGED server

Return ==
  /\ server = "joining" /\ run = "none"
  /\ server' = "exited"
  /\ UNCHANGED run

(* Between Begin and Boot the thread cannot fail yet; a client cannot tell.*)
Crash ==
  /\ server \in {"serving", "joining"}
  /\ run \in {"booting", "observing", "stopping", "ending"}
  /\ server' = "exited" /\ run' = "none"

Restart ==
  /\ server = "exited"
  /\ server' = "serving" /\ run' = "none"

Init == \/ server = "serving" /\ run = "none"
        \/ server = "joining" /\ run = "created"

Next == \/ Pause \/ Stop \/ Resume \/ Advance \/ Expire
        \/ Return \/ Crash \/ Restart

Spec == Init /\ [][Next]_control

(* A run moves on as long as it is not stopped in the loop; exiting is not *)
(* promised to be followed by a restart.                                   *)
FairSpec == Spec /\ WF_control(Advance) /\ WF_control(Return)
=============================================================================
