---------------------------- MODULE PacketStream ----------------------------
(***************************************************************************)
(* What the consumer manager of the board promises to whoever reads the    *)
(* EventFIFO: since the last reset its words are whole packets, one after  *)
(* the other, each of one channel; the packets of a channel come in the    *)
(* order of its events, and an event is missing only when a reset of the   *)
(* EventFIFO has swallowed it, at most one for each reset.                 *)
(***************************************************************************)
EXTENDS Integers

CONSTANTS
  Channel,       (* the channels                                           *)
  HeaderWords,   (* words of a packet from the start flag to the baseline  *)
  Waveforms      (* numbers of samples that a packet may have              *)

VARIABLES
  last,      (* the word written last since the last reset                 *)
  seen,      (* number of the event that was begun last, channel by channel *)
  skipped,   (* events that never came                                     *)
  resets

(* A word is named by its channel, the number of its event in the channel  *)
(* and its place in the packet; the end flag has place End.  A packet that *)
(* is sent while the host changes the number of samples may have any       *)
(* number between the two.                                                 *)
End == 0
NoWord == [ch |-> -1, event |-> 0, place |-> End]

Begin(w) ==
  /\ last.place = End
  /\ w.place = 1
  /\ w.event > seen[w.ch]
  /\ seen' = [seen EXCEPT ![w.ch] = w.event]
  /\ skipped' = skipped + (w.event - seen[w.ch] - 1)
  /\ skipped' <= resets

Continue(w) ==
  /\ last.place # End
  /\ w.ch = last.ch /\ w.event = last.event
  /\ \/ w.place = last.place + 1
     \/ w.place = End /\ \E m, n \in Waveforms : last.place - HeaderWords \in m..n
  /\ UNCHANGED <<seen, skipped>>

Write(w) == last' = w /\ (Begin(w) \/ Continue(w)) /\ UNCHANGED resets

Reset ==
  /\ last' = NoWord
  /\ resets' = resets + 1
  /\ UNCHANGED <<seen, skipped>>

Init == last = NoWord /\ seen = [ch \in Channel |-> 0] /\ skipped = 0 /\ resets = 0
Next == Write(last') \/ Reset
Spec == Init /\ [][Next]_<<last, seen, skipped, resets>>
=============================================================================
