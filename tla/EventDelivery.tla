---------------------------- MODULE EventDelivery ----------------------------
(***************************************************************************)
(* What the readout of a board promises to run(): the event packets of the *)
(* board arrive unchanged, in order and at most once.  A fault (a lost     *)
(* reply of the board, a new decoder in the middle of the stream) may skip *)
(* packets, and each fault may produce a bounded number of events that are *)
(* none of them: cut short by the words that are lost, or built of words   *)
(* that are repeated.                                                      *)
(***************************************************************************)
EXTENDS Naturals, Sequences, FiniteSets

CONSTANTS
  Packets,            (* bound: packets of the board, numbered from 1     *)
  DamagedPerFault     (* the most events a fault can damage               *)

VARIABLES delivered,  (* packet numbers, Damaged for anything else         *)
          faults

Damaged == 0
Intact(p) ==
  /\ \A k \in 1..Len(delivered) : delivered[k] < p
  /\ delivered' = Append(delivered, p)
  /\ UNCHANGED faults

Mishap ==
  /\ faults' = faults + 1
  /\ UNCHANGED delivered

Garble ==
  /\ Cardinality({k \in 1..Len(delivered) : delivered[k] = Damaged})
       < DamagedPerFault * faults
  /\ delivered' = Append(delivered, Damaged)
  /\ UNCHANGED faults

Init == delivered = << >> /\ faults = 0
Next == (\E p \in 1..Packets : Intact(p)) \/ Mishap \/ Garble
Spec == Init /\ [][Next]_<<delivered, faults>>
=============================================================================
