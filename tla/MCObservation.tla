---------------------------- MODULE MCObservation ----------------------------
(* Three contents of the configuration file: two complete ones that differ *)
(* in the channels they enable and in the lengths of a record, a packet    *)
(* and a row, and one without a keyword.                                   *)
EXTENDS Observation

ConfigurationsValue == {"long", "short", "incomplete"}
ReadableValue == {"long", "short"}
RecordSamplesValue == [long |-> 3, short |-> 1, incomplete |-> 0]
PacketSamplesValue == [long |-> 2, short |-> 1, incomplete |-> 0]
SavedSamplesValue == [long |-> 2, short |-> 1, incomplete |-> 0]
ChannelEnableValue == [long |-> {1, 2}, short |-> {1}, incomplete |-> {}]
=============================================================================
