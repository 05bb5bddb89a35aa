------------------------------- MODULE SsdtpLink -------------------------------
(***************************************************************************)
(* Register accesses over the serial line.  RMAPHandlerUART sends an RMAP  *)
(* command, waits for its reply, and on a timeout cancels the reception    *)
(* and tries again.  The thread of the RMAPEngine sits in                  *)
(* SpaceWireSSDTPModuleUART::receive(), which cuts the bytes of the serial *)
(* port into frames (a header with flag and size, then the data), and      *)
(* joins the frames of a packet.  Nothing but the sizes in the headers     *)
(* tells where a frame begins: a lost byte shifts all that follows, until  *)
(* a timeout or a cancellation throws the rest away.                       *)
(*                                                                         *)
(* Time passes in steps of half a second, of which every timeout is a      *)
(* multiple.  A byte is named by its reply and its place in it.            *)
(***************************************************************************)
EXTENDS Naturals, Sequences

CONSTANTS
  HeaderBytes,     (* 12: flag, reserved, size                             *)
  DataBytes,       (* data of a frame                                      *)
  Frames,          (* frames of a reply; all but the last are Flagmented   *)
  GarbledSizes,    (* sizes a header may show that is not in frame         *)
  ReceiveTimeout,  (* 500 ms: setTimeoutDuration(500000)                   *)
  ReplyTimeout,    (* 1000 ms: DefaultTimeOut                              *)
  CancelWait,      (* 1500 ms: WaitTimeAfterCancelReceive                  *)
  Trials,          (* maxNTrials                                           *)
  MaxCalls, MaxConnections, MaxLosses, MaxStalls,   (* bounds              *)
  StallTime        (* bound: how long the line may be slow at a time       *)

ASSUME ConstantsAssumption ==
  /\ HeaderBytes \in Nat \ {0} /\ DataBytes \in Nat \ {0} /\ Frames \in Nat \ {0}
  /\ GarbledSizes \subseteq Nat
  /\ ReceiveTimeout \in Nat \ {0} /\ ReplyTimeout \in Nat \ {0} /\ CancelWait \in Nat \ {0}
  /\ Trials \in Nat \ {0}
  /\ MaxCalls \in Nat /\ MaxConnections \in Nat /\ MaxLosses \in Nat /\ MaxStalls \in Nat
  /\ StallTime \in Nat

(* A read that is under way when a reception is cancelled ends before the  *)
(* wait after the cancellation does.                                       *)
ASSUME CancelOutlastsRead == ReceiveTimeout < CancelWait

VARIABLES
  recursive,        (* whether CxxUtilities::Mutex may be locked again by  *)
                    (* its holder                                          *)
  handler,          (* what the caller of RMAPHandlerUART is doing         *)
  kind,             (* "single": read(), write(); "low", "high": the two   *)
                    (* reads of read32BitRegister()                        *)
  trial, alarm,     (* alarm: time left of its wait                        *)
  tid,              (* number of the last command                          *)
  commands, line,   (* on the way to the board, and back                   *)
  engine,           (* what receive() is at                                *)
  reading,          (* in SerialPort::receive(), past the tests of flags   *)
  timer,            (* time left of SerialPort::receive()                  *)
  missing,          (* bytes the part still needs                          *)
  inFrame,          (* the header is made of the header bytes of one frame *)
  fragment,         (* rheader[0] = DataFlag_Flagmented                    *)
  packet,           (* data so far: none, of one reply in order, or mixed  *)
  last,             (* the byte received last                              *)
  receiveCanceled,
  held,             (* a receive() that returned left receivemutex locked  *)
  stopping,         (* rmapEngine->stop()                                  *)
  stalled,          (* how long the line may still be slow                 *)
  calls, connections, losses, stalls,
  hit, spoiled,     (* history: a fault met this trial; such trials of     *)
                    (* "single" accesses                                   *)
  failures,         (* history: those that timed out though the engine ran *)
  leftovers         (* history: times the framing was left to chance       *)

caller == <<handler, kind, trial, alarm, tid, calls, connections>>
port == <<commands, line, stalled>>
part == <<missing, inFrame, fragment, packet, last>>
receiver == <<engine, reading, timer, part, receiveCanceled, held, stopping>>
history == <<losses, stalls, hit, spoiled, failures, leftovers>>
vars == <<recursive, caller, port, receiver, history>>

-----------------------------------------------------------------------------
FrameBytes == HeaderBytes + DataBytes
ReplyBytes == Frames * FrameBytes
Byte(r, k) == [reply |-> r, place |-> k]
NoByte == Byte(0, 0)
Reply(r) == [k \in 1..ReplyBytes |-> Byte(r, k)]
Follows(b) == b.place > 1 /\ last = Byte(b.reply, b.place - 1)
StartsFrame(b) == b.place % FrameBytes = 1
Receiving == engine \in {"header", "data", "code"}

Init ==
  /\ recursive \in BOOLEAN
  /\ handler = "closed" /\ kind = "single" /\ trial = 1 /\ alarm = 0 /\ tid = 0
  /\ commands = << >> /\ line = << >> /\ stalled = 0
  /\ engine = "stopped" /\ reading = FALSE /\ timer = 0
  /\ missing = 0 /\ inFrame = FALSE /\ fragment = FALSE
  /\ packet = "empty" /\ last = NoByte
  /\ receiveCanceled = FALSE /\ held = FALSE /\ stopping = FALSE
  /\ calls = 0 /\ connections = 0 /\ losses = 0 /\ stalls = 0
  /\ hit = FALSE /\ spoiled = 0 /\ failures = 0 /\ leftovers = 0

(* Faults, and the trials they meet.                                       *)
Spoil(k) == hit' = TRUE /\ spoiled' = spoiled + (IF k = "single" THEN 1 ELSE 0)
Mark == IF hit THEN UNCHANGED <<hit, spoiled>> ELSE Spoil(kind)
Lose == losses < MaxLosses /\ losses' = losses + 1

-----------------------------------------------------------------------------
(* Time.  Threads, and the board, are faster than half a second; the line *)
(* is, unless it stalls.                                                   *)

Tick ==
  /\ handler \in {"waiting", "cancelling"} => alarm > 0
  /\ engine # "locking"
  /\ Receiving => reading /\ timer > 0 /\ (line = << >> \/ stalled > 0)
  /\ commands = << >> \/ stalled > 0
  /\ handler \in {"waiting", "cancelling"} \/ Receiving \/ stalled > 0
  /\ alarm' = IF alarm > 0 THEN alarm - 1 ELSE 0
  /\ timer' = IF timer > 0 THEN timer - 1 ELSE 0
  /\ stalled' = IF stalled > 0 THEN stalled - 1 ELSE 0
  /\ UNCHANGED <<recursive, handler, kind, trial, tid, calls, connections, commands, line,
                 engine, reading, part, receiveCanceled, held, stopping, history>>

Stall ==
  /\ handler = "waiting" /\ stalled = 0 /\ stalls < MaxStalls
  /\ stalled' = StallTime /\ stalls' = stalls + 1
  /\ Mark
  /\ UNCHANGED <<recursive, caller, commands, line, receiver, losses, failures, leftovers>>

(* The board executes a command and sends its reply, of which a byte may   *)
(* get lost.                                                               *)
Execute ==
  /\ commands # << >>
  /\ commands' = Tail(commands)
  /\ LET reply == Reply(Head(commands)) IN
     \/ line' = line \o reply /\ UNCHANGED <<losses, hit, spoiled>>
     \/ /\ Lose /\ Mark
        /\ \E k \in 1..ReplyBytes :
             line' = line \o SubSeq(reply, 1, k - 1) \o SubSeq(reply, k + 1, ReplyBytes)
  /\ UNCHANGED <<recursive, caller, stalled, receiver, stalls, failures, leftovers>>

-----------------------------------------------------------------------------
(* RMAPHandlerUART and RMAPHandler.                                        *)

(* A new SerialPort.  What the last connection left in the port may still  *)
(* be there.                                                               *)
NewSerialPort == line' \in {<< >>, line}

OpenPort ==
  /\ NewSerialPort
  /\ leftovers' = leftovers + (IF line' = << >> /\ commands = << >> THEN 0 ELSE 1)

(* A new SpaceWireSSDTPModuleUART.                                         *)
NewModule == receiveCanceled' = FALSE /\ held' = FALSE /\ reading' = FALSE /\ timer' = 0

(* connectoToSpaceWireToGigabitEther(), with a new engine; in a new        *)
(* process after an exit.                                                  *)
Connect ==
  /\ handler \in {"closed", "exited"} /\ connections < MaxConnections
  /\ connections' = connections + 1
  /\ OpenPort /\ NewModule
  /\ handler' = "idle" /\ engine' = "locking" /\ stopping' = FALSE
  /\ UNCHANGED <<recursive, kind, trial, alarm, tid, calls, commands, stalled,
                 part, losses, stalls, hit, spoiled, failures>>

(* SpaceWireSSDTPModuleUART::send() writes the header and the data; bytes  *)
(* that write_some() leaves out, or that the line loses, lose it all.      *)
SendFrame(k) ==
  /\ commands' = Append(commands, tid + 1)
  /\ IF stalled > 0 THEN Spoil(k) ELSE hit' = FALSE /\ UNCHANGED spoiled
  /\ UNCHANGED losses
WriteTooLittle(k) == Lose /\ Spoil(k) /\ UNCHANGED commands

(* A command with a new transaction ID.                                    *)
Send(k) ==
  /\ kind' = k /\ tid' = tid + 1
  /\ handler' = "waiting" /\ alarm' = ReplyTimeout
  /\ SendFrame(k) \/ WriteTooLittle(k)

(* One transaction, and the low half of two.                              *)
accessRegister == Send("single")
getFPGATypeOrVersion == Send("low")

Call ==
  /\ handler = "idle" /\ calls < MaxCalls
  /\ calls' = calls + 1 /\ trial' = 1
  /\ accessRegister \/ getFPGATypeOrVersion
  /\ UNCHANGED <<recursive, connections, line, stalled, receiver, stalls, failures, leftovers>>

(* The module remembers it; the interface waits afterwards.                *)
cancelReceive == receiveCanceled' = TRUE
CancelReceive ==
  /\ cancelReceive
  /\ handler' = "cancelling" /\ alarm' = CancelWait

(* RMAPInitiatorException::Timeout.                                        *)
GiveUp ==
  /\ handler = "waiting" /\ alarm = 0 /\ kind = "single"
  /\ CancelReceive
  /\ failures' = failures + (IF engine \in {"deaf", "stopped"} THEN 0 ELSE 1)
  /\ UNCHANGED <<recursive, kind, trial, tid, calls, connections, port,
                 engine, reading, timer, part, held, stopping,
                 losses, stalls, hit, spoiled, leftovers>>

TryAgainOrThrow(k) ==
  \/ trial < Trials /\ trial' = trial + 1 /\ Send(k)
  \/ /\ trial = Trials /\ handler' = "idle"
     /\ UNCHANGED <<kind, trial, alarm, tid, commands, losses, hit, spoiled>>

AfterCancelOneMore ==                     (* mutant                        *)
  /\ handler = "cancelling" /\ alarm = 0
  /\ trial' = trial + 1 /\ Send(kind)
  /\ UNCHANGED <<recursive, calls, connections, line, stalled, receiver,
                 stalls, failures, leftovers>>

AfterCancelAtOnce ==                      (* mutant                        *)
  /\ handler = "cancelling"
  /\ TryAgainOrThrow(kind)
  /\ UNCHANGED <<recursive, calls, connections, line, stalled, receiver,
                 stalls, failures, leftovers>>

(* The wait of cancelReceive() is over.                                    *)
AfterCancel ==
  /\ handler = "cancelling" /\ alarm = 0
  /\ TryAgainOrThrow(kind)
  /\ UNCHANGED <<recursive, calls, connections, line, stalled, receiver,
                 stalls, failures, leftovers>>

(* A read of read32BitRegister() times out: both are repeated, at once and *)
(* without a cancellation.                                                 *)
GiveUp32 ==
  /\ handler = "waiting" /\ alarm = 0 /\ kind \in {"low", "high"}
  /\ leftovers' = leftovers + 1
  /\ TryAgainOrThrow("low")
  /\ UNCHANGED <<recursive, calls, connections, line, stalled, receiver, stalls, failures>>

(* disconnectSpWGbE(): the engine is stopped and awaited before the port   *)
(* is closed.                                                              *)
Disconnect ==
  /\ handler = "idle"
  /\ handler' = "disconnecting" /\ stopping' = TRUE
  /\ UNCHANGED <<recursive, kind, trial, alarm, tid, calls, connections, port,
                 engine, reading, timer, part, receiveCanceled, held, history>>

(* SpaceWireIFOverUART::close().                                           *)
Close == cancelReceive

Disconnected ==
  /\ handler = "disconnecting" /\ engine = "stopped"
  /\ handler' = "closed"
  /\ Close
  /\ UNCHANGED <<recursive, kind, trial, alarm, tid, calls, connections, port,
                 engine, reading, timer, part, held, stopping, history>>

-----------------------------------------------------------------------------
(* SpaceWireSSDTPModuleUART::receive(), called by the thread of the engine *)
(* over and over.                                                          *)

(* receivemutex.lock().                                                    *)
Lock ==
  /\ engine = "locking"
  /\ IF held /\ ~recursive
     THEN engine' = "deaf" /\ UNCHANGED <<missing, packet>>
     ELSE engine' = "header" /\ missing' = HeaderBytes /\ packet' = "empty"
  /\ inFrame' = FALSE /\ fragment' = FALSE /\ last' = NoByte
  /\ UNCHANGED <<recursive, caller, port, reading, timer,
                 receiveCanceled, held, stopping, history>>

(* receive() returned or threw, and the loop of RMAPEngine comes back.     *)
Return == engine' = (IF stopping THEN "stopped" ELSE "locking")

(* Whether a Disconnected exception, or the EEP exception a cancelled      *)
(* receive() may end in, ends RMAPEngine is not known: both may be.        *)
ReturnOrEnd == Return \/ engine' = "stopped"

CancelSeen == engine \in {"header", "data"} /\ receiveCanceled

(* The tests before each SerialPort::receive(): a cancelled receive()      *)
(* drops what it has, and does not unlock receivemutex.                    *)
Canceled ==
  /\ CancelSeen /\ ~reading
  /\ receiveCanceled' = FALSE
  /\ held' = TRUE
  /\ ReturnOrEnd
  /\ UNCHANGED <<recursive, caller, port, reading, timer, part, stopping, history>>

Read ==
  /\ Receiving /\ ~reading
  /\ ~CancelSeen
  /\ reading' = TRUE /\ timer' = ReceiveTimeout
  /\ UNCHANGED <<recursive, caller, port, engine, part, receiveCanceled, held, stopping, history>>

TimerExpired == Receiving /\ reading /\ timer = 0

HeaderWaitedForAgain ==                   (* mutant                        *)
  /\ TimerExpired
  /\ reading' = FALSE
  /\ \/ engine \in {"header", "data"} /\ UNCHANGED engine
     \/ engine = "code" /\ ReturnOrEnd
  /\ UNCHANGED <<recursive, caller, port, timer, part, receiveCanceled, held, stopping, history>>

(* A header and its bytes are dropped, data are waited for again, and the  *)
(* lack of a time code is an error.                                        *)
ReadTimesOut ==
  /\ TimerExpired
  /\ reading' = FALSE
  /\ \/ engine = "header" /\ Return
     \/ engine = "data" /\ UNCHANGED engine
     \/ engine = "code" /\ ReturnOrEnd
  /\ UNCHANGED <<recursive, caller, port, timer, part, receiveCanceled, held, stopping, history>>

(* What a byte makes of the header and of the packet.                      *)
NextInFrame(b) ==
  IF engine = "header"
  THEN IF missing = HeaderBytes THEN StartsFrame(b) ELSE inFrame /\ Follows(b)
  ELSE inFrame
NextPacket(b) ==
  IF packet = "empty"
  THEN IF engine # "data" THEN "empty"
       ELSE IF inFrame /\ Follows(b) /\ b.place = HeaderBytes + 1 THEN "whole" ELSE "mixed"
  ELSE IF Follows(b) THEN packet ELSE "mixed"

(* The next header: of the next frame of this packet, or of an empty one.  *)
ExpectHeader == engine' = "header" /\ missing' = HeaderBytes

(* The frame is complete; Complete_EOP or Complete_EEP ends the packet.    *)
(* The engine gives the reply of the present transaction to its caller,    *)
(* and discards what has no such ID or a wrong CRC.                        *)
FrameComplete(b, pkt, frag) ==
  \/ /\ frag \/ pkt = "empty"
     /\ ExpectHeader
     /\ UNCHANGED <<handler, kind, alarm, tid, commands, losses, hit, spoiled>>
  \/ /\ ~frag /\ pkt # "empty"
     /\ Return /\ missing' = 0
     /\ IF pkt = "whole" /\ b = Byte(tid, ReplyBytes) /\ handler = "waiting"
        THEN IF kind = "low" THEN Send("high")
             ELSE /\ handler' = "idle" /\ alarm' = 0
                  /\ UNCHANGED <<kind, tid, commands, losses, hit, spoiled>>
        ELSE UNCHANGED <<handler, kind, alarm, tid, commands, losses, hit, spoiled>>

Elsewhere == UNCHANGED <<handler, kind, alarm, tid, commands, losses, hit, spoiled>>

(* The header is complete.  In frame it says how it is; otherwise anything *)
(* may be in its place: a data frame of any size, a time code, an unknown  *)
(* flag, or a size that ends the program.                                  *)
HeaderComplete(b, ok) ==
  \/ /\ ok
     /\ engine' = "data" /\ missing' = DataBytes
     /\ fragment' = (b.place < ReplyBytes - DataBytes)
     /\ Elsewhere
  \/ /\ ~ok
     /\ fragment' \in BOOLEAN
     /\ \/ \E n \in GarbledSizes \ {0} : engine' = "data" /\ missing' = n /\ Elsewhere
        \/ 0 \in GarbledSizes /\ FrameComplete(NoByte, packet, fragment')
        \/ engine' = "code" /\ missing' = 2 /\ Elsewhere
        \/ ReturnOrEnd /\ missing' = 0 /\ Elsewhere
        \/ /\ engine' = "stopped" /\ missing' = 0 /\ handler' = "exited"
           /\ UNCHANGED <<kind, alarm, tid, commands, losses, hit, spoiled>>

(* A byte arrives.                                                         *)
TakeByte ==
  /\ Receiving /\ reading /\ line # << >>
  /\ LET b == Head(line) IN
     /\ last' = b
     /\ inFrame' = NextInFrame(b) /\ packet' = NextPacket(b)
     /\ IF missing > 1
        THEN missing' = missing - 1 /\ UNCHANGED <<engine, fragment>> /\ Elsewhere
        ELSE \/ engine = "header" /\ HeaderComplete(b, NextInFrame(b))
             \/ engine = "data" /\ FrameComplete(b, NextPacket(b), fragment) /\ UNCHANGED fragment
             \/ engine = "code" /\ ExpectHeader /\ UNCHANGED fragment /\ Elsewhere
  /\ line' = Tail(line) /\ reading' = FALSE /\ timer' = 0
  /\ UNCHANGED <<recursive, trial, calls, connections, stalled,
                 receiveCanceled, held, stopping, stalls, failures, leftovers>>

Receive == Lock \/ Canceled \/ Read \/ ReadTimesOut \/ TakeByte
Access == Call \/ GiveUp \/ AfterCancel \/ GiveUp32
Next ==
  \/ Tick \/ Stall \/ Execute
  \/ Connect \/ Access \/ Disconnect \/ Disconnected
  \/ Receive

Spec == Init /\ [][Next]_vars

(* Time passes, threads run, and the board executes.                       *)
FairSpec ==
  /\ Spec
  /\ WF_vars(Tick) /\ WF_vars(Execute)
  /\ WF_vars(GiveUp \/ AfterCancel \/ GiveUp32) /\ WF_vars(Disconnected)
  /\ WF_vars(Receive)

-----------------------------------------------------------------------------
(* Every variable has its type.                                            *)
TypeOK ==
  /\ recursive \in BOOLEAN /\ stalled \in 0..StallTime /\ stopping \in BOOLEAN
  /\ handler \in {"closed", "idle", "waiting", "cancelling", "disconnecting", "exited"}
  /\ kind \in {"single", "low", "high"}
  /\ trial \in 1..Trials /\ alarm \in Nat /\ tid \in Nat
  /\ commands \in Seq(1..tid) /\ line \in Seq([reply : 1..tid, place : 1..ReplyBytes])
  /\ engine \in {"locking", "header", "data", "code", "deaf", "stopped"}
  /\ reading \in BOOLEAN /\ timer \in 0..ReceiveTimeout
  /\ missing \in Nat /\ inFrame \in BOOLEAN /\ fragment \in BOOLEAN
  /\ packet \in {"empty", "whole", "mixed"}
  /\ last \in [reply : 1..tid, place : 1..ReplyBytes] \cup {NoByte}
  /\ receiveCanceled \in BOOLEAN /\ held \in BOOLEAN
  /\ calls \in 0..MaxCalls /\ connections \in 0..MaxConnections
  /\ losses \in 0..MaxLosses /\ stalls \in 0..MaxStalls
  /\ hit \in BOOLEAN /\ {spoiled, failures, leftovers} \subseteq Nat

(* A fault spoils no trial but its own: a read() or write() whose engine   *)
(* ran fails only as often as a trial met a loss or a stall, once more for *)
(* each stall (the cancellation may cut a late reply in two), and once     *)
(* more for each time the framing was left to chance, unless a cancelled   *)
(* receive() locks the engine out.                                         *)
FaultsSpoilTheirTrial == recursive => failures <= spoiled + stalls + leftovers

(* A connection is released whatever bytes were lost: disconnectSpWGbE()   *)
(* does not wait for an engine that waits for data for ever, unless the    *)
(* line stalled, the framing was left to chance, or the engine is locked   *)
(* out.                                                                    *)
DisconnectEnds ==
  handler = "disconnecting" ~>
    handler # "disconnecting" \/ ~recursive \/ stalls + leftovers > 0
=============================================================================
