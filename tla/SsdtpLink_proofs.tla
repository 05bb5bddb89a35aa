-------------------------- MODULE SsdtpLink_proofs --------------------------
(***************************************************************************)
(* Theorems about SsdtpLink, for frames and replies of any size and any    *)
(* number of accesses, lost bytes, stalls and connections.                 *)
(***************************************************************************)
EXTENDS SsdtpLink, TLAPS, SequenceTheorems

(* The thread of the engine reads only inside receive(), is asked to stop  *)
(* only by a caller that awaits it, and is locked out only by a mutex that *)
(* its holder cannot lock again.                                           *)
ReceiverSound ==
  /\ reading => Receiving
  /\ stopping => handler \notin {"idle", "waiting", "cancelling"}
  /\ handler \in {"closed", "exited"} => engine = "stopped"
  /\ engine = "deaf" => ~recursive

(* What bears the number of the last command comes last: its reply after   *)
(* all other bytes, and nothing after the end of its reply.                *)
LastIsLast ==
  /\ \A i \in 1..Len(commands) : commands[i] = tid => i = Len(commands)
  /\ \A i \in 1..Len(line) : line[i].reply = tid => commands = << >>
  /\ \A i \in 1..Len(line) : line[i] = Byte(tid, ReplyBytes) => i = Len(line)

(* Nothing is on its way, and receive() waits for the first byte of a      *)
(* packet.                                                                 *)
Quiet == line = << >> /\ commands = << >>
Settled == Quiet /\ (engine = "code" => reading)
Fresh == engine = "locking" \/ (engine = "header" /\ missing = HeaderBytes /\ packet = "empty")

(* f frames of the reply and j bytes of the next one have been received,   *)
(* and nothing else; the rest is on the line.                              *)
Base(f) == f * FrameBytes
Part(f, j) ==
  /\ last = Byte(tid, Base(f) + j)
  /\ reading => timer > 0
  /\ IF j < HeaderBytes
     THEN engine = "header" /\ missing = HeaderBytes - j /\ (j > 0 => inFrame)
     ELSE /\ engine = "data" /\ missing = FrameBytes - j /\ inFrame
          /\ fragment = (f < Frames - 1)
  /\ packet = IF Base(f) + j <= HeaderBytes THEN "empty" ELSE "whole"
Received(f, j) ==
  /\ commands = << >> /\ Len(line) = ReplyBytes - (Base(f) + j)
  /\ \A i \in 1..Len(line) : line[i] = Byte(tid, Base(f) + j + i)
  /\ IF f = 0 /\ j = 0 THEN Fresh ELSE Part(f, j)

(* The present trial is about to succeed: its command has not been         *)
(* executed, or its reply is being received.  No time passes meanwhile.    *)
Underway ==
  /\ alarm = ReplyTimeout
  /\ \/ commands = <<tid>> /\ line = << >> /\ Fresh
     \/ \E f \in 0..Frames - 1, j \in 0..FrameBytes - 1 : Received(f, j)

(* No trial but the present one, if a fault met it, can fail: the framing  *)
(* is right, or will be when the wait after the cancellation is over.      *)
CleanWaiting ==
  /\ ~receiveCanceled
  /\ IF hit THEN alarm = 0 => Settled ELSE Underway
CleanCancelling ==
  /\ Settled
  /\ \/ ~receiveCanceled /\ Fresh
     \/ receiveCanceled /\ alarm > 0 /\ (reading => timer < alarm)
Clean ==
  /\ stalled = 0
  /\ \/ engine = "stopped"
     \/ handler \in {"idle", "disconnecting"} /\ Quiet /\ Fresh /\ ~receiveCanceled
     \/ handler = "waiting" /\ CleanWaiting
     \/ handler = "cancelling" /\ CleanCancelling

(* A trial that no fault met times out on a line that is at rest, so that  *)
(* the cancellation makes it clean.                                        *)
UnhitSettles ==
  handler = "waiting" /\ ~hit =>
    stalled = 0 /\ (alarm = 0 /\ engine # "stopped" => Settled)

(* The failures to come that are accounted for: of the trial a fault met,  *)
(* and of one more trial if the link is not clean.                         *)
Owed == IF handler = "waiting" /\ kind = "single" /\ hit THEN 1 ELSE 0
Risk == IF Clean THEN 0 ELSE 1
Account == failures + Owed + Risk <= spoiled + stalls + leftovers

IInv ==
  /\ TypeOK /\ ReceiverSound /\ LastIsLast
  /\ recursive => UnhitSettles /\ Account

USE ConstantsAssumption, CancelOutlastsRead

-----------------------------------------------------------------------------
(* Bytes and frames.                                                       *)

(* The sizes of frames and replies.                                        *)
LEMMA Sizes ==
  /\ FrameBytes \in Nat /\ FrameBytes > HeaderBytes /\ FrameBytes > DataBytes
  /\ FrameBytes = HeaderBytes + DataBytes
  /\ ReplyBytes \in Nat \ {0}
<1>1. FrameBytes \in Nat \ {0} /\ FrameBytes > HeaderBytes /\ FrameBytes > DataBytes
  BY DEF FrameBytes
<1>2. \A m, n \in Nat \ {0} : m * n \in Nat \ {0} OBVIOUS
<1> QED BY <1>1, <1>2 DEF ReplyBytes, FrameBytes

(* Where a frame of a reply begins.                                        *)
LEMMA Bases ==
  ASSUME NEW f \in 0..Frames - 1
  PROVE  /\ Base(f) \in Nat /\ Base(0) = 0 /\ Base(f + 1) = Base(f) + FrameBytes
         /\ f > 0 => Base(f) >= FrameBytes
         /\ f < Frames - 1 => Base(f) + 2 * FrameBytes <= ReplyBytes
         /\ f = Frames - 1 => Base(f) + FrameBytes = ReplyBytes
         /\ (Base(f) + 1) % FrameBytes = 1
<1> DEFINE F == FrameBytes
<1>0. F \in Nat /\ F > 1 BY Sizes
<1> HIDE DEF F
<1>1. \A n \in Nat : n * F \in Nat /\ (n + 1) * F = n * F + F BY <1>0
<1>2. \A n \in Nat : n > 0 => n * F >= F BY <1>0
<1>3. \A m, n \in Nat : m <= n => m * F <= n * F BY <1>0
<1>4. \A n \in Nat : (n * F + 1) % F = 1 BY <1>0
<1> QED BY <1>0, <1>1, <1>2, <1>3, <1>4 DEF Base, F, ReplyBytes

Bytes(n) == [reply : 1..n, place : 1..ReplyBytes]

(* What a command leaves on the line: bytes of its reply, the last of them *)
(* last.                                                                   *)
ReplyPart(s, r) ==
  /\ s \in Seq(Bytes(tid))
  /\ \A i \in 1..Len(s) : s[i].reply = r /\ (s[i].place = ReplyBytes => i = Len(s))

(* A reply, as a sequence of bytes.                                        *)
LEMMA ReplySeq ==
  ASSUME tid \in Nat, NEW r \in 1..tid
  PROVE  /\ Reply(r) \in Seq(Bytes(tid)) /\ Len(Reply(r)) = ReplyBytes
         /\ \A i \in 1..ReplyBytes : Reply(r)[i] = Byte(r, i)
<1>1. \A k \in 1..ReplyBytes : Byte(r, k) \in Bytes(tid) BY DEF Byte, Bytes
<1>2. Reply(r) \in [1..ReplyBytes -> Bytes(tid)] BY <1>1 DEF Reply
<1>3. ReplyBytes \in Nat BY Sizes
<1>4. Reply(r) \in Seq(Bytes(tid)) BY <1>2, <1>3, SeqDef
<1>5. Len(Reply(r)) = ReplyBytes
  BY <1>2, <1>3, <1>4, LenProperties
<1> QED BY <1>4, <1>5 DEF Reply

(* A reply is one.                                                         *)
LEMMA WholeReply ==
  ASSUME tid \in Nat, NEW r \in 1..tid
  PROVE  ReplyPart(Reply(r), r)
<1> DEFINE s == Reply(r)
<1>1. /\ s \in Seq(Bytes(tid)) /\ Len(s) = ReplyBytes
      /\ \A i \in 1..ReplyBytes : s[i] = Byte(r, i)
  BY ReplySeq
<1> HIDE DEF s
<1>2. ReplyPart(s, r) BY <1>1 DEF ReplyPart, Byte
<1> QED BY <1>2 DEF s

(* So is a reply that lacks a byte.                                        *)
LEMMA LackingReply ==
  ASSUME tid \in Nat, NEW r \in 1..tid, NEW k \in 1..ReplyBytes
  PROVE  LET a == SubSeq(Reply(r), 1, k - 1)
             b == SubSeq(Reply(r), k + 1, ReplyBytes)
         IN  /\ a \in Seq(Bytes(tid)) /\ b \in Seq(Bytes(tid))
             /\ ReplyPart(a \o b, r)
<1> DEFINE s == Reply(r)  n == ReplyBytes  B == Bytes(tid)
           a == SubSeq(s, 1, k - 1)  b == SubSeq(s, k + 1, n)
<1>0. s \in Seq(B) /\ Len(s) = n /\ \A i \in 1..n : s[i] = Byte(r, i)
  BY ReplySeq
<1>b. n \in Nat /\ \A i \in 1..n : Byte(r, i) \in B BY Sizes DEF Byte, Bytes
<1> HIDE DEF s, n, B
<1>1. s \in Seq(B) /\ Len(s) = n /\ n \in Nat /\ \A i \in 1..n : s[i] = Byte(r, i) /\ s[i] \in B
  BY <1>0, <1>b
<1>k. k \in 1..n BY DEF n
<1>2. /\ a \in Seq(B) /\ Len(a) = k - 1
      /\ \A i \in 1..k - 1 : a[i] = s[i]
  <2>1. \A i \in 1..k - 1 : s[i] \in B BY <1>1, <1>k
  <2>2. /\ a \in Seq(B) /\ Len(a) = IF 1 <= k - 1 THEN (k - 1) - 1 + 1 ELSE 0
        /\ \A i \in 1..(k - 1) - 1 + 1 : a[i] = s[1 + i - 1]
    BY <1>k, <2>1, SubSeqProperties, SMTT(30)
  <2> HIDE DEF a
  <2> QED BY <2>2, <1>k
<1>3. /\ b \in Seq(B) /\ Len(b) = n - k
      /\ \A i \in 1..n - k : b[i] = s[k + i]
  <2>1. \A i \in k + 1..n : s[i] \in B BY <1>1, <1>k
  <2>2. /\ b \in Seq(B) /\ Len(b) = IF k + 1 <= n THEN n - (k + 1) + 1 ELSE 0
        /\ \A i \in 1..n - (k + 1) + 1 : b[i] = s[k + 1 + i - 1]
    BY <1>1, <1>k, <2>1, SubSeqProperties, SMTT(30)
  <2> HIDE DEF b
  <2> QED BY <2>2, <1>k, <1>1
<1> HIDE DEF a, b
<1>4. /\ a \o b \in Seq(B) /\ Len(a \o b) = n - 1
      /\ \A i \in 1..n - 1 : (a \o b)[i] = IF i <= k - 1 THEN a[i] ELSE b[i - (k - 1)]
  <2>1. /\ a \o b \in Seq(B) /\ Len(a \o b) = Len(a) + Len(b)
        /\ \A i \in 1..Len(a) + Len(b) : (a \o b)[i] = IF i <= Len(a) THEN a[i] ELSE b[i - Len(a)]
    BY <1>2, <1>3, ConcatProperties, ZenonT(30)
  <2> QED BY <2>1, <1>1, <1>2, <1>3, <1>k
<1>5. ASSUME NEW i \in 1..n - 1
      PROVE  (a \o b)[i].reply = r /\ ((a \o b)[i].place = n => i = n - 1)
  <2>1. CASE i <= k - 1
    <3>1. (a \o b)[i] = s[i] /\ i \in 1..n /\ i < n BY <2>1, <1>2, <1>4, <1>k, <1>1
    <3> QED BY <3>1, <1>1 DEF Byte
  <2>2. CASE ~(i <= k - 1)
    <3>1. i - (k - 1) \in 1..n - k BY <2>2, <1>k, <1>1
    <3>2. (a \o b)[i] = s[i + 1] /\ i + 1 \in 1..n BY <2>2, <3>1, <1>3, <1>4, <1>k, <1>1
    <3> QED BY <3>2, <1>1 DEF Byte
  <2> QED BY <2>1, <2>2
<1>6. ReplyPart(a \o b, r) BY <1>4, <1>5 DEF ReplyPart, n, B
<1> QED BY <1>2, <1>3, <1>6 DEF a, b, s, n, B

(* The board executes a command: what it leaves on the line.               *)
LEMMA ExecutedLine ==
  ASSUME TypeOK, Execute
  PROVE  \E sent : ReplyPart(sent, Head(commands)) /\ line' = line \o sent
<1>1. commands \in Seq(1..tid) /\ commands # << >> /\ tid \in Nat /\ line \in Seq(Bytes(tid))
  BY DEF TypeOK, Execute, Bytes
<1> DEFINE r == Head(commands)
<1>2. r \in 1..tid BY <1>1, HeadTailProperties
<1> HIDE DEF r
<1>3. CASE line' = line \o Reply(r)
  BY <1>1, <1>2, <1>3, WholeReply DEF r
<1>4. ASSUME NEW k \in 1..ReplyBytes,
             line' = line \o SubSeq(Reply(r), 1, k - 1) \o SubSeq(Reply(r), k + 1, ReplyBytes)
      PROVE  \E sent : ReplyPart(sent, r) /\ line' = line \o sent
  <2> DEFINE a == SubSeq(Reply(r), 1, k - 1)  b == SubSeq(Reply(r), k + 1, ReplyBytes)
  <2>1. a \in Seq(Bytes(tid)) /\ b \in Seq(Bytes(tid)) /\ ReplyPart(a \o b, r)
    BY <1>1, <1>2, LackingReply
  <2>2. line' = (line \o a) \o b BY <1>4
  <2> HIDE DEF a, b
  <2>3. line' = line \o (a \o b) BY <1>1, <2>1, <2>2, ConcatAssociative, SMTT(30)
  <2> QED BY <2>1, <2>3
<1> QED BY <1>3, <1>4 DEF Execute, r

-----------------------------------------------------------------------------
(* What the actions do, as far as the invariant depends on it.             *)

Untouched == UNCHANGED <<handler, kind, alarm, tid, commands, losses, hit, spoiled>>

Kinds == {"single", "low", "high"}

(* A command is sent, or lost on its way out.                              *)
LEMMA SendEffect ==
  ASSUME TypeOK, NEW k \in Kinds, Send(k)
  PROVE  /\ kind' = k /\ tid' = tid + 1 /\ handler' = "waiting" /\ alarm' = ReplyTimeout
         /\ losses' \in 0..MaxLosses /\ hit' \in BOOLEAN
         /\ \/ ~hit' /\ spoiled' = spoiled /\ stalled = 0 /\ commands' = Append(commands, tid + 1)
            \/ /\ hit' /\ spoiled' = spoiled + (IF k = "single" THEN 1 ELSE 0)
               /\ commands' \in {commands, Append(commands, tid + 1)}
<1>1. kind' = k /\ tid' = tid + 1 /\ handler' = "waiting" /\ alarm' = ReplyTimeout
  BY DEF Send
<1>2. CASE SendFrame(k)
  <2>1. losses' = losses /\ commands' = Append(commands, tid + 1) BY <1>2 DEF SendFrame
  <2>2. CASE stalled > 0 BY <1>1, <1>2, <2>1, <2>2 DEF SendFrame, Spoil, TypeOK
  <2>3. CASE ~(stalled > 0)
    <3>1. stalled = 0 BY <2>3 DEF TypeOK
    <3>2. hit' = FALSE /\ spoiled' = spoiled BY <1>2, <2>3 DEF SendFrame
    <3> QED BY <1>1, <2>1, <3>1, <3>2 DEF TypeOK
  <2> QED BY <2>2, <2>3
<1>3. CASE WriteTooLittle(k)
  <2>1. losses' = losses + 1 /\ losses < MaxLosses /\ commands' = commands
        /\ hit' = TRUE /\ spoiled' = spoiled + (IF k = "single" THEN 1 ELSE 0)
    BY <1>3 DEF WriteTooLittle, Lose, Spoil
  <2> QED BY <1>1, <2>1 DEF TypeOK
<1> QED BY <1>2, <1>3 DEF Send

(* A byte leaves the caller alone, ends the program, or is the last of the *)
(* reply the caller waits for.                                             *)
LEMMA TakeByteEffect ==
  ASSUME TypeOK, TakeByte
  PROVE  /\ engine' \in {"locking", "header", "data", "code", "stopped"}
         /\ missing' \in Nat /\ fragment' \in BOOLEAN
         /\ \/ Untouched
            \/ handler' = "exited" /\ engine' = "stopped"
               /\ UNCHANGED <<kind, alarm, tid, commands, losses, hit, spoiled>>
            \/ /\ handler = "waiting" /\ Head(line) = Byte(tid, ReplyBytes)
               /\ engine' = (IF stopping THEN "stopped" ELSE "locking")
               /\ \/ kind = "low" /\ Send("high")
                  \/ /\ handler' = "idle" /\ alarm' = 0
                     /\ UNCHANGED <<kind, tid, commands, losses, hit, spoiled>>
<1> DEFINE b == Head(line)
           Accepts == handler = "waiting" /\ b = Byte(tid, ReplyBytes)
                      /\ \/ kind = "low" /\ Send("high")
                         \/ /\ handler' = "idle" /\ alarm' = 0
                            /\ UNCHANGED <<kind, tid, commands, losses, hit, spoiled>>
           G == /\ engine' \in {"locking", "header", "data", "code", "stopped"}
                /\ missing' \in Nat
                /\ \/ Untouched
                   \/ handler' = "exited" /\ engine' = "stopped"
                      /\ UNCHANGED <<kind, alarm, tid, commands, losses, hit, spoiled>>
                   \/ engine' = (IF stopping THEN "stopped" ELSE "locking") /\ Accepts
<1>1. ASSUME NEW c \in {b, NoByte}, NEW p, NEW g, FrameComplete(c, p, g) PROVE G
  <2>1. NoByte # Byte(tid, ReplyBytes) BY Sizes DEF NoByte, Byte
  <2>2. HeaderBytes \in Nat OBVIOUS
  <2>3. CASE ExpectHeader /\ Untouched BY <2>2, <2>3 DEF ExpectHeader
  <2>4. CASE Return /\ missing' = 0 /\ Untouched BY <2>4 DEF Return
  <2>5. CASE Return /\ missing' = 0 /\ c = Byte(tid, ReplyBytes) /\ handler = "waiting"
             /\ \/ kind = "low" /\ Send("high")
                \/ /\ handler' = "idle" /\ alarm' = 0
                   /\ UNCHANGED <<kind, tid, commands, losses, hit, spoiled>>
    <3>1. Accepts BY <2>1, <2>5
    <3>2. engine' = (IF stopping THEN "stopped" ELSE "locking") BY <2>5 DEF Return
    <3> HIDE DEF Accepts
    <3> QED BY <2>5, <3>1, <3>2
  <2> QED BY <1>1, <2>3, <2>4, <2>5 DEF FrameComplete, Untouched
<1>2. ASSUME NEW ok \in BOOLEAN, HeaderComplete(b, ok) PROVE G /\ fragment' \in BOOLEAN
  <2>1. CASE ok /\ engine' = "data" /\ missing' = DataBytes
             /\ fragment' = (b.place < ReplyBytes - DataBytes) /\ Elsewhere
    BY <2>1 DEF Elsewhere, Untouched
  <2>2. CASE fragment' \in BOOLEAN /\ \E n \in GarbledSizes \ {0} :
               engine' = "data" /\ missing' = n /\ Elsewhere
    BY <2>2 DEF Elsewhere, Untouched
  <2>3. CASE fragment' \in BOOLEAN /\ FrameComplete(NoByte, packet, fragment')
    BY <1>1, <2>3
  <2>4. CASE fragment' \in BOOLEAN /\ engine' = "code" /\ missing' = 2 /\ Elsewhere
    BY <2>4 DEF Elsewhere, Untouched
  <2>5. CASE fragment' \in BOOLEAN /\ ReturnOrEnd /\ missing' = 0 /\ Elsewhere
    BY <2>5 DEF Elsewhere, Untouched, ReturnOrEnd, Return
  <2>6. CASE fragment' \in BOOLEAN /\ engine' = "stopped" /\ missing' = 0 /\ handler' = "exited"
             /\ UNCHANGED <<kind, alarm, tid, commands, losses, hit, spoiled>>
    BY <2>6
  <2> HIDE DEF G
  <2> QED BY <1>2, <2>1, <2>2, <2>3, <2>4, <2>5, <2>6 DEF HeaderComplete
<1>3. missing \in Nat /\ fragment \in BOOLEAN
      /\ Receiving /\ engine \in {"header", "data", "code"}
  BY DEF TypeOK, TakeByte, Receiving
<1>4. CASE missing > 1 /\ missing' = missing - 1 /\ UNCHANGED <<engine, fragment>> /\ Elsewhere
  BY <1>3, <1>4 DEF Elsewhere, Untouched
<1>5. NextInFrame(b) \in BOOLEAN
  BY DEF NextInFrame, StartsFrame, Follows, TypeOK
<1>6. CASE engine = "header" /\ HeaderComplete(b, NextInFrame(b))
  BY <1>2, <1>5, <1>6
<1>7. CASE engine = "data" /\ FrameComplete(b, NextPacket(b), fragment) /\ UNCHANGED fragment
  BY <1>1, <1>3, <1>7
<1>8. CASE engine = "code" /\ ExpectHeader /\ UNCHANGED fragment /\ Elsewhere
  BY <1>3, <1>8 DEF ExpectHeader, Elsewhere, Untouched
<1>9. CASE missing > 1
  <2>1. missing' = missing - 1 /\ UNCHANGED <<engine, fragment>> /\ Elsewhere
    BY <1>9 DEF TakeByte
  <2> QED BY <1>4, <1>9, <2>1
<1>10. CASE ~(missing > 1)
  <2>1. \/ engine = "header" /\ HeaderComplete(b, NextInFrame(b))
        \/ engine = "data" /\ FrameComplete(b, NextPacket(b), fragment) /\ UNCHANGED fragment
        \/ engine = "code" /\ ExpectHeader /\ UNCHANGED fragment /\ Elsewhere
    BY <1>10 DEF TakeByte
  <2> QED BY <2>1, <1>6, <1>7, <1>8
<1> QED BY <1>9, <1>10

-----------------------------------------------------------------------------
(* Types, the receiver, and the order on the line.                         *)

LEMMA InitIInv == Init => IInv
<1> SUFFICES ASSUME Init PROVE IInv
  OBVIOUS
<1> USE DEF Init
<1>1. TypeOK
  <2>1. << >> \in Seq(1..tid) /\ << >> \in Seq([reply : 1..tid, place : 1..ReplyBytes])
    BY EmptySeq
  <2>2. recursive \in BOOLEAN /\ reading \in BOOLEAN /\ inFrame \in BOOLEAN
        /\ fragment \in BOOLEAN /\ receiveCanceled \in BOOLEAN /\ held \in BOOLEAN
        /\ stopping \in BOOLEAN /\ hit \in BOOLEAN
    OBVIOUS
  <2> QED BY <2>1, <2>2 DEF TypeOK
<1>2. ReceiverSound BY DEF ReceiverSound
<1>3. LastIsLast
  <2>1. Len(commands) = 0 /\ Len(line) = 0 BY EmptySeq
  <2> QED BY <2>1 DEF LastIsLast
<1>4. UnhitSettles BY DEF UnhitSettles
<1>5. Account BY DEF Account, Owed, Risk, Clean
<1> QED BY <1>1, <1>2, <1>3, <1>4, <1>5 DEF IInv

(* With a new number the earlier bytes and commands keep their types.      *)
LEMMA Grow ==
  ASSUME TypeOK, tid' \in {tid, tid + 1}
  PROVE  /\ tid' \in Nat
         /\ \A s \in Seq(Bytes(tid)) : s \in Seq(Bytes(tid)')
         /\ commands \in Seq(1..tid')
         /\ tid' = tid + 1 => Append(commands, tid + 1) \in Seq(1..tid')
         /\ last \in Bytes(tid)' \cup {NoByte}
         /\ Bytes(tid) \subseteq Bytes(tid)'
<1>1. tid \in Nat /\ tid' \in Nat BY DEF TypeOK
<1>2. 1..tid \subseteq 1..tid' BY <1>1
<1>3. Bytes(tid) \subseteq Bytes(tid)' BY <1>2 DEF Bytes
<1>4. \A s \in Seq(Bytes(tid)) : s \in Seq(Bytes(tid)') BY <1>3, SeqMonotonic
<1>5. commands \in Seq(1..tid') BY <1>2, SeqMonotonic DEF TypeOK
<1>6. tid' = tid + 1 => Append(commands, tid + 1) \in Seq(1..tid')
  <2> SUFFICES ASSUME tid' = tid + 1 PROVE Append(commands, tid + 1) \in Seq(1..tid')
    OBVIOUS
  <2>1. tid + 1 \in 1..tid' BY <1>1
  <2> QED BY <1>5, <2>1, AppendProperties
<1>7. last \in Bytes(tid)' \cup {NoByte}
  <2>1. last \in Bytes(tid) \cup {NoByte} BY DEF TypeOK, Bytes
  <2> QED BY <1>3, <2>1
<1> QED BY <1>1, <1>3, <1>4, <1>5, <1>6, <1>7

(* The types of what the caller changes, when a command is sent.           *)
LEMMA SendTypes ==
  ASSUME TypeOK, NEW k \in Kinds, Send(k)
  PROVE  /\ handler' = "waiting" /\ kind' \in Kinds /\ alarm' \in Nat /\ tid' \in Nat
         /\ commands' \in Seq(1..tid') /\ losses' \in 0..MaxLosses
         /\ hit' \in BOOLEAN /\ spoiled' \in Nat
         /\ \A s \in Seq(Bytes(tid)) : s \in Seq(Bytes(tid)')
         /\ last \in Bytes(tid)' \cup {NoByte}
         /\ Bytes(tid) \subseteq Bytes(tid)'
<1>1. tid' = tid + 1 BY SendEffect
<1>2. commands' \in {commands, Append(commands, tid + 1)} BY SendEffect
<1>3. spoiled' \in {spoiled, spoiled + 1}
  <2>1. \/ spoiled' = spoiled
        \/ spoiled' = spoiled + (IF k = "single" THEN 1 ELSE 0)
    BY SendEffect
  <2>2. spoiled \in Nat BY DEF TypeOK
  <2> QED BY <2>1, <2>2
<1>4. spoiled \in Nat /\ ReplyTimeout \in Nat BY DEF TypeOK
<1>5. hit' \in BOOLEAN /\ losses' \in 0..MaxLosses BY SendEffect
<1>6. handler' = "waiting" /\ kind' = k /\ alarm' = ReplyTimeout BY SendEffect
<1>7. /\ commands' \in Seq(1..tid')
      /\ \A s \in Seq(Bytes(tid)) : s \in Seq(Bytes(tid)')
      /\ last \in Bytes(tid)' \cup {NoByte}
      /\ Bytes(tid) \subseteq Bytes(tid)' /\ tid' \in Nat
  BY <1>1, <1>2, Grow
<1> QED BY <1>3, <1>4, <1>5, <1>6, <1>7

(* The parts of the types that an action of the caller, or of the port and *)
(* the receiver, may disturb.                                              *)
CallerTypes ==
  /\ handler \in {"closed", "idle", "waiting", "cancelling", "disconnecting", "exited"}
  /\ kind \in Kinds /\ trial \in 1..Trials /\ alarm \in Nat /\ tid \in Nat
  /\ commands \in Seq(1..tid) /\ calls \in 0..MaxCalls /\ connections \in 0..MaxConnections
LineTypes ==
  /\ stalled \in 0..StallTime /\ line \in Seq(Bytes(tid))
  /\ losses \in 0..MaxLosses /\ stalls \in 0..MaxStalls
  /\ hit \in BOOLEAN /\ spoiled \in Nat /\ failures \in Nat /\ leftovers \in Nat
EngineTypes ==
  /\ engine \in {"locking", "header", "data", "code", "deaf", "stopped"}
  /\ reading \in BOOLEAN /\ timer \in 0..ReceiveTimeout
  /\ missing \in Nat /\ inFrame \in BOOLEAN /\ fragment \in BOOLEAN
  /\ packet \in {"empty", "whole", "mixed"}
  /\ last \in Bytes(tid) \cup {NoByte}
  /\ receiveCanceled \in BOOLEAN /\ held \in BOOLEAN /\ stopping \in BOOLEAN

LEMMA TypeParts == TypeOK <=> recursive \in BOOLEAN /\ CallerTypes /\ LineTypes /\ EngineTypes
<1>1. TypeOK => CallerTypes BY DEF TypeOK, CallerTypes, Kinds
<1>2. TypeOK => LineTypes BY DEF TypeOK, LineTypes, Bytes
<1>3. TypeOK => EngineTypes BY DEF TypeOK, EngineTypes, Bytes
<1>4. ASSUME recursive \in BOOLEAN, CallerTypes, LineTypes, EngineTypes PROVE TypeOK
  BY <1>4 DEF CallerTypes, LineTypes, EngineTypes, TypeOK, Kinds, Bytes
<1> QED BY <1>1, <1>2, <1>3, <1>4 DEF TypeOK

(* Reception goes back to its beginning, or ends.                          *)
LEMMA ReturnValues ==
  /\ Return => engine' \in {"locking", "stopped"} /\ (~stopping => engine' = "locking")
  /\ ReturnOrEnd => engine' \in {"locking", "stopped"}
  BY DEF ReturnOrEnd, Return

(* Every step keeps the types.                                             *)
LEMMA TypeOKStep == TypeOK /\ [Next]_vars => TypeOK'
<1> SUFFICES ASSUME TypeOK, [Next]_vars PROVE TypeOK'
  OBVIOUS
<1> DEFINE C == CallerTypes  L == LineTypes  E == EngineTypes
<1>t. recursive \in BOOLEAN /\ C /\ L /\ E BY TypeParts
<1>p. recursive' \in BOOLEAN /\ C' /\ L' /\ E' => TypeOK'
  BY DEF CallerTypes, LineTypes, EngineTypes, TypeOK, Kinds, Bytes
<1> USE DEF caller, port, part, receiver, history
<1>0. recursive' = recursive
  BY DEF Next, Access, Receive, Tick, Stall, Execute, Connect, Call, GiveUp, AfterCancel,
         GiveUp32, Disconnect, Disconnected, Lock, Canceled, Read, ReadTimesOut, TakeByte, vars
<1> HIDE DEF C, L, E
<1>g. SUFFICES C' /\ L' /\ E' BY <1>0, <1>p, <1>t
<1> USE DEF C, L, E
<1>k. Bytes(tid)' = Bytes(tid) \/ tid' # tid BY DEF Bytes
<1>m. Mark => hit' \in BOOLEAN /\ spoiled' \in Nat
  <2>1. hit \in BOOLEAN /\ spoiled \in Nat BY <1>t DEF LineTypes
  <2>2. CASE hit BY <2>1, <2>2 DEF Mark
  <2>3. CASE ~hit
    <3>1. Mark => Spoil(kind) BY <2>3 DEF Mark
    <3>2. Mark => hit' = TRUE /\ spoiled' = spoiled + (IF kind = "single" THEN 1 ELSE 0)
      BY <3>1 DEF Spoil
    <3>3. Mark => hit' \in BOOLEAN BY <3>2
    <3>4. Mark => spoiled' \in Nat BY <2>1, <3>2
    <3> QED BY <3>3, <3>4
  <2> QED BY <2>2, <2>3
<1>1. CASE Tick
  <2>1. C' BY <1>1, <1>t DEF Tick, CallerTypes
  <2>2. L' BY <1>1, <1>t, <1>k DEF Tick, LineTypes
  <2>3. E' BY <1>1, <1>t, <1>k DEF Tick, EngineTypes
  <2> QED BY <2>1, <2>2, <2>3
<1>2. CASE Stall
  <2>1. C' BY <1>2, <1>t DEF Stall, CallerTypes
  <2>m. Mark BY <1>2 DEF Stall
  <2>2. hit' \in BOOLEAN /\ spoiled' \in Nat BY <2>m, <1>m
  <2>3. L' BY <1>2, <1>t, <1>k, <2>2 DEF Stall, LineTypes
  <2>4. E' BY <1>2, <1>t, <1>k DEF Stall, EngineTypes
  <2> QED BY <2>1, <2>3, <2>4
<1>3. CASE Execute
  <2>1. commands' \in Seq(1..tid)
    BY <1>3, <1>t, HeadTailProperties DEF Execute, CallerTypes
  <2>2. C' BY <1>3, <1>t, <2>1 DEF Execute, CallerTypes
  <2>3. PICK s : ReplyPart(s, Head(commands)) /\ line' = line \o s BY <1>3, ExecutedLine
  <2>4. line' \in Seq(Bytes(tid)) BY <1>t, <2>3, ConcatProperties DEF ReplyPart, LineTypes
  <2>5. hit' \in BOOLEAN /\ spoiled' \in Nat /\ losses' \in 0..MaxLosses
    <3>1. CASE UNCHANGED <<losses, hit, spoiled>> BY <3>1, <1>t DEF LineTypes
    <3>2. CASE Lose /\ Mark
      <4>1. losses' \in 0..MaxLosses BY <3>2, <1>t DEF Lose, LineTypes
      <4> QED BY <3>2, <4>1, <1>m
    <3> QED BY <1>3, <3>1, <3>2 DEF Execute
  <2>6. L' BY <1>3, <1>t, <1>k, <2>4, <2>5 DEF Execute, LineTypes
  <2>7. E' BY <1>3, <1>t, <1>k DEF Execute, EngineTypes
  <2> QED BY <2>2, <2>6, <2>7
<1>4. CASE Connect
  <2>1. C' BY <1>4, <1>t DEF Connect, CallerTypes
  <2>2. line' \in Seq(Bytes(tid))
    BY <1>4, <1>t, EmptySeq DEF Connect, OpenPort, NewSerialPort, LineTypes
  <2>3. leftovers' \in Nat BY <1>4, <1>t DEF Connect, OpenPort, LineTypes
  <2>4. L' BY <1>4, <1>t, <1>k, <2>2, <2>3 DEF Connect, LineTypes
  <2>b. receiveCanceled' \in BOOLEAN /\ held' \in BOOLEAN /\ stopping' \in BOOLEAN
        /\ reading' \in BOOLEAN
    BY <1>4 DEF Connect, NewModule
  <2>5. E' BY <1>4, <1>t, <1>k, <2>b DEF Connect, NewModule, EngineTypes
  <2> QED BY <2>1, <2>4, <2>5
<1>5. ASSUME NEW k \in Kinds, Send(k), trial' \in 1..Trials, calls' \in 0..MaxCalls,
             leftovers' \in Nat,
             UNCHANGED <<connections, line, stalled, receiver, stalls, failures>>
      PROVE  C' /\ L' /\ E'
  <2>1. C' BY <1>5, <1>t, SendTypes DEF CallerTypes
  <2>2. L' BY <1>5, <1>t, SendTypes DEF LineTypes
  <2>3. E' BY <1>5, <1>t, SendTypes DEF EngineTypes
  <2> QED BY <2>1, <2>2, <2>3
<1>6. CASE Call
  <2>1. Send("single") \/ Send("low") BY <1>6 DEF Call, accessRegister, getFPGATypeOrVersion
  <2>2. trial' \in 1..Trials /\ calls' \in 0..MaxCalls /\ leftovers' \in Nat
        /\ UNCHANGED <<connections, line, stalled, receiver, stalls, failures>>
    BY <1>6, <1>t DEF Call, CallerTypes, LineTypes
  <2> QED BY <1>5, <2>1, <2>2 DEF Kinds
<1>7. CASE GiveUp
  <2>1. C' BY <1>7, <1>t DEF GiveUp, CancelReceive, CallerTypes
  <2>2. L' BY <1>7, <1>t, <1>k DEF GiveUp, LineTypes
  <2>3. E' BY <1>7, <1>t, <1>k DEF GiveUp, CancelReceive, cancelReceive, EngineTypes
  <2> QED BY <2>1, <2>2, <2>3
<1>8. ASSUME NEW k \in Kinds, TryAgainOrThrow(k), leftovers' \in Nat,
             UNCHANGED <<calls, connections, line, stalled, receiver, stalls, failures>>
      PROVE  C' /\ L' /\ E'
  <2>1. CASE Send(k) /\ trial < Trials /\ trial' = trial + 1
    BY <1>5, <1>8, <2>1, <1>t DEF CallerTypes
  <2>2. CASE trial = Trials /\ handler' = "idle"
             /\ UNCHANGED <<kind, trial, alarm, tid, commands, losses, hit, spoiled>>
    <3>1. C' BY <1>8, <2>2, <1>t DEF CallerTypes
    <3>2. L' BY <1>8, <2>2, <1>t, <1>k DEF LineTypes
    <3>3. E' BY <1>8, <2>2, <1>t, <1>k DEF EngineTypes
    <3> QED BY <3>1, <3>2, <3>3
  <2> QED BY <1>8, <2>1, <2>2 DEF TryAgainOrThrow
<1>9. CASE AfterCancel
  <2>1. kind \in Kinds /\ TryAgainOrThrow(kind) /\ leftovers' \in Nat
        /\ UNCHANGED <<calls, connections, line, stalled, receiver, stalls, failures>>
    BY <1>9, <1>t DEF AfterCancel, CallerTypes, LineTypes
  <2> QED BY <1>8, <2>1
<1>10. CASE GiveUp32
  <2>1. "low" \in Kinds /\ TryAgainOrThrow("low") /\ leftovers' \in Nat
        /\ UNCHANGED <<calls, connections, line, stalled, receiver, stalls, failures>>
    BY <1>10, <1>t DEF GiveUp32, CallerTypes, LineTypes, Kinds
  <2> QED BY <1>8, <2>1
<1>11. CASE Disconnect
  <2>1. C' BY <1>11, <1>t DEF Disconnect, CallerTypes
  <2>2. L' BY <1>11, <1>t, <1>k DEF Disconnect, LineTypes
  <2>3. E' BY <1>11, <1>t, <1>k DEF Disconnect, EngineTypes
  <2> QED BY <2>1, <2>2, <2>3
<1>12. CASE Disconnected
  <2>1. C' BY <1>12, <1>t DEF Disconnected, CallerTypes
  <2>2. L' BY <1>12, <1>t, <1>k DEF Disconnected, LineTypes
  <2>3. E' BY <1>12, <1>t, <1>k DEF Disconnected, Close, cancelReceive, EngineTypes
  <2> QED BY <2>1, <2>2, <2>3
<1>13. CASE Lock \/ Canceled \/ Read \/ ReadTimesOut
  <2>1. UNCHANGED <<caller, port, history>>
    BY <1>13 DEF Lock, Canceled, Read, ReadTimesOut
  <2>2. C' BY <2>1, <1>t DEF CallerTypes
  <2>3. L' BY <2>1, <1>t, <1>k DEF LineTypes
  <2>4. CASE Lock
    <3>1. inFrame' \in BOOLEAN /\ fragment' \in BOOLEAN BY <2>4 DEF Lock
    <3>2. /\ missing' \in Nat /\ packet' \in {"empty", "whole", "mixed"}
          /\ engine' \in {"header", "deaf"}
      <4>1. HeaderBytes \in Nat OBVIOUS
      <4>2. CASE held /\ ~recursive BY <2>4, <4>2, <1>t DEF Lock, EngineTypes
      <4>3. CASE ~(held /\ ~recursive) BY <2>4, <4>1, <4>3 DEF Lock
      <4> QED BY <4>2, <4>3
    <3>3. last' = NoByte /\ UNCHANGED <<tid, reading, timer, receiveCanceled, held, stopping>>
      BY <2>4 DEF Lock
    <3>4. E' BY <3>1, <3>2, <3>3, <1>t DEF EngineTypes
    <3> QED BY <2>2, <2>3, <3>4
  <2>5. CASE Canceled
    <3>1. engine' \in {"locking", "stopped"} BY <2>5, ReturnValues DEF Canceled
    <3> QED BY <2>2, <2>3, <2>5, <3>1, <1>t, <1>k DEF Canceled, EngineTypes
  <2>6. CASE Read BY <2>2, <2>3, <2>6, <1>t, <1>k DEF Read, EngineTypes
  <2>7. CASE ReadTimesOut
    <3>1. engine' \in {"locking", "stopped", engine}
      BY <2>7, ReturnValues DEF ReadTimesOut
    <3> QED BY <2>2, <2>3, <2>7, <3>1, <1>t, <1>k DEF ReadTimesOut, EngineTypes
  <2> QED BY <1>13, <2>2, <2>3, <2>4, <2>5, <2>6, <2>7
<1>14. CASE TakeByte
  <2> DEFINE b == Head(line)
  <2>0. UNCHANGED <<trial, calls, connections, stalled, receiveCanceled, held, stopping,
                    stalls, failures, leftovers>>
        /\ line # << >> /\ line' = Tail(line) /\ reading' = FALSE /\ timer' = 0
        /\ last' = b /\ inFrame' = NextInFrame(b) /\ packet' = NextPacket(b)
    BY <1>14 DEF TakeByte
  <2>1. b \in Bytes(tid) /\ Tail(line) \in Seq(Bytes(tid))
    BY <2>0, <1>t, HeadTailProperties DEF LineTypes
  <2>2. /\ tid' \in Nat /\ commands' \in Seq(1..tid')
        /\ b \in Bytes(tid)' /\ line' \in Seq(Bytes(tid)')
        /\ handler' \in {"closed", "idle", "waiting", "cancelling", "disconnecting", "exited"}
        /\ kind' \in Kinds /\ alarm' \in Nat
        /\ losses' \in 0..MaxLosses /\ hit' \in BOOLEAN /\ spoiled' \in Nat
    <3>1. CASE Untouched
      BY <3>1, <2>0, <2>1, <1>k, <1>t DEF Untouched, CallerTypes, LineTypes
    <3>2. CASE handler' \in {"exited", "idle"} /\ alarm' \in {0, alarm}
               /\ UNCHANGED <<kind, tid, commands, losses, hit, spoiled>>
      BY <3>2, <2>0, <2>1, <1>k, <1>t DEF CallerTypes, LineTypes
    <3>3. CASE Send("high")
      <4>1. "high" \in Kinds BY DEF Kinds
      <4> QED BY <3>3, <4>1, <2>0, <2>1, SendTypes
    <3> QED BY <1>14, <3>1, <3>2, <3>3, TakeByteEffect
  <2>3. C' BY <2>0, <2>2, <1>t DEF CallerTypes
  <2>4. L' BY <2>0, <2>2, <1>t DEF LineTypes
  <2>5. inFrame' \in BOOLEAN
    BY <2>0, <1>t DEF NextInFrame, StartsFrame, Follows, EngineTypes
  <2>6. packet' \in {"empty", "whole", "mixed"}
    BY <2>0, <1>t DEF NextPacket, EngineTypes
  <2>7. engine' \in {"locking", "header", "data", "code", "stopped"}
        /\ missing' \in Nat /\ fragment' \in BOOLEAN
    BY <1>14, TakeByteEffect
  <2>b. reading' \in BOOLEAN /\ timer' \in 0..ReceiveTimeout
        /\ receiveCanceled' \in BOOLEAN /\ held' \in BOOLEAN /\ stopping' \in BOOLEAN
        /\ last' \in Bytes(tid)' \cup {NoByte}
    <3>1. reading' \in BOOLEAN BY <2>0
    <3>2. timer' \in 0..ReceiveTimeout BY <2>0
    <3>3. receiveCanceled' \in BOOLEAN /\ held' \in BOOLEAN /\ stopping' \in BOOLEAN
      BY <2>0, <1>t DEF EngineTypes
    <3>4. last' \in Bytes(tid)' BY <2>0, <2>2
    <3> QED BY <3>1, <3>2, <3>3, <3>4
  <2>8. E' BY <2>b, <2>5, <2>6, <2>7 DEF EngineTypes
  <2> QED BY <2>3, <2>4, <2>8
<1>15. CASE UNCHANGED vars
  <2>1. C' BY <1>15, <1>t DEF vars, CallerTypes
  <2>2. L' BY <1>15, <1>t, <1>k DEF vars, LineTypes
  <2>3. E' BY <1>15, <1>t, <1>k DEF vars, EngineTypes
  <2> QED BY <2>1, <2>2, <2>3
<1> QED BY <1>1, <1>2, <1>3, <1>4, <1>6, <1>7, <1>9, <1>10, <1>11, <1>12, <1>13, <1>14, <1>15
        DEF Next, Access, Receive

(* Every step keeps what the receiver and its caller rely on.              *)
LEMMA ReceiverStep == TypeOK /\ ReceiverSound /\ [Next]_vars => ReceiverSound'
<1> SUFFICES ASSUME TypeOK, ReceiverSound, [Next]_vars PROVE ReceiverSound'
  OBVIOUS
<1> USE DEF ReceiverSound, Receiving, caller, port, part, receiver, history
<1>1. CASE Tick BY <1>1 DEF Tick
<1>2. CASE Stall BY <1>2 DEF Stall
<1>3. CASE Execute BY <1>3 DEF Execute
<1>4. CASE Connect BY <1>4 DEF Connect, NewModule
<1>5. ASSUME NEW k \in Kinds, Send(k), handler \notin {"disconnecting", "closed", "exited"},
             UNCHANGED <<recursive, receiver>>, ~stopping
      PROVE  ReceiverSound'
  BY <1>5, SendEffect
<1>6. CASE Call
  <2>1. Send("single") \/ Send("low") BY <1>6 DEF Call, accessRegister, getFPGATypeOrVersion
  <2> QED BY <1>5, <1>6, <2>1 DEF Call, Kinds
<1>7. CASE GiveUp BY <1>7 DEF GiveUp, CancelReceive
<1>8. ASSUME NEW k \in Kinds, TryAgainOrThrow(k), handler \in {"waiting", "cancelling"},
             UNCHANGED <<recursive, receiver>>
      PROVE  ReceiverSound'
  <2>1. CASE Send(k) BY <1>5, <1>8, <2>1
  <2>2. CASE handler' = "idle" BY <1>8, <2>2
  <2> QED BY <1>8, <2>1, <2>2 DEF TryAgainOrThrow
<1>9. CASE AfterCancel
  <2>1. kind \in Kinds /\ TryAgainOrThrow(kind) /\ handler = "cancelling"
        /\ UNCHANGED <<recursive, receiver>>
    BY <1>9 DEF AfterCancel, TypeOK, Kinds
  <2> QED BY <1>8, <2>1
<1>10. CASE GiveUp32
  <2>1. "low" \in Kinds /\ TryAgainOrThrow("low") /\ handler = "waiting"
        /\ UNCHANGED <<recursive, receiver>>
    BY <1>10 DEF GiveUp32, Kinds
  <2> QED BY <1>8, <2>1
<1>11. CASE Disconnect BY <1>11 DEF Disconnect
<1>12. CASE Disconnected BY <1>12 DEF Disconnected
<1>13. CASE Lock BY <1>13 DEF Lock
<1>14. CASE Canceled BY <1>14, ReturnValues DEF Canceled, CancelSeen
<1>15. CASE Read BY <1>15 DEF Read
<1>16. CASE ReadTimesOut BY <1>16, ReturnValues DEF ReadTimesOut, TimerExpired
<1>17. CASE TakeByte
  <2>1. reading' = FALSE /\ stopping' = stopping /\ Receiving
    BY <1>17 DEF TakeByte
  <2>2. engine' \in {"locking", "header", "data", "code", "stopped"}
    BY <1>17, TakeByteEffect
  <2>3. handler \notin {"closed", "exited"} BY <2>1
  <2>4. CASE Untouched BY <2>1, <2>2, <2>3, <2>4 DEF Untouched
  <2>5. CASE handler' = "exited" /\ engine' = "stopped" BY <2>1, <2>5
  <2>6. CASE handler = "waiting" /\ handler' = "idle" BY <2>1, <2>2, <2>6
  <2>7. CASE handler = "waiting" /\ Send("high")
    <3>1. handler' = "waiting" BY <2>7, SendEffect DEF Kinds
    <3> QED BY <2>1, <2>2, <2>7, <3>1
  <2> QED BY <1>17, <2>4, <2>5, <2>6, <2>7, TakeByteEffect
<1>18. CASE UNCHANGED vars BY <1>18 DEF vars
<1> QED BY <1>1, <1>2, <1>3, <1>4, <1>6, <1>7, <1>9, <1>10, <1>11, <1>12, <1>13, <1>14, <1>15,
           <1>16, <1>17, <1>18
        DEF Next, Access, Receive

(* A new command has a new number, and comes last.                         *)
LEMMA SendLast ==
  ASSUME TypeOK, LastIsLast, NEW k \in Kinds, Send(k),
         line' = line \/ (line # << >> /\ line' = Tail(line))
  PROVE  LastIsLast'
<1>1. /\ tid \in Nat /\ commands \in Seq(1..tid) /\ line \in Seq(Bytes(tid))
      /\ tid' = tid + 1
      /\ commands' \in {commands, Append(commands, tid + 1)}
  BY SendEffect DEF TypeOK, Bytes
<1>2. line' \in Seq(Bytes(tid))
  BY <1>1, HeadTailProperties
<1>3. \A i \in 1..Len(line') : line'[i] \in Bytes(tid)
  BY <1>2, ElementOfSeq
<1>4. \A i \in 1..Len(line') : line'[i].reply # tid' /\ line'[i] # Byte(tid', ReplyBytes)
  <2> SUFFICES ASSUME NEW i \in 1..Len(line') PROVE line'[i].reply # tid' /\ line'[i] # Byte(tid', ReplyBytes)
    OBVIOUS
  <2>1. line'[i].reply \in 1..tid BY <1>3 DEF Bytes
  <2>2. line'[i].reply # tid' BY <1>1, <2>1
  <2>3. Byte(tid', ReplyBytes).reply = tid' BY DEF Byte
  <2> QED BY <2>2, <2>3
<1>5. \A i \in 1..Len(commands) : commands[i] # tid + 1
  <2>1. \A i \in 1..Len(commands) : commands[i] \in 1..tid BY <1>1, ElementOfSeq
  <2> QED BY <1>1, <2>1
<1>6. \A i \in 1..Len(commands') : commands'[i] = tid' => i = Len(commands')
  <2>1. CASE commands' = commands BY <1>1, <1>5, <2>1
  <2>2. CASE commands' = Append(commands, tid + 1)
    <3>1. Len(commands) \in Nat BY <1>1, LenProperties
    <3>2. /\ Len(Append(commands, tid + 1)) = Len(commands) + 1
          /\ \A i \in 1..Len(commands) : Append(commands, tid + 1)[i] = commands[i]
      <4>1. commands \in Seq(1..tid + 1) BY <1>1, SeqMonotonic
      <4>2. tid + 1 \in 1..tid + 1 BY <1>1
      <4> QED BY <4>1, <4>2, AppendProperties
    <3>3. commands' = Append(commands, tid + 1) BY <2>2
    <3>4. tid' = tid + 1 BY <1>1
    <3> QED BY <1>5, <3>1, <3>2, <3>3, <3>4
  <2> QED BY <1>1, <2>1, <2>2
<1> QED BY <1>4, <1>6 DEF LastIsLast, Byte, ReplyBytes, FrameBytes

(* The board executes in order.                                            *)
LEMMA ExecuteLast == TypeOK /\ LastIsLast /\ Execute => LastIsLast'
<1> SUFFICES ASSUME TypeOK, LastIsLast, Execute PROVE LastIsLast'
  OBVIOUS
<1> DEFINE c == Head(commands)
<1>1. /\ commands \in Seq(1..tid) /\ commands # << >> /\ line \in Seq(Bytes(tid))
      /\ commands' = Tail(commands) /\ tid' = tid
  BY DEF TypeOK, Bytes, Execute, caller
<1>2. PICK s : ReplyPart(s, c) /\ line' = line \o s BY ExecutedLine
<1>3. s \in Seq(Bytes(tid)) /\ \A i \in 1..Len(s) : s[i].reply = c /\ (s[i].place = ReplyBytes => i = Len(s))
  BY <1>2 DEF ReplyPart
<1>4. Len(line) \in Nat /\ Len(s) \in Nat BY <1>1, <1>3, LenProperties
<1>5. /\ Len(line') = Len(line) + Len(s)
      /\ \A i \in 1..Len(line) + Len(s) : line'[i] = IF i <= Len(line) THEN line[i] ELSE s[i - Len(line)]
  BY <1>1, <1>2, <1>3, ConcatProperties
<1>6. \A i \in 1..Len(line) : line[i].reply # tid BY <1>1 DEF LastIsLast
<1>7. /\ Len(commands) \in Nat /\ Len(commands') = Len(commands) - 1
      /\ \A i \in 1..Len(commands') : commands'[i] = commands[i + 1]
      /\ commands' \in Seq(1..tid) /\ Len(commands) > 0
  BY <1>1, HeadTailProperties, LenProperties, EmptySeq
<1>8. c = tid => commands' = << >>
  <2> SUFFICES ASSUME c = tid PROVE commands' = << >>
    OBVIOUS
  <2>1. commands[1] = tid BY <1>1
  <2>2. Len(commands) = 1 BY <2>1, <1>7 DEF LastIsLast
  <2>3. Len(commands') = 0 BY <2>2, <1>7
  <2> QED BY <2>3, <1>7, EmptySeq
<1>9. ASSUME NEW i \in 1..Len(line'), line'[i].reply = tid
      PROVE  commands' = << >> /\ (line'[i].place = ReplyBytes => i = Len(line'))
  <2>1. ~(i <= Len(line)) BY <1>4, <1>5, <1>6, <1>9
  <2>2. i - Len(line) \in 1..Len(s) /\ line'[i] = s[i - Len(line)] BY <2>1, <1>4, <1>5
  <2>3. c = tid BY <1>3, <1>9, <2>2
  <2>4. line'[i].place = ReplyBytes => i - Len(line) = Len(s) BY <1>3, <2>2
  <2> QED BY <1>4, <1>5, <1>8, <2>2, <2>3, <2>4
<1>10. \A i \in 1..Len(commands') : commands'[i] = tid => i = Len(commands')
  BY <1>7 DEF LastIsLast
<1>11. Byte(tid, ReplyBytes).reply = tid /\ Byte(tid, ReplyBytes).place = ReplyBytes BY DEF Byte
<1>12. \A i \in 1..Len(line') : line'[i] = Byte(tid, ReplyBytes) => i = Len(line')
  BY <1>9, <1>11
<1> QED BY <1>1, <1>9, <1>10, <1>12 DEF LastIsLast, Byte, ReplyBytes, FrameBytes

(* What stays in order when bytes are taken, or thrown away.               *)
LEMMA LessLast ==
  ASSUME TypeOK, LastIsLast, UNCHANGED <<tid, commands>>,
         line' \in {line, << >>} \/ (line # << >> /\ line' = Tail(line))
  PROVE  LastIsLast'
<1>1. line \in Seq(Bytes(tid)) BY DEF TypeOK, Bytes
<1>2. CASE line' = line BY <1>2 DEF LastIsLast, Byte, ReplyBytes, FrameBytes
<1>3. CASE line' = << >>
  <2>1. Len(line') = 0 BY <1>3, EmptySeq
  <2> QED BY <2>1 DEF LastIsLast, Byte, ReplyBytes, FrameBytes
<1>4. CASE line # << >> /\ line' = Tail(line)
  <2>1. /\ Len(line) \in Nat /\ Len(line') = Len(line) - 1
        /\ \A i \in 1..Len(line') : line'[i] = line[i + 1] /\ i + 1 \in 1..Len(line)
    <3>1. Len(line) \in Nat BY <1>1, LenProperties
    <3>2. Len(line') = Len(line) - 1 /\ \A i \in 1..Len(line') : line'[i] = line[i + 1]
      BY <1>1, <1>4, HeadTailProperties
    <3> QED BY <3>1, <3>2
  <2> QED BY <2>1, SMTT(30) DEF LastIsLast, Byte, ReplyBytes, FrameBytes
<1> QED BY <1>2, <1>3, <1>4

(* Every step keeps the order.                                             *)
LEMMA LastStep == TypeOK /\ LastIsLast /\ [Next]_vars => LastIsLast'
<1> SUFFICES ASSUME TypeOK, LastIsLast, [Next]_vars PROVE LastIsLast'
  OBVIOUS
<1> USE DEF caller, port, part, receiver, history
<1>1. CASE Execute BY <1>1, ExecuteLast
<1>2. CASE Tick \/ Stall \/ GiveUp \/ Disconnect \/ Disconnected \/ UNCHANGED vars
  <2>1. UNCHANGED <<tid, commands, line>>
    BY <1>2 DEF Tick, Stall, GiveUp, Disconnect, Disconnected, vars
  <2> QED BY <2>1, LessLast
<1>3. CASE Lock \/ Canceled \/ Read \/ ReadTimesOut
  <2>1. UNCHANGED <<tid, commands, line>>
    BY <1>3 DEF Lock, Canceled, Read, ReadTimesOut
  <2> QED BY <2>1, LessLast
<1>4. CASE Connect
  <2>1. UNCHANGED <<tid, commands>> /\ line' \in {line, << >>}
    BY <1>4 DEF Connect, OpenPort, NewSerialPort
  <2> QED BY <2>1, LessLast
<1>5. CASE Call
  <2>1. line' = line /\ (Send("single") \/ Send("low"))
    BY <1>5 DEF Call, accessRegister, getFPGATypeOrVersion
  <2> QED BY <2>1, SendLast DEF Kinds
<1>6. ASSUME NEW k \in Kinds, TryAgainOrThrow(k), line' = line PROVE LastIsLast'
  <2>1. CASE Send(k) BY <1>6, <2>1, SendLast
  <2>2. CASE UNCHANGED <<tid, commands>> BY <1>6, <2>2, LessLast
  <2> QED BY <1>6, <2>1, <2>2 DEF TryAgainOrThrow
<1>7. CASE AfterCancel
  <2>1. kind \in Kinds /\ TryAgainOrThrow(kind) /\ line' = line
    BY <1>7 DEF AfterCancel, TypeOK, Kinds
  <2> QED BY <1>6, <2>1
<1>8. CASE GiveUp32
  <2>1. "low" \in Kinds /\ TryAgainOrThrow("low") /\ line' = line
    BY <1>8 DEF GiveUp32, Kinds
  <2> QED BY <1>6, <2>1
<1>9. CASE TakeByte
  <2>1. line # << >> /\ line' = Tail(line) BY <1>9 DEF TakeByte
  <2>2. CASE UNCHANGED <<tid, commands>> BY <2>1, <2>2, LessLast
  <2>3. CASE Send("high") BY <2>1, <2>3, SendLast DEF Kinds
  <2> QED BY <1>9, <2>2, <2>3, TakeByteEffect DEF Untouched
<1> QED BY <1>1, <1>2, <1>3, <1>4, <1>5, <1>7, <1>8, <1>9 DEF Next, Access, Receive

-----------------------------------------------------------------------------
(* The link is clean, or will be: what every action does to that.          *)

(* Time passes only when the engine reads and nothing is on its way.       *)
LEMMA TickRests ==
  ASSUME TypeOK, ReceiverSound, recursive, stalled = 0, engine # "stopped", Tick
  PROVE  Receiving /\ reading /\ timer > 0 /\ Quiet
<1>1. ~(stalled > 0) OBVIOUS
<1>2. engine \notin {"deaf", "locking"} BY DEF ReceiverSound, Tick
<1>3. Receiving BY <1>2 DEF TypeOK, Receiving
<1> QED BY <1>1, <1>3 DEF Tick, Quiet

(* A trial that no fault has met stays as it was supposed to be.           *)
LEMMA UnhitStep ==
  ASSUME TypeOK, ReceiverSound, recursive, UnhitSettles, [Next]_vars
  PROVE  UnhitSettles'
<1> SUFFICES ASSUME handler' = "waiting", ~hit'
             PROVE  stalled' = 0 /\ (alarm' = 0 /\ engine' # "stopped" => Settled')
  BY DEF UnhitSettles
<1> USE DEF caller, port, part, receiver, history
<1>1. CASE Tick
  <2>1. handler = "waiting" /\ ~hit /\ engine' = engine /\ commands' = commands /\ line' = line
        /\ reading' = reading
    BY <1>1 DEF Tick
  <2>2. stalled = 0 /\ stalled' = 0 BY <1>1, <2>1 DEF UnhitSettles, Tick
  <2>3. engine # "stopped" => reading /\ Quiet BY <1>1, <2>2, TickRests
  <2> QED BY <2>1, <2>2, <2>3 DEF Settled, Quiet
<1>2. CASE Stall BY <1>2 DEF Stall, Mark, Spoil
<1>3. CASE Execute
  <2>1. CASE Mark BY <1>3, <2>1 DEF Mark, Spoil
  <2>2. CASE hit' = hit
    <3>1. handler = "waiting" /\ ~hit /\ UNCHANGED <<alarm, stalled, engine>> BY <1>3, <2>2 DEF Execute
    <3>2. commands # << >> BY <1>3 DEF Execute
    <3> QED BY <3>1, <3>2 DEF UnhitSettles, Settled, Quiet
  <2> QED BY <1>3, <2>1, <2>2 DEF Execute
<1>4. CASE Connect \/ Disconnect \/ Disconnected \/ GiveUp
  <2>1. handler' # "waiting"
    BY <1>4 DEF Connect, Disconnect, Disconnected, GiveUp, CancelReceive
  <2> QED BY <2>1
<1>5. ASSUME NEW k \in Kinds, Send(k), stalled' = stalled
      PROVE  stalled' = 0 /\ (alarm' = 0 /\ engine' # "stopped" => Settled')
  <2>1. alarm' # 0 BY <1>5, SendEffect
  <2>2. stalled = 0 BY <1>5, SendEffect
  <2> QED BY <1>5, <2>1, <2>2
<1>6. CASE Call
  <2>1. stalled' = stalled /\ (Send("single") \/ Send("low"))
    BY <1>6 DEF Call, accessRegister, getFPGATypeOrVersion
  <2> QED BY <2>1, <1>5 DEF Kinds
<1>7. CASE AfterCancel
  <2>1. kind \in Kinds /\ TryAgainOrThrow(kind) /\ stalled' = stalled
    BY <1>7 DEF AfterCancel, TypeOK, Kinds
  <2> QED BY <1>5, <2>1 DEF TryAgainOrThrow
<1>8. CASE GiveUp32
  <2>1. "low" \in Kinds /\ TryAgainOrThrow("low") /\ stalled' = stalled
    BY <1>8 DEF GiveUp32, Kinds
  <2> QED BY <1>5, <2>1 DEF TryAgainOrThrow
<1>9. CASE Lock \/ Canceled \/ Read \/ ReadTimesOut
  <2>1. UNCHANGED <<handler, hit, alarm, stalled, commands, line>>
    BY <1>9 DEF Lock, Canceled, Read, ReadTimesOut
  <2>2. engine' # "stopped" => engine # "stopped"
    BY <1>9, ReturnValues DEF Lock, Canceled, CancelSeen, Read, Receiving, ReadTimesOut, TimerExpired
  <2>3. engine' = "code" => reading'
    BY <1>9, ReturnValues DEF Lock, Canceled, Read, ReadTimesOut
  <2> QED BY <2>1, <2>2, <2>3 DEF UnhitSettles, Settled, Quiet
<1>10. CASE TakeByte
  <2>1. line # << >> /\ stalled' = stalled /\ Receiving BY <1>10 DEF TakeByte
  <2>2. CASE Untouched
    BY <2>1, <2>2 DEF Untouched, UnhitSettles, Settled, Quiet, Receiving
  <2>3. CASE Send("high") BY <1>5, <2>1, <2>3 DEF Kinds
  <2> QED BY <1>10, <2>2, <2>3, TakeByteEffect
<1>11. CASE UNCHANGED vars
  <2>1. UNCHANGED <<handler, hit, alarm, stalled, commands, line, engine, reading>>
    BY <1>11 DEF vars
  <2> QED BY <2>1 DEF UnhitSettles, Settled, Quiet
<1> QED BY <1>1, <1>2, <1>3, <1>4, <1>6, <1>7, <1>8, <1>9, <1>10, <1>11 DEF Next, Access, Receive

(* A command that is sent on a clean link.                                 *)
LEMMA CleanSend ==
  ASSUME TypeOK, NEW k \in Kinds, Send(k), stalled = 0, stalled' = 0, ~receiveCanceled',
         commands = << >>, line' = << >>, Fresh'
  PROVE  Clean'
<1>1. handler' = "waiting" /\ alarm' = ReplyTimeout /\ tid' = tid + 1 BY SendEffect
<1>2. CASE hit' BY <1>1, <1>2 DEF Clean, CleanWaiting
<1>3. CASE ~hit'
  <2>1. commands' = <<tid'>> BY <1>1, <1>3, SendEffect
  <2>2. Underway' BY <1>1, <2>1 DEF Underway
  <2> QED BY <1>1, <1>3, <2>2 DEF Clean, CleanWaiting
<1> QED BY <1>2, <1>3

(* Time.                                                                   *)
LEMMA CleanTick ==
  ASSUME TypeOK, ReceiverSound, recursive, Clean, Tick
  PROVE  Clean'
<1> USE DEF caller, port, part, receiver, history
<1>1. stalled = 0 /\ stalled' = 0 BY DEF Clean, Tick
<1>2. UNCHANGED <<handler, commands, line, engine, reading, missing, packet, receiveCanceled, hit>>
      /\ alarm' = (IF alarm > 0 THEN alarm - 1 ELSE 0) /\ timer' = (IF timer > 0 THEN timer - 1 ELSE 0)
  BY DEF Tick
<1>3. CASE engine = "stopped" BY <1>1, <1>2, <1>3 DEF Clean
<1>4. CASE engine # "stopped"
  <2>1. Receiving /\ reading /\ timer > 0 /\ Quiet BY <1>1, <1>4, TickRests
  <2>2. Quiet' /\ Settled' BY <1>2, <2>1 DEF Quiet, Settled
  <2>3. CASE handler \in {"idle", "disconnecting"} /\ Quiet /\ Fresh /\ ~receiveCanceled
    BY <1>1, <1>2, <2>2, <2>3 DEF Clean, Fresh
  <2>4. CASE handler = "waiting" /\ CleanWaiting
    <3>1. CASE hit BY <1>1, <1>2, <2>2, <2>4, <3>1 DEF Clean, CleanWaiting
    <3>2. CASE ~hit
      <4>1. Underway BY <2>4, <3>2 DEF CleanWaiting
      <4>2. commands # <<tid>> BY <2>1 DEF Quiet
      <4>3. PICK f \in 0..Frames - 1, j \in 0..FrameBytes - 1 : Received(f, j)
        BY <4>1, <4>2 DEF Underway
      <4>4. Base(f) + FrameBytes <= ReplyBytes /\ Base(f) \in Nat
        <5>1. f = Frames - 1 \/ f < Frames - 1 OBVIOUS
        <5> QED BY <5>1, Bases, Sizes
      <4>5. Len(line) > 0 BY <4>3, <4>4, Sizes DEF Received
      <4> QED BY <2>1, <4>5, EmptySeq DEF Quiet
    <3> QED BY <3>1, <3>2
  <2>5. CASE handler = "cancelling" /\ CleanCancelling
    <3>1. CASE ~receiveCanceled /\ Fresh
      BY <1>1, <1>2, <2>2, <2>5, <3>1 DEF Clean, CleanCancelling, Fresh
    <3>2. CASE receiveCanceled /\ alarm > 0 /\ (reading => timer < alarm)
      <4>1. alarm \in Nat /\ timer \in Nat BY DEF TypeOK
      <4>2. alarm' > 0 /\ timer' < alarm' BY <1>2, <2>1, <3>2, <4>1
      <4> QED BY <1>1, <1>2, <2>2, <2>5, <3>2, <4>2 DEF Clean, CleanCancelling
    <3> QED BY <2>5, <3>1, <3>2 DEF CleanCancelling
  <2> QED BY <1>4, <2>3, <2>4, <2>5 DEF Clean
<1> QED BY <1>3, <1>4

(* The board executes the command of this trial.                           *)
LEMMA CleanExecute ==
  ASSUME TypeOK, Clean, Execute
  PROVE  Clean'
<1> USE DEF caller, port, part, receiver, history
<1>1. stalled = 0 /\ stalled' = 0 BY DEF Clean, Execute
<1>2. UNCHANGED <<handler, alarm, tid, engine, reading, missing, packet, receiveCanceled>>
      /\ commands # << >> /\ commands' = Tail(commands)
  BY DEF Execute
<1>3. CASE engine = "stopped" BY <1>1, <1>2, <1>3 DEF Clean
<1>4. CASE engine # "stopped"
  <2>1. handler = "waiting" /\ CleanWaiting
    BY <1>2, <1>4 DEF Clean, Quiet, CleanCancelling, Settled
  <2>2. CASE hit
    <3>1. hit'
      <4>1. hit' = hit BY <2>2 DEF Execute, Mark
      <4> QED BY <2>2, <4>1
    <3>2. alarm # 0 BY <1>2, <2>1, <2>2 DEF CleanWaiting, Settled, Quiet
    <3> QED BY <1>1, <1>2, <2>1, <3>1, <3>2 DEF Clean, CleanWaiting
  <2>3. CASE ~hit
    <3>1. /\ commands = <<tid>> /\ line = << >> /\ Fresh /\ alarm = ReplyTimeout
          /\ ~receiveCanceled
      BY <1>2, <2>1, <2>3 DEF CleanWaiting, Underway, Received
    <3>2. CASE Lose /\ Mark
      <4>1. hit' BY <2>3, <3>2 DEF Mark, Spoil
      <4> QED BY <1>1, <1>2, <2>1, <3>1, <4>1 DEF Clean, CleanWaiting
    <3>3. CASE line' = line \o Reply(Head(commands)) /\ UNCHANGED <<losses, hit, spoiled>>
      <4>1. tid \in 1..tid /\ tid \in Nat
        <5>1. commands \in Seq(1..tid) /\ tid \in Nat BY DEF TypeOK
        <5>2. tid \in 1..tid BY <3>1, <5>1, HeadTailProperties
        <5> QED BY <5>1, <5>2
      <4>2. Head(commands) = tid /\ commands' = << >> BY <1>2, <3>1
      <4>3. /\ Reply(tid) \in Seq(Bytes(tid)) /\ Len(Reply(tid)) = ReplyBytes
            /\ \A i \in 1..ReplyBytes : Reply(tid)[i] = Byte(tid, i)
        BY <4>1, ReplySeq
      <4>4. line' = Reply(tid) BY <3>1, <3>3, <4>2, <4>3, ConcatEmptySeq
      <4>5. Base(0) = 0 BY Bases
      <4>6. Len(line') = ReplyBytes /\ \A i \in 1..Len(line') : line'[i] = Byte(tid, i)
        BY <4>3, <4>4
      <4>7. Fresh' BY <1>2, <3>1 DEF Fresh
      <4>8. Received(0, 0)'
        <5>1. ReplyBytes \in Nat /\ ReplyBytes = ReplyBytes - (0 + 0) BY Sizes
        <5>2. Base(0)' = 0 /\ ReplyBytes' = ReplyBytes BY <4>5 DEF Base, FrameBytes, ReplyBytes
        <5>3. \A i \in 1..Len(line') : line'[i] = Byte(tid', 0 + 0 + i)
          BY <1>2, <4>6, <5>1
        <5> QED BY <4>2, <4>6, <4>7, <5>1, <5>2, <5>3 DEF Received, Byte
      <4>9. Underway'
        <5>1. 0 \in 0..Frames - 1 /\ 0 \in 0..FrameBytes - 1 BY Sizes
        <5>2. FrameBytes' = FrameBytes BY DEF FrameBytes
        <5> QED BY <1>2, <3>1, <4>8, <5>1, <5>2 DEF Underway
      <4> QED BY <1>1, <1>2, <2>1, <2>3, <3>1, <3>3, <4>9 DEF Clean, CleanWaiting
    <3> QED BY <3>2, <3>3 DEF Execute
  <2> QED BY <2>2, <2>3
<1> QED BY <1>3, <1>4

(* A trial that times out is cancelled on a line at rest, unless a stall   *)
(* is the cause.                                                           *)
LEMMA CleanGiveUp ==
  ASSUME TypeOK, UnhitSettles, GiveUp, Clean \/ (~hit /\ engine # "stopped")
  PROVE  Clean'
<1> USE DEF caller, port, part, receiver, history
<1>1. handler = "waiting" /\ alarm = 0 /\ handler' = "cancelling" /\ alarm' = CancelWait
      /\ receiveCanceled' /\ UNCHANGED <<stalled, engine, reading, timer, commands, line>>
  BY DEF GiveUp, CancelReceive, cancelReceive
<1>2. stalled = 0 /\ (engine = "stopped" \/ Settled)
  <2>1. CASE Clean BY <1>1, <2>1 DEF Clean, CleanWaiting, Underway
  <2>2. CASE ~hit /\ engine # "stopped" BY <1>1, <2>2 DEF UnhitSettles
  <2> QED BY <2>1, <2>2
<1>3. timer < CancelWait /\ CancelWait > 0 BY DEF TypeOK
<1>4. CASE engine = "stopped" BY <1>1, <1>2, <1>4 DEF Clean
<1>5. CASE Settled
  <2>1. Settled' BY <1>1, <1>5 DEF Settled, Quiet
  <2>2. CleanCancelling' BY <1>1, <1>3, <2>1 DEF CleanCancelling
  <2> QED BY <1>1, <1>2, <2>2 DEF Clean
<1> QED BY <1>2, <1>4, <1>5

(* The next trial, the next access, and the end of one.                    *)
LEMMA CleanCaller ==
  ASSUME TypeOK, Clean, Call \/ AfterCancel \/ Disconnect \/ Disconnected
  PROVE  Clean'
<1> USE DEF caller, port, part, receiver, history
<1>1. stalled = 0 /\ stalled' = 0 /\ UNCHANGED <<engine, missing, packet, line>>
  BY DEF Clean, Call, AfterCancel, Disconnect, Disconnected
<1>2. CASE engine = "stopped" BY <1>1, <1>2 DEF Clean
<1>3. CASE Disconnect /\ engine # "stopped"
  <2>1. handler = "idle" /\ handler' = "disconnecting" /\ UNCHANGED <<commands, receiveCanceled>>
    BY <1>3 DEF Disconnect
  <2> QED BY <1>1, <1>3, <2>1 DEF Clean, Quiet, Fresh
<1>4. CASE Disconnected BY <1>2, <1>4 DEF Disconnected
<1>5. CASE Call /\ engine # "stopped"
  <2>1. handler = "idle" /\ receiveCanceled' = receiveCanceled /\ (Send("single") \/ Send("low"))
    BY <1>5 DEF Call, accessRegister, getFPGATypeOrVersion
  <2>2. Quiet /\ Fresh /\ ~receiveCanceled BY <1>5, <2>1 DEF Clean
  <2>3. Fresh' /\ line' = << >> BY <1>1, <2>2 DEF Fresh, Quiet
  <2> QED BY <1>1, <2>1, <2>2, <2>3, CleanSend DEF Kinds, Quiet
<1>6. CASE AfterCancel /\ engine # "stopped"
  <2>1. handler = "cancelling" /\ alarm = 0 /\ receiveCanceled' = receiveCanceled
        /\ TryAgainOrThrow(kind) /\ kind \in Kinds
    BY <1>6 DEF AfterCancel, TypeOK, Kinds
  <2>2. Quiet /\ Fresh /\ ~receiveCanceled BY <1>6, <2>1 DEF Clean, CleanCancelling, Settled
  <2>3. Fresh' /\ line' = << >> BY <1>1, <2>2 DEF Fresh, Quiet
  <2>4. CASE Send(kind) BY <1>1, <2>1, <2>2, <2>3, <2>4, CleanSend DEF Quiet
  <2>5. CASE handler' = "idle" /\ commands' = commands
    BY <1>1, <2>1, <2>2, <2>3, <2>5 DEF Clean, Quiet
  <2> QED BY <2>1, <2>4, <2>5 DEF TryAgainOrThrow
<1> QED BY <1>2, <1>3, <1>4, <1>5, <1>6

(* A new connection, if nothing is left of the last one.                   *)
LEMMA CleanConnect ==
  ASSUME Clean, Connect, line' = << >>, commands = << >>
  PROVE  Clean'
<1>1. /\ handler' = "idle" /\ engine' = "locking" /\ receiveCanceled' = FALSE
      /\ commands' = commands /\ stalled' = stalled
  BY DEF Connect, NewModule
<1> QED BY <1>1 DEF Clean, Quiet, Fresh

(* A receive() that waits for a packet goes on doing so.                   *)
LEMMA FreshStep ==
  ASSUME ReceiverSound, recursive, Fresh, ~receiveCanceled, Lock \/ Canceled \/ Read \/ ReadTimesOut
  PROVE  ~receiveCanceled' /\ (Fresh' \/ (stopping /\ engine' = "stopped"))
<1> USE DEF part, Fresh
<1>1. CASE Lock BY <1>1 DEF Lock
<1>2. CASE Canceled BY <1>2 DEF Canceled, CancelSeen
<1>3. CASE Read BY <1>3 DEF Read
<1>4. CASE ReadTimesOut
  <2>1. engine = "header" /\ Return /\ receiveCanceled' = receiveCanceled
    BY <1>4 DEF ReadTimesOut, TimerExpired, Receiving
  <2> QED BY <2>1 DEF Return
<1> QED BY <1>1, <1>2, <1>3, <1>4

(* The other steps of receive() but the taking of a byte.                  *)
LEMMA CleanReceive ==
  ASSUME TypeOK, ReceiverSound, recursive, Clean, Lock \/ Canceled \/ Read \/ ReadTimesOut
  PROVE  Clean'
<1> USE DEF caller, port, part, receiver, history
<1>1. /\ stalled = 0 /\ stalled' = 0
      /\ UNCHANGED <<handler, alarm, tid, hit, commands, line, stopping>>
  BY DEF Clean, Lock, Canceled, Read, ReadTimesOut
<1>2. engine # "stopped"
  BY DEF Lock, Canceled, CancelSeen, Read, Receiving, ReadTimesOut, TimerExpired
<1>3. engine' = "code" => reading'
  BY ReturnValues DEF Lock, Canceled, Read, ReadTimesOut
<1>4. Quiet => Quiet' BY <1>1 DEF Quiet
<1>5. Settled => Settled' BY <1>3, <1>4 DEF Settled
<1>6. CASE engine' = "stopped" BY <1>1, <1>6 DEF Clean
<1>7. CASE engine' # "stopped" /\ Fresh /\ ~receiveCanceled
  <2>1. ~receiveCanceled' /\ Fresh' BY <1>7, FreshStep
  <2>2. CASE handler \in {"idle", "disconnecting"} /\ Quiet
    BY <1>1, <1>4, <2>1, <2>2 DEF Clean
  <2>3. CASE handler = "waiting" /\ hit /\ (alarm = 0 => Settled)
    BY <1>1, <1>5, <2>1, <2>3 DEF Clean, CleanWaiting
  <2>4. CASE handler = "waiting" /\ ~hit /\ Underway
    <3>1. commands = <<tid>> /\ line = << >> => Underway' BY <1>1, <2>1, <2>4 DEF Underway
    <3>2. ASSUME NEW f \in 0..Frames - 1, NEW j \in 0..FrameBytes - 1, Received(f, j),
                 f = 0 /\ j = 0
          PROVE  Underway'
      <4>1. Received(f, j)'
        BY <1>1, <2>1, <3>2 DEF Received, Base, ReplyBytes, FrameBytes, Byte
      <4>2. alarm' = ReplyTimeout BY <1>1, <2>4 DEF Underway
      <4> QED BY <4>1, <4>2 DEF Underway, FrameBytes
    <3>3. ASSUME NEW f \in 0..Frames - 1, NEW j \in 0..FrameBytes - 1, Received(f, j),
                 ~(f = 0 /\ j = 0)
          PROVE  Underway'
      <4>1. Part(f, j) BY <3>3 DEF Received
      <4>2. engine # "locking" /\ ~Lock BY <4>1 DEF Part, Lock
      <4>3. ~Canceled BY <1>7 DEF Canceled, CancelSeen
      <4>4. ~ReadTimesOut
        <5>1. reading => timer > 0 BY <4>1 DEF Part
        <5>2. timer > 0 => timer # 0 OBVIOUS
        <5> QED BY <5>1, <5>2 DEF ReadTimesOut, TimerExpired
      <4>5. Read BY <4>2, <4>3, <4>4
      <4>6. UNCHANGED <<engine, missing, inFrame, fragment, packet, last>> /\ timer' > 0
        BY <4>5 DEF Read
      <4>7. Part(f, j)' BY <1>1, <4>1, <4>6 DEF Part, Base, FrameBytes, Byte
      <4>8. Received(f, j)'
        BY <1>1, <3>3, <4>7 DEF Received, Base, ReplyBytes, FrameBytes, Byte
      <4>9. alarm' = ReplyTimeout BY <1>1, <2>4 DEF Underway
      <4> QED BY <4>8, <4>9 DEF Underway, FrameBytes
    <3>4. Underway' BY <2>4, <3>1, <3>2, <3>3 DEF Underway
    <3> QED BY <1>1, <2>1, <2>4, <3>4 DEF Clean, CleanWaiting
  <2>5. CASE handler = "cancelling" /\ Settled
    BY <1>1, <1>5, <2>1, <2>5 DEF Clean, CleanCancelling
  <2> QED BY <1>2, <2>2, <2>3, <2>4, <2>5 DEF Clean, CleanWaiting, CleanCancelling
<1>8. CASE engine' # "stopped" /\ handler = "waiting" /\ CleanWaiting /\ ~Fresh
  <2>1. ~receiveCanceled /\ ~Canceled BY <1>8 DEF CleanWaiting, Canceled, CancelSeen
  <2>2. ~receiveCanceled' BY <2>1 DEF Lock, Read, ReadTimesOut
  <2>3. CASE hit
    <3>1. alarm = 0 => Settled BY <1>8, <2>3 DEF CleanWaiting
    <3>2. CleanWaiting' BY <1>1, <1>5, <2>2, <2>3, <3>1 DEF CleanWaiting
    <3> QED BY <1>1, <1>8, <3>2 DEF Clean
  <2>4. CASE ~hit
    <3>0. Underway BY <1>8, <2>4 DEF CleanWaiting
    <3>1. PICK f \in 0..Frames - 1, j \in 0..FrameBytes - 1 : Received(f, j)
      BY <1>8, <3>0 DEF Underway
    <3>2. Part(f, j) BY <1>8, <3>1 DEF Received
    <3>3. ~Lock BY <3>2 DEF Part, Lock
    <3>4. ~ReadTimesOut
      <4>1. reading => timer > 0 BY <3>2 DEF Part
      <4>2. timer > 0 => timer # 0 OBVIOUS
      <4> QED BY <4>1, <4>2 DEF ReadTimesOut, TimerExpired
    <3>5. Read BY <2>1, <3>3, <3>4
    <3>6. UNCHANGED <<engine, missing, inFrame, fragment, packet, last>> /\ timer' > 0
      BY <3>5 DEF Read
    <3>7. Part(f, j)' BY <1>1, <3>2, <3>6 DEF Part, Base, FrameBytes, Byte
    <3>8. Received(f, j)'
      BY <1>1, <1>8, <3>1, <3>7, <3>2 DEF Received, Base, ReplyBytes, FrameBytes, Byte
    <3>9. alarm' = ReplyTimeout BY <1>1, <3>0 DEF Underway
    <3>10. Underway' BY <3>8, <3>9 DEF Underway, FrameBytes
    <3>11. CleanWaiting' BY <1>1, <2>2, <2>4, <3>10 DEF CleanWaiting
    <3> QED BY <1>1, <1>8, <3>11 DEF Clean
  <2> QED BY <2>3, <2>4
<1>9. CASE /\ engine' # "stopped" /\ handler = "cancelling" /\ Settled
           /\ receiveCanceled /\ alarm > 0 /\ (reading => timer < alarm)
  <2>1. CASE Canceled
    <3>1. receiveCanceled' = FALSE /\ engine' = "locking" BY <1>9, <2>1, ReturnValues DEF Canceled
    <3>2. Fresh' BY <3>1 DEF Fresh
    <3>3. CleanCancelling' BY <1>5, <1>9, <3>1, <3>2 DEF CleanCancelling
    <3> QED BY <1>1, <1>9, <3>3 DEF Clean
  <2>2. ~Read BY <1>9 DEF Read, CancelSeen, Receiving, Settled
  <2>3. CASE Lock \/ ReadTimesOut
    <3>1. receiveCanceled' = receiveCanceled /\ timer' = timer
      BY <2>3 DEF Lock, ReadTimesOut
    <3>r. reading' => reading
      <4>1. CASE Lock BY <4>1 DEF Lock
      <4>2. CASE ReadTimesOut BY <4>2 DEF ReadTimesOut
      <4> QED BY <2>3, <4>1, <4>2
    <3>2. CleanCancelling' BY <1>1, <1>5, <1>9, <3>1, <3>r DEF CleanCancelling
    <3> QED BY <1>1, <1>9, <3>2 DEF Clean
  <2> QED BY <2>1, <2>2, <2>3
<1> QED BY <1>2, <1>6, <1>7, <1>8, <1>9 DEF Clean, CleanCancelling, CleanWaiting

(* The end of the reply of the last command: nothing comes after it.       *)
LEMMA EndOfReply ==
  ASSUME TypeOK, LastIsLast, line # << >>, Head(line) = Byte(tid, ReplyBytes)
  PROVE  Tail(line) = << >> /\ commands = << >>
<1>1. line \in Seq(Bytes(tid)) BY DEF TypeOK, Bytes
<1>2. Len(line) \in Nat /\ Len(line) > 0 BY <1>1, EmptySeq
<1>3. line[1] = Byte(tid, ReplyBytes) /\ line[1].reply = tid BY DEF Byte
<1>4. Len(line) = 1 /\ commands = << >> BY <1>2, <1>3 DEF LastIsLast
<1>5. Tail(line) \in Seq(Bytes(tid)) /\ Len(Tail(line)) = 0
  BY <1>1, <1>4, HeadTailProperties
<1> QED BY <1>4, <1>5, EmptySeq

(* A reply is accepted: the link is clean.                                 *)
LEMMA CleanAccept ==
  ASSUME TypeOK, ReceiverSound, LastIsLast, TakeByte,
         stalled = 0, handler = "waiting", ~receiveCanceled,
         Head(line) = Byte(tid, ReplyBytes), engine' = (IF stopping THEN "stopped" ELSE "locking"),
         Send("high") \/ (handler' = "idle" /\ commands' = commands)
  PROVE  Clean'
<1>1. /\ line # << >> /\ line' = Tail(line)
      /\ stalled' = stalled /\ receiveCanceled' = receiveCanceled
  BY DEF TakeByte
<1>2. line' = << >> /\ commands = << >> BY <1>1, EndOfReply
<1>3. ~stopping BY DEF ReceiverSound
<1>4. Fresh' BY <1>3 DEF Fresh
<1>5. CASE Send("high") BY <1>1, <1>2, <1>4, <1>5, CleanSend DEF Kinds
<1>6. CASE handler' = "idle" /\ commands' = commands
  BY <1>1, <1>2, <1>4, <1>6 DEF Clean, Quiet
<1> QED BY <1>5, <1>6

(* The next byte of the reply that is being received.                      *)
LEMMA NextByte ==
  ASSUME TypeOK, handler = "waiting", TakeByte,
         NEW f \in 0..Frames - 1, NEW j \in 0..FrameBytes - 1, Received(f, j)
  PROVE  \/ Untouched /\ j + 1 < FrameBytes /\ Received(f, j + 1)'
         \/ Untouched /\ f < Frames - 1 /\ Received(f + 1, 0)'
         \/ /\ Head(line) = Byte(tid, ReplyBytes)
            /\ engine' = (IF stopping THEN "stopped" ELSE "locking")
            /\ Send("high") \/ (handler' = "idle" /\ commands' = commands)
<1> DEFINE K == Base(f)  b == Head(line)  F == FrameBytes  H == HeaderBytes  R == ReplyBytes
<1>1. /\ K \in Nat /\ F \in Nat /\ F > H /\ F = H + DataBytes /\ R \in Nat \ {0}
      /\ H \in Nat \ {0} /\ DataBytes \in Nat \ {0}
      /\ (f = 0 => K = 0) /\ (f > 0 => K >= F)
      /\ (f < Frames - 1 => K + 2 * F <= R) /\ (f = Frames - 1 => K + F = R)
      /\ Base(f + 1) = K + F /\ (K + 1) % F = 1
      /\ (f < Frames - 1 \/ f = Frames - 1) /\ f \in Nat /\ j \in Nat /\ j < F
  BY Bases, Sizes
<1>2. /\ line # << >> /\ line' = Tail(line) /\ last' = b /\ reading' = FALSE
      /\ Receiving /\ inFrame' = NextInFrame(b) /\ packet' = NextPacket(b)
  BY DEF TakeByte
<1>3. /\ b = Byte(tid, K + j + 1) /\ b.place = K + j + 1 /\ b.reply = tid
      /\ Len(line') = R - (K + j + 1)
      /\ \A i \in 1..Len(line') : line'[i] = Byte(tid, K + j + 1 + i)
  <2>1. line \in Seq(Bytes(tid)) BY DEF TypeOK, Bytes
  <2>2. Len(line) = R - (K + j) /\ \A i \in 1..Len(line) : line[i] = Byte(tid, K + j + i)
    BY DEF Received
  <2> HIDE DEF K, R, F, H
  <2>3. Len(line) \in Nat /\ Len(line) > 0 BY <1>2, <2>1, EmptySeq
  <2>4. b = line[1] OBVIOUS
  <2>5. b = Byte(tid, K + j + 1) BY <2>2, <2>3, <2>4
  <2>6. Len(line') = Len(line) - 1 /\ \A i \in 1..Len(line') : line'[i] = line[i + 1]
    BY <1>2, <2>1, HeadTailProperties
  <2>7. \A i \in 1..Len(line') : i + 1 \in 1..Len(line) /\ K + j + (i + 1) = K + j + 1 + i
    BY <1>1, <2>3, <2>6
  <2>8. \A i \in 1..Len(line') : line'[i] = Byte(tid, K + j + 1 + i)
    BY <2>2, <2>6, <2>7
  <2>9. Len(line') = R - (K + j + 1) BY <1>1, <2>2, <2>6
  <2> QED BY <2>5, <2>8, <2>9 DEF Byte
<1>4. /\ commands = << >>
      /\ j < H => engine = "header" /\ missing = H - j /\ (j > 0 => inFrame)
      /\ ~(j < H) => engine = "data" /\ missing = F - j /\ inFrame /\ fragment = (f < Frames - 1)
      /\ packet = IF K + j <= H THEN "empty" ELSE "whole"
      /\ ~(f = 0 /\ j = 0) => Follows(b)
  <2>1. commands = << >> BY DEF Received
  <2>2. CASE f = 0 /\ j = 0
    <3>1. engine = "header" /\ missing = H /\ packet = "empty"
      BY <1>2, <2>2 DEF Received, Fresh, Receiving
    <3> QED BY <1>1, <2>1, <2>2, <3>1
  <2>3. CASE ~(f = 0 /\ j = 0)
    <3>1. Part(f, j) BY <2>3 DEF Received
    <3>2. last = Byte(b.reply, b.place - 1) /\ b.place > 1
      <4>1. last = Byte(tid, K + j) BY <3>1 DEF Part
      <4> HIDE DEF K, F, H, R, b
      <4>2. b.place - 1 = K + j /\ b.place > 1 BY <1>1, <1>3, <2>3
      <4> QED BY <1>3, <4>1, <4>2
    <3> QED BY <2>1, <2>3, <3>1, <3>2 DEF Part, Follows
  <2> QED BY <2>2, <2>3
<1> HIDE DEF K, F, H, R, b
<1>5. NextInFrame(b)
  <2>1. CASE j = 0
    <3>1. StartsFrame(b) BY <1>1, <1>3, <2>1 DEF StartsFrame, F
    <3> QED BY <1>1, <1>4, <2>1, <3>1 DEF NextInFrame, H
  <2>2. CASE j > 0 /\ j < H
    <3>1. missing # H /\ inFrame /\ Follows(b) BY <1>1, <1>4, <2>2
    <3> QED BY <1>4, <2>2, <3>1 DEF NextInFrame, H
  <2>3. CASE ~(j < H) BY <1>4, <2>3 DEF NextInFrame
  <2> QED BY <1>1, <2>1, <2>2, <2>3
<1>6. NextPacket(b) = IF K + j + 1 <= H THEN "empty" ELSE "whole"
  <2>1. CASE K + j < H
    <3>1. packet = "empty" /\ engine = "header" /\ K + j + 1 <= H BY <1>1, <1>4, <2>1
    <3> QED BY <3>1 DEF NextPacket
  <2>2. CASE K + j = H
    <3>1. packet = "empty" /\ engine = "data" /\ inFrame /\ Follows(b) /\ ~(K + j + 1 <= H)
      BY <1>1, <1>4, <2>2
    <3>2. b.place = HeaderBytes + 1 BY <1>1, <1>3, <2>2 DEF H
    <3> QED BY <3>1, <3>2 DEF NextPacket
  <2>3. CASE K + j > H
    <3>1. packet = "whole" /\ Follows(b) /\ ~(K + j + 1 <= H) BY <1>1, <1>4, <2>3
    <3> QED BY <3>1 DEF NextPacket
  <2> QED BY <1>1, <2>1, <2>2, <2>3
<1>7. ASSUME j + 1 < F, Untouched,
             j + 1 < H => engine' = "header" /\ missing' = H - (j + 1),
             ~(j + 1 < H) => engine' = "data" /\ missing' = F - (j + 1) /\ fragment' = (f < Frames - 1)
      PROVE  Untouched /\ j + 1 < F /\ Received(f, j + 1)'
  <2>1. last' = Byte(tid', K + (j + 1)) BY <1>1, <1>2, <1>3, <1>7 DEF Untouched
  <2>2. packet' = IF K + (j + 1) <= H THEN "empty" ELSE "whole"
    BY <1>1, <1>2, <1>6
  <2>3. inFrame' /\ ~reading' BY <1>2, <1>5
  <2>4. Part(f, j + 1)'
    BY <1>7, <2>1, <2>2, <2>3 DEF Part, K, F, H, Base, FrameBytes, Byte
  <2>5. Len(line') = R - (K + (j + 1)) BY <1>1, <1>3
  <2>6. \A i \in 1..Len(line') : line'[i] = Byte(tid', K + (j + 1) + i)
    BY <1>1, <1>3, <1>7 DEF Untouched
  <2>7. commands' = << >> /\ ~(f = 0 /\ j + 1 = 0) BY <1>1, <1>4, <1>7 DEF Untouched
  <2> QED BY <1>7, <2>4, <2>5, <2>6, <2>7
          DEF Received, K, F, R, Base, ReplyBytes, FrameBytes, Byte
<1>t. /\ missing > 1 => missing' = missing - 1 /\ UNCHANGED <<engine, fragment>> /\ Untouched
      /\ missing = 1 /\ engine = "header" => HeaderComplete(b, NextInFrame(b))
      /\ missing = 1 /\ engine = "data" => FrameComplete(b, NextPacket(b), fragment)
  <2>1. missing = 1 => ~(missing > 1) OBVIOUS
  <2> QED BY <2>1 DEF TakeByte, Elsewhere, Untouched, b
<1>8. CASE j + 1 < H
  <2>1. missing > 1 /\ missing - 1 = H - (j + 1) /\ j + 1 < F /\ engine = "header"
    BY <1>1, <1>4, <1>8
  <2> QED BY <1>7, <1>8, <1>t, <2>1 DEF F
<1>9. CASE j + 1 = H
  <2>1. missing = 1 /\ engine = "header" /\ j + 1 < F BY <1>1, <1>4, <1>9
  <2>2. engine' = "data" /\ missing' = DataBytes /\ Untouched
        /\ fragment' = (b.place < ReplyBytes - DataBytes)
    BY <1>5, <1>t, <2>1 DEF HeaderComplete, Elsewhere, Untouched
  <2>3. (b.place < ReplyBytes - DataBytes) = (f < Frames - 1)
    <3>1. b.place = K + H
      <4>1. K + j + 1 = K + H BY <1>1, <1>9
      <4> QED BY <1>3, <4>1
    <3>2. CASE f < Frames - 1
      <4>1. b.place < ReplyBytes - DataBytes BY <1>1, <3>1, <3>2 DEF R
      <4> QED BY <3>2, <4>1
    <3>3. CASE f = Frames - 1
      <4>1. ~(b.place < ReplyBytes - DataBytes) /\ ~(f < Frames - 1) BY <1>1, <3>1, <3>3 DEF R
      <4> QED BY <4>1
    <3> QED BY <1>1, <3>2, <3>3
  <2>4. DataBytes = F - (j + 1) /\ ~(j + 1 < H) BY <1>1, <1>9
  <2> QED BY <1>7, <2>1, <2>2, <2>3, <2>4 DEF F
<1>10. CASE ~(j < H) /\ j + 1 < F
  <2>1. missing > 1 /\ missing - 1 = F - (j + 1) /\ ~(j + 1 < H) /\ engine = "data"
        /\ fragment = (f < Frames - 1)
    BY <1>1, <1>4, <1>10
  <2> QED BY <1>7, <1>10, <1>t, <2>1 DEF F
<1>11. CASE j + 1 = F
  <2>1. missing = 1 /\ engine = "data" /\ fragment = (f < Frames - 1) /\ ~(K + j + 1 <= H)
        /\ K + j + 1 = K + F
    BY <1>1, <1>4, <1>11
  <2>2. NextPacket(b) = "whole" /\ FrameComplete(b, "whole", fragment) BY <1>6, <1>t, <2>1
  <2>3. CASE f < Frames - 1
    <3>1. engine' = "header" /\ missing' = H /\ Untouched
      BY <2>1, <2>2, <2>3 DEF FrameComplete, ExpectHeader, Untouched, H
    <3>2. last' = Byte(tid', Base(f + 1) + 0) /\ packet' = "whole" /\ ~reading'
          /\ ~(Base(f + 1) + 0 <= H)
      BY <1>1, <1>2, <1>3, <2>1, <2>2, <3>1, SMTT(30) DEF Untouched
    <3>3. 0 < H /\ H - 0 = H /\ ~(0 > 0) BY <1>1
    <3>4. Part(f + 1, 0)'
      BY <3>1, <3>2, <3>3 DEF Part, H, Base, FrameBytes, Byte
    <3>5. Len(line') = R - (Base(f + 1) + 0) BY <1>1, <1>3, <2>1
    <3>6. \A i \in 1..Len(line') : line'[i] = Byte(tid', Base(f + 1) + 0 + i)
      BY <1>1, <1>3, <2>1, <3>1 DEF Untouched
    <3>7. commands' = << >> /\ ~(f + 1 = 0) BY <1>1, <1>4, <3>1 DEF Untouched
    <3>8. Received(f + 1, 0)'
      BY <3>4, <3>5, <3>6, <3>7 DEF Received, R, Base, ReplyBytes, FrameBytes, Byte
    <3> QED BY <2>3, <3>1, <3>8
  <2>4. CASE f = Frames - 1
    <3>1. ~fragment
      <4>1. ~(f < Frames - 1) BY <1>1, <2>4
      <4> QED BY <2>1, <4>1
    <3>2. b = Byte(tid, ReplyBytes) BY <1>1, <1>3, <2>1, <2>4 DEF R
    <3>3. Return /\ (Send("high") \/ (handler' = "idle" /\ commands' = commands))
      BY <2>2, <3>1, <3>2 DEF FrameComplete
    <3> QED BY <3>2, <3>3 DEF Return, b
  <2> QED BY <1>1, <2>3, <2>4
<1> QED BY <1>1, <1>8, <1>9, <1>10, <1>11

(* A byte on a clean link.                                                 *)
LEMMA CleanTakeByte ==
  ASSUME TypeOK, ReceiverSound, LastIsLast, Clean, TakeByte
  PROVE  Clean'
<1>1. /\ stalled = 0 /\ stalled' = 0 /\ receiveCanceled' = receiveCanceled
      /\ line # << >> /\ Receiving
  BY DEF Clean, TakeByte
<1>2. handler = "waiting" /\ CleanWaiting
  BY <1>1 DEF Clean, Quiet, CleanCancelling, Settled, Receiving
<1>3. ~receiveCanceled BY <1>2 DEF CleanWaiting
<1>4. CASE ~hit
  <2>1. Underway BY <1>2, <1>4 DEF CleanWaiting
  <2>2. PICK f \in 0..Frames - 1, j \in 0..FrameBytes - 1 : Received(f, j)
    BY <1>1, <2>1 DEF Underway
  <2>3. CASE Untouched /\ Underway'
    BY <1>1, <1>2, <1>3, <1>4, <2>3 DEF Clean, CleanWaiting, Untouched
  <2>4. CASE Untouched /\ j + 1 < FrameBytes /\ Received(f, j + 1)'
    <3>1. j + 1 \in 0..FrameBytes - 1 BY <2>4, Sizes
    <3>2. alarm' = ReplyTimeout BY <2>1, <2>4 DEF Underway, Untouched
    <3>3. Underway' BY <2>4, <3>1, <3>2 DEF Underway, FrameBytes
    <3> QED BY <2>3, <2>4, <3>3
  <2>5. CASE Untouched /\ f < Frames - 1 /\ Received(f + 1, 0)'
    <3>1. f + 1 \in 0..Frames - 1 /\ 0 \in 0..FrameBytes - 1 BY <2>5, Sizes
    <3>2. alarm' = ReplyTimeout BY <2>1, <2>5 DEF Underway, Untouched
    <3>3. Underway' BY <2>5, <3>1, <3>2 DEF Underway, FrameBytes
    <3> QED BY <2>3, <2>5, <3>3
  <2> QED BY <1>1, <1>2, <1>3, <2>2, <2>4, <2>5, NextByte, CleanAccept
<1>5. CASE hit
  <2>1. alarm # 0 BY <1>1, <1>2, <1>5 DEF CleanWaiting, Settled, Quiet
  <2>2. CASE Untouched
    BY <1>1, <1>2, <1>3, <1>5, <2>1, <2>2 DEF Clean, CleanWaiting, Untouched
  <2>3. CASE engine' = "stopped" BY <1>1, <2>3 DEF Clean
  <2> QED BY <1>1, <1>2, <1>3, <2>2, <2>3, TakeByteEffect, CleanAccept
<1> QED BY <1>4, <1>5

-----------------------------------------------------------------------------
(* The account.                                                            *)

(* A command leaves its trial owed for exactly if a fault meets it.        *)
LEMMA OwedSend ==
  ASSUME TypeOK, NEW k \in Kinds, Send(k)
  PROVE  Owed' + spoiled <= Owed + spoiled'
<1>1. Owed \in 0..1 /\ spoiled \in Nat BY DEF Owed, TypeOK
<1>2. CASE ~hit' /\ spoiled' = spoiled
  <2>1. Owed' = 0 BY <1>2 DEF Owed
  <2> QED BY <1>1, <1>2, <2>1
<1>3. CASE hit' /\ spoiled' = spoiled + (IF k = "single" THEN 1 ELSE 0)
  <2>1. Owed' = IF k = "single" THEN 1 ELSE 0
    BY <1>3, SendEffect DEF Owed
  <2> QED BY <1>1, <1>3, <2>1
<1> QED BY <1>2, <1>3, SendEffect

(* A fault that meets the present trial makes it owed for.                 *)
LEMMA OwedMark ==
  ASSUME TypeOK, UNCHANGED <<handler, kind>>, Mark
  PROVE  Owed' + spoiled <= Owed + spoiled'
<1>1. Owed \in 0..1 /\ spoiled \in Nat BY DEF Owed, TypeOK
<1>2. CASE hit
  <2>1. Owed' = Owed /\ spoiled' = spoiled BY <1>2 DEF Mark, Owed
  <2> QED BY <1>1, <2>1
<1>3. CASE ~hit
  <2>1. spoiled' = spoiled + (IF kind = "single" THEN 1 ELSE 0) BY <1>3 DEF Mark, Spoil
  <2>2. CASE Owed' = 0 BY <1>1, <2>1, <2>2
  <2>3. CASE Owed' # 0
    <3>1. kind = "single" /\ Owed' = 1 BY <2>3 DEF Owed
    <3>2. spoiled' = spoiled + 1 BY <2>1, <3>1
    <3> QED BY <1>1, <3>1, <3>2
  <2> QED BY <2>2, <2>3
<1> QED BY <1>2, <1>3

(* No step owes for a trial that is not counted as spoiled.                *)
LEMMA OwedStep ==
  ASSUME TypeOK, [Next]_vars
  PROVE  Owed' + spoiled <= Owed + spoiled'
<1> USE DEF caller, port, part, receiver, history
<1>1. Owed \in 0..1 /\ spoiled \in Nat BY DEF Owed, TypeOK
<1>2. ASSUME UNCHANGED <<handler, kind, hit, spoiled>> PROVE Owed' + spoiled <= Owed + spoiled'
  <2>1. Owed' = Owed BY <1>2 DEF Owed
  <2> QED BY <1>1, <1>2, <2>1
<1>3. ASSUME handler' # "waiting", spoiled' = spoiled PROVE Owed' + spoiled <= Owed + spoiled'
  <2>1. Owed' = 0 BY <1>3 DEF Owed
  <2> QED BY <1>1, <1>3, <2>1
<1>4. CASE Tick BY <1>2, <1>4 DEF Tick
<1>5. CASE Stall BY <1>5, OwedMark DEF Stall
<1>6. CASE Execute BY <1>2, <1>6, OwedMark DEF Execute
<1>7. CASE Connect BY <1>3, <1>7 DEF Connect
<1>8. CASE Call BY <1>8, OwedSend DEF Call, accessRegister, getFPGATypeOrVersion, Kinds
<1>9. CASE GiveUp BY <1>3, <1>9 DEF GiveUp, CancelReceive
<1>10. CASE AfterCancel
  <2>1. kind \in Kinds BY DEF TypeOK, Kinds
  <2> QED BY <1>3, <1>10, <2>1, OwedSend DEF AfterCancel, TryAgainOrThrow
<1>11. CASE GiveUp32 BY <1>3, <1>11, OwedSend DEF GiveUp32, TryAgainOrThrow, Kinds
<1>12. CASE Disconnect BY <1>3, <1>12 DEF Disconnect
<1>13. CASE Disconnected BY <1>3, <1>13 DEF Disconnected
<1>14. CASE Lock \/ Canceled \/ Read \/ ReadTimesOut
  BY <1>2, <1>14 DEF Lock, Canceled, Read, ReadTimesOut
<1>15. CASE TakeByte
  <2>1. CASE Untouched BY <1>2, <2>1 DEF Untouched
  <2>2. CASE handler' = "exited" /\ spoiled' = spoiled BY <1>3, <2>2
  <2>3. CASE Send("high") BY <2>3, OwedSend DEF Kinds
  <2>4. CASE handler' = "idle" /\ UNCHANGED <<kind, tid, commands, losses, hit, spoiled>>
    BY <1>3, <2>4
  <2> QED BY <1>15, <2>1, <2>2, <2>3, <2>4, TakeByteEffect
<1>16. CASE UNCHANGED vars BY <1>2, <1>16 DEF vars
<1> QED BY <1>4, <1>5, <1>6, <1>7, <1>8, <1>9, <1>10, <1>11, <1>12, <1>13, <1>14, <1>15, <1>16
        DEF Next, Access, Receive

(* The link stays clean, but for a stall, for framing left to chance and   *)
(* for a trial that times out.                                             *)
LEMMA CleanStep ==
  ASSUME TypeOK, ReceiverSound, LastIsLast, recursive, [Next]_vars, Clean,
         ~Stall, ~GiveUp, ~GiveUp32, ~(Connect /\ ~(line' = << >> /\ commands = << >>))
  PROVE  Clean'
<1>1. CASE UNCHANGED vars
  <2>1. /\ UNCHANGED <<stalled, engine, handler, line, commands, missing, packet, receiveCanceled>>
        /\ UNCHANGED <<hit, alarm, reading, timer, tid, last, inFrame, fragment>>
    BY <1>1 DEF vars, caller, port, part, receiver, history
  <2> QED BY <2>1 DEF Clean, Quiet, Fresh, CleanWaiting, CleanCancelling, Settled, Underway,
                      Received, Part, Base, Byte
<1> QED BY <1>1, CleanTick, CleanExecute, CleanCaller, CleanConnect, CleanReceive, CleanTakeByte
        DEF Next, Access, Receive

(* Only stalls and framing left to chance put the link at risk.            *)
LEMMA RiskStep ==
  ASSUME TypeOK, ReceiverSound, LastIsLast, recursive, [Next]_vars, ~GiveUp
  PROVE  failures' = failures /\ Risk' + stalls + leftovers <= Risk + stalls' + leftovers'
<1> USE DEF caller, port, part, receiver, history
<1>1. /\ Risk \in 0..1 /\ Risk' \in 0..1 /\ stalls \in Nat /\ leftovers \in Nat
  BY DEF Risk, TypeOK
<1>2. failures' = failures
  BY DEF Next, Access, Receive, vars, Tick, Stall, Execute, Connect, Call, AfterCancel, GiveUp32,
         Disconnect, Disconnected, Lock, Canceled, Read, ReadTimesOut, TakeByte
<1>3. ASSUME \/ stalls' = stalls + 1 /\ leftovers' = leftovers
             \/ stalls' = stalls /\ leftovers' = leftovers + 1
      PROVE  Risk' + stalls + leftovers <= Risk + stalls' + leftovers'
  BY <1>1, <1>3
<1>4. CASE Stall BY <1>2, <1>3, <1>4 DEF Stall
<1>5. CASE GiveUp32 BY <1>2, <1>3, <1>5 DEF GiveUp32
<1>6. CASE Connect /\ ~(line' = << >> /\ commands = << >>)
  BY <1>2, <1>3, <1>6 DEF Connect, OpenPort
<1>7. CASE ~Stall /\ ~GiveUp32 /\ ~(Connect /\ ~(line' = << >> /\ commands = << >>))
  <2>1. stalls' = stalls /\ leftovers' = leftovers
    <3>1. CASE Connect
      <4>1. leftovers' = leftovers + 0 BY <1>7, <3>1 DEF Connect, OpenPort
      <4> QED BY <1>1, <3>1, <4>1 DEF Connect
    <3>2. CASE ~Connect
      BY <1>7, <3>2
      DEF Next, Access, Receive, vars, Tick, Execute, Call, AfterCancel,
          Disconnect, Disconnected, Lock, Canceled, Read, ReadTimesOut, TakeByte
    <3> QED BY <3>1, <3>2
  <2>2. Clean => Clean' BY <1>7, CleanStep
  <2>3. CASE Clean'
    <3>1. Risk' = 0 BY <2>3 DEF Risk
    <3> QED BY <1>1, <1>2, <2>1, <3>1
  <2>4. CASE ~Clean'
    <3>1. Risk' = 1 /\ Risk = 1 BY <2>2, <2>4 DEF Risk
    <3> QED BY <1>1, <1>2, <2>1, <3>1
  <2> QED BY <2>3, <2>4
<1> QED BY <1>4, <1>5, <1>6, <1>7

(* A trial that times out was owed for, or it was the one more that an     *)
(* unclean link may cost, and leaves the link clean.                       *)
LEMMA AccountGiveUp ==
  ASSUME TypeOK, ReceiverSound, recursive, UnhitSettles, Account, GiveUp
  PROVE  Account'
<1> USE DEF caller, port, part, receiver, history
<1> DEFINE o == Owed  r == Risk  r2 == Risk'  f2 == failures'
           covered == spoiled + stalls + leftovers
<1>1. o \in 0..1 /\ r \in 0..1 /\ r2 \in 0..1 /\ failures \in Nat /\ covered \in Nat
  BY DEF Risk, Owed, TypeOK
<1>2. UNCHANGED <<spoiled, stalls, leftovers>> /\ handler' = "cancelling"
      /\ handler = "waiting" /\ kind = "single" /\ alarm = 0
  BY DEF GiveUp, CancelReceive
<1>3. failures + o + r <= covered BY DEF Account
<1>f. f2 = failures + (IF engine \in {"deaf", "stopped"} THEN 0 ELSE 1) BY DEF GiveUp
<1>n. f2 \in Nat BY <1>1, <1>f
<1>4. ASSUME ~hit, engine # "stopped"
      PROVE  f2 + r2 <= covered
  <2>1. f2 = failures + 1 BY <1>4 DEF GiveUp, ReceiverSound
  <2>2. ~Clean BY <1>2, <1>4 DEF Clean, CleanWaiting, Underway
  <2>3. Clean' BY <1>4, CleanGiveUp
  <2>4. r = 1 /\ r2 = 0 BY <2>2, <2>3 DEF Risk
  <2> HIDE DEF o, r, r2, f2, covered
  <2> QED BY <1>1, <1>3, <2>1, <2>4
<1>5. ASSUME hit \/ engine = "stopped"
      PROVE  f2 + r2 <= covered
  <2>2. engine # "stopped" => o = 1 BY <1>2, <1>5 DEF Owed
  <2>3. Clean => Clean' BY CleanGiveUp
  <2>4. r = 0 => r2 = 0 BY <2>3 DEF Risk
  <2> HIDE DEF o, r, r2, f2, covered
  <2>5. f2 <= failures + o
    <3>1. CASE engine = "stopped" BY <1>1, <1>f, <3>1
    <3>2. CASE engine # "stopped" BY <1>1, <1>f, <2>2, <3>2
    <3> QED BY <3>1, <3>2
  <2>6. r2 <= r BY <1>1, <2>4
  <2>7. (failures + o) + r <= covered /\ failures + o \in Nat BY <1>1, <1>3
  <2> QED BY <1>1, <1>n, <2>5, <2>6, <2>7
<1>6. f2 + r2 <= covered BY <1>4, <1>5
<1>7. Owed' = 0 /\ covered' = covered BY <1>2 DEF Owed
<1>8. failures' + Owed' + r2 <= covered' BY <1>1, <1>n, <1>6, <1>7
<1> QED BY <1>8 DEF Account

(* Every step keeps the account.                                           *)
LEMMA AccountStep ==
  ASSUME TypeOK, TypeOK', ReceiverSound, LastIsLast, recursive, UnhitSettles, Account, [Next]_vars
  PROVE  Account'
<1>1. CASE ~GiveUp
  <2>1. /\ Owed \in 0..1 /\ Owed' \in 0..1 /\ Risk \in 0..1 /\ Risk' \in 0..1
        /\ {spoiled, stalls, leftovers, failures} \subseteq Nat
        /\ {spoiled', stalls', leftovers'} \subseteq Nat
    BY DEF Owed, Risk, TypeOK
  <2>2. Owed' + spoiled <= Owed + spoiled' BY OwedStep
  <2>3. failures' = failures /\ Risk' + stalls + leftovers <= Risk + stalls' + leftovers'
    BY <1>1, RiskStep
  <2>4. failures + Owed + Risk <= spoiled + stalls + leftovers BY DEF Account
  <2>5. failures + Owed' + Risk' <= spoiled' + stalls' + leftovers'
    BY <2>1, <2>2, <2>3, <2>4
  <2> QED BY <2>3, <2>5 DEF Account
<1>2. CASE GiveUp BY <1>2, AccountGiveUp
<1> QED BY <1>1, <1>2

-----------------------------------------------------------------------------
(* The invariant is one, of any specification with these steps.            *)
LEMMA IInvStep == IInv /\ [Next]_vars => IInv'
<1> SUFFICES ASSUME IInv, [Next]_vars PROVE IInv'
  OBVIOUS
<1>1. TypeOK' /\ ReceiverSound' /\ LastIsLast'
  BY TypeOKStep, ReceiverStep, LastStep DEF IInv
<1>2. recursive' = recursive
  BY DEF Next, Access, Receive, vars, caller, port, part, receiver, history,
         Tick, Stall, Execute, Connect, Call, GiveUp, AfterCancel, GiveUp32,
         Disconnect, Disconnected, Lock, Canceled, Read, ReadTimesOut, TakeByte
<1>3. ASSUME recursive PROVE UnhitSettles' /\ Account'
  BY <1>1, <1>3, UnhitStep, AccountStep DEF IInv
<1> QED BY <1>1, <1>2, <1>3 DEF IInv

THEOREM Invariance == Spec => []IInv
<1> QED BY InitIInv, IInvStep, PTL DEF Spec

(* Every variable has its type: the bytes on the line are bytes of replies *)
(* to commands that were sent, and the counts stay within their bounds,    *)
(* with frames, replies, timeouts and numbers of trials of any size.       *)
THEOREM TypeCorrect == Spec => []TypeOK
<1>1. IInv => TypeOK BY DEF IInv
<1> QED BY <1>1, Invariance, PTL

(* A fault spoils no trial but its own: however many bytes are lost and    *)
(* accesses made, the trials that fail while receive() runs are no more    *)
(* than those a fault met, one for each stall, and one for each time the   *)
(* framing was left to chance (a new connection with bytes left in the     *)
(* port, a read32BitRegister() given up without cancelReceive()).  The     *)
(* wait of cancelReceive() is long enough, and the tests of receiveCanceled *)
(* are in the right places, for the next trial to begin with a frame.      *)
THEOREM FaultCostsItsTrial == Spec => []FaultsSpoilTheirTrial
<1>1. IInv => FaultsSpoilTheirTrial
  <2> SUFFICES ASSUME IInv, recursive PROVE failures <= spoiled + stalls + leftovers
    BY DEF FaultsSpoilTheirTrial
  <2>1. Owed \in 0..1 /\ Risk \in 0..1 /\ {failures, spoiled, stalls, leftovers} \subseteq Nat
    BY DEF IInv, TypeOK, Owed, Risk
  <2>2. failures + Owed + Risk <= spoiled + stalls + leftovers BY DEF IInv, Account
  <2> QED BY <2>1, <2>2
<1> QED BY <1>1, Invariance, PTL

(* Without a stall and without framing left to chance the link stays       *)
(* clean, whatever bytes were lost.                                        *)
AtRiskByChance == recursive => Risk <= stalls + leftovers

LEMMA AtRiskByChanceStep == IInv /\ AtRiskByChance /\ [Next]_vars => AtRiskByChance'
<1> SUFFICES ASSUME IInv, AtRiskByChance, [Next]_vars, recursive' PROVE Risk' <= stalls' + leftovers'
  BY DEF AtRiskByChance
<1>1. TypeOK /\ TypeOK' /\ ReceiverSound /\ LastIsLast BY IInvStep DEF IInv
<1>2. recursive
  BY DEF Next, Access, Receive, vars, caller, port, part, receiver, history,
         Tick, Stall, Execute, Connect, Call, GiveUp, AfterCancel, GiveUp32,
         Disconnect, Disconnected, Lock, Canceled, Read, ReadTimesOut, TakeByte
<1>3. /\ Risk \in 0..1 /\ Risk' \in 0..1
      /\ stalls \in Nat /\ leftovers \in Nat /\ stalls' \in Nat /\ leftovers' \in Nat
  BY <1>1 DEF Risk, TypeOK
<1>4. Risk <= stalls + leftovers BY <1>2 DEF AtRiskByChance
<1>5. CASE ~GiveUp
  <2> DEFINE r == Risk
             r2 == Risk'
             s == stalls
             s2 == stalls'
             l == leftovers
             l2 == leftovers'
  <2>1. r2 + s + l <= r + s2 + l2 BY <1>1, <1>2, <1>5, RiskStep
  <2>2. r <= s + l BY <1>4
  <2>3. {r, r2, s, s2, l, l2} \subseteq Nat BY <1>3
  <2> HIDE DEF r, r2, s, s2, l, l2
  <2>4. r2 <= s2 + l2 BY <2>1, <2>2, <2>3
  <2> QED BY <2>4 DEF r2, s2, l2
<1>6. CASE GiveUp
  <2>1. UNCHANGED <<stalls, leftovers>> BY <1>6 DEF GiveUp
  <2>2. Clean => Clean' BY <1>1, <1>2, <1>6, CleanGiveUp DEF IInv
  <2>3. Risk' <= Risk
    <3>1. CASE Clean' BY <1>3, <3>1 DEF Risk
    <3>2. CASE ~Clean' BY <1>3, <2>2, <3>2 DEF Risk
    <3> QED BY <3>1, <3>2
  <2> QED BY <1>3, <1>4, <2>1, <2>3
<1> QED BY <1>5, <1>6

(* disconnectSpWGbE() never awaits an engine that is in the middle of a    *)
(* frame: whatever bytes were lost and accesses failed before, receive()   *)
(* is back at the header of a packet, on a line at rest, when a connection *)
(* is to be released, so that its next timeout ends it.  Not after a stall *)
(* or where the framing was left to chance, and not with a mutex that      *)
(* locks the engine out.                                                   *)
THEOREM ReleasedBetweenFrames ==
  Spec => [](handler = "disconnecting" /\ recursive /\ stalls + leftovers = 0 =>
               \/ engine = "stopped"
               \/ /\ line = << >> /\ commands = << >>
                  /\ engine \in {"locking", "header"} /\ ~receiveCanceled)
<1> DEFINE P == handler = "disconnecting" /\ recursive /\ stalls + leftovers = 0 =>
                  \/ engine = "stopped"
                  \/ /\ line = << >> /\ commands = << >>
                     /\ engine \in {"locking", "header"} /\ ~receiveCanceled
<1>1. Init => AtRiskByChance
  <2> SUFFICES ASSUME Init PROVE Risk <= stalls + leftovers BY DEF AtRiskByChance
  <2>1. Clean BY DEF Init, Clean
  <2>2. Risk = 0 BY <2>1 DEF Risk
  <2> QED BY <2>2 DEF Init
<1>2. IInv /\ AtRiskByChance => P
  <2> SUFFICES ASSUME IInv, AtRiskByChance, handler = "disconnecting", recursive, stalls + leftovers = 0
               PROVE P
    OBVIOUS
  <2>1. Risk <= 0 BY DEF AtRiskByChance
  <2>2. Clean
    <3>1. ASSUME ~Clean PROVE FALSE
      <4>1. Risk = 1 BY <3>1 DEF Risk
      <4> QED BY <2>1, <4>1
    <3> QED BY <3>1
  <2> QED BY <2>2 DEF Clean, Quiet, Fresh
<1> HIDE DEF P
<1>3. Spec => []P BY <1>1, <1>2, AtRiskByChanceStep, Invariance, PTL DEF Spec
<1> QED BY <1>3 DEF P

=============================================================================
