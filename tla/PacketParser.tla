---------------------------- MODULE PacketParser ----------------------------
(***************************************************************************)
(* The packets of the reader's serial protocol: Message builds and checks  *)
(* one, CommandsHandler::receivePacket cuts them out of the bytes that     *)
(* arrive one by one.                                                      *)
(*                                                                         *)
(*   head | length of the rest | reader | command | data ... | check sum   *)
(*                                                                         *)
(* What is asked of the reader, and what is done with its answers, is      *)
(* module Settings'.                                                       *)
(*                                                                         *)
(* The reader is outside the program: it sends well-formed packets; before *)
(* one there may be garbage that holds no head byte (the end of a packet   *)
(* begun before the driver started), and one byte of a packet, other than  *)
(* its head and its length, may be corrupted under way.                    *)
(***************************************************************************)
EXTENDS Naturals, Sequences, SequencesExt

CONSTANTS Width,       \* 2^8: a byte is one of 0..Width-1
          HeadByte,    \* RFID_HEAD
          Reader,      \* the reader's address
          Commands,    \* the command ids Command::receive knows
          Garbage,     \* garbage before a packet: sequences of bytes
          Errors       \* what the line may add to a byte of a packet

MinLen == 5            \* RFID_PACK_MINLEN

Byte == 0..(Width - 1)

ASSUME ByteAssumption == /\ Width \in Nat \ {0} /\ {HeadByte, Reader} \subseteq Byte
                         /\ HeadByte # 0 /\ Commands \subseteq Byte \ {0}
ASSUME GarbageAssumption == Garbage \subseteq Seq(Byte \ {HeadByte})
ASSUME ErrorsAssumption == Errors \subseteq Byte \ {0}

VARIABLES line,     \* bytes on their way to the driver
          recvBuf,  \* _recv_buf
          message,  \* what the last byte completed: a message, or NoMessage
          due,      \* packets the reader sent that nothing corrupted, and that
                    \*   are not handled yet (history)
          strange   \* a message was handled that was not the next due (history)

parserVars == <<line, recvBuf, message, due, strange>>
-----------------------------------------------------------------------------
(* Message::checkSum: the sum of the bytes, and its complement. *)
Sum(s) == LET upTo[n \in 0..Len(s)] ==
                IF n = 0 THEN 0 ELSE (upTo[n - 1] + s[n]) % Width
          IN upTo[Len(s)]

(* Mutant: the complement is not cut to a byte. *)
WideCheckSum(s) == Width - Sum(s)

CheckSum(s) == (Width - Sum(s)) % Width

Body(cmd, data) == <<HeadByte, Len(data) + 3, Reader, cmd>> \o data

(* Mutant: the check sum is taken before the data is inserted. *)
RequestSummedEarly(cmd, data) ==
    Body(cmd, data) \o <<CheckSum(Body(cmd, <<>>))>> \o [k \in 1..Len(data) |-> 0]

(* Message(btReadId_, btCmd_, btAryData_).  The data is inserted before the *)
(* zeros that were to hold it, so as many zeros stay behind the check sum.  *)
Request(cmd, data) ==
    Body(cmd, data) \o <<CheckSum(Body(cmd, data))>> \o [k \in 1..Len(data) |-> 0]

(* The reader's packets. *)
Packet(cmd, data) == Body(cmd, data) \o <<CheckSum(Body(cmd, data))>>

(* Message(btAryTranData_): the packet, or one of all zeros if the check sum *)
(* is wrong.                                                                *)
NoMessage == [cmd |-> 0, data |-> <<>>]

Message(block) ==
    IF CheckSum(Front(block)) # Last(block) THEN NoMessage
    ELSE [cmd |-> block[4],
          data |-> IF Len(block) > MinLen THEN SubSeq(block, 5, Len(block) - 1)
                                          ELSE <<>>]

(* Command::receive gives a message of a known command to its handler. *)
Receive(msg) == message' = IF msg.cmd \in Commands THEN msg ELSE NoMessage

BlockLen(buf) == buf[2] + 2

(* Mutant: a buffer that does not begin with a head byte is cleared. *)
ClearAll(buf) == <<>>

(* Bytes are dropped until a head byte leads. *)
FromHead(buf) ==
    LET heads == {k \in 1..Len(buf) : buf[k] = HeadByte}
    IN IF heads = {} THEN <<>>
       ELSE SubSeq(buf, CHOOSE k \in heads : \A l \in heads : k <= l, Len(buf))

(* Mutant: a packet is taken only with a byte of the next. *)
ReceiveLate(buf) ==
    \/ /\ Len(buf) < MinLen
       /\ recvBuf' = buf /\ message' = NoMessage
    \/ /\ Len(buf) >= MinLen
       /\ buf[1] = HeadByte
       /\ IF BlockLen(buf) < Len(buf)
            THEN /\ Receive(Message(SubSeq(buf, 1, BlockLen(buf))))
                 /\ recvBuf' = SubSeq(buf, BlockLen(buf) + 1, Len(buf))
            ELSE recvBuf' = buf /\ message' = NoMessage
    \/ /\ Len(buf) >= MinLen
       /\ buf[1] # HeadByte
       /\ recvBuf' = FromHead(buf) /\ message' = NoMessage

ReceivePacket(buf) ==
    \/ /\ Len(buf) < MinLen
       /\ recvBuf' = buf /\ message' = NoMessage
    \/ /\ Len(buf) >= MinLen
       /\ buf[1] = HeadByte
       /\ IF BlockLen(buf) <= Len(buf)
            THEN /\ Receive(Message(SubSeq(buf, 1, BlockLen(buf))))
                 /\ recvBuf' = SubSeq(buf, BlockLen(buf) + 1, Len(buf))
            ELSE recvBuf' = buf /\ message' = NoMessage
    \/ /\ Len(buf) >= MinLen
       /\ buf[1] # HeadByte
       /\ recvBuf' = FromHead(buf) /\ message' = NoMessage

(* runSerial: one byte is read and given to receivePacket. *)
OnByte == /\ line # <<>>
          /\ ReceivePacket(Append(recvBuf, Head(line)))
          /\ line' = Tail(line)
          /\ strange' = (strange \/ /\ message' # NoMessage
                                    /\ due = <<>> \/ message' # Head(due))
          /\ due' = IF message' = NoMessage \/ due = <<>> THEN due ELSE Tail(due)

(* The reader sends a packet; the line may add garbage before it, and may  *)
(* corrupt a byte of it, which the check sum tells.  How fast the bytes    *)
(* follow each other makes no difference to receivePacket: the next packet *)
(* waits for the line.                                                     *)
ReaderSends(cmd, data) ==
    /\ line = <<>>
    /\ \E garbage \in Garbage, packet \in {Packet(cmd, data)} :
          \/ /\ line' = garbage \o packet
             /\ due' = Append(due, [cmd |-> cmd, data |-> data])
          \/ \E k \in 3..Len(packet), error \in Errors :
               /\ line' = garbage \o [packet EXCEPT ![k] = (@ + error) % Width]
               /\ UNCHANGED due
    /\ UNCHANGED <<recvBuf, message, strange>>

ParserInit == /\ line = <<>>
              /\ recvBuf = <<>>
              /\ message = NoMessage
              /\ due = <<>>
              /\ strange = FALSE
-----------------------------------------------------------------------------
ParserTypeOK == /\ line \in Seq(Byte)
                /\ recvBuf \in Seq(Byte)
                /\ message \in [cmd : Commands \cup {0}, data : Seq(Byte)]
                /\ due \in Seq([cmd : Commands, data : Seq(Byte)])
                /\ strange \in BOOLEAN

(* Neither garbage between packets nor a corrupted one costs another       *)
(* packet: what the commands are given is what the reader sent intact, in  *)
(* its order, and all of it once the line is idle, with nothing left in    *)
(* the buffer but garbage too short to be looked at.                       *)
DeliversIntact == /\ ~strange
                  /\ line = <<>> => due = <<>> /\ Len(recvBuf) < MinLen
=============================================================================
