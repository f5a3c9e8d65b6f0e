--------------------------- MODULE RemainingLength ---------------------------
(* The remaining length of an MQTT packet, in bytes of seven bits each, the    *)
(* lowest first: MQTTPacket_encode writes it, decodePacket reads it from the   *)
(* stream, four bytes at most, and readPacket writes it back to its buffer.    *)
EXTENDS Naturals, Sequences, SequencesExt

MAX_NO_OF_REMAINING_LENGTH_BYTES == 4

MQTTPacket_encode[length \in Nat] ==
    IF length < 128 THEN <<length>>
                    ELSE <<(length % 128) + 128>> \o MQTTPacket_encode[length \div 128]

\* The bytes decodePacket reads of those that come: up to one without the top bit.
BytesRead(bytes) ==
    LET ends == {i \in 1..Len(bytes) : bytes[i] < 128} \cup {MAX_NO_OF_REMAINING_LENGTH_BYTES}
    IN SubSeq(bytes, 1, CHOOSE i \in ends : \A j \in ends : i <= j)

decodePacket(bytes) == FoldRight(LAMBDA byte, value : (byte % 128) + (128 * value), BytesRead(bytes), 0)

\* What is written is read, whatever comes behind it, and no byte of what comes behind.
ReadsWhatIsWritten(length, behind) ==
    LET bytes == MQTTPacket_encode[length] \o behind
    IN /\ decodePacket(bytes) = length
       /\ BytesRead(bytes) = MQTTPacket_encode[length]
=============================================================================
