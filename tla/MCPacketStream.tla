--------------------------- MODULE MCPacketStream ---------------------------
(* Small instances of PacketStream: a packet without a rest, as PINGRESP; one *)
(* of a few bytes; and one whose remaining length takes two.                  *)
(* Beside them, what isTopicMatched and decodePacket are tried on.            *)
EXTENDS PacketStream, TopicMatch, RemainingLength

Texts(letters, size) == UNION {[1..k -> letters] : k \in 1..size}

\* isTopicMatched, on every short filter and every short topic name.
ASSUME MatchesAsMQTT(Texts({"a", "b", "/", "+", "#"}, 4), Texts({"a", "b", "/"}, 4))

\* decodePacket, on lengths around each change of the number of bytes.
ASSUME \A length \in UNION {0..300, 16300..16500, 2097100..2097200, 268435400..268435455},
          behind \in {<< >>, <<0>>, <<255>>} :
          ReadsWhatIsWritten(length, behind)

ThreeShapes == {[length |-> 1, rest |-> 0], [length |-> 1, rest |-> 2],
                [length |-> 2, rest |-> 3]}
=============================================================================
