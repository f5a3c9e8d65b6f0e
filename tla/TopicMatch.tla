----------------------------- MODULE TopicMatch -----------------------------
(* Which topic filters of the FreeRTOS MQTT client take a topic name:         *)
(* isTopicMatched of MQTTClient.c, character by character, and what MQTT says *)
(* of filters, level by level.  A text is a sequence of characters.           *)
EXTENDS Naturals, Sequences, SequencesExt

\* The last character of the level that name[n] is in.
LevelEnd(name, n) ==
    CHOOSE e \in n..Len(name) :
        /\ e = Len(name) \/ name[e + 1] = "/"
        /\ \A i \in n + 1..e : name[i] # "/"

\* The loop over curf and curn: they move together, a wildcard takes the name's
\* characters up to the end of the level, or of the name.
isTopicMatched(filter, name) ==
    LET match[f \in 1..Len(filter) + 1, n \in 1..Len(name) + 1] ==
          IF f > Len(filter) \/ n > Len(name)
          THEN f > Len(filter) /\ n > Len(name)
          ELSE /\ name[n] = "/" => filter[f] = "/"
               /\ filter[f] \in {"+", "#", name[n]}
               /\ match[f + 1, CASE filter[f] = "+" -> LevelEnd(name, n) + 1
                                 [] filter[f] = "#" -> Len(name) + 1
                                 [] OTHER -> n + 1]
    IN match[1, 1]

-----------------------------------------------------------------------------
(* The reference.                                                            *)

\* The levels of a text, which separators divide.
Levels(text) ==
    LET cut == SelectSeq([i \in 1..Len(text) + 2 |-> i - 1],
                         LAMBDA i : i \in {0, Len(text) + 1} \/ text[i] = "/")
    IN [i \in 1..Len(cut) - 1 |-> SubSeq(text, cut[i] + 1, cut[i + 1] - 1)]

\* # is the last level, + a whole one.
ValidFilter(filter) ==
    LET levels == Levels(filter)
    IN \A i \in 1..Len(levels) :
          /\ Contains(levels[i], "+") => Len(levels[i]) = 1
          /\ Contains(levels[i], "#") => Len(levels[i]) = 1 /\ i = Len(levels)

\* What MQTT says: + stands for one level, # for any number of them.
Matches(filter, name) ==
    LET f == Levels(filter)
        n == Levels(name)
        multi == Last(f) = <<"#">>
        fixed == IF multi THEN Len(f) - 1 ELSE Len(f)
    IN /\ IF multi THEN Len(n) >= fixed ELSE Len(n) = fixed
       /\ \A i \in 1..fixed : f[i] \in {<<"+">>, n[i]}

\* The client takes no topic a filter does not stand for, and misses none that it
\* does, but for a topic with an empty level, as /a, and the parent of a #, as a is of a/#.
MatchesAsMQTT(filters, names) ==
    \A filter \in filters, name \in names :
        ValidFilter(filter) =>
            /\ isTopicMatched(filter, name) => Matches(filter, name)
            /\ Matches(filter, name) => \/ isTopicMatched(filter, name)
                                        \/ Contains(Levels(name), << >>)
                                        \/ Len(Levels(filter)) > Len(Levels(name))
=============================================================================
