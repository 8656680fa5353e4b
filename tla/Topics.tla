------------------------------- MODULE Topics -------------------------------
(***************************************************************************)
(* Topic matching (mqtt_topic_matches of main/mqtt_parser.c), which walks  *)
(* filter and topic together character by character, against a definition  *)
(* by levels.  A run builds filters a character at a time.                 *)
(***************************************************************************)
EXTENDS Integers, SequencesExt

CONSTANTS
  TopicChar,     \* "/", "$" and the other characters of topics
  FilterMax, TopicMax

VARIABLE filter

FilterInit == filter = <<>>
FilterNext == /\ Len(filter) < FilterMax
              /\ \E c \in TopicChar \cup {"+", "#"} : filter' = Append(filter, c)
FilterSpec == FilterInit /\ [][FilterNext]_filter

-----------------------------------------------------------------------------
(* A name that ends in _Bug is the definition below it with one defect.    *)

\* Where the level of s that goes on at i ends.
LevelEnd(s, i) ==
  LET ends == {j \in i..Len(s) : s[j] = "/"} IN
  IF ends = {} THEN Len(s) + 1 ELSE Min(ends)

Starts(s, i, c) == i <= Len(s) /\ s[i] = c

\* filter[fi] = '/' at the end of the topic: "filter ends with /#".
EndsWithParent_Bug(f, i) == FALSE
EndsWithParent(f, i) == Starts(f, i, "/") /\ Starts(f, i + 1, "#")

\* One turn of the loop, at filter[i] and topic[j]; next is how it goes on from
\* filter[i + 1], at every place of the topic.
Turn(f, t, i, j, next) ==
  /\ (i = 1 \/ f[i - 1] = "/") => (Starts(f, i, "$") <=> Starts(t, j, "$"))
  /\ CASE f[i] = "#" -> i = Len(f) \/ f[i + 1] = "/"
       [] f[i] = "+" -> j <= Len(t) /\ t[j] # "$" /\ next[LevelEnd(t, j)]
       [] f[i] \notin {"#", "+"} ->
            IF j > Len(t) THEN EndsWithParent(f, i) ELSE f[i] = t[j] /\ next[j + 1]

mqtt_topic_matches(f, t) ==
  LET walk[i \in 1..(Len(f) + 1)] ==
        [j \in 1..(Len(t) + 1) |->
           IF i > Len(f) THEN j > Len(t) ELSE Turn(f, t, i, j, walk[i + 1])]
  IN walk[1][1]

-----------------------------------------------------------------------------
(* The reference: a name is a sequence of levels. *)

Levels(s) ==
  LET ends == {i \in DOMAIN s : s[i] = "/"} \cup {Len(s) + 1}
      end(k) == IF k = 0 THEN 0
                ELSE CHOOSE i \in ends : Cardinality({j \in ends : j < i}) = k - 1
  IN [k \in 1..Cardinality(ends) |-> SubSeq(s, end(k - 1) + 1, end(k) - 1)]

\* A wildcard is a level of its own, and # the last.
Valid(f) ==
  LET levels == Levels(f) IN
  \A k \in DOMAIN levels :
    /\ Contains(levels[k], "+") => levels[k] = <<"+">>
    /\ Contains(levels[k], "#") => levels[k] = <<"#">> /\ k = Len(levels)

Reserved(level) == Starts(level, 1, "$")

\* As MQTT has it, but for two things: no wildcard matches a reserved level,
\* wherever it is in the topic, and + does not match an empty last one.
Matches(f, t) ==
  LET fs == Levels(f)
      ts == Levels(t)
      multi == Last(fs) = <<"#">>
      n == IF multi THEN Len(fs) - 1 ELSE Len(fs)
  IN /\ Len(ts) = n \/ (multi /\ Len(ts) > n /\ ~Reserved(ts[n + 1]))
     /\ \A k \in 1..n :
          \/ fs[k] = ts[k]
          \/ fs[k] = <<"+">> /\ ~Reserved(ts[k]) /\ (ts[k] # <<>> \/ k < Len(ts))

\* The walk decides every valid filter and every topic as the levels do.
MatchIsByLevels ==
  filter # <<>> /\ Valid(filter) =>
    \A n \in 1..TopicMax : \A t \in [1..n -> TopicChar] :
      mqtt_topic_matches(filter, t) <=> Matches(filter, t)
=============================================================================
