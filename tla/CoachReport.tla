---------------------------- MODULE CoachReport ----------------------------
(***************************************************************************)
(* What the Coach says, without its prose: a candidate's history rows are  *)
(* grouped by topic into trends and a roadmap.  Scores are integers, in    *)
(* tenths of a point; topics are numbers, ordered as their names are.      *)
(* Prose is the sequence of topics the model wrote about.                  *)
(***************************************************************************)
EXTENDS Integers, Sequences, FiniteSets, SequencesExt

CONSTANTS
  MinSessions,   \* COACH_LIMITS.MIN_SESSIONS_FOR_TREND
  MaxTrends,     \* COACH_LIMITS.MAX_TRENDS
  MaxItems,      \* COACH_LIMITS.MAX_ROADMAP_ITEMS
  Epsilon,       \* COACH_LIMITS.TREND_EPSILON, in tenths
  Unrecorded     \* no averages on a row, or none in a topic

Total(s) == FoldSeq(LAMBDA x, y : x + y, 0, s)
Rounded(n, d) == (2 * n + d) \div (2 * d)
Mean(s) == IF s = <<>> THEN 0 ELSE Rounded(Total(s), Len(s))
Each(s, f(_)) == [i \in DOMAIN s |-> f(s[i])]
Shortest(s, n) == SubSeq(s, 1, IF Len(s) < n THEN Len(s) ELSE n)

Dimensions == <<"correctness", "clarity", "depth">>

OverallScore(averages) ==
  Rounded(averages.correctness + averages.clarity + averages.depth, 3)

\* The ends of one stable sort, best first.
ExtremeDimensions(averages) ==
  LET Before(i, j) == \/ averages[Dimensions[i]] > averages[Dimensions[j]]
                      \/ averages[Dimensions[i]] = averages[Dimensions[j]] /\ i < j
      ranked == SetToSortSeq(1 .. 3, Before)
  IN [topStrength |-> Dimensions[ranked[1]], topWeakness |-> Dimensions[ranked[3]]]

\* A history row: averages as the worker stores them, or only an overall score.
RowOf(id, topic, averages) ==
  [id |-> id, topic |-> topic, averages |-> averages, overall |-> OverallScore(averages)]
OldRow(id, topic, overall) ==
  [id |-> id, topic |-> topic, averages |-> Unrecorded, overall |-> overall]

\* Topics in the order the rows, newest first, first name them.
TopicsOf(rows) ==
  FoldLeft(LAMBDA topics, r : IF Contains(topics, r.topic) THEN topics ELSE Append(topics, r.topic),
           <<>>, rows)

StatsOf(rows, t) ==
  LET own     == SelectSeq(rows, LAMBDA r : r.topic = t)
      ordered == SortSeq(own, LAMBDA a, b : a.id < b.id)
      scored  == SelectSeq(ordered, LAMBDA r : r.averages # Unrecorded)
      None(v) == IF scored = <<>> THEN Unrecorded ELSE v
  IN [topic     |-> t,
      points    |-> Each(ordered, LAMBDA r : r.overall),
      overall   |-> Mean(Each(ordered, LAMBDA r : r.overall)),
      clarity   |-> None(Mean(Each(scored, LAMBDA r : r.averages.clarity))),
      technical |-> None(Rounded(Total(Each(scored, LAMBDA r : r.averages.correctness + r.averages.depth)),
                                 2 * Len(scored)))]

GroupByTopic(rows) == Each(TopicsOf(rows), LAMBDA t : StatsOf(rows, t))

\* The mean of the later half against the mean of the earlier one.
TrendDirection(scores) ==
  LET middle == Len(scores) \div 2
      gap == Total(SubSeq(scores, Len(scores) - middle + 1, Len(scores)))
             - Total(SubSeq(scores, 1, middle))
  IN IF Len(scores) < MinSessions THEN "flat"
     ELSE IF gap >= Epsilon * middle THEN "improving"
     ELSE IF gap <= -(Epsilon * middle) THEN "declining" ELSE "flat"

Trends(rows) ==
  LET stats  == SelectSeq(GroupByTopic(rows), LAMBDA e : Len(e.points) >= MinSessions)
      Before(i, j) == \/ Len(stats[i].points) > Len(stats[j].points)
                      \/ Len(stats[i].points) = Len(stats[j].points) /\ i < j
      kept   == Shortest(SetToSortSeq(DOMAIN stats, Before), MaxTrends)
  IN Each(kept, LAMBDA i : [topic |-> stats[i].topic, scoreHistory |-> stats[i].points,
                            direction |-> TrendDirection(stats[i].points)])

\* Two items a topic, one per track; a topic whose rows carry no averages has
\* only its overall score to show, and says so.
ItemsOf(entry) ==
  {[topic |-> entry.topic, track |-> "communication",
    avgScore   |-> IF entry.clarity = Unrecorded THEN entry.overall ELSE entry.clarity,
    confidence |-> IF entry.clarity = Unrecorded THEN "tentative" ELSE "confident"],
   [topic |-> entry.topic, track |-> "technical", confidence |-> "tentative",
    avgScore   |-> IF entry.technical = Unrecorded THEN entry.overall ELSE entry.technical]}

Items(rows) == UNION {ItemsOf(e) : e \in ToSet(GroupByTopic(rows))}

WorseFirst(a, b) ==
  \/ a.avgScore < b.avgScore
  \/ a.avgScore = b.avgScore /\ a.topic < b.topic
  \/ a.avgScore = b.avgScore /\ a.topic = b.topic /\ a.track = "communication" /\ b.track # a.track

Roadmap(rows) == Shortest(SetToSortSeq(Items(rows), WorseFirst), MaxItems)

Known(rows) == {item.topic : item \in ToSet(Roadmap(rows))}

ProseToStored(prose) == Shortest(prose, MaxTrends)
StoredToProse(stored, known) == SelectSeq(stored, LAMBDA t : t \in known)

\* The page's report: a trend without prose gets a sentence made of its
\* numbers, an item without prose no focus points.
Report(rows, prose) ==
  [trends  |-> Each(Trends(rows), LAMBDA t : [trend |-> t, written |-> t.topic \in ToSet(prose)]),
   roadmap |-> Each(Roadmap(rows), LAMBDA i : [item |-> i, written |-> i.topic \in ToSet(prose)])]
=============================================================================
