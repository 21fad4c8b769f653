----------------------------- MODULE ResultsMC -----------------------------
EXTENDS Results

CONSTANTS q1, q2

Questions == {q1, q2}

Averages == {[correctness |-> c, clarity |-> d, depth |-> 40] : c \in {35, 70}, d \in {42, 60}}

\* Rows of earlier interviews: two topics, with averages or from before them.
RowsFor(id) == {RowOf(id, t, a) : t \in {1, 2}, a \in Averages}
               \cup {OldRow(id, t, s) : t \in {1, 2}, s \in {38, 57}}

TwoPasts   == {<<b, a>> : a \in RowsFor(1), b \in RowsFor(2)}
ThreePasts == {<<c>> \o h : h \in TwoPasts, c \in RowsFor(3)}

\* The history the steps are explored with; the others are only reported on.
Usual == <<RowOf(2, 1, [correctness |-> 70, clarity |-> 60, depth |-> 40]),
           RowOf(1, 1, [correctness |-> 35, clarity |-> 42, depth |-> 40])>>

Histories == {Usual} \cup ThreePasts
Latest == RowOf(4, 2, [correctness |-> 50, clarity |-> 50, depth |-> 50])

\* The Coach's requests are followed while the candidate is there, the rows'
\* later life off the results page, what a lagging replica answers on it; at the
\* Coach all that matters of the pipeline is whether the row is written.
Focus ==
  /\ ended # "running" \/ history = Usual
  /\ at # "coach" => \A v \in Visit : visit[v] = Idle
  /\ at # "results" => withheld = {} /\ old = Current
  /\ at = "results" => narrated = Ids(Usual) \cap Ids(history) /\ expired = 0
  /\ at = "coach" => scored \in {{}, Question} /\ ~published
=============================================================================
