---------------------------- MODULE ServiceHealth ----------------------------
(***************************************************************************)
(* The charts of the admin page: one window of hours at a time, read from  *)
(* CloudWatch through the API.  Nothing stops a window from being chosen,  *)
(* or the refresh pressed, while an earlier read is out.                   *)
(***************************************************************************)
EXTENDS Naturals

CONSTANTS
  Window,     \* METRICS_WINDOW.HOURS
  MaxReads    \* bound on the reads of one page

ASSUME WindowAssumption == Window # {} /\ MaxReads \in Nat

VARIABLES
  hours,    \* the window chosen
  charts,   \* what is on screen
  reads,    \* the reads so far, in the order they began
  mixed     \* history: two reads were out at a time since the last that began alone

healthVars == <<hours, charts, reads, mixed>>

Read == 1..MaxReads
Series == {"aggregate", "routes"}

\* The answer for a window: the series with data, and whether there are any.
Answer(w, drawn) == [window |-> w, drawn |-> drawn, noData |-> drawn = {}]
Chart == [window : Window, drawn : SUBSET Series, noData : BOOLEAN]

HealthTypeOK ==
  /\ hours \in Window
  /\ charts \in [state : {"off", "loading", "error"}]
                  \cup [state : {"ready"}, data : Chart]
  /\ reads \in [Read -> [pc : {"off", "discover", "data", "answer", "lost", "over"},
                         window : Window, routes : BOOLEAN, drawn : SUBSET Series]]
  /\ mixed \in BOOLEAN

NotRead == [pc |-> "off", window |-> CHOOSE w \in Window : TRUE, routes |-> FALSE, drawn |-> {}]

HealthInit ==
  /\ hours = CHOOSE w \in Window : TRUE      \* DEFAULT_HOURS
  /\ charts = [state |-> "off"]
  /\ reads = [k \in Read |-> NotRead] /\ mixed = FALSE

Out(k) == reads[k].pc \notin {"off", "over"}
Upcoming(k) == reads[k].pc = "off" /\ \A j \in 1..(k - 1) : reads[j].pc # "off"

\* load(window): a read begins, whatever else is out.
LoadMetrics(w) ==
  \E k \in Read :
    /\ Upcoming(k)
    /\ reads' = [reads EXCEPT ![k] = [NotRead EXCEPT !.pc = "discover", !.window = w]]
    /\ mixed' = \E j \in Read : Out(j)
    /\ charts' = [state |-> "loading"]

\* The effect on [load, hours]: on mount, and when another window is chosen.
MountHealth == charts.state = "off" /\ LoadMetrics(hours) /\ UNCHANGED hours

ChooseWindow(w) ==
  charts.state # "off" /\ w # hours /\ hours' = w /\ LoadMetrics(w)

Refresh == charts.state # "off" /\ LoadMetrics(hours) /\ UNCHANGED hours

\* discoverRoutes, which fails to no routes at all.
DiscoverRoutes(k) ==
  /\ reads[k].pc = "discover"
  /\ \E found \in BOOLEAN :
       reads' = [reads EXCEPT ![k] = [@ EXCEPT !.pc = "data", !.routes = found]]
  /\ UNCHANGED <<hours, charts, mixed>>

\* GetMetricData: series nobody emitted in the window come back empty.
ReadMetrics(k) ==
  /\ reads[k].pc = "data"
  /\ \/ \E drawn \in SUBSET (IF reads[k].routes THEN Series ELSE {"aggregate"}) :
          reads' = [reads EXCEPT ![k] = [@ EXCEPT !.pc = "answer", !.drawn = drawn]]
     \/ reads' = [reads EXCEPT ![k].pc = "lost"]
  /\ UNCHANGED <<hours, charts, mixed>>

\* The answer is shown, whichever read it belongs to; so is its failure.
MetricsAnswered(k) ==
  /\ reads[k].pc \in {"answer", "lost"}
  /\ reads' = [reads EXCEPT ![k] = [NotRead EXCEPT !.pc = "over"]]
  /\ charts' = IF reads[k].pc = "lost" THEN [state |-> "error"]
               ELSE [state |-> "ready", data |-> Answer(reads[k].window, reads[k].drawn)]
  /\ UNCHANGED <<hours, mixed>>

HealthNext ==
  \/ MountHealth \/ Refresh \/ \E w \in Window : ChooseWindow(w)
  \/ \E k \in Read : DiscoverRoutes(k) \/ ReadMetrics(k) \/ MetricsAnswered(k)

Quiet == \A k \in Read : ~Out(k)

\* Once every read is answered the page has left "loading", and its charts are
\* those of the window chosen, unless two reads were out at a time: the answer
\* that came last is then shown.
ChartsFitWindow ==
  Quiet => /\ charts.state # "loading"
           /\ charts.state = "ready" /\ ~mixed => charts.data.window = hours
=============================================================================
