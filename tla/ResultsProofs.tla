---------------------------- MODULE ResultsProofs ----------------------------
(***************************************************************************)
(* Proofs about Results: its types, that what the results page shows of a  *)
(* round that is still moving adds up, and that the Coach's cached advice  *)
(* is about the history it is served with.  For any answers, histories and *)
(* rows that expire, any requests to the page and to the Coach at once,    *)
(* and any failures.                                                       *)
(***************************************************************************)
EXTENDS Results, FiniteSetTheorems, SequenceTheorems, TLAPS

-----------------------------------------------------------------------------
(* The invariants.                                                         *)

\* What an averaged or a published round has behind it.
RoundIsSound ==
  /\ result # {} => scored \cup withheld = Question
  /\ published => /\ ended = "opened" /\ scored \cup withheld = Question
                  /\ result # {} \/ withheld = Question

\* What a lagging replica answers was written at some time.
ReplicaFits ==
  /\ old.scored \subseteq Question
  /\ old.summary # Nothing => old.summary.unscored \subseteq Question

\* Headers that were current when they were read are a lower bound of what is
\* scored, until the account is erased.
HeadersFit(h) ==
  /\ h.summary # Nothing => h.summary.unscored \subseteq Question
  /\ h.fresh /\ ~erased =>
       /\ h.summary # Nothing /\ h.summary.averages # {} =>
            scored \cup h.summary.unscored = Question
       /\ h.meta = "complete" =>
            /\ h.summary # Nothing /\ scored \cup h.summary.unscored = Question
            /\ h.summary.averages # {} \/ h.summary.unscored = Question

LoadsFit == \A l \in Load : load[l] # Nothing /\ load[l].pc = "headers" => HeadersFit(load[l])

PageAddsUp == RoundIsSound /\ ReplicaFits /\ LoadsFit /\ ResultsAddUp

\* The requests to the results page and to the Coach are kept by number, and a
\* request to the Coach knows its step, what it has read and what it has to serve.
LoadsAreKept == load = [l \in Load |-> load[l]]

IsVisit(x) == x = [pc |-> x.pc, rows |-> x.rows, narratives |-> x.narratives,
                   prose |-> x.prose, from |-> x.from]

VisitsAreKept == visit = [v \in Visit |-> visit[v]] /\ \A v \in Visit : IsVisit(visit[v])

Typed == TypeOK /\ LoadsAreKept /\ VisitsAreKept

\* A history as it can be read: no two rows of one interview, the watched
\* interview's row in front.
RowsFit(h) ==
  /\ h \in Seq(Row)
  /\ \A i, j \in DOMAIN h : h[i].id = h[j].id => i = j
  /\ Watched.id \in Ids(h) => h[1].id = Watched.id

\* What the Coach can know of a history, and what it would know now.
Sources == [rows : SUBSET {r.id : r \in Row}, narratives : SUBSET {r.id : r \in Row}]
Now == [rows |-> Ids(history), narratives |-> narrated]

\* Past interviews only leave a history, narratives only come to its rows.
Earlier(s, t) ==
  /\ t.rows \ {Watched.id} \subseteq s.rows
  /\ s.narratives \cap t.rows \subseteq t.narratives

\* The requests that have read the history, and all that was read of it.
HaveRead == {v \in Visit : visit[v].pc \in {"cache", "model", "keep", "served"}}
Reads == {Source(v) : v \in HaveRead} \cup (IF cache = Nothing THEN {} ELSE {cache.from})

ReadsFit ==
  \A s \in Reads : /\ s \in Sources /\ IsFiniteSet(s.rows) /\ s.narratives \subseteq s.rows
                   /\ ~carded => Watched.id \notin s.rows
                   /\ Earlier(s, Now)

\* Whatever was read is of one history.
OneStory == \A s, t \in Reads : Earlier(s, t) \/ Earlier(t, s)

\* What the stamp on the cached prose tells of its source.
StampTells(stamp, s) ==
  /\ stamp[1] = Cardinality(s.rows) /\ stamp[3] = Cardinality(s.narratives)
  /\ stamp[2] = Watched.id <=> Watched.id \in s.rows

ProseFits(v) ==
  /\ visit[v].pc \in {"idle", "rows", "cache", "model"} => visit[v].prose = <<>>
  /\ visit[v].pc = "keep" => visit[v].from = Source(v)
  /\ visit[v].pc = "served" /\ visit[v].prose # <<>> => visit[v].from = Source(v)

CoachInv ==
  /\ RowsFit(history) /\ (~carded => Watched.id \notin Ids(history))
  /\ ReadsFit /\ OneStory
  /\ \A v \in HaveRead : RowsFit(visit[v].rows)
  /\ cache # Nothing => StampTells(cache.stamp, cache.from)
  /\ \A v \in Visit : ProseFits(v)

-----------------------------------------------------------------------------
(* Histories.                                                              *)

LEMMA IdsOf ==
  ASSUME NEW h \in Seq(Row)
  PROVE  /\ \A x : x \in Ids(h) <=> \E i \in 1 .. Len(h) : x = h[i].id
         /\ Ids(h) \subseteq {r.id : r \in Row}
         /\ 0 \notin Ids(h)
<1>1. DOMAIN h = 1 .. Len(h) /\ \A i \in 1 .. Len(h) : h[i] \in Row
  BY LenProperties, ElementOfSeq
<1>2. \A x : x \in Ids(h) <=> \E i \in 1 .. Len(h) : x = h[i].id
  BY <1>1 DEF Ids, ToSet
<1> QED
  BY <1>1, <1>2, PastAssumption

\* A history has as many rows as ids.
LEMMA IdsAreCounted ==
  ASSUME NEW h, RowsFit(h)
  PROVE  IsFiniteSet(Ids(h)) /\ Cardinality(Ids(h)) = Len(h) /\ Len(h) \in Nat
<1> DEFINE f == [i \in 1 .. Len(h) |-> h[i].id]
<1>1. Len(h) \in Nat /\ DOMAIN h = 1 .. Len(h)
  BY LenProperties DEF RowsFit
<1>2. f \in [1 .. Len(h) -> Ids(h)]
  BY IdsOf DEF RowsFit
<1>3. f \in Bijection(1 .. Len(h), Ids(h))
  <2>1. \A a, b \in 1 .. Len(h) : f[a] = f[b] => a = b
    BY <1>1 DEF RowsFit
  <2>2. \A t \in Ids(h) : \E s \in 1 .. Len(h) : f[s] = t
    BY IdsOf DEF RowsFit
  <2> QED
    BY <1>2, <2>1, <2>2 DEF Bijection, Injection, Surjection, IsInjective
<1>4. ExistsBijection(1 .. Len(h), Ids(h))
  BY <1>3 DEF ExistsBijection
<1> QED
  BY <1>1, <1>4, FS_NatBijection, FS_CountingElements

\* A row leaves a history.
LEMMA RowLeaves ==
  ASSUME NEW h, RowsFit(h), NEW k \in DOMAIN h
  PROVE  /\ RowsFit(RemoveAt(h, k))
         /\ Ids(RemoveAt(h, k)) = Ids(h) \ {h[k].id}
<1> DEFINE n == Len(h)
           g == RemoveAt(h, k)
<1>0. h \in Seq(Row) /\ n \in Nat /\ DOMAIN h = 1 .. n /\ k \in 1 .. n
  BY LenProperties DEF RowsFit
<1>1. /\ SubSeq(h, 1, k - 1) \in Seq(Row) /\ Len(SubSeq(h, 1, k - 1)) = k - 1
      /\ \A i \in 1 .. k - 1 : SubSeq(h, 1, k - 1)[i] = h[i]
  <2>1. \A i \in 1 .. k - 1 : h[i] \in Row
    BY <1>0, ElementOfSeq
  <2> QED
    BY <1>0, <2>1, SubSeqProperties
<1>2. /\ SubSeq(h, k + 1, n) \in Seq(Row) /\ Len(SubSeq(h, k + 1, n)) = n - k
      /\ \A i \in 1 .. n - k : SubSeq(h, k + 1, n)[i] = h[k + i]
  <2>1. \A i \in k + 1 .. n : h[i] \in Row
    BY <1>0, ElementOfSeq
  <2> QED
    BY <1>0, <2>1, SubSeqProperties
<1>3. /\ g \in Seq(Row) /\ Len(g) = n - 1
      /\ \A i \in 1 .. n - 1 : g[i] = h[IF i < k THEN i ELSE i + 1]
  <2> DEFINE front == SubSeq(h, 1, k - 1)
             back  == SubSeq(h, k + 1, n)
  <2>0. g = front \o back
    BY DEF RemoveAt
  <2>1. front \in Seq(Row) /\ back \in Seq(Row) /\ Len(front) = k - 1 /\ Len(back) = n - k
    BY <1>1, <1>2
  <2> HIDE DEF g, front, back, n
  <2>2. /\ g \in Seq(Row) /\ Len(g) = (k - 1) + (n - k)
        /\ \A i \in 1 .. (k - 1) + (n - k) : g[i] = IF i <= k - 1 THEN front[i] ELSE back[i - (k - 1)]
    BY <2>0, <2>1, ConcatProperties
  <2>3. (k - 1) + (n - k) = n - 1
    BY <1>0
  <2>4. ASSUME NEW i \in 1 .. n - 1
        PROVE  g[i] = h[IF i < k THEN i ELSE i + 1]
    <3>1. CASE i < k
      <4>1. i \in 1 .. k - 1 /\ i <= k - 1
        BY <1>0, <3>1
      <4>2. g[i] = front[i]
        BY <2>2, <2>3, <4>1
      <4> QED
        BY <1>1, <3>1, <4>1, <4>2 DEF front
    <3>2. CASE ~(i < k)
      <4>1. i - (k - 1) \in 1 .. n - k /\ k + (i - (k - 1)) = i + 1 /\ ~(i <= k - 1)
        BY <1>0, <3>2
      <4>2. g[i] = back[i - (k - 1)]
        BY <2>2, <2>3, <4>1
      <4> QED
        BY <1>2, <3>2, <4>1, <4>2 DEF back
    <3> QED
      BY <3>1, <3>2
  <2> QED
    BY <2>2, <2>3, <2>4
<1>4. DOMAIN g = 1 .. n - 1
  BY <1>3, LenProperties
<1> HIDE DEF g, n
<1>5. \A i, j \in DOMAIN g : g[i].id = g[j].id => i = j
  <2> SUFFICES ASSUME NEW i \in 1 .. n - 1, NEW j \in 1 .. n - 1, g[i].id = g[j].id
               PROVE  i = j
    BY <1>4
  <2> DEFINE At(m) == IF m < k THEN m ELSE m + 1
  <2>1. At(i) \in 1 .. n /\ At(j) \in 1 .. n /\ (At(i) = At(j) => i = j)
    BY <1>0
  <2>2. h[At(i)].id = h[At(j)].id
    BY <1>3
  <2> QED
    BY <1>0, <2>1, <2>2 DEF RowsFit
<1>6. Ids(g) = Ids(h) \ {h[k].id}
  <2>1. ASSUME NEW x \in Ids(g)
        PROVE  x \in Ids(h) /\ x # h[k].id
    <3>1. PICK i \in 1 .. n - 1 : x = g[i].id
      BY <1>3, IdsOf
    <3>2. PICK j \in 1 .. n : j # k /\ x = h[j].id
      <4>1. (IF i < k THEN i ELSE i + 1) \in 1 .. n /\ (IF i < k THEN i ELSE i + 1) # k
        BY <1>0
      <4> QED
        BY <1>3, <3>1, <4>1
    <3> QED
      BY <1>0, <3>2, IdsOf DEF RowsFit, n
  <2>2. ASSUME NEW x \in Ids(h), x # h[k].id
        PROVE  x \in Ids(g)
    <3>1. PICK j \in 1 .. n : x = h[j].id /\ j # k
      BY <1>0, <2>2, IdsOf DEF n
    <3>2. PICK i \in 1 .. n - 1 : j = IF i < k THEN i ELSE i + 1
      <4>1. CASE j < k
        BY <1>0, <4>1
      <4>2. CASE ~(j < k)
        <5>1. j - 1 \in 1 .. n - 1 /\ ~(j - 1 < k) /\ j = (j - 1) + 1
          BY <1>0, <3>1, <4>2
        <5> QED
          BY <5>1
      <4> QED
        BY <4>1, <4>2
    <3> QED
      BY <1>3, <3>1, <3>2, IdsOf
  <2> QED
    BY <2>1, <2>2
<1>7. Watched.id \in Ids(g) => g[1].id = Watched.id
  <2> SUFFICES ASSUME Watched.id \in Ids(g) PROVE g[1].id = Watched.id
    OBVIOUS
  <2>1. h[1].id = Watched.id /\ h[k].id # Watched.id
    BY <1>6 DEF RowsFit
  <2>2. PICK i \in 1 .. n - 1 : TRUE
    BY <1>3, IdsOf
  <2>3. 1 \in 1 .. n - 1 /\ 1 < k
    BY <1>0, <2>1, <2>2
  <2> QED
    BY <1>3, <2>1, <2>3
<1> QED
  BY <1>3, <1>5, <1>6, <1>7 DEF RowsFit, g

\* The watched interview's row comes to a history, in front.
LEMMA RowComes ==
  ASSUME NEW h, RowsFit(h), Watched.id \notin Ids(h)
  PROVE  /\ RowsFit(<<Watched>> \o h)
         /\ Ids(<<Watched>> \o h) = Ids(h) \cup {Watched.id}
<1> DEFINE n == Len(h)
           g == <<Watched>> \o h
<1>0. h \in Seq(Row) /\ n \in Nat /\ DOMAIN h = 1 .. n
  BY LenProperties DEF RowsFit
<1>1. <<Watched>> \in Seq(Row) /\ Len(<<Watched>>) = 1 /\ <<Watched>>[1] = Watched
  BY DEF Row
<1>2. /\ g \in Seq(Row) /\ Len(g) = 1 + n
      /\ \A i \in 1 .. 1 + n : g[i] = IF i <= 1 THEN <<Watched>>[i] ELSE h[i - 1]
  BY <1>0, <1>1, ConcatProperties
<1>3. DOMAIN g = 1 .. 1 + n
  BY <1>2, LenProperties
<1>4. g[1] = Watched /\ \A i \in 1 .. n : g[i + 1] = h[i]
  <2>1. ASSUME NEW i \in 1 .. n
        PROVE  g[i + 1] = h[i]
    <3>1. i + 1 \in 1 .. 1 + n /\ ~(i + 1 <= 1) /\ (i + 1) - 1 = i
      BY <1>0
    <3> QED
      BY <1>2, <3>1
  <2> QED
    BY <1>0, <1>1, <1>2, <2>1
<1> HIDE DEF g, n
<1>5. \A x : x \in Ids(g) <=> x = Watched.id \/ x \in Ids(h)
  <2>1. \A x : x \in Ids(g) <=> \E i \in 1 .. 1 + n : x = g[i].id
    BY <1>2, IdsOf
  <2>2. \A x : x \in Ids(h) <=> \E i \in 1 .. n : x = h[i].id
    BY <1>0, IdsOf DEF n
  <2>3. \A i \in 1 .. 1 + n : i = 1 \/ (i - 1 \in 1 .. n /\ (i - 1) + 1 = i)
    BY <1>0
  <2>4. 1 \in 1 .. 1 + n /\ \A i \in 1 .. n : i + 1 \in 1 .. 1 + n
    BY <1>0
  <2>5. ASSUME NEW x \in Ids(g)
        PROVE  x = Watched.id \/ x \in Ids(h)
    BY <1>4, <2>1, <2>2, <2>3, <2>5
  <2>6. ASSUME NEW x, x = Watched.id \/ x \in Ids(h)
        PROVE  x \in Ids(g)
    BY <1>4, <2>1, <2>2, <2>4, <2>6
  <2> QED
    BY <2>5, <2>6
<1>6. ASSUME NEW i \in DOMAIN g, NEW j \in DOMAIN g, g[i].id = g[j].id
      PROVE  i = j
  <2>1. \A m \in 1 .. n : h[m].id # Watched.id
    BY <1>0, IdsOf DEF n
  <2>2. \A m \in 1 .. 1 + n : m = 1 \/ (m - 1 \in 1 .. n /\ g[m] = h[m - 1])
    <3>1. \A m \in 1 .. 1 + n : m = 1 \/ (m - 1 \in 1 .. n /\ (m - 1) + 1 = m)
      BY <1>0
    <3> QED
      BY <1>4, <3>1
  <2>3. CASE i = 1 \/ j = 1
    BY <1>3, <1>4, <1>6, <2>1, <2>2, <2>3
  <2>4. CASE i # 1 /\ j # 1
    <3>1. i - 1 \in 1 .. n /\ j - 1 \in 1 .. n /\ h[i - 1].id = h[j - 1].id
      BY <1>3, <1>6, <2>2, <2>4
    <3>2. i - 1 = j - 1
      BY <1>0, <3>1 DEF RowsFit
    <3> QED
      BY <1>0, <1>3, <3>2
  <2> QED
    BY <2>3, <2>4
<1> QED
  BY <1>2, <1>4, <1>5, <1>6 DEF RowsFit, g

\* The stamp of a history tells what the Coach can know of it, as far as it goes.
LEMMA StampIsOfSource ==
  ASSUME NEW h, RowsFit(h), NEW n
  PROVE  StampTells(CoachCacheStamp(h, n), [rows |-> Ids(h), narratives |-> n])
<1>1. Len(h) = Cardinality(Ids(h))
  BY IdsAreCounted
<1>2. (IF h = <<>> THEN 0 ELSE Head(h).id) = Watched.id <=> Watched.id \in Ids(h)
  <2>0. h \in Seq(Row) /\ Len(h) \in Nat
    BY LenProperties DEF RowsFit
  <2>1. CASE h = <<>>
    <3>1. Len(h) = 0
      BY <2>1
    <3>2. Watched.id \notin Ids(h)
      <4>1. 1 .. Len(h) = {}
        BY <3>1
      <4> QED
        BY <2>0, <4>1, IdsOf
    <3>3. Watched.id # 0
      BY PastAssumption DEF Row
    <3> QED
      BY <2>1, <3>2, <3>3
  <2>2. CASE h # <<>>
    <3>1. Head(h) = h[1] /\ 1 \in 1 .. Len(h)
      BY <2>0, <2>2, EmptySeq
    <3>2. h[1].id \in Ids(h)
      BY <2>0, <3>1, IdsOf
    <3> QED
      BY <2>2, <3>1, <3>2 DEF RowsFit
  <2> QED
    BY <2>1, <2>2
<1> QED
  BY <1>1, <1>2 DEF StampTells, CoachCacheStamp

\* Of one history, what has the same stamp is the same.
LEMMA SameStampSameSource ==
  ASSUME NEW s, NEW t, s \in Sources, t \in Sources,
         IsFiniteSet(s.rows), IsFiniteSet(t.rows),
         s.narratives \subseteq s.rows, t.narratives \subseteq t.rows,
         Earlier(s, t), NEW stamp, StampTells(stamp, s), StampTells(stamp, t)
  PROVE  s = t
<1>1. t.rows \subseteq s.rows
  BY DEF Earlier, StampTells
<1>2. s.rows = t.rows
  BY <1>1, FS_Subset DEF StampTells
<1>3. s.narratives \subseteq t.narratives
  BY <1>2 DEF Earlier
<1>4. IsFiniteSet(t.narratives)
  BY FS_Subset
<1>5. s.narratives = t.narratives
  BY <1>3, <1>4, FS_Subset DEF StampTells
<1> QED
  BY <1>2, <1>5 DEF Sources

-----------------------------------------------------------------------------
(* The pipeline beneath: every step is one of Scoring or none.             *)

\* What the pages and the Coach do leaves the session's items alone.
LEMMA WhoWritesItems ==
  ASSUME Next
  PROVE  \/ Score \/ EraseAccount \/ CatchUp
         \/ UNCHANGED <<scored, withheld, result, published, erased, ended, old>>
<1> DEFINE items == <<scored, withheld, result, published, erased, ended, old>>
<1>1. ASSUME Card PROVE UNCHANGED items
  BY <1>1 DEF Card, PutSessionSummary
<1>2. ASSUME Attach PROVE UNCHANGED items
  BY <1>2 DEF Attach, AttachSessionSummary, RowExpires, server
<1>3. ASSUME OpenResults \/ Tick \/ Retry PROVE UNCHANGED items
  BY <1>3 DEF OpenResults, Tick, Retry, server
<1>4. ASSUME NEW l \in Load, ReadHeaders(l) \/ Arrives(l) \/ NotFound(l) \/ RequestFails(l)
      PROVE  UNCHANGED items
  BY <1>4 DEF ReadHeaders, Arrives, NotFound, RequestFails, Fails, server
<1>5. ASSUME ServeCoach \/ OpenHistory \/ Navigate PROVE UNCHANGED items
  BY <1>5 DEF ServeCoach, OpenHistory, Navigate, server
<1> QED
  BY <1>1, <1>2, <1>3, <1>4, <1>5 DEF Next, Poll

LEMMA StepsOfScoring ==
  ASSUME [Next]_vars
  PROVE  [Pipeline!Next]_(Pipeline!vars)
<1>1. CASE Score
  <2>1. CASE Finish \/ StartEvaluationSummary
    BY <2>1 DEF Finish, StartEvaluationSummary, Pipeline!vars
  <2>2. CASE ScoreAnswers
    BY <2>2 DEF ScoreAnswers, Pipeline!Next
  <2> QED
    BY <1>1, <2>1, <2>2 DEF Score
<1>2. CASE EraseAccount
  BY <1>2 DEF EraseAccount, Pipeline!Next
<1>3. CASE CatchUp
  BY <1>3 DEF CatchUp, Pipeline!vars
<1>4. CASE UNCHANGED <<scored, withheld, result, published, erased, ended, old>>
  BY <1>4 DEF Pipeline!vars
<1>5. CASE UNCHANGED vars
  BY <1>5 DEF vars, server, Pipeline!vars
<1> QED
  BY <1>1, <1>2, <1>3, <1>4, <1>5, WhoWritesItems

LEMMA RoundTypes ==
  ASSUME Pipeline!TypeOK, [Pipeline!Next]_(Pipeline!vars)
  PROVE  Pipeline!TypeOK'
<1> USE DEF Pipeline!TypeOK
<1>1. ASSUME NEW q \in Question, Pipeline!Score(q) \/ Pipeline!Withhold(q)
      PROVE  Pipeline!TypeOK'
  BY <1>1 DEF Pipeline!Score, Pipeline!Withhold
<1>2. ASSUME NEW R \in SUBSET Question, Pipeline!Settle(R)
      PROVE  Pipeline!TypeOK'
  BY <1>2 DEF Pipeline!Settle
<1>3. CASE Pipeline!Publish
  BY <1>3 DEF Pipeline!Publish
<1>4. CASE Pipeline!Erase
  BY <1>4 DEF Pipeline!Erase
<1>5. CASE UNCHANGED Pipeline!vars
  BY <1>5 DEF Pipeline!vars
<1> QED
  BY <1>1, <1>2, <1>3, <1>4, <1>5 DEF Pipeline!Next

\* Until the account is erased scores only come, and nothing returns from that.
LEMMA ScoresOnlyCome ==
  ASSUME [Pipeline!Next]_(Pipeline!vars), ~erased'
  PROVE  ~erased /\ scored \subseteq scored' /\ withheld \subseteq withheld'
<1>1. ASSUME NEW q \in Question, Pipeline!Score(q) \/ Pipeline!Withhold(q)
      PROVE  ~erased /\ scored \subseteq scored' /\ withheld \subseteq withheld'
  BY <1>1 DEF Pipeline!Score, Pipeline!Withhold
<1>2. ASSUME NEW R \in SUBSET Question, Pipeline!Settle(R)
      PROVE  ~erased /\ scored \subseteq scored' /\ withheld \subseteq withheld'
  BY <1>2 DEF Pipeline!Settle
<1>3. CASE Pipeline!Publish
  BY <1>3 DEF Pipeline!Publish
<1>4. CASE Pipeline!Erase
  BY <1>4 DEF Pipeline!Erase
<1>5. CASE UNCHANGED Pipeline!vars
  BY <1>5 DEF Pipeline!vars
<1> QED
  BY <1>1, <1>2, <1>3, <1>4, <1>5 DEF Pipeline!Next

\* Averages and the status come when every answer has its outcome.
LEMMA RoundStaysSound ==
  ASSUME Pipeline!TypeOK, RoundIsSound, [Next]_vars
  PROVE  RoundIsSound'
<1> USE DEF RoundIsSound, Pipeline!TypeOK
<1>1. CASE Score
  <2>1. CASE Finish \/ StartEvaluationSummary
    BY <2>1 DEF Finish, StartEvaluationSummary
  <2>2. CASE ScoreAnswers
    <3>0. ended = "opened" /\ ended' = "opened"
      BY <2>2 DEF ScoreAnswers
    <3>1. ASSUME NEW q \in Question, Pipeline!Score(q) \/ Pipeline!Withhold(q)
          PROVE  RoundIsSound'
      BY <3>0, <3>1 DEF Pipeline!Score, Pipeline!Withhold
    <3>2. ASSUME NEW R \in SUBSET Question, Pipeline!Settle(R)
          PROVE  RoundIsSound'
      BY <3>0, <3>2 DEF Pipeline!Settle, Pipeline!Complete
    <3>3. CASE Pipeline!Publish
      BY <3>0, <3>3 DEF Pipeline!Publish, Pipeline!Complete
    <3> QED
      BY <2>2, <3>1, <3>2, <3>3 DEF ScoreAnswers
  <2> QED
    BY <1>1, <2>1, <2>2 DEF Score
<1>2. CASE EraseAccount
  BY <1>2 DEF EraseAccount, Pipeline!Erase
<1>3. CASE CatchUp
  BY <1>3 DEF CatchUp
<1>4. CASE UNCHANGED <<scored, withheld, result, published, erased, ended, old>>
  BY <1>4
<1>5. CASE UNCHANGED vars
  BY <1>5 DEF vars, server
<1> QED
  BY <1>1, <1>2, <1>3, <1>4, <1>5, WhoWritesItems

\* A replica answers what was once written.
LEMMA ReplicaStaysFit ==
  ASSUME Pipeline!TypeOK, ReplicaFits, [Next]_vars
  PROVE  ReplicaFits'
<1>0. Current.scored \subseteq Question
      /\ (Current.summary # Nothing => Current.summary.unscored \subseteq Question)
  BY DEF Current, Summary, Pipeline!TypeOK
<1>1. old' = Current \/ old' = old
  BY WhoWritesItems
     DEF Score, Finish, StartEvaluationSummary, ScoreAnswers, Lags, EraseAccount, CatchUp, vars, server
<1> HIDE DEF Current
<1> QED
  BY <1>0, <1>1 DEF ReplicaFits

-----------------------------------------------------------------------------
(* The requests of the results page.                                       *)

\* What a request can be next.
HeadersRead(k) ==
  \E m \in {Meta, old.meta}, s \in {Summary, old.summary} :
    load'[k] = IF m = Nothing THEN [pc |-> "missing"]
               ELSE [pc |-> "headers", meta |-> m, summary |-> s, fresh |-> m = Meta /\ s = Summary]

LoadMoves(k) ==
  \/ load'[k] = load[k] \/ load'[k] = Nothing \/ load'[k] = Asked
  \/ HeadersRead(k) /\ UNCHANGED server

LEMMA OneLoadMoves ==
  ASSUME LoadsAreKept, NEW l \in Load, NEW x, load' = [load EXCEPT ![l] = x]
  PROVE  /\ LoadsAreKept' /\ load'[l] = x
         /\ \A k \in Load : k # l => load'[k] = load[k]
  BY DEF LoadsAreKept

LEMMA LoadSteps ==
  ASSUME LoadsAreKept, [Next]_vars
  PROVE  LoadsAreKept' /\ \A k \in Load : LoadMoves(k)
<1>1. ASSUME NEW l \in Load, Ask(l)
      PROVE  LoadsAreKept' /\ \A k \in Load : LoadMoves(k)
  BY <1>1, OneLoadMoves DEF Ask, LoadMoves
<1>2. ASSUME NEW l \in Load, ReadHeaders(l)
      PROVE  LoadsAreKept' /\ \A k \in Load : LoadMoves(k)
  <2>1. PICK m \in {Meta, old.meta}, s \in {Summary, old.summary} :
          load' = [load EXCEPT ![l] =
            IF m = Nothing THEN [pc |-> "missing"]
            ELSE [pc |-> "headers", meta |-> m, summary |-> s, fresh |-> m = Meta /\ s = Summary]]
    BY <1>2 DEF ReadHeaders
  <2>2. LoadsAreKept' /\ HeadersRead(l) /\ \A k \in Load : k # l => load'[k] = load[k]
    <3>1. PICK x : x = IF m = Nothing THEN [pc |-> "missing"]
                       ELSE [pc |-> "headers", meta |-> m, summary |-> s, fresh |-> m = Meta /\ s = Summary]
      OBVIOUS
    <3>2. load' = [load EXCEPT ![l] = x]
      BY <2>1, <3>1
    <3>3. LoadsAreKept' /\ load'[l] = x /\ \A k \in Load : k # l => load'[k] = load[k]
      BY ONLY <3>2, LoadsAreKept, l \in Load, OneLoadMoves
    <3> QED
      BY <3>1, <3>3 DEF HeadersRead
  <2>3. UNCHANGED server
    BY <1>2 DEF ReadHeaders
  <2> QED
    BY <2>2, <2>3 DEF LoadMoves
<1>3. ASSUME NEW l \in Load, load' = [load EXCEPT ![l] = Nothing]
      PROVE  LoadsAreKept' /\ \A k \in Load : LoadMoves(k)
  BY <1>3, OneLoadMoves DEF LoadMoves
<1>4. ASSUME load' = [l \in Load |-> Nothing]
      PROVE  LoadsAreKept' /\ \A k \in Load : LoadMoves(k)
  BY <1>4 DEF LoadMoves, LoadsAreKept
<1>5. ASSUME load' = load
      PROVE  LoadsAreKept' /\ \A k \in Load : LoadMoves(k)
  BY <1>5 DEF LoadMoves, LoadsAreKept
<1>6. CASE OpenResults \/ Tick \/ Retry
  BY <1>1, <1>5, <1>6 DEF OpenResults, Tick, Retry
<1>7. ASSUME NEW l \in Load, Arrives(l) \/ NotFound(l) \/ RequestFails(l)
      PROVE  LoadsAreKept' /\ \A k \in Load : LoadMoves(k)
  BY <1>3, <1>7 DEF Arrives, NotFound, RequestFails, Fails
<1>8. CASE Navigate
  BY <1>4, <1>5, <1>8 DEF Navigate, Leave
<1>9. CASE Score \/ Card \/ Attach \/ EraseAccount \/ CatchUp \/ ServeCoach \/ OpenHistory
  BY <1>5, <1>9 DEF Score, Card, Attach, EraseAccount, CatchUp, ServeCoach, OpenHistory, screen
<1>10. CASE UNCHANGED vars
  BY <1>5, <1>10 DEF vars, screen
<1> QED
  BY <1>2, <1>6, <1>7, <1>8, <1>9, <1>10 DEF Next, Poll

\* Headers that were current say of the round what is so.
LEMMA CurrentHeadersFit ==
  ASSUME Pipeline!TypeOK, RoundIsSound, ReplicaFits,
         NEW m \in {Meta, old.meta}, NEW s \in {Summary, old.summary}, m # Nothing
  PROVE  HeadersFit([pc |-> "headers", meta |-> m, summary |-> s, fresh |-> m = Meta /\ s = Summary])
<1> DEFINE h == [pc |-> "headers", meta |-> m, summary |-> s, fresh |-> m = Meta /\ s = Summary]
<1>0. h.summary = s /\ h.meta = m /\ h.fresh = (m = Meta /\ s = Summary)
  OBVIOUS
<1> HIDE DEF h
<1>1. s # Nothing => s.unscored \subseteq Question
  BY DEF Summary, ReplicaFits, Pipeline!TypeOK
<1>2. ASSUME m = Meta, s = Summary, ~erased
      PROVE  /\ s # Nothing /\ s.averages # {} => scored \cup s.unscored = Question
             /\ m = "complete" =>
                  /\ s # Nothing /\ scored \cup s.unscored = Question
                  /\ s.averages # {} \/ s.unscored = Question
  <2>1. CASE ended = "opened"
    <3>1. s = [unscored |-> withheld, averages |-> result]
      BY <1>2, <2>1 DEF Summary
    <3>2. s \in [unscored : SUBSET Question, averages : SUBSET Question]
      BY <3>1 DEF Pipeline!TypeOK
    <3>3. s # Nothing
      BY <3>2, RoundAssumption
    <3>4. m = "complete" => published
      BY <1>2 DEF Meta
    <3> QED
      BY <3>1, <3>3, <3>4 DEF RoundIsSound
  <2>2. CASE ended # "opened"
    BY <1>2, <2>2 DEF Summary, Meta, RoundIsSound
  <2> QED
    BY <2>1, <2>2
<1> QED
  BY <1>0, <1>1, <1>2 DEF HeadersFit, h

LEMMA LoadsStayFit ==
  ASSUME Pipeline!TypeOK, RoundIsSound, ReplicaFits, LoadsFit, LoadsAreKept, [Next]_vars
  PROVE  LoadsFit'
<1> SUFFICES ASSUME NEW k \in Load, load'[k] # Nothing, load'[k].pc = "headers"
             PROVE  HeadersFit(load[k])'
  BY DEF LoadsFit
<1>1. LoadMoves(k)
  BY LoadSteps
<1>2. CASE load'[k] = load[k]
  <2>1. HeadersFit(load[k])
    BY <1>2 DEF LoadsFit
  <2>2. ASSUME ~erased'
        PROVE  ~erased /\ scored \subseteq scored' /\ scored' \subseteq Question
    BY <2>2, StepsOfScoring, ScoresOnlyCome, RoundTypes DEF Pipeline!TypeOK
  <2>3. PICK h : h = load[k] /\ h = load'[k]
    BY <1>2
  <2>4. h.summary # Nothing => h.summary.unscored \subseteq Question
    BY <2>1, <2>3 DEF HeadersFit
  <2>5. ASSUME h.fresh, ~erased'
        PROVE  /\ h.summary # Nothing /\ h.summary.averages # {} =>
                    scored' \cup h.summary.unscored = Question
               /\ h.meta = "complete" =>
                    /\ h.summary # Nothing /\ scored' \cup h.summary.unscored = Question
                    /\ h.summary.averages # {} \/ h.summary.unscored = Question
    <3>1. /\ h.summary # Nothing /\ h.summary.averages # {} =>
               scored \cup h.summary.unscored = Question
          /\ h.meta = "complete" =>
               /\ h.summary # Nothing /\ scored \cup h.summary.unscored = Question
               /\ h.summary.averages # {} \/ h.summary.unscored = Question
      BY <2>1, <2>2, <2>3, <2>5 DEF HeadersFit
    <3> QED
      BY <2>2, <2>4, <2>5, <3>1
  <2> QED
    BY <2>3, <2>4, <2>5 DEF HeadersFit
<1>3. CASE load'[k] = Asked
  BY <1>3 DEF Asked
<1>4. CASE HeadersRead(k) /\ UNCHANGED server
  <2>1. PICK m \in {Meta, old.meta}, s \in {Summary, old.summary} :
          load'[k] = IF m = Nothing THEN [pc |-> "missing"]
                     ELSE [pc |-> "headers", meta |-> m, summary |-> s, fresh |-> m = Meta /\ s = Summary]
    BY <1>4 DEF HeadersRead
  <2>2. CASE m = Nothing
    BY <2>1, <2>2
  <2>3. CASE m # Nothing
    <3>1. PICK h : h = [pc |-> "headers", meta |-> m, summary |-> s, fresh |-> m = Meta /\ s = Summary]
      OBVIOUS
    <3>2. HeadersFit(h)
      BY <2>3, <3>1, CurrentHeadersFit
    <3>3. load'[k] = h
      BY <2>1, <2>3, <3>1
    <3>4. scored' = scored /\ erased' = erased
      BY <1>4 DEF server
    <3> QED
      BY <3>2, <3>3, <3>4 DEF HeadersFit
  <2> QED
    BY <2>2, <2>3
<1> QED
  BY <1>1, <1>2, <1>3, <1>4 DEF LoadMoves

-----------------------------------------------------------------------------
(* What the results page shows.                                            *)

\* What an answer adds up to, from whatever it was read.
LEMMA AnswersAddUp ==
  ASSUME NEW h, HeadersFit(h), NEW views \in SUBSET Question
  PROVE  LET r == LoadSessionEvaluations(h, views) IN r.completed + r.unscored <= r.total
<1> DEFINE ids == IF h.summary = Nothing THEN {} ELSE h.summary.unscored
           r   == LoadSessionEvaluations(h, views)
<1> SUFFICES r.completed + r.unscored <= r.total
  OBVIOUS
<1>1. ids \in SUBSET Question
  BY DEF HeadersFit
<1>2. /\ r.completed = Cardinality(views) /\ r.unscored = Cardinality(ids \ views)
      /\ r.total = IF h.summary = Nothing THEN Cardinality(views) ELSE Cardinality(Question)
  BY DEF LoadSessionEvaluations, Unscored
<1> HIDE DEF ids, r
<1>3. /\ IsFiniteSet(views) /\ IsFiniteSet(ids \ views) /\ IsFiniteSet(Question)
      /\ Cardinality(views) \in Nat /\ Cardinality(ids \ views) \in Nat /\ Cardinality(Question) \in Nat
  BY <1>1, RoundAssumption, FS_Subset, FS_CardinalityType
<1>4. CASE h.summary = Nothing
  <2>1. ids \ views = {}
    BY <1>4 DEF ids
  <2> QED
    BY <1>2, <1>3, <1>4, <2>1, FS_EmptySet
<1>5. CASE h.summary # Nothing
  <2>1. PICK rest : rest = ids \ views
    OBVIOUS
  <2>2. views \cap rest = {} /\ views \cup rest \in SUBSET Question
    BY <1>1, <2>1
  <2>3. Cardinality(views \cup rest) = Cardinality(views) + Cardinality(rest)
    <3>1. Cardinality(views \cup rest)
            = Cardinality(views) + Cardinality(rest) - Cardinality(views \cap rest)
      BY <1>3, <2>1, FS_Union
    <3> QED
      BY <1>3, <2>1, <2>2, <3>1, FS_EmptySet
  <2>4. Cardinality(views \cup rest) <= Cardinality(Question)
    BY <2>2, RoundAssumption, FS_Subset
  <2> QED
    BY <1>2, <1>3, <1>5, <2>1, <2>3, <2>4
<1> QED
  BY <1>4, <1>5

\* What the page stops at is the whole round.
LEMMA FinishedAnswerIsWhole ==
  ASSUME NEW h, HeadersFit(h), ~erased, NEW r, r = LoadSessionEvaluations(h, r.views),
         IsEvaluationFinished(r), r.fresh
  PROVE  r.views \cup r.ids = Question /\ (r.averages # {} \/ r.ids = Question)
<1>1. /\ r.status = h.meta /\ h.fresh /\ r.views = scored
      /\ r.ids = IF h.summary = Nothing THEN {} ELSE h.summary.unscored
      /\ r.averages = IF h.summary = Nothing THEN {} ELSE h.summary.averages
  <2>1. /\ r.status = h.meta /\ r.fresh = (h.fresh /\ r.views = scored)
        /\ r.ids = IF h.summary = Nothing THEN {} ELSE h.summary.unscored
        /\ r.averages = IF h.summary = Nothing THEN {} ELSE h.summary.averages
    <3>1. PICK views : views = r.views
      OBVIOUS
    <3>2. r = LoadSessionEvaluations(h, views)
      BY <3>1
    <3> QED
      BY ONLY <3>1, <3>2 DEF LoadSessionEvaluations
  <2> QED
    BY <2>1
<1> QED
  BY <1>1 DEF HeadersFit, IsEvaluationFinished

LEMMA PageStaysRight ==
  ASSUME Pipeline!TypeOK, ReplicaFits, LoadsFit, ResultsAddUp, [Next]_vars
  PROVE  ResultsAddUp'
<1> USE DEF ResultsAddUp
<1>0. ~erased' => ~erased
  BY StepsOfScoring, ScoresOnlyCome
<1>1. ASSUME UNCHANGED <<at, page, finished>>
      PROVE  ResultsAddUp'
  BY <1>0, <1>1 DEF FinishedShowsEverything, ProgressNeverOverruns
<1>2. ASSUME page'.status # "ready" \/ at' # "results"
      PROVE  ResultsAddUp'
  BY <1>2 DEF FinishedShowsEverything, ProgressNeverOverruns
<1>3. ASSUME NEW l \in Load, Arrives(l)
      PROVE  ResultsAddUp'
  <2>1. PICK h : h = load[l]
    OBVIOUS
  <2>2. HeadersFit(h)
    BY <1>3, <2>1 DEF Arrives, LoadsFit
  <2>3. PICK views \in {scored, old.scored} :
          /\ finished' = IsEvaluationFinished(LoadSessionEvaluations(h, views))
          /\ page' = [status |-> "ready", result |-> LoadSessionEvaluations(h, views)]
    BY <1>3, <2>1 DEF Arrives
  <2>4. PICK r : r = LoadSessionEvaluations(h, views)
    OBVIOUS
  <2>5. views \in SUBSET Question
    BY DEF ReplicaFits, Pipeline!TypeOK
  <2>6. r.completed + r.unscored <= r.total
    BY <2>2, <2>4, <2>5, AnswersAddUp
  <2>7. r.views = views
    BY <2>4 DEF LoadSessionEvaluations
  <2>8. page'.status = "ready" /\ page'.result = r /\ (finished' = IsEvaluationFinished(r))
    BY <2>3, <2>4
  <2>9. ASSUME ~erased', IsEvaluationFinished(r), r.fresh
        PROVE  r.views \cup r.ids = Question /\ (r.averages # {} \/ r.ids = Question)
    BY <1>0, <2>2, <2>4, <2>7, <2>9, FinishedAnswerIsWhole
  <2> QED
    BY <2>6, <2>8, <2>9 DEF FinishedShowsEverything, ProgressNeverOverruns
<1>4. ASSUME NEW l \in Load, ReadHeaders(l) \/ NotFound(l) \/ RequestFails(l)
      PROVE  ResultsAddUp'
  BY <1>1, <1>2, <1>4 DEF ReadHeaders, NotFound, RequestFails, Fails
<1>5. CASE OpenResults \/ Tick \/ Retry
  BY <1>1, <1>2, <1>5 DEF OpenResults, Tick, Retry
<1>6. CASE OpenHistory \/ Navigate
  BY <1>2, <1>6 DEF OpenHistory, Navigate, Leave
<1>7. CASE Score \/ Card \/ Attach \/ EraseAccount \/ CatchUp \/ ServeCoach
  BY <1>1, <1>7 DEF Score, Card, Attach, EraseAccount, CatchUp, ServeCoach, screen
<1>8. CASE UNCHANGED vars
  BY <1>1, <1>8 DEF vars, screen
<1> QED
  BY <1>3, <1>4, <1>5, <1>6, <1>7, <1>8 DEF Next, Poll

-----------------------------------------------------------------------------
(* The requests to the Coach.                                              *)

\* A request, before and after, has read the same.
SameRead(v) == visit'[v].rows = visit[v].rows /\ visit'[v].narratives = visit[v].narratives

Opened(v) ==
  /\ visit'[v].pc = "rows" /\ visit'[v].prose = <<>> /\ cache' = cache

Listed(v) ==
  /\ visit[v].pc = "rows" /\ visit'[v].pc = "cache" /\ visit'[v].prose = visit[v].prose
  /\ visit'[v].rows = history /\ visit'[v].narratives = narrated /\ cache' = cache

Served(v) ==
  /\ visit[v].pc = "cache" /\ Hit(v) /\ visit'[v].pc = "served" /\ visit'[v].from = cache.from
  /\ SameRead(v) /\ cache' = cache

Missed(v) ==
  /\ visit[v].pc = "cache" /\ visit'[v].pc \in {"served", "model"}
  /\ visit'[v].prose = visit[v].prose /\ SameRead(v) /\ cache' = cache

Written(v) ==
  /\ visit[v].pc = "model" /\ SameRead(v) /\ cache' = cache
  /\ IF visit'[v].prose = <<>> THEN visit'[v].pc = "served"
     ELSE visit'[v].pc = "keep" /\ visit'[v].from = Source(v)

Kept(v) ==
  /\ visit[v].pc = "keep" /\ visit'[v].pc = "served" /\ SameRead(v)
  /\ visit'[v].prose = visit[v].prose /\ visit'[v].from = visit[v].from
  /\ \/ cache' = cache
     \/ cache' = [stamp |-> CoachCacheStamp(visit[v].rows, visit[v].narratives),
                  from |-> visit[v].from, prose |-> ProseToStored(visit[v].prose)]

VisitMoves(v) == Opened(v) \/ Listed(v) \/ Served(v) \/ Missed(v) \/ Written(v) \/ Kept(v)

LEMMA OneVisitMoves ==
  ASSUME VisitsAreKept, NEW v \in Visit, NEW x, IsVisit(x), visit' = [visit EXCEPT ![v] = x]
  PROVE  /\ VisitsAreKept' /\ visit'[v] = x
         /\ \A w \in Visit : w # v => visit'[w] = visit[w]
<1>1. /\ visit' = [w \in Visit |-> visit'[w]] /\ visit'[v] = x
      /\ \A w \in Visit : w # v => visit'[w] = visit[w]
  BY DEF VisitsAreKept
<1>2. \A w \in Visit : IsVisit(visit'[w])
  BY <1>1 DEF VisitsAreKept
<1> QED
  BY <1>1, <1>2 DEF VisitsAreKept

\* What is changed of a request, and what is not.
LEMMA StepChanges ==
  ASSUME NEW x, IsVisit(x), NEW p
  PROVE  [x EXCEPT !.pc = p] =
           [pc |-> p, rows |-> x.rows, narratives |-> x.narratives, prose |-> x.prose, from |-> x.from]
  BY DEF IsVisit

LEMMA ProseServed ==
  ASSUME NEW x, IsVisit(x), NEW p, NEW w, NEW f
  PROVE  [x EXCEPT !.pc = p, !.from = f, !.prose = w] =
           [pc |-> p, rows |-> x.rows, narratives |-> x.narratives, prose |-> w, from |-> f]
<1>1. DOMAIN x = {"pc", "rows", "narratives", "prose", "from"} /\ x = [k \in DOMAIN x |-> x[k]]
  BY DEF IsVisit
<1>2. [x EXCEPT !.pc = p, !.from = f, !.prose = w] =
        [k \in DOMAIN x |-> IF k = "prose" THEN w ELSE IF k = "from" THEN f
                            ELSE IF k = "pc" THEN p ELSE x[k]]
  BY <1>1
<1> QED
  BY <1>1, <1>2

LEMMA ProseWritten ==
  ASSUME NEW x, IsVisit(x), NEW p, NEW w, NEW f
  PROVE  [x EXCEPT !.prose = w, !.from = f, !.pc = p] =
           [pc |-> p, rows |-> x.rows, narratives |-> x.narratives, prose |-> w, from |-> f]
<1>1. DOMAIN x = {"pc", "rows", "narratives", "prose", "from"} /\ x = [k \in DOMAIN x |-> x[k]]
  BY DEF IsVisit
<1>2. [x EXCEPT !.prose = w, !.from = f, !.pc = p] =
        [k \in DOMAIN x |-> IF k = "pc" THEN p ELSE IF k = "from" THEN f
                            ELSE IF k = "prose" THEN w ELSE x[k]]
  BY <1>1
<1> QED
  BY <1>1, <1>2

LEMMA VisitSteps ==
  ASSUME VisitsAreKept, NEW v \in Visit,
         \/ OpenCoach(v) \/ ListUserSessionSummaries(v) \/ GetCachedCoach(v)
         \/ WriteProse(v) \/ PutCachedCoach(v)
  PROVE  /\ VisitsAreKept' /\ VisitMoves(v)
         /\ \A w \in Visit : w # v => visit'[w] = visit[w]
<1>0. PICK x : x = visit[v] /\ IsVisit(x)
  BY DEF VisitsAreKept
<1>1. ASSUME NEW p, visit' = [visit EXCEPT ![v].pc = p]
      PROVE  /\ VisitsAreKept' /\ (\A w \in Visit : w # v => visit'[w] = visit[w])
             /\ SameRead(v) /\ visit'[v].pc = p
             /\ visit'[v].prose = visit[v].prose /\ visit'[v].from = visit[v].from
  <2>1. PICK y : y = [pc |-> p, rows |-> x.rows, narratives |-> x.narratives,
                      prose |-> x.prose, from |-> x.from]
    OBVIOUS
  <2>2. visit' = [visit EXCEPT ![v] = y]
    <3>1. y = [x EXCEPT !.pc = p]
      BY <1>0, <2>1, StepChanges
    <3> QED
      BY <1>0, <1>1, <3>1
  <2>3. IsVisit(y)
    BY <2>1 DEF IsVisit
  <2>4. VisitsAreKept' /\ visit'[v] = y /\ \A w \in Visit : w # v => visit'[w] = visit[w]
    BY <2>2, <2>3, OneVisitMoves
  <2> QED
    BY <1>0, <2>1, <2>4 DEF SameRead
<1>2. ASSUME NEW w, NEW f, NEW p,
             visit' = [visit EXCEPT ![v] =
               [pc |-> p, rows |-> x.rows, narratives |-> x.narratives, prose |-> w, from |-> f]]
      PROVE  /\ VisitsAreKept' /\ (\A u \in Visit : u # v => visit'[u] = visit[u])
             /\ SameRead(v) /\ visit'[v].pc = p /\ visit'[v].prose = w /\ visit'[v].from = f
  <2>1. PICK y : y = [pc |-> p, rows |-> x.rows, narratives |-> x.narratives, prose |-> w, from |-> f]
    OBVIOUS
  <2>2. IsVisit(y)
    BY <2>1 DEF IsVisit
  <2>3. VisitsAreKept' /\ visit'[v] = y /\ \A u \in Visit : u # v => visit'[u] = visit[u]
    BY <1>2, <2>1, <2>2, OneVisitMoves
  <2> QED
    BY <1>0, <2>1, <2>3 DEF SameRead
<1>3. CASE OpenCoach(v)
  <2>1. PICK y : y = [pc |-> "rows", rows |-> <<>>, narratives |-> {}, prose |-> <<>>, from |-> Nothing]
    OBVIOUS
  <2>2. visit' = [visit EXCEPT ![v] = y] /\ cache' = cache
    <3>1. [Idle EXCEPT !.pc = "rows"] = y
      <4>1. IsVisit(Idle)
        BY DEF Idle, IsVisit
      <4>2. [Idle EXCEPT !.pc = "rows"] =
              [pc |-> "rows", rows |-> Idle.rows, narratives |-> Idle.narratives,
               prose |-> Idle.prose, from |-> Idle.from]
        BY ONLY <4>1, StepChanges
      <4> QED
        BY <2>1, <4>2 DEF Idle
    <3>2. visit' = [visit EXCEPT ![v] = [Idle EXCEPT !.pc = "rows"]] /\ cache' = cache
      BY <1>3 DEF OpenCoach
    <3> QED
      BY <3>1, <3>2
  <2>3. IsVisit(y)
    BY <2>1 DEF IsVisit
  <2>4. VisitsAreKept' /\ visit'[v] = y /\ \A w \in Visit : w # v => visit'[w] = visit[w]
    BY <2>2, <2>3, OneVisitMoves
  <2> QED
    BY <2>1, <2>2, <2>4 DEF VisitMoves, Opened
<1>4. CASE ListUserSessionSummaries(v)
  <2>1. PICK y : y = [pc |-> "cache", rows |-> history, narratives |-> narrated,
                      prose |-> x.prose, from |-> x.from]
    OBVIOUS
  <2>2. /\ visit[v].pc = "rows" /\ cache' = cache
        /\ visit' = [visit EXCEPT ![v] = y]
    <3>1. PICK r, n : r = history /\ n = narrated
      OBVIOUS
    <3>2. [x EXCEPT !.pc = "cache", !.rows = r, !.narratives = n] =
            [pc |-> "cache", rows |-> r, narratives |-> n, prose |-> x.prose, from |-> x.from]
      <4>1. DOMAIN x = {"pc", "rows", "narratives", "prose", "from"} /\ x = [k \in DOMAIN x |-> x[k]]
        BY <1>0 DEF IsVisit
      <4>2. [x EXCEPT !.pc = "cache", !.rows = r, !.narratives = n] =
              [k \in DOMAIN x |-> IF k = "narratives" THEN n ELSE IF k = "rows" THEN r
                                  ELSE IF k = "pc" THEN "cache" ELSE x[k]]
        BY <4>1
      <4> QED
        BY <4>1, <4>2
    <3>3. /\ visit[v].pc = "rows" /\ cache' = cache
          /\ visit' = [visit EXCEPT ![v] = [x EXCEPT !.pc = "cache", !.rows = r, !.narratives = n]]
      BY <1>0, <1>4, <3>1 DEF ListUserSessionSummaries
    <3> QED
      BY <2>1, <3>1, <3>2, <3>3
  <2>3. IsVisit(y)
    BY <2>1 DEF IsVisit
  <2>4. VisitsAreKept' /\ visit'[v] = y /\ \A w \in Visit : w # v => visit'[w] = visit[w]
    BY <2>2, <2>3, OneVisitMoves
  <2> QED
    BY <1>0, <2>1, <2>2, <2>4 DEF VisitMoves, Listed
<1>5. CASE GetCachedCoach(v)
  <2>1. visit[v].pc = "cache" /\ cache' = cache
    BY <1>5 DEF GetCachedCoach
  <2>2. ASSUME NEW p \in {"served", "model"}, visit' = [visit EXCEPT ![v].pc = p]
        PROVE  /\ VisitsAreKept' /\ VisitMoves(v)
               /\ \A w \in Visit : w # v => visit'[w] = visit[w]
    BY <1>1, <2>1, <2>2 DEF VisitMoves, Missed
  <2>3. CASE Hit(v) /\ visit' = [visit EXCEPT ![v] = [@ EXCEPT !.pc = "served", !.from = cache.from,
                                   !.prose = StoredToProse(cache.prose, Known(visit[v].rows))]]
    <3>1. PICK w, f : w = StoredToProse(cache.prose, Known(visit[v].rows)) /\ f = cache.from
      OBVIOUS
    <3>2. [x EXCEPT !.pc = "served", !.from = f, !.prose = w] =
            [pc |-> "served", rows |-> x.rows, narratives |-> x.narratives, prose |-> w, from |-> f]
      BY ONLY <1>0, ProseServed
    <3>3. visit' = [visit EXCEPT ![v] =
            [pc |-> "served", rows |-> x.rows, narratives |-> x.narratives, prose |-> w, from |-> f]]
      BY <1>0, <2>3, <3>1, <3>2
    <3>4. VisitsAreKept' /\ \A u \in Visit : u # v => visit'[u] = visit[u]
      BY <1>2, <3>3
    <3>5. SameRead(v) /\ visit'[v].pc = "served" /\ visit'[v].from = f
      BY <1>2, <3>3
    <3> QED
      BY <2>1, <2>3, <3>1, <3>4, <3>5 DEF VisitMoves, Served
  <2>4. \/ Hit(v) /\ visit' = [visit EXCEPT ![v] = [@ EXCEPT !.pc = "served", !.from = cache.from,
                                 !.prose = StoredToProse(cache.prose, Known(visit[v].rows))]]
        \/ \E p \in {"served", "model"} : visit' = [visit EXCEPT ![v].pc = p]
    BY <1>5 DEF GetCachedCoach
  <2> QED
    BY <2>2, <2>3, <2>4
<1>6. CASE WriteProse(v)
  <2>1. PICK w : visit' = [visit EXCEPT ![v] = [@ EXCEPT !.prose = w,
                             !.from = IF w = <<>> THEN Nothing ELSE Source(v),
                             !.pc = IF w = <<>> THEN "served" ELSE "keep"]]
    BY <1>6 DEF WriteProse
  <2>2. PICK f, p : f = (IF w = <<>> THEN Nothing ELSE Source(v))
                    /\ p = (IF w = <<>> THEN "served" ELSE "keep")
    OBVIOUS
  <2>3. [x EXCEPT !.prose = w, !.from = f, !.pc = p] =
          [pc |-> p, rows |-> x.rows, narratives |-> x.narratives, prose |-> w, from |-> f]
    BY ONLY <1>0, ProseWritten
  <2>4. visit' = [visit EXCEPT ![v] =
          [pc |-> p, rows |-> x.rows, narratives |-> x.narratives, prose |-> w, from |-> f]]
    BY <1>0, <2>1, <2>2, <2>3
  <2>5. visit[v].pc = "model" /\ cache' = cache
    BY <1>6 DEF WriteProse
  <2> QED
    BY <1>2, <2>2, <2>4, <2>5 DEF VisitMoves, Written
<1>7. CASE PutCachedCoach(v)
  <2>1. /\ visit[v].pc = "keep" /\ visit' = [visit EXCEPT ![v].pc = "served"]
        /\ \/ cache' = cache
           \/ cache' = [stamp |-> CoachCacheStamp(visit[v].rows, visit[v].narratives),
                        from |-> visit[v].from, prose |-> ProseToStored(visit[v].prose)]
    BY <1>7 DEF PutCachedCoach
  <2> QED
    BY <1>1, <2>1 DEF VisitMoves, Kept
<1> QED
  BY <1>3, <1>4, <1>5, <1>6, <1>7

-----------------------------------------------------------------------------
(* Types.                                                                  *)

LEMMA TypesInit == Init => Typed
<1> SUFFICES ASSUME Init PROVE Typed
  OBVIOUS
<1>1. Pipeline!TypeOK
  BY DEF Init, Pipeline!Init, Pipeline!TypeOK
<1>2. \A v \in Visit : visit[v] = Idle
  BY DEF Init
<1>3. IsVisit(Idle)
  BY DEF Idle, IsVisit
<1>4. VisitsAreKept
  BY <1>2, <1>3 DEF Init, VisitsAreKept
<1>5. LoadsAreKept /\ \A l \in Load : load[l] = Nothing
  BY DEF Init, LoadsAreKept
<1>6. page.status = "loading"
  BY DEF Init
<1>7. \A v \in Visit : visit[v].pc = "idle"
  BY <1>2 DEF Idle
<1>8. faults \in 0 .. MaxFaults /\ expired \in 0 .. MaxExpired
  BY BoundsAssumption DEF Init
<1> QED
  BY <1>1, <1>4, <1>5, <1>6, <1>7, <1>8 DEF Typed, TypeOK, Init

\* The steps that follow nobody's request.
LEMMA CountersStayTyped ==
  ASSUME TypeOK, [Next]_vars
  PROVE  faults' \in 0 .. MaxFaults /\ expired' \in 0 .. MaxExpired
<1> USE BoundsAssumption DEF TypeOK
<1>1. ASSUME faults' = faults \/ (faults < MaxFaults /\ faults' = faults + 1),
             expired' = expired \/ (expired < MaxExpired /\ expired' = expired + 1)
      PROVE  faults' \in 0 .. MaxFaults /\ expired' \in 0 .. MaxExpired
  BY <1>1
<1>2. CASE Score \/ Card
  BY <1>1, <1>2 DEF Score, Card, PutSessionSummary, rows
<1>3. CASE Attach
  BY <1>1, <1>3 DEF Attach, AttachSessionSummary, RowExpires
<1>4. CASE EraseAccount \/ CatchUp \/ OpenResults \/ Tick \/ Retry
  BY <1>1, <1>4 DEF EraseAccount, CatchUp, OpenResults, Tick, Retry, rows
<1>5. ASSUME NEW l \in Load, ReadHeaders(l) \/ Arrives(l) \/ NotFound(l) \/ RequestFails(l)
      PROVE  faults' \in 0 .. MaxFaults /\ expired' \in 0 .. MaxExpired
  BY <1>1, <1>5 DEF ReadHeaders, Arrives, NotFound, RequestFails, Fails, rows
<1>6. CASE ServeCoach
  <2>1. PICK v \in Visit : \/ OpenCoach(v) \/ ListUserSessionSummaries(v) \/ GetCachedCoach(v)
                           \/ WriteProse(v) \/ PutCachedCoach(v)
    BY <1>6 DEF ServeCoach
  <2>2. faults' = faults \/ (faults < MaxFaults /\ faults' = faults + 1)
    BY <2>1 DEF OpenCoach, ListUserSessionSummaries, GetCachedCoach, WriteProse, PutCachedCoach
  <2> QED
    BY <1>1, <1>6, <2>2 DEF ServeCoach, rows
<1>7. CASE OpenHistory \/ Navigate
  BY <1>1, <1>7 DEF OpenHistory, Navigate, rows
<1>8. CASE UNCHANGED vars
  BY <1>1, <1>8 DEF vars, rows
<1> QED
  BY <1>2, <1>3, <1>4, <1>5, <1>6, <1>7, <1>8 DEF Next, Poll

LEMMA ScreenStaysTyped ==
  ASSUME TypeOK, [Next]_vars
  PROVE  /\ at' \in {"elsewhere", "results", "coach", "history"}
         /\ page'.status \in {"loading", "error", "ready"}
         /\ finished' \in BOOLEAN /\ polling' \in BOOLEAN
         /\ ended' \in {"running", "ended", "opened"} /\ carded' \in BOOLEAN
<1> DEFINE Typed1 == /\ at' \in {"elsewhere", "results", "coach", "history"}
                     /\ page'.status \in {"loading", "error", "ready"}
                     /\ finished' \in BOOLEAN /\ polling' \in BOOLEAN
           Typed2 == ended' \in {"running", "ended", "opened"} /\ carded' \in BOOLEAN
<1>1. ASSUME UNCHANGED <<at, page, finished, polling>> PROVE Typed1
  BY <1>1 DEF TypeOK
<1>2. ASSUME UNCHANGED <<ended, carded>> PROVE Typed2
  BY <1>2 DEF TypeOK
<1>3. CASE Score
  BY <1>1, <1>3 DEF Score, Finish, StartEvaluationSummary, ScoreAnswers, screen, TypeOK
<1>4. CASE Card
  BY <1>1, <1>4 DEF Card, PutSessionSummary, screen, TypeOK
<1>5. CASE Attach \/ EraseAccount \/ CatchUp
  BY <1>1, <1>2, <1>5 DEF Attach, AttachSessionSummary, RowExpires, EraseAccount, CatchUp, screen, server
<1>6. CASE OpenResults
  <2>1. /\ at' = "results" /\ finished' = FALSE /\ polling' = TRUE
        /\ page' = [status |-> "loading", result |-> Nothing] /\ UNCHANGED <<ended, carded>>
    BY <1>6 DEF OpenResults, server
  <2> QED
    BY <1>2, <2>1
<1>7. CASE Tick
  <2>1. (polling' = FALSE \/ polling' = polling) /\ UNCHANGED <<at, page, finished, ended, carded>>
    BY <1>7 DEF Tick, server
  <2> QED
    BY <1>2, <2>1 DEF TypeOK
<1>8. CASE Retry
  <2>1. UNCHANGED <<at, page, finished, polling, ended, carded>>
    BY <1>8 DEF Retry, server
  <2> QED
    BY <1>1, <1>2, <2>1
<1>9. ASSUME NEW l \in Load, ReadHeaders(l)
      PROVE  Typed1 /\ Typed2
  <2>1. UNCHANGED <<at, page, finished, polling, ended, carded>>
    BY <1>9 DEF ReadHeaders, server
  <2> QED
    BY <1>1, <1>2, <2>1
<1>10. ASSUME NEW l \in Load, NotFound(l) \/ RequestFails(l)
       PROVE  Typed1 /\ Typed2
  <2>1. /\ finished' = TRUE /\ UNCHANGED <<at, polling, ended, carded>>
        /\ page' = [status |-> "error", result |-> Nothing]
    BY <1>10 DEF NotFound, RequestFails, Fails, server
  <2> QED
    BY <1>2, <2>1 DEF TypeOK
<1>11. ASSUME NEW l \in Load, Arrives(l)
       PROVE  Typed1 /\ Typed2
  <2>1. /\ finished' \in BOOLEAN /\ UNCHANGED <<at, polling, ended, carded>>
        /\ page'.status = "ready"
    BY <1>11 DEF Arrives, IsEvaluationFinished, server
  <2> QED
    BY <1>2, <2>1 DEF TypeOK
<1>12. CASE ServeCoach
  BY <1>1, <1>2, <1>12 DEF ServeCoach, screen, server
<1>13. CASE OpenHistory
  <2>1. UNCHANGED <<at, finished, polling, ended, carded>> /\ page'.status \in {"ready", "error"}
    BY <1>13 DEF OpenHistory, server
  <2> QED
    BY <1>2, <2>1 DEF TypeOK
<1>14. CASE Navigate
  <2>1. UNCHANGED <<ended, carded>>
    BY <1>14 DEF Navigate, server
  <2>2. ASSUME NEW to \in {"coach", "history"}, Leave(to)
        PROVE  Typed1
    BY <2>2 DEF Leave
  <2>3. ASSUME at' \in {"coach", "history", "elsewhere"}, UNCHANGED <<finished, polling>>,
               page' = page \/ page' = [status |-> "loading", result |-> Nothing]
        PROVE  Typed1
    BY <2>3 DEF TypeOK
  <2> QED
    BY <1>2, <1>14, <2>1, <2>2, <2>3 DEF Navigate
<1>15. CASE UNCHANGED vars
  BY <1>1, <1>2, <1>15 DEF vars, screen, server
<1> QED
  BY <1>3, <1>4, <1>5, <1>6, <1>7, <1>8, <1>9, <1>10, <1>11, <1>12, <1>13, <1>14, <1>15 DEF Next, Poll

LEMMA LoadsStayTyped ==
  ASSUME TypeOK, LoadsAreKept, [Next]_vars
  PROVE  \A l \in Load : load'[l] = Nothing \/ load'[l].pc \in {"asked", "headers", "missing"}
<1> SUFFICES ASSUME NEW l \in Load
             PROVE  load'[l] = Nothing \/ load'[l].pc \in {"asked", "headers", "missing"}
  OBVIOUS
<1>1. LoadMoves(l)
  BY LoadSteps
<1>2. CASE HeadersRead(l)
  <2>1. PICK m \in {Meta, old.meta}, s \in {Summary, old.summary} :
          load'[l] = IF m = Nothing THEN [pc |-> "missing"]
                     ELSE [pc |-> "headers", meta |-> m, summary |-> s, fresh |-> m = Meta /\ s = Summary]
    BY <1>2 DEF HeadersRead
  <2>2. CASE m = Nothing
    BY <2>1, <2>2
  <2>3. CASE m # Nothing
    BY <2>1, <2>3
  <2> QED
    BY <2>2, <2>3
<1> QED
  BY <1>1, <1>2 DEF LoadMoves, TypeOK, Asked

\* A step of the Coach's is one request's, and the others stay.
LEMMA WhoseVisit ==
  ASSUME VisitsAreKept, [Next]_vars
  PROVE  /\ VisitsAreKept'
         /\ \/ UNCHANGED <<visit, cache>>
            \/ UNCHANGED visit /\ EraseAccount
            \/ /\ UNCHANGED <<history, narrated, carded>>
               /\ \E v \in Visit : VisitMoves(v) /\ \A w \in Visit : w # v => visit'[w] = visit[w]
<1>1. CASE ServeCoach
  <2>1. PICK v \in Visit : \/ OpenCoach(v) \/ ListUserSessionSummaries(v) \/ GetCachedCoach(v)
                           \/ WriteProse(v) \/ PutCachedCoach(v)
    BY <1>1 DEF ServeCoach
  <2>2. UNCHANGED <<history, narrated, carded>>
    BY <1>1 DEF ServeCoach, server, rows
  <2> QED
    BY <2>1, <2>2, VisitSteps
<1>2. ASSUME UNCHANGED visit
      PROVE  VisitsAreKept'
  BY <1>2 DEF VisitsAreKept
<1>3. CASE EraseAccount
  BY <1>2, <1>3 DEF EraseAccount
<1>4. CASE ~ServeCoach /\ ~EraseAccount
  <2>1. ASSUME Score \/ Card \/ Attach \/ CatchUp \/ OpenResults \/ Tick \/ Retry
        PROVE  UNCHANGED <<visit, cache>>
    BY <2>1 DEF Score, Card, Attach, CatchUp, OpenResults, Tick, Retry, coach
  <2>2. ASSUME NEW l \in Load, ReadHeaders(l) \/ Arrives(l) \/ NotFound(l) \/ RequestFails(l)
        PROVE  UNCHANGED <<visit, cache>>
    BY <2>2 DEF ReadHeaders, Arrives, NotFound, RequestFails, Fails, coach
  <2>3. ASSUME OpenHistory \/ Navigate
        PROVE  UNCHANGED <<visit, cache>>
    BY <2>3 DEF OpenHistory, Navigate, coach
  <2>4. ASSUME UNCHANGED vars
        PROVE  UNCHANGED <<visit, cache>>
    BY <2>4 DEF vars, coach
  <2>5. UNCHANGED <<visit, cache>>
    BY <1>4, <2>1, <2>2, <2>3, <2>4 DEF Next, Poll
  <2> QED
    BY <1>2, <2>5
<1> QED
  BY <1>1, <1>3, <1>4

LEMMA VisitsStayTyped ==
  ASSUME TypeOK, VisitsAreKept, [Next]_vars
  PROVE  \A v \in Visit : visit'[v].pc \in {"idle", "rows", "cache", "model", "keep", "served"}
<1>1. CASE UNCHANGED visit
  BY <1>1 DEF TypeOK
<1>2. ASSUME NEW v \in Visit, VisitMoves(v), \A w \in Visit : w # v => visit'[w] = visit[w]
      PROVE  \A w \in Visit : visit'[w].pc \in {"idle", "rows", "cache", "model", "keep", "served"}
  <2>1. visit'[v].pc \in {"rows", "cache", "model", "keep", "served"}
    BY <1>2 DEF VisitMoves, Opened, Listed, Served, Missed, Written, Kept
  <2> QED
    BY <1>2, <2>1 DEF TypeOK
<1> QED
  BY <1>1, <1>2, WhoseVisit

-----------------------------------------------------------------------------
(* What the candidate's history does.                                      *)

\* The history, and what may be known of it, only moves on.
LEMMA HistoryMoves ==
  ASSUME TypeOK, RowsFit(history), ~carded => Watched.id \notin Ids(history), [Next]_vars
  PROVE  /\ RowsFit(history') /\ narrated' \subseteq Ids(history')
         /\ ~carded' => ~carded /\ Watched.id \notin Ids(history')
         /\ Ids(history') \ {Watched.id} \subseteq Ids(history)
         /\ Watched.id \in Ids(history') => Watched.id \in Ids(history) \/ ~carded
         /\ narrated \cap Ids(history') \subseteq narrated'
<1> DEFINE Goal == /\ RowsFit(history') /\ narrated' \subseteq Ids(history')
                   /\ ~carded' => ~carded /\ Watched.id \notin Ids(history')
                   /\ Ids(history') \ {Watched.id} \subseteq Ids(history)
                   /\ Watched.id \in Ids(history') => Watched.id \in Ids(history) \/ ~carded
                   /\ narrated \cap Ids(history') \subseteq narrated'
<1> USE DEF TypeOK
<1>1. ASSUME UNCHANGED <<history, narrated, carded>>
      PROVE  Goal
  BY <1>1
<1>2. CASE Card
  <2>1. /\ carded' = TRUE /\ ~carded /\ narrated' = narrated
        /\ history' = history \/ history' = <<Watched>> \o history
    BY <1>2 DEF Card, PutSessionSummary
  <2>2. CASE history' = history
    BY <2>1, <2>2
  <2>3. CASE history' = <<Watched>> \o history
    <3>1. RowsFit(history') /\ Ids(history') = Ids(history) \cup {Watched.id}
      <4>1. PICK h : h = history
        OBVIOUS
      <4> QED
        BY <2>1, <2>3, <4>1, RowComes
    <3> QED
      BY <2>1, <3>1
  <2> QED
    BY <2>1, <2>2, <2>3
<1>3. CASE Attach
  <2>1. CASE AttachSessionSummary
    BY <2>1 DEF AttachSessionSummary, server
  <2>2. CASE RowExpires
    <3>1. PICK k \in DOMAIN history : history' = RemoveAt(history, k)
      BY <2>2 DEF RowExpires
    <3>2. RowsFit(history') /\ Ids(history') \subseteq Ids(history)
      <4>1. PICK h : h = history
        OBVIOUS
      <4> QED
        BY <3>1, <4>1, RowLeaves
    <3>3. narrated' = narrated \cap Ids(history') /\ carded' = carded
      BY <2>2 DEF RowExpires, server
    <3> QED
      BY <3>2, <3>3
  <2> QED
    BY <1>3, <2>1, <2>2 DEF Attach
<1>4. CASE EraseAccount
  <2>1. history' = <<>> /\ narrated' = {} /\ carded' = carded
    BY <1>4 DEF EraseAccount
  <2>2. Ids(<<>>) = {}
    BY DEF Ids, ToSet
  <2>3. RowsFit(<<>>)
    BY <2>2, EmptySeq DEF RowsFit
  <2> QED
    BY <2>1, <2>2, <2>3
<1>5. CASE ~Card /\ ~Attach /\ ~EraseAccount
  <2>1. CASE Score
    BY <1>1, <2>1 DEF Score, Finish, StartEvaluationSummary, ScoreAnswers, rows
  <2>2. CASE CatchUp \/ OpenResults \/ Tick \/ Retry \/ ServeCoach \/ OpenHistory \/ Navigate
    BY <1>1, <2>2 DEF CatchUp, OpenResults, Tick, Retry, ServeCoach, OpenHistory, Navigate, rows, server
  <2>3. ASSUME NEW l \in Load, ReadHeaders(l) \/ Arrives(l) \/ NotFound(l) \/ RequestFails(l)
        PROVE  Goal
    BY <1>1, <2>3 DEF ReadHeaders, Arrives, NotFound, RequestFails, Fails, rows, server
  <2>4. CASE UNCHANGED vars
    BY <1>1, <2>4 DEF vars, rows, server
  <2> QED
    BY <1>5, <2>1, <2>2, <2>3, <2>4 DEF Next, Poll
<1> QED
  BY <1>2, <1>3, <1>4, <1>5

-----------------------------------------------------------------------------
(* What the Coach has read.                                                *)

LEMMA NowIsRead ==
  ASSUME TypeOK, RowsFit(history), ~carded => Watched.id \notin Ids(history)
  PROVE  /\ Now \in Sources /\ IsFiniteSet(Now.rows) /\ Now.narratives \subseteq Now.rows
         /\ ~carded => Watched.id \notin Now.rows
         /\ Earlier(Now, Now)
<1>1. IsFiniteSet(Ids(history)) /\ Ids(history) \subseteq {r.id : r \in Row}
  BY IdsAreCounted, IdsOf DEF RowsFit
<1>2. narrated \subseteq Ids(history)
  BY DEF TypeOK
<1> QED
  BY <1>1, <1>2 DEF Now, Sources, Earlier

\* What was read before fits the history as it moves on.
LEMMA EarlierStays ==
  ASSUME NEW s, Earlier(s, Now), ~carded => Watched.id \notin s.rows,
         s.narratives \subseteq s.rows,
         Ids(history') \ {Watched.id} \subseteq Ids(history),
         Watched.id \in Ids(history') => Watched.id \in Ids(history) \/ ~carded,
         narrated \cap Ids(history') \subseteq narrated'
  PROVE  Earlier(s, Now)'
<1>1. Ids(history)' \ {Watched.id} \subseteq s.rows
  BY DEF Earlier, Now
<1>2. ASSUME NEW x \in s.narratives, x \in Ids(history')
      PROVE  x \in narrated'
  <2>1. x \in Ids(history)
    BY <1>2
  <2> QED
    BY <1>2, <2>1 DEF Earlier, Now
<1> QED
  BY <1>1, <1>2 DEF Earlier, Now

\* Nothing else is read than was read before or than there is.
LEMMA ReadsComeFromNow ==
  ASSUME NEW v \in Visit, VisitMoves(v), \A w \in Visit : w # v => visit'[w] = visit[w],
         ProseFits(v), ReadsFit
  PROVE  /\ Reads' \subseteq Reads \cup {Now}
         /\ \A w \in HaveRead' : visit'[w].rows = history \/ (w \in HaveRead /\ visit'[w].rows = visit[w].rows)
         /\ Listed(v) \/ SameRead(v) \/ Opened(v)
<1>1. ASSUME NEW w \in HaveRead'
      PROVE  /\ Source(w)' \in Reads \cup {Now}
             /\ visit'[w].rows = history \/ (w \in HaveRead /\ visit'[w].rows = visit[w].rows)
  <2>0. w \in Visit /\ visit'[w].pc \in {"cache", "model", "keep", "served"}
    BY <1>1 DEF HaveRead
  <2>1. ASSUME visit'[w].rows = visit[w].rows, visit'[w].narratives = visit[w].narratives,
               visit[w].pc \in {"cache", "model", "keep", "served"}
        PROVE  Source(w)' \in Reads /\ w \in HaveRead
    <3>1. Source(w)' = Source(w)
      BY <2>1 DEF Source
    <3> QED
      BY <2>0, <2>1, <3>1 DEF Reads, HaveRead
  <2>2. CASE w # v
    BY <2>0, <2>1, <2>2
  <2>3. CASE w = v
    <3>1. CASE Listed(v)
      <4>1. visit'[w].rows = history /\ Source(w)' = Now
        BY <2>3, <3>1 DEF Listed, Source, Now
      <4> QED
        BY <4>1
    <3>2. CASE Opened(v)
      BY <2>0, <2>3, <3>2 DEF Opened
    <3>3. CASE Served(v) \/ Missed(v) \/ Written(v) \/ Kept(v)
      <4>1. SameRead(v) /\ visit[v].pc \in {"cache", "model", "keep", "served"}
        BY <3>3 DEF Served, Missed, Written, Kept
      <4> QED
        BY <2>1, <2>3, <4>1 DEF SameRead
    <3> QED
      BY <3>1, <3>2, <3>3 DEF VisitMoves
  <2> QED
    BY <2>2, <2>3
<1>2. cache' # Nothing => cache'.from \in Reads
  <2>1. CASE cache' = cache
    BY <2>1 DEF Reads
  <2>2. CASE cache' # cache
    <3>1. Kept(v)
      BY <2>2 DEF VisitMoves, Opened, Listed, Served, Missed, Written
    <3>2. visit[v].pc = "keep" /\ cache'.from = visit[v].from
      BY <2>2, <3>1 DEF Kept
    <3>3. cache'.from = Source(v) /\ v \in HaveRead
      BY <3>2 DEF ProseFits, HaveRead
    <3> QED
      BY <3>3 DEF Reads
  <2> QED
    BY <2>1, <2>2
<1>3. Reads' \subseteq Reads \cup {Now}
  <2>1. Reads' = {Source(w)' : w \in HaveRead'} \cup (IF cache' = Nothing THEN {} ELSE {cache'.from})
    BY DEF Reads
  <2> QED
    BY <1>1, <1>2, <2>1
<1> QED
  BY <1>1, <1>3 DEF VisitMoves, Opened, Listed, Served, Missed, Written, Kept

\* So that all of it stays of one history.
LEMMA ReadsStayFit ==
  ASSUME TypeOK, RowsFit(history), ~carded => Watched.id \notin Ids(history),
         ReadsFit, OneStory, Reads' \subseteq Reads \cup {Now},
         UNCHANGED <<history, narrated, carded>>
  PROVE  ReadsFit' /\ OneStory'
<1>1. Now' = Now
  BY DEF Now
<1>2. \A s \in Reads \cup {Now} :
        /\ s \in Sources /\ IsFiniteSet(s.rows) /\ s.narratives \subseteq s.rows
        /\ ~carded => Watched.id \notin s.rows
        /\ Earlier(s, Now)
  BY NowIsRead DEF ReadsFit
<1>3. \A s, t \in Reads \cup {Now} : Earlier(s, t) \/ Earlier(t, s)
  BY <1>2 DEF OneStory
<1>4. ReadsFit'
  BY <1>1, <1>2 DEF ReadsFit
<1> QED
  BY <1>3, <1>4 DEF OneStory

LEMMA ReadsStayWhileHistoryMoves ==
  ASSUME TypeOK, RowsFit(history), ~carded => Watched.id \notin Ids(history), [Next]_vars,
         ReadsFit, OneStory, Reads' \subseteq Reads
  PROVE  ReadsFit' /\ OneStory'
<1>1. ASSUME NEW s \in Reads
      PROVE  /\ s \in Sources /\ IsFiniteSet(s.rows) /\ s.narratives \subseteq s.rows
             /\ ~carded' => Watched.id \notin s.rows
             /\ Earlier(s, Now)'
  BY HistoryMoves, EarlierStays DEF ReadsFit
<1>2. ReadsFit'
  BY <1>1 DEF ReadsFit
<1> QED
  BY <1>2 DEF OneStory

\* A cached report whose stamp is that of a history was written from it.
LEMMA HitIsOfSource ==
  ASSUME CoachInv, NEW v \in HaveRead, Hit(v)
  PROVE  cache.from = Source(v)
<1>1. PICK s, t, stamp : /\ s = cache.from /\ t = Source(v)
                         /\ stamp = CoachCacheStamp(visit[v].rows, visit[v].narratives)
  OBVIOUS
<1>2. s \in Reads /\ t \in Reads
  BY <1>1 DEF Hit, Reads
<1>3. StampTells(stamp, s)
  BY <1>1 DEF Hit, CoachInv
<1>4. StampTells(stamp, t)
  <2>1. PICK h, n : h = visit[v].rows /\ n = visit[v].narratives
    OBVIOUS
  <2>2. RowsFit(h)
    BY <2>1 DEF CoachInv
  <2> QED
    BY <1>1, <2>1, <2>2, StampIsOfSource DEF Source
<1>5. /\ s \in Sources /\ t \in Sources /\ IsFiniteSet(s.rows) /\ IsFiniteSet(t.rows)
      /\ s.narratives \subseteq s.rows /\ t.narratives \subseteq t.rows
      /\ Earlier(s, t) \/ Earlier(t, s)
  BY <1>2 DEF CoachInv, ReadsFit, OneStory
<1>6. s = t
  BY <1>3, <1>4, <1>5, SameStampSameSource
<1> QED
  BY <1>1, <1>6

LEMMA ProseStaysFit ==
  ASSUME CoachInv, NEW v \in Visit, VisitMoves(v),
         \A w \in Visit : w # v => visit'[w] = visit[w]
  PROVE  \A w \in Visit : ProseFits(w)'
<1>0. ProseFits(v)
  BY DEF CoachInv
<1>1. ASSUME SameRead(v)
      PROVE  Source(v)' = Source(v)
  BY <1>1 DEF SameRead, Source
<1>2. ASSUME Opened(v)
      PROVE  ProseFits(v)'
  BY <1>2 DEF Opened, ProseFits
<1>3. ASSUME Listed(v)
      PROVE  ProseFits(v)'
  BY <1>0, <1>3 DEF Listed, ProseFits
<1>4. ASSUME Served(v)
      PROVE  ProseFits(v)'
  <2>1. v \in HaveRead
    BY <1>4 DEF Served, HaveRead
  <2>2. cache.from = Source(v)
    BY <1>4, <2>1, HitIsOfSource DEF Served
  <2> QED
    BY <1>1, <1>4, <2>2 DEF Served, ProseFits
<1>5. ASSUME Missed(v)
      PROVE  ProseFits(v)'
  BY <1>0, <1>5 DEF Missed, ProseFits
<1>6. ASSUME Written(v)
      PROVE  ProseFits(v)'
  BY <1>1, <1>6 DEF Written, ProseFits
<1>7. ASSUME Kept(v)
      PROVE  ProseFits(v)'
  BY <1>0, <1>1, <1>7 DEF Kept, ProseFits
<1>8. ProseFits(v)'
  BY <1>2, <1>3, <1>4, <1>5, <1>6, <1>7 DEF VisitMoves
<1>9. ASSUME NEW w \in Visit, w # v
      PROVE  ProseFits(w)'
  <2>1. visit'[w] = visit[w]
    BY <1>9
  <2>2. ProseFits(w) /\ Source(w)' = Source(w)
    BY <2>1 DEF CoachInv, Source
  <2> QED
    BY <2>1, <2>2 DEF ProseFits
<1> QED
  BY <1>8, <1>9

\* The stamp on what is cached stays that of its source.
LEMMA StampStaysTrue ==
  ASSUME CoachInv, NEW v \in Visit, VisitMoves(v), cache' # Nothing
  PROVE  StampTells(cache'.stamp, cache'.from)
<1>1. CASE cache' = cache
  BY <1>1 DEF CoachInv
<1>2. CASE cache' # cache
  <2>1. Kept(v)
    BY <1>2 DEF VisitMoves, Opened, Listed, Served, Missed, Written
  <2>2. /\ visit[v].pc = "keep" /\ cache'.from = visit[v].from
        /\ cache'.stamp = CoachCacheStamp(visit[v].rows, visit[v].narratives)
    BY <1>2, <2>1 DEF Kept
  <2>3. cache'.from = Source(v) /\ v \in HaveRead
    BY <2>2 DEF CoachInv, ProseFits, HaveRead
  <2>4. PICK h, n : h = visit[v].rows /\ n = visit[v].narratives
    OBVIOUS
  <2>5. StampTells(CoachCacheStamp(h, n), [rows |-> Ids(h), narratives |-> n])
    <3>1. RowsFit(h)
      BY <2>3, <2>4 DEF CoachInv
    <3> QED
      BY <3>1, StampIsOfSource
  <2> QED
    BY <2>2, <2>3, <2>4, <2>5 DEF Source
<1> QED
  BY <1>1, <1>2

LEMMA CoachInvInit == Init => CoachInv
<1> SUFFICES ASSUME Init PROVE CoachInv
  OBVIOUS
<1>1. \A v \in Visit : visit[v] = Idle
  BY DEF Init
<1>2. HaveRead = {} /\ Reads = {}
  BY <1>1 DEF Init, HaveRead, Reads, Idle
<1>3. \A v \in Visit : ProseFits(v)
  BY <1>1 DEF ProseFits, Idle
<1>4. RowsFit(history) /\ Watched.id \notin Ids(history)
  BY PastAssumption DEF Init, RowsFit
<1> QED
  BY <1>2, <1>3, <1>4 DEF CoachInv, ReadsFit, OneStory, Init

LEMMA CoachInvStays ==
  ASSUME Typed, CoachInv, [Next]_vars
  PROVE  CoachInv'
<1>0. RowsFit(history') /\ (~carded' => Watched.id \notin Ids(history'))
  BY HistoryMoves DEF Typed, CoachInv
<1>1. CASE UNCHANGED visit /\ (UNCHANGED cache \/ EraseAccount)
  <2>1. HaveRead' = HaveRead /\ \A v : Source(v)' = Source(v)
    BY <1>1 DEF HaveRead, Source
  <2>2. cache' = cache \/ cache' = Nothing
    BY <1>1 DEF EraseAccount
  <2>3. Reads' \subseteq Reads
    BY <2>1, <2>2 DEF Reads
  <2>4. ReadsFit' /\ OneStory'
    BY <2>3, ReadsStayWhileHistoryMoves DEF Typed, CoachInv
  <2>5. \A v \in HaveRead' : RowsFit(visit'[v].rows)
    BY <1>1, <2>1 DEF CoachInv
  <2>6. \A v \in Visit : ProseFits(v)'
    BY <1>1, <2>1 DEF CoachInv, ProseFits
  <2>7. cache' # Nothing => StampTells(cache'.stamp, cache'.from)
    BY <2>2 DEF CoachInv
  <2> QED
    BY <1>0, <2>4, <2>5, <2>6, <2>7 DEF CoachInv
<1>2. ASSUME NEW v \in Visit, VisitMoves(v), \A w \in Visit : w # v => visit'[w] = visit[w],
             UNCHANGED <<history, narrated, carded>>
      PROVE  CoachInv'
  <2>1. /\ Reads' \subseteq Reads \cup {Now}
        /\ \A w \in HaveRead' : visit'[w].rows = history
                                \/ (w \in HaveRead /\ visit'[w].rows = visit[w].rows)
    BY <1>2, ReadsComeFromNow DEF CoachInv
  <2>2. ReadsFit' /\ OneStory'
    BY <1>2, <2>1, ReadsStayFit DEF Typed, CoachInv
  <2>3. \A w \in HaveRead' : RowsFit(visit'[w].rows)
    BY <2>1 DEF CoachInv
  <2>4. \A w \in Visit : ProseFits(w)'
    BY <1>2, ProseStaysFit
  <2>5. cache' # Nothing => StampTells(cache'.stamp, cache'.from)
    BY <1>2, StampStaysTrue
  <2> QED
    BY <1>0, <2>2, <2>3, <2>4, <2>5 DEF CoachInv
<1> QED
  BY <1>1, <1>2, WhoseVisit DEF Typed

-----------------------------------------------------------------------------
(* The theorems.                                                           *)

LEMMA TypesAndReads == Spec => [](Typed /\ CoachInv)
<1>1. Init => Typed /\ CoachInv
  BY TypesInit, CoachInvInit
<1>2. Typed /\ CoachInv /\ [Next]_vars => (Typed /\ CoachInv)'
  <2> SUFFICES ASSUME Typed, CoachInv, [Next]_vars
               PROVE  Typed' /\ CoachInv'
    OBVIOUS
  <2>1. Pipeline!TypeOK'
    BY StepsOfScoring, RoundTypes DEF Typed, TypeOK
  <2>2. narrated' \subseteq Ids(history')
    BY HistoryMoves DEF Typed, CoachInv
  <2>3. LoadsAreKept' /\ VisitsAreKept'
    BY LoadSteps, WhoseVisit DEF Typed
  <2>4. TypeOK'
    BY <2>1, <2>2, CountersStayTyped, ScreenStaysTyped, LoadsStayTyped, VisitsStayTyped
       DEF Typed, TypeOK
  <2> QED
    BY <2>3, <2>4, CoachInvStays DEF Typed
<1> QED
  BY <1>1, <1>2, PTL DEF Spec

\* What the pages and the Coach keep stays what it is, through polls out of turn,
\* lagging replicas, rows that expire, failures and the erasure; every narrative
\* belongs to a row that is still there.
THEOREM TypeCorrect == Spec => []TypeOK
<1>1. Typed => TypeOK
  BY DEF Typed
<1> QED
  BY <1>1, TypesAndReads, PTL

\* Beneath the pages the round is scored as Scoring promises: whatever a reader is
\* shown was read from items that only Scoring's steps write.
THEOREM RunsScoring == Spec => Pipeline!Spec
<1>1. Init => Pipeline!Init
  BY DEF Init
<1>2. [Next]_vars => [Pipeline!Next]_(Pipeline!vars)
  BY StepsOfScoring
<1> QED
  BY <1>1, <1>2, PTL DEF Spec, Pipeline!Spec

\* What the results page shows adds up: whatever its reads saw of a moving round
\* and of replicas behind it, the progress never passes the total, and a page that
\* stopped asking shows every answer scored or withheld and, unless all are
\* withheld, averages (loadSessionEvaluations and isEvaluationFinished).
THEOREM PageAddsUpAlways == Spec => []ResultsAddUp
<1>1. Init => PageAddsUp
  <2> SUFFICES ASSUME Init PROVE PageAddsUp
    OBVIOUS
  <2>1. result = {} /\ published = FALSE /\ page.status = "loading" /\ \A l \in Load : load[l] = Nothing
    BY DEF Init, Pipeline!Init
  <2>2. old.scored = {} /\ old.summary = Nothing
    BY DEF Init, Pipeline!Init, Current, Summary
  <2> QED
    BY <2>1, <2>2 DEF PageAddsUp, RoundIsSound, ReplicaFits, LoadsFit, ResultsAddUp,
                      FinishedShowsEverything, ProgressNeverOverruns
<1>2. Typed /\ PageAddsUp /\ [Next]_vars => PageAddsUp'
  BY RoundStaysSound, ReplicaStaysFit, LoadsStayFit, PageStaysRight DEF Typed, TypeOK, PageAddsUp
<1>3. PageAddsUp => ResultsAddUp
  BY DEF PageAddsUp
<1> QED
  BY <1>1, <1>2, <1>3, TypesAndReads, PTL DEF Spec

\* The Coach's advice is about the rows and the narratives it is served with: what
\* coachCacheStamp counts is enough to tell one state of a history from another,
\* while a row comes, narratives are attached, rows expire and requests overlap.
THEOREM AdviceHolds == Spec => []AdviceIsCurrent
<1>1. CoachInv => AdviceIsCurrent
  BY DEF CoachInv, ProseFits, AdviceIsCurrent
<1> QED
  BY <1>1, TypesAndReads, PTL

=============================================================================
