------------------------------ MODULE RateLimit ------------------------------
(***************************************************************************)
(* The shared counter of lib/rateLimit.ts, kept in DynamoDB: one item per  *)
(* caller, which resets itself when the window moves.  A request reads its *)
(* server's clock once and then adds to the item of that window, or rolls  *)
(* the item to it, each a conditional write of its own; requests of one    *)
(* caller run at once on several servers.  One caller is modelled.  The    *)
(* erasure of the caller's account deletes the item (lib/profile.ts).      *)
(***************************************************************************)
EXTENDS Naturals, FiniteSets

CONSTANTS
  Hit,        \* the requests of the caller
  Limit,      \* config.rateLimitMaxRequests
  LastWindow, \* bound on the windows
  MaxErrors,  \* bound on failed and repeated writes
  MaxDeleted  \* bound on the erasures that delete the item

ASSUME LimitAssumption ==
  IsFiniteSet(Hit) /\ {Limit, LastWindow} \subseteq Nat \ {0}
  /\ {MaxErrors, MaxDeleted} \subseteq Nat

VARIABLES
  window,  \* the window the clock is in
  counter, \* the item: its windowStart and hits, window 0 if there is none
  hit,     \* each request: its next write, the window it read, the round it is in
  errors,
  \* history: how often an erasure deleted the item; what became of the requests
  \* of each window; was the item ever rolled back to a window that is over
  deleted, tally, turnedBack

limiterVars == <<window, counter, hit, errors, deleted, tally, turnedBack>>

Windows == 1..LastWindow
Rounds == 3 \* attempts of increment

LimiterTypeOK ==
  /\ window \in Windows
  /\ counter \in [start : Windows \cup {0}, hits : Nat]
  /\ hit \in [Hit -> [pc : {"idle", "add", "roll", "done"}, start : Windows \cup {0},
                      round : 1..Rounds]]
  /\ errors \in 0..MaxErrors /\ deleted \in 0..MaxDeleted
  /\ tally \in [Windows -> [asked : Nat, passed : Nat, waved : Nat, refused : Nat]]
  /\ turnedBack \in BOOLEAN

NoCounter == [start |-> 0, hits |-> 0]
NoHit == [pc |-> "idle", start |-> 0, round |-> 1]
NoTally == [asked |-> 0, passed |-> 0, waved |-> 0, refused |-> 0]

LimiterInit ==
  /\ window = 1 /\ counter = NoCounter
  /\ hit = [h \in Hit |-> NoHit]
  /\ errors = 0 /\ deleted = 0 /\ tally = [w \in Windows |-> NoTally] /\ turnedBack = FALSE

-----------------------------------------------------------------------------
Finish(h) == hit' = [hit EXCEPT ![h].pc = "done"]

\* The middleware's verdict on totalHits: at the limit still passes.
Judge(h, totalHits) ==
  tally' = IF totalHits <= Limit THEN [tally EXCEPT ![hit[h].start].passed = @ + 1]
                                 ELSE [tally EXCEPT ![hit[h].start].refused = @ + 1]

\* passOnStoreError: without an answer from the store the request goes through.
WaveThrough(h) == tally' = [tally EXCEPT ![hit[h].start].waved = @ + 1]

OneMore == [counter EXCEPT !.hits = @ + 1]
FirstHit(h) == [start |-> hit[h].start, hits |-> 1]
TurnsBack(h) == turnedBack' = (turnedBack \/ hit[h].start < counter.start)

\* increment reads the clock, once for all its attempts.
ReadClock(h) ==
  /\ hit[h].pc = "idle"
  /\ hit' = [hit EXCEPT ![h] = [pc |-> "add", start |-> window, round |-> 1]]
  /\ tally' = [tally EXCEPT ![window].asked = @ + 1]
  /\ UNCHANGED <<window, counter, errors, deleted, turnedBack>>

\* First write: one more, if the item is of this window.
AddHit(h) ==
  /\ hit[h].pc = "add"
  /\ IF counter.start = hit[h].start
       THEN counter' = OneMore /\ Judge(h, counter.hits + 1) /\ Finish(h)
       ELSE hit' = [hit EXCEPT ![h].pc = "roll"] /\ UNCHANGED <<counter, tally>>
  /\ UNCHANGED <<window, errors, deleted, turnedBack>>

\* Wrong on purpose: the second write starts the window whatever the item holds.
RollOver(h) ==
  /\ hit[h].pc = "roll"
  /\ counter' = FirstHit(h) /\ TurnsBack(h) /\ Judge(h, 1) /\ Finish(h)
  /\ UNCHANGED <<window, errors, deleted>>

\* What follows a refused second write: the first again, or giving up.
TryAgain(h) ==
  IF hit[h].round = Rounds THEN Finish(h) /\ WaveThrough(h)
  ELSE /\ hit' = [hit EXCEPT ![h].pc = "add", ![h].round = @ + 1]
       /\ UNCHANGED tally

\* Second write: the item is another window's, or there is none, and becomes
\* this one's; not an earlier one's, as the condition does not compare.
RollWindow(h) ==
  /\ hit[h].pc = "roll"
  /\ IF counter.start # hit[h].start
       THEN counter' = FirstHit(h) /\ TurnsBack(h) /\ Judge(h, 1) /\ Finish(h)
       ELSE TryAgain(h) /\ UNCHANGED <<counter, turnedBack>>
  /\ UNCHANGED <<window, errors, deleted>>

\* A write fails for good; it may have been applied.
StoreFails(h) ==
  /\ hit[h].pc \in {"add", "roll"} /\ errors < MaxErrors
  /\ errors' = errors + 1 /\ Finish(h) /\ WaveThrough(h)
  /\ \/ UNCHANGED <<counter, turnedBack>>
     \/ hit[h].pc = "add" /\ counter.start = hit[h].start
        /\ counter' = OneMore /\ UNCHANGED turnedBack
     \/ hit[h].pc = "roll" /\ counter.start # hit[h].start
        /\ counter' = FirstHit(h) /\ TurnsBack(h)
  /\ UNCHANGED <<window, deleted>>

\* The SDK repeats a write that was applied and whose response is lost: an add
\* counts again, a roll is refused by its own condition.
Repeats(h) ==
  /\ errors < MaxErrors /\ errors' = errors + 1
  /\ \/ /\ hit[h].pc = "add" /\ counter.start = hit[h].start
        /\ counter' = [counter EXCEPT !.hits = @ + 2]
        /\ Judge(h, counter.hits + 2) /\ Finish(h) /\ UNCHANGED turnedBack
     \/ /\ hit[h].pc = "roll" /\ counter.start # hit[h].start
        /\ counter' = FirstHit(h) /\ TurnsBack(h) /\ TryAgain(h)
  /\ UNCHANGED <<window, deleted>>

WindowMoves ==
  /\ window < LastWindow /\ window' = window + 1
  /\ UNCHANGED <<counter, hit, errors, deleted, tally, turnedBack>>

\* deleteProfileItems: an erasure, which is a request of the caller that was let
\* through, deletes the item; requests may be between their two writes.
DeleteCounter ==
  /\ deleted < MaxDeleted /\ \E w \in Windows : tally[w].passed + tally[w].waved > 0
  /\ counter' = NoCounter /\ deleted' = deleted + 1
  /\ UNCHANGED <<window, hit, errors, tally, turnedBack>>

LimiterNext ==
  \/ \E h \in Hit : ReadClock(h) \/ AddHit(h) \/ RollWindow(h) \/ StoreFails(h) \/ Repeats(h)
  \/ WindowMoves \/ DeleteCounter

LimiterSpec == LimiterInit /\ [][LimiterNext]_limiterVars

-----------------------------------------------------------------------------
\* However many servers ask at once, and whatever fails, no more requests of a
\* window get past the counter than the limit, and as many again for each erasure
\* that deletes it (profile.ts:332), those apart that went through without it,
\* until a request that was delayed across the boundary turns the counter back to
\* its own window (rateLimitStore.ts:90).
CapPerWindow ==
  ~turnedBack => \A w \in Windows : tally[w].passed <= Limit * deleted + Limit

\* Nobody is refused who is among the first so many of the window, unless a
\* write is counted twice.
NobodyRefusedEarly ==
  errors = 0 => \A w \in Windows : tally[w].refused > 0 => tally[w].asked > Limit

\* The limit is the limit, from both sides.
LimitIsExact == CapPerWindow /\ NobodyRefusedEarly
=============================================================================
