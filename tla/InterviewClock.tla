--------------------------- MODULE InterviewClock ---------------------------
(***************************************************************************)
(* How long an interview runs, when the interviewer is nudged, and what it *)
(* is told of the time: in whole minutes, rounded, while the timers run in *)
(* the unit of the clock, which is the second here.                        *)
(***************************************************************************)
EXTENDS Integers

CONSTANTS
  TestMode,            \* interviewTestMode
  TestTargetMinutes,   \* interviewTestTargetMinutes
  WrapUpBefore, FinalCallBefore, HardStopGrace,
  WrapUpAtRemainingMin

ASSUME ClockAssumption ==
  /\ TestMode \in BOOLEAN /\ TestTargetMinutes \in Nat \ {0}
  /\ {WrapUpBefore, FinalCallBefore, HardStopGrace, WrapUpAtRemainingMin} \subseteq Nat

Larger(a, b) == IF a > b THEN a ELSE b
Ceil(a, b) == (a + b - 1) \div b

EffectiveTargetMinutes(planned) == IF TestMode THEN TestTargetMinutes ELSE planned

\* An eighth and a twentieth of the interview remain when a test is nudged.
NudgeSchedule(target) ==
  LET length == target * 60 IN
    [wrapUp    |-> Larger(0, length - (IF TestMode THEN length \div 8 ELSE WrapUpBefore)),
     finalCall |-> Larger(0, length - (IF TestMode THEN length \div 20 ELSE FinalCallBefore)),
     timeUp    |-> length,
     hardStop  |-> length + HardStopGrace]

\* The wrap-up in whole minutes, as the prompt states it.
WrapUpAtRemainingMinutes(target) ==
  IF TestMode THEN Larger(1, Ceil(target, 8)) ELSE WrapUpAtRemainingMin

Phase == {"core", "wrap_up", "closing"}

InterviewPhase(elapsed, target) ==
  IF elapsed >= NudgeSchedule(target).finalCall THEN "closing"
  ELSE IF elapsed >= NudgeSchedule(target).wrapUp THEN "wrap_up" ELSE "core"

\* The clock the interviewer is handed: elapsed rounded down, remaining up.
ClockOf(elapsed, target) ==
  [elapsedMinutes   |-> elapsed \div 60,
   remainingMinutes |-> Larger(0, Ceil(target * 60 - elapsed, 60))]

\* The time section of a renewed stream's prompt: the phase is computed from the
\* whole minutes elapsed, the closing window from the whole minutes remaining.
RenderClock(elapsed, target) ==
  LET clock == ClockOf(elapsed, target) IN
    [phase   |-> InterviewPhase(clock.elapsedMinutes * 60, target),
     closing |-> clock.remainingMinutes <= WrapUpAtRemainingMinutes(target)]

\* The name a stream reads and the nudges it receives cannot disagree about the
\* phase, nor the two halves of its prompt (mockInterview.ts:65-67).
PhasesAgree(elapsed, target) ==
  LET told == RenderClock(elapsed, target) IN
    /\ told.phase = InterviewPhase(elapsed, target)
    /\ told.closing <=> told.phase # "core"
=============================================================================
