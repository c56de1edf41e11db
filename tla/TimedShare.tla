----------------------------- MODULE TimedShare -----------------------------
(***************************************************************************)
(* The share adjusters that go by the clock: DelayStartShareAdjuster       *)
(* (share/adjusters/delay.py) and RampingShareAdjuster (ramp.py), with the *)
(* updater that renders their share when an update is signaled.            *)
(*                                                                         *)
(* The share follows the wall clock, which may be set back; the timers of  *)
(* spawn_later count the time that really passes.  A tick is the least     *)
(* difference between two readings of a clock, so a timer that is set      *)
(* after the wall clock was read fires at least one tick later.            *)
(***************************************************************************)
EXTENDS Naturals

CONSTANTS
  Kinds,        \* which adjusters are looked at
  Seconds,      \* seconds of the delay
  RampDelay,    \* ramp_delay
  RampSeconds,  \* ramp_seconds
  Frequency,    \* update_frequency
  StartedAt,    \* what the wall clock says when the adjuster is started
  MaxSetBacks   \* bound: how often the clock is set back

ASSUME TimedShareAssumption ==
  /\ Kinds \subseteq {"delay", "ramp"}
  /\ {Seconds, RampDelay, RampSeconds, Frequency, StartedAt, MaxSetBacks} \subseteq Nat

VARIABLES
  kind,        \* the adjuster configured
  wall,        \* datetime.now()
  timer,       \* ticks until _update is called
  nextUpdate,  \* whether another _update is to come
  removed,     \* stop was called by the manager, for an endpoint that was removed
  signaled,    \* ProxyUpdater._needs_update
  shown,       \* the share last rendered
  setBacks,    \* how often the clock was set back
  misled       \* it was, when no signal was left to make up for it

timedVars == <<kind, wall, timer, nextUpdate, removed, signaled, shown, setBacks, misled>>

\* _start_time of the ramp, and the moment from which the share is full:
\* _activation_time of the delay, _end_time of the ramp.
StartTime == StartedAt + RampDelay
FullTime == IF kind = "delay" THEN StartedAt + Seconds ELSE StartTime + RampSeconds

\* Bound: all later times of the wall clock are alike.
Horizon == StartedAt + Seconds + RampDelay + RampSeconds + 1

\* A share is a number of 1/Whole.
Whole == IF kind = "ramp" /\ RampSeconds > 0 THEN RampSeconds ELSE 1

DelayShare == IF wall > FullTime THEN Whole ELSE 0

\* Mutant: the ramp begins with the part that is left, not with the part elapsed.
LinearDown ==
  IF StartTime >= wall THEN 0
  ELSE IF FullTime <= wall THEN Whole
  ELSE FullTime - wall

\* linear: the part of ramp_seconds that has elapsed.
Linear ==
  IF StartTime >= wall THEN 0
  ELSE IF FullTime <= wall THEN Whole
  ELSE wall - StartTime

\* auditable_share
AuditableShare == IF kind = "delay" THEN DelayShare ELSE Linear

\* spawn_later
Later(seconds) == seconds + 1

TimedTypeOK ==
  /\ kind \in Kinds
  /\ wall \in 0 .. Horizon
  /\ timer \in Nat
  /\ nextUpdate \in {"waiting", "ended"}
  /\ removed \in BOOLEAN /\ signaled \in BOOLEAN
  /\ shown \in 0 .. Whole
  /\ setBacks \in 0 .. MaxSetBacks
  /\ misled \in BOOLEAN

\* The adjuster is started by the ShareCalculator of an endpoint that was added,
\* which is signaled.
TimedInit ==
  /\ kind \in Kinds
  /\ wall = StartedAt
  /\ timer = Later(IF kind = "delay" THEN Seconds ELSE Frequency)
  /\ nextUpdate = "waiting" /\ removed = FALSE
  /\ signaled = TRUE /\ shown = 0
  /\ setBacks = 0 /\ misled = FALSE

-----------------------------------------------------------------------------
Tick ==
  /\ wall < Horizon \/ timer > 0
  /\ wall' = IF wall < Horizon THEN wall + 1 ELSE wall
  /\ timer' = IF timer > 0 THEN timer - 1 ELSE timer
  /\ UNCHANGED <<kind, nextUpdate, removed, signaled, shown, setBacks, misled>>

\* The clock is set back.  A ramp that goes on signals again when the end comes;
\* a delay has one signal, and the ramp's last one is the end of it.
SetBack(time) ==
  /\ time < wall /\ setBacks < MaxSetBacks /\ setBacks' = setBacks + 1
  /\ wall' = time
  /\ misled' = (misled \/ kind = "delay" \/ nextUpdate = "ended")
  /\ UNCHANGED <<kind, timer, nextUpdate, removed, signaled, shown>>

\* stop, when the endpoint is removed.
StopAdjuster ==
  /\ ~removed /\ removed' = TRUE
  /\ UNCHANGED <<kind, wall, timer, nextUpdate, signaled, shown, setBacks, misled>>

\* Mutant: the last signal of a ramp comes before its end.
LastSignalEarly == kind = "delay" \/ wall + Frequency >= FullTime

\* _update calls itself again unless the end has passed; a delay has one _update.
LastSignal == kind = "delay" \/ wall > FullTime

\* _update
Update ==
  /\ nextUpdate = "waiting" /\ timer = 0
  /\ signaled' = (signaled \/ ~removed)
  /\ IF removed \/ LastSignal THEN nextUpdate' = "ended" /\ UNCHANGED timer
                             ELSE timer' = Later(Frequency) /\ UNCHANGED nextUpdate
  /\ UNCHANGED <<kind, wall, removed, shown, setBacks, misled>>

\* Some other endpoint signals an update.
Signal ==
  /\ signaled' = TRUE
  /\ UNCHANGED <<kind, wall, timer, nextUpdate, removed, shown, setBacks, misled>>

\* The updater renders the share, as long as the endpoint has not been removed.
RenderShare ==
  /\ signaled /\ signaled' = FALSE
  /\ shown' = IF removed THEN shown ELSE AuditableShare
  /\ UNCHANGED <<kind, wall, timer, nextUpdate, removed, setBacks, misled>>

-----------------------------------------------------------------------------
TimedNext ==
  \/ Tick
  \/ \E time \in 0 .. Horizon : SetBack(time)
  \/ StopAdjuster
  \/ Update
  \/ Signal
  \/ RenderShare

TimedSpec == TimedInit /\ [][TimedNext]_timedVars

\* Time passes, timers fire and the updater runs.
TimedFairSpec == TimedSpec /\ WF_timedVars(Tick) /\ WF_timedVars(Update) /\ WF_timedVars(RenderShare)

-----------------------------------------------------------------------------
\* Unless the clock is set back, the rendered share of an endpoint never falls.
NeverFalls == [][setBacks = 0 => shown' >= shown]_timedVars

\* An endpoint that stays gets its whole share rendered in the end, and keeps it:
\* the last signal never comes before the share is full, however the ends of the
\* interval compare with the clock, and also if the clock was set back while a
\* ramp was under way.
FullInTheEnd == [](~removed /\ ~misled) => <>[](shown = Whole)
=============================================================================
