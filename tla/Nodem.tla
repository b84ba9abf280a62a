-------------------------------- MODULE Nodem --------------------------------
(***************************************************************************)
(* nodem_task's frames (src/nodem.rs): the status popup, the pkg that is   *)
(* loaded again, the VM that a VmClock holds (src/int_time.rs), and the    *)
(* changes counted for "#stat" (src/global.rs).  A frame is one action:    *)
(* the task borrows Global for the whole of it and awaits only its timer.  *)
(* The other tasks change the status, upload and send commands in between. *)
(*                                                                         *)
(* An Instant is its distance from now: Elapse moves all of them, and lets *)
(* one that is long past stay where it makes no difference any more.       *)
(***************************************************************************)
EXTENDS Integers

CONSTANTS
  None,               \* Option::None
  HIDE_REPORT_AFTER,  \* in units of time, as all of these
  Intervals,          \* what a program waits for, or sets as its tick
  Period,             \* the interval whose regularity is checked
  MaxEvents,          \* u32::MAX, for stat_events
  Generations,        \* one more than u32::MAX, for pkg_generation
  MaxChanges          \* bound on what the other tasks do

ASSUME TimeAssumption ==
  /\ HIDE_REPORT_AFTER \in Nat \ {0}
  /\ Intervals \subseteq Nat /\ Period \in Intervals \ {0}
  /\ \E i \in Intervals : \A j \in Intervals : j <= i
ASSUME CounterAssumption ==
  MaxEvents \in Nat \ {0} /\ Generations \in Nat \ {0, 1} /\ MaxChanges \in Nat
ASSUME NoneAssumption == None \notin Int /\ None \notin BOOLEAN \X BOOLEAN \X BOOLEAN

VARIABLES
  wifi, cloud,        \* whether either status says Connected
  rollback_pending,   \* SysStatus
  pkg_reload, pkg_generation,
  connected_since,    \* nodem_task's local, as the time since
  message,            \* status_message: what it says of wifi, cloud, rollback
  stat_events, last_stat_snapshot,
  vm,                 \* VirtMach: "none", "run" or "hlt"
  started,            \* cycle_cnt # 0
  clock,              \* VmClock
  reported, noticed,  \* what the last "#stat" said; whether a frame saw it
  trouble,            \* the time since a frame saw a connection down
  asked,              \* what the program asked the clock for
  ran,                \* whether the VM ran in the last frame
  changes             \* bound

status == <<wifi, cloud, rollback_pending>>
stat == <<stat_events, last_stat_snapshot, reported, noticed>>
popup == <<connected_since, message, trouble>>
machine == <<vm, started, clock, asked, ran>>
vars == <<status, pkg_reload, pkg_generation, popup, stat, machine, changes>>

-----------------------------------------------------------------------------
Longest == CHOOSE i \in Intervals : \A j \in Intervals : j <= i

(* From here on how long something is past makes no difference. *)
Oldest == -(2 * Longest)

VmClock == [deadline : 0..Longest \cup {None}, last : Oldest..Longest, tick : {0} \cup Intervals]

(* due is when a stopped program asked to go on; until, whether it did so  *)
(* with wait_until; regular, whether it only ever asked for Period since   *)
(* its start, or since it last was too late for a wait_until; phase, the   *)
(* time since then, modulo Period.                                         *)
Asked ==
  [due : 0..Longest \cup {None}, until : BOOLEAN, tick : {0} \cup Intervals,
   regular : BOOLEAN, phase : 0..(Period - 1)]

StatSnapshot ==
  [wifi : BOOLEAN, cloud : BOOLEAN, rollback_pending : BOOLEAN, pkg_generation : 0..(Generations - 1)]

(* The variables hold values of their Rust types. *)
TypeOK ==
  /\ wifi \in BOOLEAN /\ cloud \in BOOLEAN /\ rollback_pending \in BOOLEAN
  /\ pkg_reload \in BOOLEAN /\ pkg_generation \in 0..(Generations - 1)
  /\ connected_since \in 0..HIDE_REPORT_AFTER \cup {None}
  /\ message \in (BOOLEAN \X BOOLEAN \X BOOLEAN) \cup {None}
  /\ trouble \in 0..HIDE_REPORT_AFTER
  /\ stat_events \in 0..MaxEvents
  /\ last_stat_snapshot \in StatSnapshot \cup {None} /\ reported \in StatSnapshot \cup {None}
  /\ noticed \in BOOLEAN
  /\ vm \in {"none", "run", "hlt"} /\ started \in BOOLEAN /\ ran \in BOOLEAN
  /\ clock \in VmClock /\ asked \in Asked
  /\ changes \in 0..MaxChanges

-----------------------------------------------------------------------------
(* VmClock::restart, and new. *)
Restarted == [deadline |-> None, last |-> 0, tick |-> 0]
Unasked == [due |-> None, until |-> FALSE, tick |-> 0, regular |-> TRUE, phase |-> 0]

(* Mutant of StartTick: a wait is cut short by the tick. *)
StartTickAnyway(c) == IF c.tick # 0 THEN [c EXCEPT !.deadline = c.tick] ELSE c

(* VmClock::start_tick. *)
StartTick(c) ==
  IF c.deadline = None /\ c.tick # 0 THEN [c EXCEPT !.deadline = c.tick] ELSE c

(* VmClock::hold: what it answers, and what it leaves of the deadline. *)
Holds(c) == c.deadline # None /\ c.deadline > 0
Passed(c) == IF Holds(c) THEN c ELSE [c EXCEPT !.deadline = None]

(* Mutant of WaitUntil: the next interval counts from now. *)
WaitUntilFromNow(c, i) ==
  IF c.last + i > 0 THEN [c EXCEPT !.deadline = c.last + i, !.last = 0] ELSE [c EXCEPT !.last = 0]

(* Mutant of WaitUntil: one that is late catches up. *)
WaitUntilCatchUp(c, i) ==
  IF c.last + i > 0 THEN [c EXCEPT !.deadline = c.last + i, !.last = c.last + i]
                    ELSE [c EXCEPT !.last = c.last + i]

(* The time interrupt: wait_for, wait_until, in time or late, set_tick. *)
WaitFor(c, i) == [c EXCEPT !.deadline = i]
WaitUntil(c, i) ==
  IF c.last + i > 0 THEN [c EXCEPT !.deadline = c.last + i, !.last = c.last + i]
                    ELSE [c EXCEPT !.last = 0]
SetTick(c, i) == [c EXCEPT !.tick = i]

-----------------------------------------------------------------------------
(* What a program can do in a frame: it may set its tick, or be late for a *)
(* wait_until, and goes on; then it waits, halts, uses up its cycles, or   *)
(* ends.  c and a are the clock and what was asked of it.                  *)
Result(v, c, a) == [vm |-> v, clock |-> c, asked |-> a]

Begun(c, a) ==
  {<<c, a>>}
    \cup {<<SetTick(c, i), [a EXCEPT !.tick = i]>> : i \in Intervals}
    \cup {<<WaitUntil(c, i), [a EXCEPT !.regular = TRUE, !.phase = 0]>> : i \in {j \in Intervals : c.last + j <= 0}}

Ending(c, a) ==
  {Result("run", c, [a EXCEPT !.due = None, !.until = FALSE]), Result("none", c, [Unasked EXCEPT !.regular = FALSE])}
    \cup {Result("hlt", c, [a EXCEPT !.due = a.tick, !.until = FALSE])}
    \cup {Result("hlt", WaitFor(c, i), [a EXCEPT !.due = i, !.until = FALSE]) : i \in Intervals}
    \cup {Result("hlt", WaitUntil(c, i),
                 [a EXCEPT !.due = c.last + i, !.until = TRUE, !.regular = a.regular /\ i = Period]) :
            i \in {j \in Intervals : c.last + j > 0}}

Runs(c, a) == UNION {Ending(b[1], b[2]) : b \in Begun(c, a)}

(* Mutant of Clocked: a new program is held as the old one was. *)
NotRestarted(s) == clock

(* A program that has not run yet counts from this frame on. *)
Clocked(s) == IF s THEN clock ELSE Restarted

(* The VM's part of a frame, from a VM in state v.  A held one is parked   *)
(* in Err while the runtime runs, and paused again after it.               *)
Machine(v, s) ==
  LET c == Clocked(s)
      a == IF s THEN asked ELSE Unasked
      held == v = "hlt" /\ Holds(c)
      d == IF v = "hlt" THEN Passed(c) ELSE c
  IN  IF held \/ v = "none"
        THEN vm' = v /\ started' = s /\ clock' = d /\ asked' = a /\ ran' = FALSE
        ELSE \E r \in Runs(d, a) :
               /\ vm' = r.vm /\ started' = TRUE /\ asked' = r.asked /\ ran' = TRUE
               /\ clock' = (IF r.vm = "hlt" THEN StartTick(r.clock) ELSE r.clock)

(* load_pkg_partition: without a pkg the VM is reset; with one, what the   *)
(* page of it runs may be new.                                             *)
Loaded ==
  IF pkg_reload
    THEN /\ pkg_generation' = (pkg_generation + 1) % Generations
         /\ Machine(vm, started) \/ Machine("none", FALSE) \/ Machine("run", FALSE)
    ELSE UNCHANGED pkg_generation /\ Machine(vm, started)

(* Mutant of Since: a streak survives a drop. *)
SinceEver ==
  IF connected_since # None THEN connected_since ELSE IF wifi /\ cloud THEN 0 ELSE None

(* Mutant of Since: every frame starts a new streak. *)
SinceNow == IF wifi /\ cloud THEN 0 ELSE None

(* connected_since, as this frame leaves it. *)
Since == IF ~(wifi /\ cloud) THEN None ELSE IF connected_since = None THEN 0 ELSE connected_since

ShowReport == rollback_pending \/ Since = None \/ Since < HIDE_REPORT_AFTER

Popup ==
  /\ connected_since' = Since
  /\ message' = (IF ShowReport THEN status ELSE None)
  /\ trouble' = (IF wifi /\ cloud THEN trouble ELSE 0)

(* Mutant of Counted: the counter wraps around. *)
CountedWrapping == (stat_events + 1) % (MaxEvents + 1)
Counted == IF stat_events < MaxEvents THEN stat_events + 1 ELSE stat_events

Snapshot(generation) ==
  [wifi |-> wifi, cloud |-> cloud, rollback_pending |-> rollback_pending, pkg_generation |-> generation]

(* Global::track_stat_events, at the end of the frame. *)
TrackStatEvents(s) ==
  /\ IF last_stat_snapshot # s
       THEN stat_events' = Counted /\ last_stat_snapshot' = s
       ELSE UNCHANGED <<stat_events, last_stat_snapshot>>
  /\ noticed' = (noticed \/ s = reported)
  /\ UNCHANGED reported

(* One lap of nodem_task. *)
Frame ==
  /\ pkg_reload' = FALSE
  /\ Popup
  /\ Loaded
  /\ TrackStatEvents(Snapshot(pkg_generation'))
  /\ UNCHANGED <<status, changes>>

-----------------------------------------------------------------------------
Changed == changes < MaxChanges /\ changes' = changes + 1

(* What the Wi-Fi and cloud tasks, and the heartbeat that confirms an      *)
(* update, did since.                                                      *)
StatusChange ==
  /\ Changed
  /\ wifi' \in BOOLEAN /\ cloud' \in BOOLEAN /\ rollback_pending' \in {rollback_pending, FALSE}
  /\ UNCHANGED <<pkg_reload, pkg_generation, popup, stat, machine>>

(* A "pkg" upload was written, or "#factory" erased it. *)
PkgUpdated ==
  /\ Changed /\ pkg_reload' = TRUE
  /\ UNCHANGED <<status, pkg_generation, popup, stat, machine>>

(* "#stat" reports the state as it is now, and resets the count. *)
StatCommand ==
  /\ stat_events' = 0
  /\ reported' = Snapshot(pkg_generation) /\ noticed' = (last_stat_snapshot = reported')
  /\ UNCHANGED <<status, pkg_reload, pkg_generation, popup, last_stat_snapshot, machine, changes>>

(* A command has another page shown: its program, if any, is started.      *)
SwitchProgram ==
  /\ Changed
  /\ vm' \in {"none", "run"} /\ started' = FALSE /\ asked' = Unasked
  /\ UNCHANGED <<status, pkg_reload, pkg_generation, popup, stat, clock, ran>>

Earlier(t, floor) == IF t > floor THEN t - 1 ELSE t
Older(t) == IF t \in 0..(HIDE_REPORT_AFTER - 1) THEN t + 1 ELSE t
Nearer(t) == IF t = None THEN None ELSE Earlier(t, 0)

(* Time passes. *)
Elapse ==
  /\ connected_since' = Older(connected_since) /\ trouble' = Older(trouble)
  /\ clock' = [clock EXCEPT !.deadline = Nearer(@), !.last = Earlier(@, Oldest)]
  /\ asked' = [asked EXCEPT !.due = Nearer(@), !.phase = IF asked.regular THEN (@ + 1) % Period ELSE 0]
  /\ UNCHANGED <<status, pkg_reload, pkg_generation, message, stat, vm, started, ran, changes>>

Init ==
  /\ wifi = FALSE /\ cloud = FALSE /\ rollback_pending \in BOOLEAN
  /\ pkg_reload = FALSE /\ pkg_generation = 1
  /\ connected_since = None /\ message = None /\ trouble = 0
  /\ stat_events = 0 /\ last_stat_snapshot = None /\ reported = None /\ noticed = FALSE
  /\ vm \in {"none", "run"} /\ started = FALSE /\ clock = Restarted /\ asked = Unasked
  /\ ran = FALSE /\ changes = 0

Next == Frame \/ StatusChange \/ PkgUpdated \/ StatCommand \/ SwitchProgram \/ Elapse

(* The executor polls nodem_task when its timer is up, and time goes on.   *)
Fairness == WF_vars(Frame) /\ WF_vars(Elapse)

Spec == Init /\ [][Next]_vars
FairSpec == Spec /\ Fairness

-----------------------------------------------------------------------------
(* When what the last "#stat" reported, and a frame saw, is no longer what *)
(* the frames see, the next ping says so, however many changes went by     *)
(* (global.rs:402-413).                                                    *)
ChangeReported ==
  (noticed /\ last_stat_snapshot # reported) => stat_events > 0

(* The popup is gone only while both connections are up, were up in every  *)
(* frame of the last seconds, and the update is confirmed; a drop brings   *)
(* it back with the next frame (nodem.rs:164-169).                         *)
HiddenWhenUp ==
  [][(message' = None /\ Frame) => (wifi /\ cloud /\ ~rollback_pending /\ trouble >= HIDE_REPORT_AFTER)]_vars

(* And it does go, once they stay up. *)
EventuallyHidden ==
  <>[](wifi /\ cloud /\ ~rollback_pending) => <>[](message = None)

(* A frame runs a stopped program if and only if its own wait or tick is   *)
(* over: never early, never held by what an earlier program left behind    *)
(* (int_time.rs:46-71).                                                    *)
HeldExactly ==
  [][(asked.due # None /\ ~pkg_reload /\ Frame) => (ran' <=> asked.due = 0)]_vars

(* A program that calls wait_until with the same interval wakes at         *)
(* multiples of it, though every frame comes late, counted from its start  *)
(* or from the last call that came too late: it does not drift, and having *)
(* fallen behind it does not catch up in a burst (int_time.rs:13-15, 119). *)
PeriodKept ==
  (started /\ asked.regular) =>
    /\ clock.last > Oldest => (asked.phase + clock.last) % Period = 0
    /\ (vm = "hlt" /\ asked.until /\ clock.deadline \in 1..Longest) => (asked.phase + clock.deadline) % Period = 0
=============================================================================
