---------------------------- MODULE NodemProofs ----------------------------
(***************************************************************************)
(* The safety properties of Nodem, for every set of intervals, every       *)
(* period and every width of the counters.                                 *)
(***************************************************************************)
EXTENDS Nodem, TLAPS

LEMMA LongestType ==
  /\ Longest \in Nat /\ \A i \in Intervals : i \in Nat /\ i <= Longest
  /\ Oldest \in Int /\ Oldest <= -Longest
<1>1. Longest \in Nat /\ \A i \in Intervals : i \in Nat /\ i <= Longest
  BY TimeAssumption DEF Longest
<1> QED
  BY <1>1 DEF Oldest

(* A multiple of the period stays one when the period is added or taken    *)
(* away.                                                                   *)
LEMMA MultipleDivides ==
  ASSUME NEW p \in Nat \ {0}, NEW k \in Int
  PROVE  (k * p) % p = 0
OBVIOUS

LEMMA DividedIsMultiple ==
  ASSUME NEW p \in Nat \ {0}, NEW n \in Int, n % p = 0
  PROVE  n = (n \div p) * p /\ n \div p \in Int
OBVIOUS

LEMMA PeriodAdded ==
  ASSUME NEW n \in Int, n % Period = 0
  PROVE  (n + Period) % Period = 0 /\ (n - Period) % Period = 0
<1> DEFINE q == n \div Period
<1>1. Period \in Nat \ {0}
  BY TimeAssumption
<1>2. n = q * Period /\ q \in Int
  BY <1>1, DividedIsMultiple
<1>3. n + Period = (q + 1) * Period /\ n - Period = (q - 1) * Period
  BY <1>1, <1>2
<1> HIDE DEF q
<1>4. q + 1 \in Int /\ q - 1 \in Int
  BY <1>2
<1>5. ((q + 1) * Period) % Period = 0 /\ ((q - 1) * Period) % Period = 0
  BY <1>1, <1>4, MultipleDivides
<1> QED
  BY <1>3, <1>5

LEMMA ZeroIsMultiple == 0 % Period = 0
BY TimeAssumption, SMT

LEMMA PhaseStep ==
  ASSUME NEW n \in 0..(Period - 1)
  PROVE  (n + 1) % Period = (IF n + 1 = Period THEN 0 ELSE n + 1)
BY TimeAssumption, SMT
(***************************************************************************)
(* The VM and its clock.                                                   *)
(***************************************************************************)
(* A multiple of the period, as long as it is not too long past to tell.   *)
InPhase(c, a) == a.regular /\ c.last > Oldest => (a.phase + c.last) % Period = 0
WaitInPhase(c, a) ==
  (a.regular /\ a.until /\ c.deadline \in 1..Longest) => (a.phase + c.deadline) % Period = 0

(* The clock's deadline is what the stopped program asked for, and a       *)
(* wait_until that is still to come is the one the program waits in.       *)
Matching(c, a) ==
  /\ a.due # None
  /\ c.deadline = a.due \/ (c.deadline = None /\ a.due = 0)
  /\ c.last > 0 => c.deadline = c.last

MachineType == clock \in VmClock /\ asked \in Asked /\ vm \in {"none", "run", "hlt"} /\ started \in BOOLEAN /\ ran \in BOOLEAN

MachineInv ==
  /\ vm = "hlt" => started /\ Matching(clock, asked) /\ WaitInPhase(clock, asked)
  /\ asked.due # None => vm = "hlt"
  /\ (started /\ vm = "run") => clock.deadline = None
  /\ (started /\ vm # "none") => asked.tick = clock.tick
  /\ (started /\ vm # "hlt") => clock.last <= 0
  /\ started => InPhase(clock, asked)

(* A program goes on with a clock that holds nothing.                      *)
Going(c, a) ==
  /\ c \in VmClock /\ c.deadline = None /\ c.last <= 0
  /\ a \in Asked /\ a.tick = c.tick /\ InPhase(c, a)

LEMMA UnaskedType ==
  /\ Unasked \in Asked /\ Restarted \in VmClock
  /\ Unasked.due = None /\ Unasked.tick = 0 /\ ~Unasked.until /\ Unasked.phase = 0
  /\ Restarted.deadline = None /\ Restarted.last = 0 /\ Restarted.tick = 0
<1>1. 0 \in 0..(Period - 1) /\ 0 \in Oldest..Longest
  BY TimeAssumption, LongestType
<1> QED
  BY <1>1 DEF Unasked, Restarted, Asked, VmClock

LEMMA BeginKeeps ==
  ASSUME NEW c, NEW a, Going(c, a), NEW b \in Begun(c, a)
  PROVE  Going(b[1], b[2])
<1>1. CASE b = <<c, a>>
  BY <1>1
<1>2. ASSUME NEW i \in Intervals, b = <<SetTick(c, i), [a EXCEPT !.tick = i]>>
      PROVE  Going(b[1], b[2])
  BY <1>2 DEF Going, SetTick, VmClock, Asked, InPhase
<1>3. ASSUME NEW i \in Intervals, c.last + i <= 0,
             b = <<WaitUntil(c, i), [a EXCEPT !.regular = TRUE, !.phase = 0]>>
      PROVE  Going(b[1], b[2])
  <2>1. WaitUntil(c, i) = [c EXCEPT !.last = 0]
    BY <1>3, LongestType DEF WaitUntil, Going, VmClock
  <2>2. 0 \in Oldest..Longest
    BY LongestType
  <2>3. b[1] = [c EXCEPT !.last = 0] /\ b[2] = [a EXCEPT !.regular = TRUE, !.phase = 0]
    BY <1>3, <2>1
  <2>4. b[1] \in VmClock /\ b[1].deadline = None /\ b[1].last = 0 /\ b[1].tick = c.tick
    BY <2>2, <2>3 DEF Going, VmClock
  <2>5. b[2] \in Asked /\ b[2].tick = a.tick /\ b[2].phase = 0
    <3>1. 0 \in 0..(Period - 1) /\ TRUE \in BOOLEAN
      BY TimeAssumption
    <3>2. a \in Asked /\ a.tick = c.tick
      BY DEF Going
    <3>3. b[2] = [due |-> a.due, until |-> a.until, tick |-> a.tick, regular |-> TRUE, phase |-> 0]
      BY <2>3, <3>2 DEF Asked
    <3>4. a.due \in 0..Longest \cup {None} /\ a.until \in BOOLEAN /\ a.tick \in {0} \cup Intervals
      BY <3>2 DEF Asked
    <3>5. b[2] \in Asked
      BY <3>1, <3>3, <3>4 DEF Asked
    <3> QED
      BY <3>2, <3>3, <3>5
  <2> QED
    <3>1. InPhase(b[1], b[2])
      BY <2>4, <2>5, ZeroIsMultiple DEF InPhase
    <3> QED
      BY <1>3, <2>4, <2>5, <3>1 DEF Going
<1> QED
  BY <1>1, <1>2, <1>3 DEF Begun

(* What a program left behind, and the clock after start_tick.             *)
Left(r) == IF r.vm = "hlt" THEN StartTick(r.clock) ELSE r.clock

Stopped(r) ==
  /\ Left(r) \in VmClock /\ r.asked \in Asked
  /\ r.vm \in {"none", "run", "hlt"}
  /\ r.vm = "hlt" => Matching(Left(r), r.asked) /\ WaitInPhase(Left(r), r.asked)
  /\ r.vm # "hlt" => r.asked.due = None /\ Left(r).deadline = None /\ Left(r).last <= 0
  /\ r.vm # "none" => r.asked.tick = Left(r).tick
  /\ InPhase(Left(r), r.asked)

LEMMA EndStops ==
  ASSUME NEW c, NEW a, Going(c, a), NEW r \in Ending(c, a)
  PROVE  Stopped(r)
<1> USE DEF Result
<1>0. c \in VmClock /\ c.deadline = None /\ c.last \in Int /\ c.last <= 0 /\ a \in Asked /\ a.tick = c.tick
  BY LongestType DEF Going, VmClock
<1>1. CASE r = Result("run", c, [a EXCEPT !.due = None, !.until = FALSE])
  <2>1. r.vm = "run" /\ Left(r) = c /\ r.asked = [a EXCEPT !.due = None, !.until = FALSE]
    BY <1>1 DEF Left
  <2>2. /\ r.asked \in Asked /\ r.asked.due = None /\ r.asked.tick = a.tick
        /\ r.asked.phase = a.phase /\ r.asked.regular = a.regular
    BY <1>0, <2>1 DEF Asked
  <2> QED
    BY <1>0, <2>1, <2>2 DEF Stopped, Going, InPhase
<1>2. CASE r = Result("none", c, [Unasked EXCEPT !.regular = FALSE])
  <2>1. r.vm = "none" /\ Left(r) = c /\ r.asked = [Unasked EXCEPT !.regular = FALSE]
    BY <1>2 DEF Left
  <2>2. r.asked \in Asked /\ r.asked.due = None /\ ~r.asked.regular
    BY <2>1, UnaskedType DEF Asked
  <2> QED
    BY <1>0, <2>1, <2>2 DEF Stopped, InPhase
<1>3. CASE r = Result("hlt", c, [a EXCEPT !.due = a.tick, !.until = FALSE])
  <2>1. a.tick \in 0..Longest /\ a.tick # None
    BY <1>0, LongestType, NoneAssumption DEF Asked
  <2>2. r.vm = "hlt" /\ r.clock = c /\ r.asked = [a EXCEPT !.due = a.tick, !.until = FALSE]
    BY <1>3
  <2>3. /\ r.asked \in Asked /\ r.asked.due = a.tick /\ r.asked.tick = a.tick /\ ~r.asked.until
        /\ r.asked.phase = a.phase /\ r.asked.regular = a.regular
    BY <1>0, <2>1, <2>2 DEF Asked
  <2>4. Left(r) = IF c.tick # 0 THEN [c EXCEPT !.deadline = c.tick] ELSE c
    BY <1>0, <2>2 DEF Left, StartTick
  <2>5. /\ Left(r) \in VmClock /\ Left(r).last = c.last /\ Left(r).tick = c.tick
        /\ Left(r).deadline = (IF c.tick # 0 THEN c.tick ELSE None)
    BY <1>0, <2>1, <2>4 DEF VmClock
  <2>6. Matching(Left(r), r.asked) /\ WaitInPhase(Left(r), r.asked)
    BY <1>0, <2>1, <2>3, <2>5 DEF Matching, WaitInPhase
  <2>7. InPhase(Left(r), r.asked)
    BY <2>3, <2>5 DEF Going, InPhase
  <2> QED
    BY <1>0, <2>2, <2>3, <2>5, <2>6, <2>7 DEF Stopped
<1>4. ASSUME NEW i \in Intervals, r = Result("hlt", WaitFor(c, i), [a EXCEPT !.due = i, !.until = FALSE])
      PROVE  Stopped(r)
  <2>1. i \in 0..Longest /\ i # None
    BY LongestType, NoneAssumption
  <2>2. r.vm = "hlt" /\ r.clock = [c EXCEPT !.deadline = i] /\ r.asked = [a EXCEPT !.due = i, !.until = FALSE]
    BY <1>4 DEF WaitFor
  <2>3. /\ r.asked \in Asked /\ r.asked.due = i /\ r.asked.tick = a.tick /\ ~r.asked.until
        /\ r.asked.phase = a.phase /\ r.asked.regular = a.regular
    BY <1>0, <2>1, <2>2 DEF Asked
  <2>4. /\ r.clock \in VmClock /\ r.clock.deadline = i /\ r.clock.last = c.last /\ r.clock.tick = c.tick
    BY <1>0, <2>1, <2>2 DEF VmClock
  <2>5. Left(r) = r.clock
    BY <2>1, <2>2, <2>4 DEF Left, StartTick
  <2>6. Matching(Left(r), r.asked) /\ WaitInPhase(Left(r), r.asked)
    BY <1>0, <2>1, <2>3, <2>4, <2>5 DEF Matching, WaitInPhase
  <2>7. InPhase(Left(r), r.asked)
    BY <2>3, <2>4, <2>5 DEF Going, InPhase
  <2> QED
    BY <1>0, <2>2, <2>3, <2>4, <2>5, <2>6, <2>7 DEF Stopped
<1>5. ASSUME NEW i \in Intervals, c.last + i > 0,
             r = Result("hlt", WaitUntil(c, i),
                   [a EXCEPT !.due = c.last + i, !.until = TRUE, !.regular = a.regular /\ i = Period])
      PROVE  Stopped(r)
  <2> DEFINE d == c.last + i
  <2>1. d \in 1..Longest /\ d # None /\ d \in Oldest..Longest /\ d \in 0..Longest
    BY <1>0, <1>5, LongestType, NoneAssumption
  <2>2. WaitUntil(c, i) = [c EXCEPT !.deadline = d, !.last = d]
    BY <1>5 DEF WaitUntil
  <2>3. r.asked = [a EXCEPT !.due = d, !.until = TRUE, !.regular = a.regular /\ i = Period]
    BY <1>5
  <2>4. ASSUME a.regular, i = Period PROVE (a.phase + d) % Period = 0
    <3>1. c.last > Oldest
      BY <1>0, <1>5, LongestType
    <3>2. a.phase + c.last \in Int /\ (a.phase + c.last) % Period = 0
      BY <1>0, <2>4, <3>1, TimeAssumption DEF Going, InPhase, Asked
    <3>3. a.phase + d = (a.phase + c.last) + Period
      BY <1>0, <2>4, TimeAssumption DEF Asked
    <3> QED
      BY <3>2, <3>3, PeriodAdded
  <2> HIDE DEF d
  <2>5. /\ r.asked \in Asked /\ r.asked.due = d /\ r.asked.tick = a.tick
        /\ r.asked.phase = a.phase /\ r.asked.regular = (a.regular /\ i = Period)
    BY <1>0, <2>1, <2>3 DEF Asked
  <2>6. /\ r.clock \in VmClock /\ r.clock.deadline = d /\ r.clock.last = d /\ r.clock.tick = c.tick
    BY <1>0, <1>5, <2>1, <2>2 DEF VmClock
  <2>7. r.vm = "hlt" /\ Left(r) = r.clock
    BY <1>5, <2>1, <2>6 DEF Left, StartTick
  <2>8. Matching(Left(r), r.asked) /\ WaitInPhase(Left(r), r.asked) /\ InPhase(Left(r), r.asked)
    BY <2>1, <2>4, <2>5, <2>6, <2>7 DEF Matching, WaitInPhase, InPhase
  <2> QED
    BY <1>0, <2>1, <2>5, <2>6, <2>7, <2>8 DEF Stopped
<1> QED
  BY <1>1, <1>2, <1>3, <1>4, <1>5 DEF Ending

LEMMA RunStops ==
  ASSUME NEW c, NEW a, Going(c, a), NEW r \in Runs(c, a)
  PROVE  Stopped(r)
<1>1. PICK b \in Begun(c, a) : r \in Ending(b[1], b[2])
  BY DEF Runs
<1>2. Going(b[1], b[2])
  BY BeginKeeps
<1> QED
  BY <1>1, <1>2, EndStops
(* A frame of the VM, from the state a reload leaves it in.                *)
LEMMA MachineKeeps ==
  ASSUME MachineType, MachineInv, NEW v \in {"none", "run", "hlt"}, NEW s \in BOOLEAN,
         (v = vm /\ s = started) \/ (v # "hlt" /\ ~s),
         Machine(v, s)
  PROVE  MachineType' /\ MachineInv'
<1> DEFINE c == Clocked(s)
           a == IF s THEN asked ELSE Unasked
           held == v = "hlt" /\ Holds(c)
           d == IF v = "hlt" THEN Passed(c) ELSE c
<1>1. c \in VmClock /\ a \in Asked
  BY UnaskedType DEF MachineType, Clocked
<1>2. InPhase(c, a)
  BY UnaskedType, ZeroIsMultiple DEF MachineInv, Clocked, InPhase
<1>3. v = "hlt" => s /\ vm = "hlt" /\ started /\ c = clock /\ a = asked /\ Matching(c, a) /\ WaitInPhase(c, a)
  BY DEF MachineInv, Clocked
<1>4. v # "hlt" => c.last <= 0 /\ a.due = None
  BY UnaskedType DEF MachineInv, Clocked
<1>5. v = "run" => c.deadline = None /\ a.tick = c.tick
  BY UnaskedType DEF MachineInv, Clocked
<1>6. v = "hlt" => a.tick = c.tick
  BY <1>3 DEF MachineInv
<1>7. /\ d \in VmClock /\ d.last = c.last /\ d.tick = c.tick
      /\ held \/ v # "hlt" => d = c
      /\ v = "hlt" /\ ~held => d.deadline = None
  BY <1>1 DEF Passed, VmClock
<1>8. CASE held \/ v = "none"
  <2>1. vm' = v /\ started' = s /\ clock' = d /\ asked' = a /\ ran' = FALSE /\ d = c
    BY <1>7, <1>8 DEF Machine
  <2> HIDE DEF c, a, held, d
  <2>2. MachineType'
    BY <1>1, <2>1 DEF MachineType
  <2>3. MachineInv'
    BY <1>2, <1>3, <1>4, <1>5, <1>6, <1>8, <2>1 DEF MachineInv, held
  <2> QED
    BY <2>2, <2>3
<1>9. CASE ~held /\ v # "none"
  <2>1. PICK r \in Runs(d, a) :
          vm' = r.vm /\ started' = TRUE /\ asked' = r.asked /\ ran' = TRUE /\ clock' = Left(r)
    BY <1>9 DEF Machine, Left
  <2> HIDE DEF c, a, d
  <2>2. c.last <= 0
    <3>1. CASE v = "run"
      BY <1>4, <3>1
    <3>2. CASE v = "hlt"
      <4>1. c.deadline = None \/ ~(c.deadline > 0)
        BY <1>9, <3>2 DEF Holds
      <4>2. c.last \in Int /\ (c.last > 0 => c.deadline = c.last)
        BY <1>1, <1>3, <3>2, LongestType DEF Matching, VmClock
      <4> QED
        BY <4>1, <4>2, NoneAssumption
    <3> QED
      BY <1>9, <3>1, <3>2
  <2>3. Going(d, a)
    <3>1. d.deadline = None
      BY <1>5, <1>7, <1>9
    <3>2. InPhase(d, a)
      BY <1>2, <1>7 DEF InPhase
    <3> QED
      BY <1>1, <1>5, <1>6, <1>7, <1>9, <2>2, <3>1, <3>2 DEF Going
  <2>4. Stopped(r)
    BY <2>1, <2>3, RunStops
  <2>5. MachineType'
    BY <2>1, <2>4 DEF MachineType, Stopped
  <2>6. MachineInv'
    BY <2>1, <2>4 DEF MachineInv, Stopped
  <2> QED
    BY <2>5, <2>6
<1> QED
  BY <1>8, <1>9

LEMMA SwitchKeeps ==
  ASSUME MachineType, MachineInv, SwitchProgram
  PROVE  MachineType' /\ MachineInv'
BY UnaskedType DEF MachineType, MachineInv, SwitchProgram

LEMMA NearerSteps ==
  ASSUME NEW t \in 0..Longest \cup {None}
  PROVE  /\ Nearer(t) \in 0..Longest \cup {None}
         /\ t = None => Nearer(t) = None
         /\ t = 0 => Nearer(t) = 0
         /\ (t # None /\ t # 0) => t \in 1..Longest /\ Nearer(t) = t - 1 /\ Nearer(t) # None
<1>1. CASE t = None
  BY <1>1, NoneAssumption DEF Nearer
<1>2. CASE t # None
  <2>1. t \in 0..Longest /\ Nearer(t) = (IF t > 0 THEN t - 1 ELSE t)
    BY <1>2 DEF Nearer, Earlier
  <2> QED
    BY <1>2, <2>1, LongestType, NoneAssumption
<1> QED
  BY <1>1, <1>2

(* Time passes for the clock and for what was asked of it alike.           *)
LEMMA ElapseKeeps ==
  ASSUME MachineType, MachineInv, Elapse
  PROVE  MachineType' /\ MachineInv'
<1> DEFINE l == Earlier(clock.last, Oldest)
           p == IF asked.regular THEN (asked.phase + 1) % Period ELSE 0
<1>1. /\ clock.last \in Oldest..Longest /\ asked.phase \in 0..(Period - 1)
      /\ clock.deadline \in 0..Longest \cup {None} /\ asked.due \in 0..Longest \cup {None}
  BY DEF MachineType, VmClock, Asked
<1>2. /\ l \in Oldest..Longest /\ l = (IF clock.last > Oldest THEN clock.last - 1 ELSE clock.last)
      /\ l <= clock.last /\ clock.last \in Int /\ l \in Int
  BY <1>1, LongestType DEF Earlier
<1>3. p \in 0..(Period - 1)
  BY <1>1, TimeAssumption, PhaseStep
<1>4. Nearer(clock.deadline) \in 0..Longest \cup {None} /\ Nearer(asked.due) \in 0..Longest \cup {None}
  BY <1>1, NearerSteps
<1>5. /\ clock' = [clock EXCEPT !.deadline = Nearer(clock.deadline), !.last = l]
      /\ asked' = [asked EXCEPT !.due = Nearer(asked.due), !.phase = p]
      /\ UNCHANGED <<vm, started, ran>>
  BY DEF Elapse
<1> HIDE DEF l, p
<1>6. /\ clock' \in VmClock /\ clock'.deadline = Nearer(clock.deadline)
      /\ clock'.last = l /\ clock'.tick = clock.tick
  BY <1>1, <1>2, <1>4, <1>5 DEF MachineType, VmClock
<1>7. /\ asked' \in Asked /\ asked'.due = Nearer(asked.due) /\ asked'.phase = p
      /\ asked'.tick = asked.tick /\ asked'.until = asked.until /\ asked'.regular = asked.regular
  BY <1>1, <1>3, <1>4, <1>5 DEF MachineType, Asked
<1>8. MachineType'
  BY <1>5, <1>6, <1>7 DEF MachineType
<1>9. ASSUME asked.regular, NEW n \in Int, (asked.phase + n) % Period = 0
      PROVE  (p + (n - 1)) % Period = 0
  <2>1. p = IF asked.phase + 1 = Period THEN 0 ELSE asked.phase + 1
    BY <1>1, <1>9, PhaseStep DEF p
  <2>2. asked.phase + n \in Int
    BY <1>1, TimeAssumption
  <2>3. p + (n - 1) = asked.phase + n \/ p + (n - 1) = (asked.phase + n) - Period
    BY <1>1, <2>1, TimeAssumption
  <2> QED
    BY <1>9, <2>2, <2>3, PeriodAdded
<1>41. /\ clock.deadline = None => Nearer(clock.deadline) = None
       /\ clock.deadline = 0 => Nearer(clock.deadline) = 0
       /\ (clock.deadline # None /\ clock.deadline # 0) =>
            clock.deadline \in 1..Longest /\ Nearer(clock.deadline) = clock.deadline - 1 /\ Nearer(clock.deadline) # None
  BY <1>1, NearerSteps
<1>42. /\ asked.due = None => Nearer(asked.due) = None
       /\ asked.due = 0 => Nearer(asked.due) = 0
       /\ (asked.due # None /\ asked.due # 0) =>
            asked.due \in 1..Longest /\ Nearer(asked.due) = asked.due - 1 /\ Nearer(asked.due) # None
  BY <1>1, NearerSteps
<1>10. ASSUME started PROVE InPhase(clock', asked')
  <2> SUFFICES ASSUME asked.regular, l > Oldest PROVE (p + l) % Period = 0
    BY <1>6, <1>7 DEF InPhase
  <2>1. clock.last > Oldest /\ l = clock.last - 1
    BY <1>1, <1>2, LongestType
  <2>2. (asked.phase + clock.last) % Period = 0
    BY <1>10, <2>1 DEF MachineInv, InPhase
  <2> QED
    BY <1>2, <1>9, <2>1, <2>2
<1>11. ASSUME vm = "hlt" PROVE Matching(clock', asked') /\ WaitInPhase(clock', asked')
  <2>1. Matching(clock, asked) /\ WaitInPhase(clock, asked)
    BY <1>11 DEF MachineInv
  <2>2. Matching(clock', asked')
    <3>1. asked'.due # None
      BY <1>7, <1>42, <2>1, NoneAssumption DEF Matching
    <3>2. clock'.deadline = asked'.due \/ (clock'.deadline = None /\ asked'.due = 0)
      BY <1>6, <1>7, <1>41, <1>42, <2>1 DEF Matching
    <3>3. ASSUME l > 0 PROVE clock'.deadline = l
      <4>1. clock.deadline = clock.last /\ clock.last # 0 /\ clock.last # None /\ l = clock.last - 1
        BY <1>2, <2>1, <3>3, LongestType, NoneAssumption DEF Matching
      <4> QED
        BY <1>6, <1>41, <4>1
    <3> QED
      BY <1>6, <3>1, <3>2, <3>3 DEF Matching
  <2>3. WaitInPhase(clock', asked')
    <3> SUFFICES ASSUME asked.regular, asked.until, clock'.deadline \in 1..Longest
                 PROVE  (p + clock'.deadline) % Period = 0
      BY <1>7 DEF WaitInPhase
    <3>1. clock.deadline \in 1..Longest /\ clock'.deadline = clock.deadline - 1
      <4>1. clock.deadline # None /\ clock.deadline # 0
        BY <1>6, <1>41, LongestType, NoneAssumption
      <4> QED
        BY <1>6, <1>41, <4>1
    <3>2. (asked.phase + clock.deadline) % Period = 0
      BY <2>1, <3>1 DEF WaitInPhase
    <3> QED
      BY <1>9, <3>1, <3>2, LongestType
  <2> QED
    BY <2>2, <2>3
<1>12. MachineInv'
  <2>1. asked'.due # None => vm' = "hlt"
    BY <1>5, <1>7, <1>42 DEF MachineInv
  <2>2. (started' /\ vm' = "run") => clock'.deadline = None
    BY <1>5, <1>6, <1>41 DEF MachineInv
  <2>3. (started' /\ vm' # "none") => asked'.tick = clock'.tick
    BY <1>5, <1>6, <1>7 DEF MachineInv
  <2>4. (started' /\ vm' # "hlt") => clock'.last <= 0
    BY <1>2, <1>5, <1>6 DEF MachineInv
  <2>5. vm' = "hlt" => started'
    BY <1>5 DEF MachineInv
  <2> QED
    BY <1>5, <1>10, <1>11, <2>1, <2>2, <2>3, <2>4, <2>5 DEF MachineInv
<1> QED
  BY <1>8, <1>12
(***************************************************************************)
(* The popup and the changes reported.                                     *)
(***************************************************************************)
RestType ==
  /\ wifi \in BOOLEAN /\ cloud \in BOOLEAN /\ rollback_pending \in BOOLEAN
  /\ pkg_reload \in BOOLEAN /\ pkg_generation \in 0..(Generations - 1)
  /\ connected_since \in 0..HIDE_REPORT_AFTER \cup {None}
  /\ message \in (BOOLEAN \X BOOLEAN \X BOOLEAN) \cup {None}
  /\ trouble \in 0..HIDE_REPORT_AFTER
  /\ stat_events \in 0..MaxEvents
  /\ last_stat_snapshot \in StatSnapshot \cup {None} /\ reported \in StatSnapshot \cup {None}
  /\ noticed \in BOOLEAN
  /\ changes \in 0..MaxChanges

(* No frame of the streak saw a connection down.                           *)
StreakInv == connected_since # None => connected_since <= trouble

IInv == MachineType /\ MachineInv /\ RestType /\ StreakInv /\ ChangeReported

LEMMA SnapshotType ==
  ASSUME RestType, NEW n \in 0..(Generations - 1)
  PROVE  Snapshot(n) \in StatSnapshot
BY DEF RestType, Snapshot, StatSnapshot

LEMMA SinceType ==
  ASSUME RestType, StreakInv
  PROVE  /\ Since \in 0..HIDE_REPORT_AFTER \cup {None}
         /\ Since # None => wifi /\ cloud /\ Since <= trouble
<1>1. 0 \in 0..HIDE_REPORT_AFTER /\ trouble >= 0
  BY TimeAssumption DEF RestType
<1> QED
  BY <1>1 DEF RestType, StreakInv, Since

LEMMA FrameKeeps ==
  ASSUME IInv, Frame
  PROVE  IInv'
<1>1. RestType /\ StreakInv /\ ChangeReported /\ MachineType /\ MachineInv
  BY DEF IInv
<1>2. pkg_generation' \in 0..(Generations - 1)
  <2>1. pkg_generation' \in {pkg_generation, (pkg_generation + 1) % Generations}
    BY DEF Frame, Loaded
  <2>2. pkg_generation + 1 \in Nat /\ Generations \in Nat \ {0}
    BY <1>1, CounterAssumption DEF RestType
  <2>3. (pkg_generation + 1) % Generations \in 0..(Generations - 1)
    BY <2>2
  <2> QED
    BY <1>1, <2>1, <2>3 DEF RestType
<1>3. MachineType' /\ MachineInv'
  <2>1. PICK v \in {"none", "run", "hlt"}, s \in BOOLEAN :
          ((v = vm /\ s = started) \/ (v # "hlt" /\ ~s)) /\ Machine(v, s)
    BY <1>1 DEF Frame, Loaded, MachineType
  <2> QED
    BY <1>1, <2>1, MachineKeeps
<1>4. Snapshot(pkg_generation') \in StatSnapshot
  BY <1>1, <1>2, SnapshotType
<1>5. Counted \in 1..MaxEvents
  BY <1>1, CounterAssumption DEF RestType, Counted
<1>6. /\ stat_events' \in 0..MaxEvents
      /\ last_stat_snapshot' = Snapshot(pkg_generation')
      /\ noticed' \in BOOLEAN /\ reported' = reported
  BY <1>1, <1>5 DEF Frame, TrackStatEvents, RestType
<1>7. ChangeReported'
  <2> SUFFICES ASSUME noticed', last_stat_snapshot' # reported' PROVE stat_events' > 0
    BY DEF ChangeReported
  <2>1. noticed /\ Snapshot(pkg_generation') # reported
    BY <1>6 DEF Frame, TrackStatEvents
  <2>2. CASE last_stat_snapshot = Snapshot(pkg_generation')
    BY <1>1, <2>1, <2>2 DEF Frame, TrackStatEvents, ChangeReported
  <2>3. CASE last_stat_snapshot # Snapshot(pkg_generation')
    BY <1>5, <2>3 DEF Frame, TrackStatEvents
  <2> QED
    BY <2>2, <2>3
<1>8. /\ connected_since' \in 0..HIDE_REPORT_AFTER \cup {None}
      /\ message' \in (BOOLEAN \X BOOLEAN \X BOOLEAN) \cup {None}
      /\ trouble' \in 0..HIDE_REPORT_AFTER
      /\ connected_since' # None => connected_since' <= trouble'
  <2>1. 0 \in 0..HIDE_REPORT_AFTER
    BY TimeAssumption
  <2>2. status \in BOOLEAN \X BOOLEAN \X BOOLEAN
    BY <1>1 DEF RestType, status
  <2>3. connected_since' = Since /\ message' \in {status, None} /\ trouble' = (IF wifi /\ cloud THEN trouble ELSE 0)
    BY DEF Frame, Popup
  <2> QED
    BY <1>1, <2>1, <2>2, <2>3, SinceType DEF RestType
<1>9. RestType'
  <2>1. UNCHANGED <<wifi, cloud, rollback_pending, changes>> /\ pkg_reload' = FALSE
    BY DEF Frame, status
  <2> QED
    BY <1>1, <1>2, <1>4, <1>6, <1>8, <2>1 DEF RestType
<1>10. StreakInv'
  BY <1>8 DEF StreakInv
<1> QED
  BY <1>3, <1>7, <1>9, <1>10 DEF IInv

LEMMA InitIInv == Init => IInv
<1> SUFFICES ASSUME Init PROVE IInv
  OBVIOUS
<1>1. MachineType /\ MachineInv
  BY UnaskedType, ZeroIsMultiple DEF Init, MachineType, MachineInv, InPhase
<1>2. RestType
  <2>1. 0 \in 0..HIDE_REPORT_AFTER /\ 0 \in 0..MaxEvents /\ 0 \in 0..MaxChanges /\ 1 \in 0..(Generations - 1)
    BY TimeAssumption, CounterAssumption
  <2> QED
    BY <2>1, Zenon DEF Init, RestType
<1>3. StreakInv /\ ChangeReported
  BY DEF Init, StreakInv, ChangeReported
<1> QED
  BY <1>1, <1>2, <1>3 DEF IInv

LEMMA NextIInv == IInv /\ [Next]_vars => IInv'
<1> SUFFICES ASSUME IInv, [Next]_vars PROVE IInv'
  OBVIOUS
<1>1. RestType /\ StreakInv /\ ChangeReported /\ MachineType /\ MachineInv
  BY DEF IInv
<1>2. CASE Frame
  BY <1>2, FrameKeeps
<1>3. ASSUME UNCHANGED machine PROVE MachineType' /\ MachineInv'
  BY <1>1, <1>3 DEF machine, MachineType, MachineInv, Matching, WaitInPhase, InPhase
<1>4. CASE StatusChange
  <2>1. changes' \in 0..MaxChanges
    BY <1>1, <1>4, CounterAssumption DEF StatusChange, Changed, RestType
  <2>2. wifi' \in BOOLEAN /\ cloud' \in BOOLEAN /\ rollback_pending' \in BOOLEAN
    BY <1>1, <1>4, Zenon DEF StatusChange, RestType
  <2>3. UNCHANGED <<pkg_reload, pkg_generation, connected_since, message, trouble,
                    stat_events, last_stat_snapshot, reported, noticed>>
    BY <1>4 DEF StatusChange, popup, stat
  <2>4. RestType' /\ StreakInv' /\ ChangeReported'
    BY <1>1, <2>1, <2>2, <2>3 DEF RestType, StreakInv, ChangeReported
  <2> QED
    BY <1>3, <1>4, <2>4 DEF StatusChange, IInv
<1>5. CASE PkgUpdated
  <2>1. RestType' /\ StreakInv' /\ ChangeReported'
    BY <1>1, <1>5, CounterAssumption DEF PkgUpdated, Changed, RestType, StreakInv, ChangeReported, popup, stat, status
  <2> QED
    BY <1>3, <1>5, <2>1 DEF PkgUpdated, IInv
<1>6. CASE StatCommand
  <2>1. Snapshot(pkg_generation) \in StatSnapshot
    BY <1>1, SnapshotType DEF RestType
  <2>2. /\ stat_events' \in 0..MaxEvents /\ reported' = Snapshot(pkg_generation)
        /\ noticed' = (last_stat_snapshot = reported')
        /\ UNCHANGED <<wifi, cloud, rollback_pending, pkg_reload, pkg_generation, connected_since,
                       message, trouble, last_stat_snapshot, changes>>
    BY <1>6, CounterAssumption DEF StatCommand, popup, status
  <2>3. noticed' \in BOOLEAN /\ (noticed' => last_stat_snapshot' = reported')
    BY <2>2, Zenon
  <2>4. RestType' /\ StreakInv' /\ ChangeReported'
    BY <1>1, <2>1, <2>2, <2>3 DEF RestType, StreakInv, ChangeReported
  <2> QED
    BY <1>3, <1>6, <2>4 DEF StatCommand, IInv
<1>7. CASE SwitchProgram
  <2>1. RestType' /\ StreakInv' /\ ChangeReported'
    BY <1>1, <1>7, CounterAssumption DEF SwitchProgram, Changed, RestType, StreakInv, ChangeReported, popup, stat, status
  <2> QED
    BY <1>1, <1>7, <2>1, SwitchKeeps DEF IInv
<1>8. CASE Elapse
  <2>1. /\ connected_since' \in 0..HIDE_REPORT_AFTER \cup {None} /\ trouble' \in 0..HIDE_REPORT_AFTER
        /\ connected_since' # None => connected_since' <= trouble'
    BY <1>1, <1>8, TimeAssumption, NoneAssumption DEF Elapse, Older, RestType, StreakInv
  <2>2. RestType' /\ StreakInv' /\ ChangeReported'
    BY <1>1, <1>8, <2>1 DEF Elapse, RestType, StreakInv, ChangeReported, stat, status
  <2> QED
    BY <1>1, <1>8, <2>2, ElapseKeeps DEF IInv
<1>9. CASE UNCHANGED vars
  <2>1. RestType' /\ StreakInv' /\ ChangeReported' /\ UNCHANGED machine
    BY <1>1, <1>9 DEF vars, RestType, StreakInv, ChangeReported, popup, stat, status
  <2> QED
    BY <1>3, <2>1 DEF IInv
<1> QED
  BY <1>2, <1>4, <1>5, <1>6, <1>7, <1>8, <1>9 DEF Next

-----------------------------------------------------------------------------
LEMMA Invariance == Spec => []IInv
BY InitIInv, NextIInv, PTL DEF Spec

(* Every variable of Nodem keeps its type.                                 *)
THEOREM TypeCorrect == Spec => []TypeOK
<1>1. IInv => TypeOK
  BY DEF IInv, RestType, MachineType, TypeOK
<1> QED
  BY <1>1, Invariance, PTL

(* A change since the last "#stat" is reported with the next ping.         *)
THEOREM ChangesReported == Spec => []ChangeReported
<1>1. IInv => ChangeReported
  BY DEF IInv
<1> QED
  BY <1>1, Invariance, PTL

(* A loop of wait_until wakes at multiples of its interval.                *)
THEOREM PeriodsKept == Spec => []PeriodKept
<1>1. IInv => PeriodKept
  BY DEF IInv, MachineInv, InPhase, WaitInPhase, PeriodKept
<1> QED
  BY <1>1, Invariance, PTL

(* The popup is hidden only while everything has been well for a while.    *)
THEOREM HiddenOnlyWhenUp == Spec => HiddenWhenUp
<1>1. ASSUME IInv, message' = None, Frame
      PROVE  wifi /\ cloud /\ ~rollback_pending /\ trouble >= HIDE_REPORT_AFTER
  <2>1. RestType /\ StreakInv
    BY <1>1 DEF IInv
  <2>2. ~ShowReport
    <3>1. status \in BOOLEAN \X BOOLEAN \X BOOLEAN
      BY <2>1 DEF RestType, status
    <3>2. message' = (IF ShowReport THEN status ELSE None)
      BY <1>1 DEF Frame, Popup
    <3> QED
      BY <1>1, <3>1, <3>2, NoneAssumption
  <2> QED
    BY <2>1, <2>2, SinceType, TimeAssumption, NoneAssumption DEF ShowReport, RestType
<1> QED
  BY <1>1, Invariance, PTL DEF HiddenWhenUp

(* A stopped program runs again exactly when its own wait is over.         *)
THEOREM HeldByItsOwnWait == Spec => HeldExactly
<1>1. ASSUME IInv, asked.due # None, ~pkg_reload, Frame
      PROVE  ran' <=> asked.due = 0
  <2>1. MachineInv /\ MachineType
    BY <1>1 DEF IInv
  <2>2. vm = "hlt" /\ started /\ Matching(clock, asked)
    BY <1>1, <2>1 DEF MachineInv
  <2>3. Holds(clock) <=> asked.due # 0
    BY <2>1, <2>2, LongestType, NoneAssumption DEF Holds, Matching, MachineType, Asked
  <2>4. Machine(vm, started)
    BY <1>1 DEF Frame, Loaded
  <2> QED
    BY <2>2, <2>3, <2>4 DEF Machine, Clocked
<1> QED
  BY <1>1, Invariance, PTL DEF HeldExactly
=============================================================================
