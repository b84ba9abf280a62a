----------------------------- MODULE OledProofs -----------------------------
(***************************************************************************)
(* The safety properties of Oled, for every number of pages, every set of  *)
(* images and configurations, and any number of faults.                    *)
(***************************************************************************)
EXTENDS Oled, WellFoundedInduction, TLAPS

(* The page flush starts with, or goes on with, is the first that changed. *)
LEMMA FirstChanged ==
  ASSUME NEW pages \in SUBSET Page, pages # {}
  PROVE  First(pages) \in pages /\ \A q \in pages : First(pages) <= q
<1> DEFINE less == OpToRel(<, Nat)
<1>1. pages \subseteq Nat
  BY DEF Page
<1>2. \A p \in Nat, q \in Nat : p < q => <<p, q>> \in less
  BY DEF OpToRel
<1>3. IsWellFoundedOn(less, Nat)
  BY NatLessThanWellFounded
<1> HIDE DEF less
<1>4. PICK p \in pages : \A q \in pages : <<q, p>> \notin less
  BY <1>1, <1>3, WFMin
<1>5. ASSUME NEW q \in pages PROVE p <= q
  <2>1. p \in Nat /\ q \in Nat /\ ~(q < p)
    BY <1>1, <1>2, <1>4
  <2> QED
    BY <2>1
<1> QED
  BY <1>5 DEF First

-----------------------------------------------------------------------------
(***************************************************************************)
(* The inductive invariant: types; what belongs to the await the task is   *)
(* at; the one write that task and thread hand back and forth, with what   *)
(* is in it; and what the panel shows.                                     *)
(***************************************************************************)
StateInv ==
  /\ fb \in [Page -> Pixels] /\ dirty \in BOOLEAN /\ want \in Configs \cup {None}
  /\ status \in {"Initializing", "Disabled", "Connected", "Failed"}
  /\ attempt \in 1..3
  /\ waker \in BOOLEAN /\ power \in BOOLEAN /\ lit \in Configs \cup {None}
  /\ ram \in [Page -> Image \cup {Garbled}]
  /\ faults \in 0..MaxFaults

Unconfigured == {"boot", "stopped", "disabled"}

AwaitInv ==
  /\ tpc \in OnBus \cup {"boot", "stopped", "disabled", "idle", "dead", "pause"}
  /\ config \in Configs \cup {None} /\ (tpc \notin Unconfigured => config \in Configs)
  /\ sent \in [Page -> Image \cup {None}]
  /\ (tpc \in {"boot", "stopped", "disabled", "init", "reinit"} => sent = Unsent)
  /\ prep \in Segment \cup {None} /\ (tpc = "segment" <=> prep # None)
  /\ outstanding \in Page \cup {None} /\ (tpc \in {"segment", "last"} <=> outstanding # None)

(* What the task is waiting for to be written. *)
IsFor(job) ==
  /\ job \in Job
  /\ tpc \in {"init", "reinit"} => job.kind = "init"
  /\ tpc = "off" => job.kind = "off"
  /\ tpc \in {"segment", "last"} =>
       job = [kind |-> "segment", page |-> outstanding, image |-> sent[outstanding]]

Queued == done = None /\ \E job \in Job : jobs = <<job>> /\ IsFor(job)
Answered == done \in Result /\ jobs = <<>>

HandInv ==
  /\ tpc \in OnBus => Queued \/ Answered
  /\ tpc \notin OnBus => done = None /\ jobs = <<>>
  /\ ready \in BOOLEAN /\ Woken

(* The pages of s are on a panel that is as the task thinks it is. *)
Shown(s) ==
  \A p \in Page : (s[p] # None /\ lit = config /\ config # None) => ram[p] = s[p]

PageInv ==
  /\ SentIsShown
  /\ (tpc \in {"segment", "last"} /\ done = "ok") => Shown(sent)

IInv == StateInv /\ AwaitInv /\ HandInv /\ PageInv

LEMMA Distinct ==
  /\ None \notin Image /\ None \notin Segment /\ None \notin Page /\ None \notin Configs
  /\ None \notin Result
BY DistinctAssumption, NoneAssumption DEF Result

LEMMA InitIInv == Init => IInv
<1> SUFFICES ASSUME Init PROVE IInv
  OBVIOUS
<1>1. StateInv
  <2>1. ram \in [Page -> Image \cup {Garbled}]
    BY DEF Init
  <2>2. faults \in 0..MaxFaults /\ attempt \in 1..3
    BY PagesAssumption DEF Init
  <2> QED
    BY <2>1, <2>2 DEF Init, StateInv
<1>2. AwaitInv
  BY Distinct DEF Init, AwaitInv, OnBus, Unconfigured, Unsent
<1>3. HandInv
  BY DEF Init, HandInv, OnBus, Woken
<1>4. PageInv
  BY DEF Init, PageInv, SentIsShown, Unsent
<1> QED
  BY <1>1, <1>2, <1>3, <1>4 DEF IInv

-----------------------------------------------------------------------------
(***************************************************************************)
(* What the task leaves behind at its next await, when it has got both     *)
(* buffers back.                                                           *)
(***************************************************************************)
Idle == jobs = <<>> /\ done' = None /\ waker \in BOOLEAN

(* A write of a panel initialisation, or of its end. *)
LEMMA InitialiseKeeps ==
  ASSUME Idle, NEW at \in {"init", "reinit"}, Initialise(at), config' \in Configs
  PROVE  AwaitInv' /\ HandInv' /\ PageInv'
<1>1. /\ tpc' = at /\ jobs' = <<[kind |-> "init"]>> /\ ready' = TRUE
      /\ sent' = Unsent /\ prep' = None /\ outstanding' = None /\ done' = None
  BY DEF Idle, Initialise, Submit
<1>2. AwaitInv'
  BY <1>1 DEF AwaitInv, OnBus, Unconfigured, Unsent
<1>3. [kind |-> "init"] \in Job
  BY DEF Job
<1>4. IsFor([kind |-> "init"])'
  BY <1>1, <1>3 DEF IsFor
<1>5. Queued'
  BY <1>1, <1>3, <1>4 DEF Queued
<1>6. HandInv'
  BY <1>1, <1>5 DEF HandInv, OnBus, Woken
<1>7. PageInv'
  BY <1>1 DEF PageInv, SentIsShown, Unsent
<1> QED
  BY <1>2, <1>6, <1>7

(* An await that is not for the bus. *)
LEMMA SleepKeeps ==
  ASSUME Idle, NEW at \in {"disabled", "idle", "dead", "pause"},
         NEW s \in [Page -> Image \cup {None}], Sleep(at, s),
         config' \in Configs \cup {None}, at # "disabled" => config' \in Configs,
         at = "disabled" => s = Unsent, Shown(s), UNCHANGED panel,
         s = Unsent \/ config' = config
  PROVE  AwaitInv' /\ HandInv' /\ PageInv'
<1>1. /\ tpc' = at /\ sent' = s /\ prep' = None /\ outstanding' = None /\ done' = None
      /\ ready' = FALSE /\ jobs' = <<>>
  BY DEF Idle, Sleep
<1>2. AwaitInv'
  BY <1>1 DEF AwaitInv, OnBus, Unconfigured
<1>3. HandInv'
  BY <1>1 DEF HandInv, OnBus, Woken
<1>4. UNCHANGED <<lit, ram>>
  BY DEF panel
<1>5. SentIsShown'
  <2>1. CASE s = Unsent
    BY <1>1, <2>1 DEF SentIsShown, Unsent
  <2>2. CASE config' = config
    BY <1>1, <1>4, <2>2 DEF SentIsShown, Shown
  <2> QED
    BY <2>1, <2>2
<1>6. PageInv'
  BY <1>1, <1>5 DEF PageInv
<1> QED
  BY <1>2, <1>3, <1>6

(* A page goes to the thread, and the next one that changed is prepared.   *)
LEMMA SendKeeps ==
  ASSUME Idle, NEW segment \in Segment, NEW s \in [Page -> Image \cup {None}],
         Send(segment, s), fb \in [Page -> Pixels], config \in Configs, config' = config,
         Shown(s), UNCHANGED panel
  PROVE  AwaitInv' /\ HandInv' /\ PageInv'
<1> DEFINE marked == [s EXCEPT ![segment.page] = segment.image]
           rest == Changed(segment.page + 1, marked)
           job == [kind |-> "segment", page |-> segment.page, image |-> segment.image]
<1>1. segment.page \in Page /\ segment.image \in Image
  BY DEF Segment
<1>2. marked \in [Page -> Image \cup {None}] /\ marked[segment.page] = segment.image
  BY <1>1
<1>3. /\ tpc' = (IF rest = {} THEN "last" ELSE "segment")
      /\ jobs' = <<job>> /\ ready' = TRUE /\ done' = None
      /\ sent' = marked /\ outstanding' = segment.page
      /\ prep' = (IF rest = {} THEN None
                  ELSE [page |-> First(rest), image |-> Prepared(First(rest))])
  BY DEF Idle, Send, Submit
<1>4. rest # {} => [page |-> First(rest), image |-> Prepared(First(rest))] \in Segment
  <2> SUFFICES ASSUME rest # {} PROVE [page |-> First(rest), image |-> Prepared(First(rest))] \in Segment
    OBVIOUS
  <2>1. rest \in SUBSET Page
    BY DEF Changed
  <2>2. First(rest) \in Page
    BY <2>1, FirstChanged
  <2>3. Prepared(First(rest)) \in Image
    BY <2>2 DEF Prepared, Image
  <2> QED
    BY <2>2, <2>3 DEF Segment
<1> HIDE DEF marked, rest
<1>5. AwaitInv'
  <2>1. prep' \in Segment \cup {None} /\ (tpc' = "segment" <=> prep' # None)
    BY <1>3, <1>4, Distinct
  <2>2. outstanding' \in Page /\ tpc' \in {"segment", "last"} /\ outstanding' # None
    BY <1>1, <1>3, Distinct
  <2> QED
    BY <1>2, <1>3, <2>1, <2>2 DEF AwaitInv, OnBus, Unconfigured
<1>6. IsFor(job)'
  BY <1>1, <1>2, <1>3 DEF IsFor, Job
<1>7. Queued'
  BY <1>1, <1>3, <1>6 DEF Queued, Job
<1>8. HandInv'
  BY <1>3, <1>7 DEF HandInv, OnBus, Woken
<1>9. PageInv'
  <2>1. \A p \in Page : p # segment.page => marked[p] = s[p]
    BY <1>1 DEF marked
  <2>2. UNCHANGED <<lit, ram>>
    BY DEF panel
  <2>3. SentIsShown'
    BY <1>3, <2>1, <2>2 DEF SentIsShown, Shown
  <2>4. done' # "ok"
    BY <1>3, Distinct DEF Result
  <2> QED
    BY <2>3, <2>4 DEF PageInv
<1> QED
  BY <1>5, <1>8, <1>9

LEMMA FlushKeeps ==
  ASSUME Idle, NEW s \in [Page -> Image \cup {None}], Flush(s),
         fb \in [Page -> Pixels], config \in Configs, config' = config,
         Shown(s), UNCHANGED panel
  PROVE  AwaitInv' /\ HandInv' /\ PageInv'
<1> DEFINE first == First(Changed(0, s))
           segment == [page |-> first, image |-> Prepared(first)]
<1>1. Changed(0, s) \in SUBSET Page /\ Changed(0, s) # {} /\ Send(segment, s)
  BY DEF Flush, Changed
<1>2. first \in Page
  BY <1>1, FirstChanged
<1>3. segment \in Segment
  BY <1>2 DEF Segment, Prepared, Image
<1> HIDE DEF segment
<1> QED
  BY <1>1, <1>3, SendKeeps

LEMMA TopOfTaskKeeps ==
  ASSUME Idle, StateInv, NEW st, TopOfTask(st), UNCHANGED panel
  PROVE  AwaitInv' /\ HandInv' /\ PageInv' /\ attempt' \in 1..3 /\ dirty' = dirty
         /\ status' \in {st, "Disabled"}
<1>1. config' = want /\ attempt' = 1 /\ dirty' = dirty /\ want \in Configs \cup {None}
      /\ status' \in {st, "Disabled"}
  BY DEF TopOfTask, StateInv
<1>2. CASE want = None
  <2>1. Sleep("disabled", Unsent)
    BY <1>2 DEF TopOfTask
  <2>2. Unsent \in [Page -> Image \cup {None}] /\ Shown(Unsent)
    BY DEF Unsent, Shown
  <2>3. AwaitInv' /\ HandInv' /\ PageInv'
    BY <1>1, <2>1, <2>2, SleepKeeps
  <2> QED
    BY <1>1, <2>3
<1>3. CASE want # None
  <2>1. Initialise("init") /\ config' \in Configs
    BY <1>1, <1>3 DEF TopOfTask
  <2> QED
    BY <1>1, <2>1, InitialiseKeeps
<1> QED
  BY <1>2, <1>3

LEMMA TopOfDisplayKeeps ==
  ASSUME Idle, StateInv, config \in Configs, NEW s \in [Page -> Image \cup {None}],
         NEW st, NEW force, TopOfDisplay(s, st, force), Shown(s), UNCHANGED panel
  PROVE  AwaitInv' /\ HandInv' /\ PageInv' /\ attempt' \in 1..3 /\ dirty' \in BOOLEAN
         /\ status' \in {st, "Connected"}
<1>1. config' = config /\ attempt' \in 1..3 /\ dirty' \in BOOLEAN /\ status' \in {st, "Connected"}
  <2>1. attempt \in 1..3 /\ dirty \in BOOLEAN
    BY DEF StateInv
  <2>2. config' = config /\ status' \in {st, "Connected"}
    BY DEF TopOfDisplay
  <2>3. attempt' \in {1, attempt} /\ dirty' \in {FALSE, dirty}
    BY DEF TopOfDisplay
  <2>4. attempt' \in 1..3
    BY <2>1, <2>3
  <2>5. dirty' \in BOOLEAN
    BY <2>1, <2>3
  <2> QED
    BY <2>2, <2>4, <2>5
<1>2. CASE want # config
  <2>1. /\ tpc' = "off" /\ jobs' = <<[kind |-> "off"]>> /\ ready' = TRUE /\ done' = None
        /\ sent' = s /\ prep' = None /\ outstanding' = None
    BY <1>2 DEF TopOfDisplay, Submit, Idle
  <2>2. AwaitInv'
    BY <1>1, <2>1 DEF AwaitInv, OnBus, Unconfigured
  <2>3. [kind |-> "off"] \in Job
    BY DEF Job
  <2>4. IsFor([kind |-> "off"])'
    BY <2>1, <2>3 DEF IsFor
  <2>5. Queued'
    BY <2>1, <2>3, <2>4 DEF Queued
  <2>6. HandInv'
    BY <2>1, <2>5 DEF HandInv, OnBus, Woken
  <2>7. UNCHANGED <<lit, ram>>
    BY DEF panel
  <2>8. PageInv'
    BY <1>1, <2>1, <2>7 DEF PageInv, SentIsShown, Shown
  <2> QED
    BY <1>1, <2>2, <2>6, <2>8
<1>3. CASE Sleep("idle", s)
  BY <1>1, <1>3, SleepKeeps
<1>4. CASE Flush(s)
  <2>1. fb \in [Page -> Pixels]
    BY DEF StateInv
  <2> QED
    BY <1>1, <1>4, <2>1, FlushKeeps
<1> QED
  BY <1>2, <1>3, <1>4 DEF TopOfDisplay

-----------------------------------------------------------------------------
(* I2cWorker::complete gives the buffer back with its result.              *)
LEMMA CompletedKeeps ==
  ASSUME IInv, NEW at \in OnBus, NEW result \in Result, Completed(at, result)
  PROVE  /\ tpc = at /\ done = result /\ Idle /\ config \in Configs
         /\ sent \in [Page -> Image \cup {None}] /\ UNCHANGED panel
         /\ UNCHANGED <<fb, want, waker, faults>>
         /\ result = "ok" => Shown(sent)
<1>1. /\ tpc = at /\ done = result /\ done' = None
      /\ UNCHANGED <<fb, want, waker, panel, faults>>
  BY DEF Completed
<1>2. done # None
  BY <1>1, Distinct
<1>3. jobs = <<>> /\ waker \in BOOLEAN
  BY <1>1, <1>2 DEF IInv, HandInv, Queued, Answered, StateInv
<1>4. config \in Configs /\ sent \in [Page -> Image \cup {None}]
  BY <1>1 DEF IInv, AwaitInv, OnBus, Unconfigured
<1>5. ASSUME result = "ok" PROVE Shown(sent)
  <2>1. CASE at \in {"segment", "last"}
    BY <1>1, <1>5, <2>1 DEF IInv, PageInv
  <2>2. CASE at \notin {"segment", "last"}
    BY <1>1, <2>2 DEF IInv, PageInv, SentIsShown, Shown
  <2> QED
    BY <2>1, <2>2
<1> QED
  BY <1>1, <1>3, <1>4, <1>5 DEF Idle

(* At an await that is not for the bus the task has both buffers.          *)
LEMMA AwakeKeeps ==
  ASSUME IInv, tpc \notin OnBus, UNCHANGED <<done, waker, panel>>
  PROVE  Idle /\ Shown(sent) /\ sent \in [Page -> Image \cup {None}]
<1>1. tpc \notin {"segment", "last"}
  BY DEF OnBus
<1>2. Shown(sent)
  BY <1>1 DEF IInv, PageInv, SentIsShown, Shown
<1> QED
  BY <1>2 DEF IInv, HandInv, StateInv, AwaitInv, Idle

LEMMA StateKeeps ==
  ASSUME StateInv, attempt' \in 1..3, dirty' \in BOOLEAN,
         status' \in {"Initializing", "Disabled", "Connected", "Failed"},
         UNCHANGED <<fb, want, waker, panel, faults>>
  PROVE  StateInv'
<1>1. UNCHANGED <<power, lit, ram>>
  BY DEF panel
<1> QED
  BY <1>1 DEF StateInv

LEMMA PollKeeps ==
  ASSUME IInv, Start \/ NoThread \/ PollDisabled \/ PollDead \/ PollIdle \/ PollPending
  PROVE  IInv'
<1>1. StateInv /\ AwaitInv /\ HandInv /\ PageInv
  BY DEF IInv
<1>2. status \in {"Initializing", "Disabled", "Connected", "Failed"} /\ dirty \in BOOLEAN
  BY <1>1 DEF StateInv
<1>3. CASE Start \/ PollDisabled \/ PollDead
  <2>1. tpc \notin OnBus /\ TopOfTask(status) /\ UNCHANGED <<fb, want, done, waker, panel, faults>>
    BY <1>3 DEF Start, PollDisabled, PollDead, OnBus
  <2>2. Idle
    BY <2>1, AwakeKeeps
  <2>3. AwaitInv' /\ HandInv' /\ PageInv' /\ attempt' \in 1..3 /\ dirty' = dirty /\ status' \in {status, "Disabled"}
    BY <1>1, <2>1, <2>2, TopOfTaskKeeps
  <2>4. StateInv'
    BY <1>1, <1>2, <2>1, <2>3, StateKeeps
  <2> QED
    BY <2>3, <2>4 DEF IInv
<1>4. CASE NoThread
  <2>1. /\ tpc = "boot" /\ tpc' = "stopped" /\ status' = "Failed" /\ faults < MaxFaults /\ faults' = faults + 1
        /\ UNCHANGED <<fb, dirty, want, config, attempt, sent, prep, outstanding,
                       jobs, done, waker, ready, power, lit, ram>>
    BY <1>4 DEF NoThread, global, display, worker, panel
  <2>2. StateInv'
    <3>1. faults' \in 0..MaxFaults
      BY <1>1, <2>1, PagesAssumption DEF StateInv
    <3> QED
      BY <1>1, <2>1, <3>1 DEF StateInv
  <2>3. AwaitInv'
    BY <1>1, <2>1 DEF AwaitInv, OnBus, Unconfigured, Unsent
  <2>4. HandInv'
    BY <1>1, <2>1 DEF HandInv, OnBus, Woken
  <2>5. PageInv'
    BY <1>1, <2>1 DEF PageInv, SentIsShown
  <2> QED
    BY <2>2, <2>3, <2>4, <2>5 DEF IInv
<1>5. CASE PollIdle
  <2>1. tpc = "idle" /\ TopOfDisplay(sent, status, FALSE) /\ UNCHANGED <<fb, want, done, waker, panel, faults>>
    BY <1>5 DEF PollIdle
  <2>2. Idle /\ Shown(sent) /\ sent \in [Page -> Image \cup {None}]
    BY <2>1, AwakeKeeps DEF OnBus
  <2>3. config \in Configs
    BY <1>1, <2>1 DEF AwaitInv, Unconfigured
  <2>4. AwaitInv' /\ HandInv' /\ PageInv' /\ attempt' \in 1..3 /\ dirty' \in BOOLEAN /\ status' \in {status, "Connected"}
    BY <1>1, <2>1, <2>2, <2>3, TopOfDisplayKeeps
  <2>5. StateInv'
    BY <1>1, <1>2, <2>1, <2>4, StateKeeps
  <2> QED
    BY <2>4, <2>5 DEF IInv
<1>6. CASE PollPending
  <2>1. /\ tpc \in OnBus /\ done = None /\ waker' = TRUE /\ ready' = FALSE
        /\ UNCHANGED <<fb, dirty, want, status, tpc, config, attempt, sent, prep, outstanding,
                       jobs, done, power, lit, ram, faults>>
    BY <1>6 DEF PollPending, global, display, panel
  <2>2. StateInv' /\ AwaitInv'
    BY <1>1, <2>1 DEF StateInv, AwaitInv, Unsent
  <2>3. Queued /\ jobs # <<>>
    BY <1>1, <2>1, Distinct DEF HandInv, Queued, Answered
  <2>4. Queued'
    BY <2>1, <2>3 DEF Queued, IsFor
  <2>5. HandInv'
    BY <2>1, <2>3, <2>4 DEF HandInv, Woken
  <2>6. PageInv'
    BY <1>1, <2>1 DEF PageInv, SentIsShown, Shown
  <2> QED
    BY <2>2, <2>5, <2>6 DEF IInv
<1> QED
  BY <1>3, <1>4, <1>5, <1>6

LEMMA FlushStepKeeps ==
  ASSUME IInv, SegmentOk \/ FlushFailed \/ Retry \/ Reinit
  PROVE  IInv'
<1>1. StateInv /\ AwaitInv /\ HandInv /\ PageInv
  BY DEF IInv
<1>2. /\ status \in {"Initializing", "Disabled", "Connected", "Failed"}
      /\ dirty \in BOOLEAN /\ attempt \in 1..3 /\ fb \in [Page -> Pixels]
  BY <1>1 DEF StateInv
<1>3. CASE SegmentOk
  <2>1. Completed("segment", "ok") /\ Send(prep, sent) /\ UNCHANGED <<dirty, status, config, attempt>>
    BY <1>3 DEF SegmentOk
  <2>2. /\ tpc = "segment" /\ Idle /\ config \in Configs /\ sent \in [Page -> Image \cup {None}]
        /\ UNCHANGED panel /\ UNCHANGED <<fb, want, waker, faults>> /\ Shown(sent)
    BY <2>1, CompletedKeeps DEF OnBus, Result
  <2>3. prep \in Segment
    BY <1>1, <2>2 DEF AwaitInv
  <2>4. AwaitInv' /\ HandInv' /\ PageInv'
    BY <1>2, <2>1, <2>2, <2>3, SendKeeps
  <2>5. StateInv'
    BY <1>1, <1>2, <2>1, <2>2, StateKeeps
  <2> QED
    BY <2>4, <2>5 DEF IInv
<1>4. CASE FlushFailed
  <2>1. PICK at \in {"segment", "last"} : Completed(at, "error")
    BY <1>4 DEF FlushFailed
  <2>2. Sleep("pause", Forget(outstanding)) /\ UNCHANGED <<dirty, status, config, attempt>>
    BY <1>4 DEF FlushFailed
  <2>3. /\ tpc = at /\ Idle /\ config \in Configs /\ sent \in [Page -> Image \cup {None}]
        /\ UNCHANGED panel /\ UNCHANGED <<fb, want, waker, faults>>
    BY <2>1, CompletedKeeps DEF OnBus, Result
  <2>4. outstanding \in Page
    BY <1>1, <2>3 DEF AwaitInv
  <2>5. Forget(outstanding) \in [Page -> Image \cup {None}]
    BY <2>3, <2>4 DEF Forget
  <2>6. Shown(Forget(outstanding))
    BY <1>1, <2>3, <2>4 DEF Forget, Shown, PageInv, SentIsShown
  <2>7. AwaitInv' /\ HandInv' /\ PageInv'
    BY <2>2, <2>3, <2>5, <2>6, SleepKeeps
  <2>8. StateInv'
    BY <1>1, <1>2, <2>2, <2>3, StateKeeps
  <2> QED
    BY <2>7, <2>8 DEF IInv
<1>5. CASE Retry
  <2>1. /\ tpc = "pause" /\ attempt < 3 /\ attempt' = attempt + 1 /\ Flush(sent)
        /\ UNCHANGED <<fb, dirty, want, status, config, done, waker, panel, faults>>
    BY <1>5 DEF Retry, global
  <2>2. Idle /\ Shown(sent) /\ sent \in [Page -> Image \cup {None}]
    BY <2>1, AwakeKeeps DEF OnBus
  <2>3. config \in Configs
    BY <1>1, <2>1 DEF AwaitInv, Unconfigured
  <2>4. AwaitInv' /\ HandInv' /\ PageInv'
    BY <1>2, <2>1, <2>2, <2>3, FlushKeeps
  <2>5. attempt' \in 1..3
    BY <1>2, <2>1
  <2>6. StateInv'
    BY <1>1, <1>2, <2>1, <2>5, StateKeeps
  <2> QED
    BY <2>4, <2>6 DEF IInv
<1>6. CASE Reinit
  <2>1. /\ tpc = "pause" /\ Initialise("reinit")
        /\ UNCHANGED <<fb, dirty, want, status, config, attempt, done, waker, panel, faults>>
    BY <1>6 DEF Reinit, global
  <2>2. Idle
    BY <2>1, AwakeKeeps DEF OnBus
  <2>3. config' \in Configs
    BY <1>1, <2>1 DEF AwaitInv, Unconfigured
  <2>4. AwaitInv' /\ HandInv' /\ PageInv'
    BY <2>1, <2>2, <2>3, InitialiseKeeps
  <2>5. StateInv'
    BY <1>1, <1>2, <2>1, StateKeeps
  <2> QED
    BY <2>4, <2>5 DEF IInv
<1> QED
  BY <1>3, <1>4, <1>5, <1>6

LEMMA DisplayStepKeeps ==
  ASSUME IInv, InitOk \/ InitFailed \/ LastOk \/ ReinitOver \/ OffOver
  PROVE  IInv'
<1>1. StateInv /\ AwaitInv /\ HandInv /\ PageInv
  BY DEF IInv
<1>2. /\ status \in {"Initializing", "Disabled", "Connected", "Failed"}
      /\ dirty \in BOOLEAN /\ attempt \in 1..3
  BY <1>1 DEF StateInv
<1>3. ASSUME NEW at \in OnBus, NEW result \in Result, Completed(at, result), Shown(sent),
             NEW st \in {"Connected", "Failed"}, NEW force, TopOfDisplay(sent, st, force)
      PROVE  IInv'
  <2>1. /\ tpc = at /\ Idle /\ config \in Configs /\ sent \in [Page -> Image \cup {None}]
        /\ UNCHANGED panel /\ UNCHANGED <<fb, want, waker, faults>>
    BY <1>3, CompletedKeeps
  <2>2. AwaitInv' /\ HandInv' /\ PageInv' /\ attempt' \in 1..3 /\ dirty' \in BOOLEAN /\ status' \in {st, "Connected"}
    BY <1>1, <1>3, <2>1, TopOfDisplayKeeps
  <2>3. StateInv'
    BY <1>1, <2>1, <2>2, StateKeeps
  <2> QED
    BY <2>2, <2>3 DEF IInv
<1>4. ASSUME NEW at \in OnBus, NEW result \in Result, Completed(at, result),
             NEW st \in {"Initializing", "Disabled", "Connected", "Failed"}, TopOfTask(st)
      PROVE  IInv'
  <2>1. Idle /\ UNCHANGED panel /\ UNCHANGED <<fb, want, waker, faults>>
    BY <1>4, CompletedKeeps
  <2>2. AwaitInv' /\ HandInv' /\ PageInv' /\ attempt' \in 1..3 /\ dirty' = dirty /\ status' \in {st, "Disabled"}
    BY <1>1, <1>4, <2>1, TopOfTaskKeeps
  <2>3. StateInv'
    BY <1>1, <1>2, <2>1, <2>2, StateKeeps
  <2> QED
    BY <2>2, <2>3 DEF IInv
<1>5. {"ok", "error"} \subseteq Result /\ {"init", "last", "reinit", "off"} \subseteq OnBus
  BY DEF Result, OnBus
<1>6. CASE InitOk
  <2>1. Completed("init", "ok") /\ TopOfDisplay(sent, "Connected", TRUE)
    BY <1>6 DEF InitOk
  <2>2. Shown(sent)
    BY <1>5, <2>1, CompletedKeeps
  <2> QED
    BY <1>3, <1>5, <2>1, <2>2
<1>7. CASE InitFailed
  <2>1. Completed("init", "error") /\ "init" \in OnBus /\ "error" \in Result
    BY <1>5, <1>7 DEF InitFailed
  <2>2. CASE want = config
    <3>1. status' = "Failed" /\ Sleep("dead", sent) /\ UNCHANGED <<dirty, config, attempt>>
      BY <1>7, <2>2 DEF InitFailed
    <3>2. /\ tpc = "init" /\ Idle /\ config \in Configs /\ sent \in [Page -> Image \cup {None}]
          /\ UNCHANGED panel /\ UNCHANGED <<fb, want, waker, faults>>
      BY <2>1, CompletedKeeps
    <3>3. sent = Unsent /\ Shown(sent)
      BY <1>1, <3>2 DEF AwaitInv, Shown, Unsent
    <3>4. AwaitInv' /\ HandInv' /\ PageInv'
      BY <3>1, <3>2, <3>3, SleepKeeps
    <3>5. StateInv'
      BY <1>1, <1>2, <3>1, <3>2, StateKeeps
    <3> QED
      BY <3>4, <3>5 DEF IInv
  <2>3. CASE want # config
    <3>1. TopOfTask("Failed")
      BY <1>7, <2>3 DEF InitFailed
    <3> QED
      BY <1>4, <2>1, <3>1
  <2> QED
    BY <2>2, <2>3
<1>8. CASE LastOk
  <2>1. Completed("last", "ok") /\ TopOfDisplay(sent, "Connected", FALSE)
    BY <1>8 DEF LastOk
  <2>2. Shown(sent)
    BY <1>5, <2>1, CompletedKeeps
  <2> QED
    BY <1>3, <1>5, <2>1, <2>2
<1>9. CASE ReinitOver
  <2>1. PICK result \in Result, st \in {"Connected", "Failed"} :
          Completed("reinit", result) /\ TopOfDisplay(sent, st, FALSE)
    BY <1>9 DEF ReinitOver, Result
  <2>2. tpc = "reinit"
    BY <1>5, <2>1, CompletedKeeps
  <2>3. Shown(sent)
    BY <1>1, <2>2 DEF AwaitInv, Shown, Unsent
  <2> QED
    BY <1>3, <1>5, <2>1, <2>3
<1>10. CASE OffOver
  <2>1. PICK result \in Result : Completed("off", result)
    BY <1>10 DEF OffOver, Result
  <2>2. TopOfTask(status)
    BY <1>10 DEF OffOver
  <2> QED
    BY <1>2, <1>4, <1>5, <2>1, <2>2
<1> QED
  BY <1>6, <1>7, <1>8, <1>9, <1>10

-----------------------------------------------------------------------------
(* The thread: what the write it takes does to the panel.                  *)
LEMMA EffectKeeps ==
  ASSUME IInv, NEW job \in Job, IsFor(job), tpc \in OnBus, UNCHANGED <<tpc, config, sent, outstanding>>,
         \/ UNCHANGED <<lit, ram>>
         \/ Effect(job)
         \/ job.kind = "segment" /\ ram' = [ram EXCEPT ![job.page] = Garbled] /\ UNCHANGED lit
  PROVE  /\ lit' \in Configs \cup {None} /\ ram' \in [Page -> Image \cup {Garbled}]
         /\ SentIsShown'
         /\ (Effect(job) /\ tpc \in {"segment", "last"}) => Shown(sent)'
<1>1. StateInv /\ AwaitInv /\ HandInv /\ PageInv
  BY DEF IInv
<1>2. /\ lit \in Configs \cup {None} /\ ram \in [Page -> Image \cup {Garbled}]
      /\ config \in Configs /\ sent \in [Page -> Image \cup {None}]
  BY <1>1 DEF StateInv, AwaitInv, OnBus, Unconfigured
<1>3. CASE tpc \in {"init", "reinit"}
  <2>1. job.kind = "init" /\ sent = Unsent
    BY <1>1, <1>3 DEF IsFor, AwaitInv
  <2>2. lit' \in Configs \cup {None} /\ ram' = ram
    BY <1>2, <2>1 DEF Effect
  <2>3. SentIsShown'
    BY <2>1 DEF SentIsShown, Unsent
  <2> QED
    BY <1>2, <1>3, <2>2, <2>3
<1>4. CASE tpc = "off"
  <2>1. job.kind = "off"
    BY <1>4 DEF IsFor
  <2>2. lit' \in {lit, None} /\ ram' = ram
    BY <2>1 DEF Effect
  <2>3. SentIsShown'
    BY <1>1, <1>2, <2>2, Distinct DEF PageInv, SentIsShown
  <2> QED
    BY <1>2, <1>4, <2>2, <2>3
<1>5. CASE tpc \in {"segment", "last"}
  <2>1. /\ job.kind = "segment" /\ job.page = outstanding /\ job.image = sent[outstanding]
        /\ outstanding \in Page
    BY <1>1, <1>5 DEF IsFor, AwaitInv
  <2>2. job.image \in Image
    BY <2>1 DEF Job
  <2>3. /\ lit' = lit
        /\ \/ ram' = ram
           \/ \E image \in Image \cup {Garbled} : ram' = [ram EXCEPT ![outstanding] = image]
    BY <2>1, <2>2 DEF Effect
  <2>4. ram' \in [Page -> Image \cup {Garbled}] /\ \A p \in Page : p # outstanding => ram'[p] = ram[p]
    BY <1>2, <2>1, <2>3
  <2>5. SentIsShown'
    BY <1>1, <1>5, <2>3, <2>4 DEF PageInv, SentIsShown
  <2>6. Effect(job) => Shown(sent)'
    <3> SUFFICES ASSUME Effect(job), lit = config PROVE Shown(sent)'
      BY <2>3 DEF Shown
    <3>1. ram'[outstanding] = sent[outstanding]
      BY <1>2, <2>1 DEF Effect
    <3>2. \A p \in Page : (p # outstanding /\ sent[p] # None) => ram[p] = sent[p]
      BY <1>1, <1>2, Distinct DEF PageInv, SentIsShown
    <3> QED
      BY <2>4, <3>1, <3>2 DEF Shown
  <2> QED
    BY <1>2, <2>3, <2>4, <2>5, <2>6
<1> QED
  BY <1>3, <1>4, <1>5 DEF OnBus

LEMMA ThreadKeeps ==
  ASSUME IInv, I2cThread
  PROVE  IInv'
<1>1. StateInv /\ AwaitInv /\ HandInv /\ PageInv
  BY DEF IInv
<1> DEFINE job == Head(jobs)
<1>2. PICK result \in Result : Hand(result) /\ (result = "ok" <=> WriteOk) /\ (result = "error" <=> WriteFailed)
  <2>1. CASE WriteOk
    <3>1. Hand("ok") /\ ~WriteFailed
      BY <2>1 DEF WriteOk, WriteFailed, Hand
    <3> QED
      BY <2>1, <3>1 DEF Result
  <2>2. CASE WriteFailed
    <3>1. Hand("error") /\ ~WriteOk
      BY <2>2 DEF WriteOk, WriteFailed, Hand
    <3> QED
      BY <2>2, <3>1 DEF Result
  <2> QED
    BY <2>1, <2>2 DEF I2cThread
<1>3. /\ jobs # <<>> /\ jobs' = Tail(jobs)
      /\ UNCHANGED <<fb, dirty, want, status, tpc, config, attempt, sent, prep, outstanding>>
  BY DEF I2cThread, WriteOk, WriteFailed, global, display
<1>4. tpc \in OnBus /\ Queued
  BY <1>1, <1>3 DEF HandInv, Answered
<1>5. job \in Job /\ jobs = <<job>> /\ IsFor(job)
  BY <1>4 DEF Queued
<1>6. jobs' = <<>>
  <2>1. PICK written : jobs = <<written>>
    BY <1>5
  <2> QED
    BY <1>3, <2>1
<1>7. /\ \/ UNCHANGED <<lit, ram>>
         \/ Effect(job)
         \/ job.kind = "segment" /\ ram' = [ram EXCEPT ![job.page] = Garbled] /\ UNCHANGED lit
      /\ power' = power /\ faults' \in 0..MaxFaults
      /\ result = "ok" => Effect(job)
  <2>1. faults \in 0..MaxFaults
    BY <1>1 DEF StateInv
  <2>2. faults' \in 0..MaxFaults
    BY <2>1, PagesAssumption DEF I2cThread, WriteOk, WriteFailed
  <2> QED
    BY <1>2, <2>2 DEF I2cThread, WriteOk, WriteFailed, FailedEffect, panel
<1> HIDE DEF job
<1>8. /\ lit' \in Configs \cup {None} /\ ram' \in [Page -> Image \cup {Garbled}]
      /\ SentIsShown'
      /\ (Effect(job) /\ tpc \in {"segment", "last"}) => Shown(sent)'
  BY <1>3, <1>4, <1>5, <1>7, EffectKeeps
<1>9. done' = result /\ waker' = FALSE /\ ready' = (ready \/ waker)
  BY <1>2 DEF Hand
<1>10. StateInv'
  BY <1>1, <1>3, <1>7, <1>8, <1>9 DEF StateInv
<1>11. AwaitInv'
  BY <1>1, <1>3 DEF AwaitInv, Unsent
<1>12. HandInv'
  <2>1. Answered'
    BY <1>6, <1>9 DEF Answered
  <2>2. ready' = TRUE
    BY <1>1, <1>4, <1>9 DEF HandInv, Woken
  <2> QED
    BY <1>3, <1>4, <2>1, <2>2 DEF HandInv, Woken
<1>13. PageInv'
  BY <1>3, <1>7, <1>8, <1>9 DEF PageInv
<1> QED
  BY <1>10, <1>11, <1>12, <1>13 DEF IInv

(* The framebuffer, the configuration and the panel's plug.                *)
LEMMA OutsideKeeps ==
  ASSUME IInv, Render \/ Command \/ Plug \/ Unplug
  PROVE  IInv'
<1>1. StateInv /\ AwaitInv /\ HandInv /\ PageInv
  BY DEF IInv
<1>2. UNCHANGED <<status, tpc, config, attempt, sent, prep, outstanding, jobs, done, waker, ready>>
  BY DEF Render, Command, Plug, Unplug, display, worker
<1>3. AwaitInv'
  BY <1>1, <1>2 DEF AwaitInv, Unsent
<1>4. HandInv'
  BY <1>1, <1>2 DEF HandInv, Woken, Queued, Answered, IsFor
<1>5. (UNCHANGED <<lit, ram>> \/ lit' = None) => PageInv'
  BY <1>1, <1>2 DEF PageInv, SentIsShown, Shown
<1>6. CASE Render
  <2>1. fb' \in [Page -> Pixels] /\ dirty' = TRUE /\ UNCHANGED <<want, power, lit, ram, faults>>
    BY <1>6 DEF Render, panel
  <2>2. StateInv'
    BY <1>1, <1>2, <2>1 DEF StateInv
  <2> QED
    BY <1>3, <1>4, <1>5, <2>1, <2>2 DEF IInv
<1>7. CASE Command
  <2>1. want' \in Configs \cup {None} /\ UNCHANGED <<fb, dirty, power, lit, ram, faults>>
    BY <1>7 DEF Command, panel
  <2>2. StateInv'
    BY <1>1, <1>2, <2>1 DEF StateInv
  <2> QED
    BY <1>3, <1>4, <1>5, <2>1, <2>2 DEF IInv
<1>8. CASE Plug
  <2>1. power' = TRUE /\ UNCHANGED <<fb, dirty, want, lit, ram, faults>>
    BY <1>8 DEF Plug, global
  <2>2. StateInv'
    BY <1>1, <1>2, <2>1 DEF StateInv
  <2> QED
    BY <1>3, <1>4, <1>5, <2>1, <2>2 DEF IInv
<1>9. CASE Unplug
  <2>1. /\ power' = FALSE /\ lit' = None /\ ram' = [p \in Page |-> Garbled]
        /\ UNCHANGED <<fb, dirty, want>> /\ faults' \in 0..MaxFaults
    BY <1>1, <1>9, PagesAssumption DEF Unplug, global, StateInv
  <2>2. ram' \in [Page -> Image \cup {Garbled}]
    BY <2>1
  <2>3. StateInv'
    BY <1>1, <1>2, <2>1, <2>2 DEF StateInv
  <2> QED
    BY <1>3, <1>4, <1>5, <2>1, <2>3 DEF IInv
<1> QED
  BY <1>6, <1>7, <1>8, <1>9

LEMMA Invariance == Spec => []IInv
<1>1. IInv /\ [Next]_vars => IInv'
  <2> SUFFICES ASSUME IInv, [Next]_vars PROVE IInv'
    OBVIOUS
  <2>1. CASE OledTask
    BY <2>1, PollKeeps, FlushStepKeeps, DisplayStepKeeps DEF OledTask
  <2>2. CASE I2cThread
    BY <2>2, ThreadKeeps
  <2>3. CASE Render \/ Command \/ Plug \/ Unplug
    BY <2>3, OutsideKeeps
  <2>4. CASE UNCHANGED vars
    BY <2>4 DEF vars, global, display, worker, panel, IInv, StateInv, AwaitInv, HandInv, PageInv,
                Queued, Answered, IsFor, Woken, SentIsShown, Shown, Unsent
  <2> QED
    BY <2>1, <2>2, <2>3, <2>4 DEF Next
<1> QED
  BY <1>1, InitIInv, PTL DEF Spec

-----------------------------------------------------------------------------
(* The variables hold values of their Rust types, and prep and outstanding *)
(* are there at the awaits that use them.                                  *)
THEOREM TypeCorrect == Spec => []TypeOK
<1>1. IInv => TypeOK
  <2> SUFFICES ASSUME IInv PROVE TypeOK
    OBVIOUS
  <2>1. jobs \in Seq(Job)
    <3>1. CASE Queued
      <4>1. PICK job \in Job : jobs = <<job>>
        BY <3>1 DEF Queued
      <4> QED
        BY <4>1
    <3>2. CASE jobs = <<>>
      BY <3>2
    <3> QED
      BY <3>1, <3>2 DEF IInv, HandInv, Answered
  <2>2. done \in Result \cup {None}
    BY DEF IInv, HandInv, Queued, Answered
  <2> QED
    BY <2>1, <2>2 DEF IInv, StateInv, AwaitInv, HandInv, TypeOK
<1> QED
  BY <1>1, Invariance, PTL

(* Task and thread never lose a buffer and never use one the other has.    *)
THEOREM OneWriteAtATime == Spec => []OneWrite
<1>1. IInv => OneWrite
  <2> SUFFICES ASSUME IInv PROVE OneWrite
    OBVIOUS
  <2>1. CASE tpc \in OnBus /\ Queued
    BY <2>1 DEF Queued, OneWrite
  <2>2. CASE tpc \in OnBus /\ Answered
    BY <2>2, Distinct DEF Answered, OneWrite
  <2>3. CASE tpc \notin OnBus
    BY <2>3 DEF IInv, HandInv, OneWrite
  <2> QED
    BY <2>1, <2>2, <2>3 DEF IInv, HandInv
<1> QED
  BY <1>1, Invariance, PTL

(* No wake-up is missed, in whatever order the two meet.                   *)
THEOREM NoWakeUpLost == Spec => []Woken
<1>1. IInv => Woken
  BY DEF IInv, HandInv
<1> QED
  BY <1>1, Invariance, PTL

(* A page is skipped only if it shows what it should.                      *)
THEOREM SentPagesShown == Spec => []SentIsShown
<1>1. IInv => SentIsShown
  BY DEF IInv, PageInv
<1> QED
  BY <1>1, Invariance, PTL
-----------------------------------------------------------------------------
(***************************************************************************)
(* Frames.  While no newer frame has been rendered, each page flush has    *)
(* come past is as the framebuffer has it, and so is the prepared one.     *)
(***************************************************************************)
Current(p) == sent[p] = Prepared(p)

FrameInv ==
  ~dirty =>
    /\ tpc = "segment" =>
         /\ prep.image = Prepared(prep.page)
         /\ \A p \in Page : p < prep.page => Current(p)
    /\ tpc = "last" => \A p \in Page : Current(p)
    /\ tpc = "idle" => sent = Unsent \/ \A p \in Page : Current(p)

LEMMA SendWhole ==
  ASSUME NEW segment \in Segment, NEW s \in [Page -> Image \cup {None}], Send(segment, s),
         segment.image = Prepared(segment.page),
         \A p \in Page : p < segment.page => s[p] = Prepared(p),
         UNCHANGED <<fb, config>>
  PROVE  FrameInv'
<1> DEFINE marked == [s EXCEPT ![segment.page] = segment.image]
           rest == Changed(segment.page + 1, marked)
<1>1. /\ tpc' = (IF rest = {} THEN "last" ELSE "segment") /\ sent' = marked
      /\ prep' = (IF rest = {} THEN None
                  ELSE [page |-> First(rest), image |-> Prepared(First(rest))])
  BY DEF Send, Submit
<1>2. \A p : Prepared(p)' = Prepared(p)
  BY DEF Prepared
<1>3. segment.page \in Page /\ Page \subseteq Nat
  BY DEF Segment, Page
<1>4. marked[segment.page] = segment.image /\ \A p \in Page : p # segment.page => marked[p] = s[p]
  BY <1>3
<1>5. \A p \in Page : p >= segment.page + 1 /\ p \notin rest => marked[p] = Prepared(p)
  BY DEF Changed
<1>6. rest \in SUBSET Page
  BY DEF Changed
<1>7. rest # {} => First(rest) \in Page /\ \A q \in rest : First(rest) <= q
  BY <1>6, FirstChanged
<1> HIDE DEF marked, rest
<1>8. ASSUME NEW p \in Page, p \notin rest PROVE marked[p] = Prepared(p)
  <2>1. p \in Nat /\ segment.page \in Nat
    BY <1>3
  <2>2. p < segment.page \/ p = segment.page \/ p >= segment.page + 1
    BY <2>1
  <2>3. CASE p < segment.page
    <3>1. p # segment.page /\ s[p] = Prepared(p)
      BY <2>1, <2>3
    <3> QED
      BY <1>4, <3>1
  <2> QED
    BY <1>4, <1>5, <1>8, <2>2, <2>3
<1>9. CASE rest = {}
  BY <1>1, <1>2, <1>8, <1>9 DEF FrameInv, Current
<1>10. CASE rest # {}
  <2>1. ASSUME NEW p \in Page, p < First(rest) PROVE marked[p] = Prepared(p)
    <3>1. p \in Nat /\ First(rest) \in Nat /\ \A q \in rest : First(rest) <= q
      BY <1>3, <1>7, <1>10
    <3>2. p \notin rest
      BY <2>1, <3>1
    <3> QED
      BY <1>8, <3>2
  <2> QED
    BY <1>1, <1>2, <1>10, <2>1 DEF FrameInv, Current
<1> QED
  BY <1>9, <1>10

LEMMA FlushWhole ==
  ASSUME NEW s \in [Page -> Image \cup {None}], Flush(s), fb \in [Page -> Pixels],
         config \in Configs, UNCHANGED <<fb, config>>
  PROVE  FrameInv'
<1> DEFINE first == First(Changed(0, s))
           segment == [page |-> first, image |-> Prepared(first)]
<1>1. Changed(0, s) \in SUBSET Page /\ Changed(0, s) # {} /\ Send(segment, s)
  BY DEF Flush, Changed
<1>2. first \in Page /\ \A q \in Changed(0, s) : first <= q
  BY <1>1, FirstChanged
<1>3. segment \in Segment
  BY <1>2 DEF Segment, Prepared, Image
<1>4. ASSUME NEW p \in Page, p < first PROVE s[p] = Prepared(p)
  <2>1. p \in Nat /\ first \in Nat /\ p \notin Changed(0, s)
    BY <1>2, <1>4 DEF Page
  <2> QED
    BY <2>1 DEF Changed
<1>5. segment.page = first /\ segment.image = Prepared(segment.page)
  OBVIOUS
<1> HIDE DEF segment, first
<1> QED
  BY <1>1, <1>3, <1>4, <1>5, SendWhole

(* A frame that ends leaves all pages current, or is given up for a panel  *)
(* that was initialised again.                                             *)
LEMMA TopOfDisplayWhole ==
  ASSUME StateInv, config \in Configs, NEW s \in [Page -> Image \cup {None}],
         NEW st, NEW force, TopOfDisplay(s, st, force), UNCHANGED fb,
         ~dirty => s = Unsent \/ \A p \in Page : s[p] = Prepared(p)
  PROVE  FrameInv'
<1>1. \A p : Prepared(p)' = Prepared(p) /\ Unsent' = Unsent
  BY DEF TopOfDisplay, Prepared, Unsent
<1>2. CASE Submit("off", [kind |-> "off"])
  BY <1>2 DEF Submit, FrameInv
<1>3. CASE Sleep("idle", s) /\ ~dirty
  BY <1>1, <1>3 DEF Sleep, FrameInv, Current
<1>4. CASE Flush(s)
  <2>1. fb \in [Page -> Pixels] /\ UNCHANGED config
    BY DEF StateInv, TopOfDisplay
  <2> QED
    BY <1>4, <2>1, FlushWhole
<1>5. CASE Sleep("idle", s) /\ Changed(0, s) = {}
  <2>1. \A p \in Page : s[p] = Prepared(p)
    BY <1>5 DEF Changed, Page
  <2> QED
    BY <1>1, <1>5, <2>1 DEF Sleep, FrameInv, Current
<1> QED
  BY <1>2, <1>3, <1>4, <1>5 DEF TopOfDisplay

LEMMA TopOfTaskWhole ==
  ASSUME NEW st, TopOfTask(st)
  PROVE  FrameInv'
BY DEF TopOfTask, Sleep, Initialise, Submit, FrameInv

(* Every step of the task keeps FrameInv.                                  *)
LEMMA TaskWhole ==
  ASSUME IInv, FrameInv, OledTask
  PROVE  FrameInv'
<1>1. StateInv /\ fb \in [Page -> Pixels] /\ sent \in [Page -> Image \cup {None}]
  BY DEF IInv, StateInv, AwaitInv
<1>2. tpc \notin Unconfigured => config \in Configs
  BY DEF IInv, AwaitInv
<1>3. CASE Start \/ PollDisabled \/ PollDead \/ OffOver
  BY <1>3, TopOfTaskWhole DEF Start, PollDisabled, PollDead, OffOver
<1>4. CASE NoThread \/ FlushFailed \/ Reinit
  BY <1>4 DEF NoThread, FlushFailed, Reinit, Initialise, Submit, Sleep, FrameInv
<1>5. CASE PollPending
  BY <1>5 DEF PollPending, global, display, FrameInv, Current, Prepared, Unsent
<1>6. CASE PollIdle
  <2>1. ~dirty => sent = Unsent \/ \A p \in Page : sent[p] = Prepared(p)
    BY <1>6 DEF PollIdle, FrameInv, Current
  <2>2. config \in Configs /\ UNCHANGED fb /\ TopOfDisplay(sent, status, FALSE)
    BY <1>2, <1>6 DEF PollIdle, Unconfigured
  <2> QED
    BY <1>1, <2>1, <2>2, TopOfDisplayWhole
<1>7. CASE InitOk \/ ReinitOver
  <2>1. sent = Unsent /\ config \in Configs /\ UNCHANGED fb
    BY <1>2, <1>7 DEF InitOk, ReinitOver, Completed, IInv, AwaitInv, Unconfigured
  <2>2. PICK st, force : TopOfDisplay(sent, st, force)
    BY <1>7 DEF InitOk, ReinitOver
  <2> QED
    BY <1>1, <2>1, <2>2, TopOfDisplayWhole
<1>8. CASE InitFailed
  <2>1. CASE want = config
    BY <1>8, <2>1 DEF InitFailed, Sleep, FrameInv
  <2>2. CASE want # config
    BY <1>8, <2>2, TopOfTaskWhole DEF InitFailed
  <2> QED
    BY <2>1, <2>2
<1>9. CASE SegmentOk
  <2>1. tpc = "segment" /\ prep \in Segment /\ Send(prep, sent)
        /\ UNCHANGED <<fb, config, dirty>>
    BY <1>9 DEF SegmentOk, Completed, IInv, AwaitInv
  <2>2. CASE ~dirty
    <3>1. /\ prep.image = Prepared(prep.page)
          /\ \A p \in Page : p < prep.page => sent[p] = Prepared(p)
      BY <2>1, <2>2 DEF FrameInv, Current
    <3> QED
      BY <1>1, <2>1, <3>1, SendWhole
  <2>3. CASE dirty
    BY <2>1, <2>3 DEF FrameInv
  <2> QED
    BY <2>2, <2>3
<1>10. CASE LastOk
  <2>1. ~dirty => \A p \in Page : sent[p] = Prepared(p)
    BY <1>10 DEF LastOk, Completed, FrameInv, Current
  <2>2. config \in Configs /\ UNCHANGED fb /\ TopOfDisplay(sent, "Connected", FALSE)
    BY <1>2, <1>10 DEF LastOk, Completed, Unconfigured
  <2> QED
    BY <1>1, <2>1, <2>2, TopOfDisplayWhole
<1>11. CASE Retry
  <2>1. config \in Configs /\ UNCHANGED <<fb, config>> /\ Flush(sent)
    BY <1>2, <1>11 DEF Retry, global, Unconfigured
  <2> QED
    BY <1>1, <2>1, FlushWhole
<1> QED
  BY <1>3, <1>4, <1>5, <1>6, <1>7, <1>8, <1>9, <1>10, <1>11 DEF OledTask

(* Whatever else happens renders a frame, or leaves what is sent alone.    *)
LEMMA FrameInvariance == Spec => []FrameInv
<1>1. Init => FrameInv
  BY DEF Init, FrameInv
<1>2. IInv /\ FrameInv /\ [Next]_vars => FrameInv'
  <2> SUFFICES ASSUME IInv, FrameInv, [Next]_vars PROVE FrameInv'
    OBVIOUS
  <2>1. CASE OledTask
    BY <2>1, TaskWhole
  <2>2. CASE Render
    BY <2>2 DEF Render, FrameInv
  <2>3. CASE UNCHANGED <<fb, dirty, tpc, display>>
    BY <2>3 DEF display, FrameInv, Current, Prepared, Unsent
  <2>4. CASE I2cThread \/ Command \/ Plug \/ Unplug \/ UNCHANGED vars
    BY <2>3, <2>4 DEF I2cThread, WriteOk, WriteFailed, Command, Plug, Unplug, vars, global
  <2> QED
    BY <2>1, <2>2, <2>4 DEF Next
<1> QED
  BY <1>1, <1>2, Invariance, PTL DEF Spec

(* No frame is left half on the panel, however rendering, page writes and  *)
(* failures interleave.                                                    *)
THEOREM FramesWhole == Spec => []FrameWhole
<1>1. IInv /\ FrameInv => FrameWhole
  <2> SUFFICES ASSUME IInv, FrameInv, tpc = "idle", ~dirty, lit = config, sent # Unsent,
                      NEW p \in Page
               PROVE  ram[p] = Prepared(p)
    BY DEF FrameWhole
  <2>1. sent[p] = Prepared(p) /\ config \in Configs
    BY DEF FrameInv, Current, IInv, AwaitInv, Unconfigured
  <2>2. Prepared(p) \in Image
    BY <2>1 DEF IInv, StateInv, Prepared, Image
  <2>3. sent[p] # None /\ config # None
    BY <2>1, <2>2, Distinct
  <2> QED
    BY <2>1, <2>3 DEF IInv, PageInv, SentIsShown
<1> QED
  BY <1>1, Invariance, FrameInvariance, PTL
=============================================================================
