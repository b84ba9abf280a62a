-------------------------------- MODULE Oled --------------------------------
(***************************************************************************)
(* oled_task (src/oled.rs): it follows Global::oled_config, initialises    *)
(* the panel, and flushes the framebuffer to it page by page, through two  *)
(* buffers and an I2C thread of its own; a page whose hash is the one last *)
(* sent is skipped.                                                        *)
(*                                                                         *)
(* One action is what the task does between two awaits, and tpc names the  *)
(* await.  The thread runs alongside; the two meet in Completion, which is *)
(* behind a mutex.  An image is what one page of the framebuffer looks     *)
(* like under a configuration; its hash is taken to tell images apart.     *)
(***************************************************************************)
EXTENDS Integers, Sequences, FiniteSets

CONSTANTS
  Pages,        \* number of pages of the panel
  Pixels,       \* what a page of the framebuffer can hold
  Configs,      \* configurations "#oled" can set
  None,         \* Option::None
  Garbled,      \* display RAM that was never, or badly, written
  MaxFaults     \* bound on failing writes and lost power

ASSUME PagesAssumption == Pages \in Nat \ {0} /\ MaxFaults \in Nat
ASSUME NoneAssumption == None \notin Configs

VARIABLES
  fb, dirty, want,          \* Global: display_buffer, display_buffer_dirty, oled_config
  status,                   \* Global::oled_status
  tpc, config, attempt,     \* oled_task, and run_display's locals
  sent, prep, outstanding,  \* OledDisplay's sent and prep, and flush's local
  jobs, done, waker,        \* I2cWorker: channel and Completion
  ready,                    \* the executor is to poll oled_task
  power, lit, ram,          \* the panel: powered, initialised as, contents
  faults                    \* history: failing writes and power losses so far

global == <<fb, dirty, want>>
display == <<config, attempt, sent, prep, outstanding>>
worker == <<jobs, done, waker, ready>>
panel == <<power, lit, ram>>
vars == <<global, status, tpc, display, worker, panel, faults>>

-----------------------------------------------------------------------------
Page == 0..(Pages - 1)
Image == Configs \X Pixels
Segment == [page : Page, image : Image]

(* What is written in one I2C transaction. *)
Job == [kind : {"init", "off"}] \cup [kind : {"segment"}, page : Page, image : Image]
Result == {"ok", "error"}
ASSUME DistinctAssumption ==
  None \notin Image \cup Segment \cup Page \cup Result /\ Garbled \notin Image

OnBus == {"init", "segment", "last", "reinit", "off"}

(* The variables hold values of their Rust types; at an await, every write *)
(* is of the kind that await is for.                                       *)
TypeOK ==
  /\ fb \in [Page -> Pixels] /\ dirty \in BOOLEAN /\ want \in Configs \cup {None}
  /\ status \in {"Initializing", "Disabled", "Connected", "Failed"}
  /\ tpc \in OnBus \cup {"boot", "stopped", "disabled", "idle", "dead", "pause"}
  /\ config \in Configs \cup {None} /\ attempt \in 1..3
  /\ sent \in [Page -> Image \cup {None}]
  /\ prep \in Segment \cup {None} /\ (tpc = "segment" <=> prep # None)
  /\ outstanding \in Page \cup {None} /\ (tpc \in {"segment", "last"} <=> outstanding # None)
  /\ jobs \in Seq(Job) /\ done \in Result \cup {None}
  /\ waker \in BOOLEAN /\ ready \in BOOLEAN
  /\ power \in BOOLEAN /\ lit \in Configs \cup {None}
  /\ ram \in [Page -> Image \cup {Garbled}]
  /\ faults \in 0..MaxFaults

(* OledDisplay::prepare. *)
Prepared(page) == <<config, fb[page]>>
Unsent == [p \in Page |-> None]

Init ==
  /\ fb \in [Page -> Pixels] /\ dirty = FALSE /\ want \in Configs \cup {None}
  /\ status = "Initializing"
  /\ tpc = "boot" /\ config = None /\ attempt = 1
  /\ sent = Unsent /\ prep = None /\ outstanding = None
  /\ jobs = <<>> /\ done = None /\ waker = FALSE /\ ready = FALSE
  /\ power \in BOOLEAN /\ lit = None /\ ram = [p \in Page |-> Garbled]
  /\ faults = 0

-----------------------------------------------------------------------------
(* A buffer goes to the thread; the task is to poll for its return. *)
Submit(at, job) == tpc' = at /\ jobs' = Append(jobs, job) /\ ready' = TRUE

(* An await that is not for the bus. *)
Sleep(at, s) ==
  /\ tpc' = at /\ sent' = s /\ prep' = None /\ outstanding' = None
  /\ ready' = FALSE /\ UNCHANGED jobs

(* Mutant of Initialise: what the panel was sent before still counts. *)
InitialiseOnly(at) ==
  /\ Submit(at, [kind |-> "init"])
  /\ prep' = None /\ outstanding' = None /\ UNCHANGED sent

(* OledDisplay::init, up to its await. *)
Initialise(at) ==
  /\ Submit(at, [kind |-> "init"])
  /\ sent' = Unsent /\ prep' = None /\ outstanding' = None

(* Pages from p on whose image differs from the one in s. *)
Changed(p, s) == {q \in Page : q >= p /\ s[q] # Prepared(q)}
First(pages) == CHOOSE p \in pages : \A q \in pages : p <= q

(* flush sends a page and prepares the next one that changed, before it    *)
(* awaits the write.                                                       *)
Send(segment, s) ==
  LET marked == [s EXCEPT ![segment.page] = segment.image]
      rest == Changed(segment.page + 1, marked)
  IN  /\ Submit(IF rest = {} THEN "last" ELSE "segment",
                [kind |-> "segment", page |-> segment.page, image |-> segment.image])
      /\ sent' = marked /\ outstanding' = segment.page
      /\ prep' = IF rest = {} THEN None
                 ELSE [page |-> First(rest), image |-> Prepared(First(rest))]

(* flush from the first page on, up to its first await. *)
Flush(s) ==
  LET first == First(Changed(0, s))
  IN  Changed(0, s) # {} /\ Send([page |-> first, image |-> Prepared(first)], s)

(* The top of oled_task's loop; the display is made anew. *)
TopOfTask(st) ==
  /\ config' = want /\ attempt' = 1
  /\ IF want = None
       THEN status' = "Disabled" /\ Sleep("disabled", Unsent)
       ELSE status' = st /\ Initialise("init")
  /\ UNCHANGED dirty

(* The top of run_display's loop, on a display that was initialised. *)
TopOfDisplay(s, st, force) ==
  \/ /\ want # config
     /\ Submit("off", [kind |-> "off"])
     /\ sent' = s /\ prep' = None /\ outstanding' = None
     /\ status' = st
     /\ UNCHANGED <<dirty, config, attempt>>
  \/ /\ want = config /\ ~(dirty \/ force)
     /\ Sleep("idle", s)
     /\ status' = st
     /\ UNCHANGED <<dirty, config, attempt>>
  \/ /\ want = config /\ (dirty \/ force) /\ Changed(0, s) # {}
     /\ Flush(s)
     /\ dirty' = FALSE /\ attempt' = 1 /\ status' = st
     /\ UNCHANGED config
  \/ /\ want = config /\ (dirty \/ force) /\ Changed(0, s) = {}
     /\ Sleep("idle", s)
     /\ dirty' = FALSE /\ attempt' = 1 /\ status' = "Connected"
     /\ UNCHANGED config

-----------------------------------------------------------------------------
(* The configuration is in Global, and the I2C thread is started. *)
Start ==
  /\ tpc = "boot"
  /\ TopOfTask(status)
  /\ UNCHANGED <<fb, want, done, waker, panel, faults>>

NoThread ==
  /\ tpc = "boot" /\ faults < MaxFaults
  /\ status' = "Failed" /\ tpc' = "stopped" /\ faults' = faults + 1
  /\ UNCHANGED <<global, display, worker, panel>>

(* The 50 ms poll of a disabled display. *)
PollDisabled ==
  /\ tpc = "disabled" /\ want # None
  /\ TopOfTask(status)
  /\ UNCHANGED <<fb, want, done, waker, panel, faults>>

(* The 1 ms poll of a display that could not be initialised. *)
PollDead ==
  /\ tpc = "dead" /\ want # config
  /\ TopOfTask(status)
  /\ UNCHANGED <<fb, want, done, waker, panel, faults>>

(* The 1 ms poll between frames. *)
PollIdle ==
  /\ tpc = "idle" /\ (dirty \/ want # config)
  /\ TopOfDisplay(sent, status, FALSE)
  /\ UNCHANGED <<fb, want, done, waker, panel, faults>>

(* I2cWorker::complete finds nothing yet, and leaves its waker. *)
PollPending ==
  /\ tpc \in OnBus /\ ready /\ done = None
  /\ waker' = TRUE /\ ready' = FALSE
  /\ UNCHANGED <<global, status, tpc, display, jobs, done, panel, faults>>

(* I2cWorker::complete returns, and the buffer is back. *)
Completed(at, result) ==
  /\ tpc = at /\ ready /\ done = result
  /\ done' = None
  /\ UNCHANGED <<fb, want, waker, panel, faults>>

(* The first frame goes out right away. *)
InitOk ==
  /\ Completed("init", "ok")
  /\ TopOfDisplay(sent, "Connected", TRUE)

(* The display stays as it is until the configuration changes. *)
InitFailed ==
  /\ Completed("init", "error")
  /\ IF want = config
       THEN status' = "Failed" /\ Sleep("dead", sent) /\ UNCHANGED <<dirty, config, attempt>>
       ELSE TopOfTask("Failed")

(* The page is written; the prepared one goes out. *)
SegmentOk ==
  /\ Completed("segment", "ok")
  /\ Send(prep, sent)
  /\ UNCHANGED <<dirty, status, config, attempt>>

(* Mutant of LastOk: the flag is cleared when the frame is on the panel. *)
LastOkClears ==
  /\ Completed("last", "ok")
  /\ Sleep("idle", sent)
  /\ dirty' = FALSE /\ status' = "Connected"
  /\ UNCHANGED <<config, attempt>>

LastOk ==
  /\ Completed("last", "ok")
  /\ TopOfDisplay(sent, "Connected", FALSE)

(* Mutant of Forget: a failed write counts as sent. *)
Remember(p) == sent

(* A failed write's hash is forgotten. *)
Forget(p) == [sent EXCEPT ![p] = None]

(* The first failed write ends the attempt; 10 ms pass. *)
FlushFailed ==
  /\ Completed("segment", "error") \/ Completed("last", "error")
  /\ Sleep("pause", Forget(outstanding))
  /\ UNCHANGED <<dirty, status, config, attempt>>

(* Another attempt; the page that failed is still to be sent. *)
Retry ==
  /\ tpc = "pause" /\ attempt < 3
  /\ attempt' = attempt + 1
  /\ Flush(sent)
  /\ UNCHANGED <<global, status, config, done, waker, panel, faults>>

(* After three failed attempts the panel is initialised again. *)
Reinit ==
  /\ tpc = "pause" /\ attempt = 3
  /\ Initialise("reinit")
  /\ UNCHANGED <<global, status, config, attempt, done, waker, panel, faults>>

ReinitOver ==
  \/ /\ Completed("reinit", "ok")
     /\ TopOfDisplay(sent, "Connected", FALSE)
  \/ /\ Completed("reinit", "error")
     /\ TopOfDisplay(sent, "Failed", FALSE)

(* A failure to switch the panel off is only logged. *)
OffOver ==
  /\ Completed("off", "ok") \/ Completed("off", "error")
  /\ TopOfTask(status)

OledTask ==
  \/ Start \/ NoThread \/ PollDisabled \/ PollDead \/ PollIdle \/ PollPending
  \/ InitOk \/ InitFailed \/ SegmentOk \/ LastOk \/ FlushFailed
  \/ Retry \/ Reinit \/ ReinitOver \/ OffOver

-----------------------------------------------------------------------------
(* What a write does to the panel.  A page sent to a panel that was not    *)
(* initialised as it expects can end up anywhere.                          *)
Effect(job) ==
  \/ job.kind = "init" /\ lit' = config /\ UNCHANGED ram
  \/ job.kind = "off" /\ lit' = None /\ UNCHANGED ram
  \/ /\ job.kind = "segment"
     /\ \E image \in {job.image} \cup (IF lit = config THEN {} ELSE {Garbled}) :
          ram' = [ram EXCEPT ![job.page] = image]
     /\ UNCHANGED lit

(* A failed write had its effect, none, or spoiled the page. *)
FailedEffect(job) ==
  \/ UNCHANGED panel
  \/ power /\ Effect(job) /\ UNCHANGED power
  \/ /\ power /\ job.kind = "segment"
     /\ ram' = [ram EXCEPT ![job.page] = Garbled]
     /\ UNCHANGED <<power, lit>>

(* Mutant of Hand: nobody is woken. *)
HandQuietly(result) == done' = result /\ UNCHANGED <<waker, ready>>

(* The thread hands the buffer back, and wakes who waits for it. *)
Hand(result) == done' = result /\ waker' = FALSE /\ ready' = (ready \/ waker)

(* The thread writes the next buffer. *)
WriteOk ==
  /\ jobs # <<>> /\ power
  /\ Effect(Head(jobs)) /\ UNCHANGED power
  /\ jobs' = Tail(jobs) /\ Hand("ok")
  /\ UNCHANGED <<global, status, tpc, display, faults>>

WriteFailed ==
  /\ jobs # <<>>
  /\ power => faults < MaxFaults
  /\ faults' = IF power THEN faults + 1 ELSE faults
  /\ FailedEffect(Head(jobs))
  /\ jobs' = Tail(jobs) /\ Hand("error")
  /\ UNCHANGED <<global, status, tpc, display>>

I2cThread == WriteOk \/ WriteFailed

-----------------------------------------------------------------------------
(* nodem_task renders a frame. *)
Render ==
  /\ fb' \in [Page -> Pixels] /\ dirty' = TRUE
  /\ UNCHANGED <<want, status, tpc, display, worker, panel, faults>>

(* "#oled" and "#factory". *)
Command ==
  /\ want' \in (Configs \cup {None}) \ {want}
  /\ UNCHANGED <<fb, dirty, status, tpc, display, worker, panel, faults>>

(* The panel is plugged in, or loses its power. *)
Plug ==
  /\ ~power /\ power' = TRUE
  /\ UNCHANGED <<global, status, tpc, display, worker, lit, ram, faults>>

Unplug ==
  /\ power /\ faults < MaxFaults
  /\ power' = FALSE /\ lit' = None /\ ram' = [p \in Page |-> Garbled]
  /\ faults' = faults + 1
  /\ UNCHANGED <<global, status, tpc, display, worker>>

Next == OledTask \/ I2cThread \/ Render \/ Command \/ Plug \/ Unplug

(* The executor polls the task whenever its timer is up or it was woken,   *)
(* nodem_task renders 60 frames a second, and the thread is scheduled.     *)
Fairness == WF_vars(OledTask) /\ WF_vars(I2cThread) /\ WF_vars(~dirty /\ Render)

Spec == Init /\ [][Next]_vars
FairSpec == Spec /\ Fairness

-----------------------------------------------------------------------------
(* The task and the thread hand one write back and forth: while the task   *)
(* awaits the bus exactly one is queued or done, and otherwise none, so    *)
(* the buffer that flush and send_prep expect to find is always there      *)
(* (oled.rs:312-314, 415, 471).                                            *)
OneWrite ==
  Len(jobs) + (IF done = None THEN 0 ELSE 1) = (IF tpc \in OnBus THEN 1 ELSE 0)

(* A task that waits to be woken is woken: its waker is there for as long  *)
(* as the write is under way.                                              *)
Woken == (tpc \in OnBus /\ ~ready) => (waker /\ jobs # <<>>)

(* A page that is skipped because its hash is the one last sent does show  *)
(* that image, on a panel that has been initialised and kept its power     *)
(* since (oled.rs:380-382).                                                *)
SentIsShown ==
  \A p \in Page :
    (/\ sent[p] # None /\ lit = config /\ config # None
     /\ ~(tpc \in {"segment", "last"} /\ p = outstanding)) => ram[p] = sent[p]

(* At rest an initialised panel shows the whole of the last frame, never   *)
(* parts of two: a page that changes while others are on the bus gets a    *)
(* frame of its own.  Only a panel that was initialised again after failed *)
(* writes waits for the next frame (oled.rs:671-673).                      *)
FrameWhole ==
  (tpc = "idle" /\ ~dirty /\ lit = config) =>
    (sent = Unsent \/ \A p \in Page : ram[p] = Prepared(p))

(* Once the framebuffer, the configuration and the panel stay as they are, *)
(* the panel ends up showing the framebuffer, whatever failed before,      *)
(* unless the display was given up at its first initialisation             *)
(* (oled.rs:680-690).                                                      *)
PanelCatchesUp ==
  \A f \in [Page -> Pixels], c \in Configs :
    <>[](fb = f /\ want = c /\ config = c /\ lit = c /\ tpc # "dead")
      => <>[](\A p \in Page : ram[p] = <<c, f[p]>>)
=============================================================================
