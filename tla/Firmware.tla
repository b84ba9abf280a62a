------------------------------ MODULE Firmware ------------------------------
(***************************************************************************)
(* "ota" uploads and the rollback phase: the loader half of                *)
(* CommandListener (src/command_listener.rs) writes a firmware image into  *)
(* the slot that is not running, heartbeat_task (src/heartbeat.rs) marks   *)
(* the running slot valid, and the bootloader picks a slot.                *)
(*                                                                         *)
(* As in Package, two listeners share one parser, an upload is known by    *)
(* its serial number, and bytes can reach the listener they are not for.   *)
(* Here the unit is what one loader_flush hands on (a chunk), chunk j of   *)
(* upload n being <<n, j>>.  The esp_ota_* API and the bootloader are      *)
(* external; their documented behaviour is modelled.                       *)
(***************************************************************************)
EXTENDS Integers

CONSTANTS
  Listeners,    \* the CommandListeners of uart_task and websocket_task
  Size,         \* chunks in a slot
  SectorLen,    \* chunks in a flash sector
  Lengths,      \* lengths an upload can announce
  None,         \* Option::None
  Erased,       \* flash that can be written
  Garbled,      \* flash written over, or badly written
  Foreign,      \* a chunk that is not the upload's
  MaxCommands,  \* bound on uploads
  MaxReboots,   \* bound on restarts nobody asked for
  MaxFaults     \* bound on flash operations that fail

ASSUME SizeAssumption ==
  /\ Size \in Nat \ {0} /\ SectorLen \in Nat \ {0} /\ Size % SectorLen = 0
  /\ Lengths \subseteq Nat \ {0}
ASSUME BoundsAssumption == MaxCommands \in Nat /\ MaxReboots \in Nat /\ MaxFaults \in Nat

VARIABLES
  image,            \* what is in each slot
  boot, state,      \* otadata: the slot to boot, and the state of each
  running, handles, \* esp_ota: the running slot, and where each open handle is
  listener, load,   \* loader fields of the CommandListeners; the parser's upload
  restarting,       \* a restart was requested, and is about to happen
  rollback_pending, \* Global::sys_status
  phase_over,       \* ROLLBACK_PHASE has passed since boot
  sound, length,    \* history: uploads that verify, and their lengths
  unknown,          \* history: heartbeat_task failed to look up the slot
  env               \* history: commands, reboots and faults so far

uploads == <<image, handles, listener, load, sound, length>>
otadata == <<boot, state>>
phase == <<rollback_pending, phase_over, unknown>>
vars == <<uploads, otadata, running, restarting, phase, env>>

-----------------------------------------------------------------------------
Slots == {0, 1}
Addresses == 0..(Size - 1)
Serials == 1..MaxCommands
Chunks == ((Serials \cup {0}) \X Nat) \cup {Foreign}
Listener == [active : BOOLEAN, failed : BOOLEAN, ota : Serials \cup {None}]
Upload == [by : Listeners, n : Serials, pos : Nat, sent : Nat]
Environments == [commands : 0..MaxCommands, reboots : 0..MaxReboots, faults : 0..MaxFaults]

ASSUME DistinctAssumption ==
  /\ None \notin Nat \cup Upload /\ Foreign \notin (Serials \cup {0}) \X Nat
  /\ Erased \notin Chunks /\ Garbled \notin Chunks \cup {Erased}

(* The variables hold values of their Rust types; no write goes through a  *)
(* handle that is not open.                                                *)
TypeOK ==
  /\ image \in [Slots -> [Addresses -> Chunks \cup {Erased, Garbled}]]
  /\ boot \in Slots /\ running \in Slots
  /\ state \in [Slots -> {"undefined", "new", "pending", "valid", "aborted"}]
  /\ handles \in [Serials -> 0..Size \cup {None}]
  /\ listener \in [Listeners -> Listener]
  /\ \A t \in Listeners :
       LET l == listener[t] IN l.active => l.ota # None /\ handles[l.ota] # None
  /\ load \in Upload \cup {None}
  /\ restarting \in BOOLEAN /\ rollback_pending \in BOOLEAN /\ phase_over \in BOOLEAN
  /\ sound \subseteq Serials \cup {0} /\ length \in [Serials \cup {0} -> Nat]
  /\ unknown \in BOOLEAN /\ env \in Environments

(* All of upload n, or of the factory's image. *)
Holds(content, n) ==
  length[n] \in 1..Size /\ \A j \in 0..(length[n] - 1) : content[j] = <<n, j>>

(* esp_ota_end and the bootloader verify an image: checksum, hash, key. *)
Verifies(content) == \E n \in sound : Holds(content, n)

NewListener == [active |-> FALSE, failed |-> FALSE, ota |-> None]

(* A device flashed over USB: the image in ota_0, and blank otadata. *)
Init ==
  /\ image = [s \in Slots |->
                [i \in Addresses |-> IF s = 0 THEN <<0, i>> ELSE Erased]]
  /\ boot = 0 /\ state = [s \in Slots |-> "undefined"]
  /\ running = 0 /\ handles = [n \in Serials |-> None]
  /\ listener = [t \in Listeners |-> NewListener] /\ load = None
  /\ restarting = FALSE /\ rollback_pending = FALSE /\ phase_over = FALSE
  /\ sound = {0} /\ length = [n \in Serials \cup {0} |-> IF n = 0 THEN Size ELSE 0]
  /\ unknown = FALSE
  /\ env = [commands |-> 0, reboots |-> 0, faults |-> 0]

-----------------------------------------------------------------------------
(* esp_ota_get_next_update_partition. *)
NextSlot == 1 - running

(* esp_ota_abort, and the end of esp_ota_end. *)
Close(h, n) == IF n = None THEN h ELSE [h EXCEPT ![n] = None]

(* Mutant of Release: the handle of an upload given up is forgotten. *)
ReleaseNothing(t) == handles

(* What an earlier upload left open is released first. *)
Release(t) == Close(handles, listener[t].ota)

Command(fine) ==
  /\ ~restarting /\ load = None
  /\ env.commands < MaxCommands
  /\ fine \/ env.faults < MaxFaults
  /\ env' = [env EXCEPT !.commands = @ + 1, !.faults = IF fine THEN @ ELSE @ + 1]

(* Mutant of Begins: not refused in the rollback phase. *)
BeginsAnyway(len, fine) == len <= Size /\ fine

(* ota_start gets a handle. *)
Begins(len, fine) == len <= Size /\ state[running] # "pending" /\ fine

(* Mutant of Started: once failed, always failed. *)
StartedFailed(t, n, accepted) ==
  [active |-> accepted, failed |-> listener[t].failed, ota |-> IF accepted THEN n ELSE None]

(* The loader fields at the start of an upload. *)
Started(t, n, accepted) ==
  [active |-> accepted, failed |-> FALSE, ota |-> IF accepted THEN n ELSE None]

(* process_loader_start and ota_start.  The parser takes the upload in,    *)
(* and may do so even when the listener has refused it.                    *)
OtaStart(t, len, verifies, fine) ==
  LET n == env.commands + 1
      accepted == Begins(len, fine)
      upload == [by |-> t, n |-> n, pos |-> 0, sent |-> 0]
  IN  /\ Command(fine)
      /\ handles' = [Release(t) EXCEPT ![n] = IF accepted THEN 0 ELSE None]
      /\ listener' = [listener EXCEPT ![t] = Started(t, n, accepted)]
      /\ load' \in IF accepted THEN {upload} ELSE {upload, None}
      /\ sound' = IF verifies THEN sound \cup {n} ELSE sound
      /\ length' = [length EXCEPT ![n] = len]
      /\ UNCHANGED <<image, otadata, running, restarting, phase>>

(* process_loader_start of a "pkg" upload: its data does not go here, but  *)
(* while it is taken in the other listener can be given some.              *)
PkgStart(t, len) ==
  LET n == env.commands + 1
      upload == [by |-> t, n |-> n, pos |-> 0, sent |-> 0]
  IN  /\ Command(TRUE)
      /\ handles' = Release(t)
      /\ listener' = [listener EXCEPT ![t] = NewListener]
      /\ load' \in {upload, None}
      /\ length' = [length EXCEPT ![n] = len]
      /\ UNCHANGED <<image, sound, otadata, running, restarting, phase>>

(* esp_ota_write with OTA_WITH_SEQUENTIAL_WRITES: a sector is erased when  *)
(* its first chunk comes; flash takes a chunk only where it is erased.     *)
Programmed(content, pos, chunk) ==
  LET fresh == [i \in Addresses |->
                  IF pos % SectorLen = 0 /\ i \in pos..(pos + SectorLen - 1)
                    THEN Erased ELSE content[i]]
  IN  [fresh EXCEPT ![pos] = IF @ = Erased THEN chunk ELSE Garbled]

(* loader_flush and ota_write.  Once a write has failed the rest of the    *)
(* upload is only taken in; a failing one may spoil the flash.             *)
Writes(t) == listener[t].active /\ ~listener[t].failed
Fits(t) == handles[listener[t].ota] < Size
Flushed(t, chunk, result) ==
  LET n == listener[t].ota
      slot == NextSlot
  IN  IF Writes(t) /\ Fits(t) /\ result = "ok"
        THEN [image |-> [image EXCEPT ![slot] = Programmed(@, handles[n], chunk)],
              handles |-> [handles EXCEPT ![n] = @ + 1], failed |-> FALSE]
        ELSE [image |-> IF Writes(t) /\ Fits(t) /\ result = "spoilt"
                          THEN [image EXCEPT ![slot][handles[n]] = Garbled] ELSE image,
              handles |-> handles, failed |-> listener[t].failed \/ Writes(t)]

Results == {"ok", "spoilt", "untouched"}

(* What t is given: a chunk of the upload, or one from elsewhere. *)
Given(t) == IF t = load.by THEN <<load.n, load.sent>> ELSE Foreign
IsLast == load.pos + 1 = length[load.n]

CanFail(t) == Writes(t) /\ Fits(t)

(* esp_ota_write refuses a first chunk that does not start an image. *)
Refusable(t) == CanFail(t) /\ handles[listener[t].ota] = 0 /\ t # load.by
Expected(t, result) == result = "ok" \/ Refusable(t)

Fault(fine) ==
  /\ fine \/ env.faults < MaxFaults
  /\ env' = IF fine THEN env ELSE [env EXCEPT !.faults = @ + 1]

(* process_loader_data, up to a loader_flush. *)
Chunk(t, result) ==
  LET after == Flushed(t, Given(t), result)
  IN  /\ ~restarting /\ load # None /\ ~IsLast
      /\ result # "ok" => CanFail(t)
      /\ Fault(Expected(t, result))
      /\ image' = after.image /\ handles' = after.handles
      /\ listener' = [listener EXCEPT ![t].failed = after.failed]
      /\ load' = [load EXCEPT !.pos = @ + 1, !.sent = IF t = load.by THEN @ + 1 ELSE @]
      /\ UNCHANGED <<sound, length, otadata, running, restarting, phase>>

(* Mutant of Activates: the image is not verified. *)
ActivatesUnverified(t, after, fine) == listener[t].active /\ ~after.failed /\ fine

(* ota_end has a handle, no write has failed, esp_ota_end verifies the     *)
(* image and esp_ota_set_boot_partition succeeds.                          *)
Activates(t, after, fine) ==
  listener[t].active /\ ~after.failed /\ Verifies(after.image[NextSlot]) /\ fine

(* The last chunk, process_loader_end and ota_end.  A restart follows the  *)
(* acknowledgement before any other task runs.                             *)
LastChunk(t, result, fine) ==
  LET after == Flushed(t, Given(t), result)
      done == Activates(t, after, fine)
  IN  /\ ~restarting /\ load # None /\ IsLast
      /\ result # "ok" => CanFail(t)
      /\ ~fine => listener[t].active
      /\ Fault(Expected(t, result) /\ fine)
      /\ image' = after.image
      /\ handles' = Close(after.handles, listener[t].ota)
      /\ listener' = [listener EXCEPT ![t] = [@ EXCEPT !.active = FALSE, !.failed = after.failed,
                                                       !.ota = None]]
      /\ load' = None
      /\ boot' = IF done THEN NextSlot ELSE boot
      /\ state' = IF done THEN [state EXCEPT ![NextSlot] = "new"] ELSE state
      /\ restarting' = done
      /\ UNCHANGED <<sound, length, running, phase>>

(* The connection is gone, and the parser gives up on the rest. *)
Abandon ==
  /\ ~restarting /\ load # None
  /\ load' = None
  /\ UNCHANGED <<image, handles, listener, sound, length, otadata, running, restarting,
                 phase, env>>

CommandListener ==
  \/ \E t \in Listeners, len \in Lengths, verifies, fine \in BOOLEAN :
       OtaStart(t, len, verifies, fine)
  \/ \E t \in Listeners, len \in Lengths : PkgStart(t, len)
  \/ \E t \in Listeners, result \in Results : Chunk(t, result)
  \/ \E t \in Listeners, result \in Results, fine \in BOOLEAN : LastChunk(t, result, fine)
  \/ Abandon

-----------------------------------------------------------------------------
(* ROLLBACK_PHASE has passed. *)
PhaseOver ==
  /\ ~restarting /\ ~phase_over
  /\ phase_over' = TRUE
  /\ UNCHANGED <<uploads, otadata, running, restarting, rollback_pending, unknown, env>>

(* Mutant of MarkValid: one attempt. *)
MarkValidOnce(fine) ==
  /\ ~restarting /\ rollback_pending /\ phase_over
  /\ Fault(fine)
  /\ state' = IF fine THEN [state EXCEPT ![running] = "valid"] ELSE state
  /\ rollback_pending' = FALSE
  /\ UNCHANGED <<uploads, boot, running, restarting, phase_over, unknown>>

(* A lap of heartbeat_task marks the running slot valid, or fails to. *)
MarkValid(fine) ==
  /\ ~restarting /\ rollback_pending /\ phase_over
  /\ Fault(fine)
  /\ state' = IF fine THEN [state EXCEPT ![running] = "valid"] ELSE state
  /\ rollback_pending' = ~fine
  /\ UNCHANGED <<uploads, boot, running, restarting, phase_over, unknown>>

(* The bootloader: a slot still pending is given up; the slot to boot is   *)
(* booted unless it was given up or does not verify.                       *)
AfterReset == [s \in Slots |-> IF state[s] = "pending" THEN "aborted" ELSE state[s]]
Selected ==
  IF AfterReset[boot] # "aborted" /\ Verifies(image[boot]) THEN boot ELSE 1 - boot

(* A restart, requested or not, and heartbeat_task's look at its slot. *)
Reboot(fine) ==
  /\ restarting \/ env.reboots < MaxReboots
  /\ fine \/ env.faults < MaxFaults
  /\ env' = [env EXCEPT !.reboots = IF restarting THEN @ ELSE @ + 1,
                        !.faults = IF fine THEN @ ELSE @ + 1]
  /\ running' = Selected
  /\ state' = [AfterReset EXCEPT ![Selected] = IF @ = "new" THEN "pending" ELSE @]
  /\ handles' = [n \in Serials |-> None]
  /\ listener' = [t \in Listeners |-> NewListener] /\ load' = None
  /\ restarting' = FALSE /\ phase_over' = FALSE
  /\ rollback_pending' = (fine /\ state'[running'] = "pending")
  /\ unknown' = ~fine
  /\ UNCHANGED <<image, sound, length, boot>>

Next ==
  \/ CommandListener
  \/ PhaseOver
  \/ \E fine \in BOOLEAN : MarkValid(fine) \/ Reboot(fine)

(* heartbeat_task runs every 5 s, and a requested restart happens. *)
Fairness ==
  /\ WF_vars(PhaseOver)
  /\ WF_vars(\E fine \in BOOLEAN : MarkValid(fine))
  /\ WF_vars(restarting /\ \E fine \in BOOLEAN : Reboot(fine))

Spec == Init /\ [][Next]_vars
FairSpec == Spec /\ Fairness

-----------------------------------------------------------------------------
(* Whenever the power fails, the bootloader finds a whole, verified image, *)
(* and finds it in the slot it is told to boot unless that one was rolled  *)
(* back: an upload that is given up, mixed up, cut off or badly written    *)
(* never costs the device its firmware (command_listener.rs:745-752).      *)
Bootable ==
  Verifies(image[Selected]) /\ (Selected # boot => AfterReset[boot] = "aborted")

(* As long as the running firmware is on probation, the other slot holds   *)
(* an image to roll back to (command_listener.rs:768-769).                 *)
FallbackKept == state[running] = "pending" => Verifies(image[1 - running])

(* esp_ota's open handles are those the listeners hold: none is lost when  *)
(* an upload is given up, and none is used after it was closed             *)
(* (command_listener.rs:600-604).                                          *)
HandlesHeld ==
  {n \in Serials : handles[n] # None} = {listener[t].ota : t \in Listeners} \ {None}

(* The popup and heartbeat_task know whether the firmware is on probation, *)
(* unless it could not be looked up (global.rs:155-157).                   *)
RollbackShown == rollback_pending <=> (state[running] = "pending" /\ ~unknown)

(* A good image, all of whose chunks were its own, is what the device      *)
(* restarts into unless a flash operation fails, whatever was uploaded or  *)
(* refused before (command_listener.rs:745-752).                           *)
UpdateBoots ==
  [][\A t \in Listeners :
       (/\ load # None /\ load.by = t /\ load.pos = load.sent /\ load.n \in sound
        /\ listener[t].active /\ ~listener'[t].active /\ env' = env /\ env.faults = 0)
         => (restarting' /\ \A j \in 0..(length[load.n] - 1) :
                              image'[Selected'][j] = <<load.n, j>>)]_vars

(* Once there are no more restarts, the running firmware does not stay on  *)
(* probation, unless it could not be looked up (heartbeat.rs:39-51).       *)
UpdateConfirmed == <>[](state[running] = "pending" => unknown)

(* A slot's firmware, and the phase of an update. *)
FirmwareIn(content) ==
  IF Verifies(content) THEN CHOOSE n \in sound : Holds(content, n) ELSE None
Phase ==
  CASE restarting -> "installed"
    [] ~restarting /\ state[running] = "pending" -> "trial"
    [] OTHER -> "steady"

U == INSTANCE Update WITH
  Firmwares <- Serials \cup {0}, phase <- Phase,
  runs <- FirmwareIn(image[running]), boots <- FirmwareIn(image[Selected])

(* Firmware implements Update: what runs and what would run change only by *)
(* a whole image taking effect at once, its trial, and its confirmation or *)
(* rollback; not while chunks are written, refused, mixed up or lost       *)
(* (command_listener.rs:745-806, heartbeat.rs:28-51).                      *)
UpdateSpec == U!Spec
=============================================================================
