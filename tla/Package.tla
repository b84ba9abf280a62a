------------------------------- MODULE Package ------------------------------
(***************************************************************************)
(* "pkg" uploads: the loader half of CommandListener                       *)
(* (src/command_listener.rs) writes the "pkg" partition, and nodem_task    *)
(* (src/nodem.rs) loads what is there into the Media, which from then on   *)
(* points straight into that flash.                                        *)
(*                                                                         *)
(* uart_task and websocket_task have a CommandListener each, but share one *)
(* command parser, Global::runtime: while it takes in an upload, whatever  *)
(* arrives over the other transport counts as upload data too, and goes to *)
(* the other listener.  Uploads are known by their serial number, and byte *)
(* j of upload n is <<n, j>>.                                              *)
(***************************************************************************)
EXTENDS Integers, Sequences

CONSTANTS
  Listeners,    \* the CommandListeners of uart_task and websocket_task
  Size,         \* bytes in the "pkg" partition
  EraseSize,    \* bytes in an erase block
  ChunkLen,     \* LOADER_CHUNK_LEN
  Lengths,      \* lengths an upload can announce
  None,         \* Option::None
  Erased,       \* a flash byte that can be written
  Garbled,      \* a flash byte written over, or badly written
  Foreign,      \* a byte that is not the upload's
  MaxCommands,  \* bound on uploads and "#factory" commands
  MaxReboots,   \* bound on restarts and power losses
  MaxFaults     \* bound on flash operations that fail

ASSUME SizeAssumption ==
  /\ Size \in Nat \ {0} /\ EraseSize \in Nat \ {0} /\ Size % EraseSize = 0
  /\ ChunkLen \in Nat \ {0} /\ Lengths \subseteq Nat \ {0}
ASSUME BoundsAssumption == MaxCommands \in Nat /\ MaxReboots \in Nat /\ MaxFaults \in Nat

VARIABLES
  flash,        \* the "pkg" partition
  listener,     \* the loader fields of each CommandListener
  load,         \* Global::runtime: the upload its parser is taking in
  pkg_reload, pkg_size, \* Global
  media,        \* the package the live Media points into
  unseen,       \* history: nodem_task neither saw nor was told what is in flash
  length,       \* history: the length each upload announced
  env           \* history: commands, reboots and faults so far

vars == <<flash, listener, load, pkg_reload, pkg_size, media, unseen, length, env>>

-----------------------------------------------------------------------------
Addresses == 0..(Size - 1)
Serials == 1..MaxCommands
Bytes == (Serials \X Nat) \cup {Foreign}
Cells == Bytes \cup {Erased, Garbled}
Listener == [active : BOOLEAN, buf : Seq(Bytes), failed : BOOLEAN, written : Nat]
Upload == [by : Listeners, n : Serials, pos : Nat, sent : Nat]
Environments == [commands : 0..MaxCommands, reboots : 0..MaxReboots, faults : 0..MaxFaults]

ASSUME DistinctAssumption ==
  /\ None \notin Serials \cup Upload /\ Foreign \notin Serials \X Nat
  /\ Erased \notin Bytes /\ Garbled \notin Bytes \cup {Erased}

(* The variables hold values of their Rust types; loader_buf, written one  *)
(* byte at a time without a check, never overflows.                        *)
TypeOK ==
  /\ flash \in [Addresses -> Cells]
  /\ listener \in [Listeners -> Listener]
  /\ \A t \in Listeners : Len(listener[t].buf) < ChunkLen
  /\ load \in Upload \cup {None}
  /\ pkg_reload \in BOOLEAN /\ pkg_size \in Nat
  /\ media \in Serials \cup {None} /\ unseen \in BOOLEAN
  /\ length \in [Serials -> Nat]
  /\ env \in Environments

(* The partition holds upload n, all of it. *)
Intact(n) ==
  /\ length[n] \in 1..Size
  /\ \A j \in 0..(length[n] - 1) : flash[j] = <<n, j>>

(* CommandListener::new; an upload that is over leaves it inactive. *)
NewListener == [active |-> FALSE, buf |-> <<>>, failed |-> FALSE, written |-> 0]

Init ==
  /\ flash = [i \in Addresses |-> Erased]
  /\ listener = [t \in Listeners |-> NewListener]
  /\ load = None
  /\ pkg_reload = FALSE /\ pkg_size = 0 /\ media = None /\ unseen = FALSE
  /\ length = [n \in Serials |-> 0]
  /\ env = [commands |-> 0, reboots |-> 0, faults |-> 0]

-----------------------------------------------------------------------------
Command(fine) ==
  /\ env.commands < MaxCommands
  /\ fine \/ env.faults < MaxFaults
  /\ env' = [env EXCEPT !.commands = @ + 1, !.faults = IF fine THEN @ ELSE @ + 1]

(* Mutant of EraseLen: rounded down to whole erase blocks. *)
EraseLenDown(len) == (len \div EraseSize) * EraseSize

(* Whole erase blocks. *)
EraseLen(len) == ((len + EraseSize - 1) \div EraseSize) * EraseSize

(* EspPartition::erase: block by block, until one fails. *)
Erase(len, fine) ==
  \E done \in {k \in 0..len : k % EraseSize = 0} :
    /\ fine => done = len
    /\ flash' = [i \in Addresses |-> IF i < done THEN Erased ELSE flash[i]]

(* Mutant of Restarted: what was staged of the last upload stays. *)
RestartedStaged(l, accepted) ==
  [l EXCEPT !.active = accepted, !.failed = FALSE, !.written = 0]

(* The loader fields at the start of an upload. *)
Restarted(l, accepted) == [NewListener EXCEPT !.active = accepted]

(* process_loader_start and pkg_start.  The parser takes the upload in,    *)
(* and may do so even when the listener has refused it.  To the package an *)
(* "ota" upload is one more that was refused.                              *)
PkgStart(t, len, fine) ==
  LET n == env.commands + 1
      accepted == len <= Size /\ fine
      upload == [by |-> t, n |-> n, pos |-> 0, sent |-> 0]
  IN  /\ load = None
      /\ Command(len <= Size => fine)
      /\ IF len <= Size THEN Erase(EraseLen(len), fine) ELSE UNCHANGED flash
      /\ listener' = [listener EXCEPT ![t] = Restarted(@, accepted)]
      /\ load' \in IF accepted THEN {upload} ELSE {upload, None}
      /\ unseen' = (unseen \/ len <= Size)
      /\ length' = [length EXCEPT ![n] = len]
      /\ UNCHANGED <<pkg_reload, pkg_size, media>>

(* loader_flush of a listener with these fields writes to flash, and what  *)
(* it writes fits (a listener left behind can run past the end).           *)
Writes(l) == l.active /\ ~l.failed
Fits(l) == l.written + Len(l.buf) <= Size

(* Flash takes a byte only where it is erased. *)
Programmed(l, fine) ==
  [i \in Addresses |->
     IF Writes(l) /\ Fits(l) /\ i \in l.written..(l.written + Len(l.buf) - 1)
       THEN (IF fine /\ flash[i] = Erased THEN l.buf[i - l.written + 1] ELSE Garbled)
       ELSE flash[i]]

(* Once a write has failed the rest of the upload is only taken in. *)
Flushed(l, fine) ==
  IF Writes(l) /\ Fits(l) /\ fine
    THEN [l EXCEPT !.buf = <<>>, !.written = @ + Len(l.buf)]
    ELSE [l EXCEPT !.buf = <<>>, !.failed = @ \/ Writes(l)]

(* process_loader_data, one byte from the transport of t; with the last    *)
(* one process_loader_end and pkg_end.                                     *)
Data(t, fine) ==
  LET own == t = load.by
      last == load.pos + 1 = length[load.n]
      staged == [listener[t] EXCEPT
                   !.buf = Append(@, IF own THEN <<load.n, load.sent>> ELSE Foreign)]
      flushes == last \/ Len(staged.buf) = ChunkLen
      after == IF flushes THEN Flushed(staged, fine) ELSE staged
      blamed == flushes /\ Writes(staged) /\ Fits(staged) /\ ~fine
  IN  /\ load # None
      /\ ~fine => blamed /\ env.faults < MaxFaults
      /\ env' = IF fine THEN env ELSE [env EXCEPT !.faults = @ + 1]
      /\ flash' = IF flushes THEN Programmed(staged, fine) ELSE flash
      /\ listener' = [listener EXCEPT ![t] = [after EXCEPT !.active = @ /\ ~last]]
      /\ load' = IF last THEN None
                 ELSE [load EXCEPT !.pos = @ + 1, !.sent = IF own THEN @ + 1 ELSE @]
      /\ pkg_reload' = (pkg_reload \/ (last /\ Writes(after)))
      /\ unseen' = (~(last /\ Writes(after)) /\ (unseen \/ (flushes /\ Writes(staged))))
      /\ UNCHANGED <<pkg_size, media, length>>

(* The connection is gone, and the parser gives up on the rest. *)
Abandon ==
  /\ load # None
  /\ load' = None
  /\ UNCHANGED <<flash, listener, pkg_reload, pkg_size, media, unseen, length, env>>

(* Mutant of Factory: nodem_task is not told. *)
FactoryQuietly(fine) ==
  /\ load = None
  /\ Command(fine)
  /\ Erase(EraseSize, fine)
  /\ unseen' = ~fine
  /\ UNCHANGED <<listener, load, pkg_reload, pkg_size, media, length>>

(* erase_pkg_header, of "#factory". *)
Factory(fine) ==
  /\ load = None
  /\ Command(fine)
  /\ Erase(EraseSize, fine)
  /\ pkg_reload' = (pkg_reload \/ fine)
  /\ unseen' = ~fine
  /\ UNCHANGED <<listener, load, pkg_size, media, length>>

CommandListener ==
  \/ \E t \in Listeners, len \in Lengths, fine \in BOOLEAN : PkgStart(t, len, fine)
  \/ \E t \in Listeners, fine \in BOOLEAN : Data(t, fine)
  \/ \E fine \in BOOLEAN : Factory(fine)
  \/ Abandon

-----------------------------------------------------------------------------
(* The package in flash, if it holds one whole. *)
Stored == {n \in Serials : Intact(n)}

(* Mutant of LoadPkg: a package as long as the loaded one is not loaded. *)
LoadPkgOnce(old, fine) ==
  /\ media' \in IF Stored = {} THEN {old, None}
                ELSE {IF length[n] = pkg_size THEN old ELSE n : n \in Stored}
  /\ pkg_size' \in IF Stored = {} THEN {0} ELSE {length[n] : n \in Stored}
  /\ unseen' = ~fine

(* load_pkg_partition.  Without a header the package is unloaded; what the *)
(* header does not show is caught by the CRC of Media::load_pkg, and the   *)
(* Media may then stay what it was, as when flash cannot be read at all.   *)
LoadPkg(old, fine) ==
  /\ unseen' = ~fine
  /\ \/ \E n \in Stored : fine /\ media' = n /\ pkg_size' = length[n]
     \/ /\ Stored = {} \/ ~fine
        /\ pkg_size' = 0
        /\ media' \in IF fine /\ flash[0] = Erased THEN {None} ELSE {old, None}

(* A frame of nodem_task. *)
Frame(fine) ==
  /\ pkg_reload
  /\ fine \/ env.faults < MaxFaults
  /\ env' = IF fine THEN env ELSE [env EXCEPT !.faults = @ + 1]
  /\ pkg_reload' = FALSE
  /\ LoadPkg(media, fine)
  /\ UNCHANGED <<flash, listener, load, length>>

(* Most frames find nothing to load. *)
IdleFrame == ~pkg_reload /\ UNCHANGED vars

(* A restart or power loss, and nodem_task up to its first await. *)
Reboot(fine) ==
  /\ env.reboots < MaxReboots
  /\ fine \/ env.faults < MaxFaults
  /\ env' = [env EXCEPT !.reboots = @ + 1, !.faults = IF fine THEN @ ELSE @ + 1]
  /\ listener' = [t \in Listeners |-> NewListener]
  /\ load' = None
  /\ pkg_reload' = FALSE
  /\ LoadPkg(None, fine)
  /\ UNCHANGED <<flash, length>>

Next ==
  \/ CommandListener
  \/ IdleFrame
  \/ \E fine \in BOOLEAN : Frame(fine) \/ Reboot(fine)

Spec == Init /\ [][Next]_vars

-----------------------------------------------------------------------------
(* As long as no other byte got between its own, and no write failed, an   *)
(* upload has in flash what it has flushed, in order, and erased flash for *)
(* all of the rest (command_listener.rs:689-694).                          *)
WrittenInOrder ==
  (load # None /\ load.pos = load.sent) =>
    LET l == listener[load.by]
    IN  Writes(l) =>
          /\ l.written + Len(l.buf) = load.pos
          /\ \A j \in 0..(length[load.n] - 1) :
               flash[j] = IF j < l.written THEN <<load.n, j>> ELSE Erased

(* A package counted as loaded is in flash, unless nodem_task is about to  *)
(* look again, or does not know yet what an upload or a failure did to it. *)
LoadedIsStored == (pkg_size > 0 /\ ~Intact(media)) => (pkg_reload \/ unseen)

(* A package that is complete in flash is the live one, or nodem_task is   *)
(* about to load it, unless it failed to read it: an upload never          *)
(* completes untold, and no failed one passes for complete.                *)
StoredIsLoaded == \A n \in Stored : media = n \/ pkg_reload \/ unseen

(* An upload all of whose bytes were its own and whose writes went well is *)
(* complete in flash when it ends, and nodem_task has been told.           *)
UploadSucceeds ==
  [][\A t \in Listeners, n \in Serials :
       (/\ load # None /\ load.by = t /\ load.n = n /\ load.pos = load.sent
        /\ Writes(listener[t]) /\ ~listener'[t].active /\ env' = env)
         => (Intact(n)' /\ pkg_reload')]_vars

(* "#stat" takes a package's metadata from flash only while it is there    *)
(* (command_listener.rs:196-199: "Only while a pkg is actually loaded").   *)
(* An upload that is given up has erased it, and nothing reloads.          *)
MetadataPresent ==
  (pkg_size > 0 /\ load = None /\ ~pkg_reload /\ env.faults = 0) => Intact(media)
=============================================================================
