-------------------------------- MODULE Iled --------------------------------
(***************************************************************************)
(* iled_task (src/iled.rs) and what it shares with the rest: "#iled"'s     *)
(* configuration, "#nodem"'s framebuffer and mapping, nodem_task marking   *)
(* every frame dirty, the I2S driver that a change of timing rebuilds, and *)
(* a chain of LEDs that keeps what it was last sent.                       *)
(*                                                                         *)
(* One action is what the task does between two awaits, and tpc names the  *)
(* await: its timer, or the write of a frame.  The other tasks run while   *)
(* it awaits.                                                              *)
(***************************************************************************)
EXTENDS Layout, FiniteSets

CONSTANTS
  Requests,      \* what "#iled" can be sent, a record each (see Request)
  Timings,       \* bit timings, each with the resolution of its patterns
  MaxLeds,       \* MAX_LEDS
  Word,          \* one more than the largest usize
  NodemConfigs,  \* what "#nodem" can be sent, a record each
  DefaultIled,   \* IledConfig::default()
  DefaultNodem,  \* NodemConfig::default()
  Contents,      \* what the page of the DOM can look like
  Drawn(_, _, _),\* the pixels a content sets in a framebuffer of a size
  None,          \* Option::None
  Malformed,     \* a configuration an older firmware stored, which does not parse
  MaxFaults,     \* bound on failing NVS accesses, drivers and writes
  MaxCommands,   \* bound on commands
  MaxReboots     \* bound on restarts

(* A parsed "#iled": the numbers as given, the bits of a LED's packet, and *)
(* the length of the configuration in NVS (to_csv).                        *)
Request ==
  [width : Nat, height : Nat, layout : ChainLayout,
   timing : Timings, bits : Nat, csv : Nat]

Config == [width : Nat, height : Nat, layout : ChainLayout, timing : Timings, csv : Nat]

(* NodemConfig: the framebuffer's size, and the mapping of driver "iled".  *)
Mapping == [x : Int, y : Int, scale_x : Nat \ {0}, scale_y : Nat \ {0}]
NodemConfig == [width : Nat \ {0}, height : Nat \ {0}, iled : Mapping \cup {None}]

ASSUME TimingsAssumption == Timings \subseteq [resolution : MIN_RESOLUTION..MAX_RESOLUTION, name : STRING]
ASSUME RequestsAssumption ==
  \A r \in Requests : r \in Request /\ r.width < Word /\ r.height < Word
ASSUME NodemAssumption ==
  DefaultNodem \in NodemConfigs /\ \A n \in NodemConfigs : n \in NodemConfig
ASSUME DrawnAssumption ==
  \A c \in Contents, n \in NodemConfigs :
    Drawn(c, n.width, n.height) \subseteq (0..(n.width - 1)) \X (0..(n.height - 1))
ASSUME BoundsAssumption ==
  /\ MaxLeds \in Nat \ {0} /\ Word \in Nat \ {0}
  /\ MaxFaults \in Nat /\ MaxCommands \in Nat /\ MaxReboots \in Nat

VARIABLES
  iled_config, nodem_config, dirty,   \* Global
  buffer, surface,                    \* Global::display_buffer, the VM's Surface
  content,                            \* what the DOM's page looks like
  tpc, config, enabled, driver,       \* iled_task's locals
  frame,                              \* the frame it is writing
  leds,                               \* what each LED of the chain shows
  stored, storedNodem,                \* NVS: drivers/iled and nodem/nodem
  faults, commands, reboots           \* bounds

global == <<iled_config, nodem_config, dirty, buffer, surface>>
task == <<tpc, config, enabled, driver, frame>>
nvs == <<stored, storedNodem>>
bounds == <<faults, commands, reboots>>
vars == <<global, content, task, leds, nvs, bounds>>

-----------------------------------------------------------------------------
(* parse_dimension. *)
Dimension(n) == IF n = 0 THEN 1 ELSE n

(* The check against MAX_LEDS, in the arithmetic of a release build. *)
Fits(w, h) == (w * h) % Word <= MaxLeds

(* IledConfig::parse, after its fields were. *)
Accepted(r) ==
  Fits(Dimension(r.width), Dimension(r.height)) /\ (r.bits * r.timing.resolution) % 8 = 0

Parsed(r) ==
  [width |-> Dimension(r.width), height |-> Dimension(r.height),
   layout |-> r.layout, timing |-> r.timing, csv |-> r.csv]

Configs == {DefaultIled} \cup {Parsed(r) : r \in {q \in Requests : Accepted(q)}}
ASSUME DefaultAssumption ==
  /\ DefaultIled \in Config /\ None \notin Config \cup NodemConfigs \cup Timings
  /\ Malformed \notin Config \cup {None}

Led == 0..(MaxLeds - 1)
Leds(c) == 0..(c.width * c.height - 1)

(* The variables hold values of their Rust types; a frame is there while   *)
(* it is written, and only a task that ended has no driver.                *)
TypeOK ==
  /\ iled_config \in Configs \cup {None} /\ nodem_config \in NodemConfigs
  /\ dirty \in BOOLEAN /\ buffer \subseteq Nat
  /\ surface \in Nat \X Nat /\ content \in Contents
  /\ tpc \in {"boot", "timer", "blank", "frame", "ended"}
  /\ config \in Configs /\ enabled \in BOOLEAN
  /\ driver \in Timings \cup {None} /\ (driver = None <=> tpc \in {"boot", "ended"})
  /\ (tpc \in {"blank", "frame"} => frame \in [Leds(config) -> BOOLEAN])
  /\ leds \in [Led -> BOOLEAN]
  /\ stored \in Configs \cup {None, Malformed} /\ storedNodem \in NodemConfigs
  /\ faults \in 0..MaxFaults /\ commands \in 0..MaxCommands /\ reboots \in 0..MaxReboots

-----------------------------------------------------------------------------
(* nodem's Surface draws the page into the buffer. *)
Draw(c, w, h) == {Bit(p[1], p[2], w) : p \in Drawn(c, w, h)}

(* Failing calls, within the bound. *)
Fault == faults < MaxFaults /\ faults' = faults + 1
TwoFaults == faults + 2 <= MaxFaults /\ faults' = faults + 2

(* main: Global::new, from the stored configuration or, if there is none   *)
(* or it cannot be read, from the default, which is then stored.           *)
Created(n) ==
  /\ nodem_config' = n /\ surface' = <<n.width, n.height>>
  /\ buffer' = {} /\ dirty' = FALSE

Init ==
  /\ iled_config = DefaultIled /\ nodem_config = DefaultNodem /\ dirty = FALSE
  /\ buffer = {} /\ surface = <<DefaultNodem.width, DefaultNodem.height>>
  /\ content \in Contents
  /\ tpc = "boot" /\ config = DefaultIled /\ enabled = TRUE /\ driver = None
  /\ frame = <<>>
  /\ leds = [k \in Led |-> FALSE]
  /\ stored \in {None, Malformed} /\ storedNodem = DefaultNodem
  /\ faults = 0 /\ commands = 0 /\ reboots = 0

-----------------------------------------------------------------------------
(* A buffer of 80 bytes holds at most 79 and the terminating NUL. *)
Readable(s) == s \notin {None, Malformed} /\ s.csv < 80

(* read_iled_config: what is stored or, if there is nothing readable, the  *)
(* default, which is then stored.                                          *)
Load(c) ==
  IF Readable(stored) THEN c = stored /\ UNCHANGED stored
                      ELSE c = DefaultIled /\ stored' = c

(* The namespace cannot be opened, the value read, or the default stored,  *)
(* after what does not parse was removed or not.                           *)
LoadFailed(c) ==
  /\ c = DefaultIled
  /\ stored' \in {stored, c} \cup (IF stored = Malformed THEN {None} ELSE {})

(* Before the loop: the configuration is read, and the driver built. *)
Boot ==
  /\ tpc = "boot" /\ tpc' = "timer"
  /\ \E c \in Configs :
       /\ (Load(c) /\ UNCHANGED faults) \/ (LoadFailed(c) /\ Fault)
       /\ config' = c /\ iled_config' = c /\ driver' = c.timing
  /\ UNCHANGED <<nodem_config, dirty, buffer, surface, content, enabled, frame, leds, storedNodem, commands, reboots>>

(* Without a driver the task ends. *)
BootFailed ==
  /\ tpc = "boot" /\ tpc' = "ended"
  /\ \E c \in Configs :
       /\ (Load(c) /\ Fault) \/ (LoadFailed(c) /\ TwoFaults)
       /\ config' = c /\ iled_config' = c
  /\ UNCHANGED <<nodem_config, dirty, buffer, surface, content, enabled, driver, frame, leds, storedNodem, commands, reboots>>

(* DriverView::new and pixel: phase is the second the frame falls in. *)
ViewPixel(c, n, phase, x, y) ==
  IF n.iled = None
    THEN FallbackPixel(x, y, c.width, c.height, phase)
    ELSE DisplayPixel(buffer,
           FbAxis(x, c.width, n.width, n.iled.scale_x, n.iled.x),
           FbAxis(y, c.height, n.height, n.iled.scale_y, n.iled.y),
           n.width, n.height)

(* sample_from_dom and Framebuffer::render. *)
Rendered(c, n, phase) ==
  LET lit == {p \in (0..(c.width - 1)) \X (0..(c.height - 1)) : ViewPixel(c, n, phase, p[1], p[2])}
      on == {LedIndex(c.layout, p[1], p[2], c.width, c.height) : p \in lit}
  IN  [k \in Leds(c) |-> k \in on]

(* Mutant of Blank: as many LEDs as a chain has by default. *)
BlankDefault(c) == [k \in Leds(DefaultIled) |-> FALSE]

(* Framebuffer::blank. *)
Blank(c) == [k \in Leds(c) |-> FALSE]

(* Disabled: one further frame with every pixel off. *)
SwitchOff ==
  /\ tpc = "timer" /\ iled_config = None /\ enabled
  /\ tpc' = "blank" /\ frame' = Blank(config)
  /\ UNCHANGED <<global, content, config, enabled, driver, leds, nvs, bounds>>

StayOff ==
  /\ tpc = "timer" /\ iled_config = None /\ ~enabled /\ dirty
  /\ dirty' = FALSE
  /\ UNCHANGED <<iled_config, nodem_config, buffer, surface, content, task, leds, nvs, bounds>>

(* Mutant of Rebuilt: the driver is kept. *)
NotRebuilt == UNCHANGED driver

(* A change of timing has the driver rebuilt. *)
Rebuilt ==
  IF iled_config.timing # config.timing THEN driver' = iled_config.timing ELSE UNCHANGED driver

(* There is something to show: a new frame, a new configuration, or the    *)
(* first one after the chain was off.                                      *)
Wanted == iled_config # None /\ (dirty \/ ~enabled \/ iled_config # config)

Redraw ==
  /\ tpc = "timer" /\ Wanted
  /\ config' = iled_config /\ enabled' = TRUE
  /\ Rebuilt
  /\ \E phase \in 0..1 : frame' = Rendered(iled_config, nodem_config, phase)
  /\ tpc' = "frame"
  /\ UNCHANGED <<global, content, leds, nvs, bounds>>

(* The old driver is gone and the new one cannot be built: the task ends. *)
RebuildFailed ==
  /\ tpc = "timer" /\ Wanted /\ iled_config.timing # config.timing
  /\ Fault
  /\ config' = iled_config /\ enabled' = TRUE /\ driver' = None /\ tpc' = "ended"
  /\ UNCHANGED <<global, content, frame, leds, nvs, commands, reboots>>

(* The first n LEDs of the chain took what the frame has for them; a chain *)
(* that is longer than the frame keeps the rest.                           *)
Latched(n) == [k \in Led |-> IF k < n /\ k \in DOMAIN frame THEN frame[k] ELSE leds[k]]

(* The write is over: the frame counts as shown, whatever came of it. *)
Written(n) ==
  /\ leds' = Latched(n)
  /\ tpc' = "timer" /\ enabled' = (tpc = "frame") /\ dirty' = FALSE
  /\ UNCHANGED <<iled_config, nodem_config, buffer, surface, content, config, driver, frame, nvs, commands, reboots>>

(* Of the two awaits of write_frame the first sends LEAD_GUARD, which no   *)
(* LED takes anything from; nothing is read in between.                    *)
WriteOk ==
  /\ tpc \in {"blank", "frame"}
  /\ Written(MaxLeds) /\ UNCHANGED faults

(* A failed write is only logged; any part of the frame may have gone out. *)
WriteFailed ==
  /\ tpc \in {"blank", "frame"} /\ Fault
  /\ \E n \in 0..MaxLeds : Written(n)

IledTask == Boot \/ BootFailed \/ SwitchOff \/ StayOff \/ Redraw \/ RebuildFailed \/ WriteOk \/ WriteFailed

-----------------------------------------------------------------------------
(* Mutant of MarkDirty: only a frame that looks different is marked. *)
MarkChanged == dirty' = (dirty \/ buffer' # buffer)

(* Every frame is marked, for every consumer. *)
MarkDirty == dirty' = TRUE

(* nodem_task renders a frame of the page, as it looks now. *)
Frame ==
  /\ content' \in Contents
  /\ buffer' = Draw(content', surface[1], surface[2])
  /\ MarkDirty
  /\ UNCHANGED <<iled_config, nodem_config, surface, task, leds, nvs, bounds>>

Commanded == commands < MaxCommands /\ commands' = commands + 1

(* Mutant of Stored: what could not be stored is applied all the same. *)
StoredOrNot(c) ==
  \/ c.csv <= 80 /\ stored' = c /\ UNCHANGED faults
  \/ UNCHANGED stored /\ Fault

(* set_str succeeds, and the value is short enough. *)
Stored(c) == c.csv <= 80 /\ stored' = c /\ UNCHANGED faults

(* "#iled" with a configuration: stored, then applied. *)
IledCommand ==
  /\ Commanded
  /\ \E r \in Requests : Accepted(r) /\ Stored(Parsed(r)) /\ iled_config' = Parsed(r)
  /\ UNCHANGED <<nodem_config, dirty, buffer, surface, content, task, leds, storedNodem, reboots>>

(* A bare "#iled": removed, which can fail, and disabled in any case. *)
IledOff ==
  /\ Commanded
  /\ \/ stored' = None /\ UNCHANGED faults
     \/ UNCHANGED stored /\ Fault
  /\ iled_config' = None
  /\ UNCHANGED <<nodem_config, dirty, buffer, surface, content, task, leds, storedNodem, reboots>>

(* Mutant of SameGeometry: a buffer of the same size is the same. *)
SameSize(n) == n.width * n.height = nodem_config.width * nodem_config.height

(* NodemConfig::same_geometry. *)
SameGeometry(n) == n.width = nodem_config.width /\ n.height = nodem_config.height

(* Global::resize_display. *)
Resize(n) ==
  /\ nodem_config' = n
  /\ IF SameGeometry(n)
       THEN UNCHANGED <<buffer, surface, dirty>>
       ELSE buffer' = {} /\ surface' = <<n.width, n.height>> /\ dirty' = TRUE

(* "#nodem": stored, then applied. *)
NodemCommand ==
  /\ Commanded
  /\ \E n \in NodemConfigs \ {nodem_config} : storedNodem' = n /\ Resize(n)
  /\ UNCHANGED <<iled_config, content, task, leds, stored, faults, reboots>>

(* "#factory": both are reset to their defaults; each store can fail. *)
Factory ==
  /\ Commanded
  /\ \/ stored' = DefaultIled /\ storedNodem' = DefaultNodem /\ UNCHANGED faults
     \/ stored' = DefaultIled /\ UNCHANGED storedNodem /\ Fault
     \/ storedNodem' = DefaultNodem /\ UNCHANGED stored /\ Fault
     \/ UNCHANGED nvs /\ TwoFaults
  /\ Resize(DefaultNodem) /\ iled_config' = DefaultIled
  /\ UNCHANGED <<content, task, leds, reboots>>

(* The device restarts; a frame that was being written is cut off. *)
Reboot ==
  /\ reboots < MaxReboots /\ reboots' = reboots + 1
  /\ \/ Created(storedNodem) /\ UNCHANGED <<storedNodem, faults>>
     \/ Created(DefaultNodem) /\ storedNodem' \in {storedNodem, DefaultNodem} /\ Fault
  /\ iled_config' = DefaultIled
  /\ tpc' = "boot" /\ config' = DefaultIled /\ enabled' = TRUE /\ driver' = None /\ frame' = <<>>
  /\ \E n \in 0..MaxLeds : leds' = (IF tpc \in {"blank", "frame"} THEN Latched(n) ELSE leds)
  /\ UNCHANGED <<content, stored, commands>>

Next == IledTask \/ Frame \/ IledCommand \/ IledOff \/ NodemCommand \/ Factory \/ Reboot

(* The executor polls the task when its timer is up or its write is over,  *)
(* and nodem_task renders 60 frames a second, of a page that has come to   *)
(* rest too.                                                               *)
Fairness == WF_vars(IledTask) /\ WF_vars(Frame /\ content' = content)

Spec == Init /\ [][Next]_vars
FairSpec == Spec /\ Fairness

-----------------------------------------------------------------------------
(* A frame, the off frame included, goes out through a driver built for    *)
(* the timing it is encoded with, though the configuration can change      *)
(* while it is written, and while the chain is off (iled.rs:1092-1096).    *)
RateMatches == tpc \in {"timer", "blank", "frame"} => driver = config.timing

(* The VM's surface, the framebuffer and nodem_config are of one geometry, *)
(* whatever "#nodem" changes between two frames: no pixel that is drawn    *)
(* lies past the buffer's end (global.rs:415-434).                         *)
SurfaceMatches ==
  /\ surface = <<nodem_config.width, nodem_config.height>>
  /\ \A b \in buffer : b < 8 * BufferLen(nodem_config.width, nodem_config.height)

(* A configuration in force is the one the next start reads, through       *)
(* refused, failing and overtaking commands and restarts.  Only a default  *)
(* put in place of what could not be read or stored may differ, and a      *)
(* value of exactly 80 bytes (iled.rs:894, command_listener.rs:390).       *)
Survives ==
  /\ (tpc # "boot" /\ iled_config \notin {None, DefaultIled} /\ iled_config.csv < 80)
       => stored = iled_config
  /\ nodem_config # DefaultNodem => storedNodem = nodem_config

(* What a LED shows when the page lies behind the matrix: the LED's place  *)
(* by walking the wire, and the page's pixels scaled up one by one, where  *)
(* the code divides.  Where the page begins, Margin, is the code's own.    *)
Covers(d, f, size, fb, scale, shift) ==
  LET start == Margin(size, fb, scale) + (f - shift) * scale
  IN  d \in start..(start + scale - 1)

Pictured(c, n, cell, phase) ==
  IF n.iled = None
    THEN FallbackPixel(cell[1], cell[2], c.width, c.height, phase)
    ELSE \E p \in Drawn(content, n.width, n.height) :
           /\ Covers(cell[1], p[1], c.width, n.width, n.iled.scale_x, n.iled.x)
           /\ Covers(cell[2], p[2], c.height, n.height, n.iled.scale_y, n.iled.y)

ShowsPicture ==
  iled_config # None =>
    \E phase \in 0..1 : \A k \in Leds(iled_config) :
      leds[k] = Pictured(iled_config, nodem_config,
                         Cell(iled_config.layout, k, iled_config.width, iled_config.height), phase)

(* Once page and configuration stay as they are, every LED ends up showing *)
(* its pixel, although the dirty flag is cleared after the write, frames   *)
(* are rendered during it, and writes fail; unless the task ended for want *)
(* of a driver (iled.rs:1151, 1171).                                       *)
LedsCatchUp ==
  <>[][UNCHANGED <<content, iled_config, nodem_config>>]_vars
    => <>[](ShowsPicture \/ tpc = "ended")

(* A chain that is switched off goes dark and stays dark, if nothing fails *)
(* (iled.rs:1073-1083).                                                    *)
GoesDark ==
  <>[](iled_config = None /\ faults = 0) => <>[](\A k \in Leds(config) : ~leds[k])

(* What was stored is what the task puts in force after a restart, unless  *)
(* something fails (command_listener.rs:374-375: "persisted to NVS like    *)
(* the commands above, so it survives a reboot").  A value of 80 bytes is  *)
(* stored, and does not fit the buffer it is read into.                    *)
SurvivesReboot ==
  [][(Boot /\ reboots > 0 /\ stored \in Configs /\ faults' = 0) => iled_config' = stored]_vars

(* No configuration is accepted that the buffers are too small for         *)
(* (iled.rs:24-32).                                                        *)
NeverTooLong == iled_config # None => iled_config.width * iled_config.height <= MaxLeds
=============================================================================
