-------------------------------- MODULE Wifi --------------------------------
(***************************************************************************)
(* wifi_task (src/wifi.rs): the loop that keeps the station connected, the *)
(* NVS namespace "wifi" it reads its configuration from, and the commands  *)
(* "#wifi" and "#factory" that change that configuration under it.         *)
(*                                                                         *)
(* The executor is cooperative, so one action is everything wifi_task does *)
(* between two awaits, and wpc names the await it is suspended at.  The    *)
(* websocket task is an environment here, which opens and closes the       *)
(* client in Global::ws_client as it likes; Connectivity puts the real one *)
(* in its place.                                                           *)
(***************************************************************************)
EXTENDS Integers

CONSTANTS
  Networks,     \* access points; a network's own name stands for its password
  Clients,      \* websocket clients Global::ws_client can hold
  None,         \* Option::None, and a key that is not in NVS
  CounterMax,   \* stands for u32::MAX, where saturating_add stops counting
  MaxCommands,  \* bound on the number of "#..." commands
  MaxDrops,     \* bound on the links lost to the environment
  MaxReboots,   \* bound on restarts and power losses
  MaxFaults     \* bound on handlers in which an NVS access fails

ASSUME NoneAssumption == None \notin Networks /\ None \notin Clients /\ None \notin Int
ASSUME BoundsAssumption ==
  /\ CounterMax \in Nat \ {0}
  /\ MaxCommands \in Nat /\ MaxDrops \in Nat /\ MaxReboots \in Nat /\ MaxFaults \in Nat

VARIABLES
  ssid, pass,           \* NVS "wifi" namespace: what read_wifi_config reads
  conn_ok, conn_fail,   \* NVS "wifi" namespace: the attempt counters
  status, ip,           \* Global::wifi_status; ip stands for all address fields
  wifi_reconnect,       \* Global::wifi_reconnect
  ws_client,            \* Global::ws_client
  wpc, config,          \* where wifi_task awaits, and its local (ssid, password)
  link,                 \* the network the Wi-Fi driver is associated with
  accepted,             \* history: what the last "#wifi" stored, if it was acked
  counted,              \* history: the networks whose attempts the counters hold
  dropped,              \* history: the reset due for accepted was lost
  env                   \* history: commands, drops, reboots and faults so far

nvs == <<ssid, pass, conn_ok, conn_fail>>
wifi_status == <<status, ip>>
task == <<wpc, config>>
history == <<accepted, counted, dropped>>
vars == <<nvs, wifi_status, wifi_reconnect, ws_client, task, link, history, env>>

-----------------------------------------------------------------------------
Configuration == [ssid : Networks, pass : Networks]
Counter == 0..CounterMax
Environments ==
  [commands : 0..MaxCommands, drops : 0..MaxDrops,
   reboots : 0..MaxReboots, faults : 0..MaxFaults]

(* The variables hold values of their Rust types; every later proof uses it. *)
TypeOK ==
  /\ ssid \in Networks \cup {None} /\ pass \in Networks \cup {None}
  /\ conn_ok \in Counter \cup {None} /\ conn_fail \in Counter \cup {None}
  /\ status \in {"WaitingForConfiguration", "Connecting", "Connected", "Failed"}
  /\ ip \in Networks \cup {None}
  /\ wifi_reconnect \in BOOLEAN
  /\ ws_client \in Clients \cup {None}
  /\ wpc \in {"boot", "stopped", "config", "connecting", "backoff", "connected",
             "disconnecting"}
  /\ config \in Configuration \cup {None}
  /\ wpc = "connecting" => config # None
  /\ link \in Networks \cup {None}
  /\ accepted \in Configuration \cup {None}
  /\ counted \subseteq Networks /\ dropped \in BOOLEAN
  /\ env \in Environments

(* read_wifi_config: both keys, or nothing. *)
Stored ==
  IF ssid # None /\ pass # None THEN [ssid |-> ssid, pass |-> pass] ELSE None

(* The access point accepts this configuration. *)
Right(c) == c.ssid = c.pass

(* Factory-fresh NVS; Global::new(); the driver stopped. *)
Init ==
  /\ ssid = None /\ pass = None /\ conn_ok = None /\ conn_fail = None
  /\ status = "WaitingForConfiguration" /\ ip = None
  /\ wifi_reconnect = FALSE /\ ws_client = None
  /\ wpc = "boot" /\ config = None /\ link = None
  /\ accepted = None /\ counted = {} /\ dropped = FALSE
  /\ env = [commands |-> 0, drops |-> 0, reboots |-> 0, faults |-> 0]

-----------------------------------------------------------------------------
(* The NVS accesses of one handler: done are the ones of attempted that    *)
(* worked.  A failure is at most logged.                                   *)
Accesses(attempted, done) ==
  /\ done \subseteq attempted
  /\ done # attempted => env.faults < MaxFaults
  /\ env' = IF done = attempted THEN env ELSE [env EXCEPT !.faults = @ + 1]

(* Mutant of Bump: a missing key is left alone. *)
BumpKnown(count) ==
  IF count = None THEN None ELSE IF count < CounterMax THEN count + 1 ELSE CounterMax

(* increment_counter: a missing key counts as 0; saturates. *)
Bump(count) ==
  IF count = None THEN 1 ELSE IF count < CounterMax THEN count + 1 ELSE CounterMax

(* Mutant of TopOfLoop: the configuration is read once and then kept. *)
TopOfLoopCached ==
  IF Stored = None
    THEN status' = "WaitingForConfiguration" /\ wpc' = "config" /\ UNCHANGED <<ip, config>>
    ELSE /\ status' = "Connecting" /\ ip' = None /\ wpc' = "connecting"
         /\ config' = IF config = None THEN Stored ELSE config

(* The top of the loop, up to its first await. *)
TopOfLoop ==
  \/ /\ Stored = None
     /\ status' = "WaitingForConfiguration" /\ wpc' = "config"
     /\ UNCHANGED <<ip, config>>
  \/ /\ Stored # None
     /\ status' = "Connecting" /\ ip' = None
     /\ wpc' = "connecting" /\ config' = Stored

(* Without its NVS namespace the task gives up until the next boot. *)
OpenNvsFailed ==
  /\ wpc = "boot" /\ env.faults < MaxFaults
  /\ env' = [env EXCEPT !.faults = @ + 1]
  /\ status' = "WaitingForConfiguration"
  /\ wpc' = "stopped"
  /\ UNCHANGED <<nvs, ip, wifi_reconnect, ws_client, config, link, history>>

(* The task starts, or its 2 s configuration poll or 5 s backoff has passed. *)
ReadConfig ==
  /\ wpc \in {"boot", "config", "backoff"}
  /\ TopOfLoop
  /\ UNCHANGED <<nvs, wifi_reconnect, ws_client, link, history, env>>

(* read_wifi_config cannot read a key it needs: as if it were not there. *)
ConfigUnreadable ==
  /\ \/ wpc \in {"boot", "config", "backoff", "disconnecting"}
     \/ wpc = "connected" /\ ~wifi_reconnect /\ link = None
  /\ env.faults < MaxFaults
  /\ env' = [env EXCEPT !.faults = @ + 1]
  /\ status' = "WaitingForConfiguration"
  /\ wpc' = "config"
  /\ link' \in IF wpc = "disconnecting" THEN {None, link} ELSE {link}
  /\ UNCHANGED <<nvs, ip, wifi_reconnect, ws_client, config, history>>

(* increment_counter on one counter: a key that cannot be read counts as   *)
(* missing, and a failed write leaves the counter as it was.               *)
Incremented(count, done) ==
  IF "write" \in done THEN Bump(IF "read" \in done THEN count ELSE None) ELSE count

(* What one attempt leaves in the counters. *)
Count(done) ==
  /\ Accesses({"read", "write"}, done)
  /\ counted' = counted \cup (IF "write" \in done THEN {config.ssid} ELSE {})
  /\ UNCHANGED <<accepted, dropped>>

(* do_connect_wifi returned Ok. *)
ConnectOk(done) ==
  /\ wpc = "connecting"
  /\ Right(config)
  /\ link' = config.ssid
  /\ Count(done)
  /\ conn_ok' = Incremented(conn_ok, done)
  /\ status' = "Connected" /\ ip' = config.ssid
  /\ wpc' = "connected"
  /\ UNCHANGED <<ssid, pass, conn_fail, wifi_reconnect, ws_client, config>>

(* do_connect_wifi returned Err, possibly after the driver had associated. *)
ConnectFailed(done, l) ==
  /\ wpc = "connecting"
  /\ l \in {None} \cup (IF Right(config) THEN {config.ssid} ELSE {})
  /\ link' = l
  /\ Count(done)
  /\ conn_fail' = Incremented(conn_fail, done)
  /\ status' = "Failed"
  /\ wpc' = "backoff"
  /\ UNCHANGED <<ssid, pass, conn_ok, ip, wifi_reconnect, ws_client, config>>

(* Mutant of Reset: the failures of the old network stay. *)
ResetSuccesses(done) ==
  /\ Accesses({"conn_ok"}, done)
  /\ conn_ok' = IF "conn_ok" \in done THEN 0 ELSE conn_ok
  /\ UNCHANGED <<conn_fail, history>>

Counters == {"conn_ok", "conn_fail"}

(* reset_counter on both counters. *)
Reset(done) ==
  /\ Accesses(Counters, done)
  /\ conn_ok' = IF "conn_ok" \in done THEN 0 ELSE conn_ok
  /\ conn_fail' = IF "conn_fail" \in done THEN 0 ELSE conn_fail
  /\ counted' = IF done = Counters THEN {} ELSE counted
  /\ dropped' = (done # Counters)
  /\ UNCHANGED accepted

(* The 1 s poll finds wifi_reconnect set: up to disconnect().await. *)
PollReconnect(done) ==
  /\ wpc = "connected" /\ wifi_reconnect
  /\ wifi_reconnect' = FALSE
  /\ Reset(done)
  /\ status' = "Connecting"
  /\ ws_client' = None
  /\ wpc' = "disconnecting"
  /\ UNCHANGED <<ssid, pass, ip, config, link>>

(* disconnect().await returned; an error is logged and the link stays.  The *)
(* loop starts over.                                                        *)
Disconnected(l) ==
  /\ wpc = "disconnecting"
  /\ l \in {None, link}
  /\ link' = l
  /\ TopOfLoop
  /\ UNCHANGED <<nvs, wifi_reconnect, ws_client, history, env>>

(* Mutant of PollLinkDown: a link that is gone is logged, and that is all. *)
PollLogsLinkDown ==
  /\ wpc = "connected" /\ ~wifi_reconnect /\ link = None
  /\ UNCHANGED vars

(* The 1 s poll finds the link gone: the loop starts over. *)
PollLinkDown ==
  /\ wpc = "connected" /\ ~wifi_reconnect /\ link = None
  /\ TopOfLoop
  /\ UNCHANGED <<nvs, wifi_reconnect, ws_client, link, history, env>>

WifiTask ==
  \/ OpenNvsFailed
  \/ ReadConfig \/ ConfigUnreadable
  \/ \E done \in SUBSET {"read", "write"} :
        ConnectOk(done) \/ \E l \in Networks \cup {None} : ConnectFailed(done, l)
  \/ \E done \in SUBSET Counters : PollReconnect(done)
  \/ \E l \in Networks \cup {None} : Disconnected(l)
  \/ PollLinkDown

-----------------------------------------------------------------------------
(* "#wifi,<ssid>,<pass>" with both values well-formed and both stored. *)
SetWifi(s, p) ==
  /\ ssid' = s /\ pass' = p
  /\ wifi_reconnect' = TRUE
  /\ accepted' = [ssid |-> s, pass |-> p] /\ dropped' = FALSE
  /\ UNCHANGED <<counted, conn_ok, conn_fail, wifi_status, ws_client, task, link>>

(* "#wifi,<ssid>,<pass>" refused for its password (malformed, or its write *)
(* failed): by then the ssid has been replaced.                            *)
SetSsidOnly(s) ==
  /\ ssid' = s
  /\ accepted' = None
  /\ UNCHANGED <<pass, conn_ok, conn_fail, wifi_status, wifi_reconnect, ws_client, task, link,
                 counted, dropped>>

(* The "wifi" namespace's share of "#factory". *)
Factory(done) ==
  /\ ssid' = IF "ssid" \in done THEN None ELSE ssid
  /\ pass' = IF "pass" \in done THEN None ELSE pass
  /\ conn_ok' = IF "conn_ok" \in done THEN None ELSE conn_ok
  /\ conn_fail' = IF "conn_fail" \in done THEN None ELSE conn_fail
  /\ wifi_reconnect' = TRUE
  /\ accepted' = None
  /\ counted' = IF Counters \subseteq done THEN {} ELSE counted
  /\ UNCHANGED <<wifi_status, ws_client, task, link, dropped>>

FactoryKeys == {"ssid", "pass", "conn_ok", "conn_fail"}

(* One command: a handler, all of whose writes took effect or not. *)
Handle(attempted, done) ==
  /\ env.commands < MaxCommands
  /\ done = attempted \/ env.faults < MaxFaults
  /\ env' = [env EXCEPT !.commands = @ + 1,
                        !.faults = IF done = attempted THEN @ ELSE @ + 1]

WifiCommand ==
  /\ Handle({}, {})
  /\ \/ \E s, p \in Networks : SetWifi(s, p)
     \/ \E s \in Networks : SetSsidOnly(s)

FactoryCommand(done) == Handle(FactoryKeys, done) /\ Factory(done)

Command == WifiCommand \/ \E done \in SUBSET FactoryKeys : FactoryCommand(done)

-----------------------------------------------------------------------------
(* The access point goes away or the device moves out of range. *)
LinkLost ==
  /\ link # None /\ env.drops < MaxDrops
  /\ link' = None
  /\ env' = [env EXCEPT !.drops = @ + 1]
  /\ UNCHANGED <<nvs, wifi_status, wifi_reconnect, ws_client, task, history>>

(* "#reset", a power loss or a panic: NVS survives, nothing else does. *)
Reboot ==
  /\ env.reboots < MaxReboots
  /\ env' = [env EXCEPT !.reboots = @ + 1]
  /\ status' = "WaitingForConfiguration" /\ ip' = None
  /\ wifi_reconnect' = FALSE /\ ws_client' = None
  /\ wpc' = "boot" /\ config' = None /\ link' = None
  /\ dropped' = (dropped \/ wifi_reconnect)
  /\ UNCHANGED <<nvs, accepted, counted>>

(* websocket_task and the client's own thread. *)
WebsocketTask ==
  /\ ws_client' \in Clients \cup {None}
  /\ ws_client' # ws_client
  /\ UNCHANGED <<nvs, wifi_status, wifi_reconnect, task, link, history, env>>

Next == WifiTask \/ Command \/ LinkLost \/ Reboot \/ WebsocketTask

(* The executor polls every task whose timer or driver future is ready.    *)
(* Attempts that could succeed, repeated for ever, do not all fail.        *)
Fairness ==
  /\ WF_vars(WifiTask)
  /\ SF_vars(ConnectOk({"read", "write"}))

Spec == Init /\ [][Next]_vars
FairSpec == Spec /\ Fairness

-----------------------------------------------------------------------------
(* An acknowledged "#wifi" is never lost: while the task is connecting or  *)
(* connected with something else, the flag that makes it start over is up, *)
(* whatever await the command arrived at (wifi.rs:117, 172;                *)
(* command_listener.rs:329).                                               *)
AppliedOrPending ==
  (/\ wpc \in {"connecting", "connected"}
   /\ accepted # None
   /\ Stored = accepted
   /\ config # accepted) => wifi_reconnect

(* Once no reconnect is pending, the counters speak of the network that    *)
(* the last acknowledged "#wifi" stored and of no earlier one, whatever    *)
(* await the command arrived at, unless a restart or a failed write lost   *)
(* their reset; and without NVS faults the success counter has counted the *)
(* connection the task is in (wifi.rs:17-19, 80-83, 117-121, 152-163).     *)
CountersCurrent ==
  ~wifi_reconnect =>
    /\ accepted # None /\ ~dropped => counted \subseteq {accepted.ssid}
    /\ wpc = "connected" /\ env.faults = 0 => conn_ok \in 1..CounterMax

(* What wifi.rs:17-19 says of the counters: in a connection with no        *)
(* reconnect pending they count attempts at its network only.  A restart   *)
(* between "#wifi" and the poll takes the flag, and with it the reset.     *)
CountersReset ==
  (wpc = "connected" /\ ~wifi_reconnect /\ accepted # None /\ env.faults = 0)
    => counted \subseteq {config.ssid}

(* Once the stored configuration is one the access point accepts, and with *)
(* finitely many commands, drops and restarts, the device ends up staying  *)
(* connected, with the driver on the network that is stored.               *)
EventuallyOnline ==
  <>[](Stored # None /\ Right(Stored) /\ wpc # "stopped")
    => <>[](status = "Connected" /\ link = ssid)
=============================================================================
