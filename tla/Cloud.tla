-------------------------------- MODULE Cloud --------------------------------
(***************************************************************************)
(* websocket_task (src/websocket.rs): registering the device and keeping   *)
(* one websocket open to the cloud host, the NVS namespace "device", the   *)
(* commands "#reg", "#name", "#host", "#factory" and "#reset", and the     *)
(* registration service at the other end.                                  *)
(*                                                                         *)
(* pc names the await websocket_task is suspended at, or, for the members  *)
(* of Running, a point inside one stretch between two awaits: there the    *)
(* executor runs no other task, but the power may fail, and the HTTP       *)
(* request takes place.  A "#..." command reaches the same CommandListener *)
(* over UART or over the websocket; the latter are handled at the start of *)
(* a 20 ms tick, which is the same as a UART command right before it.      *)
(* wifi_task is an environment here: wifi_up is its status being           *)
(* Connected, and it closes the client before it takes the link down.      *)
(***************************************************************************)
EXTENDS Integers

CONSTANTS
  Codes,        \* registration codes somebody can provision
  Names,        \* device names of an admissible length
  Hosts,        \* values "#host" can be given, the default host apart
  LongHosts,    \* those of exactly 128 bytes
  DefaultHost,  \* DEFAULT_CLOUD_HOST
  Spent,        \* NVS_VALUE_REGISTRATION_REJECTED
  None,         \* Option::None, and a key that is not in NVS
  MaxCommands,  \* bound on the number of "#..." commands
  MaxReboots,   \* bound on restarts and power losses
  MaxFaults     \* bound on failing NVS accesses and power losses inside a handler

ASSUME NoneAssumption == None \notin Codes \cup Names \cup Hosts \cup {DefaultHost, Spent}
ASSUME SpentAssumption == Spent \notin Codes
ASSUME HostAssumption == LongHosts \subseteq Hosts /\ DefaultHost \notin Hosts
ASSUME BoundsAssumption == MaxCommands \in Nat /\ MaxReboots \in Nat /\ MaxFaults \in Nat

VARIABLES
  reg_code, device_name, device_id, device_secret, cloud_host,  \* NVS "device"
  registration, connection, shown_host, shown_name,  \* Global::cloud_status
  reregister,           \* Global::reregister
  ws_client,            \* Global::ws_client
  wifi_up,              \* Global::wifi_status.status is Connected
  pc, creds,            \* where websocket_task is, and its local (id, secret)
  spent, issued,        \* the service: codes used up, registrations made
  posted,               \* history: times a code was sent since it was provisioned
  refused,              \* history: codes whose "#reg" was answered with an error
  env                   \* history: commands, reboots and faults so far

nvs == <<reg_code, device_name, device_id, device_secret, cloud_host>>
cloud_status == <<registration, connection, shown_host, shown_name>>
task == <<pc, creds>>
service == <<spent, issued>>
history == <<posted, refused>>
vars == <<nvs, cloud_status, reregister, ws_client, wifi_up, task, service, history, env>>

-----------------------------------------------------------------------------
AllHosts == Hosts \cup {DefaultHost}

(* What one registration issues; the id and the secret each carry it. *)
Token == [host : AllHosts, serial : Nat]
ASSUME TokenAssumption == None \notin Token

Credentials == [id : Token, secret : Token]
Client == [host : AllHosts, id : Token, secret : Token, up : BOOLEAN]
Environments == [commands : 0..MaxCommands, reboots : 0..MaxReboots, faults : 0..MaxFaults]

Running == {"lap", "post", "persist", "open"}
Awaiting == {"boot", "stopped", "wait", "retry", "backoff", "live"}

(* The variables hold values of their Rust types. *)
TypeOK ==
  /\ reg_code \in Codes \cup {None, Spent}
  /\ device_name \in Names \cup {None}
  /\ device_id \in Token \cup {None} /\ device_secret \in Token \cup {None}
  /\ cloud_host \in Hosts \cup {None}
  /\ registration \in {"NoCode", "Registering", "Registered", "Failed"}
  /\ connection \in {"Disconnected", "Connecting", "Connected"}
  /\ shown_host \in AllHosts \cup {None} /\ shown_name \in Names \cup {None}
  /\ reregister \in BOOLEAN /\ wifi_up \in BOOLEAN
  /\ ws_client \in Client \cup {None}
  /\ pc \in Running \cup Awaiting
  /\ creds \in Credentials \cup {None}
  /\ pc \in {"persist", "open"} => creds \in Credentials
  /\ spent \subseteq Codes /\ issued \in Nat
  /\ posted \in [Codes -> Nat] /\ refused \subseteq Codes
  /\ env \in Environments

(* read_cloud_host: its 128-byte buffer has no room for the NUL of a value *)
(* of 128 bytes, and a value that cannot be read counts as unset.          *)
CloudHost == IF cloud_host \in Hosts \ LongHosts THEN cloud_host ELSE DefaultHost

(* ensure_device_credentials: without a code to act on, a stored pair is used. *)
HasCode == reg_code \in Codes
HasPair == device_id # None /\ device_secret # None

Init ==
  /\ reg_code = None /\ device_name = None
  /\ device_id = None /\ device_secret = None /\ cloud_host = None
  /\ registration = "NoCode" /\ connection = "Disconnected"
  /\ shown_host = None /\ shown_name = None
  /\ reregister = FALSE /\ ws_client = None /\ wifi_up = FALSE
  /\ pc = "boot" /\ creds = None
  /\ spent = {} /\ issued = 0
  /\ posted = [c \in Codes |-> 0] /\ refused = {}
  /\ env = [commands |-> 0, reboots |-> 0, faults |-> 0]

-----------------------------------------------------------------------------
(* The NVS writes of one handler: attempted is the set of keys it writes,  *)
(* done the ones whose write took effect.  A failure is only logged.       *)
Writes(attempted, done) ==
  /\ done \subseteq attempted
  /\ done # attempted => env.faults < MaxFaults
  /\ env' = IF done = attempted THEN env ELSE [env EXCEPT !.faults = @ + 1]

Without(value, key, done) == IF key \in done THEN None ELSE value

(* close_websocket: the client is taken out of Global and dropped. *)
CloseWebsocket == ws_client' = None

(* The task gets to ensure_device_credentials: past wait_for_wifi, or from *)
(* its retry timer, which does not look at Wi-Fi again.                    *)
AtCredentials ==
  \/ pc \in {"boot", "wait", "lap"} /\ wifi_up
  \/ pc = "retry"

(* Without its NVS namespace the task gives up until the next boot. *)
OpenNvsFailed ==
  /\ pc = "boot" /\ wifi_up /\ env.faults < MaxFaults
  /\ env' = [env EXCEPT !.faults = @ + 1]
  /\ registration' = "Failed"
  /\ pc' = "stopped"
  /\ UNCHANGED <<nvs, connection, shown_host, shown_name, reregister, ws_client, wifi_up,
                 creds, service, history>>

(* wait_for_wifi has to wait. *)
WaitForWifi ==
  /\ pc = "lap" /\ ~wifi_up
  /\ pc' = "wait"
  /\ UNCHANGED <<nvs, cloud_status, reregister, ws_client, wifi_up, creds, service, history, env>>

(* No code to act on, and a stored id and secret.  A name that cannot be   *)
(* read is shown as none.                                                  *)
UseStored ==
  /\ AtCredentials /\ ~HasCode /\ HasPair
  /\ \/ shown_name' = device_name /\ UNCHANGED env
     \/ /\ shown_name' = None /\ env.faults < MaxFaults
        /\ env' = [env EXCEPT !.faults = @ + 1]
  /\ creds' = [id |-> device_id, secret |-> device_secret]
  /\ pc' = "open"
  /\ UNCHANGED <<nvs, registration, connection, shown_host, reregister, ws_client, wifi_up,
                 service, history>>

(* RegisterError::MissingCode and RegisterError::Rejected. *)
NothingToUse ==
  /\ AtCredentials /\ ~HasCode /\ ~HasPair
  /\ registration' = IF reg_code = Spent THEN "Failed" ELSE "NoCode"
  /\ pc' = "retry"
  /\ UNCHANGED <<nvs, connection, shown_host, shown_name, reregister, ws_client, wifi_up,
                 creds, service, history, env>>

(* The code, the name or the stored pair cannot be read; what is missing   *)
(* of the pair counts as not stored.                                       *)
CredentialsUnreadable ==
  /\ AtCredentials /\ env.faults < MaxFaults
  /\ env' = [env EXCEPT !.faults = @ + 1]
  /\ \/ registration' = "Failed"
     \/ ~HasCode /\ registration' = IF reg_code = Spent THEN "Failed" ELSE "NoCode"
  /\ pc' = "retry"
  /\ UNCHANGED <<nvs, connection, shown_host, shown_name, reregister, ws_client, wifi_up,
                 creds, service, history>>

(* A code without a device name is removed and reported as missing. *)
DropStrayCode(done) ==
  /\ AtCredentials /\ HasCode /\ device_name = None
  /\ Writes({"reg_code"}, done)
  /\ reg_code' = Without(reg_code, "reg_code", done)
  /\ registration' = "NoCode"
  /\ pc' = "retry"
  /\ UNCHANGED <<device_name, device_id, device_secret, cloud_host, connection, shown_host,
                 shown_name, reregister, ws_client, wifi_up, creds, service, history>>

(* Mutant of WipeCredentials: the old pair stays until it is overwritten. *)
KeepCredentials(done) ==
  /\ AtCredentials /\ HasCode /\ device_name # None
  /\ Writes({"device_id", "device_secret"}, done)
  /\ registration' = "Registering" /\ shown_name' = device_name
  /\ pc' = "post"
  /\ UNCHANGED <<nvs, connection, shown_host, reregister, ws_client, wifi_up, creds, service,
                 history>>

(* A code to act on: the stored pair goes before the request is made. *)
WipeCredentials(done) ==
  /\ AtCredentials /\ HasCode /\ device_name # None
  /\ Writes({"device_id", "device_secret"}, done)
  /\ registration' = "Registering" /\ shown_name' = device_name
  /\ device_id' = Without(device_id, "device_id", done)
  /\ device_secret' = Without(device_secret, "device_secret", done)
  /\ pc' = "post"
  /\ UNCHANGED <<reg_code, device_name, cloud_host, connection, shown_host, reregister,
                 ws_client, wifi_up, creds, service, history>>

(* register_device, answered: the service takes every code once. *)
RegisterOk ==
  /\ pc = "post" /\ reg_code \notin spent
  /\ spent' = spent \cup {reg_code} /\ issued' = issued + 1
  /\ posted' = [posted EXCEPT ![reg_code] = @ + 1]
  /\ LET token == [host |-> CloudHost, serial |-> issued]
     IN  creds' = [id |-> token, secret |-> token]
  /\ pc' = "persist"
  /\ UNCHANGED <<nvs, cloud_status, reregister, ws_client, wifi_up, refused, env>>

(* register_device failed: refused, unreachable, or the answer was lost    *)
(* after the service had taken the code.  The code is marked as spent.     *)
RegisterFailed(taken, done) ==
  /\ pc = "post"
  /\ taken => reg_code \notin spent
  /\ spent' = IF taken THEN spent \cup {reg_code} ELSE spent
  /\ issued' = IF taken THEN issued + 1 ELSE issued
  /\ posted' = [posted EXCEPT ![reg_code] = @ + 1]
  /\ Writes({"reg_code"}, done)
  /\ reg_code' = IF done = {} THEN reg_code ELSE Spent
  /\ registration' = "Failed"
  /\ pc' = "retry"
  /\ UNCHANGED <<device_name, device_id, device_secret, cloud_host, connection, shown_host,
                 shown_name, reregister, ws_client, wifi_up, creds, refused>>

(* Mutant of Persist: the code stays in NVS. *)
PersistKeepingCode(done) ==
  /\ pc = "persist" /\ done = {"device_id", "device_secret"}
  /\ device_id' = creds.id /\ device_secret' = creds.secret
  /\ pc' = "open"
  /\ UNCHANGED <<reg_code, device_name, cloud_host, cloud_status, reregister, ws_client,
                 wifi_up, creds, service, history, env>>

(* The id, then the secret, then the code; a failed set_str ends it, a     *)
(* failed removal of the code does not.                                    *)
Persist(done) ==
  /\ pc = "persist"
  /\ done \in {{}, {"device_id"}, {"device_id", "device_secret"},
               {"device_id", "device_secret", "reg_code"}}
  /\ Writes({"device_id", "device_secret", "reg_code"}, done)
  /\ device_id' = IF "device_id" \in done THEN creds.id ELSE device_id
  /\ device_secret' = IF "device_secret" \in done THEN creds.secret ELSE device_secret
  /\ reg_code' = Without(reg_code, "reg_code", done)
  /\ IF "device_secret" \in done
       THEN pc' = "open" /\ UNCHANGED registration
       ELSE pc' = "retry" /\ registration' = "Failed"
  /\ UNCHANGED <<device_name, cloud_host, connection, shown_host, shown_name, reregister,
                 ws_client, wifi_up, creds, service, history>>

(* EspWebSocketClient::new with the credentials at hand. *)
OpenClient ==
  /\ pc = "open"
  /\ registration' = "Registered" /\ connection' = "Connecting"
  /\ shown_host' = CloudHost
  /\ ws_client' = [host |-> CloudHost, id |-> creds.id, secret |-> creds.secret, up |-> FALSE]
  /\ pc' = "live"
  /\ UNCHANGED <<nvs, shown_name, reregister, wifi_up, creds, service, history, env>>

OpenClientFailed ==
  /\ pc = "open"
  /\ registration' = "Registered" /\ connection' = "Disconnected"
  /\ shown_host' = CloudHost
  /\ pc' = "backoff"
  /\ UNCHANGED <<nvs, shown_name, reregister, ws_client, wifi_up, creds, service, history, env>>

BackoffOver ==
  /\ pc = "backoff"
  /\ pc' = "lap"
  /\ UNCHANGED <<nvs, cloud_status, reregister, ws_client, wifi_up, creds, service, history, env>>

-----------------------------------------------------------------------------
(* The 20 ms tick finds that somebody has closed the client. *)
TickClientGone ==
  /\ pc = "live" /\ ws_client = None
  /\ connection' = "Disconnected"
  /\ pc' = "lap"
  /\ UNCHANGED <<nvs, registration, shown_host, shown_name, reregister, ws_client, wifi_up,
                 creds, service, history, env>>

(* A ping is due on a connected client and sending it fails. *)
TickPingFailed ==
  /\ pc = "live" /\ ws_client # None
  /\ ws_client.up
  /\ CloseWebsocket
  /\ connection' = "Disconnected"
  /\ pc' = "lap"
  /\ UNCHANGED <<nvs, registration, shown_host, shown_name, reregister, wifi_up, creds,
                 service, history, env>>

(* Mutant of TickReregister: the flag is cleared and the loop goes on. *)
TickReregisterStays ==
  /\ pc = "live" /\ ws_client # None /\ reregister
  /\ reregister' = FALSE
  /\ UNCHANGED <<nvs, cloud_status, ws_client, wifi_up, task, service, history, env>>

(* The reregister flag: back to ensure_device_credentials. *)
TickReregister ==
  /\ pc = "live" /\ ws_client # None /\ reregister
  /\ reregister' = FALSE
  /\ CloseWebsocket
  /\ registration' = "Registering" /\ connection' = "Disconnected"
  /\ pc' = "lap"
  /\ UNCHANGED <<nvs, shown_host, shown_name, wifi_up, creds, service, history, env>>

(* A tick with nothing to do but show the connection's state. *)
TickStatus ==
  /\ pc = "live" /\ ws_client # None /\ ~reregister
  /\ connection' = IF ws_client.up THEN "Connected" ELSE "Disconnected"
  /\ UNCHANGED <<nvs, registration, shown_host, shown_name, reregister, ws_client, wifi_up,
                 task, service, history, env>>

WebsocketTask ==
  \/ OpenNvsFailed \/ WaitForWifi \/ UseStored \/ NothingToUse \/ CredentialsUnreadable
  \/ \E done \in SUBSET {"reg_code"} : DropStrayCode(done)
  \/ \E done \in SUBSET {"device_id", "device_secret"} : WipeCredentials(done)
  \/ RegisterOk
  \/ \E taken \in BOOLEAN, done \in SUBSET {"reg_code"} : RegisterFailed(taken, done)
  \/ \E done \in SUBSET {"device_id", "device_secret", "reg_code"} : Persist(done)
  \/ OpenClient \/ OpenClientFailed \/ BackoffOver
  \/ TickClientGone \/ TickPingFailed \/ TickReregister \/ TickStatus

(* EspWebSocketClient's own thread connects and reconnects on its own; the *)
(* service lets in the pairs it issued.                                    *)
ClientThread ==
  /\ ws_client # None
  /\ ws_client.up \/ (ws_client.id = ws_client.secret /\ ws_client.id.host = ws_client.host)
  /\ ws_client' = [ws_client EXCEPT !.up = ~@]
  /\ UNCHANGED <<nvs, cloud_status, reregister, wifi_up, task, service, history, env>>

-----------------------------------------------------------------------------
(* "#reg,<code>,<name>" with both arguments well-formed.  The code is      *)
(* stored first; if that fails nothing happens, if the name then fails the *)
(* code stays behind a command that was answered with an error.            *)
Reg(c, n, done) ==
  /\ done \in {{"reg_code"}, {"reg_code", "device_name"}}
  /\ reg_code' = c
  /\ posted' = [posted EXCEPT ![c] = 0]
  /\ IF "device_name" \in done
       THEN /\ device_name' = n /\ shown_name' = n
            /\ reregister' = TRUE
            /\ refused' = refused \ {c}
       ELSE /\ refused' = refused \cup {c}
            /\ UNCHANGED <<device_name, shown_name, reregister>>
  /\ UNCHANGED <<device_id, device_secret, cloud_host, registration, connection, shown_host,
                 ws_client, wifi_up, task, service>>

(* "#name,<name>". *)
Name(n) ==
  /\ device_name' = n /\ shown_name' = n
  /\ UNCHANGED <<reg_code, device_id, device_secret, cloud_host, registration, connection,
                 shown_host, reregister, ws_client, wifi_up, task, service, history>>

(* Mutant of Host: websocket_task is not told. *)
HostQuietly(h, done) ==
  /\ cloud_host' = IF "cloud_host" \in done THEN h ELSE cloud_host
  /\ device_id' = Without(device_id, "device_id", done)
  /\ device_secret' = Without(device_secret, "device_secret", done)
  /\ UNCHANGED <<reg_code, device_name, cloud_status, reregister, ws_client, wifi_up, task,
                 service, history>>

(* "#host,<host>", and "#host" alone (h = None).  A host that is too long  *)
(* is not stored, and the rest of the handler runs all the same.           *)
Host(h, done) ==
  /\ cloud_host' = IF "cloud_host" \in done THEN h ELSE cloud_host
  /\ device_id' = Without(device_id, "device_id", done)
  /\ device_secret' = Without(device_secret, "device_secret", done)
  /\ reregister' = TRUE
  /\ UNCHANGED <<reg_code, device_name, cloud_status, ws_client, wifi_up, task, service, history>>

(* The "device" namespace's share of "#factory". *)
Factory(done) ==
  /\ reg_code' = Without(reg_code, "reg_code", done)
  /\ device_name' = Without(device_name, "device_name", done)
  /\ device_id' = Without(device_id, "device_id", done)
  /\ device_secret' = Without(device_secret, "device_secret", done)
  /\ cloud_host' = Without(cloud_host, "cloud_host", done)
  /\ shown_name' = None
  /\ reregister' = TRUE
  /\ UNCHANGED <<registration, connection, shown_host, ws_client, wifi_up, task, service, history>>

(* Mutant of HostKeys: the credentials survive a change of host. *)
HostKeyOnly == {"cloud_host"}

RegKeys == {"reg_code", "device_name"}
HostKeys == {"cloud_host", "device_id", "device_secret"}
FactoryKeys == RegKeys \cup HostKeys

(* One command: a handler, all of whose writes took effect or not. *)
Handle(attempted, done) ==
  /\ pc \in Awaiting /\ env.commands < MaxCommands
  /\ done = attempted \/ env.faults < MaxFaults
  /\ env' = [env EXCEPT !.commands = @ + 1,
                        !.faults = IF done = attempted THEN @ ELSE @ + 1]

CloudCommand ==
  \/ \E c \in Codes, n \in Names, done \in SUBSET RegKeys :
       Handle(RegKeys, done) /\ Reg(c, n, done)
  \/ \E n \in Names : Handle({}, {}) /\ Name(n)
  \/ \E h \in Hosts \cup {None}, done \in SUBSET HostKeys :
       Handle(HostKeys, done) /\ Host(h, done)
  \/ Handle({}, {}) /\ Host(None, HostKeys \ {"cloud_host"})

FactoryCommand(done) == Handle(FactoryKeys, done) /\ Factory(done)

Command == CloudCommand \/ \E done \in SUBSET FactoryKeys : FactoryCommand(done)

-----------------------------------------------------------------------------
(* "#reset", a power loss or a panic.  Inside a handler it is a fault. *)
Reboot ==
  /\ env.reboots < MaxReboots
  /\ pc \in Running => env.faults < MaxFaults
  /\ env' = [env EXCEPT !.reboots = @ + 1, !.faults = IF pc \in Running THEN @ + 1 ELSE @]
  /\ registration' = "NoCode" /\ connection' = "Disconnected"
  /\ shown_host' = None /\ shown_name' = None
  /\ reregister' = FALSE /\ ws_client' = None /\ wifi_up' = FALSE
  /\ pc' = "boot" /\ creds' = None
  /\ UNCHANGED <<nvs, service, history>>

(* wifi_task: the status changes, and the client is closed before a        *)
(* reconnect it was asked for.                                             *)
WifiTask ==
  /\ pc \in Awaiting
  /\ \/ wifi_up' = ~wifi_up /\ UNCHANGED ws_client
     \/ wifi_up /\ wifi_up' = FALSE /\ CloseWebsocket
  /\ UNCHANGED <<nvs, cloud_status, reregister, task, service, history, env>>

Next == WebsocketTask \/ ClientThread \/ Command \/ Reboot \/ WifiTask

(* The executor resumes the task whenever its timer is up. *)
Fairness == WF_vars(WebsocketTask)

Spec == Init /\ [][Next]_vars
FairSpec == Spec /\ Fairness

-----------------------------------------------------------------------------
(* A client that is not on the stored host with the stored credentials is  *)
(* marked for teardown: "#reg", "#host" and "#factory" can hit any await,  *)
(* and a running client never outlives what it was opened with unnoticed   *)
(* (websocket.rs:246, command_listener.rs:467).                            *)
StaleClientFlagged ==
  (/\ pc \in Awaiting
   /\ ws_client # None
   /\ \/ ws_client.host # CloudHost
      \/ ws_client.id # device_id
      \/ ws_client.secret # device_secret) => reregister

(* What #stat and the status popup call "registered" is backed by a stored *)
(* pair, or about to be looked at again (websocket.rs:152).                *)
RegisteredIsBacked == registration = "Registered" => (HasPair \/ reregister)

(* The websocket is opened with an id and a secret of one registration,    *)
(* through up to two failed writes or power losses (websocket.rs:536-562). *)
CredentialsPaired ==
  (ws_client # None /\ env.faults <= 2) => ws_client.id = ws_client.secret

(* With no fault, credentials go only to the host that issued them         *)
(* (command_listener.rs:447-453).                                          *)
CredentialsStayHome ==
  (ws_client # None /\ env.faults = 0) => ws_client.id.host = ws_client.host

(* A one-time code is sent once, and once more for every fault at most: a  *)
(* code the service may have taken is never retried for ever               *)
(* (websocket.rs:67-74).                                                   *)
CodeSentOnce == \A c \in Codes : posted[c] <= 1 + env.faults

(* The name on display is the stored one, unless an NVS removal failed. *)
NameOnDisplay ==
  (pc \in Awaiting /\ env.faults = 0 /\ shown_name # None) => shown_name = device_name

(* No client is replaced while it is still there: outside the tick loop    *)
(* Global::ws_client is empty (websocket.rs:219).                          *)
OneClient == pc # "live" => ws_client = None

(* A stored pair is given up only by a command or for a code that no fault *)
(* kept from being spent: no Wi-Fi loss, restart, failed ping or old code  *)
(* costs the device its registration.                                      *)
RegistrationKept ==
  [][(HasPair /\ ~HasPair')
       => (Command \/ (HasCode /\ posted[reg_code] <= env.faults))]_vars

(* A "#reg" that was answered with an error leaves nothing to act on       *)
(* (command_listener.rs:340-341: "atomic: either both get written, or      *)
(* neither does").  The write of the name can still fail after the code's. *)
RefusedCodeNotSent == \A c \in refused : posted[c] = 0

(* A stored "#host" is where the websocket goes (websocket.rs:62-64:       *)
(* "Overrides DEFAULT_CLOUD_HOST for every cloud connection ... when set"). *)
(* read_cloud_host has no room for one of 128 bytes.                       *)
HostOverrides ==
  (pc \in Awaiting /\ ws_client # None /\ ~reregister /\ cloud_host # None)
    => ws_client.host = cloud_host

(* A provisioned code is sent once Wi-Fi stays up, or it is replaced or    *)
(* removed, wherever in its loop the task was when "#reg" arrived.         *)
CodeActedOn ==
  <>[]wifi_up =>
    \A c \in Codes :
      (reg_code = c /\ reregister) ~> (reg_code # c \/ posted[c] > 0 \/ pc = "stopped")
=============================================================================
