----------------------------- MODULE WifiProofs -----------------------------
(***************************************************************************)
(* The safety properties of Wifi, for every set of networks, every counter *)
(* width and every bound on the environment.  AppliedOrPending is         *)
(* inductive together with TypeOK; CountersCurrent needs it, and that what *)
(* "#wifi" stored is still stored.  Then wifi_task next to the real     *)
(* websocket_task: the two on one executor implement the specification     *)
(* Cloud, in which wifi_task is only an environment, so what CloudProofs   *)
(* proves of websocket_task holds there as well.                           *)
(***************************************************************************)
EXTENDS Wifi, TLAPS

(* A counter stays a counter: saturating_add never leaves its width. *)
LEMMA BumpType ==
  ASSUME NEW count \in Counter \cup {None}
  PROVE  Bump(count) \in 1..CounterMax
BY NoneAssumption, BoundsAssumption DEF Bump, Counter

(* A configuration that was read is one. *)
LEMMA StoredType ==
  ASSUME TypeOK
  PROVE  Stored \in Configuration \cup {None}
BY DEF TypeOK, Stored, Configuration

(* Handlers count their faults within the bound. *)
LEMMA AccessesType ==
  ASSUME TypeOK, NEW attempted, NEW done, Accesses(attempted, done)
  PROVE  env' \in Environments
BY BoundsAssumption DEF TypeOK, Accesses, Environments

(* What an attempt leaves in a counter is a counter. *)
LEMMA IncrementedType ==
  ASSUME NEW count \in Counter \cup {None}, NEW done
  PROVE  /\ Incremented(count, done) \in Counter \cup {None}
         /\ "write" \in done => Incremented(count, done) \in 1..CounterMax
<1>1. Bump(count) \in 1..CounterMax /\ Bump(None) \in 1..CounterMax
  BY BumpType
<1>2. 1..CounterMax \subseteq Counter
  BY BoundsAssumption DEF Counter
<1> QED
  BY <1>1, <1>2 DEF Incremented

LEMMA HandleType ==
  ASSUME TypeOK, NEW attempted, NEW done, Handle(attempted, done)
  PROVE  env' \in Environments
<1>1. /\ env \in Environments
      /\ env.commands + 1 \in 0..MaxCommands
      /\ done # attempted => env.faults + 1 \in 0..MaxFaults
  BY BoundsAssumption DEF TypeOK, Handle, Environments
<1>2. CASE done = attempted
  <2>1. env' = [env EXCEPT !.commands = env.commands + 1, !.faults = env.faults]
    BY <1>2 DEF Handle
  <2> QED
    BY <1>1, <2>1 DEF Environments
<1>3. CASE done # attempted
  <2>1. env' = [env EXCEPT !.commands = env.commands + 1, !.faults = env.faults + 1]
    BY <1>3 DEF Handle
  <2> QED
    BY <1>1, <1>3, <2>1 DEF Environments
<1> QED
  BY <1>2, <1>3

LEMMA InitTypeOK == Init => TypeOK
<1> SUFFICES ASSUME Init PROVE TypeOK
  OBVIOUS
<1>1. env \in Environments
  BY BoundsAssumption DEF Init, Environments
<1> QED
  BY <1>1 DEF Init, TypeOK

(* Every step of the task, of a command and of the environment keeps the   *)
(* variables within their Rust types.                                      *)
LEMMA NextTypeOK == TypeOK /\ [Next]_vars => TypeOK'
<1> SUFFICES ASSUME TypeOK, [Next]_vars PROVE TypeOK'
  OBVIOUS
<1> USE DEF TypeOK, nvs, wifi_status, task, history
<1>1. CASE OpenNvsFailed \/ ConfigUnreadable
  <2>1. env' \in Environments
    BY <1>1, BoundsAssumption DEF OpenNvsFailed, ConfigUnreadable, Environments
  <2> QED
    BY <1>1, <2>1 DEF OpenNvsFailed, ConfigUnreadable
<1>2. CASE ReadConfig
  BY <1>2, StoredType DEF ReadConfig, TopOfLoop
<1>3. ASSUME NEW done \in SUBSET {"read", "write"}, ConnectOk(done) PROVE TypeOK'
  <2>1. config \in Configuration /\ config.ssid \in Networks
    BY <1>3 DEF ConnectOk, Configuration
  <2>2. env' \in Environments
    BY <1>3, AccessesType DEF ConnectOk, Count
  <2>3. conn_ok' \in Counter \cup {None}
    BY <1>3, IncrementedType DEF ConnectOk
  <2> QED
    BY <1>3, <2>1, <2>2, <2>3 DEF ConnectOk, Count
<1>4. ASSUME NEW done \in SUBSET {"read", "write"}, NEW l \in Networks \cup {None},
             ConnectFailed(done, l)
      PROVE  TypeOK'
  <2>1. config \in Configuration /\ config.ssid \in Networks
    BY <1>4 DEF ConnectFailed, Configuration
  <2>2. env' \in Environments
    BY <1>4, AccessesType DEF ConnectFailed, Count
  <2>3. conn_fail' \in Counter \cup {None}
    BY <1>4, IncrementedType DEF ConnectFailed
  <2> QED
    BY <1>4, <2>1, <2>2, <2>3 DEF ConnectFailed, Count
<1>5. ASSUME NEW done \in SUBSET Counters, PollReconnect(done) PROVE TypeOK'
  <2>1. env' \in Environments
    BY <1>5, AccessesType DEF PollReconnect, Reset
  <2>2. 0 \in Counter
    BY BoundsAssumption DEF Counter
  <2> QED
    BY <1>5, <2>1, <2>2 DEF PollReconnect, Reset
<1>6. ASSUME NEW l \in Networks \cup {None}, Disconnected(l) PROVE TypeOK'
  BY <1>6, StoredType DEF Disconnected, TopOfLoop
<1>7. CASE PollLinkDown
  BY <1>7, StoredType DEF PollLinkDown, TopOfLoop
<1>8. CASE WifiCommand
  <2>1. env' \in Environments
    BY <1>8, HandleType DEF WifiCommand
  <2>2. ASSUME NEW s \in Networks, NEW p \in Networks, SetWifi(s, p) PROVE TypeOK'
    <3>1. accepted' \in Configuration
      BY <2>2 DEF SetWifi, Configuration
    <3> QED
      BY <2>1, <2>2, <3>1 DEF SetWifi
  <2>3. ASSUME NEW s \in Networks, SetSsidOnly(s) PROVE TypeOK'
    BY <2>1, <2>3 DEF SetSsidOnly
  <2> QED
    BY <1>8, <2>2, <2>3 DEF WifiCommand
<1>9. ASSUME NEW done \in SUBSET FactoryKeys, FactoryCommand(done) PROVE TypeOK'
  <2>1. env' \in Environments
    BY <1>9, HandleType DEF FactoryCommand
  <2> QED
    BY <1>9, <2>1 DEF FactoryCommand, Factory
<1>10. CASE LinkLost
  <2>1. env' \in Environments
    BY <1>10, BoundsAssumption DEF LinkLost, Environments
  <2> QED
    BY <1>10, <2>1 DEF LinkLost
<1>11. CASE Reboot
  <2>1. env' \in Environments
    BY <1>11, BoundsAssumption DEF Reboot, Environments
  <2> QED
    BY <1>11, <2>1 DEF Reboot
<1>12. CASE WebsocketTask
  BY <1>12 DEF WebsocketTask
<1>13. CASE UNCHANGED vars
  BY <1>13 DEF vars
<1> QED
  BY <1>1, <1>2, <1>3, <1>4, <1>5, <1>6, <1>7, <1>8, <1>9, <1>10, <1>11, <1>12, <1>13
  DEF Next, WifiTask, Command

(* Type correctness: whatever the commands, faults and link losses, every  *)
(* variable of wifi_task keeps a value of its Rust type, the saturating    *)
(* counters of wifi.rs:152-157 included.                                   *)
THEOREM TypeCorrect == Spec => []TypeOK
BY InitTypeOK, NextTypeOK, PTL DEF Spec

-----------------------------------------------------------------------------
(* No step loses an acknowledged "#wifi": every step that reads the        *)
(* configuration reads the accepted one, and every step that changes it    *)
(* either raises the flag or takes the acknowledgement back.               *)
LEMMA NextAppliedOrPending ==
  TypeOK /\ AppliedOrPending /\ [Next]_vars => AppliedOrPending'
<1> SUFFICES ASSUME TypeOK, AppliedOrPending, [Next]_vars PROVE AppliedOrPending'
  OBVIOUS
<1> USE DEF AppliedOrPending, nvs, wifi_status, task, history
<1>1. ASSUME TopOfLoop, UNCHANGED <<nvs, accepted>> PROVE AppliedOrPending'
  BY <1>1 DEF TopOfLoop, Stored
<1>2. CASE OpenNvsFailed \/ ConfigUnreadable
  BY <1>2 DEF OpenNvsFailed, ConfigUnreadable
<1>3. CASE ReadConfig
  BY <1>1, <1>3 DEF ReadConfig
<1>4. ASSUME NEW done \in SUBSET {"read", "write"}, ConnectOk(done) PROVE AppliedOrPending'
  BY <1>4 DEF ConnectOk, Count, Stored
<1>5. ASSUME NEW done \in SUBSET {"read", "write"}, NEW l \in Networks \cup {None},
             ConnectFailed(done, l)
      PROVE  AppliedOrPending'
  BY <1>5 DEF ConnectFailed
<1>6. ASSUME NEW done \in SUBSET Counters, PollReconnect(done) PROVE AppliedOrPending'
  BY <1>6 DEF PollReconnect
<1>7. ASSUME NEW l \in Networks \cup {None}, Disconnected(l) PROVE AppliedOrPending'
  BY <1>1, <1>7 DEF Disconnected
<1>8. CASE PollLinkDown
  BY <1>1, <1>8 DEF PollLinkDown
<1>9. CASE WifiCommand
  BY <1>9 DEF WifiCommand, SetWifi, SetSsidOnly
<1>10. ASSUME NEW done \in SUBSET FactoryKeys, FactoryCommand(done) PROVE AppliedOrPending'
  BY <1>10 DEF FactoryCommand, Factory
<1>11. CASE LinkLost
  BY <1>11 DEF LinkLost, Stored
<1>12. CASE Reboot
  BY <1>12 DEF Reboot
<1>13. CASE WebsocketTask
  BY <1>13 DEF WebsocketTask, Stored
<1>14. CASE UNCHANGED vars
  BY <1>14 DEF vars, Stored
<1> QED
  BY <1>2, <1>3, <1>4, <1>5, <1>6, <1>7, <1>8, <1>9, <1>10, <1>11, <1>12, <1>13, <1>14
  DEF Next, WifiTask, Command

(* An acknowledged "#wifi" is in use or pending in every reachable state   *)
(* (the wifi_reconnect flag of command_listener.rs:329 and wifi.rs:117).   *)
THEOREM AcknowledgedNotLost == Spec => []AppliedOrPending
<1>1. Init => AppliedOrPending
  BY DEF Init, AppliedOrPending
<1> QED
  BY <1>1, TypeCorrect, NextAppliedOrPending, PTL DEF Spec

-----------------------------------------------------------------------------
(* Nothing but another command changes what "#wifi" stored. *)
AcceptedStored == accepted # None => Stored = accepted

LEMMA NextAcceptedStored ==
  TypeOK /\ AcceptedStored /\ [Next]_vars => AcceptedStored'
<1> SUFFICES ASSUME TypeOK, AcceptedStored, [Next]_vars PROVE AcceptedStored'
  OBVIOUS
<1>1. CASE UNCHANGED <<ssid, pass, accepted>>
  BY <1>1 DEF AcceptedStored, Stored
<1>2. CASE WifiTask
  BY <1>1, <1>2
  DEF WifiTask, OpenNvsFailed, ReadConfig, ConfigUnreadable, ConnectOk, ConnectFailed, Count,
      PollReconnect, Reset, Disconnected, PollLinkDown, nvs, history
<1>3. CASE WifiCommand
  <2>1. ASSUME NEW s \in Networks, NEW p \in Networks, SetWifi(s, p) PROVE AcceptedStored'
    BY <2>1, NoneAssumption DEF SetWifi, AcceptedStored, Stored
  <2>2. ASSUME NEW s \in Networks, SetSsidOnly(s) PROVE AcceptedStored'
    BY <2>2 DEF SetSsidOnly, AcceptedStored
  <2> QED
    BY <1>3, <2>1, <2>2 DEF WifiCommand
<1>4. ASSUME NEW done \in SUBSET FactoryKeys, FactoryCommand(done) PROVE AcceptedStored'
  BY <1>4 DEF FactoryCommand, Factory, AcceptedStored
<1>5. CASE LinkLost \/ Reboot \/ WebsocketTask \/ UNCHANGED vars
  BY <1>1, <1>5 DEF LinkLost, Reboot, WebsocketTask, vars, nvs, history
<1> QED
  BY <1>2, <1>3, <1>4, <1>5 DEF Next, Command

(* The counters are reset together with the flag being taken, and before   *)
(* the next attempt; an attempt counts for the accepted network, because   *)
(* with no reconnect pending the task works with what is stored.           *)
LEMMA NextCountersCurrent ==
  TypeOK /\ AppliedOrPending /\ AcceptedStored /\ CountersCurrent /\ [Next]_vars
    => CountersCurrent'
<1> SUFFICES ASSUME TypeOK, AppliedOrPending, AcceptedStored, CountersCurrent, [Next]_vars
             PROVE  CountersCurrent'
  OBVIOUS
<1> USE DEF CountersCurrent, nvs, wifi_status, task, history
<1>1. ASSUME TopOfLoop, UNCHANGED <<wifi_reconnect, history>> PROVE CountersCurrent'
  BY <1>1 DEF TopOfLoop
<1>2. CASE OpenNvsFailed \/ ConfigUnreadable
  BY <1>2 DEF OpenNvsFailed, ConfigUnreadable
<1>3. CASE ReadConfig
  BY <1>1, <1>3 DEF ReadConfig
<1>4. ASSUME NEW done, Count(done), wpc = "connecting", UNCHANGED wifi_reconnect,
             ~wifi_reconnect, accepted # None, ~dropped
      PROVE  UNCHANGED <<accepted, dropped>> /\ counted' \subseteq {accepted.ssid}
  <2>1. config = accepted
    BY <1>4 DEF AppliedOrPending, AcceptedStored
  <2>2. counted \subseteq {accepted.ssid}
    BY <1>4
  <2> QED
    BY <1>4, <2>1, <2>2 DEF Count
<1>5. ASSUME NEW done \in SUBSET {"read", "write"}, ConnectOk(done) PROVE CountersCurrent'
  <2>1. CASE "write" \notin done
    <3>1. env.faults \in Nat /\ env' = [env EXCEPT !.faults = env.faults + 1]
      BY <1>5, <2>1, BoundsAssumption DEF ConnectOk, Count, Accesses, TypeOK, Environments
    <3>2. env'.faults = env.faults + 1 /\ env'.faults # 0
      BY <3>1 DEF TypeOK, Environments
    <3> QED
      BY <1>4, <1>5, <3>2 DEF ConnectOk, Count
  <2>2. CASE "write" \in done
    <3>1. conn_ok' \in 1..CounterMax
      BY <1>5, <2>2, IncrementedType DEF ConnectOk, TypeOK
    <3> QED
      BY <1>4, <1>5, <3>1 DEF ConnectOk, Count
  <2> QED
    BY <2>1, <2>2
<1>6. ASSUME NEW done \in SUBSET {"read", "write"}, NEW l \in Networks \cup {None},
             ConnectFailed(done, l)
      PROVE  CountersCurrent'
  BY <1>4, <1>6 DEF ConnectFailed, Count
<1>7. ASSUME NEW done \in SUBSET Counters, PollReconnect(done) PROVE CountersCurrent'
  BY <1>7 DEF PollReconnect, Reset
<1>8. ASSUME NEW l \in Networks \cup {None}, Disconnected(l) PROVE CountersCurrent'
  BY <1>1, <1>8 DEF Disconnected
<1>9. CASE PollLinkDown
  BY <1>1, <1>9 DEF PollLinkDown
<1>10. CASE WifiCommand
  <2>1. env'.faults = env.faults
    BY <1>10 DEF WifiCommand, Handle, TypeOK, Environments
  <2> QED
    BY <1>10, <2>1 DEF WifiCommand, SetWifi, SetSsidOnly
<1>11. ASSUME NEW done \in SUBSET FactoryKeys, FactoryCommand(done) PROVE CountersCurrent'
  BY <1>11 DEF FactoryCommand, Factory
<1>12. CASE LinkLost
  <2>1. env'.faults = env.faults
    BY <1>12 DEF LinkLost, TypeOK, Environments
  <2> QED
    BY <1>12, <2>1 DEF LinkLost
<1>13. CASE Reboot
  BY <1>13 DEF Reboot
<1>14. CASE WebsocketTask
  BY <1>14 DEF WebsocketTask
<1>15. CASE UNCHANGED vars
  BY <1>15 DEF vars
<1> QED
  BY <1>2, <1>3, <1>5, <1>6, <1>7, <1>8, <1>9, <1>10, <1>11, <1>12, <1>13, <1>14, <1>15
  DEF Next, WifiTask, Command

(* The counters never mix the network in use with an earlier one, and the  *)
(* success counter has counted the connection the task is in, but for a    *)
(* reset lost to a restart or a failed write (wifi.rs:17-19, 117-121).     *)
THEOREM CountersKept == Spec => []CountersCurrent
<1>1. Init => AcceptedStored /\ CountersCurrent
  BY DEF Init, AcceptedStored, CountersCurrent
<1> QED
  BY <1>1, TypeCorrect, AcknowledgedNotLost, NextAcceptedStored, NextCountersCurrent, PTL
  DEF Spec

-----------------------------------------------------------------------------
(* What Connectivity has besides wifi_task's own. *)
CONSTANTS Codes, Names, Hosts, LongHosts, DefaultHost, Spent, MaxCloudCommands, MaxCloudFaults
VARIABLES
  reg_code, device_name, device_id, device_secret, cloud_host, registration, connection,
  shown_host, shown_name, reregister, pc, creds, spent, issued, posted, refused, cloud_env

N == INSTANCE Connectivity WITH
       MaxWifiCommands <- MaxCommands, MaxWifiFaults <- MaxFaults, wifi_env <- env

(* wifi_task polls a connection only while it shows it. *)
ConnectedShown == wpc = "connected" => status = "Connected"

LEMMA NextConnectedShown == ConnectedShown /\ [N!Next]_(N!vars) => ConnectedShown'
<1> SUFFICES ASSUME ConnectedShown, [N!Next]_(N!vars) PROVE ConnectedShown'
  OBVIOUS
<1> USE DEF ConnectedShown, N!wifi, N!W!task, N!W!wifi_status
<1>1. CASE N!WifiTask
  BY <1>1
  DEF N!WifiTask, N!W!WifiTask, N!W!OpenNvsFailed, N!W!ReadConfig, N!W!ConfigUnreadable,
      N!W!TopOfLoop, N!W!ConnectOk, N!W!ConnectFailed, N!W!PollReconnect, N!W!Disconnected,
      N!W!PollLinkDown
<1>2. CASE N!WebsocketTask
  BY <1>2 DEF N!WebsocketTask
<1>3. CASE N!ClientThread
  BY <1>3 DEF N!ClientThread
<1>4. CASE N!LinkLost
  BY <1>4 DEF N!LinkLost, N!W!LinkLost
<1>5. CASE N!Command
  BY <1>5
  DEF N!Command, N!W!WifiCommand, N!W!SetWifi, N!W!SetSsidOnly, N!W!FactoryCommand, N!W!Factory
<1>6. CASE N!Reboot
  BY <1>6 DEF N!Reboot, N!W!Reboot
<1>7. CASE UNCHANGED N!vars
  BY <1>7 DEF N!vars
<1> QED
  BY <1>1, <1>2, <1>3, <1>4, <1>5, <1>6, <1>7 DEF N!Next

(* A step of wifi_task is one its environment may take, or none at all. *)
LEMMA WifiTaskRefines ==
  ASSUME ConnectedShown, N!WifiTask
  PROVE  N!C!WifiTask \/ UNCHANGED N!C!vars
<1>1. pc \in N!C!Awaiting /\ UNCHANGED N!cloud /\ N!W!WifiTask
  BY DEF N!WifiTask, N!ExecutorFree
<1> USE DEF N!cloud, N!C!vars, N!C!nvs, N!C!cloud_status, N!C!task, N!C!service, N!C!history
<1>2. CASE UNCHANGED ws_client
  BY <1>1, <1>2 DEF N!C!WifiTask
<1>3. ASSUME NEW done, N!W!PollReconnect(done) PROVE N!C!WifiTask
  BY <1>1, <1>3 DEF ConnectedShown, N!W!PollReconnect, N!C!WifiTask, N!C!CloseWebsocket
<1> QED
  BY <1>1, <1>2, <1>3
  DEF N!W!WifiTask, N!W!OpenNvsFailed, N!W!ReadConfig, N!W!ConfigUnreadable, N!W!ConnectOk,
      N!W!ConnectFailed, N!W!Disconnected, N!W!PollLinkDown

LEMMA NextRefines == ConnectedShown /\ [N!Next]_(N!vars) => [N!C!Next]_(N!C!vars)
<1> SUFFICES ASSUME ConnectedShown, [N!Next]_(N!vars) PROVE N!C!Next \/ UNCHANGED N!C!vars
  OBVIOUS
<1>1. CASE N!WifiTask
  BY <1>1, WifiTaskRefines DEF N!C!Next
<1>2. CASE N!WebsocketTask
  BY <1>2 DEF N!WebsocketTask, N!C!Next
<1>3. CASE N!ClientThread
  BY <1>3 DEF N!ClientThread, N!C!Next
<1>4. CASE N!LinkLost
  BY <1>4
  DEF N!LinkLost, N!W!LinkLost, N!W!wifi_status, N!cloud, N!C!vars, N!C!nvs, N!C!cloud_status,
      N!C!task, N!C!service, N!C!history
<1>5. CASE N!Command
  <2>1. CASE UNCHANGED N!cloud /\ N!W!WifiCommand
    BY <2>1
    DEF N!W!WifiCommand, N!W!SetWifi, N!W!SetSsidOnly, N!W!wifi_status, N!cloud, N!C!vars,
        N!C!nvs, N!C!cloud_status, N!C!task, N!C!service, N!C!history
  <2>2. CASE UNCHANGED N!wifi /\ N!C!CloudCommand
    BY <2>2 DEF N!C!Next, N!C!Command
  <2>3. CASE N!C!FactoryCommand(N!C!FactoryKeys)
    BY <2>3 DEF N!C!Next, N!C!Command
  <2> QED
    BY <1>5, <2>1, <2>2, <2>3 DEF N!Command
<1>6. CASE N!Reboot
  BY <1>6 DEF N!Reboot, N!C!Next
<1>7. CASE UNCHANGED N!vars
  BY <1>7
  DEF N!vars, N!wifi, N!cloud, N!C!vars, N!C!nvs, N!C!cloud_status, N!C!task, N!C!service,
      N!C!history
<1> QED
  BY <1>1, <1>2, <1>3, <1>4, <1>5, <1>6, <1>7 DEF N!Next

(* websocket_task next to wifi_task, sharing Global and the executor,      *)
(* behaves as Cloud says: the client is only taken away from it between    *)
(* two of its awaits and while Wi-Fi was up (wifi.rs:117-126,              *)
(* main.rs:104-114).                                                       *)
THEOREM ImplementsCloud == N!Spec => N!CloudSpec
<1>1. N!Init => N!C!Init /\ ConnectedShown
  BY DEF N!Init, N!W!Init, ConnectedShown
<1> QED
  BY <1>1, NextConnectedShown, NextRefines, PTL DEF N!Spec, N!CloudSpec, N!C!Spec
=============================================================================
