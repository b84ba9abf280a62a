---------------------------- MODULE Connectivity ----------------------------
(***************************************************************************)
(* wifi_task and websocket_task together, as main() spawns them on one     *)
(* cooperative executor: they share Global::ws_client, websocket_task      *)
(* reads the status wifi_task writes, and "#factory" and a restart reach   *)
(* both.  Each is the environment the other's module describes.            *)
(***************************************************************************)
EXTENDS Integers

CONSTANTS
  Networks, CounterMax, MaxWifiCommands, MaxDrops, MaxWifiFaults,
  Codes, Names, Hosts, LongHosts, DefaultHost, Spent, MaxCloudCommands, MaxCloudFaults,
  None, MaxReboots

VARIABLES
  ssid, pass, conn_ok, conn_fail, status, ip, wifi_reconnect, wpc, config, link,
  accepted, counted, dropped, wifi_env,
  reg_code, device_name, device_id, device_secret, cloud_host, registration, connection,
  shown_host, shown_name, reregister, pc, creds, spent, issued, posted, refused, cloud_env,
  ws_client

C == INSTANCE Cloud WITH
       wifi_up <- status = "Connected", env <- cloud_env,
       MaxCommands <- MaxCloudCommands, MaxFaults <- MaxCloudFaults
W == INSTANCE Wifi WITH
       Clients <- C!Client, env <- wifi_env,
       MaxCommands <- MaxWifiCommands, MaxFaults <- MaxWifiFaults

wifi == <<ssid, pass, conn_ok, conn_fail, status, ip, wifi_reconnect, wpc, config, link,
          accepted, counted, dropped, wifi_env>>
cloud == <<reg_code, device_name, device_id, device_secret, cloud_host, registration,
           connection, shown_host, shown_name, reregister, pc, creds, spent, issued, posted,
           refused, cloud_env>>
vars == <<wifi, cloud, ws_client>>

Init == W!Init /\ C!Init

-----------------------------------------------------------------------------
(* Mutant of ExecutorFree: tasks preempt each other. *)
Preemptive == TRUE

(* The executor runs another task only while websocket_task awaits. *)
ExecutorFree == pc \in C!Awaiting

(* Mutant of WifiTask: no second attempt after a failed one. *)
WifiTaskGivesUp ==
  /\ ExecutorFree
  /\ UNCHANGED cloud
  /\ IF wpc = "backoff" THEN UNCHANGED <<wifi, ws_client>> ELSE W!WifiTask

WifiTask == ExecutorFree /\ UNCHANGED cloud /\ W!WifiTask

(* Mutant of WebsocketTask: wait_for_wifi is not woken. *)
SleepsThroughWifi ==
  /\ UNCHANGED wifi
  /\ IF pc = "wait" THEN UNCHANGED <<cloud, ws_client>> ELSE C!WebsocketTask

WebsocketTask == UNCHANGED wifi /\ C!WebsocketTask

(* The client's own thread and the radio do not wait for the executor. *)
ClientThread == UNCHANGED wifi /\ C!ClientThread
LinkLost == UNCHANGED cloud /\ W!LinkLost

(* "#factory" clears both namespaces in one handler. *)
Command ==
  /\ ExecutorFree
  /\ \/ UNCHANGED cloud /\ W!WifiCommand
     \/ UNCHANGED wifi /\ C!CloudCommand
     \/ W!FactoryCommand(W!FactoryKeys) /\ C!FactoryCommand(C!FactoryKeys)

(* A restart takes both tasks with it. *)
Reboot == W!Reboot /\ C!Reboot

Next == WifiTask \/ WebsocketTask \/ ClientThread \/ LinkLost \/ Command \/ Reboot

(* Both tasks are resumed whenever their timers or futures are ready; an   *)
(* attempt that could succeed does not fail for ever.                      *)
Fairness ==
  /\ WF_vars(WifiTask) /\ WF_vars(WebsocketTask)
  /\ SF_vars(WifiTask /\ status' = "Connected")
  /\ SF_vars(UNCHANGED wifi /\ C!OpenClient)

Spec == Init /\ [][Next]_vars
FairSpec == Spec /\ Fairness

-----------------------------------------------------------------------------
(* websocket_task finds in wifi_task the environment its own module        *)
(* assumes, so every safety property of Cloud holds here.                  *)
CloudSpec == C!Spec

(* wifi_task closes the websocket before it takes the link down, and       *)
(* counts on websocket_task not to open it again before disconnect() has   *)
(* returned (wifi.rs:122-126: "so `websocket_task` (which only waits for   *)
(* exactly that) doesn't reconnect it during the `disconnect().await`").   *)
NoClientWhileDisconnecting == wpc = "disconnecting" => ws_client = None

GoodWifi == W!Stored # None /\ W!Right(W!Stored)

(* Once the stored Wi-Fi configuration is good, a registered device keeps  *)
(* getting back to an open websocket, whatever was going on before.        *)
BackOnline ==
  <>[](GoodWifi /\ C!HasPair /\ ~C!HasCode) => []<>(ws_client # None)

(* Once the stored Wi-Fi configuration is good, a provisioned code is sent,*)
(* or replaced or removed by another command.                              *)
CodeGetsThrough ==
  <>[]GoodWifi =>
    \A c \in Codes : (reg_code = c /\ reregister) ~> (reg_code # c \/ posted[c] > 0)
=============================================================================
