---------------------------- MODULE CloudProofs ----------------------------
(***************************************************************************)
(* The safety properties of Cloud, for every set of codes, names and hosts *)
(* and every bound on commands, restarts and faults.  They rest on what    *)
(* the task knows between two awaits, when no command can come in between: *)
(* CodeAtHand, OpensStored, SentBound and HomeInv below.                   *)
(***************************************************************************)
EXTENDS Cloud, TLAPS

(* From the decision to register until the answer is stored the code that  *)
(* is being sent stays in NVS.                                             *)
CodeAtHand == pc \in {"post", "persist"} => HasCode

TypeInv == TypeOK /\ CodeAtHand

LEMMA EnvType ==
  ASSUME TypeOK
  PROVE  /\ env.commands \in 0..MaxCommands
         /\ env.reboots \in 0..MaxReboots
         /\ env.faults \in 0..MaxFaults
         /\ env.faults \in Nat
BY BoundsAssumption DEF TypeOK, Environments

(* NVS writes inside the task count at most one fault. *)
LEMMA WritesType ==
  ASSUME TypeOK, NEW attempted, NEW done, Writes(attempted, done)
  PROVE  /\ env' \in Environments
         /\ env'.faults = IF done = attempted THEN env.faults ELSE env.faults + 1
BY BoundsAssumption DEF TypeOK, Writes, Environments

(* So does a command. *)
LEMMA HandleType ==
  ASSUME TypeOK, NEW attempted, NEW done, Handle(attempted, done)
  PROVE  /\ env' \in Environments
         /\ env'.faults = IF done = attempted THEN env.faults ELSE env.faults + 1
<1>1. /\ env \in Environments
      /\ env.commands + 1 \in 0..MaxCommands
      /\ done # attempted => env.faults + 1 \in 0..MaxFaults
  BY EnvType, BoundsAssumption DEF TypeOK, Handle
<1>2. CASE done = attempted
  <2>1. env' = [env EXCEPT !.commands = env.commands + 1, !.faults = env.faults]
    BY <1>2 DEF Handle
  <2> QED
    BY <1>1, <1>2, <2>1 DEF Environments
<1>3. CASE done # attempted
  <2>1. env' = [env EXCEPT !.commands = env.commands + 1, !.faults = env.faults + 1]
    BY <1>3 DEF Handle
  <2> QED
    BY <1>1, <1>3, <2>1 DEF Environments
<1> QED
  BY <1>2, <1>3

(* And a restart, one if it cuts a handler short. *)
LEMMA RebootType ==
  ASSUME TypeOK, Reboot
  PROVE  /\ env' \in Environments
         /\ env'.faults = IF pc \in Running THEN env.faults + 1 ELSE env.faults
<1>1. /\ env \in Environments
      /\ env.reboots + 1 \in 0..MaxReboots
      /\ pc \in Running => env.faults + 1 \in 0..MaxFaults
  BY EnvType, BoundsAssumption DEF TypeOK, Reboot
<1>2. CASE pc \notin Running
  <2>1. env' = [env EXCEPT !.reboots = env.reboots + 1, !.faults = env.faults]
    BY <1>2 DEF Reboot
  <2> QED
    BY <1>1, <1>2, <2>1 DEF Environments
<1>3. CASE pc \in Running
  <2>1. env' = [env EXCEPT !.reboots = env.reboots + 1, !.faults = env.faults + 1]
    BY <1>3 DEF Reboot
  <2> QED
    BY <1>1, <1>3, <2>1 DEF Environments
<1> QED
  BY <1>2, <1>3

(* The host in use is one somebody set, or the default. *)
LEMMA CloudHostType == ASSUME TypeOK PROVE CloudHost \in AllHosts
BY DEF TypeOK, CloudHost, AllHosts

LEMMA InitTypeInv == Init => TypeInv
<1> SUFFICES ASSUME Init PROVE TypeInv
  OBVIOUS
<1>1. env \in Environments
  BY BoundsAssumption DEF Init, Environments
<1> QED
  BY <1>1 DEF Init, TypeInv, TypeOK, CodeAtHand, Awaiting, Running

-----------------------------------------------------------------------------
(* The task's own steps, then everybody's. *)
LEMMA TaskTypeInv == TypeInv /\ WebsocketTask => TypeInv'
<1> SUFFICES ASSUME TypeInv, WebsocketTask PROVE TypeInv'
  OBVIOUS
<1> USE DEF TypeInv, TypeOK, CodeAtHand, HasCode, Awaiting, Running, nvs, cloud_status, task,
            service, history
<1>1. CASE OpenNvsFailed \/ CredentialsUnreadable
  <2>1. env' \in Environments
    BY <1>1, EnvType, BoundsAssumption DEF OpenNvsFailed, CredentialsUnreadable, Environments
  <2> QED
    BY <1>1, <2>1 DEF OpenNvsFailed, CredentialsUnreadable
<1>2. CASE WaitForWifi
  BY <1>2 DEF WaitForWifi
<1>3. CASE UseStored
  <2>1. device_id \in Token /\ device_secret \in Token
    BY <1>3 DEF UseStored, HasPair
  <2>2. creds' \in Credentials
    BY <1>3, <2>1 DEF UseStored, Credentials
  <2>3. env' \in Environments
    BY <1>3, EnvType, BoundsAssumption DEF UseStored, Environments
  <2> QED
    BY <1>3, <2>2, <2>3 DEF UseStored
<1>4. CASE NothingToUse
  BY <1>4 DEF NothingToUse
<1>5. ASSUME NEW done \in SUBSET {"reg_code"}, DropStrayCode(done) PROVE TypeInv'
  BY <1>5, WritesType DEF DropStrayCode, Without
<1>6. ASSUME NEW done \in SUBSET {"device_id", "device_secret"}, WipeCredentials(done)
      PROVE  TypeInv'
  BY <1>6, WritesType DEF WipeCredentials, Without
<1>7. CASE RegisterOk
  <2> DEFINE token == [host |-> CloudHost, serial |-> issued]
  <2>1. token \in Token
    BY CloudHostType DEF Token
  <2>2. creds' = [id |-> token, secret |-> token] /\ creds' \in Credentials
    BY <1>7, <2>1 DEF RegisterOk, Credentials
  <2>3. posted' \in [Codes -> Nat]
    BY <1>7 DEF RegisterOk
  <2> QED
    BY <1>7, <2>2, <2>3 DEF RegisterOk
<1>8. ASSUME NEW taken \in BOOLEAN, NEW done \in SUBSET {"reg_code"}, RegisterFailed(taken, done)
      PROVE  TypeInv'
  BY <1>8, WritesType DEF RegisterFailed
<1>9. ASSUME NEW done \in SUBSET {"device_id", "device_secret", "reg_code"}, Persist(done)
      PROVE  TypeInv'
  BY <1>9, WritesType DEF Persist, Without, Credentials
<1>10. CASE OpenClient
  BY <1>10, CloudHostType DEF OpenClient, Client, Credentials
<1>11. CASE OpenClientFailed
  BY <1>11, CloudHostType DEF OpenClientFailed
<1>12. CASE BackoffOver
  BY <1>12 DEF BackoffOver
<1>13. CASE TickClientGone
  BY <1>13 DEF TickClientGone
<1>14. CASE TickPingFailed
  BY <1>14 DEF TickPingFailed, CloseWebsocket
<1>15. CASE TickReregister
  BY <1>15 DEF TickReregister, CloseWebsocket
<1>16. CASE TickStatus
  BY <1>16 DEF TickStatus
<1> QED
  BY <1>1, <1>2, <1>3, <1>4, <1>5, <1>6, <1>7, <1>8, <1>9, <1>10, <1>11, <1>12, <1>13,
     <1>14, <1>15, <1>16
  DEF WebsocketTask
(* The four commands that change NVS or the flag. *)
LEMMA CommandTypeInv == TypeInv /\ Command => TypeInv'
<1> SUFFICES ASSUME TypeInv, Command PROVE TypeInv'
  OBVIOUS
<1> USE DEF TypeInv, TypeOK, CodeAtHand, HasCode, Awaiting, Running, cloud_status, task,
            service, history
<1>1. ASSUME NEW c \in Codes, NEW n \in Names, NEW done \in SUBSET RegKeys,
             Handle(RegKeys, done), Reg(c, n, done)
      PROVE  TypeInv'
  <2>1. posted' \in [Codes -> Nat] /\ env' \in Environments /\ pc \in Awaiting
    BY <1>1, HandleType DEF Reg, Handle
  <2>2. /\ reg_code' \in Codes /\ refused' \subseteq Codes
        /\ device_name' \in Names \cup {None} /\ shown_name' \in Names \cup {None}
        /\ reregister' \in BOOLEAN
    BY <1>1 DEF Reg
  <2> QED
    BY <1>1, <2>1, <2>2 DEF Reg
<1>2. ASSUME NEW n \in Names, Handle({}, {}), Name(n) PROVE TypeInv'
  BY <1>2, HandleType DEF Name
<1>3. ASSUME NEW h \in Hosts \cup {None}, NEW done, Handle(HostKeys, done), Host(h, done)
      PROVE  TypeInv'
  BY <1>3, HandleType DEF Host, Without
<1>4. ASSUME NEW done, Handle({}, {}), Host(None, done) PROVE TypeInv'
  BY <1>4, HandleType DEF Host, Without
<1>5. ASSUME NEW done \in SUBSET FactoryKeys, FactoryCommand(done) PROVE TypeInv'
  <2>1. env' \in Environments /\ pc \in Awaiting
    BY <1>5, HandleType DEF FactoryCommand, Handle
  <2> QED
    BY <1>5, <2>1 DEF FactoryCommand, Factory, Without
<1> QED
  BY <1>1, <1>2, <1>3, <1>4, <1>5 DEF Command, CloudCommand

LEMMA NextTypeInv == TypeInv /\ [Next]_vars => TypeInv'
<1> SUFFICES ASSUME TypeInv, [Next]_vars PROVE TypeInv'
  OBVIOUS
<1> USE DEF TypeInv, TypeOK, CodeAtHand, HasCode, nvs, cloud_status, task, service, history
<1>1. CASE ClientThread
  <2>1. ws_client \in Client /\ (~ws_client.up) \in BOOLEAN
    BY <1>1 DEF ClientThread
  <2>2. ws_client' \in Client
    BY <1>1, <2>1 DEF ClientThread, Client
  <2> QED
    BY <1>1, <2>2 DEF ClientThread
<1>2. CASE Reboot
  BY <1>2, RebootType DEF Reboot, Awaiting, Running
<1>3. CASE WifiTask
  <2>1. wifi_up' \in BOOLEAN
    BY <1>3 DEF WifiTask
  <2> QED
    BY <1>3, <2>1 DEF WifiTask, CloseWebsocket
<1>4. CASE UNCHANGED vars
  BY <1>4 DEF vars
<1> QED
  BY <1>1, <1>2, <1>3, <1>4, TaskTypeInv, CommandTypeInv DEF Next

(* Type correctness: every variable keeps a value of its Rust type through *)
(* every interleaving of the task with commands, faults and restarts; in   *)
(* particular the task opens a client only with an id and a secret in hand *)
(* (websocket.rs:125-148).                                                 *)
THEOREM TypeCorrect == Spec => []TypeOK
<1>1. TypeInv => TypeOK
  BY DEF TypeInv
<1> QED
  BY <1>1, InitTypeInv, NextTypeInv, PTL DEF Spec

LEMMA TypeInvCorrect == Spec => []TypeInv
BY InitTypeInv, NextTypeInv, PTL DEF Spec

-----------------------------------------------------------------------------
(* A code that can still be sent has been sent at most once per fault; one *)
(* more is only possible between the answer and the writes that follow it. *)
SentBound ==
  /\ CodeSentOnce
  /\ (pc # "persist" /\ HasCode) => posted[reg_code] <= env.faults

LEMMA SentBoundType ==
  ASSUME TypeInv
  PROVE  /\ env.faults \in Nat
         /\ \A c \in Codes : posted[c] \in Nat
BY EnvType DEF TypeInv, TypeOK

(* Faults only add up. *)
LEMMA SentBoundKept ==
  ASSUME TypeInv, SentBound, UNCHANGED posted,
         env'.faults \in Nat, env'.faults >= env.faults,
         HasCode' => (reg_code' = reg_code /\ (pc' = "persist" \/ pc # "persist"))
  PROVE  SentBound'
<1>1. CodeSentOnce'
  BY SentBoundType DEF SentBound, CodeSentOnce
<1>2. (pc # "persist" /\ HasCode)' => (posted[reg_code] <= env.faults)'
  BY SentBoundType DEF SentBound, HasCode
<1> QED
  BY <1>1, <1>2 DEF SentBound

LEMMA TaskSentBound == TypeInv /\ SentBound /\ WebsocketTask => SentBound'
<1> SUFFICES ASSUME TypeInv, SentBound, WebsocketTask PROVE SentBound'
  OBVIOUS
<1>0. /\ TypeOK
      /\ env.faults \in Nat
      /\ \A c \in Codes : posted[c] \in Nat /\ posted[c] <= 1 + env.faults
      /\ posted \in [Codes -> Nat]
  BY SentBoundType DEF SentBound, CodeSentOnce, TypeInv, TypeOK
<1> USE DEF nvs, cloud_status, task, service, history
<1>1. CASE OpenNvsFailed \/ CredentialsUnreadable \/ UseStored
  BY <1>0, <1>1, SentBoundKept
  DEF OpenNvsFailed, CredentialsUnreadable, UseStored, AtCredentials, TypeOK, Environments,
      HasCode
<1>2. CASE WaitForWifi \/ NothingToUse \/ OpenClient \/ OpenClientFailed
           \/ BackoffOver \/ TickClientGone \/ TickPingFailed \/ TickReregister \/ TickStatus
  <2>1. UNCHANGED <<reg_code, posted, env>> /\ pc # "persist" /\ pc' # "persist"
    BY <1>2
    DEF WaitForWifi, AtCredentials, NothingToUse, OpenClient, OpenClientFailed,
        BackoffOver, TickClientGone, TickPingFailed, TickReregister, TickStatus
  <2> QED
    BY <1>0, <2>1 DEF SentBound, CodeSentOnce, HasCode
<1>3. ASSUME NEW done \in SUBSET {"reg_code"}, DropStrayCode(done) PROVE SentBound'
  <2>1. env'.faults \in Nat /\ env'.faults >= env.faults
    BY <1>0, <1>3, WritesType DEF DropStrayCode
  <2>2. HasCode' => reg_code' = reg_code
    BY <1>3, NoneAssumption DEF DropStrayCode, Without, HasCode
  <2> QED
    BY <1>3, <2>1, <2>2, SentBoundKept DEF DropStrayCode, AtCredentials
<1>4. ASSUME NEW done \in SUBSET {"device_id", "device_secret"}, WipeCredentials(done)
      PROVE  SentBound'
  BY <1>0, <1>4, WritesType, SentBoundKept DEF WipeCredentials, AtCredentials, HasCode
<1>5. CASE RegisterOk
  <2>1. reg_code \in Codes /\ posted[reg_code] <= env.faults
    BY <1>5 DEF RegisterOk, SentBound, TypeInv, CodeAtHand, HasCode
  <2>2. \A c \in Codes : posted'[c] <= 1 + env.faults
    BY <1>0, <1>5, <2>1 DEF RegisterOk
  <2> QED
    BY <1>5, <2>2 DEF RegisterOk, SentBound, CodeSentOnce
<1>6. ASSUME NEW taken \in BOOLEAN, NEW done \in SUBSET {"reg_code"}, RegisterFailed(taken, done)
      PROVE  SentBound'
  <2>1. reg_code \in Codes /\ posted[reg_code] <= env.faults
    BY <1>6 DEF RegisterFailed, SentBound, TypeInv, CodeAtHand, HasCode
  <2>2. posted'[reg_code] = posted[reg_code] + 1
        /\ \A c \in Codes : posted'[c] <= 1 + env.faults
    BY <1>0, <1>6, <2>1 DEF RegisterFailed
  <2>3. env'.faults = IF done = {} THEN env.faults + 1 ELSE env.faults
    <3>1. env'.faults = IF done = {"reg_code"} THEN env.faults ELSE env.faults + 1
      BY <1>0, <1>6, WritesType DEF RegisterFailed
    <3> QED
      BY <3>1
  <2>4. CodeSentOnce'
    BY <1>0, <1>6, <2>2, <2>3, SentBoundType DEF CodeSentOnce, RegisterFailed
  <2>5. CASE done = {}
    BY <1>0, <1>6, <2>1, <2>2, <2>3, <2>4, <2>5 DEF RegisterFailed, SentBound
  <2>6. CASE done # {}
    BY <1>6, <2>4, <2>6, SpentAssumption DEF RegisterFailed, SentBound, HasCode
  <2> QED
    BY <2>5, <2>6
<1>7. ASSUME NEW done \in SUBSET {"device_id", "device_secret", "reg_code"}, Persist(done)
      PROVE  SentBound'
  <2>1. reg_code \in Codes
    BY <1>7 DEF Persist, TypeInv, CodeAtHand, HasCode
  <2>2. CASE "reg_code" \in done
    <3>1. env'.faults = env.faults /\ ~HasCode'
      BY <1>0, <1>7, <2>2, WritesType, NoneAssumption DEF Persist, Without, HasCode
    <3> QED
      BY <1>0, <1>7, <3>1 DEF SentBound, CodeSentOnce, Persist
  <2>3. CASE "reg_code" \notin done
    <3>1. env'.faults = env.faults + 1 /\ reg_code' = reg_code
      BY <1>0, <1>7, <2>3, WritesType DEF Persist, Without
    <3> QED
      BY <1>0, <1>7, <2>1, <3>1 DEF SentBound, CodeSentOnce, Persist
  <2> QED
    BY <2>2, <2>3
<1> QED
  BY <1>1, <1>2, <1>3, <1>4, <1>5, <1>6, <1>7 DEF WebsocketTask
LEMMA CommandSentBound == TypeInv /\ SentBound /\ Command => SentBound'
<1> SUFFICES ASSUME TypeInv, SentBound, Command PROVE SentBound'
  OBVIOUS
<1>0. /\ TypeOK
      /\ env.faults \in Nat
      /\ \A c \in Codes : posted[c] \in Nat /\ posted[c] <= 1 + env.faults
      /\ posted \in [Codes -> Nat]
  BY SentBoundType DEF SentBound, CodeSentOnce, TypeInv, TypeOK
<1> USE DEF cloud_status, task, service, history
<1>1. ASSUME NEW c \in Codes, NEW n \in Names, NEW done \in SUBSET RegKeys,
             Handle(RegKeys, done), Reg(c, n, done)
      PROVE  SentBound'
  <2>1. env'.faults \in Nat /\ env'.faults >= env.faults
    BY <1>0, <1>1, HandleType
  <2>2. reg_code' = c /\ posted' = [posted EXCEPT ![c] = 0]
    BY <1>1 DEF Reg
  <2> QED
    BY <1>0, <2>1, <2>2 DEF SentBound, CodeSentOnce
<1>2. ASSUME NEW n \in Names, Handle({}, {}), Name(n) PROVE SentBound'
  BY <1>0, <1>2, HandleType, SentBoundKept DEF Name
<1>3. ASSUME NEW h, NEW attempted, NEW done, Handle(attempted, done), NEW kept, Host(h, kept)
      PROVE  SentBound'
  <2>1. env'.faults \in Nat /\ env'.faults >= env.faults
    BY <1>0, <1>3, HandleType
  <2> QED
    BY <1>3, <2>1, SentBoundKept DEF Host
<1>4. ASSUME NEW done \in SUBSET FactoryKeys, FactoryCommand(done) PROVE SentBound'
  <2>1. env'.faults \in Nat /\ env'.faults >= env.faults
    BY <1>0, <1>4, HandleType DEF FactoryCommand
  <2>2. HasCode' => reg_code' = reg_code
    BY <1>4, NoneAssumption DEF FactoryCommand, Factory, Without, HasCode
  <2>3. UNCHANGED <<posted, pc>>
    BY <1>4 DEF FactoryCommand, Factory
  <2> QED
    BY <2>1, <2>2, <2>3, SentBoundKept
<1> QED
  BY <1>1, <1>2, <1>3, <1>4 DEF Command, CloudCommand

LEMMA NextSentBound == TypeInv /\ SentBound /\ [Next]_vars => SentBound'
<1> SUFFICES ASSUME TypeInv, SentBound, [Next]_vars PROVE SentBound'
  OBVIOUS
<1>0. TypeOK /\ env.faults \in Nat
  BY SentBoundType DEF TypeInv
<1> USE DEF nvs, cloud_status, task, service, history
<1>1. CASE ClientThread \/ WifiTask \/ UNCHANGED vars
  <2>1. UNCHANGED <<reg_code, posted, pc, env>>
    BY <1>1 DEF ClientThread, WifiTask, vars
  <2> QED
    BY <1>0, <2>1, SentBoundKept
<1>2. CASE Reboot
  <2>1. env'.faults = IF pc \in Running THEN env.faults + 1 ELSE env.faults
    BY <1>0, <1>2, RebootType
  <2>2. UNCHANGED <<reg_code, posted>> /\ pc' = "boot"
    BY <1>2 DEF Reboot
  <2>3. CASE pc = "persist"
    BY <1>0, <2>1, <2>2, <2>3, SentBoundType DEF SentBound, CodeSentOnce, HasCode, Running
  <2>4. CASE pc # "persist"
    BY <1>0, <2>1, <2>2, <2>4, SentBoundKept
  <2> QED
    BY <2>3, <2>4
<1> QED
  BY <1>1, <1>2, TaskSentBound, CommandSentBound DEF Next

LEMMA SentBoundCorrect == Spec => []SentBound
<1>1. Init => SentBound
  <2> SUFFICES ASSUME Init PROVE SentBound
    OBVIOUS
  <2>1. env.faults = 0 /\ \A c \in Codes : posted[c] = 0
    BY DEF Init
  <2> QED
    BY <2>1 DEF SentBound, CodeSentOnce, HasCode
<1> QED
  BY <1>1, TypeInvCorrect, NextSentBound, PTL DEF Spec

(* However often the task retries, is restarted or interrupted by another  *)
(* "#reg", a provisioned code reaches the service once, and once more for  *)
(* every failed NVS write or power loss in a handler at most               *)
(* (websocket.rs:67-74, 543-562).                                          *)
THEOREM OneTimeCodes == Spec => []CodeSentOnce
<1>1. SentBound => CodeSentOnce
  BY DEF SentBound
<1> QED
  BY <1>1, SentBoundCorrect, PTL

-----------------------------------------------------------------------------
(* Only WipeCredentials and the commands take a stored pair away, and the  *)
(* former acts on a code that SentBound says could still be sent.          *)
LEMMA StepKeepsRegistration ==
  ASSUME TypeInv, SentBound, [Next]_vars, HasPair, ~HasPair'
  PROVE  Command \/ (HasCode /\ posted[reg_code] <= env.faults)
<1> USE DEF nvs, cloud_status, task, service, history
<1>1. CASE WebsocketTask
  <2>1. ASSUME NEW done \in SUBSET {"device_id", "device_secret"}, WipeCredentials(done)
        PROVE  HasCode /\ posted[reg_code] <= env.faults
    BY <2>1 DEF WipeCredentials, AtCredentials, SentBound
  <2>2. ASSUME NEW done, Persist(done) PROVE FALSE
    <3>1. creds.id \in Token /\ creds.secret \in Token
      BY <2>2 DEF Persist, TypeInv, TypeOK, Credentials
    <3> QED
      BY <2>2, <3>1, TokenAssumption DEF Persist, HasPair
  <2>3. ASSUME UNCHANGED <<device_id, device_secret>> PROVE FALSE
    BY <2>3 DEF HasPair
  <2> QED
    BY <1>1, <2>1, <2>2, <2>3
    DEF WebsocketTask, OpenNvsFailed, CredentialsUnreadable, WaitForWifi, UseStored,
        NothingToUse, DropStrayCode, RegisterOk, RegisterFailed, OpenClient, OpenClientFailed,
        BackoffOver, TickClientGone, TickPingFailed, TickReregister, TickStatus
<1>2. CASE ClientThread \/ WifiTask \/ Reboot \/ UNCHANGED vars
  BY <1>2 DEF ClientThread, WifiTask, Reboot, vars, HasPair
<1> QED
  BY <1>1, <1>2 DEF Next

(* Nothing but a command, or a code no fault kept from being spent, costs  *)
(* the device its stored registration (websocket.rs:533-541, 560-562).     *)
THEOREM RegistrationLasts == Spec => RegistrationKept
<1>1. TypeInv /\ SentBound /\ [Next]_vars
        => [(HasPair /\ ~HasPair')
              => (Command \/ (HasCode /\ posted[reg_code] <= env.faults))]_vars
  BY StepKeepsRegistration
<1> QED
  BY <1>1, TypeInvCorrect, SentBoundCorrect, PTL DEF Spec, RegistrationKept
-----------------------------------------------------------------------------
(* Between two awaits nobody else writes NVS: what the task is about to    *)
(* open a client with is what is stored.                                   *)
OpensStored == pc = "open" => (creds.id = device_id /\ creds.secret = device_secret)

ClientInv == OneClient /\ OpensStored /\ StaleClientFlagged /\ RegisteredIsBacked

LEMMA TaskClientInv == TypeInv /\ ClientInv /\ WebsocketTask => ClientInv'
<1> SUFFICES ASSUME TypeInv, ClientInv, WebsocketTask PROVE ClientInv'
  OBVIOUS
<1> USE DEF ClientInv, OneClient, OpensStored, StaleClientFlagged, RegisteredIsBacked, HasPair,
            CloudHost, Awaiting, nvs, cloud_status, task, service, history
<1>1. CASE OpenNvsFailed \/ CredentialsUnreadable
  BY <1>1 DEF OpenNvsFailed, CredentialsUnreadable, AtCredentials
<1>2. CASE WaitForWifi
  BY <1>2 DEF WaitForWifi
<1>3. CASE UseStored
  BY <1>3 DEF UseStored, AtCredentials
<1>4. CASE NothingToUse
  BY <1>4 DEF NothingToUse, AtCredentials
<1>5. ASSUME NEW done \in SUBSET {"reg_code"}, DropStrayCode(done) PROVE ClientInv'
  BY <1>5 DEF DropStrayCode, AtCredentials
<1>6. ASSUME NEW done \in SUBSET {"device_id", "device_secret"}, WipeCredentials(done)
      PROVE  ClientInv'
  BY <1>6 DEF WipeCredentials, AtCredentials
<1>7. CASE RegisterOk
  BY <1>7 DEF RegisterOk
<1>8. ASSUME NEW taken \in BOOLEAN, NEW done \in SUBSET {"reg_code"}, RegisterFailed(taken, done)
      PROVE  ClientInv'
  BY <1>8 DEF RegisterFailed
<1>9. ASSUME NEW done \in SUBSET {"device_id", "device_secret", "reg_code"}, Persist(done)
      PROVE  ClientInv'
  <2>1. creds.id \in Token /\ creds.secret \in Token
    BY <1>9 DEF Persist, TypeInv, TypeOK, Credentials
  <2> QED
    BY <1>9, <2>1, TokenAssumption DEF Persist
<1>10. CASE OpenClient
  <2>1. creds.id \in Token /\ creds.secret \in Token
    BY <1>10 DEF OpenClient, TypeInv, TypeOK, Credentials
  <2> QED
    BY <1>10, <2>1, TokenAssumption DEF OpenClient
<1>11. CASE OpenClientFailed
  <2>1. creds.id \in Token /\ creds.secret \in Token
    BY <1>11 DEF OpenClientFailed, TypeInv, TypeOK, Credentials
  <2> QED
    BY <1>11, <2>1, TokenAssumption DEF OpenClientFailed
<1>12. CASE BackoffOver
  BY <1>12 DEF BackoffOver
<1>13. CASE TickClientGone
  BY <1>13 DEF TickClientGone
<1>14. CASE TickPingFailed
  BY <1>14 DEF TickPingFailed, CloseWebsocket
<1>15. CASE TickReregister
  BY <1>15 DEF TickReregister, CloseWebsocket
<1>16. CASE TickStatus
  BY <1>16 DEF TickStatus
<1> QED
  BY <1>1, <1>2, <1>3, <1>4, <1>5, <1>6, <1>7, <1>8, <1>9, <1>10, <1>11, <1>12, <1>13,
     <1>14, <1>15, <1>16
  DEF WebsocketTask

LEMMA CommandClientInv == TypeInv /\ ClientInv /\ Command => ClientInv'
<1> SUFFICES ASSUME TypeInv, ClientInv, Command PROVE ClientInv'
  OBVIOUS
<1>0. pc \in Awaiting
  BY DEF Command, CloudCommand, FactoryCommand, Handle
<1> USE DEF ClientInv, OneClient, OpensStored, StaleClientFlagged, RegisteredIsBacked, HasPair,
            CloudHost, Awaiting, cloud_status, task, service, history
<1>1. ASSUME NEW c, NEW n, NEW done, Reg(c, n, done) PROVE ClientInv'
  BY <1>0, <1>1 DEF Reg
<1>2. ASSUME NEW n, Name(n) PROVE ClientInv'
  BY <1>0, <1>2 DEF Name
<1>3. ASSUME NEW h, NEW done, Host(h, done) PROVE ClientInv'
  BY <1>0, <1>3 DEF Host
<1>4. ASSUME NEW done, Factory(done) PROVE ClientInv'
  BY <1>0, <1>4 DEF Factory
<1> QED
  BY <1>1, <1>2, <1>3, <1>4 DEF Command, CloudCommand, FactoryCommand

LEMMA NextClientInv == TypeInv /\ ClientInv /\ [Next]_vars => ClientInv'
<1> SUFFICES ASSUME TypeInv, ClientInv, [Next]_vars PROVE ClientInv'
  OBVIOUS
<1> USE DEF ClientInv, OneClient, OpensStored, StaleClientFlagged, RegisteredIsBacked, HasPair,
            CloudHost, Awaiting, nvs, cloud_status, task, service, history
<1>1. CASE ClientThread
  <2>1. ws_client \in Client
    BY <1>1 DEF ClientThread, TypeInv, TypeOK
  <2>2. /\ ws_client'.host = ws_client.host /\ ws_client'.id = ws_client.id
        /\ ws_client'.secret = ws_client.secret
    BY <1>1, <2>1 DEF ClientThread, Client
  <2> QED
    BY <1>1, <2>2 DEF ClientThread
<1>2. CASE Reboot
  BY <1>2 DEF Reboot
<1>3. CASE WifiTask
  BY <1>3 DEF WifiTask, CloseWebsocket
<1>4. CASE UNCHANGED vars
  BY <1>4 DEF vars
<1> QED
  BY <1>1, <1>2, <1>3, <1>4, TaskClientInv, CommandClientInv DEF Next

LEMMA ClientInvCorrect == Spec => []ClientInv
<1>1. Init => ClientInv
  BY DEF Init, ClientInv, OneClient, OpensStored, StaleClientFlagged, RegisteredIsBacked
<1> QED
  BY <1>1, TypeInvCorrect, NextClientInv, PTL DEF Spec

(* A client opened with something that is no longer stored is marked for   *)
(* teardown, wherever the command arrived (websocket.rs:246,               *)
(* command_listener.rs:467).                                               *)
THEOREM StaleClientsFlagged == Spec => []StaleClientFlagged
<1>1. ClientInv => StaleClientFlagged
  BY DEF ClientInv
<1> QED
  BY <1>1, ClientInvCorrect, PTL

(* "registered" is never shown without a stored pair behind it, or the     *)
(* flag that makes the task look again (websocket.rs:152).                 *)
THEOREM RegisteredBacked == Spec => []RegisteredIsBacked
<1>1. ClientInv => RegisteredIsBacked
  BY DEF ClientInv
<1> QED
  BY <1>1, ClientInvCorrect, PTL

(* A client is only put into Global::ws_client when none is there          *)
(* (websocket.rs:219).                                                     *)
THEOREM OneClientAtATime == Spec => []OneClient
<1>1. ClientInv => OneClient
  BY DEF ClientInv
<1> QED
  BY <1>1, ClientInvCorrect, PTL
-----------------------------------------------------------------------------
(* With no fault so far, everything that holds credentials holds ones the  *)
(* host in use has issued: NVS, the task between registering and opening,  *)
(* and a client on the host it was opened to.                              *)
HomeInv ==
  env.faults = 0 =>
    /\ device_id # None => device_id.host = CloudHost
    /\ pc \in {"persist", "open"} => creds.id.host = CloudHost
    /\ CredentialsStayHome

LEMMA TaskHomeInv == TypeInv /\ HomeInv /\ WebsocketTask => HomeInv'
<1> SUFFICES ASSUME TypeInv, HomeInv, WebsocketTask, env'.faults = 0 PROVE HomeInv'
  BY DEF HomeInv
<1>0. TypeOK /\ env.faults \in Nat
  BY EnvType DEF TypeInv
<1> USE DEF HomeInv, CredentialsStayHome, CloudHost, nvs, cloud_status, task, service, history
<1>1. ASSUME NEW attempted, NEW done, Writes(attempted, done)
      PROVE  done = attempted /\ env.faults = 0
  BY <1>0, <1>1, WritesType
<1>2. CASE OpenNvsFailed \/ CredentialsUnreadable
  BY <1>0, <1>2 DEF OpenNvsFailed, CredentialsUnreadable, TypeOK, Environments
<1>3. CASE WaitForWifi \/ NothingToUse \/ OpenClientFailed \/ BackoffOver \/ TickClientGone
           \/ TickPingFailed \/ TickReregister \/ TickStatus
  BY <1>3
  DEF WaitForWifi, NothingToUse, OpenClientFailed, BackoffOver, TickClientGone,
      TickPingFailed, TickReregister, TickStatus, CloseWebsocket
<1>4. CASE UseStored
  <2>1. env.faults = 0
    BY <1>0, <1>4 DEF UseStored, TypeOK, Environments
  <2> QED
    BY <1>4, <2>1 DEF UseStored, HasPair
<1>5. ASSUME NEW done \in SUBSET {"reg_code"}, DropStrayCode(done) PROVE HomeInv'
  BY <1>1, <1>5 DEF DropStrayCode
<1>6. ASSUME NEW done \in SUBSET {"device_id", "device_secret"}, WipeCredentials(done)
      PROVE  HomeInv'
  BY <1>1, <1>6 DEF WipeCredentials, Without
<1>7. CASE RegisterOk
  BY <1>7 DEF RegisterOk
<1>8. ASSUME NEW taken \in BOOLEAN, NEW done \in SUBSET {"reg_code"}, RegisterFailed(taken, done)
      PROVE  HomeInv'
  BY <1>1, <1>8 DEF RegisterFailed
<1>9. ASSUME NEW done \in SUBSET {"device_id", "device_secret", "reg_code"}, Persist(done)
      PROVE  HomeInv'
  BY <1>1, <1>9 DEF Persist
<1>10. CASE OpenClient
  BY <1>10 DEF OpenClient
<1> QED
  BY <1>2, <1>3, <1>4, <1>5, <1>6, <1>7, <1>8, <1>9, <1>10 DEF WebsocketTask

LEMMA CommandHomeInv == TypeInv /\ HomeInv /\ Command => HomeInv'
<1> SUFFICES ASSUME TypeInv, HomeInv, Command, env'.faults = 0 PROVE HomeInv'
  BY DEF HomeInv
<1>0. TypeOK /\ env.faults \in Nat
  BY EnvType DEF TypeInv
<1> USE DEF HomeInv, CredentialsStayHome, CloudHost, Without, cloud_status, task, service, history
<1>1. ASSUME NEW attempted, NEW done, Handle(attempted, done)
      PROVE  done = attempted /\ env.faults = 0 /\ pc \in Awaiting
  <2>1. done = attempted /\ env.faults = 0
    BY <1>0, <1>1, HandleType
  <2>2. pc \in Awaiting
    BY <1>1 DEF Handle
  <2> QED
    BY <2>1, <2>2
<1>2. ASSUME NEW c, NEW n, NEW done, Handle(RegKeys, done), Reg(c, n, done) PROVE HomeInv'
  BY <1>1, <1>2 DEF Reg
<1>3. ASSUME NEW n, Handle({}, {}), Name(n) PROVE HomeInv'
  BY <1>1, <1>3 DEF Name
<1>4. ASSUME NEW h, NEW done, Handle(HostKeys, done), Host(h, done) PROVE HomeInv'
  <2>1. device_id' = None /\ UNCHANGED <<ws_client, pc, creds>> /\ pc \in Awaiting
    BY <1>1, <1>4 DEF Host, HostKeys
  <2> QED
    BY <1>1, <1>4, <2>1 DEF Awaiting
<1>5. ASSUME Handle({}, {}), Host(None, HostKeys \ {"cloud_host"}) PROVE HomeInv'
  <2>1. device_id' = None /\ UNCHANGED <<ws_client, pc, creds>> /\ pc \in Awaiting
    BY <1>1, <1>5 DEF Host, HostKeys
  <2> QED
    BY <1>1, <1>5, <2>1 DEF Awaiting
<1>6. ASSUME NEW done, FactoryCommand(done) PROVE HomeInv'
  <2>1. device_id' = None /\ UNCHANGED <<ws_client, pc, creds>> /\ pc \in Awaiting
    BY <1>1, <1>6 DEF FactoryCommand, Factory, FactoryKeys, HostKeys
  <2> QED
    BY <1>1, <1>6, <2>1 DEF FactoryCommand, Awaiting
<1> QED
  BY <1>2, <1>3, <1>4, <1>5, <1>6 DEF Command, CloudCommand

LEMMA NextHomeInv == TypeInv /\ HomeInv /\ [Next]_vars => HomeInv'
<1> SUFFICES ASSUME TypeInv, HomeInv, [Next]_vars PROVE HomeInv'
  OBVIOUS
<1>0. TypeOK /\ env.faults \in Nat
  BY EnvType DEF TypeInv
<1> USE DEF HomeInv, CredentialsStayHome, CloudHost, nvs, cloud_status, task, service, history
<1>1. CASE ClientThread
  <2>1. ws_client \in Client
    BY <1>0, <1>1 DEF ClientThread, TypeOK
  <2>2. ws_client'.host = ws_client.host /\ ws_client'.id = ws_client.id
    BY <1>1, <2>1 DEF ClientThread, Client
  <2> QED
    BY <1>1, <2>2 DEF ClientThread
<1>2. CASE Reboot
  <2>1. env'.faults = 0 => env.faults = 0
    BY <1>0, <1>2, RebootType
  <2> QED
    BY <1>2, <2>1 DEF Reboot
<1>3. CASE WifiTask
  <2>1. /\ ws_client' \in {ws_client, None}
        /\ UNCHANGED <<device_id, cloud_host, pc, creds, env>>
    BY <1>3 DEF WifiTask, CloseWebsocket
  <2> QED
    BY <2>1
<1>4. CASE UNCHANGED vars
  BY <1>4 DEF vars
<1> QED
  BY <1>1, <1>2, <1>3, <1>4, TaskHomeInv, CommandHomeInv DEF Next

(* As long as no NVS write fails and no handler is cut short, an id and a  *)
(* secret only ever travel to the host that issued them, through every     *)
(* "#host" (command_listener.rs:447-453).                                  *)
THEOREM CredentialsHome == Spec => []CredentialsStayHome
<1>1. Init => HomeInv
  BY DEF Init, HomeInv, CredentialsStayHome
<1>2. HomeInv => CredentialsStayHome
  BY DEF HomeInv, CredentialsStayHome
<1> QED
  BY <1>1, <1>2, TypeInvCorrect, NextHomeInv, PTL DEF Spec
-----------------------------------------------------------------------------
(* An id and a secret of two registrations can end up next to each other   *)
(* in NVS only by two faults, a removal and a write; the code that is      *)
(* still there then has both removed before anything uses them, unless a   *)
(* third fault gets in the way.                                            *)
Mixed == HasPair /\ device_id # device_secret
Third == env.faults >= 3

PairInv ==
  /\ pc \in {"post", "persist"} =>
       /\ device_name # None
       /\ (device_id # None \/ device_secret # None) => env.faults >= 1
       /\ Mixed => Third
  /\ Mixed => Third \/ (env.faults >= 2 /\ HasCode /\ device_name # None)
  /\ pc = "persist" => creds.id = creds.secret
  /\ pc = "open" => creds.id = creds.secret \/ Third
  /\ ws_client # None => ws_client.id = ws_client.secret \/ Third

(* Steps that touch none of it. *)
LEMMA PairInvKept ==
  ASSUME TypeInv, PairInv, pc' \notin {"post", "persist", "open"},
         UNCHANGED <<device_id, device_secret>>,
         HasCode => HasCode', device_name # None => device_name' # None,
         env'.faults \in Nat, env'.faults >= env.faults,
         ws_client' # None =>
           (ws_client # None /\ ws_client'.id = ws_client.id
              /\ ws_client'.secret = ws_client.secret)
  PROVE  PairInv'
BY EnvType DEF TypeInv, PairInv, Mixed, HasPair, Third

LEMMA TaskPairInv == TypeInv /\ OneClient /\ PairInv /\ WebsocketTask => PairInv'
<1> SUFFICES ASSUME TypeInv, OneClient, PairInv, WebsocketTask PROVE PairInv'
  OBVIOUS
<1>0. TypeOK /\ env.faults \in Nat
  BY EnvType DEF TypeInv
<1> USE DEF nvs, cloud_status, task, service, history
<1>1. CASE OpenNvsFailed \/ CredentialsUnreadable
  <2>1. env'.faults = env.faults + 1
    BY <1>0, <1>1 DEF OpenNvsFailed, CredentialsUnreadable, TypeOK, Environments
  <2> QED
    BY <1>0, <1>1, <2>1, PairInvKept DEF OpenNvsFailed, CredentialsUnreadable, HasCode
<1>2. CASE WaitForWifi \/ NothingToUse \/ OpenClientFailed \/ BackoffOver \/ TickClientGone
           \/ TickPingFailed \/ TickReregister \/ TickStatus
  <2>1. /\ pc' \notin {"post", "persist", "open"}
        /\ UNCHANGED <<reg_code, device_name, device_id, device_secret, env>>
        /\ ws_client' \in {ws_client, None}
    BY <1>2
    DEF WaitForWifi, NothingToUse, OpenClientFailed, BackoffOver, TickClientGone,
        TickPingFailed, TickReregister, TickStatus, CloseWebsocket
  <2> QED
    BY <1>0, <2>1, PairInvKept DEF HasCode
<1>3. CASE UseStored
  <2>1. /\ ~HasCode /\ HasPair /\ ws_client' = ws_client /\ pc' = "open"
        /\ creds' = [id |-> device_id, secret |-> device_secret]
        /\ UNCHANGED <<device_name, device_id, device_secret, reg_code>>
    BY <1>3 DEF UseStored
  <2>2. env'.faults \in Nat /\ env'.faults >= env.faults
    BY <1>0, <1>3 DEF UseStored, TypeOK, Environments
  <2> QED
    BY <1>0, <2>1, <2>2 DEF PairInv, Mixed, HasPair, HasCode, Third
<1>4. ASSUME NEW done \in SUBSET {"reg_code"}, DropStrayCode(done) PROVE PairInv'
  <2>1. /\ device_name = None /\ pc' = "retry" /\ env'.faults \in Nat
        /\ env'.faults >= env.faults
        /\ UNCHANGED <<device_name, device_id, device_secret, ws_client>>
    BY <1>0, <1>4, WritesType DEF DropStrayCode
  <2> QED
    BY <1>0, <2>1 DEF PairInv, Mixed, HasPair, Third
<1>5. ASSUME NEW done \in SUBSET {"device_id", "device_secret"}, WipeCredentials(done)
      PROVE  PairInv'
  <2>1. /\ HasCode /\ device_name # None /\ pc' = "post"
        /\ UNCHANGED <<reg_code, device_name, ws_client>>
        /\ env'.faults = IF done = {"device_id", "device_secret"}
                           THEN env.faults ELSE env.faults + 1
        /\ device_id' = IF "device_id" \in done THEN None ELSE device_id
        /\ device_secret' = IF "device_secret" \in done THEN None ELSE device_secret
    BY <1>0, <1>5, WritesType DEF WipeCredentials, Without
  <2>2. CASE done = {"device_id", "device_secret"}
    BY <2>1, <2>2 DEF PairInv, Mixed, HasPair, Third
  <2>3. CASE done # {"device_id", "device_secret"}
    <3>1. env'.faults = env.faults + 1
      BY <2>1, <2>3
    <3>2. Mixed' => Mixed
      BY <2>1 DEF Mixed, HasPair
    <3> QED
      BY <1>0, <2>1, <3>1, <3>2 DEF PairInv, Third, HasCode
  <2> QED
    BY <2>2, <2>3
<1>6. CASE RegisterOk
  <2>1. /\ pc = "post" /\ pc' = "persist" /\ creds'.id = creds'.secret
        /\ UNCHANGED <<reg_code, device_name, device_id, device_secret, ws_client, env>>
    BY <1>6 DEF RegisterOk
  <2> QED
    BY <2>1 DEF PairInv, Mixed, HasPair, Third, HasCode
<1>7. ASSUME NEW taken \in BOOLEAN, NEW done \in SUBSET {"reg_code"}, RegisterFailed(taken, done)
      PROVE  PairInv'
  <2>1. /\ pc = "post" /\ pc' = "retry" /\ env'.faults \in Nat /\ env'.faults >= env.faults
        /\ UNCHANGED <<device_name, device_id, device_secret, ws_client>>
    BY <1>0, <1>7, WritesType DEF RegisterFailed
  <2> QED
    BY <1>0, <2>1 DEF PairInv, Mixed, HasPair, Third
<1>8. ASSUME NEW done \in SUBSET {"device_id", "device_secret", "reg_code"}, Persist(done)
      PROVE  PairInv'
  <2>1. /\ pc = "persist" /\ ws_client = None /\ ws_client' = None
        /\ pc' = IF "device_secret" \in done THEN "open" ELSE "retry"
        /\ UNCHANGED <<device_name, creds>>
        /\ done = {"device_id", "device_secret", "reg_code"} \/ env'.faults = env.faults + 1
        /\ env'.faults \in Nat /\ env'.faults >= env.faults
    BY <1>0, <1>8, WritesType DEF Persist, OneClient
  <2>2. CASE "device_secret" \in done
    <3>1. device_id' = creds.id /\ device_secret' = creds.secret
      BY <1>8, <2>2 DEF Persist
    <3> QED
      BY <2>1, <2>2, <3>1 DEF PairInv, Mixed
  <2>3. CASE "device_secret" \notin done
    <3>1. reg_code' = reg_code /\ device_secret' = device_secret /\ HasCode
          /\ (done = {} => device_id' = device_id)
      BY <1>8, <2>3 DEF Persist, Without, TypeInv, CodeAtHand
    <3>2. env'.faults = env.faults + 1 /\ device_name # None
      BY <2>1, <2>3 DEF PairInv
    <3>3. Mixed' => env'.faults >= 2
      BY <1>0, <2>1, <3>1, <3>2 DEF Mixed, HasPair, PairInv
    <3> QED
      BY <2>1, <2>3, <3>1, <3>2, <3>3 DEF PairInv, HasCode
  <2> QED
    BY <2>2, <2>3
<1>9. CASE OpenClient
  <2>1. /\ pc = "open" /\ pc' = "live"
        /\ ws_client'.id = creds.id /\ ws_client'.secret = creds.secret
        /\ UNCHANGED <<reg_code, device_name, device_id, device_secret, env>>
    BY <1>9 DEF OpenClient
  <2> QED
    BY <2>1 DEF PairInv, Mixed, HasPair, Third, HasCode
<1> QED
  BY <1>1, <1>2, <1>3, <1>4, <1>5, <1>6, <1>7, <1>8, <1>9 DEF WebsocketTask

LEMMA CommandPairInv == TypeInv /\ PairInv /\ Command => PairInv'
<1> SUFFICES ASSUME TypeInv, PairInv, Command PROVE PairInv'
  OBVIOUS
<1>0. TypeOK /\ env.faults \in Nat
  BY EnvType DEF TypeInv
<1>1. pc \notin {"post", "persist", "open"}
  BY DEF Command, CloudCommand, FactoryCommand, Handle, Awaiting
<1> USE DEF cloud_status, task, service, history
<1>2. ASSUME NEW c \in Codes, NEW n \in Names, NEW done, Handle(RegKeys, done), Reg(c, n, done)
      PROVE  PairInv'
  <2>1. env'.faults \in Nat /\ env'.faults >= env.faults
    BY <1>0, <1>2, HandleType
  <2>2. /\ HasCode' /\ UNCHANGED <<device_id, device_secret, ws_client, pc>>
        /\ device_name # None => device_name' # None
    BY <1>2, NoneAssumption DEF Reg, HasCode
  <2> QED
    BY <1>1, <2>1, <2>2, PairInvKept
<1>3. ASSUME NEW n \in Names, Handle({}, {}), Name(n) PROVE PairInv'
  <2>1. env'.faults \in Nat /\ env'.faults >= env.faults
    BY <1>0, <1>3, HandleType
  <2>2. /\ UNCHANGED <<reg_code, device_id, device_secret, ws_client, pc>>
        /\ device_name' # None
    BY <1>3, NoneAssumption DEF Name
  <2> QED
    BY <1>1, <2>1, <2>2, PairInvKept DEF HasCode
<1>4. ASSUME NEW attempted, NEW done, Handle(attempted, done), NEW kept,
             done # attempted \/ device_id' = None \/ device_secret' = None,
             device_id' = Without(device_id, "device_id", kept),
             device_secret' = Without(device_secret, "device_secret", kept),
             UNCHANGED <<ws_client, pc, creds>>
      PROVE  PairInv'
  <2>1. env'.faults \in Nat /\ env'.faults >= env.faults
        /\ (done # attempted => env'.faults = env.faults + 1)
    BY <1>0, <1>4, HandleType
  <2>2. Mixed' => (Mixed /\ done # attempted)
    BY <1>4 DEF Mixed, HasPair, Without
  <2> QED
    BY <1>0, <1>1, <1>4, <2>1, <2>2 DEF PairInv, Third
<1>5. ASSUME NEW h, NEW done, Handle(HostKeys, done), Host(h, done) PROVE PairInv'
  BY <1>4, <1>5 DEF Host, HostKeys, Without
<1>6. ASSUME Handle({}, {}), Host(None, HostKeys \ {"cloud_host"}) PROVE PairInv'
  BY <1>4, <1>6 DEF Host, HostKeys, Without
<1>7. ASSUME NEW done, FactoryCommand(done) PROVE PairInv'
  BY <1>4, <1>7 DEF FactoryCommand, Factory, FactoryKeys, HostKeys, Without
<1> QED
  BY <1>2, <1>3, <1>5, <1>6, <1>7 DEF Command, CloudCommand

LEMMA NextPairInv == TypeInv /\ OneClient /\ PairInv /\ [Next]_vars => PairInv'
<1> SUFFICES ASSUME TypeInv, OneClient, PairInv, [Next]_vars PROVE PairInv'
  OBVIOUS
<1>0. TypeOK /\ env.faults \in Nat
  BY EnvType DEF TypeInv
<1> USE DEF nvs, cloud_status, task, service, history
<1>1. CASE ClientThread
  <2>1. ws_client \in Client
    BY <1>0, <1>1 DEF ClientThread, TypeOK
  <2>2. ws_client'.id = ws_client.id /\ ws_client'.secret = ws_client.secret
    BY <1>1, <2>1 DEF ClientThread, Client
  <2> QED
    BY <1>1, <2>2 DEF ClientThread, PairInv, Mixed, HasPair, Third, HasCode
<1>2. CASE Reboot
  <2>1. env'.faults \in Nat /\ env'.faults >= env.faults
    BY <1>0, <1>2, RebootType
  <2> QED
    BY <1>2, <2>1, PairInvKept DEF Reboot, HasCode
<1>3. CASE WifiTask
  <2>1. /\ ws_client' \in {ws_client, None}
        /\ UNCHANGED <<reg_code, device_name, device_id, device_secret, pc, creds, env>>
    BY <1>3 DEF WifiTask, CloseWebsocket
  <2> QED
    BY <2>1 DEF PairInv, Mixed, HasPair, Third, HasCode
<1>4. CASE UNCHANGED vars
  BY <1>4 DEF vars, PairInv, Mixed, HasPair, Third, HasCode
<1> QED
  BY <1>1, <1>2, <1>3, <1>4, TaskPairInv, CommandPairInv DEF Next

(* Through any two failed NVS writes or power losses the websocket is      *)
(* opened with an id and a secret of one and the same registration         *)
(* (websocket.rs:536-562: wipe first, persist, and the code goes last).    *)
THEOREM PairedThroughTwoFaults == Spec => []CredentialsPaired
<1>1. Init => PairInv
  BY DEF Init, PairInv, Mixed, HasPair
<1>2. TypeInv /\ PairInv => CredentialsPaired
  BY EnvType DEF TypeInv, PairInv, CredentialsPaired, Third
<1>3. ClientInv => OneClient
  BY DEF ClientInv
<1> QED
  BY <1>1, <1>2, <1>3, TypeInvCorrect, ClientInvCorrect, NextPairInv, PTL DEF Spec
-----------------------------------------------------------------------------
(* The name on display is the stored one at every step, not only where a   *)
(* command can come in: no handler changes one of the two and leaves the   *)
(* other for later.                                                        *)
NameInv == env.faults = 0 /\ shown_name # None => shown_name = device_name

LEMMA TaskNameInv == TypeInv /\ NameInv /\ WebsocketTask => NameInv'
<1> SUFFICES ASSUME TypeInv, NameInv, WebsocketTask, env'.faults = 0 PROVE NameInv'
  BY DEF NameInv
<1>0. TypeOK /\ env.faults \in Nat
  BY EnvType DEF TypeInv
<1> USE DEF NameInv, nvs, cloud_status
<1>1. ASSUME NEW attempted, NEW done, Writes(attempted, done) PROVE env.faults = 0
  BY <1>0, <1>1, WritesType
<1>2. CASE OpenNvsFailed \/ CredentialsUnreadable
  BY <1>0, <1>2 DEF OpenNvsFailed, CredentialsUnreadable, TypeOK, Environments
<1>3. CASE WaitForWifi \/ NothingToUse \/ OpenClient \/ OpenClientFailed \/ BackoffOver
           \/ TickClientGone \/ TickPingFailed \/ TickReregister \/ TickStatus \/ RegisterOk
  BY <1>3
  DEF WaitForWifi, NothingToUse, OpenClient, OpenClientFailed, BackoffOver, TickClientGone,
      TickPingFailed, TickReregister, TickStatus, RegisterOk
<1>4. CASE UseStored
  BY <1>4 DEF UseStored
<1>5. ASSUME NEW done, DropStrayCode(done) PROVE NameInv'
  BY <1>1, <1>5 DEF DropStrayCode
<1>6. ASSUME NEW done, WipeCredentials(done) PROVE NameInv'
  BY <1>6 DEF WipeCredentials
<1>7. ASSUME NEW taken, NEW done, RegisterFailed(taken, done) PROVE NameInv'
  BY <1>1, <1>7 DEF RegisterFailed
<1>8. ASSUME NEW done, Persist(done) PROVE NameInv'
  BY <1>1, <1>8 DEF Persist
<1> QED
  BY <1>2, <1>3, <1>4, <1>5, <1>6, <1>7, <1>8 DEF WebsocketTask

LEMMA CommandNameInv == TypeInv /\ NameInv /\ Command => NameInv'
<1> SUFFICES ASSUME TypeInv, NameInv, Command, env'.faults = 0 PROVE NameInv'
  BY DEF NameInv
<1>0. TypeOK /\ env.faults \in Nat
  BY EnvType DEF TypeInv
<1> USE DEF NameInv, cloud_status
<1>1. ASSUME NEW attempted, NEW done, Handle(attempted, done)
      PROVE  done = attempted /\ env.faults = 0
  BY <1>0, <1>1, HandleType
<1>2. ASSUME NEW c, NEW n, NEW done, Handle(RegKeys, done), Reg(c, n, done) PROVE NameInv'
  BY <1>1, <1>2 DEF Reg, RegKeys
<1>3. ASSUME NEW n, Name(n) PROVE NameInv'
  BY <1>3 DEF Name
<1>4. ASSUME NEW attempted, NEW h, NEW done, NEW wiped, Handle(attempted, done), Host(h, wiped)
      PROVE  NameInv'
  BY <1>1, <1>4 DEF Host
<1>5. ASSUME NEW done, FactoryCommand(done) PROVE NameInv'
  BY <1>5 DEF FactoryCommand, Factory
<1> QED
  BY <1>2, <1>3, <1>4, <1>5 DEF Command, CloudCommand

LEMMA NextNameInv == TypeInv /\ NameInv /\ [Next]_vars => NameInv'
<1> SUFFICES ASSUME TypeInv, NameInv, [Next]_vars PROVE NameInv'
  OBVIOUS
<1> USE DEF NameInv, nvs, cloud_status
<1>1. CASE ClientThread
  BY <1>1 DEF ClientThread
<1>2. CASE Reboot
  BY <1>2 DEF Reboot
<1>3. CASE WifiTask
  BY <1>3 DEF WifiTask
<1>4. CASE UNCHANGED vars
  BY <1>4 DEF vars
<1> QED
  BY <1>1, <1>2, <1>3, <1>4, TaskNameInv, CommandNameInv DEF Next

(* With every write done, the name "#stat" and the settings page show is   *)
(* the stored one (websocket.rs:297, 492, 530; uart.rs:87).                *)
THEOREM NameShown == Spec => []NameOnDisplay
<1>1. Init => NameInv
  BY DEF Init, NameInv
<1>2. NameInv => NameOnDisplay
  BY DEF NameInv, NameOnDisplay
<1> QED
  BY <1>1, <1>2, TypeInvCorrect, NextNameInv, PTL DEF Spec
=============================================================================
