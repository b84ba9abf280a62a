--------------------------- MODULE FirmwareProofs ---------------------------
(***************************************************************************)
(* Safety of Firmware for every slot and sector size, set of lengths,      *)
(* number of listeners and bound on the environment.                       *)
(***************************************************************************)
EXTENDS Firmware, TLAPS

(* TypeOK, but for the handles of active listeners. *)
TypeInv ==
  /\ image \in [Slots -> [Addresses -> Chunks \cup {Erased, Garbled}]]
  /\ boot \in Slots /\ running \in Slots
  /\ state \in [Slots -> {"undefined", "new", "pending", "valid", "aborted"}]
  /\ handles \in [Serials -> 0..Size \cup {None}]
  /\ listener \in [Listeners -> Listener]
  /\ load \in Upload \cup {None}
  /\ restarting \in BOOLEAN /\ rollback_pending \in BOOLEAN /\ phase_over \in BOOLEAN
  /\ sound \subseteq Serials \cup {0} /\ length \in [Serials \cup {0} -> Nat]
  /\ unknown \in BOOLEAN /\ env \in Environments

(* An open handle is held by exactly one listener; an upload's serial      *)
(* number is new when it begins; an active listener holds a handle.        *)
Distinct ==
  \A t, u \in Listeners : (t # u /\ listener[t].ota # None) => listener[t].ota # listener[u].ota
Held == \A n \in Serials : handles[n] # None <=> \E t \in Listeners : listener[t].ota = n
Fresh ==
  /\ \A t \in Listeners : listener[t].ota # None => listener[t].ota =< env.commands
  /\ \A n \in sound : n =< env.commands
ActiveHolds == \A t \in Listeners : listener[t].active => listener[t].ota # None
HandleInv == TypeInv /\ Distinct /\ Held /\ Fresh /\ ActiveHolds

LEMMA HandleInvTypeOK == HandleInv => TypeOK
<1> SUFFICES ASSUME HandleInv, NEW t \in Listeners, listener[t].active
             PROVE  listener[t].ota # None /\ handles[listener[t].ota] # None
  BY DEF HandleInv, TypeInv, TypeOK
<1>1. listener[t].ota # None /\ listener[t].ota \in Serials
  BY DEF HandleInv, TypeInv, ActiveHolds, Listener
<1> QED
  BY <1>1 DEF HandleInv, Held

LEMMA NoneApart ==
  /\ \A n \in Nat : n # None
  /\ \A u \in Upload : u # None
  /\ Serials \subseteq Nat
BY DistinctAssumption, BoundsAssumption DEF Serials

LEMMA NewListenerType ==
  NewListener \in Listener /\ ~NewListener.active /\ NewListener.ota = None
BY DEF NewListener, Listener

LEMMA InitHandleInv == Init => HandleInv
<1> SUFFICES ASSUME Init PROVE HandleInv
  OBVIOUS
<1>1. env \in Environments
  BY BoundsAssumption DEF Init, Environments
<1>2. \A t \in Listeners : listener[t] = NewListener
  BY DEF Init
<1>3. image \in [Slots -> [Addresses -> Chunks \cup {Erased, Garbled}]]
  <2>1. \A i \in Addresses : <<0, i>> \in Chunks
    BY SizeAssumption DEF Addresses, Chunks
  <2> QED
    BY <2>1 DEF Init
<1>4. length \in [Serials \cup {0} -> Nat]
  BY SizeAssumption DEF Init
<1>5. TypeInv
  BY <1>1, <1>2, <1>3, <1>4, NewListenerType DEF Init, TypeInv, Slots
<1>6. Distinct /\ ActiveHolds
  BY <1>2, NewListenerType DEF Distinct, ActiveHolds
<1>7. Held
  <2> SUFFICES ASSUME NEW n \in Serials
               PROVE  handles[n] = None /\ \A t \in Listeners : listener[t].ota # n
    BY DEF Held
  <2> QED
    BY <1>2, NewListenerType, NoneApart DEF Init
<1>8. Fresh
  <2>1. env.commands = 0 /\ sound = {0}
    BY DEF Init
  <2> QED
    BY <1>2, <2>1, NewListenerType DEF Fresh
<1> QED
  BY <1>5, <1>6, <1>7, <1>8 DEF HandleInv

(***************************************************************************)
(* The actions' common parts.                                              *)
(***************************************************************************)
LEMMA CommandType ==
  ASSUME TypeInv, NEW fine \in BOOLEAN, Command(fine)
  PROVE  /\ env' \in Environments /\ env'.commands = env.commands + 1
         /\ env.commands + 1 \in Serials /\ env.commands \in Nat
<1>1. /\ env \in Environments /\ env.commands \in Nat
      /\ env.commands + 1 \in 0..MaxCommands /\ env.commands + 1 \in Serials
      /\ ~fine => env.faults + 1 \in 0..MaxFaults
  BY BoundsAssumption DEF TypeInv, Command, Environments, Serials
<1>2. CASE fine
  <2>1. env' = [env EXCEPT !.commands = env.commands + 1, !.faults = env.faults]
    BY <1>2 DEF Command
  <2> QED
    BY <1>1, <2>1 DEF Environments
<1>3. CASE ~fine
  <2>1. env' = [env EXCEPT !.commands = env.commands + 1, !.faults = env.faults + 1]
    BY <1>3 DEF Command
  <2> QED
    BY <1>1, <1>3, <2>1 DEF Environments
<1> QED
  BY <1>2, <1>3

LEMMA FaultType ==
  ASSUME TypeInv, NEW fine \in BOOLEAN, Fault(fine)
  PROVE  env' \in Environments /\ env'.commands = env.commands
<1>1. env \in Environments /\ (~fine => env.faults + 1 \in 0..MaxFaults)
  BY BoundsAssumption DEF TypeInv, Fault, Environments
<1> QED
  BY <1>1 DEF Fault, Environments

LEMMA RebootType ==
  ASSUME TypeInv, NEW fine \in BOOLEAN, Reboot(fine)
  PROVE  env' \in Environments /\ env'.commands = env.commands
<1>1. /\ env \in Environments
      /\ ~restarting => env.reboots + 1 \in 0..MaxReboots
      /\ ~fine => env.faults + 1 \in 0..MaxFaults
  BY BoundsAssumption DEF TypeInv, Reboot, Environments
<1>2. env' = [env EXCEPT !.reboots = IF restarting THEN env.reboots ELSE env.reboots + 1,
                         !.faults = IF fine THEN env.faults ELSE env.faults + 1]
  BY DEF Reboot
<1>3. /\ (IF restarting THEN env.reboots ELSE env.reboots + 1) \in 0..MaxReboots
      /\ (IF fine THEN env.faults ELSE env.faults + 1) \in 0..MaxFaults
  BY <1>1 DEF Environments
<1> QED
  BY <1>1, <1>2, <1>3 DEF Environments

(* A flush writes to the slot that is not running, and moves the handle    *)
(* on by one.                                                              *)
After(t, result) == Flushed(t, Given(t), result)

LEMMA GivenType ==
  ASSUME TypeInv, load # None, NEW t \in Listeners
  PROVE  Given(t) \in Chunks
BY DEF TypeInv, Given, Upload, Chunks

LEMMA ProgrammedType ==
  ASSUME NEW content \in [Addresses -> Chunks \cup {Erased, Garbled}],
         NEW pos \in Addresses, NEW chunk \in Chunks
  PROVE  Programmed(content, pos, chunk) \in [Addresses -> Chunks \cup {Erased, Garbled}]
BY DEF Programmed

LEMMA AfterType ==
  ASSUME HandleInv, load # None, NEW t \in Listeners, NEW result \in Results
  PROVE  /\ After(t, result).image \in [Slots -> [Addresses -> Chunks \cup {Erased, Garbled}]]
         /\ After(t, result).image[running] = image[running]
         /\ After(t, result).handles \in [Serials -> 0..Size \cup {None}]
         /\ \A m \in Serials : After(t, result).handles[m] # None <=> handles[m] # None
         /\ After(t, result).failed \in BOOLEAN
         /\ ~listener[t].active => After(t, result).image = image
<1> DEFINE n == listener[t].ota
<1>1. listener[t] \in Listener /\ NextSlot \in Slots /\ running \in Slots /\ NextSlot # running
  BY DEF HandleInv, TypeInv, Slots, NextSlot
<1>2. listener[t].failed \/ Writes(t) \in BOOLEAN
  BY <1>1 DEF Writes, Listener
<1>3. CASE Writes(t) /\ Fits(t)
  <2>1. listener[t].active /\ n \in Serials /\ handles[n] # None
    BY <1>3, HandleInvTypeOK DEF Writes, TypeOK, Listener
  <2>2. handles[n] \in Addresses /\ handles[n] + 1 \in 0..Size /\ handles[n] + 1 # None
    <3>1. handles[n] \in 0..Size /\ handles[n] < Size
      BY <1>3, <2>1 DEF HandleInv, TypeInv, Fits
    <3> QED
      BY <3>1, SizeAssumption, NoneApart DEF Addresses
  <2>3. CASE result = "ok"
    <3>1. /\ After(t, result).image =
               [image EXCEPT ![NextSlot] = Programmed(image[NextSlot], handles[n], Given(t))]
          /\ After(t, result).handles = [handles EXCEPT ![n] = handles[n] + 1]
          /\ After(t, result).failed = FALSE
      BY <1>3, <2>3 DEF After, Flushed
    <3>2. Programmed(image[NextSlot], handles[n], Given(t))
            \in [Addresses -> Chunks \cup {Erased, Garbled}]
      BY <1>1, <2>2, GivenType, ProgrammedType DEF HandleInv, TypeInv
    <3>3. /\ After(t, result).image \in [Slots -> [Addresses -> Chunks \cup {Erased, Garbled}]]
          /\ After(t, result).image[running] = image[running]
      BY <1>1, <3>1, <3>2 DEF HandleInv, TypeInv
    <3>4. /\ After(t, result).handles \in [Serials -> 0..Size \cup {None}]
          /\ \A m \in Serials : After(t, result).handles[m] # None <=> handles[m] # None
      BY <2>1, <2>2, <3>1 DEF HandleInv, TypeInv
    <3> QED
      BY <2>1, <3>1, <3>3, <3>4
  <2>4. CASE result # "ok"
    <3>1. /\ After(t, result).image =
               IF result = "spoilt" THEN [image EXCEPT ![NextSlot][handles[n]] = Garbled] ELSE image
          /\ After(t, result).handles = handles
          /\ After(t, result).failed = (listener[t].failed \/ Writes(t))
      BY <1>3, <2>4 DEF After, Flushed
    <3> QED
      BY <1>1, <1>2, <2>1, <2>2, <3>1 DEF HandleInv, TypeInv
  <2> QED
    BY <2>3, <2>4
<1>4. CASE ~(Writes(t) /\ Fits(t))
  <2>1. /\ After(t, result).image = image /\ After(t, result).handles = handles
        /\ After(t, result).failed = (listener[t].failed \/ Writes(t))
    BY <1>4 DEF After, Flushed
  <2> QED
    BY <1>2, <2>1 DEF HandleInv, TypeInv
<1> QED
  BY <1>3, <1>4

LEMMA UploadMoves ==
  ASSUME TypeInv, load # None, NEW t \in Listeners
  PROVE  [load EXCEPT !.pos = @ + 1, !.sent = IF t = load.by THEN @ + 1 ELSE @]
           \in Upload
<1>1. load \in Upload
  BY DEF TypeInv
<1>2. /\ load.pos + 1 \in Nat
      /\ (IF t = load.by THEN load.sent + 1 ELSE load.sent) \in Nat
  BY <1>1 DEF Upload
<1> QED
  BY <1>1, <1>2 DEF Upload

(* A new upload takes the place of what its listener had open. *)
LEMMA StartHandles ==
  ASSUME HandleInv, NEW t \in Listeners, NEW opens \in BOOLEAN, NEW l \in Listener,
         env.commands + 1 \in Serials,
         handles' = IF opens THEN [Release(t) EXCEPT ![env.commands + 1] = 0] ELSE Release(t),
         listener' = [listener EXCEPT ![t] = l],
         l.ota = IF opens THEN env.commands + 1 ELSE None,
         l.active => l.ota # None,
         env'.commands = env.commands + 1
  PROVE  /\ handles' \in [Serials -> 0..Size \cup {None}]
         /\ listener' \in [Listeners -> Listener]
         /\ Distinct' /\ Held' /\ ActiveHolds'
         /\ \A u \in Listeners : listener'[u].ota # None => listener'[u].ota =< env'.commands
<1> DEFINE n == env.commands + 1
<1>1. env.commands \in Nat /\ n # None /\ 0 # None /\ 0 \in 0..Size
  BY NoneApart, SizeAssumption DEF HandleInv, TypeInv, Environments
<1>2. \A u \in Listeners : /\ listener[u].ota \in Serials \cup {None}
                           /\ listener[u].ota # n
  BY <1>1, NoneApart DEF HandleInv, TypeInv, Listener, Fresh
<1>3. handles[n] = None
  BY <1>2 DEF HandleInv, Held
<1>4. /\ Release(t) \in [Serials -> 0..Size \cup {None}]
      /\ \A m \in Serials : Release(t)[m] = IF m = listener[t].ota THEN None ELSE handles[m]
  BY <1>2, NoneApart DEF HandleInv, TypeInv, Release, Close
<1>5. handles' \in [Serials -> 0..Size \cup {None}]
  BY <1>1, <1>4
<1>6. /\ listener' \in [Listeners -> Listener] /\ listener'[t] = l
      /\ \A u \in Listeners : u # t => listener'[u] = listener[u]
  BY DEF HandleInv, TypeInv
<1>7. Distinct'
  BY <1>2, <1>6 DEF HandleInv, Distinct
<1>8. Held'
  <2> SUFFICES ASSUME NEW m \in Serials
               PROVE  handles'[m] # None <=> \E u \in Listeners : listener'[u].ota = m
    BY DEF Held
  <2>1. m # None
    BY NoneApart
  <2>2. CASE m = n /\ opens
    BY <1>1, <1>4, <1>6, <2>2
  <2>3. CASE ~(m = n /\ opens)
    <3>1. handles'[m] = Release(t)[m] /\ l.ota # m
      BY <1>4, <2>1, <2>3
    <3>2. CASE m = listener[t].ota
      BY <1>4, <1>6, <2>1, <3>1, <3>2 DEF HandleInv, Distinct
    <3>3. CASE m # listener[t].ota
      <4>1. handles'[m] = handles[m]
        BY <1>4, <3>1, <3>3
      <4> QED
        BY <1>6, <3>1, <3>3, <4>1 DEF HandleInv, Held
    <3> QED
      BY <3>2, <3>3
  <2> QED
    BY <2>2, <2>3
<1>9. ActiveHolds'
  BY <1>6 DEF HandleInv, ActiveHolds
<1>10. \A u \in Listeners : listener'[u].ota # None => listener'[u].ota =< env'.commands
  <2> SUFFICES ASSUME NEW u \in Listeners, listener'[u].ota # None
               PROVE  listener'[u].ota =< env.commands + 1
    OBVIOUS
  <2>1. CASE u = t
    BY <1>1, <1>6, <2>1
  <2>2. CASE u # t
    <3>1. listener[u].ota \in Nat /\ listener[u].ota =< env.commands
      BY <1>2, <1>6, <2>2, NoneApart DEF HandleInv, Fresh
    <3> QED
      BY <1>1, <1>6, <2>2, <3>1
  <2> QED
    BY <2>1, <2>2
<1> QED
  BY <1>5, <1>6, <1>7, <1>8, <1>9, <1>10

(* What a new upload adds to the history. *)
LEMMA StartHistory ==
  ASSUME HandleInv, NEW len \in Lengths, NEW verifies \in BOOLEAN,
         env.commands + 1 \in Serials, env'.commands = env.commands + 1,
         sound' = IF verifies THEN sound \cup {env.commands + 1} ELSE sound,
         length' = [length EXCEPT ![env.commands + 1] = len]
  PROVE  /\ sound' \subseteq Serials \cup {0} /\ length' \in [Serials \cup {0} -> Nat]
         /\ \A n \in sound' : n =< env'.commands
         /\ sound \subseteq sound' /\ \A n \in sound : length'[n] = length[n]
<1>1. env.commands \in Nat /\ len \in Nat
  BY SizeAssumption DEF HandleInv, TypeInv, Environments
<1>2. \A n \in sound : n \in Nat /\ n =< env.commands
  BY NoneApart DEF HandleInv, TypeInv, Fresh
<1> QED
  BY <1>1, <1>2 DEF HandleInv, TypeInv

(***************************************************************************)
(* Types and handles.                                                      *)
(***************************************************************************)
LEMMA StartedType ==
  ASSUME NEW t \in Listeners, HandleInv, NEW n \in Serials, NEW accepted \in BOOLEAN
  PROVE  /\ Started(t, n, accepted) \in Listener
         /\ Started(t, n, accepted).ota = IF accepted THEN n ELSE None
         /\ Started(t, n, accepted).active = accepted
BY DEF Started, Listener

LEMMA OtaStartHandleInv ==
  ASSUME HandleInv, NEW t \in Listeners, NEW len \in Lengths,
         NEW verifies \in BOOLEAN, NEW fine \in BOOLEAN, OtaStart(t, len, verifies, fine)
  PROVE  HandleInv' /\ sound \subseteq sound' /\ \A n \in sound : length'[n] = length[n]
<1> DEFINE n == env.commands + 1
           accepted == Begins(len, fine)
           upload == [by |-> t, n |-> n, pos |-> 0, sent |-> 0]
<1>1. env' \in Environments /\ n \in Serials /\ env'.commands = n
  BY CommandType DEF OtaStart, HandleInv
<1>2. accepted \in BOOLEAN
  BY DEF Begins
<1>3. upload \in Upload
  BY <1>1 DEF Upload
<1>4. /\ Started(t, n, accepted) \in Listener
      /\ Started(t, n, accepted).ota = IF accepted THEN n ELSE None
      /\ Started(t, n, accepted).active = accepted
  BY <1>1, <1>2, StartedType
<1>5. /\ handles' = [Release(t) EXCEPT ![n] = IF accepted THEN 0 ELSE None]
      /\ listener' = [listener EXCEPT ![t] = Started(t, n, accepted)]
      /\ load' \in {upload, None}
      /\ sound' = IF verifies THEN sound \cup {n} ELSE sound
      /\ length' = [length EXCEPT ![n] = len]
      /\ UNCHANGED <<image, otadata, running, restarting, phase>>
  BY DEF OtaStart
<1> HIDE DEF accepted, upload
<1>6. handles' = IF accepted THEN [Release(t) EXCEPT ![n] = 0] ELSE Release(t)
  <2>1. CASE accepted
    BY <1>5, <2>1
  <2>2. CASE ~accepted
    <3>1. Release(t) \in [Serials -> 0..Size \cup {None}] /\ Release(t)[n] = None
      <4>1. \A u \in Listeners : listener[u].ota # n
        BY <1>1, NoneApart DEF HandleInv, Fresh, TypeInv, Environments
      <4>2. handles[n] = None
        BY <1>1, <4>1 DEF HandleInv, Held
      <4> QED
        BY <1>1, <4>2 DEF HandleInv, TypeInv, Release, Close
    <3> QED
      BY <1>1, <1>5, <2>2, <3>1
  <2> QED
    BY <2>1, <2>2
<1>7. /\ handles' \in [Serials -> 0..Size \cup {None}]
      /\ listener' \in [Listeners -> Listener]
      /\ Distinct' /\ Held' /\ ActiveHolds'
      /\ \A u \in Listeners : listener'[u].ota # None => listener'[u].ota =< env'.commands
  <2>1. (IF accepted THEN n ELSE None) # None <=> accepted
    BY <1>1, NoneApart
  <2> QED
    BY <1>1, <1>2, <1>4, <1>5, <1>6, <2>1, StartHandles
<1>8. /\ sound' \subseteq Serials \cup {0} /\ length' \in [Serials \cup {0} -> Nat]
      /\ \A m \in sound' : m =< env'.commands
      /\ sound \subseteq sound' /\ \A m \in sound : length'[m] = length[m]
  BY <1>1, <1>5, StartHistory
<1>9. TypeInv'
  BY <1>1, <1>3, <1>5, <1>7, <1>8 DEF HandleInv, TypeInv, otadata, phase
<1> QED
  BY <1>7, <1>8, <1>9 DEF HandleInv, Fresh

LEMMA PkgStartHandleInv ==
  ASSUME HandleInv, NEW t \in Listeners, NEW len \in Lengths, PkgStart(t, len)
  PROVE  HandleInv' /\ sound \subseteq sound' /\ \A n \in sound : length'[n] = length[n]
<1> DEFINE n == env.commands + 1
           upload == [by |-> t, n |-> n, pos |-> 0, sent |-> 0]
<1>1. env' \in Environments /\ n \in Serials /\ env'.commands = n
  BY CommandType DEF PkgStart, HandleInv
<1>2. upload \in Upload
  BY <1>1 DEF Upload
<1>3. /\ handles' = Release(t)
      /\ listener' = [listener EXCEPT ![t] = NewListener]
      /\ load' \in {upload, None}
      /\ sound' = sound
      /\ length' = [length EXCEPT ![n] = len]
      /\ UNCHANGED <<image, otadata, running, restarting, phase>>
  BY DEF PkgStart
<1> HIDE DEF upload
<1>4. /\ handles' \in [Serials -> 0..Size \cup {None}]
      /\ listener' \in [Listeners -> Listener]
      /\ Distinct' /\ Held' /\ ActiveHolds'
      /\ \A u \in Listeners : listener'[u].ota # None => listener'[u].ota =< env'.commands
  BY <1>1, <1>3, NewListenerType, StartHandles
<1>5. /\ sound' \subseteq Serials \cup {0} /\ length' \in [Serials \cup {0} -> Nat]
      /\ \A m \in sound' : m =< env'.commands
      /\ sound \subseteq sound' /\ \A m \in sound : length'[m] = length[m]
  BY <1>1, <1>3, StartHistory
<1>6. TypeInv'
  BY <1>1, <1>2, <1>3, <1>4, <1>5 DEF HandleInv, TypeInv, otadata, phase
<1> QED
  BY <1>4, <1>5, <1>6 DEF HandleInv, Fresh

LEMMA ChunkHandleInv ==
  ASSUME HandleInv, NEW t \in Listeners, NEW result \in Results, Chunk(t, result)
  PROVE  HandleInv'
<1>1. /\ load # None /\ Fault(Expected(t, result))
      /\ image' = After(t, result).image /\ handles' = After(t, result).handles
      /\ listener' = [listener EXCEPT ![t].failed = After(t, result).failed]
      /\ load' = [load EXCEPT !.pos = @ + 1, !.sent = IF t = load.by THEN @ + 1 ELSE @]
      /\ UNCHANGED <<sound, length, otadata, running, restarting, phase>>
  BY DEF Chunk, After
<1>2. env' \in Environments /\ env'.commands = env.commands
  BY <1>1, FaultType DEF HandleInv, Expected
<1>3. load' \in Upload \cup {None}
  BY <1>1, UploadMoves DEF HandleInv
<1>4. /\ image' \in [Slots -> [Addresses -> Chunks \cup {Erased, Garbled}]]
      /\ handles' \in [Serials -> 0..Size \cup {None}]
      /\ \A m \in Serials : handles'[m] # None <=> handles[m] # None
      /\ After(t, result).failed \in BOOLEAN
  BY <1>1, AfterType
<1>5. /\ listener' \in [Listeners -> Listener]
      /\ \A u \in Listeners : /\ listener'[u].ota = listener[u].ota
                              /\ listener'[u].active = listener[u].active
  BY <1>1, <1>4 DEF HandleInv, TypeInv, Listener
<1>6. TypeInv'
  BY <1>1, <1>2, <1>3, <1>4, <1>5 DEF HandleInv, TypeInv, otadata, phase
<1>7. Distinct' /\ ActiveHolds' /\ Fresh' /\ Held'
  BY <1>1, <1>2, <1>4, <1>5 DEF HandleInv, Distinct, ActiveHolds, Fresh, Held
<1> QED
  BY <1>6, <1>7 DEF HandleInv

LEMMA LastChunkHandleInv ==
  ASSUME HandleInv, NEW t \in Listeners, NEW result \in Results, NEW fine \in BOOLEAN,
         LastChunk(t, result, fine)
  PROVE  HandleInv'
<1> DEFINE done == Activates(t, After(t, result), fine)
<1>1. /\ load # None /\ Fault(Expected(t, result) /\ fine)
      /\ image' = After(t, result).image
      /\ handles' = Close(After(t, result).handles, listener[t].ota)
      /\ listener' = [listener EXCEPT ![t] = [listener[t] EXCEPT !.active = FALSE,
                                               !.failed = After(t, result).failed, !.ota = None]]
      /\ load' = None
      /\ boot' = IF done THEN NextSlot ELSE boot
      /\ state' = IF done THEN [state EXCEPT ![NextSlot] = "new"] ELSE state
      /\ restarting' = done
      /\ UNCHANGED <<sound, length, running, phase>>
  BY DEF LastChunk, After
<1>2. env' \in Environments /\ env'.commands = env.commands
  BY <1>1, FaultType DEF HandleInv, Expected
<1>3. done \in BOOLEAN /\ NextSlot \in Slots
  BY DEF Activates, NextSlot, HandleInv, TypeInv, Slots
<1> HIDE DEF done
<1>4. /\ image' \in [Slots -> [Addresses -> Chunks \cup {Erased, Garbled}]]
      /\ After(t, result).handles \in [Serials -> 0..Size \cup {None}]
      /\ \A m \in Serials : After(t, result).handles[m] # None <=> handles[m] # None
      /\ After(t, result).failed \in BOOLEAN
  BY <1>1, AfterType
<1>5. /\ handles' \in [Serials -> 0..Size \cup {None}]
      /\ \A m \in Serials : handles'[m] # None <=> (handles[m] # None /\ m # listener[t].ota)
  BY <1>1, <1>4, NoneApart DEF Close, HandleInv, TypeInv, Listener
<1>6. /\ listener' \in [Listeners -> Listener]
      /\ listener'[t].ota = None /\ listener'[t].active = FALSE
      /\ \A u \in Listeners : u # t => listener'[u] = listener[u]
  BY <1>1, <1>4 DEF HandleInv, TypeInv, Listener
<1>7. TypeInv'
  BY <1>1, <1>2, <1>3, <1>4, <1>5, <1>6 DEF HandleInv, TypeInv, phase
<1>8. Distinct' /\ ActiveHolds' /\ Fresh'
  BY <1>1, <1>2, <1>6 DEF HandleInv, Distinct, ActiveHolds, Fresh
<1>9. Held'
  <2> SUFFICES ASSUME NEW m \in Serials
               PROVE  handles'[m] # None <=> \E u \in Listeners : listener'[u].ota = m
    BY DEF Held
  <2>1. m # None
    BY NoneApart
  <2>2. CASE m = listener[t].ota
    BY <1>5, <1>6, <2>1, <2>2 DEF HandleInv, Distinct
  <2>3. CASE m # listener[t].ota
    BY <1>5, <1>6, <2>1, <2>3 DEF HandleInv, Held
  <2> QED
    BY <2>2, <2>3
<1> QED
  BY <1>7, <1>8, <1>9 DEF HandleInv

LEMMA RebootHandleInv ==
  ASSUME HandleInv, NEW fine \in BOOLEAN, Reboot(fine)
  PROVE  HandleInv'
<1>1. env' \in Environments /\ env'.commands = env.commands
  BY RebootType DEF HandleInv
<1>2. Selected \in Slots /\ AfterReset \in [Slots -> {"undefined", "new", "valid", "aborted"}]
  BY DEF HandleInv, TypeInv, Selected, AfterReset, Slots
<1>3. /\ running' = Selected
      /\ state' = [AfterReset EXCEPT ![Selected] = IF AfterReset[Selected] = "new" THEN "pending"
                                                    ELSE AfterReset[Selected]]
      /\ handles' = [n \in Serials |-> None]
      /\ listener' = [t \in Listeners |-> NewListener] /\ load' = None
      /\ restarting' = FALSE /\ phase_over' = FALSE
      /\ rollback_pending' \in BOOLEAN /\ unknown' \in BOOLEAN
      /\ UNCHANGED <<image, sound, length, boot>>
  BY DEF Reboot
<1>4. state' \in [Slots -> {"undefined", "new", "pending", "valid", "aborted"}]
  BY <1>2, <1>3
<1>5. \A t \in Listeners : listener'[t] = NewListener
  BY <1>3
<1>6. TypeInv'
  BY <1>1, <1>2, <1>3, <1>4, <1>5, NewListenerType DEF HandleInv, TypeInv
<1>7. Distinct' /\ ActiveHolds' /\ Fresh'
  BY <1>1, <1>3, <1>5, NewListenerType DEF HandleInv, Distinct, ActiveHolds, Fresh
<1>8. Held'
  BY <1>3, <1>5, NewListenerType, NoneApart DEF Held
<1> QED
  BY <1>6, <1>7, <1>8 DEF HandleInv

LEMMA StepHandleInv == HandleInv /\ [Next]_vars => HandleInv'
<1> SUFFICES ASSUME HandleInv, [Next]_vars PROVE HandleInv'
  OBVIOUS
<1> USE DEF HandleInv
<1>1. CASE CommandListener
  <2>1. ASSUME NEW t \in Listeners, NEW len \in Lengths, NEW verifies \in BOOLEAN,
               NEW fine \in BOOLEAN, OtaStart(t, len, verifies, fine)
        PROVE  HandleInv'
    BY <2>1, OtaStartHandleInv
  <2>2. ASSUME NEW t \in Listeners, NEW len \in Lengths, PkgStart(t, len)
        PROVE  HandleInv'
    BY <2>2, PkgStartHandleInv
  <2>3. ASSUME NEW t \in Listeners, NEW result \in Results, Chunk(t, result)
        PROVE  HandleInv'
    BY <2>3, ChunkHandleInv
  <2>4. ASSUME NEW t \in Listeners, NEW result \in Results, NEW fine \in BOOLEAN,
               LastChunk(t, result, fine)
        PROVE  HandleInv'
    BY <2>4, LastChunkHandleInv
  <2>5. CASE Abandon
    BY <2>5 DEF Abandon, TypeInv, otadata, phase, Distinct, Held, Fresh, ActiveHolds
  <2> QED
    BY <1>1, <2>1, <2>2, <2>3, <2>4, <2>5 DEF CommandListener
<1>2. CASE PhaseOver
  BY <1>2 DEF PhaseOver, uploads, otadata, TypeInv, Distinct, Held, Fresh, ActiveHolds
<1>3. ASSUME NEW fine \in BOOLEAN, MarkValid(fine)
      PROVE  HandleInv'
  <2>1. env' \in Environments /\ env'.commands = env.commands
    BY <1>3, FaultType DEF MarkValid
  <2>2. TypeInv'
    BY <1>3, <2>1 DEF MarkValid, uploads, TypeInv
  <2> QED
    BY <1>3, <2>1, <2>2 DEF MarkValid, uploads, Distinct, Held, Fresh, ActiveHolds
<1>4. ASSUME NEW fine \in BOOLEAN, Reboot(fine)
      PROVE  HandleInv'
  BY <1>4, RebootHandleInv
<1>5. CASE UNCHANGED vars
  BY <1>5 DEF vars, uploads, otadata, phase, TypeInv, Distinct, Held, Fresh, ActiveHolds
<1> QED
  BY <1>1, <1>2, <1>3, <1>4, <1>5 DEF Next

LEMMA AlwaysHandleInv == Spec => []HandleInv
<1> QED
  BY InitHandleInv, StepHandleInv, PTL DEF Spec

(* The loader fields, the handles and the flash stay within their types,   *)
(* and an active upload has an open handle (command_listener.rs:754-778).  *)
THEOREM TypeCorrect == Spec => []TypeOK
<1> QED
  BY AlwaysHandleInv, HandleInvTypeOK, PTL

(* No esp_ota handle is lost or used after it was closed                   *)
(* (command_listener.rs:600-604).                                          *)
THEOREM NoHandleLost == Spec => []HandlesHeld
<1>1. HandleInv => HandlesHeld
  <2> SUFFICES ASSUME HandleInv PROVE HandlesHeld
    OBVIOUS
  <2>1. \A t \in Listeners : listener[t].ota \in Serials \cup {None}
    BY DEF HandleInv, TypeInv, Listener
  <2>2. \A n \in Serials : n # None /\ (handles[n] # None <=> \E t \in Listeners : listener[t].ota = n)
    BY NoneApart DEF HandleInv, Held
  <2> QED
    BY <2>1, <2>2 DEF HandlesHeld
<1> QED
  BY <1>1, AlwaysHandleInv, PTL

(***************************************************************************)
(* The slots.  The running slot is whole.  A slot is new only between the  *)
(* end of its upload and the restart; otadata points at the running slot,  *)
(* at that one, or at one that was rolled back; on probation no upload     *)
(* touches the other slot, which is whole.                                 *)
(***************************************************************************)
RunningWhole == Verifies(image[running])
NewIsNext == \A s \in Slots : state[s] = "new" => (restarting /\ s = boot)
NextWhole ==
  restarting => (boot # running /\ state[boot] = "new" /\ Verifies(image[boot]))
BootRuns ==
  /\ ~restarting => (boot = running \/ state[boot] = "aborted")
  /\ boot = running => state[running] # "aborted"
Probation ==
  state[running] = "pending" =>
    /\ boot = running /\ Verifies(image[1 - running])
    /\ \A t \in Listeners : ~listener[t].active
BootInv == RunningWhole /\ NewIsNext /\ NextWhole /\ BootRuns /\ Probation

LEMMA InitBootInv == Init => BootInv
<1> SUFFICES ASSUME Init PROVE BootInv
  OBVIOUS
<1>1. Verifies(image[0])
  <2>1. 0 \in sound /\ length[0] = Size /\ Size \in 1..Size
    BY SizeAssumption DEF Init
  <2>2. \A j \in 0..(Size - 1) : image[0][j] = <<0, j>>
    BY DEF Init, Slots, Addresses
  <2> QED
    BY <2>1, <2>2 DEF Verifies, Holds
<1> QED
  BY <1>1 DEF Init, BootInv, RunningWhole, NewIsNext, NextWhole, BootRuns, Probation, Slots

LEMMA BootInvBootable ==
  ASSUME TypeInv, BootInv
  PROVE  Bootable
<1> USE DEF BootInv
<1>1. /\ boot \in Slots /\ running \in Slots
      /\ \A s \in Slots : AfterReset[s] = IF state[s] = "pending" THEN "aborted" ELSE state[s]
  BY DEF TypeInv, AfterReset
<1>2. CASE restarting
  <2>1. AfterReset[boot] = "new" /\ Verifies(image[boot])
    BY <1>1, <1>2 DEF NextWhole
  <2> QED
    BY <2>1 DEF Bootable, Selected
<1>3. CASE boot = running
  <2>1. CASE state[running] = "pending"
    <3>1. AfterReset[boot] = "aborted" /\ Verifies(image[1 - boot])
      BY <1>1, <1>3, <2>1 DEF Probation
    <3> QED
      BY <3>1 DEF Bootable, Selected
  <2>2. CASE state[running] # "pending"
    <3>1. AfterReset[boot] # "aborted" /\ Verifies(image[boot])
      BY <1>1, <1>3, <2>2 DEF BootRuns, RunningWhole
    <3> QED
      BY <3>1 DEF Bootable, Selected
  <2> QED
    BY <2>1, <2>2
<1>4. CASE ~restarting /\ boot # running
  <2>1. AfterReset[boot] = "aborted" /\ 1 - boot = running
    BY <1>1, <1>4 DEF BootRuns, Slots
  <2> QED
    BY <2>1 DEF Bootable, Selected, RunningWhole
<1> QED
  BY <1>2, <1>3, <1>4

(* A whole image stays so when another upload begins. *)
Whole(s, l, content) ==
  \E n \in s : l[n] \in 1..Size /\ \A j \in 0..(l[n] - 1) : content[j] = <<n, j>>

LEMMA WholeStays ==
  ASSUME NEW s, NEW s2, NEW l, NEW l2, NEW content, s \subseteq s2,
         \A n \in s : l2[n] = l[n], Whole(s, l, content)
  PROVE  Whole(s2, l2, content)
BY DEF Whole

LEMMA StartBootInv ==
  ASSUME HandleInv, BootInv, HandleInv', ~restarting,
         sound \subseteq sound', \A n \in sound : length'[n] = length[n],
         NEW t \in Listeners, \A u \in Listeners \ {t} : listener'[u] = listener[u],
         state[running] = "pending" => ~listener'[t].active,
         UNCHANGED <<image, otadata, running, restarting>>
  PROVE  BootInv'
<1>1. RunningWhole'
  <2>1. Whole(sound, length, image[running])
    BY DEF BootInv, RunningWhole, Verifies, Holds, Whole
  <2>2. Whole(sound', length', image[running])
    BY <2>1, WholeStays
  <2> QED
    BY <2>2 DEF RunningWhole, Verifies, Holds, Whole
<1>2. Probation'
  <2> SUFFICES ASSUME state[running] = "pending"
               PROVE  /\ Verifies(image[1 - running])'
                      /\ \A u \in Listeners : ~listener'[u].active
    BY DEF BootInv, Probation, otadata
  <2>1. Whole(sound, length, image[1 - running])
    BY DEF BootInv, Probation, Verifies, Holds, Whole
  <2>2. Whole(sound', length', image[1 - running])
    BY <2>1, WholeStays
  <2>3. \A u \in Listeners : ~listener'[u].active
    BY DEF BootInv, Probation
  <2> QED
    BY <2>2, <2>3 DEF Verifies, Holds, Whole
<1>3. NewIsNext' /\ NextWhole' /\ BootRuns'
  BY DEF BootInv, NewIsNext, NextWhole, BootRuns, otadata
<1> QED
  BY <1>1, <1>2, <1>3 DEF BootInv

LEMMA ChunkBootInv ==
  ASSUME HandleInv, BootInv, NEW t \in Listeners, NEW result \in Results, Chunk(t, result)
  PROVE  BootInv'
<1>1. /\ ~restarting /\ load # None
      /\ image' = After(t, result).image
      /\ listener' = [listener EXCEPT ![t].failed = After(t, result).failed]
      /\ UNCHANGED <<sound, length, otadata, running, restarting>>
  BY DEF Chunk, After
<1>2. image'[running] = image[running] /\ (~listener[t].active => image' = image)
  BY <1>1, AfterType
<1>3. \A u \in Listeners : listener'[u].active = listener[u].active
  BY <1>1 DEF HandleInv, TypeInv, Listener
<1>4. Probation'
  BY <1>1, <1>2, <1>3 DEF BootInv, Probation, Verifies, Holds, otadata
<1> QED
  BY <1>1, <1>2, <1>4
  DEF BootInv, RunningWhole, NewIsNext, NextWhole, BootRuns, Verifies, Holds, otadata

LEMMA LastChunkBootInv ==
  ASSUME HandleInv, BootInv, NEW t \in Listeners, NEW result \in Results,
         NEW fine \in BOOLEAN, LastChunk(t, result, fine)
  PROVE  BootInv'
<1> DEFINE done == Activates(t, After(t, result), fine)
<1>1. /\ ~restarting /\ load # None
      /\ image' = After(t, result).image
      /\ listener' = [listener EXCEPT ![t] = [listener[t] EXCEPT !.active = FALSE,
                                               !.failed = After(t, result).failed, !.ota = None]]
      /\ boot' = IF done THEN NextSlot ELSE boot
      /\ state' = IF done THEN [state EXCEPT ![NextSlot] = "new"] ELSE state
      /\ restarting' = done
      /\ UNCHANGED <<sound, length, running>>
  BY DEF LastChunk, After
<1>2. image'[running] = image[running] /\ (~listener[t].active => image' = image)
  BY <1>1, AfterType
<1>3. (done => listener[t].active /\ Verifies(image'[NextSlot])) /\ done \in BOOLEAN
  BY <1>1 DEF Activates
<1>4. \A u \in Listeners : listener'[u].active => listener[u].active
  BY <1>1 DEF HandleInv, TypeInv, Listener
<1>5. NextSlot \in Slots /\ NextSlot # running /\ NextSlot = 1 - running
  BY DEF HandleInv, TypeInv, NextSlot, Slots
<1>6. RunningWhole'
  BY <1>1, <1>2 DEF BootInv, RunningWhole, Verifies, Holds
<1> HIDE DEF done
<1>7. Probation'
  <2> SUFFICES ASSUME state'[running] = "pending"
               PROVE  /\ boot' = running /\ Verifies(image[1 - running])'
                      /\ \A u \in Listeners : ~listener'[u].active
    BY <1>1 DEF Probation
  <2>1. state[running] = "pending"
    BY <1>1, <1>5 DEF HandleInv, TypeInv
  <2>2. /\ boot = running /\ Verifies(image[1 - running])
        /\ \A u \in Listeners : ~listener[u].active
    BY <2>1 DEF BootInv, Probation
  <2>3. image' = image /\ boot' = boot
    BY <1>1, <1>2, <1>3, <2>2
  <2> QED
    BY <1>1, <1>4, <2>2, <2>3 DEF Verifies, Holds
<1>8. CASE done
  <2>1. /\ boot' = NextSlot /\ restarting' /\ state'[NextSlot] = "new"
        /\ \A s \in Slots : s # NextSlot => state'[s] = state[s]
    BY <1>1, <1>5, <1>8 DEF HandleInv, TypeInv
  <2>2. NewIsNext'
    BY <1>1, <2>1 DEF BootInv, NewIsNext
  <2>3. NextWhole'
    BY <1>1, <1>3, <1>5, <1>8, <2>1 DEF NextWhole, Verifies, Holds
  <2>4. BootRuns'
    BY <1>1, <1>5, <2>1 DEF BootRuns
  <2> QED
    BY <1>6, <1>7, <2>2, <2>3, <2>4 DEF BootInv
<1>9. CASE ~done
  <2>1. UNCHANGED <<boot, state, restarting, running>> /\ ~restarting
    BY <1>1, <1>3, <1>9 DEF HandleInv, TypeInv
  <2> QED
    BY <1>6, <1>7, <2>1 DEF BootInv, NewIsNext, NextWhole, BootRuns
<1> QED
  BY <1>8, <1>9

LEMMA RebootBootInv ==
  ASSUME HandleInv, BootInv, NEW fine \in BOOLEAN, Reboot(fine)
  PROVE  BootInv'
<1>1. /\ running' = Selected
      /\ state' = [AfterReset EXCEPT ![Selected] = IF AfterReset[Selected] = "new" THEN "pending"
                                                    ELSE AfterReset[Selected]]
      /\ listener' = [t \in Listeners |-> NewListener]
      /\ restarting' = FALSE
      /\ UNCHANGED <<image, sound, length, boot>>
  BY DEF Reboot
<1>2. Verifies(image[Selected]) /\ (Selected # boot => AfterReset[boot] = "aborted")
  BY BootInvBootable DEF HandleInv, Bootable
<1>3. /\ Selected \in Slots /\ boot \in Slots /\ running \in Slots
      /\ AfterReset = [s \in Slots |-> IF state[s] = "pending" THEN "aborted" ELSE state[s]]
      /\ Selected = boot => AfterReset[boot] # "aborted"
  BY DEF HandleInv, TypeInv, Selected, AfterReset, Slots
<1>4. /\ \A s \in Slots : AfterReset[s] = "new" => (restarting /\ s = boot)
      /\ \A s \in Slots : AfterReset[s] # "pending"
  BY <1>3 DEF BootInv, NewIsNext
<1>5. /\ state'[Selected] = IF AfterReset[Selected] = "new" THEN "pending" ELSE AfterReset[Selected]
      /\ \A s \in Slots : s # Selected => state'[s] = AfterReset[s]
  BY <1>1, <1>3
<1>6. RunningWhole'
  BY <1>1, <1>2 DEF RunningWhole, Verifies, Holds
<1>7. NewIsNext'
  <2> SUFFICES ASSUME NEW s \in Slots, state'[s] = "new" PROVE FALSE
    BY DEF NewIsNext
  <2>1. s # Selected /\ AfterReset[s] = "new"
    BY <1>4, <1>5
  <2>2. restarting /\ s = boot
    BY <1>4, <2>1
  <2> QED
    BY <1>2, <2>1, <2>2
<1>8. NextWhole'
  BY <1>1 DEF NextWhole
<1>9. BootRuns'
  <2>1. CASE Selected = boot
    <3>1. state'[Selected] # "aborted" /\ running' = boot' /\ running' = Selected
      BY <1>1, <1>3, <1>5, <2>1
    <3> QED
      BY <3>1 DEF BootRuns
  <2>2. CASE Selected # boot
    <3>1. state'[boot] = "aborted" /\ running' # boot' /\ boot' = boot
      BY <1>1, <1>2, <1>3, <1>5, <2>2
    <3> QED
      BY <3>1 DEF BootRuns
  <2> QED
    BY <2>1, <2>2
<1>10. Probation'
  <2> SUFFICES ASSUME state'[Selected] = "pending"
               PROVE  /\ boot = Selected /\ Whole(sound, length, image[1 - Selected])
                      /\ \A t \in Listeners : ~listener'[t].active
    BY <1>1 DEF Probation, Verifies, Holds, Whole
  <2>1. AfterReset[Selected] = "new"
    BY <1>3, <1>4, <1>5
  <2>2. restarting /\ Selected = boot
    BY <1>3, <1>4, <2>1
  <2>3. 1 - Selected = running
    BY <1>3, <2>2 DEF BootInv, NextWhole, Slots
  <2>4. Verifies(image[1 - Selected])
    BY <2>3 DEF BootInv, RunningWhole
  <2> QED
    BY <1>1, <2>2, <2>4, NewListenerType DEF Verifies, Holds, Whole
<1> QED
  BY <1>6, <1>7, <1>8, <1>9, <1>10 DEF BootInv

LEMMA StepBootInv == HandleInv /\ BootInv /\ [Next]_vars => BootInv'
<1> SUFFICES ASSUME HandleInv, BootInv, [Next]_vars PROVE BootInv'
  OBVIOUS
<1>0. HandleInv'
  BY StepHandleInv
<1>1. CASE CommandListener
  <2>1. ASSUME NEW t \in Listeners, NEW len \in Lengths, NEW verifies \in BOOLEAN,
               NEW fine \in BOOLEAN, OtaStart(t, len, verifies, fine)
        PROVE  BootInv'
    <3>1. sound \subseteq sound' /\ \A n \in sound : length'[n] = length[n]
      BY <2>1, OtaStartHandleInv
    <3>2. /\ ~restarting
          /\ listener' = [listener EXCEPT ![t] = Started(t, env.commands + 1, Begins(len, fine))]
          /\ UNCHANGED <<image, otadata, running, restarting>>
      BY <2>1 DEF OtaStart, Command
    <3>3. /\ \A u \in Listeners \ {t} : listener'[u] = listener[u]
          /\ state[running] = "pending" => ~listener'[t].active
      BY <3>2 DEF Started, Begins, HandleInv, TypeInv
    <3> QED
      BY <1>0, <3>1, <3>2, <3>3, StartBootInv
  <2>2. ASSUME NEW t \in Listeners, NEW len \in Lengths, PkgStart(t, len)
        PROVE  BootInv'
    <3>1. sound \subseteq sound' /\ \A n \in sound : length'[n] = length[n]
      BY <2>2, PkgStartHandleInv
    <3>2. /\ ~restarting
          /\ listener' = [listener EXCEPT ![t] = NewListener]
          /\ UNCHANGED <<image, otadata, running, restarting>>
      BY <2>2 DEF PkgStart, Command
    <3>3. /\ \A u \in Listeners \ {t} : listener'[u] = listener[u]
          /\ ~listener'[t].active
      BY <3>2, NewListenerType DEF HandleInv, TypeInv
    <3> QED
      BY <1>0, <3>1, <3>2, <3>3, StartBootInv
  <2>3. ASSUME NEW t \in Listeners, NEW result \in Results, Chunk(t, result)
        PROVE  BootInv'
    BY <2>3, ChunkBootInv
  <2>4. ASSUME NEW t \in Listeners, NEW result \in Results, NEW fine \in BOOLEAN,
               LastChunk(t, result, fine)
        PROVE  BootInv'
    BY <2>4, LastChunkBootInv
  <2>5. CASE Abandon
    BY <2>5 DEF Abandon, otadata, BootInv, RunningWhole, NewIsNext, NextWhole, BootRuns,
                Probation, Verifies, Holds
  <2> QED
    BY <1>1, <2>1, <2>2, <2>3, <2>4, <2>5 DEF CommandListener
<1>2. CASE PhaseOver
  BY <1>2 DEF PhaseOver, uploads, otadata, BootInv, RunningWhole, NewIsNext, NextWhole,
              BootRuns, Probation, Verifies, Holds
<1>3. ASSUME NEW fine \in BOOLEAN, MarkValid(fine)
      PROVE  BootInv'
  <2>1. /\ ~restarting
        /\ state' = [state EXCEPT ![running] = "valid"] \/ state' = state
        /\ UNCHANGED <<uploads, boot, running, restarting>>
    BY <1>3 DEF MarkValid
  <2>2. /\ running \in Slots /\ boot \in Slots
        /\ \A s \in Slots : state'[s] = state[s] \/ (s = running /\ state'[s] = "valid")
    BY <2>1 DEF HandleInv, TypeInv
  <2> QED
    BY <2>1, <2>2 DEF uploads, BootInv, RunningWhole, NewIsNext, NextWhole, BootRuns,
                      Probation, Verifies, Holds
<1>4. ASSUME NEW fine \in BOOLEAN, Reboot(fine)
      PROVE  BootInv'
  BY <1>4, RebootBootInv
<1>5. CASE UNCHANGED vars
  BY <1>5 DEF vars, uploads, otadata, BootInv, RunningWhole, NewIsNext, NextWhole, BootRuns,
              Probation, Verifies, Holds
<1> QED
  BY <1>1, <1>2, <1>3, <1>4, <1>5 DEF Next

LEMMA AlwaysBootInv == Spec => [](HandleInv /\ BootInv)
<1>1. Init => HandleInv /\ BootInv
  BY InitHandleInv, InitBootInv
<1>2. (HandleInv /\ BootInv) /\ [Next]_vars => (HandleInv /\ BootInv)'
  BY StepHandleInv, StepBootInv
<1> QED
  BY <1>1, <1>2, PTL DEF Spec

(* Whenever the power fails, the bootloader finds a whole image, in the    *)
(* slot otadata names unless that one was rolled back: no upload, however  *)
(* it goes, costs the device its firmware (command_listener.rs:745-752).   *)
THEOREM AlwaysBootable == Spec => []Bootable
<1>1. HandleInv /\ BootInv => Bootable
  BY BootInvBootable DEF HandleInv
<1> QED
  BY <1>1, AlwaysBootInv, PTL

(* On probation the firmware to roll back to is kept                       *)
(* (command_listener.rs:768-769).                                          *)
THEOREM FallbackNotOverwritten == Spec => []FallbackKept
<1>1. HandleInv /\ BootInv => FallbackKept
  BY DEF BootInv, Probation, FallbackKept
<1> QED
  BY <1>1, AlwaysBootInv, PTL

(* The rollback phase is shown exactly as long as it lasts, if it could be *)
(* looked up (global.rs:155-157, heartbeat.rs:28-51).                      *)
THEOREM RollbackPhaseShown == Spec => []RollbackShown
<1>1. Init => RollbackShown
  BY DEF Init, RollbackShown, Slots
<1>2. HandleInv /\ RollbackShown /\ [Next]_vars => RollbackShown'
  <2> SUFFICES ASSUME HandleInv, RollbackShown, [Next]_vars PROVE RollbackShown'
    OBVIOUS
  <2> USE DEF RollbackShown
  <2>1. CASE CommandListener
    <3>1. UNCHANGED <<running, phase>> /\ state'[running] = state[running]
      <4>1. ASSUME NEW t \in Listeners, NEW len \in Lengths, NEW verifies \in BOOLEAN,
                   NEW fine \in BOOLEAN, OtaStart(t, len, verifies, fine)
            PROVE  UNCHANGED <<running, phase>> /\ state'[running] = state[running]
        BY <4>1 DEF OtaStart, otadata
      <4>2. ASSUME NEW t \in Listeners, NEW len \in Lengths, PkgStart(t, len)
            PROVE  UNCHANGED <<running, phase>> /\ state'[running] = state[running]
        BY <4>2 DEF PkgStart, otadata
      <4>3. ASSUME NEW t \in Listeners, NEW result \in Results, Chunk(t, result)
            PROVE  UNCHANGED <<running, phase>> /\ state'[running] = state[running]
        BY <4>3 DEF Chunk, otadata
      <4>4. ASSUME NEW t \in Listeners, NEW result \in Results, NEW fine \in BOOLEAN,
                   LastChunk(t, result, fine)
            PROVE  UNCHANGED <<running, phase>> /\ state'[running] = state[running]
        <5>1. /\ UNCHANGED <<running, phase>>
              /\ state' = [state EXCEPT ![NextSlot] = "new"] \/ state' = state
          BY <4>4 DEF LastChunk
        <5>2. NextSlot # running
          BY DEF HandleInv, TypeInv, NextSlot, Slots
        <5> QED
          BY <5>1, <5>2 DEF HandleInv, TypeInv
      <4>5. CASE Abandon
        BY <4>5 DEF Abandon, otadata
      <4> QED
        BY <2>1, <4>1, <4>2, <4>3, <4>4, <4>5 DEF CommandListener
    <3> QED
      BY <3>1 DEF phase
  <2>2. CASE PhaseOver
    BY <2>2 DEF PhaseOver, otadata
  <2>3. ASSUME NEW fine \in BOOLEAN, MarkValid(fine)
        PROVE  RollbackShown'
    <3>1. state' = IF fine THEN [state EXCEPT ![running] = "valid"] ELSE state
      BY <2>3 DEF MarkValid
    <3>2. running \in Slots /\ (fine => state'[running] = "valid")
      BY <3>1 DEF HandleInv, TypeInv
    <3> QED
      BY <2>3, <3>1, <3>2 DEF MarkValid
  <2>4. ASSUME NEW fine \in BOOLEAN, Reboot(fine)
        PROVE  RollbackShown'
    BY <2>4 DEF Reboot
  <2>5. CASE UNCHANGED vars
    BY <2>5 DEF vars, otadata, phase
  <2> QED
    BY <2>1, <2>2, <2>3, <2>4, <2>5 DEF Next
<1> QED
  BY <1>1, <1>2, AlwaysHandleInv, PTL DEF Spec

(***************************************************************************)
(* An upload.  As long as it has been given its own chunks only, and no    *)
(* flash operation has failed, they are in the slot that is not running,   *)
(* and what is left of the sector it has come to is erased.                *)
(***************************************************************************)
LEMMA Remainder ==
  ASSUME NEW a \in Int, NEW n \in Nat \ {0}
  PROVE  /\ a \div n \in Int /\ a % n \in 0..(n - 1)
         /\ a = n * (a \div n) + (a % n)
OBVIOUS

LEMMA NextInSector ==
  ASSUME NEW p \in Nat, NEW n \in Nat \ {0}, (p + 1) % n # 0
  PROVE  (p + 1) % n = (p % n) + 1
<1> DEFINE q == p \div n
           r == p % n
           q2 == (p + 1) \div n
           r2 == (p + 1) % n
<1>1. q \in Int /\ r \in 0..(n - 1) /\ p = n * q + r
  BY Remainder
<1>2. p + 1 \in Int
  OBVIOUS
<1>3. q2 \in Int /\ r2 \in 0..(n - 1) /\ p + 1 = n * q2 + r2
  BY <1>2, Remainder
<1>4. r2 > 0
  BY <1>3
<1> HIDE DEF q, q2, r, r2
<1>5. n * (q2 - q) = r + 1 - r2
  BY <1>1, <1>3
<1>6. q2 - q = 0
  <2>1. ASSUME q2 - q >= 1 PROVE FALSE
    <3>1. n * (q2 - q) >= n
      BY <1>1, <1>3, <2>1
    <3> QED
      BY <1>1, <1>3, <1>4, <1>5, <3>1
  <2>2. ASSUME q2 - q <= -1 PROVE FALSE
    <3>1. n * (q2 - q) <= -n
      BY <1>1, <1>3, <2>2
    <3> QED
      BY <1>1, <1>3, <1>4, <1>5, <3>1
  <2> QED
    BY <1>1, <1>3, <2>1, <2>2
<1> QED
  BY <1>1, <1>3, <1>5, <1>6 DEF r, r2

SectorEnd(p) == p - (p % SectorLen) + SectorLen
Copied(content, n, p) ==
  /\ \A j \in 0..(p - 1) : content[j] = <<n, j>>
  /\ p % SectorLen # 0 =>
       \A i \in Addresses : (p <= i /\ i < SectorEnd(p)) => content[i] = Erased

Unmixed ==
  load # None /\ load.pos = load.sent /\ listener[load.by].active /\ env.faults = 0
UnmixedWritten ==
  Unmixed => /\ ~listener[load.by].failed /\ listener[load.by].ota = load.n
             /\ handles[load.n] = load.pos /\ length[load.n] <= Size
             /\ Copied(image[NextSlot], load.n, load.pos)
UploadLimits ==
  /\ restarting => load = None
  /\ load # None => load.sent <= load.pos /\ load.pos < length[load.n]
UploadInv == UploadLimits /\ UnmixedWritten

LEMMA ProgrammedCopied ==
  ASSUME NEW content \in [Addresses -> Chunks \cup {Erased, Garbled}], NEW n,
         NEW p \in Addresses, Copied(content, n, p)
  PROVE  Copied(Programmed(content, p, <<n, p>>), n, p + 1)
<1> DEFINE fresh == [i \in Addresses |->
                       IF p % SectorLen = 0 /\ i \in p..(p + SectorLen - 1)
                         THEN Erased ELSE content[i]]
           after == Programmed(content, p, <<n, p>>)
           off == p % SectorLen
<1>1. /\ p \in Nat /\ SectorLen \in Nat /\ SectorLen > 0 /\ Size \in Nat
      /\ off \in 0..(SectorLen - 1)
  BY SizeAssumption, Remainder DEF Addresses
<1>2. after = [fresh EXCEPT ![p] = IF fresh[p] = Erased THEN <<n, p>> ELSE Garbled]
  BY DEF Programmed
<1>3. fresh[p] = Erased
  <2>1. CASE off = 0
    BY <1>1, <2>1
  <2>2. CASE off # 0
    <3>1. p < SectorEnd(p)
      BY <1>1 DEF SectorEnd
    <3>2. content[p] = Erased
      BY <1>1, <2>2, <3>1 DEF Copied
    <3> QED
      BY <2>2, <3>2
  <2> QED
    BY <2>1, <2>2
<1>4. /\ after[p] = <<n, p>>
      /\ \A i \in Addresses : i # p => after[i] = fresh[i]
  BY <1>2, <1>3
<1> HIDE DEF after, off
<1>5. ASSUME NEW j \in 0..((p + 1) - 1) PROVE after[j] = <<n, j>>
  <2>1. CASE j = p
    BY <1>4, <2>1
  <2>2. CASE j # p
    <3>1. j \in 0..(p - 1) /\ j \in Addresses /\ j \notin p..(p + SectorLen - 1)
      BY <1>1, <2>2 DEF Addresses
    <3>2. after[j] = content[j]
      BY <1>4, <2>2, <3>1
    <3> QED
      BY <3>1, <3>2 DEF Copied
  <2> QED
    BY <2>1, <2>2
<1>6. ASSUME (p + 1) % SectorLen # 0, NEW i \in Addresses, p + 1 <= i, i < SectorEnd(p + 1)
      PROVE  after[i] = Erased
  <2>1. (p + 1) % SectorLen = off + 1
    <3>1. p \in Nat /\ SectorLen \in Nat \ {0} /\ (p + 1) % SectorLen # 0
      BY <1>1, <1>6
    <3>2. (p + 1) % SectorLen = (p % SectorLen) + 1
      BY <3>1, NextInSector
    <3> QED
      BY <3>2 DEF off
  <2>2. i \in Nat /\ i # p /\ i < p - off + SectorLen
    BY <1>1, <1>6, <2>1 DEF SectorEnd, Addresses
  <2>3. fresh[i] = Erased
    <3>1. CASE off = 0
      <4>1. i \in p..(p + SectorLen - 1)
        BY <1>1, <1>6, <2>2, <3>1
      <4> QED
        BY <3>1, <4>1 DEF off
    <3>2. CASE off # 0
      <4>1. content[i] = Erased
        BY <1>1, <1>6, <2>2, <3>2 DEF Copied, SectorEnd, off
      <4> QED
        BY <3>2, <4>1 DEF off
    <3> QED
      BY <3>1, <3>2
  <2> QED
    BY <1>4, <2>2, <2>3
<1> QED
  BY <1>5, <1>6 DEF Copied, after

(* Faults only add up. *)
LEMMA FaultFree ==
  ASSUME TypeInv, NEW fine \in BOOLEAN, Fault(fine), env'.faults = 0 \/ (env' = env /\ env.faults = 0)
  PROVE  fine /\ env.faults = 0
<1>1. env.faults \in Nat /\ env \in Environments
  BY BoundsAssumption DEF TypeInv, Environments
<1>2. ASSUME ~fine PROVE env'.faults = env.faults + 1
  BY <1>1, <1>2 DEF Fault, Environments
<1>3. fine
  BY <1>1, <1>2
<1> QED
  BY <1>3 DEF Fault

(* The next chunk of such an upload goes where it belongs. *)
LEMMA ChunkWritten ==
  ASSUME HandleInv, UploadInv, Unmixed, NEW result \in Results, result = "ok"
  PROVE  LET n == load.n
             after == After(load.by, result)
         IN  /\ after.handles[n] = load.pos + 1 /\ after.failed = FALSE
             /\ Copied(after.image[NextSlot], n, load.pos + 1)
<1> DEFINE n == load.n
           t == load.by
<1>1. /\ load \in Upload /\ n \in Serials /\ t \in Listeners /\ load.pos \in Nat
      /\ load.sent = load.pos
  BY DEF Unmixed, HandleInv, TypeInv, Upload
<1>2. /\ listener[t].active /\ ~listener[t].failed /\ listener[t].ota = n
      /\ handles[n] = load.pos /\ length[n] <= Size /\ load.pos < length[n]
      /\ Copied(image[NextSlot], n, load.pos)
  BY DEF UploadInv, UploadLimits, UnmixedWritten, Unmixed
<1>3. length[n] \in Nat /\ Size \in Nat
  BY <1>1, SizeAssumption DEF HandleInv, TypeInv
<1>4. load.pos \in Addresses /\ load.pos < Size
  BY <1>1, <1>2, <1>3 DEF Addresses
<1>5. Writes(t) /\ Fits(t)
  BY <1>2, <1>4 DEF Writes, Fits
<1>6. Given(t) = <<n, load.pos>>
  BY <1>1 DEF Given
<1>7. /\ After(t, result).image =
           [image EXCEPT ![NextSlot] = Programmed(image[NextSlot], load.pos, <<n, load.pos>>)]
      /\ After(t, result).handles = [handles EXCEPT ![n] = handles[n] + 1]
      /\ After(t, result).failed = FALSE
  BY <1>2, <1>5, <1>6 DEF After, Flushed
<1>8. NextSlot \in Slots
  BY DEF HandleInv, TypeInv, NextSlot, Slots
<1>9. After(t, result).image[NextSlot] = Programmed(image[NextSlot], load.pos, <<n, load.pos>>)
  BY <1>7, <1>8 DEF HandleInv, TypeInv
<1>10. Copied(After(t, result).image[NextSlot], n, load.pos + 1)
  BY <1>2, <1>4, <1>8, <1>9, ProgrammedCopied DEF HandleInv, TypeInv
<1>11. After(t, result).handles[n] = load.pos + 1
  BY <1>1, <1>2, <1>7 DEF HandleInv, TypeInv
<1> QED
  BY <1>7, <1>10, <1>11

LEMMA InitUploadInv == Init => UploadInv
BY DEF Init, UploadInv, UploadLimits, UnmixedWritten, Unmixed

(* Nothing of it is written yet. *)
LEMMA OtaStartUploadInv ==
  ASSUME HandleInv, UploadInv, NEW t \in Listeners, NEW len \in Lengths,
         NEW verifies \in BOOLEAN, NEW fine \in BOOLEAN, OtaStart(t, len, verifies, fine)
  PROVE  UploadInv'
<1> DEFINE n == env.commands + 1
           accepted == Begins(len, fine)
           upload == [by |-> t, n |-> n, pos |-> 0, sent |-> 0]
<1>1. n \in Serials /\ len \in Nat /\ len > 0 /\ ~restarting
  <2>1. Command(fine) /\ TypeInv
    BY DEF OtaStart, HandleInv
  <2>2. n \in Serials
    BY <2>1, CommandType
  <2> QED
    BY <2>1, <2>2, SizeAssumption DEF Command
<1>2. /\ handles' = [Release(t) EXCEPT ![n] = IF accepted THEN 0 ELSE None]
      /\ listener' = [listener EXCEPT ![t] = Started(t, n, accepted)]
      /\ load' \in {upload, None}
      /\ length' = [length EXCEPT ![n] = len]
      /\ restarting' = restarting
  BY DEF OtaStart
<1>3. length'[n] = len /\ listener'[t] = Started(t, n, accepted)
  BY <1>1, <1>2 DEF HandleInv, TypeInv
<1>4. ASSUME accepted PROVE handles'[n] = 0 /\ len <= Size
  <2>1. DOMAIN Release(t) = Serials
    BY DEF HandleInv, TypeInv, Release, Close
  <2> QED
    BY <1>1, <1>2, <1>4, <2>1 DEF Begins
<1>5. UploadLimits'
  BY <1>1, <1>2, <1>3 DEF UploadLimits
<1>6. UnmixedWritten'
  <2> SUFFICES ASSUME Unmixed' PROVE UnmixedWritten'
    BY DEF UnmixedWritten
  <2>1. load' = upload /\ accepted
    BY <1>2, <1>3 DEF Unmixed, Started
  <2>2. 0 % SectorLen = 0
    BY SizeAssumption
  <2>3. Copied(image'[NextSlot'], n, 0)
    BY <2>2 DEF Copied
  <2> QED
    BY <1>3, <1>4, <2>1, <2>3 DEF UnmixedWritten, Started
<1> QED
  BY <1>5, <1>6 DEF UploadInv

LEMMA PkgStartUploadInv ==
  ASSUME HandleInv, UploadInv, NEW t \in Listeners, NEW len \in Lengths, PkgStart(t, len)
  PROVE  UploadInv'
<1> DEFINE n == env.commands + 1
           upload == [by |-> t, n |-> n, pos |-> 0, sent |-> 0]
<1>1. n \in Serials /\ len \in Nat /\ len > 0 /\ ~restarting
  <2>1. Command(TRUE) /\ TypeInv
    BY DEF PkgStart, HandleInv
  <2>2. n \in Serials
    BY <2>1, CommandType
  <2> QED
    BY <2>1, <2>2, SizeAssumption DEF Command
<1>2. /\ listener' = [listener EXCEPT ![t] = NewListener]
      /\ load' \in {upload, None}
      /\ length' = [length EXCEPT ![n] = len]
      /\ restarting' = restarting
  BY DEF PkgStart
<1>3. length'[n] = len /\ listener'[t] = NewListener
  BY <1>1, <1>2 DEF HandleInv, TypeInv
<1>4. UploadLimits'
  BY <1>1, <1>2, <1>3 DEF UploadLimits
<1>5. ~Unmixed'
  BY <1>2, <1>3, NewListenerType DEF Unmixed
<1> QED
  BY <1>4, <1>5 DEF UploadInv, UnmixedWritten

(* A chunk for the other listener, and the upload is mixed up for good. *)
LEMMA ChunkUploadInv ==
  ASSUME HandleInv, UploadInv, NEW t \in Listeners, NEW result \in Results, Chunk(t, result)
  PROVE  UploadInv'
<1>1. /\ ~restarting /\ load # None /\ ~IsLast /\ Fault(Expected(t, result))
      /\ image' = After(t, result).image /\ handles' = After(t, result).handles
      /\ listener' = [listener EXCEPT ![t].failed = After(t, result).failed]
      /\ load' = [load EXCEPT !.pos = @ + 1, !.sent = IF t = load.by THEN @ + 1 ELSE @]
      /\ UNCHANGED <<length, running, restarting>>
  BY DEF Chunk, After
<1>2. /\ load \in Upload /\ load.by \in Listeners /\ load.n \in Serials
      /\ load.pos \in Nat /\ load.sent \in Nat /\ load.sent <= load.pos
      /\ load.pos < length[load.n] /\ length[load.n] \in Nat
  BY <1>1 DEF HandleInv, TypeInv, Upload, UploadInv, UploadLimits
<1>3. /\ load' # None /\ load'.by = load.by /\ load'.n = load.n /\ load'.pos = load.pos + 1
      /\ load'.sent = IF t = load.by THEN load.sent + 1 ELSE load.sent
  <2>1. load' \in Upload
    BY <1>1, UploadMoves DEF HandleInv
  <2> QED
    BY <1>1, <1>2, <2>1, NoneApart DEF Upload
<1>4. UploadLimits'
  BY <1>1, <1>2, <1>3 DEF UploadLimits, IsLast
<1>5. ASSUME Unmixed' PROVE UnmixedWritten'
  <2>1. t = load.by /\ load.sent = load.pos /\ env'.faults = 0
    BY <1>2, <1>3, <1>5 DEF Unmixed
  <2>2. Expected(t, result) \in BOOLEAN
    BY DEF Expected
  <2>3. Expected(t, result) /\ env.faults = 0
    BY <1>1, <2>1, <2>2, FaultFree DEF HandleInv
  <2>4. result = "ok"
    BY <2>1, <2>3 DEF Expected, Refusable
  <2>5. listener'[t].active = listener[t].active /\ listener'[t].ota = listener[t].ota
        /\ listener'[t].failed = After(t, result).failed
    BY <1>1 DEF HandleInv, TypeInv, Listener
  <2>6. Unmixed
    BY <1>1, <1>3, <1>5, <2>1, <2>3, <2>5 DEF Unmixed
  <2>7. /\ After(t, result).handles[load.n] = load.pos + 1 /\ After(t, result).failed = FALSE
        /\ Copied(After(t, result).image[NextSlot], load.n, load.pos + 1)
    BY <2>1, <2>4, <2>6, ChunkWritten
  <2>8. listener[t].ota = load.n /\ length[load.n] <= Size
    BY <2>1, <2>6 DEF UploadInv, UnmixedWritten
  <2>9. NextSlot' = NextSlot
    BY <1>1 DEF NextSlot
  <2> QED
    BY <1>1, <1>3, <2>1, <2>5, <2>7, <2>8, <2>9 DEF UnmixedWritten
<1>6. UnmixedWritten'
  BY <1>5 DEF UnmixedWritten
<1> QED
  BY <1>4, <1>6 DEF UploadInv

LEMMA StepUploadInv == HandleInv /\ UploadInv /\ [Next]_vars => UploadInv'
<1> SUFFICES ASSUME HandleInv, UploadInv, [Next]_vars PROVE UploadInv'
  OBVIOUS
<1>1. ASSUME load' = None PROVE UploadInv'
  BY <1>1 DEF UploadInv, UploadLimits, UnmixedWritten, Unmixed
<1>2. CASE CommandListener
  <2>1. ASSUME NEW t \in Listeners, NEW result \in Results, NEW fine \in BOOLEAN,
               LastChunk(t, result, fine)
        PROVE  UploadInv'
    BY <1>1, <2>1 DEF LastChunk
  <2>2. CASE Abandon
    BY <1>1, <2>2 DEF Abandon
  <2> QED
    BY <1>2, <2>1, <2>2, OtaStartUploadInv, PkgStartUploadInv, ChunkUploadInv
    DEF CommandListener
<1>3. ASSUME UNCHANGED <<uploads, running, restarting>>, env'.faults = 0 => env.faults = 0
      PROVE  UploadInv'
  BY <1>3 DEF uploads, UploadInv, UploadLimits, UnmixedWritten, Unmixed, NextSlot
<1>4. CASE PhaseOver
  BY <1>3, <1>4 DEF PhaseOver
<1>5. ASSUME NEW fine \in BOOLEAN, MarkValid(fine) PROVE UploadInv'
  <2>1. env'.faults = 0 => env.faults = 0
    BY <1>5, FaultFree DEF MarkValid, HandleInv
  <2> QED
    BY <1>3, <1>5, <2>1 DEF MarkValid
<1>6. ASSUME NEW fine \in BOOLEAN, Reboot(fine) PROVE UploadInv'
  BY <1>1, <1>6 DEF Reboot
<1>7. CASE UNCHANGED vars
  BY <1>3, <1>7 DEF vars
<1> QED
  BY <1>2, <1>4, <1>5, <1>6, <1>7 DEF Next

(* A good image, given nothing but its own chunks, is what the device      *)
(* restarts into unless a flash operation fails, whatever was uploaded,    *)
(* refused or given up before (command_listener.rs:745-752).               *)
THEOREM GoodUpdatesBoot == Spec => UpdateBoots
<1> DEFINE Boots(t) ==
             (/\ load # None /\ load.by = t /\ load.pos = load.sent /\ load.n \in sound
              /\ listener[t].active /\ ~listener'[t].active /\ env' = env /\ env.faults = 0)
               => (restarting' /\ \A j \in 0..(length[load.n] - 1) :
                                    image'[Selected'][j] = <<load.n, j>>)
<1>1. HandleInv /\ UploadInv /\ [Next]_vars => [\A t \in Listeners : Boots(t)]_vars
  <2> SUFFICES ASSUME HandleInv, UploadInv, [Next]_vars, NEW t \in Listeners,
                      load # None, load.by = t, load.pos = load.sent, load.n \in sound,
                      listener[t].active, ~listener'[t].active, env' = env, env.faults = 0
               PROVE  restarting' /\ \A j \in 0..(length[load.n] - 1) :
                                       image'[Selected'][j] = <<load.n, j>>
    OBVIOUS
  <2> DEFINE n == load.n
  <2>1. ~restarting /\ load.pos < length[n]
    BY DEF UploadInv, UploadLimits
  <2>2. PICK u \in Listeners, result \in Results, fine \in BOOLEAN : LastChunk(u, result, fine)
    <3>1. ASSUME NEW u \in Listeners, NEW len \in Lengths, NEW verifies \in BOOLEAN,
                 NEW fine \in BOOLEAN, OtaStart(u, len, verifies, fine)
          PROVE  FALSE
      BY <3>1 DEF OtaStart, Command
    <3>2. ASSUME NEW u \in Listeners, NEW len \in Lengths, PkgStart(u, len) PROVE FALSE
      BY <3>2 DEF PkgStart, Command
    <3>3. ASSUME NEW u \in Listeners, NEW result \in Results, Chunk(u, result) PROVE FALSE
      BY <3>3 DEF Chunk, HandleInv, TypeInv, Listener
    <3>4. ASSUME NEW fine \in BOOLEAN, Reboot(fine) PROVE FALSE
      <4>1. env \in Environments /\ env.reboots \in Nat
        BY BoundsAssumption DEF HandleInv, TypeInv, Environments
      <4>2. env' = [env EXCEPT !.reboots = env.reboots + 1,
                               !.faults = IF fine THEN env.faults ELSE env.faults + 1]
        BY <2>1, <3>4 DEF Reboot
      <4>3. env'.reboots = env.reboots + 1
        BY <4>1, <4>2 DEF Environments
      <4> QED
        BY <4>1, <4>3
    <3>5. ~Abandon /\ ~PhaseOver /\ ~UNCHANGED vars /\ \A fine \in BOOLEAN : ~MarkValid(fine)
      BY DEF Abandon, PhaseOver, MarkValid, uploads, vars
    <3> QED
      BY <3>1, <3>2, <3>3, <3>4, <3>5 DEF Next, CommandListener
  <2>3. /\ IsLast /\ Fault(Expected(u, result) /\ fine)
        /\ image' = After(u, result).image
        /\ listener' = [listener EXCEPT ![u] = [listener[u] EXCEPT !.active = FALSE,
                                                 !.failed = After(u, result).failed, !.ota = None]]
        /\ boot' = IF Activates(u, After(u, result), fine) THEN NextSlot ELSE boot
        /\ state' = IF Activates(u, After(u, result), fine)
                      THEN [state EXCEPT ![NextSlot] = "new"] ELSE state
        /\ restarting' = Activates(u, After(u, result), fine)
        /\ UNCHANGED <<sound, length>>
    BY <2>2 DEF LastChunk, After
  <2>4. u = t
    BY <2>3 DEF HandleInv, TypeInv
  <2>5. result = "ok" /\ fine
    <3>1. (Expected(u, result) /\ fine) \in BOOLEAN
      BY DEF Expected
    <3>2. Expected(u, result) /\ fine
      BY <2>3, <3>1, FaultFree DEF HandleInv
    <3> QED
      BY <2>4, <3>2 DEF Expected, Refusable
  <2>6. Unmixed
    BY DEF Unmixed
  <2>7. /\ After(t, result).failed = FALSE
        /\ Copied(image'[NextSlot], n, load.pos + 1)
        /\ length[n] <= Size /\ length[n] = load.pos + 1 /\ load.pos \in Nat
    BY <2>3, <2>4, <2>5, <2>6, ChunkWritten
    DEF UploadInv, UnmixedWritten, IsLast, HandleInv, TypeInv, Upload
  <2>8. length[n] \in 1..Size /\ \A j \in 0..(length[n] - 1) : image'[NextSlot][j] = <<n, j>>
    BY <2>7, SizeAssumption DEF Copied
  <2>9. Verifies(image'[NextSlot]) /\ Activates(t, After(t, result), fine)
    <3>1. Verifies(image'[NextSlot])
      BY <2>8 DEF Verifies, Holds
    <3> QED
      BY <2>3, <2>4, <2>5, <2>7, <3>1 DEF Activates
  <2>10. boot' = NextSlot /\ state'[NextSlot] = "new" /\ restarting' /\ NextSlot \in Slots
    <3>1. NextSlot \in Slots
      BY DEF HandleInv, TypeInv, NextSlot, Slots
    <3> QED
      BY <2>3, <2>4, <2>9, <3>1 DEF HandleInv, TypeInv
  <2>11. Selected' = NextSlot
    <3>1. AfterReset'[NextSlot] = "new"
      BY <2>10 DEF AfterReset
    <3>2. Verifies(image[boot])'
      BY <2>3, <2>9, <2>10 DEF Verifies, Holds
    <3> QED
      BY <2>10, <3>1, <3>2 DEF Selected
  <2> QED
    BY <2>8, <2>10, <2>11
<1>2. Spec => [](HandleInv /\ UploadInv)
  BY InitHandleInv, InitUploadInv, StepHandleInv, StepUploadInv, PTL DEF Spec
<1> QED
  BY <1>1, <1>2, PTL DEF Spec, UpdateBoots

(***************************************************************************)
(* Firmware implements Update.  In these terms: the slot the bootloader    *)
(* selects is the running one, unless an update was installed or is on     *)
(* trial; and a slot has the firmware it holds, for no two begin alike.    *)
(***************************************************************************)
HoldsIn(l, content, n) ==
  l[n] \in 1..Size /\ \A j \in 0..(l[n] - 1) : content[j] = <<n, j>>
FirmwareOf(s, l, content) ==
  IF \E n \in s : HoldsIn(l, content, n) THEN CHOOSE n \in s : HoldsIn(l, content, n) ELSE None
Runs == FirmwareOf(sound, length, image[running])
Boots == FirmwareOf(sound, length, image[Selected])

LEMMA FirmwareIs ==
  ASSUME NEW s, NEW l, NEW content, NEW n \in s, HoldsIn(l, content, n)
  PROVE  FirmwareOf(s, l, content) = n
<1>1. \A m \in s : HoldsIn(l, content, m) => content[0] = <<m, 0>>
  BY SizeAssumption DEF HoldsIn
<1>2. \A m \in s : HoldsIn(l, content, m) => m = n
  BY <1>1
<1> QED
  BY <1>2 DEF FirmwareOf

LEMMA FirmwareStays ==
  ASSUME NEW s, NEW s2, NEW l, NEW l2, NEW content, s \subseteq s2,
         \A n \in s : l2[n] = l[n], \E n \in s : HoldsIn(l, content, n)
  PROVE  FirmwareOf(s2, l2, content) = FirmwareOf(s, l, content)
<1>1. PICK n \in s : HoldsIn(l, content, n)
  OBVIOUS
<1>2. n \in s2 /\ HoldsIn(l2, content, n)
  BY <1>1 DEF HoldsIn
<1> QED
  BY <1>1, <1>2, FirmwareIs

SelectedFacts ==
  /\ Selected = IF restarting \/ state[running] = "pending" THEN 1 - running ELSE running
  /\ restarting => boot = 1 - running /\ state[running] # "pending"
  /\ \E n \in sound : HoldsIn(length, image[running], n)
  /\ \E n \in sound : HoldsIn(length, image[Selected], n)

LEMMA SelectedSlot == TypeInv /\ BootInv => SelectedFacts
<1> SUFFICES ASSUME TypeInv, BootInv PROVE SelectedFacts
  OBVIOUS
<1>1. boot \in Slots /\ running \in Slots
      /\ \A s \in Slots : AfterReset[s] = IF state[s] = "pending" THEN "aborted" ELSE state[s]
  BY DEF TypeInv, AfterReset
<1>2. /\ \E n \in sound : HoldsIn(length, image[running], n)
      /\ \E n \in sound : HoldsIn(length, image[Selected], n)
  BY BootInvBootable DEF BootInv, RunningWhole, Bootable, Verifies, Holds, HoldsIn
<1>3. CASE restarting
  <2>1. boot = 1 - running /\ AfterReset[boot] = "new" /\ Verifies(image[boot])
    BY <1>1, <1>3 DEF BootInv, NextWhole, Slots
  <2>2. Selected = boot
    BY <2>1 DEF Selected
  <2>3. state[running] # "pending"
    BY <1>1, <2>1 DEF BootInv, Probation, Slots
  <2> QED
    BY <1>2, <1>3, <2>1, <2>2, <2>3 DEF SelectedFacts
<1>4. CASE ~restarting
  <2>1. CASE state[running] = "pending"
    <3>1. boot = running /\ AfterReset[boot] = "aborted"
      BY <1>1, <2>1 DEF BootInv, Probation
    <3> QED
      BY <1>2, <1>4, <2>1, <3>1 DEF Selected, SelectedFacts
  <2>2. CASE state[running] # "pending"
    <3>1. CASE boot = running
      <4>1. AfterReset[boot] # "aborted" /\ Verifies(image[boot])
        BY <1>1, <2>2, <3>1 DEF BootInv, BootRuns, RunningWhole
      <4> QED
        BY <1>2, <1>4, <2>2, <3>1, <4>1 DEF Selected, SelectedFacts
    <3>2. CASE boot # running
      <4>1. AfterReset[boot] = "aborted" /\ 1 - boot = running
        BY <1>1, <1>4, <3>2 DEF BootInv, BootRuns, Slots
      <4> QED
        BY <1>2, <1>4, <2>2, <4>1 DEF Selected, SelectedFacts
    <3> QED
      BY <3>1, <3>2
  <2> QED
    BY <2>1, <2>2
<1> QED
  BY <1>3, <1>4

LEMMA SelectedNext == TypeInv' /\ BootInv' => SelectedFacts'
BY SelectedSlot, PTL

(* What runs and what boots is untouched: so is the update. *)
LEMMA UpdateUntouched ==
  ASSUME TypeInv, BootInv, TypeInv', BootInv', UNCHANGED <<boot, state, running, restarting>>,
         sound \subseteq sound', \A n \in sound : length'[n] = length[n],
         image'[running] = image[running], image'[Selected] = image[Selected]
  PROVE  UNCHANGED <<Runs, Boots, Phase>>
<1>1. Selected' = Selected
  BY SelectedSlot, SelectedNext DEF SelectedFacts
<1>2. FirmwareOf(sound', length', image[running]) = Runs
  BY SelectedSlot, FirmwareStays DEF SelectedFacts, Runs
<1>3. FirmwareOf(sound', length', image[Selected]) = Boots
  BY SelectedSlot, FirmwareStays DEF SelectedFacts, Boots
<1>4. Runs' = Runs
  BY <1>2 DEF Runs
<1>5. Boots' = Boots
  BY <1>1, <1>3 DEF Boots
<1> QED
  BY <1>4, <1>5 DEF Phase

UpdateStep ==
  \/ UNCHANGED <<Runs, Boots, Phase>>
  \/ \E new \in Serials \cup {0} :
       Phase = "steady" /\ Phase' = "installed" /\ Boots' = new /\ Runs' = Runs
  \/ Phase = "installed" /\ Phase' = "trial" /\ Runs' = Boots /\ Boots' = Runs
  \/ Phase = "trial" /\ Phase' = "steady" /\ Boots' = Runs /\ Runs' = Runs
  \/ Phase = "trial" /\ Phase' = "steady" /\ Runs' = Boots /\ Boots' = Boots

LEMMA LastChunkUpdates ==
  ASSUME HandleInv, BootInv, HandleInv', BootInv', NEW t \in Listeners, NEW result \in Results,
         NEW fine \in BOOLEAN, LastChunk(t, result, fine)
  PROVE  UpdateStep
<1> DEFINE done == Activates(t, After(t, result), fine)
<1>1. /\ ~restarting /\ load # None
      /\ image' = After(t, result).image
      /\ boot' = IF done THEN NextSlot ELSE boot
      /\ state' = IF done THEN [state EXCEPT ![NextSlot] = "new"] ELSE state
      /\ restarting' = done
      /\ UNCHANGED <<sound, length, running>>
  BY DEF LastChunk, After
<1>2. image'[running] = image[running] /\ (~listener[t].active => image' = image)
  BY <1>1, AfterType
<1>3. done \in BOOLEAN /\ (done => listener[t].active)
  BY DEF Activates
<1> HIDE DEF done
<1>4. state[running] = "pending" => ~listener[t].active
  BY DEF BootInv, Probation
<1>5. CASE ~done
  <2>1. UNCHANGED <<boot, state, running, restarting>>
    BY <1>1, <1>3, <1>5 DEF HandleInv, TypeInv
  <2>2. image'[Selected] = image[Selected]
    BY <1>1, <1>2, <1>4, SelectedSlot, SelectedNext DEF SelectedFacts, HandleInv
  <2> QED
    BY <1>1, <1>2, <2>1, <2>2, UpdateUntouched DEF HandleInv, UpdateStep
<1>6. CASE done
  <2>1. Phase = "steady" /\ Phase' = "installed"
    BY <1>1, <1>3, <1>4, <1>6 DEF Phase
  <2>2. Runs' = Runs
    BY <1>1, <1>2 DEF Runs
  <2>3. Boots' \in Serials \cup {0}
    <3>1. PICK n \in sound' : HoldsIn(length', image'[Selected'], n)
      BY SelectedSlot, SelectedNext DEF SelectedFacts, HandleInv
    <3>2. Boots' = n
      BY <3>1, FirmwareIs DEF Boots
    <3> QED
      BY <3>1, <3>2 DEF HandleInv, TypeInv
  <2> QED
    BY <2>1, <2>2, <2>3 DEF UpdateStep
<1> QED
  BY <1>5, <1>6

LEMMA RebootUpdates ==
  ASSUME HandleInv, BootInv, HandleInv', BootInv', NEW fine \in BOOLEAN, Reboot(fine)
  PROVE  UpdateStep
<1>1. /\ running' = Selected
      /\ state' = [AfterReset EXCEPT ![Selected] = IF AfterReset[Selected] = "new" THEN "pending"
                                                    ELSE AfterReset[Selected]]
      /\ restarting' = FALSE
      /\ UNCHANGED <<image, sound, length, boot>>
  BY DEF Reboot
<1>2. /\ running \in Slots /\ Selected \in Slots
      /\ Selected = IF restarting \/ state[running] = "pending" THEN 1 - running ELSE running
      /\ restarting => boot = 1 - running /\ state[running] # "pending"
  BY SelectedSlot, SelectedNext DEF SelectedFacts, HandleInv, TypeInv, Slots
<1>3. /\ AfterReset[Selected] # "pending"
      /\ AfterReset[Selected] = "new" => restarting
      /\ restarting => AfterReset[Selected] = "new"
      /\ state'[Selected] = IF AfterReset[Selected] = "new" THEN "pending" ELSE AfterReset[Selected]
  BY <1>1, <1>2 DEF AfterReset, BootInv, NewIsNext, NextWhole
<1>4. state'[running'] = "pending" <=> restarting
  BY <1>1, <1>3
<1>5. Selected' = IF restarting THEN 1 - running' ELSE running'
  BY <1>1, <1>4, SelectedSlot, SelectedNext DEF SelectedFacts, HandleInv
<1>6. Runs' = Boots
  BY <1>1 DEF Runs, Boots
<1>7. Phase' = IF restarting THEN "trial" ELSE "steady"
  BY <1>1, <1>4 DEF Phase
<1>8. CASE restarting
  <2>1. Selected' = running
    BY <1>1, <1>2, <1>5, <1>8 DEF Slots
  <2>2. Boots' = Runs
    BY <1>1, <2>1 DEF Runs, Boots
  <2>3. Phase = "installed"
    BY <1>8 DEF Phase
  <2> QED
    BY <1>6, <1>7, <1>8, <2>2, <2>3 DEF UpdateStep
<1>9. CASE ~restarting
  <2>1. Selected' = Selected
    BY <1>1, <1>5, <1>9
  <2>2. Boots' = Boots
    BY <1>1, <2>1 DEF Boots
  <2>3. CASE state[running] = "pending"
    BY <1>6, <1>7, <1>9, <2>2, <2>3 DEF UpdateStep, Phase
  <2>4. CASE state[running] # "pending"
    <3>1. Boots = Runs
      BY <1>2, <1>9, <2>4 DEF Runs, Boots
    <3> QED
      BY <1>6, <1>7, <1>9, <2>2, <2>4, <3>1 DEF UpdateStep, Phase
  <2> QED
    BY <2>3, <2>4
<1> QED
  BY <1>8, <1>9

LEMMA NextUpdates ==
  ASSUME HandleInv, BootInv, RollbackShown, [Next]_vars
  PROVE  UpdateStep
<1>0. HandleInv' /\ BootInv'
  BY StepHandleInv, StepBootInv
<1>1. ASSUME UNCHANGED <<image, boot, state, running, restarting>>,
             sound \subseteq sound', \A n \in sound : length'[n] = length[n]
      PROVE  UpdateStep
  BY <1>0, <1>1, UpdateUntouched DEF HandleInv, UpdateStep
<1>2. CASE CommandListener
  <2>1. ASSUME NEW t \in Listeners, NEW len \in Lengths, NEW verifies \in BOOLEAN,
               NEW fine \in BOOLEAN, OtaStart(t, len, verifies, fine)
        PROVE  UpdateStep
    <3>1. sound \subseteq sound' /\ \A n \in sound : length'[n] = length[n]
      BY <2>1, OtaStartHandleInv
    <3> QED
      BY <1>1, <2>1, <3>1 DEF OtaStart, otadata
  <2>2. ASSUME NEW t \in Listeners, NEW len \in Lengths, PkgStart(t, len)
        PROVE  UpdateStep
    <3>1. sound \subseteq sound' /\ \A n \in sound : length'[n] = length[n]
      BY <2>2, PkgStartHandleInv
    <3> QED
      BY <1>1, <2>2, <3>1 DEF PkgStart, otadata
  <2>3. ASSUME NEW t \in Listeners, NEW result \in Results, Chunk(t, result)
        PROVE  UpdateStep
    <3>1. /\ ~restarting /\ load # None /\ image' = After(t, result).image
          /\ UNCHANGED <<sound, length, boot, state, running, restarting>>
      BY <2>3 DEF Chunk, After, otadata
    <3>2. image'[running] = image[running] /\ (~listener[t].active => image' = image)
      BY <3>1, AfterType
    <3>3. image'[Selected] = image[Selected]
      BY <3>1, <3>2, SelectedSlot, SelectedNext DEF SelectedFacts, HandleInv, BootInv, Probation
    <3> QED
      BY <1>0, <3>1, <3>2, <3>3, UpdateUntouched DEF HandleInv, UpdateStep
  <2>4. ASSUME NEW t \in Listeners, NEW result \in Results, NEW fine \in BOOLEAN,
               LastChunk(t, result, fine)
        PROVE  UpdateStep
    BY <1>0, <2>4, LastChunkUpdates
  <2>5. CASE Abandon
    BY <1>1, <2>5 DEF Abandon, otadata
  <2> QED
    BY <1>2, <2>1, <2>2, <2>3, <2>4, <2>5 DEF CommandListener
<1>3. CASE PhaseOver
  BY <1>1, <1>3 DEF PhaseOver, uploads, otadata
<1>4. ASSUME NEW fine \in BOOLEAN, MarkValid(fine) PROVE UpdateStep
  <2>1. /\ ~restarting /\ state[running] = "pending"
        /\ state' = IF fine THEN [state EXCEPT ![running] = "valid"] ELSE state
        /\ UNCHANGED <<image, sound, length, boot, running, restarting>>
    BY <1>4 DEF MarkValid, RollbackShown, uploads
  <2>2. CASE ~fine
    BY <1>1, <2>1, <2>2
  <2>3. CASE fine
    <3>1. state'[running'] = "valid" /\ running' = running
      BY <2>1, <2>3 DEF HandleInv, TypeInv
    <3>2. Selected' = running
      BY <1>0, <2>1, <3>1, SelectedSlot, SelectedNext DEF SelectedFacts, HandleInv
    <3>3. Runs' = Runs /\ Boots' = Runs
      BY <2>1, <3>2 DEF Runs, Boots
    <3>4. Phase = "trial" /\ Phase' = "steady"
      BY <2>1, <3>1 DEF Phase
    <3> QED
      BY <3>3, <3>4 DEF UpdateStep
  <2> QED
    BY <2>2, <2>3
<1>5. ASSUME NEW fine \in BOOLEAN, Reboot(fine) PROVE UpdateStep
  BY <1>0, <1>5, RebootUpdates
<1>6. CASE UNCHANGED vars
  BY <1>1, <1>6 DEF vars, uploads, otadata
<1> QED
  BY <1>2, <1>3, <1>4, <1>5, <1>6 DEF Next

LEMMA InitUpdates ==
  ASSUME Init
  PROVE  Runs \in Serials \cup {0} /\ Boots = Runs /\ Phase = "steady"
<1>1. TypeInv /\ BootInv /\ running = 0 /\ ~restarting /\ state[running] = "undefined"
      /\ sound = {0}
  BY InitHandleInv, InitBootInv DEF HandleInv, Init, Slots
<1>2. Selected = running
  BY <1>1, SelectedSlot DEF SelectedFacts
<1>3. PICK n \in sound : HoldsIn(length, image[running], n)
  BY <1>1, SelectedSlot DEF SelectedFacts
<1>4. Runs = n
  BY <1>3, FirmwareIs DEF Runs
<1> QED
  BY <1>1, <1>2, <1>3, <1>4 DEF Runs, Boots, Phase

(* An update takes effect in one step, is on trial once it runs, and is    *)
(* then confirmed or rolled back: Firmware implements Update, for every    *)
(* slot, every way of uploading and every fault                            *)
(* (command_listener.rs:745-806, heartbeat.rs:28-51).                      *)
THEOREM ImplementsUpdate == Spec => UpdateSpec
<1>1. /\ FirmwareIn(image[running]) = Runs
      /\ FirmwareIn(image[Selected]) = Boots
  BY DEF FirmwareIn, FirmwareOf, Verifies, Holds, HoldsIn, Runs, Boots
<1>2. /\ FirmwareIn(image[running])' = Runs'
      /\ FirmwareIn(image[Selected])' = Boots'
  BY DEF FirmwareIn, FirmwareOf, Verifies, Holds, HoldsIn, Runs, Boots
<1>3. Init => U!Init
  BY <1>1, InitUpdates DEF U!Init
<1>4. HandleInv /\ BootInv /\ RollbackShown /\ [Next]_vars => [U!Next]_(U!vars)
  <2> SUFFICES ASSUME HandleInv, BootInv, RollbackShown, [Next]_vars
               PROVE  [U!Next]_(U!vars)
    OBVIOUS
  <2>1. UpdateStep
    BY NextUpdates
  <2> QED
    BY <1>1, <1>2, <2>1
    DEF UpdateStep, U!Next, U!Install, U!TryOut, U!Confirm, U!RollBack, U!vars
<1> QED
  BY <1>3, <1>4, AlwaysBootInv, RollbackPhaseShown, PTL DEF Spec, UpdateSpec, U!Spec
=============================================================================
