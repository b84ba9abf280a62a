--------------------------- MODULE PackageProofs ---------------------------
(***************************************************************************)
(* Properties of Package for every partition and block size, chunk length, *)
(* set of lengths and bound on the environment.                            *)
(***************************************************************************)
EXTENDS Package, TLAPS

(* Rounding up to whole erase blocks loses nothing. *)
LEMMA RoundsUp ==
  ASSUME NEW len \in Nat
  PROVE  EraseLen(len) \in Nat /\ EraseLen(len) >= len
<1> DEFINE q == (len + EraseSize - 1) \div EraseSize
<1>1. EraseSize \in Nat /\ EraseSize > 0
  BY SizeAssumption
<1>2. q \in Int /\ EraseSize * q =< len + EraseSize - 1
                /\ len + EraseSize - 1 < EraseSize * q + EraseSize
  BY <1>1, SMTT(30)
<1>3. q * EraseSize = EraseSize * q
  BY <1>1, <1>2, SMT
<1>4. q * EraseSize \in Int
  BY <1>1, <1>2, SMT
<1> HIDE DEF q
<1>5. q * EraseSize >= len
  BY <1>1, <1>2, <1>3, <1>4
<1> QED
  BY <1>4, <1>5 DEF EraseLen, q

LEMMA EraseType ==
  ASSUME TypeOK, NEW len \in Nat, NEW fine \in BOOLEAN, Erase(len, fine)
  PROVE  flash' \in [Addresses -> Cells]
BY DEF TypeOK, Erase, Cells

LEMMA NewListenerType ==
  /\ NewListener \in Listener /\ ~NewListener.active
  /\ NewListener.buf = <<>> /\ NewListener.written = 0
BY DEF NewListener, Listener

LEMMA InitTypeOK == Init => TypeOK
<1> SUFFICES ASSUME Init PROVE TypeOK
  OBVIOUS
<1>1. env \in Environments
  BY BoundsAssumption DEF Init, Environments
<1>2. \A t \in Listeners : listener[t] = NewListener
  BY DEF Init
<1>3. \A t \in Listeners : Len(listener[t].buf) < ChunkLen
  <2>1. Len(<<>>) = 0 /\ 0 < ChunkLen
    BY SizeAssumption
  <2> QED
    BY <1>2, <2>1, NewListenerType
<1> QED
  BY <1>1, <1>2, <1>3, NewListenerType DEF Init, TypeOK, Cells

(***************************************************************************)
(* A byte of upload data.  What the listener holds once the byte is        *)
(* staged, and what a flush makes of it.                                   *)
(***************************************************************************)
Byte(t) == IF t = load.by THEN <<load.n, load.sent>> ELSE Foreign
Staged(t) == [listener[t] EXCEPT !.buf = Append(@, Byte(t))]
Last == load.pos + 1 = length[load.n]
Flushes(t) == Last \/ Len(Staged(t).buf) = ChunkLen
After(t, fine) == IF Flushes(t) THEN Flushed(Staged(t), fine) ELSE Staged(t)

(* Data in these terms. *)
LEMMA DataSteps ==
  ASSUME NEW t \in Listeners, NEW fine \in BOOLEAN, Data(t, fine)
  PROVE  /\ load # None
         /\ ~fine => env.faults < MaxFaults
         /\ env' = IF fine THEN env ELSE [env EXCEPT !.faults = @ + 1]
         /\ flash' = IF Flushes(t) THEN Programmed(Staged(t), fine) ELSE flash
         /\ listener' = [listener EXCEPT ![t] = [After(t, fine) EXCEPT !.active = @ /\ ~Last]]
         /\ load' = IF Last THEN None
                    ELSE [load EXCEPT !.pos = @ + 1, !.sent = IF t = load.by THEN @ + 1 ELSE @]
         /\ pkg_reload' = (pkg_reload \/ (Last /\ Writes(After(t, fine))))
         /\ unseen' = (~(Last /\ Writes(After(t, fine)))
                         /\ (unseen \/ (Flushes(t) /\ Writes(Staged(t)))))
         /\ UNCHANGED <<pkg_size, media, length>>
BY DEF Data, Byte, Staged, Last, Flushes, After

LEMMA StagedType ==
  ASSUME TypeOK, load # None, NEW t \in Listeners
  PROVE  /\ Byte(t) \in Bytes
         /\ Staged(t) \in Listener
         /\ Staged(t).active = listener[t].active
         /\ Staged(t).failed = listener[t].failed
         /\ Staged(t).written = listener[t].written
         /\ Staged(t).buf = Append(listener[t].buf, Byte(t))
         /\ Len(Staged(t).buf) = Len(listener[t].buf) + 1
         /\ Len(Staged(t).buf) =< ChunkLen
<1>1. listener[t] \in Listener /\ Len(listener[t].buf) < ChunkLen /\ load \in Upload
  BY DEF TypeOK
<1>2. Byte(t) \in Bytes
  BY <1>1 DEF Byte, Bytes, Upload
<1>3. listener[t].buf \in Seq(Bytes)
  BY <1>1 DEF Listener
<1>4. /\ Append(listener[t].buf, Byte(t)) \in Seq(Bytes)
      /\ Len(Append(listener[t].buf, Byte(t))) = Len(listener[t].buf) + 1
  BY <1>2, <1>3
<1>5. Len(listener[t].buf) + 1 =< ChunkLen
  BY <1>1, <1>3, SizeAssumption
<1> QED
  BY <1>1, <1>2, <1>4, <1>5 DEF Staged, Listener

LEMMA AfterType ==
  ASSUME TypeOK, load # None, NEW t \in Listeners, NEW fine \in BOOLEAN
  PROVE  After(t, fine) \in Listener /\ Len(After(t, fine).buf) < ChunkLen
<1>1. CASE Flushes(t)
  <2>1. Len(<<>>) = 0 /\ 0 < ChunkLen /\ <<>> \in Seq(Bytes)
    BY SizeAssumption
  <2>2. Staged(t).written + Len(Staged(t).buf) \in Nat
    BY StagedType DEF Listener
  <2>3. After(t, fine).buf = <<>> /\ After(t, fine) \in Listener
    BY <1>1, <2>1, <2>2, StagedType DEF After, Flushed, Writes, Listener
  <2> QED
    BY <2>1, <2>3
<1>2. CASE ~Flushes(t)
  BY <1>2, StagedType, SizeAssumption DEF After, Flushes, Listener
<1> QED
  BY <1>1, <1>2

LEMMA ProgrammedType ==
  ASSUME TypeOK, load # None, NEW t \in Listeners, NEW fine \in BOOLEAN
  PROVE  Programmed(Staged(t), fine) \in [Addresses -> Cells]
<1> DEFINE l == Staged(t)
<1>1. l \in Listener
  BY StagedType
<1>2. \A i \in l.written..(l.written + Len(l.buf) - 1) : l.buf[i - l.written + 1] \in Cells
  BY <1>1 DEF Listener, Cells
<1> HIDE DEF l
<1> QED
  BY <1>2 DEF TypeOK, Programmed, Cells, l

LEMMA CommandType ==
  ASSUME TypeOK, NEW fine \in BOOLEAN, Command(fine)
  PROVE  env' \in Environments /\ env.commands + 1 \in Serials
<1>1. /\ env \in Environments
      /\ env.commands + 1 \in 0..MaxCommands /\ env.commands + 1 \in Serials
      /\ ~fine => env.faults + 1 \in 0..MaxFaults
  BY BoundsAssumption DEF TypeOK, Command, Environments, Serials
<1>2. CASE fine
  <2>1. env' = [env EXCEPT !.commands = env.commands + 1, !.faults = env.faults]
    BY <1>2 DEF Command
  <2> QED
    BY <1>1, <2>1 DEF Environments
<1>3. CASE ~fine
  <2>1. env' = [env EXCEPT !.commands = env.commands + 1, !.faults = env.faults + 1]
    BY <1>3 DEF Command
  <2> QED
    BY <1>1, <1>3, <2>1 DEF Environments
<1> QED
  BY <1>2, <1>3

LEMMA FaultType ==
  ASSUME TypeOK, NEW fine \in BOOLEAN, ~fine => env.faults < MaxFaults,
         env' = IF fine THEN env ELSE [env EXCEPT !.faults = @ + 1]
  PROVE  env' \in Environments
<1>1. env \in Environments /\ (~fine => env.faults + 1 \in 0..MaxFaults)
  BY BoundsAssumption DEF TypeOK, Environments
<1> QED
  BY <1>1 DEF Environments

LEMMA RebootType ==
  ASSUME TypeOK, NEW fine \in BOOLEAN, Reboot(fine)
  PROVE  env' \in Environments
<1>1. /\ env \in Environments
      /\ env.reboots + 1 \in 0..MaxReboots
      /\ ~fine => env.faults + 1 \in 0..MaxFaults
  BY BoundsAssumption DEF TypeOK, Reboot, Environments
<1>2. CASE fine
  <2>1. env' = [env EXCEPT !.reboots = env.reboots + 1, !.faults = env.faults]
    BY <1>2 DEF Reboot
  <2> QED
    BY <1>1, <2>1 DEF Environments
<1>3. CASE ~fine
  <2>1. env' = [env EXCEPT !.reboots = env.reboots + 1, !.faults = env.faults + 1]
    BY <1>3 DEF Reboot
  <2> QED
    BY <1>1, <1>3, <2>1 DEF Environments
<1> QED
  BY <1>2, <1>3

LEMMA LoadPkgType ==
  ASSUME TypeOK, NEW old \in Serials \cup {None}, NEW fine \in BOOLEAN, LoadPkg(old, fine)
  PROVE  media' \in Serials \cup {None} /\ pkg_size' \in Nat /\ unseen' \in BOOLEAN
BY DEF TypeOK, LoadPkg, Stored

(* Every step keeps the variables within their types: one byte more never  *)
(* fills loader_buf without emptying it.                                   *)
LEMMA NextTypeOK == TypeOK /\ [Next]_vars => TypeOK'
<1> SUFFICES ASSUME TypeOK, [Next]_vars PROVE TypeOK'
  OBVIOUS
<1> USE DEF TypeOK
<1>1. ASSUME NEW t \in Listeners, NEW len \in Lengths, NEW fine \in BOOLEAN,
             PkgStart(t, len, fine)
      PROVE  TypeOK'
  <2>1. len \in Nat /\ EraseLen(len) \in Nat
    BY SizeAssumption, RoundsUp
  <2>2. env' \in Environments /\ env.commands + 1 \in Serials
    <3>1. Command(len <= Size => fine)
      BY <1>1 DEF PkgStart
    <3> QED
      BY <3>1, CommandType
  <2>3. flash' \in [Addresses -> Cells]
    BY <1>1, <2>1, EraseType DEF PkgStart
  <2>4. /\ Restarted(listener[t], len <= Size /\ fine) \in Listener
        /\ Restarted(listener[t], len <= Size /\ fine).buf = <<>>
    BY NewListenerType DEF Restarted, Listener
  <2>5. Len(<<>>) = 0 /\ 0 < ChunkLen
    BY SizeAssumption
  <2>6. listener' = [listener EXCEPT ![t] = Restarted(listener[t], len <= Size /\ fine)]
    BY <1>1 DEF PkgStart
  <2>7. /\ listener' \in [Listeners -> Listener]
        /\ \A u \in Listeners : Len(listener'[u].buf) < ChunkLen
    BY <2>4, <2>5, <2>6
  <2>8. load' \in Upload \cup {None}
    BY <1>1, <2>2 DEF PkgStart, Upload
  <2>9. length' \in [Serials -> Nat]
    BY <1>1, <2>1 DEF PkgStart
  <2>10. unseen' \in BOOLEAN /\ UNCHANGED <<pkg_reload, pkg_size, media>>
    BY <1>1 DEF PkgStart
  <2> QED
    BY <2>2, <2>3, <2>7, <2>8, <2>9, <2>10
<1>2. ASSUME NEW t \in Listeners, NEW fine \in BOOLEAN, Data(t, fine)
      PROVE  TypeOK'
  <2>1. load \in Upload
    BY <1>2, DataSteps
  <2>2. env' \in Environments
    BY <1>2, DataSteps, FaultType
  <2>3. flash' \in [Addresses -> Cells]
    BY <1>2, <2>1, DataSteps, ProgrammedType
  <2> DEFINE after == [After(t, fine) EXCEPT !.active = @ /\ ~Last]
  <2>4. after \in Listener /\ Len(after.buf) < ChunkLen
    BY <1>2, DataSteps, AfterType DEF Listener
  <2>5. listener' = [listener EXCEPT ![t] = after]
    BY <1>2, DataSteps
  <2> HIDE DEF after
  <2>6. /\ listener' \in [Listeners -> Listener]
        /\ \A u \in Listeners : Len(listener'[u].buf) < ChunkLen
    BY <2>4, <2>5
  <2>7. load' \in Upload \cup {None}
    <3>1. load.pos + 1 \in Nat /\ load.sent + 1 \in Nat /\ load.sent \in Nat
      BY <2>1 DEF Upload
    <3>2. CASE t = load.by /\ ~Last
      <4>1. load' = [load EXCEPT !.pos = load.pos + 1, !.sent = load.sent + 1]
        BY <1>2, <3>2, DataSteps
      <4> QED
        BY <2>1, <3>1, <4>1 DEF Upload
    <3>3. CASE t # load.by /\ ~Last
      <4>1. load' = [load EXCEPT !.pos = load.pos + 1, !.sent = load.sent]
        BY <1>2, <3>3, DataSteps
      <4> QED
        BY <2>1, <3>1, <4>1 DEF Upload
    <3>4. CASE Last
      BY <1>2, <3>4, DataSteps
    <3> QED
      BY <3>2, <3>3, <3>4
  <2> QED
    BY <1>2, <2>2, <2>3, <2>6, <2>7, DataSteps
<1>3. ASSUME NEW fine \in BOOLEAN, Factory(fine)
      PROVE  TypeOK'
  <2>1. env' \in Environments
    BY <1>3, CommandType DEF Factory
  <2>2. flash' \in [Addresses -> Cells]
    BY <1>3, EraseType, SizeAssumption DEF Factory
  <2> QED
    BY <1>3, <2>1, <2>2 DEF Factory
<1>4. CASE Abandon
  BY <1>4 DEF Abandon
<1>5. ASSUME NEW fine \in BOOLEAN, Frame(fine)
      PROVE  TypeOK'
  <2>1. env' \in Environments
    BY <1>5, FaultType DEF Frame
  <2>2. media' \in Serials \cup {None} /\ pkg_size' \in Nat /\ unseen' \in BOOLEAN
    BY <1>5, LoadPkgType DEF Frame
  <2> QED
    BY <1>5, <2>1, <2>2 DEF Frame
<1>6. ASSUME NEW fine \in BOOLEAN, Reboot(fine)
      PROVE  TypeOK'
  <2>1. env' \in Environments
    BY <1>6, RebootType
  <2>2. media' \in Serials \cup {None} /\ pkg_size' \in Nat /\ unseen' \in BOOLEAN
    BY <1>6, LoadPkgType DEF Reboot
  <2>3. Len(<<>>) = 0 /\ 0 < ChunkLen
    BY SizeAssumption
  <2>4. /\ listener' \in [Listeners -> Listener]
        /\ \A u \in Listeners : Len(listener'[u].buf) < ChunkLen
    BY <1>6, <2>3, NewListenerType DEF Reboot
  <2> QED
    BY <1>6, <2>1, <2>2, <2>4 DEF Reboot
<1>7. CASE IdleFrame \/ UNCHANGED vars
  BY <1>7 DEF IdleFrame, vars
<1> QED
  BY <1>1, <1>2, <1>3, <1>4, <1>5, <1>6, <1>7 DEF Next, CommandListener

(* The loader's buffer, which process_loader_data fills without a check,   *)
(* never overflows, and nothing else leaves its type.                      *)
THEOREM TypeCorrect == Spec => []TypeOK
<1> QED
  BY InitTypeOK, NextTypeOK, PTL DEF Spec

-----------------------------------------------------------------------------
(***************************************************************************)
(* What a single upload writes.  Besides WrittenInOrder: the parser never  *)
(* takes in more than was announced, and what the listener has staged      *)
(* continues what it has written.                                          *)
(***************************************************************************)
Behind == load # None => load.sent =< load.pos /\ load.pos < length[load.n]

StagedInOrder ==
  (load # None /\ load.pos = load.sent) =>
    LET l == listener[load.by]
    IN  Writes(l) =>
          /\ length[load.n] =< Size
          /\ \A k \in 1..Len(l.buf) : l.buf[k] = <<load.n, l.written + k - 1>>

OrderInv == Behind /\ StagedInOrder /\ WrittenInOrder

(* One more of an upload's own bytes, with every write so far done.        *)
LEMMA OwnByte ==
  ASSUME TypeOK, OrderInv, NEW t \in Listeners, NEW fine \in BOOLEAN, Data(t, fine),
         t = load.by, load.pos = load.sent, Writes(listener[t])
  PROVE  /\ Fits(Staged(t)) /\ Writes(Staged(t))
         /\ length[load.n] \in 1..Size
         /\ (Flushes(t) => fine) =>
              LET l == After(t, fine)
              IN  /\ Writes(l)
                  /\ l.written + Len(l.buf) = load.pos + 1
                  /\ Flushes(t) => l.buf = <<>>
                  /\ \A k \in 1..Len(l.buf) : l.buf[k] = <<load.n, l.written + k - 1>>
                  /\ \A j \in 0..(length[load.n] - 1) :
                       flash'[j] = IF j < l.written THEN <<load.n, j>> ELSE Erased
         /\ (Flushes(t) /\ ~fine) => ~Writes(After(t, fine))
<1> DEFINE n == load.n
           l == listener[t]
           s == Staged(t)
<1>1. /\ load # None /\ n \in Serials /\ load.pos \in Nat /\ load.pos < length[n]
      /\ length[n] \in Nat
  BY DataSteps DEF TypeOK, Upload, OrderInv, Behind
<1>2. /\ l \in Listener /\ l.written \in Nat /\ l.buf \in Seq(Bytes) /\ Len(l.buf) \in Nat
      /\ l.written + Len(l.buf) = load.pos
      /\ length[n] =< Size
      /\ \A k \in 1..Len(l.buf) : l.buf[k] = <<n, l.written + k - 1>>
      /\ \A j \in 0..(length[n] - 1) :
           flash[j] = IF j < l.written THEN <<n, j>> ELSE Erased
  BY <1>1 DEF TypeOK, OrderInv, StagedInOrder, WrittenInOrder, Listener
<1>3. /\ s \in Listener /\ s.written = l.written /\ Writes(s)
      /\ s.buf = Append(l.buf, <<n, load.pos>>) /\ Len(s.buf) = Len(l.buf) + 1
  BY <1>1, StagedType DEF Writes, Byte
<1> HIDE DEF s, l, n
<1>4. \A k \in 1..Len(s.buf) : s.buf[k] = <<n, s.written + k - 1>>
  BY <1>2, <1>3
<1>5. s.written + Len(s.buf) = load.pos + 1 /\ Fits(s)
  BY <1>1, <1>2, <1>3, SizeAssumption DEF Fits
<1>6. flash' = IF Flushes(t) THEN Programmed(s, fine) ELSE flash
  BY DataSteps DEF s
<1>7. After(t, fine) = IF Flushes(t) THEN Flushed(s, fine) ELSE s
  BY DEF After, s
<1>8. ASSUME Flushes(t), fine
      PROVE  LET a == After(t, fine)
             IN  /\ Writes(a) /\ a.written = load.pos + 1 /\ a.buf = <<>> /\ Len(a.buf) = 0
                 /\ \A j \in 0..(length[n] - 1) :
                      flash'[j] = IF j < a.written THEN <<n, j>> ELSE Erased
  <2>1. After(t, fine) = [s EXCEPT !.buf = <<>>, !.written = s.written + Len(s.buf)]
    BY <1>3, <1>5, <1>7, <1>8 DEF Flushed
  <2>2. /\ Writes(After(t, fine)) /\ After(t, fine).buf = <<>>
        /\ After(t, fine).written = load.pos + 1
    BY <1>3, <1>5, <2>1 DEF Writes, Listener
  <2>3. ASSUME NEW j \in 0..(length[n] - 1)
        PROVE  flash'[j] = IF j < load.pos + 1 THEN <<n, j>> ELSE Erased
    <3>1. j \in Addresses /\ j \in Nat
      BY <1>1, <1>2, SizeAssumption DEF Addresses
    <3>2. flash'[j] = IF j \in s.written..(s.written + Len(s.buf) - 1)
                        THEN (IF flash[j] = Erased THEN s.buf[j - s.written + 1] ELSE Garbled)
                        ELSE flash[j]
      BY <1>3, <1>5, <1>6, <1>8, <3>1 DEF Programmed
    <3>3. CASE j \in s.written..(s.written + Len(s.buf) - 1)
      <4>1. flash[j] = Erased /\ j < load.pos + 1
        <5>1. j \in 0..(length[n] - 1) /\ l.written =< j /\ j =< load.pos
          BY <1>1, <1>2, <1>3, <1>5, <3>1, <3>3
        <5>2. flash[j] = IF j < l.written THEN <<n, j>> ELSE Erased
          BY <1>2, <5>1
        <5>3. ~(j < l.written) /\ j < load.pos + 1
          BY <1>1, <1>2, <3>1, <5>1
        <5> QED
          BY <5>2, <5>3
      <4>2. j - s.written + 1 \in 1..Len(s.buf)
        BY <1>2, <1>3, <3>1, <3>3
      <4>3. s.buf[j - s.written + 1] = <<n, s.written + (j - s.written + 1) - 1>>
        BY <1>4, <4>2
      <4>4. s.written + (j - s.written + 1) - 1 = j
        BY <1>2, <1>3, <3>1
      <4> QED
        BY <3>2, <3>3, <4>1, <4>3, <4>4
    <3>4. CASE j \notin s.written..(s.written + Len(s.buf) - 1)
      BY <1>1, <1>2, <1>3, <1>5, <3>1, <3>2, <3>4
    <3> QED
      BY <3>3, <3>4
  <2> QED
    BY <2>2, <2>3
<1>9. ASSUME ~Flushes(t)
      PROVE  /\ After(t, fine) = s /\ flash' = flash
  BY <1>6, <1>7, <1>9
<1>10. (Flushes(t) /\ ~fine) => ~Writes(After(t, fine))
  BY <1>3, <1>7 DEF Flushed, Writes, Listener
<1>11. length[n] \in 1..Size
  BY <1>1, <1>2, SizeAssumption
<1> USE DEF n
<1>12. CASE Flushes(t) /\ fine
  <2> DEFINE a == After(t, fine)
  <2>1. /\ Writes(a) /\ a.written = load.pos + 1 /\ a.buf = <<>> /\ Len(a.buf) = 0
        /\ \A j \in 0..(length[n] - 1) :
             flash'[j] = IF j < a.written THEN <<n, j>> ELSE Erased
    BY <1>8, <1>12
  <2> HIDE DEF a
  <2>2. /\ a.written + Len(a.buf) = load.pos + 1
        /\ \A k \in 1..Len(a.buf) : a.buf[k] = <<n, a.written + k - 1>>
    BY <1>1, <2>1
  <2>3. Fits(Staged(t)) /\ Writes(Staged(t))
    BY <1>3, <1>5 DEF s
  <2> QED
    BY <1>11, <1>12, <2>1, <2>2, <2>3 DEF a
<1>13. CASE Flushes(t) /\ ~fine
  BY <1>3, <1>5, <1>10, <1>11, <1>13 DEF s
<1>14. CASE ~Flushes(t)
  BY <1>2, <1>3, <1>4, <1>5, <1>9, <1>11, <1>14 DEF s
<1> QED
  BY <1>12, <1>13, <1>14

LEMMA StepOrderInv == TypeOK /\ OrderInv /\ [Next]_vars => OrderInv'
<1> SUFFICES ASSUME TypeOK, OrderInv, [Next]_vars PROVE OrderInv'
  OBVIOUS
<1>1. ASSUME NEW t \in Listeners, NEW len \in Lengths, NEW fine \in BOOLEAN,
             PkgStart(t, len, fine)
      PROVE  OrderInv'
  <2> DEFINE n == env.commands + 1
             accepted == len <= Size /\ fine
  <2>1. /\ n \in Serials /\ len \in Nat \ {0} /\ length' = [length EXCEPT ![n] = len]
    <3>1. Command(len <= Size => fine)
      BY <1>1 DEF PkgStart
    <3> QED
      BY <1>1, <3>1, CommandType, SizeAssumption DEF PkgStart
  <2>2. length'[n] = len
    BY <2>1 DEF TypeOK
  <2>3. load' # None => /\ load'.by = t /\ load'.n = n /\ load'.pos = 0 /\ load'.sent = 0
    BY <1>1 DEF PkgStart
  <2>4. /\ Writes(listener'[t]) <=> accepted
        /\ listener'[t].written = 0 /\ listener'[t].buf = <<>>
    <3>1. listener'[t] = [NewListener EXCEPT !.active = accepted]
      BY <1>1 DEF TypeOK, PkgStart, Restarted
    <3> QED
      BY <3>1 DEF NewListener, Writes
  <2>5. accepted => \A j \in 0..(len - 1) : flash'[j] = Erased
    <3> SUFFICES ASSUME accepted, NEW j \in 0..(len - 1)
                 PROVE  flash'[j] = Erased
      OBVIOUS
    <3>1. flash' = [i \in Addresses |-> IF i < EraseLen(len) THEN Erased ELSE flash[i]]
      BY <1>1 DEF PkgStart, Erase
    <3>2. j \in Addresses /\ j < EraseLen(len)
      BY <2>1, RoundsUp, SizeAssumption DEF Addresses
    <3> QED
      BY <3>1, <3>2
  <2>6. Len(<<>>) = 0
    OBVIOUS
  <2> HIDE DEF n, accepted
  <2>7. Behind'
    BY <2>1, <2>2, <2>3 DEF Behind
  <2>8. StagedInOrder'
    BY <2>1, <2>2, <2>3, <2>4, <2>6 DEF StagedInOrder, accepted
  <2>9. WrittenInOrder'
    BY <2>1, <2>2, <2>3, <2>4, <2>5, <2>6 DEF WrittenInOrder
  <2> QED
    BY <2>7, <2>8, <2>9 DEF OrderInv
<1>2. ASSUME NEW t \in Listeners, NEW fine \in BOOLEAN, Data(t, fine)
      PROVE  OrderInv'
  <2> SUFFICES ASSUME ~Last PROVE OrderInv'
    BY <1>2, DataSteps DEF OrderInv, Behind, StagedInOrder, WrittenInOrder
  <2> DEFINE n == load.n
  <2>1. /\ load \in Upload /\ load # None /\ n \in Serials
        /\ load.pos \in Nat /\ load.sent \in Nat /\ length[n] \in Nat
        /\ load.sent =< load.pos /\ load.pos + 1 < length[n]
    <3>1. load # None /\ load \in Upload /\ length \in [Serials -> Nat]
      BY <1>2, DataSteps DEF TypeOK
    <3>2. n \in Serials /\ load.pos \in Nat /\ load.sent \in Nat /\ length[n] \in Nat
      BY <3>1 DEF Upload
    <3>3. load.sent =< load.pos /\ load.pos < length[n] /\ load.pos + 1 # length[n]
      BY <3>1 DEF OrderInv, Behind, Last
    <3> QED
      BY <3>1, <3>2, <3>3
  <2>2. /\ load' # None /\ load'.by = load.by /\ load'.n = n /\ load'.pos = load.pos + 1
        /\ load'.sent = IF t = load.by THEN load.sent + 1 ELSE load.sent
        /\ length' = length
    <3> DEFINE sent == IF t = load.by THEN load.sent + 1 ELSE load.sent
    <3>1. load' = [load EXCEPT !.pos = load.pos + 1, !.sent = sent] /\ length' = length
      BY <1>2, DataSteps
    <3>2. sent \in Nat /\ load.pos + 1 \in Nat
      BY <2>1
    <3> HIDE DEF sent
    <3>3. /\ load' # None /\ load'.by = load.by /\ load'.n = n /\ load'.pos = load.pos + 1
          /\ load'.sent = sent
      <4>1. [load EXCEPT !.pos = load.pos + 1, !.sent = sent] \in Upload
        BY <2>1, <3>2 DEF Upload
      <4>2. load' # None
        BY <3>1, <4>1, DistinctAssumption
      <4> QED
        BY <2>1, <3>1, <4>2 DEF Upload
    <3> QED
      BY <3>1, <3>3 DEF sent
  <2>3. Behind'
    BY <2>1, <2>2 DEF Behind
  <2>4. CASE load'.pos # load'.sent
    BY <2>3, <2>4 DEF OrderInv, StagedInOrder, WrittenInOrder
  <2>5. CASE load'.pos = load'.sent
    <3>1. t = load.by /\ load.pos = load.sent
      BY <2>1, <2>2, <2>5
    <3>2. /\ listener'[t] = [After(t, fine) EXCEPT !.active = @ /\ ~Last]
          /\ After(t, fine) \in Listener
      <4>1. listener' = [listener EXCEPT ![t] = [After(t, fine) EXCEPT !.active = @ /\ ~Last]]
        BY <1>2, DataSteps
      <4>2. listener \in [Listeners -> Listener] /\ After(t, fine) \in Listener
        BY <2>1, AfterType DEF TypeOK
      <4> QED
        BY <4>1, <4>2
    <3> DEFINE a == After(t, fine)
    <3>3. /\ Writes(listener'[t]) <=> Writes(a)
          /\ listener'[t].buf = a.buf /\ listener'[t].written = a.written
      BY <3>2 DEF Writes, Listener
    <3>4. Writes(a) => Writes(listener[t])
      <4>1. /\ Staged(t).active = listener[t].active /\ Staged(t).failed = listener[t].failed
            /\ Staged(t) \in Listener
        BY <2>1, StagedType
      <4>2. CASE Flushes(t)
        BY <4>1, <4>2 DEF After, Flushed, Writes, Listener
      <4>3. CASE ~Flushes(t)
        BY <4>1, <4>3 DEF After, Writes
      <4> QED
        BY <4>2, <4>3
    <3>5. Writes(a) =>
            /\ length[n] =< Size
            /\ a.written + Len(a.buf) = load.pos + 1
            /\ \A k \in 1..Len(a.buf) : a.buf[k] = <<n, a.written + k - 1>>
            /\ \A j \in 0..(length[n] - 1) :
                 flash'[j] = IF j < a.written THEN <<n, j>> ELSE Erased
      BY <1>2, <3>1, <3>4, OwnByte
    <3> HIDE DEF a
    <3>6. StagedInOrder'
      BY <2>2, <3>1, <3>3, <3>5 DEF StagedInOrder
    <3>7. WrittenInOrder'
      BY <2>2, <3>1, <3>3, <3>5 DEF WrittenInOrder
    <3> QED
      BY <2>3, <3>6, <3>7 DEF OrderInv
  <2> QED
    BY <2>4, <2>5
<1>3. ASSUME NEW fine \in BOOLEAN, Factory(fine)
      PROVE  OrderInv'
  BY <1>3 DEF Factory, OrderInv, Behind, StagedInOrder, WrittenInOrder
<1>4. CASE Abandon
  BY <1>4 DEF Abandon, OrderInv, Behind, StagedInOrder, WrittenInOrder
<1>5. ASSUME NEW fine \in BOOLEAN, Frame(fine)
      PROVE  OrderInv'
  BY <1>5 DEF Frame, OrderInv, Behind, StagedInOrder, WrittenInOrder
<1>6. ASSUME NEW fine \in BOOLEAN, Reboot(fine)
      PROVE  OrderInv'
  BY <1>6 DEF Reboot, OrderInv, Behind, StagedInOrder, WrittenInOrder
<1>7. CASE IdleFrame \/ UNCHANGED vars
  BY <1>7 DEF IdleFrame, vars, OrderInv, Behind, StagedInOrder, WrittenInOrder
<1> QED
  BY <1>1, <1>2, <1>3, <1>4, <1>5, <1>6, <1>7 DEF Next, CommandListener

LEMMA InitOrderInv == Init => OrderInv
BY DEF Init, OrderInv, Behind, StagedInOrder, WrittenInOrder

(* What an upload has flushed is in flash in order, and the rest of its    *)
(* place is erased, whatever the other transport and the faults do.        *)
THEOREM UploadsInOrder == Spec => []WrittenInOrder
<1>1. Init => TypeOK /\ OrderInv
  BY InitTypeOK, InitOrderInv
<1>2. TypeOK /\ OrderInv /\ [Next]_vars => (TypeOK /\ OrderInv)'
  BY NextTypeOK, StepOrderInv
<1>3. OrderInv => WrittenInOrder
  BY DEF OrderInv
<1> QED
  BY <1>1, <1>2, <1>3, PTL DEF Spec

(* Faults and restarts show in env. *)
LEMMA FaultCounted ==
  ASSUME TypeOK, NEW u \in Listeners, NEW fine \in BOOLEAN, Data(u, fine), ~fine
  PROVE  env' # env
<1>1. env' = [env EXCEPT !.faults = env.faults + 1]
  BY DataSteps
<1>2. env.faults \in Nat /\ env'.faults = env.faults + 1
  BY <1>1 DEF TypeOK, Environments
<1> QED
  BY <1>2

LEMMA RebootCounted ==
  ASSUME TypeOK, NEW fine \in BOOLEAN, Reboot(fine)
  PROVE  env' # env
<1>1. env \in Environments /\ env.reboots + 1 # env.reboots
  BY DEF TypeOK, Environments
<1>2. env'.reboots = env.reboots + 1
  <2>1. CASE fine
    <3>1. env' = [env EXCEPT !.reboots = env.reboots + 1, !.faults = env.faults]
      BY <2>1 DEF Reboot
    <3> QED
      BY <1>1, <3>1 DEF Environments
  <2>2. CASE ~fine
    <3>1. env' = [env EXCEPT !.reboots = env.reboots + 1, !.faults = env.faults + 1]
      BY <2>2 DEF Reboot
    <3> QED
      BY <1>1, <3>1 DEF Environments
  <2> QED
    BY <2>1, <2>2
<1> QED
  BY <1>1, <1>2

(* An upload that ends with every byte its own and no write failed is      *)
(* whole in flash, and nodem_task is told: process_loader_data and _end    *)
(* between them skip no byte and no call.                                  *)
LEMMA StepUploadSucceeds ==
  ASSUME TypeOK, OrderInv, [Next]_vars, NEW t \in Listeners, NEW n \in Serials,
         load # None, load.by = t, load.n = n, load.pos = load.sent,
         Writes(listener[t]), ~listener'[t].active, env' = env
  PROVE  Intact(n)' /\ pkg_reload'
<1>0. listener[t].active /\ env \in Environments
  BY DEF Writes, TypeOK
<1>1. ASSUME NEW u \in Listeners, NEW fine \in BOOLEAN, Data(u, fine)
      PROVE  Intact(n)' /\ pkg_reload'
  <2>1. fine
    BY <1>1, FaultCounted
  <2> DEFINE a == After(u, fine)
  <2>2. listener' = [listener EXCEPT ![u] = [a EXCEPT !.active = @ /\ ~Last]]
    BY <1>1, DataSteps
  <2>3. u = t
    BY <1>0, <2>2 DEF TypeOK
  <2>4. a \in Listener
    BY <1>1, AfterType
  <2>5. /\ Writes(a) /\ length[n] \in 1..Size
        /\ a.written + Len(a.buf) = load.pos + 1
        /\ Flushes(u) => a.buf = <<>>
        /\ \A j \in 0..(length[n] - 1) :
             flash'[j] = IF j < a.written THEN <<n, j>> ELSE Erased
    BY <1>1, <2>1, <2>3, OwnByte
  <2> HIDE DEF a
  <2>6. Last
    <3>1. listener'[t].active = (a.active /\ ~Last)
      BY <2>2, <2>3, <2>4 DEF TypeOK, Listener
    <3> QED
      BY <2>5, <3>1 DEF Writes
  <2>7. Len(<<>>) = 0
    OBVIOUS
  <2>8. a.written = length[n]
    BY <2>4, <2>5, <2>6, <2>7 DEF Last, Flushes, Listener
  <2>9. length' = length /\ pkg_reload'
    <3>1. Data(u, fine)
      BY <1>1
    <3>2. pkg_reload' = (pkg_reload \/ (Last /\ Writes(After(u, fine))))
      BY <3>1, DataSteps
    <3>3. length' = length
      BY <3>1, DataSteps
    <3> QED
      BY <2>5, <2>6, <3>2, <3>3 DEF a
  <2>10. \A j \in 0..(length[n] - 1) : j < a.written
    BY <2>5, <2>8
  <2>11. \A j \in 0..(length[n] - 1) : flash'[j] = <<n, j>>
    BY <2>5, <2>10
  <2> QED
    BY <2>5, <2>9, <2>11 DEF Intact
<1>2. ASSUME NEW fine \in BOOLEAN, Reboot(fine)
      PROVE  FALSE
  BY <1>2, RebootCounted
<1>3. CASE Abandon \/ IdleFrame \/ UNCHANGED vars \/ \E fine \in BOOLEAN : Frame(fine)
  BY <1>0, <1>3 DEF Abandon, IdleFrame, Frame, vars
<1>4. CASE \E fine \in BOOLEAN : Factory(fine)
  BY <1>4 DEF Factory
<1>5. CASE \E u \in Listeners, len \in Lengths, fine \in BOOLEAN : PkgStart(u, len, fine)
  BY <1>5 DEF PkgStart
<1> QED
  BY <1>1, <1>2, <1>3, <1>4, <1>5 DEF Next, CommandListener

THEOREM UploadsSucceed == Spec => UploadSucceeds
<1>1. Init => TypeOK /\ OrderInv
  BY InitTypeOK, InitOrderInv
<1>2. TypeOK /\ OrderInv /\ [Next]_vars => (TypeOK /\ OrderInv)'
  BY NextTypeOK, StepOrderInv
<1>3. TypeOK /\ OrderInv /\ [Next]_vars =>
        [\A t \in Listeners, n \in Serials :
           (/\ load # None /\ load.by = t /\ load.n = n /\ load.pos = load.sent
            /\ Writes(listener[t]) /\ ~listener'[t].active /\ env' = env)
             => (Intact(n)' /\ pkg_reload')]_vars
  BY StepUploadSucceeds
<1> QED
  BY <1>1, <1>2, <1>3, PTL DEF Spec, UploadSucceeds

-----------------------------------------------------------------------------
(***************************************************************************)
(* What is counted as loaded.                                              *)
(***************************************************************************)
LiveInv ==
  /\ \A m \in Serials : m > env.commands => length[m] = 0
  /\ pkg_size > 0 => media \in Serials /\ media =< env.commands
  /\ LoadedIsStored

(* A load counts a package only if it is there. *)
LEMMA LoadedIntact ==
  ASSUME TypeOK, LiveInv, NEW old, NEW fine, LoadPkg(old, fine)
  PROVE  pkg_size' > 0 => media' \in Stored /\ media' \in Serials /\ media' =< env.commands
<1> SUFFICES ASSUME pkg_size' > 0 PROVE media' \in Stored /\ media' =< env.commands
  BY DEF Stored
<1>1. media' \in Stored
  BY DEF LoadPkg
<1>2. media' \in Serials /\ length[media'] # 0
  BY <1>1 DEF Stored, Intact
<1>3. env.commands \in Int /\ media' \in Int
  BY <1>2 DEF TypeOK, Environments, Serials
<1> QED
  BY <1>1, <1>2, <1>3 DEF LiveInv

LEMMA StepLiveInv == TypeOK /\ LiveInv /\ [Next]_vars => LiveInv'
<1> SUFFICES ASSUME TypeOK, LiveInv, [Next]_vars PROVE LiveInv'
  OBVIOUS
<1>0. /\ env.commands \in Nat /\ \A m \in Serials : m \in Nat
      /\ length \in [Serials -> Nat]
  BY DEF TypeOK, Environments, Serials
<1>1. ASSUME NEW t \in Listeners, NEW len \in Lengths, NEW fine \in BOOLEAN,
             PkgStart(t, len, fine)
      PROVE  LiveInv'
  <2> DEFINE n == env.commands + 1
  <2>1. /\ env'.commands = n /\ length' = [length EXCEPT ![n] = len]
        /\ UNCHANGED <<pkg_reload, pkg_size, media>>
        /\ unseen' = (unseen \/ len <= Size)
        /\ len <= Size \/ flash' = flash
    BY <1>1 DEF PkgStart, Command, TypeOK, Environments
  <2>2. \A m \in Serials : m # n => length'[m] = length[m]
    BY <1>0, <2>1
  <2>3. \A m \in Serials : m > env'.commands => length'[m] = 0
    BY <1>0, <2>1, <2>2 DEF LiveInv
  <2>4. pkg_size' > 0 => media' \in Serials /\ media' =< env'.commands /\ media # n
    BY <1>0, <2>1 DEF LiveInv
  <2>5. LoadedIsStored'
    <3> SUFFICES ASSUME pkg_size > 0, ~unseen', flash' = flash, ~pkg_reload
                 PROVE  Intact(media)'
      BY <2>1 DEF LoadedIsStored, TypeOK
    <3>1. Intact(media)
      BY <2>1 DEF LiveInv, LoadedIsStored
    <3>2. length'[media] = length[media] /\ media' = media
      BY <2>1, <2>2, <2>4
    <3> QED
      BY <3>1, <3>2 DEF Intact
  <2> QED
    BY <2>3, <2>4, <2>5 DEF LiveInv
<1>2. ASSUME NEW t \in Listeners, NEW fine \in BOOLEAN, Data(t, fine)
      PROVE  LiveInv'
  <2>1. env'.commands = env.commands
    BY <1>2 DEF Data, TypeOK, Environments
  <2>2. UNCHANGED <<pkg_size, media, length>>
    BY <1>2 DEF Data
  <2>3. LoadedIsStored'
    <3> DEFINE after == Writes(After(t, fine))
    <3> SUFFICES ASSUME pkg_size > 0, ~pkg_reload', ~unseen' PROVE Intact(media)'
      BY <2>2 DEF LoadedIsStored
    <3>1. /\ pkg_reload' = (pkg_reload \/ (Last /\ after))
          /\ unseen' = (~(Last /\ after) /\ (unseen \/ (Flushes(t) /\ Writes(Staged(t)))))
      BY <1>2, DataSteps
    <3>2. ~pkg_reload /\ ~unseen /\ ~(Flushes(t) /\ Writes(Staged(t)))
      BY <3>1 DEF TypeOK
    <3>3. flash' = flash
      <4>1. flash' = IF Flushes(t) THEN Programmed(Staged(t), fine) ELSE flash
        BY <1>2, DataSteps
      <4>2. ~Writes(Staged(t)) => Programmed(Staged(t), fine) = flash
        BY DEF Programmed, TypeOK
      <4> QED
        BY <3>2, <4>1, <4>2
    <3>4. Intact(media)
      BY <3>2 DEF LiveInv, LoadedIsStored
    <3> QED
      BY <2>2, <3>3, <3>4 DEF Intact
  <2> QED
    BY <2>1, <2>2, <2>3 DEF LiveInv
<1>3. ASSUME NEW fine \in BOOLEAN, Factory(fine)
      PROVE  LiveInv'
  <2>1. env'.commands = env.commands + 1
    BY <1>3 DEF Factory, Command, TypeOK, Environments
  <2>2. /\ UNCHANGED <<pkg_size, media, length>>
        /\ pkg_reload' \/ unseen'
    BY <1>3 DEF Factory
  <2> QED
    BY <1>0, <2>1, <2>2 DEF LiveInv, LoadedIsStored
<1>4. ASSUME NEW old, NEW fine \in BOOLEAN, LoadPkg(old, fine),
             UNCHANGED <<flash, length>>, env'.commands = env.commands
      PROVE  LiveInv'
  <2>1. LoadedIsStored'
    <3>1. pkg_size' > 0 => Intact(media')
      BY <1>4, LoadedIntact DEF Stored
    <3>2. Intact(media') => Intact(media)'
      BY <1>4 DEF Intact
    <3> QED
      BY <3>1, <3>2 DEF LoadedIsStored
  <2> QED
    BY <1>4, <2>1, LoadedIntact DEF LiveInv
<1>5. ASSUME NEW fine \in BOOLEAN, Frame(fine) \/ Reboot(fine)
      PROVE  LiveInv'
  <2>1. env'.commands = env.commands
    BY <1>5 DEF Frame, Reboot, TypeOK, Environments
  <2> QED
    BY <1>4, <1>5, <2>1 DEF Frame, Reboot
<1>6. CASE Abandon \/ IdleFrame \/ UNCHANGED vars
  BY <1>6 DEF Abandon, IdleFrame, vars, LiveInv, LoadedIsStored, Intact
<1> QED
  BY <1>1, <1>2, <1>3, <1>5, <1>6 DEF Next, CommandListener

LEMMA InitLiveInv == Init => LiveInv
BY DEF Init, LiveInv, LoadedIsStored

(* "#stat" counts no package that is gone without nodem_task knowing, or   *)
(* an upload or a failure being behind it.                                 *)
THEOREM LoadedPackagesStored == Spec => []LoadedIsStored
<1>1. Init => TypeOK /\ LiveInv
  BY InitTypeOK, InitLiveInv
<1>2. TypeOK /\ LiveInv /\ [Next]_vars => (TypeOK /\ LiveInv)'
  BY NextTypeOK, StepLiveInv
<1>3. LiveInv => LoadedIsStored
  BY DEF LiveInv
<1> QED
  BY <1>1, <1>2, <1>3, PTL DEF Spec

-----------------------------------------------------------------------------
(***************************************************************************)
(* When a package becomes whole.  A byte of an upload is in the buffer of  *)
(* the listener the upload was announced to, or in flash, only once it was *)
(* sent; the last byte is never left in a buffer; and once it is in flash, *)
(* no buffer holds another byte of that upload.                            *)
(***************************************************************************)
StagedSent ==
  \A t \in Listeners : \A k \in 1..Len(listener[t].buf) : \A m \in Serials, j \in Nat :
    listener[t].buf[k] = <<m, j>> =>
      /\ m =< env.commands /\ j + 1 < length[m]
      /\ (load # None /\ load.n = m) => (t = load.by /\ j < load.sent)

StoredSent ==
  \A i \in Addresses, m \in Serials, j \in Nat :
    flash[i] = <<m, j>> =>
      /\ m =< env.commands
      /\ (load # None /\ load.n = m) => j < load.sent

LastIsLast ==
  \A i \in Addresses, m \in Serials, j \in Nat :
    (flash[i] = <<m, j>> /\ j + 1 = length[m]) =>
      \A t \in Listeners : \A k \in 1..Len(listener[t].buf), h \in Nat :
        listener[t].buf[k] # <<m, h>>

Announced == load # None => load.n =< env.commands

WholeInv == Announced /\ Behind /\ StagedSent /\ StoredSent /\ LastIsLast /\ StoredIsLoaded

(* What is in a buffer with one more byte. *)
LEMMA AppendElement ==
  ASSUME NEW q \in Seq(Bytes), NEW e \in Bytes, NEW k \in 1..Len(Append(q, e))
  PROVE  (\E h \in 1..Len(q) : q[h] = Append(q, e)[k]) \/ e = Append(q, e)[k]
<1>1. Len(q) \in Nat /\ k \in 1..(Len(q) + 1)
  OBVIOUS
<1>2. CASE k = Len(q) + 1
  BY <1>2
<1>3. CASE k \in 1..Len(q)
  <2>1. Append(q, e)[k] = q[k]
    BY <1>3
  <2> QED
    BY <1>3, <2>1
<1> QED
  BY <1>1, <1>2, <1>3

(* A flush puts a byte where it was not only out of the buffer. *)
LEMMA ProgrammedByte ==
  ASSUME TypeOK, load # None, NEW t \in Listeners, NEW fine \in BOOLEAN,
         NEW i \in Addresses, NEW m \in Serials, NEW j \in Nat,
         flash' = Programmed(Staged(t), fine), flash'[i] = <<m, j>>
  PROVE  \/ flash[i] = <<m, j>>
         \/ /\ Writes(Flushed(Staged(t), fine))
            /\ \/ \E k \in 1..Len(listener[t].buf) : listener[t].buf[k] = <<m, j>>
               \/ Byte(t) = <<m, j>>
<1> DEFINE s == Staged(t)
<1>1. /\ s \in Listener /\ s.buf = Append(listener[t].buf, Byte(t))
      /\ listener[t].buf \in Seq(Bytes) /\ Len(s.buf) = Len(listener[t].buf) + 1
  BY StagedType DEF TypeOK, Listener
<1> HIDE DEF s
<1>2. Garbled # <<m, j>>
  BY DistinctAssumption DEF Bytes
<1>4. Byte(t) \in Bytes
  BY StagedType
<1>3. CASE flash[i] # <<m, j>>
  <2>1. /\ Writes(s) /\ Fits(s) /\ fine
        /\ i \in s.written..(s.written + Len(s.buf) - 1)
        /\ s.buf[i - s.written + 1] = <<m, j>>
    BY <1>2, <1>3 DEF Programmed, s
  <2>2. i - s.written + 1 \in 1..Len(s.buf)
    BY <1>1, <2>1 DEF Listener, Addresses
  <2>3. \/ \E k \in 1..Len(listener[t].buf) : listener[t].buf[k] = <<m, j>>
        \/ Byte(t) = <<m, j>>
    <3>1. i - s.written + 1 \in 1..Len(Append(listener[t].buf, Byte(t)))
      BY <1>1, <2>2
    <3>2. Append(listener[t].buf, Byte(t))[i - s.written + 1] = <<m, j>>
      BY <1>1, <2>1
    <3> QED
      BY <1>1, <1>4, <3>1, <3>2, AppendElement
  <2>4. Writes(Flushed(s, fine))
    BY <1>1, <2>1 DEF Flushed, Writes, Listener
  <2> QED
    BY <2>3, <2>4 DEF s
<1> QED
  BY <1>3

(* One byte of upload data. *)
LEMMA DataWholeInv ==
  ASSUME TypeOK, WholeInv, NEW t \in Listeners, NEW fine \in BOOLEAN, Data(t, fine)
  PROVE  StagedSent' /\ StoredSent' /\ LastIsLast' /\ StoredIsLoaded'
<1> DEFINE n == load.n
           a == After(t, fine)
<1>1. /\ load \in Upload /\ load # None /\ n \in Serials
      /\ load.pos \in Nat /\ load.sent \in Nat /\ length[n] \in Nat
      /\ load.sent =< load.pos /\ load.pos < length[n]
      /\ env.commands \in Nat /\ length \in [Serials -> Nat]
  <2>1. load # None /\ load \in Upload /\ length \in [Serials -> Nat]
    BY DataSteps DEF TypeOK
  <2> QED
    BY <2>1 DEF Upload, TypeOK, Environments, WholeInv, Behind
<1>2. /\ flash' = IF Flushes(t) THEN Programmed(Staged(t), fine) ELSE flash
      /\ pkg_reload' = (pkg_reload \/ (Last /\ Writes(a)))
      /\ unseen' = (~(Last /\ Writes(a)) /\ (unseen \/ (Flushes(t) /\ Writes(Staged(t)))))
      /\ UNCHANGED <<pkg_size, media, length>>
      /\ load' = IF Last THEN None
                 ELSE [load EXCEPT !.pos = @ + 1, !.sent = IF t = load.by THEN @ + 1 ELSE @]
  BY DataSteps
<1>3. env'.commands = env.commands
  BY DEF Data, TypeOK, Environments
<1>4. load' # None => /\ ~Last /\ load'.n = n /\ load'.by = load.by
                      /\ load'.sent = IF t = load.by THEN load.sent + 1 ELSE load.sent
  <2> DEFINE sent == IF t = load.by THEN load.sent + 1 ELSE load.sent
  <2>1. ~Last => load' = [load EXCEPT !.pos = load.pos + 1, !.sent = sent]
    BY <1>2
  <2> HIDE DEF sent
  <2>2. ~Last => load'.n = n /\ load'.by = load.by /\ load'.sent = sent
    BY <1>1, <2>1 DEF Upload
  <2> QED
    BY <1>2, <2>2 DEF sent
<1>5. /\ \A u \in Listeners : u # t => listener'[u].buf = listener[u].buf
      /\ listener'[t].buf = a.buf
  <2>1. listener' = [listener EXCEPT ![t] = [a EXCEPT !.active = @ /\ ~Last]]
    BY DataSteps
  <2>2. listener \in [Listeners -> Listener] /\ a \in Listener
    BY <1>1, AfterType DEF TypeOK
  <2> QED
    BY <2>1, <2>2 DEF Listener
<1>6. a.buf = IF Flushes(t) THEN <<>> ELSE Append(listener[t].buf, Byte(t))
  <2>1. Staged(t).buf = Append(listener[t].buf, Byte(t)) /\ Staged(t) \in Listener
    BY <1>1, StagedType
  <2> QED
    BY <2>1 DEF After, Flushed, Listener
<1>7. listener[t].buf \in Seq(Bytes) /\ Len(<<>>) = 0
  BY DEF TypeOK, Listener
<1>8. ASSUME NEW m \in Serials, NEW j \in Nat, Byte(t) = <<m, j>>
      PROVE  t = load.by /\ m = n /\ j = load.sent
  BY <1>8, DistinctAssumption DEF Byte
<1> HIDE DEF n, a
<1>9. (* what the buffers hold next they hold now, or it is the new byte *)
      ASSUME NEW u \in Listeners, NEW k \in 1..Len(listener'[u].buf),
             NEW m \in Serials, NEW j \in Nat, listener'[u].buf[k] = <<m, j>>
      PROVE  \/ \E h \in 1..Len(listener[u].buf) : listener[u].buf[h] = <<m, j>>
             \/ u = t /\ ~Flushes(t) /\ Byte(t) = <<m, j>>
  <2>1. CASE u # t
    BY <1>5, <1>9, <2>1
  <2>2. CASE u = t
    <3>1. CASE Flushes(t)
      <4>1. Len(listener'[u].buf) = 0
        BY <1>5, <1>6, <1>7, <2>2, <3>1
      <4> QED
        BY <1>9, <4>1
    <3>2. CASE ~Flushes(t)
      <4>1. listener'[u].buf = Append(listener[t].buf, Byte(t))
        BY <1>5, <1>6, <2>2, <3>2
      <4>2. Byte(t) \in Bytes
        BY <1>1, StagedType
      <4> QED
        <5>1. k \in 1..Len(Append(listener[t].buf, Byte(t)))
          BY <4>1
        <5>2. Append(listener[t].buf, Byte(t))[k] = <<m, j>>
          BY <1>9, <4>1
        <5> QED
          <6>1. \/ \E h \in 1..Len(listener[t].buf) : listener[t].buf[h] = <<m, j>>
                \/ Byte(t) = <<m, j>>
            BY <1>7, <4>2, <5>1, <5>2, AppendElement
          <6> QED
            BY <2>2, <3>2, <6>1
    <3> QED
      BY <3>1, <3>2
  <2> QED
    BY <2>1, <2>2
<1>10. StagedSent'
  <2> SUFFICES ASSUME NEW u \in Listeners, NEW k \in 1..Len(listener'[u].buf),
                      NEW m \in Serials, NEW j \in Nat, listener'[u].buf[k] = <<m, j>>
               PROVE  /\ m =< env'.commands /\ j + 1 < length'[m]
                      /\ (load' # None /\ load'.n = m) => (u = load'.by /\ j < load'.sent)
    BY DEF StagedSent
  <2>1. CASE \E h \in 1..Len(listener[u].buf) : listener[u].buf[h] = <<m, j>>
    <3>1. /\ m =< env.commands /\ j + 1 < length[m]
          /\ load.n = m => (u = load.by /\ j < load.sent)
      BY <1>1, <2>1 DEF WholeInv, StagedSent
    <3> QED
      BY <1>1, <1>2, <1>3, <1>4, <3>1 DEF n
  <2>2. CASE u = t /\ ~Flushes(t) /\ Byte(t) = <<m, j>>
    <3>1. t = load.by /\ m = n /\ j = load.sent /\ ~Last
      BY <1>8, <2>2 DEF Flushes
    <3>2. m =< env.commands
      BY <1>1, <3>1 DEF WholeInv, Announced, n
    <3>3. j + 1 < length[m]
      BY <1>1, <3>1 DEF Last, n
    <3> QED
      BY <1>1, <1>2, <1>3, <1>4, <2>2, <3>1, <3>2, <3>3
  <2> QED
    BY <1>9, <2>1, <2>2
<1>11. (* what flash holds next it holds now, or a buffer did *)
      ASSUME NEW i \in Addresses, NEW m \in Serials, NEW j \in Nat, flash'[i] = <<m, j>>
      PROVE  \/ flash[i] = <<m, j>>
             \/ /\ Flushes(t) /\ Writes(a)
                /\ \/ \E k \in 1..Len(listener[t].buf) : listener[t].buf[k] = <<m, j>>
                   \/ Byte(t) = <<m, j>>
  <2>1. CASE Flushes(t)
    BY <1>1, <1>2, <1>11, <2>1, ProgrammedByte DEF After, a
  <2>2. CASE ~Flushes(t)
    BY <1>2, <1>11, <2>2
  <2> QED
    BY <2>1, <2>2
<1>12. ASSUME NEW i \in Addresses, NEW m \in Serials, NEW j \in Nat,
              flash'[i] = <<m, j>>, load.n = m
       PROVE  j < load.sent \/ (t = load.by /\ j = load.sent)
  <2>1. CASE flash[i] = <<m, j>>
    BY <1>1, <1>12, <2>1 DEF WholeInv, StoredSent
  <2>2. CASE \E k \in 1..Len(listener[t].buf) : listener[t].buf[k] = <<m, j>>
    BY <1>1, <1>12, <2>2 DEF WholeInv, StagedSent
  <2>3. CASE Byte(t) = <<m, j>>
    BY <1>8, <2>3
  <2> QED
    BY <1>11, <1>12, <2>1, <2>2, <2>3
<1>13. StoredSent'
  <2> SUFFICES ASSUME NEW i \in Addresses, NEW m \in Serials, NEW j \in Nat,
                      flash'[i] = <<m, j>>
               PROVE  /\ m =< env'.commands
                      /\ (load' # None /\ load'.n = m) => j < load'.sent
    BY DEF StoredSent
  <2>1. m =< env.commands
    <3>1. CASE flash[i] = <<m, j>>
      BY <3>1 DEF WholeInv, StoredSent
    <3>2. CASE \E k \in 1..Len(listener[t].buf) : listener[t].buf[k] = <<m, j>>
      BY <3>2 DEF WholeInv, StagedSent
    <3>3. CASE Byte(t) = <<m, j>>
      BY <1>1, <1>8, <3>3 DEF WholeInv, Announced, n
    <3> QED
      BY <1>11, <3>1, <3>2, <3>3
  <2>2. ASSUME load' # None, load'.n = m PROVE j < load'.sent
    <3>1. j < load.sent \/ (t = load.by /\ j = load.sent)
      BY <1>4, <1>12, <2>2 DEF n
    <3> QED
      BY <1>1, <1>4, <2>2, <3>1
  <2> QED
    BY <1>3, <2>1, <2>2
<1>14. (* the last byte of an upload gets to flash only at its end *)
      ASSUME NEW i \in Addresses, NEW m \in Serials, NEW j \in Nat,
             flash'[i] = <<m, j>>, j + 1 = length[m]
      PROVE  \/ flash[i] = <<m, j>>
             \/ Writes(a) /\ Last /\ Flushes(t) /\ t = load.by /\ m = n
  <2>1. CASE \E k \in 1..Len(listener[t].buf) : listener[t].buf[k] = <<m, j>>
    BY <1>1, <1>14, <2>1 DEF WholeInv, StagedSent
  <2>2. CASE Byte(t) = <<m, j>> /\ Writes(a) /\ Flushes(t)
    <3>1. t = load.by /\ m = n /\ j = load.sent
      BY <1>8, <2>2
    <3>2. Last
      BY <1>1, <1>14, <3>1 DEF Last, n
    <3> QED
      BY <2>2, <3>1, <3>2
  <2> QED
    BY <1>11, <1>14, <2>1, <2>2
<1>15. LastIsLast'
  <2> SUFFICES ASSUME NEW i \in Addresses, NEW m \in Serials, NEW j \in Nat,
                      flash'[i] = <<m, j>>, j + 1 = length[m],
                      NEW u \in Listeners, NEW k \in 1..Len(listener'[u].buf), NEW h \in Nat,
                      listener'[u].buf[k] = <<m, h>>
               PROVE  FALSE
    BY <1>2 DEF LastIsLast
  <2>1. CASE flash[i] = <<m, j>>
    <3>1. CASE \E g \in 1..Len(listener[u].buf) : listener[u].buf[g] = <<m, h>>
      BY <2>1, <3>1 DEF WholeInv, LastIsLast
    <3>2. CASE u = t /\ Byte(t) = <<m, h>>
      <4>1. load.n = m
        BY <1>8, <3>2 DEF n
      <4>2. j < load.sent
        BY <1>1, <2>1, <4>1 DEF WholeInv, StoredSent
      <4> QED
        BY <1>1, <4>1, <4>2 DEF n
    <3> QED
      BY <1>9, <3>1, <3>2
  <2>2. CASE Last /\ Flushes(t) /\ t = load.by /\ m = n
    <3>1. PICK g \in 1..Len(listener[u].buf) : listener[u].buf[g] = <<m, h>>
      BY <1>9, <2>2
    <3>2. u = t
      BY <1>1, <2>2, <3>1 DEF WholeInv, StagedSent, n
    <3>3. Len(listener'[u].buf) = 0
      BY <1>5, <1>6, <1>7, <2>2, <3>2
    <3> QED
      BY <3>3
  <2> QED
    BY <1>14, <2>1, <2>2
<1>16. StoredIsLoaded'
  <2> SUFFICES ASSUME NEW m \in Serials, Intact(m)'
               PROVE  media' = m \/ pkg_reload' \/ unseen'
    BY DEF StoredIsLoaded, Stored
  <2> DEFINE z == length[m] - 1
  <2>1. /\ length[m] \in 1..Size
        /\ \A j \in 0..(length[m] - 1) : flash'[j] = <<m, j>>
    BY <1>2 DEF Intact
  <2>2. z \in Nat /\ z + 1 = length[m] /\ z \in Addresses /\ flash'[z] = <<m, z>>
    BY <2>1, SizeAssumption DEF Addresses
  <2>3. CASE flash[z] # <<m, z>>
    <3>1. Writes(a) /\ Last
      BY <1>14, <2>2, <2>3
    <3> QED
      BY <1>2, <3>1
  <2>4. CASE flash[z] = <<m, z>>
    <3> HIDE DEF z
    <3>1. ASSUME NEW j \in 0..(length[m] - 1)
          PROVE  flash[j] = <<m, j>>
      <4>1. j \in Addresses /\ j \in Nat /\ flash'[j] = <<m, j>>
        BY <2>1, SizeAssumption DEF Addresses
      <4>2. \A k \in 1..Len(listener[t].buf) : listener[t].buf[k] # <<m, j>>
        BY <2>2, <2>4, <4>1 DEF WholeInv, LastIsLast
      <4>3. Byte(t) # <<m, j>>
        <5>1. load.n = m => z < load.sent
          BY <1>1, <2>2, <2>4 DEF WholeInv, StoredSent
        <5>2. load.n # m
          BY <1>1, <2>1, <2>2, <5>1 DEF n
        <5> QED
          BY <1>8, <4>1, <5>2 DEF n
      <4> QED
        BY <1>11, <4>1, <4>2, <4>3
    <3>2. m \in Stored
      BY <2>1, <3>1 DEF Stored, Intact
    <3>3. media = m \/ pkg_reload \/ unseen
      BY <3>2 DEF WholeInv, StoredIsLoaded
    <3> QED
      BY <1>2, <3>3 DEF TypeOK
  <2> QED
    BY <2>3, <2>4
<1> QED
  BY <1>10, <1>13, <1>15, <1>16

LEMMA StepWholeInv ==
  TypeOK /\ OrderInv /\ LiveInv /\ WholeInv /\ [Next]_vars => WholeInv'
<1> SUFFICES ASSUME TypeOK, OrderInv, LiveInv, WholeInv, [Next]_vars PROVE WholeInv'
  OBVIOUS
<1>0. /\ Behind'
      /\ env.commands \in Nat /\ length \in [Serials -> Nat] /\ \A m \in Serials : m \in Nat
      /\ Len(<<>>) = 0
  BY StepOrderInv DEF OrderInv, TypeOK, Environments, Serials
<1>1. ASSUME NEW t \in Listeners, NEW len \in Lengths, NEW fine \in BOOLEAN,
             PkgStart(t, len, fine)
      PROVE  WholeInv'
  <2> DEFINE n == env.commands + 1
  <2>1. /\ env'.commands = n /\ length' = [length EXCEPT ![n] = len] /\ len \in Nat \ {0}
        /\ UNCHANGED <<pkg_reload, pkg_size, media>>
        /\ unseen' = (unseen \/ len <= Size)
        /\ len <= Size \/ flash' = flash
    BY <1>1, SizeAssumption DEF PkgStart, Command, TypeOK, Environments
  <2>2. load' # None => load'.n = n
    BY <1>1 DEF PkgStart
  <2>3. \A u \in Listeners :
          Len(listener'[u].buf) = 0 \/ listener'[u].buf = listener[u].buf
    <3>1. listener' = [listener EXCEPT ![t] = Restarted(listener[t], len <= Size /\ fine)]
      BY <1>1 DEF PkgStart
    <3>2. Restarted(listener[t], len <= Size /\ fine).buf = <<>>
      BY DEF Restarted, NewListener
    <3> QED
      BY <1>0, <3>1, <3>2 DEF TypeOK
  <2>4. ASSUME NEW i \in Addresses, NEW m \in Serials, NEW j \in Nat, flash'[i] = <<m, j>>
        PROVE  flash[i] = <<m, j>>
    <3>1. CASE flash' = flash
      BY <2>4, <3>1
    <3>2. CASE Erase(EraseLen(len), fine)
      BY <2>4, <3>2, DistinctAssumption DEF Erase, Bytes
    <3> QED
      BY <1>1, <3>1, <3>2 DEF PkgStart
  <2>5. \A m \in Serials : m =< env.commands => m # n /\ length'[m] = length[m]
    BY <1>0, <2>1
  <2> HIDE DEF n
  <2>6. Announced'
    BY <1>0, <2>1, <2>2 DEF Announced, n
  <2>7. StagedSent'
    <3> SUFFICES ASSUME NEW u \in Listeners, NEW k \in 1..Len(listener'[u].buf),
                        NEW m \in Serials, NEW j \in Nat, listener'[u].buf[k] = <<m, j>>
                 PROVE  /\ m =< env'.commands /\ j + 1 < length'[m]
                        /\ (load' # None /\ load'.n = m) => (u = load'.by /\ j < load'.sent)
      BY DEF StagedSent
    <3>1. k \in 1..Len(listener[u].buf) /\ listener[u].buf[k] = <<m, j>>
      BY <2>3
    <3>2. m =< env.commands /\ j + 1 < length[m]
      BY <3>1 DEF WholeInv, StagedSent
    <3> QED
      BY <1>0, <2>1, <2>2, <2>5, <3>2 DEF n
  <2>8. StoredSent'
    BY <1>0, <2>1, <2>2, <2>4, <2>5 DEF WholeInv, StoredSent, n
  <2>9. LastIsLast'
    <3> SUFFICES ASSUME NEW i \in Addresses, NEW m \in Serials, NEW j \in Nat,
                        flash'[i] = <<m, j>>, j + 1 = length'[m],
                        NEW u \in Listeners, NEW k \in 1..Len(listener'[u].buf), NEW h \in Nat
                 PROVE  listener'[u].buf[k] # <<m, h>>
      BY DEF LastIsLast
    <3>1. flash[i] = <<m, j>> /\ j + 1 = length[m]
      BY <2>4, <2>5 DEF WholeInv, StoredSent
    <3> QED
      BY <2>3, <3>1 DEF WholeInv, LastIsLast
  <2>10. StoredIsLoaded'
    <3> SUFFICES ASSUME NEW m \in Serials, Intact(m)', ~unseen'
                 PROVE  media' = m \/ pkg_reload'
      BY DEF StoredIsLoaded, Stored
    <3>1. flash' = flash /\ ~unseen
      BY <2>1 DEF TypeOK
    <3>2. 0 \in Addresses /\ flash[0] = <<m, 0>>
      BY <3>1, SizeAssumption DEF Intact, Addresses
    <3>3. m =< env.commands
      BY <3>2 DEF WholeInv, StoredSent
    <3>4. m \in Stored
      BY <2>5, <3>1, <3>3 DEF Stored, Intact
    <3> QED
      BY <2>1, <3>1, <3>4 DEF WholeInv, StoredIsLoaded
  <2> QED
    BY <1>0, <2>6, <2>7, <2>8, <2>9, <2>10 DEF WholeInv
<1>2. ASSUME NEW t \in Listeners, NEW fine \in BOOLEAN, Data(t, fine)
      PROVE  WholeInv'
  <2>1. StagedSent' /\ StoredSent' /\ LastIsLast' /\ StoredIsLoaded'
    BY <1>2, DataWholeInv
  <2>2. Announced'
    <3>1. load \in Upload /\ load # None /\ env'.commands = env.commands
      BY <1>2, DataSteps DEF TypeOK, Data, Environments
    <3>2. load' # None => load'.n = load.n
      BY <1>2, <3>1 DEF Data, Upload
    <3> QED
      BY <3>1, <3>2 DEF WholeInv, Announced
  <2> QED
    BY <1>0, <2>1, <2>2 DEF WholeInv
<1>3. ASSUME NEW fine \in BOOLEAN, Factory(fine)
      PROVE  WholeInv'
  <2>1. /\ env'.commands = env.commands + 1 /\ load = None /\ load' = None
        /\ UNCHANGED <<listener, length>>
        /\ pkg_reload' \/ unseen'
    BY <1>3 DEF Factory, Command, TypeOK, Environments
  <2>2. \A i \in Addresses, m \in Serials, j \in Nat :
          flash'[i] = <<m, j>> => flash[i] = <<m, j>>
    BY <1>3, DistinctAssumption DEF Factory, Erase, Bytes
  <2>3. StagedSent' /\ StoredSent' /\ Announced'
    BY <1>0, <2>1, <2>2 DEF WholeInv, StagedSent, StoredSent, Announced
  <2>4. LastIsLast'
    BY <2>1, <2>2 DEF WholeInv, LastIsLast
  <2> QED
    BY <1>0, <2>1, <2>3, <2>4 DEF WholeInv, StoredIsLoaded
<1>4. ASSUME NEW old, NEW fine \in BOOLEAN, LoadPkg(old, fine),
             UNCHANGED <<flash, length>>
      PROVE  StoredIsLoaded'
  <2>1. Stored' = Stored
    BY <1>4 DEF Stored, Intact
  <2>2. CASE Stored = {} \/ ~fine
    BY <1>4, <2>1, <2>2 DEF LoadPkg, StoredIsLoaded
  <2>3. CASE Stored # {} /\ fine
    <3>1. PICK n \in Stored : media' = n
      BY <1>4, <2>3 DEF LoadPkg
    <3>2. \A m \in Stored : 0 \in 0..(length[m] - 1) /\ flash[0] = <<m, 0>>
      BY SizeAssumption DEF Stored, Intact
    <3>3. \A m \in Stored : m = n
      BY <3>1, <3>2
    <3> QED
      BY <2>1, <3>1, <3>3 DEF StoredIsLoaded
  <2> QED
    BY <2>2, <2>3
<1>5. ASSUME NEW fine \in BOOLEAN, Frame(fine)
      PROVE  WholeInv'
  <2>1. env'.commands = env.commands /\ UNCHANGED <<flash, listener, load, length>>
    BY <1>5 DEF Frame, TypeOK, Environments
  <2>2. StoredIsLoaded'
    BY <1>4, <1>5, <2>1 DEF Frame
  <2>3. Announced' /\ StagedSent'
    BY <2>1 DEF WholeInv, Announced, StagedSent
  <2>4. StoredSent' /\ LastIsLast'
    BY <2>1 DEF WholeInv, StoredSent, LastIsLast
  <2> QED
    BY <1>0, <2>2, <2>3, <2>4 DEF WholeInv
<1>6. ASSUME NEW fine \in BOOLEAN, Reboot(fine)
      PROVE  WholeInv'
  <2>1. env'.commands = env.commands /\ UNCHANGED <<flash, length>> /\ load' = None
    BY <1>6 DEF Reboot, TypeOK, Environments
  <2>2. \A u \in Listeners : Len(listener'[u].buf) = 0
    BY <1>0, <1>6, NewListenerType DEF Reboot
  <2>3. StoredIsLoaded'
    BY <1>4, <1>6, <2>1 DEF Reboot
  <2> QED
    BY <1>0, <2>1, <2>2, <2>3 DEF WholeInv, Announced, StagedSent, StoredSent, LastIsLast
<1>7. CASE Abandon
  <2>1. load' = None /\ UNCHANGED <<flash, listener, pkg_reload, media, unseen, length, env>>
    BY <1>7 DEF Abandon
  <2> QED
    BY <1>0, <2>1 DEF WholeInv, Announced, StagedSent, StoredSent, LastIsLast,
                      StoredIsLoaded, Stored, Intact
<1>8. CASE IdleFrame \/ UNCHANGED vars
  <2>1. UNCHANGED vars
    BY <1>8 DEF IdleFrame
  <2>2. Announced' /\ StagedSent'
    BY <2>1 DEF vars, WholeInv, Announced, StagedSent
  <2>3. StoredSent' /\ LastIsLast' /\ StoredIsLoaded'
    BY <2>1 DEF vars, WholeInv, StoredSent, LastIsLast, StoredIsLoaded, Stored, Intact
  <2> QED
    BY <1>0, <2>2, <2>3 DEF WholeInv
<1> QED
  BY <1>1, <1>2, <1>3, <1>5, <1>6, <1>7, <1>8 DEF Next, CommandListener

LEMMA InitWholeInv == Init => WholeInv
<1> SUFFICES ASSUME Init PROVE WholeInv
  OBVIOUS
<1>1. load = None /\ \A t \in Listeners : Len(listener[t].buf) = 0
  <2>1. Len(<<>>) = 0
    OBVIOUS
  <2> QED
    BY <2>1 DEF Init, NewListener
<1>2. \A i \in Addresses, m \in Serials, j \in Nat : flash[i] # <<m, j>>
  BY DistinctAssumption DEF Init, Bytes
<1>3. Stored = {}
  BY DEF Init, Stored, Intact
<1> QED
  BY <1>1, <1>2, <1>3 DEF WholeInv, Announced, Behind, StagedSent, StoredSent, LastIsLast,
                          StoredIsLoaded

(* No package gets to be whole in flash untold: it is live, or about to be *)
(* loaded, unless it could not be read.                                    *)
THEOREM StoredPackagesLoaded == Spec => []StoredIsLoaded
<1> DEFINE Inv == TypeOK /\ OrderInv /\ LiveInv /\ WholeInv
<1>1. Init => Inv
  BY InitTypeOK, InitOrderInv, InitLiveInv, InitWholeInv
<1>2. Inv /\ [Next]_vars => Inv'
  BY NextTypeOK, StepOrderInv, StepLiveInv, StepWholeInv
<1>3. Inv => StoredIsLoaded
  BY DEF WholeInv
<1> QED
  BY <1>1, <1>2, <1>3, PTL DEF Spec

=============================================================================
