----------------------------- MODULE UartProofs -----------------------------
(***************************************************************************)
(* The safety properties of Uart, for every size of command_buf, all       *)
(* lengths of commands and every bound on commands, faults and restarts.   *)
(* InStep and OnceInOrder hold for a client that waits for each answer,    *)
(* Window = 1 (with a larger one BytesKept fails: see VUart.cfg).          *)
(*                                                                         *)
(* A sequence's shape is kept in numbers: how many bytes of the last       *)
(* command are still around, and which byte of it each one is.             *)
(***************************************************************************)
EXTENDS Uart, SequenceTheorems, WellFoundedInduction, TLAPS

Bytes == Byte \cup {Nul}

(* The bytes of the last command that are in command_buf, in the driver    *)
(* and on the wire, and how many of it came before them.                   *)
Around == pos + Len(rx) + Len(wire)
Gone == length[sent] - Around

(* What is left of command k without its first b bytes. *)
LineFrom(k, b) == [m \in 1..(length[k] - b) |-> <<k, b + m>>]

(* Where the bytes of the last command are.  Unless all of it has been     *)
(* consumed, its end has not been read yet.                                *)
FlowInv ==
  /\ owed <= 1
  /\ ~reported =>
       /\ owed = 0 => Around = 0
       /\ pos > 0 => Len(rx) + Len(wire) > 0
       /\ Around > 0 =>
            /\ sent > 0 /\ Around <= length[sent]
            /\ \A j \in 0..(pos - 1) : command_buf[j] = <<sent, Gone + j + 1>>
            /\ \A j \in 1..Len(rx) : rx[j] = <<sent, Gone + pos + j>>
            /\ \A j \in 1..Len(wire) : wire[j] = <<sent, Gone + pos + Len(rx) + j>>

(* What has been run is whole lines, or the ends of lines cut short, of    *)
(* ever later commands; the last one among them only once it is consumed.  *)
RunInv ==
  ~reported =>
    /\ Around > 0 /\ Gone > 0 => sent \in cut
    /\ \A j \in 1..Len(executed) :
         \E k \in 1..sent, b \in Nat :
           /\ b < length[k] /\ executed[j] = LineFrom(k, b)
           /\ b = 0 \/ k \in cut
           /\ Around > 0 => k < sent
    /\ \A j \in 1..Len(executed) : \A m \in 1..(j - 1) :
         executed[m][1][1] < executed[j][1][1]
    /\ \A k \in (1..sent) \ cut :
         (k < sent \/ Around = 0) => \E j \in 1..Len(executed) : executed[j] = LineFrom(k, 0)
-----------------------------------------------------------------------------
(* Lemmas on the operators: the least element, a read, what it completes,  *)
(* what moves down, and what is lost.                                      *)
LEMMA LeastNat ==
  ASSUME NEW S \in SUBSET Nat, S # {}
  PROVE  Min(S) \in S /\ \A y \in S : Min(S) <= y
<1> DEFINE less == OpToRel(<, Nat)
<1>1. \A p \in Nat, q \in Nat : p < q => <<p, q>> \in less
  BY DEF OpToRel
<1>2. IsWellFoundedOn(less, Nat)
  BY NatLessThanWellFounded
<1> HIDE DEF less
<1>3. PICK p \in S : \A q \in S : <<q, p>> \notin less
  BY <1>2, WFMin
<1>4. ASSUME NEW q \in S PROVE p <= q
  <2>1. p \in Nat /\ q \in Nat /\ ~(q < p)
    BY <1>1, <1>3
  <2> QED
    BY <2>1
<1> QED
  BY <1>3, <1>4 DEF Min

(* What a read() takes out of the driver. *)
Taken == Min({Len(rx), BufLen - pos})

LEMMA RxLen ==
  ASSUME TypeOK
  PROVE  /\ Len(rx) \in Nat /\ Len(wire) \in Nat /\ pos \in Nat /\ pos < BufLen
         /\ rx # <<>> => Len(rx) > 0
         /\ \A j \in 1..Len(rx) : rx[j] \in Bytes
         /\ \A j \in 1..Len(wire) : wire[j] \in Bytes
<1>1. rx \in Seq(Byte) /\ wire \in Seq(Byte) /\ pos \in 0..(BufLen - 1) /\ BufLen \in Nat
  BY LengthsAssumption DEF TypeOK, Index
<1> QED
  BY <1>1, EmptySeq DEF Bytes

LEMMA TakenBounds ==
  ASSUME TypeOK, rx # <<>>
  PROVE  /\ Taken \in 1..Len(rx) /\ pos + Taken <= BufLen
         /\ Taken = Len(rx) \/ pos + Taken = BufLen
<1>1. Len(rx) \in Nat /\ Len(rx) > 0 /\ BufLen \in Nat /\ pos \in Nat /\ BufLen - pos > 0
  BY RxLen, LengthsAssumption
<1>2. {Len(rx), BufLen - pos} \in SUBSET Nat /\ {Len(rx), BufLen - pos} # {}
  BY <1>1
<1>3. Taken \in {Len(rx), BufLen - pos} /\ Taken <= Len(rx) /\ Taken <= BufLen - pos
  BY <1>2, LeastNat DEF Taken
<1> QED
  BY <1>1, <1>3

LEMMA FilledType ==
  ASSUME TypeOK, NEW n \in 1..Len(rx), pos + n <= BufLen
  PROVE  /\ Filled(n) \in [Index -> Bytes]
         /\ \A j \in 0..(pos - 1) : Filled(n)[j] = command_buf[j]
         /\ \A j \in pos..(pos + n - 1) : Filled(n)[j] = rx[j - pos + 1]
<1>1. n \in Nat /\ n <= Len(rx) /\ pos \in Nat /\ BufLen \in Nat /\ Len(rx) \in Nat
  BY RxLen, LengthsAssumption
<1>2. ASSUME NEW i \in Index, i \in pos..(pos + n - 1) PROVE rx[i - pos + 1] \in Bytes
  <2>1. i - pos + 1 \in 1..Len(rx)
    BY <1>1, <1>2
  <2> QED
    BY <2>1, RxLen
<1>3. \A i \in Index : command_buf[i] \in Bytes
  BY DEF TypeOK, Bytes
<1>4. Filled(n) \in [Index -> Bytes]
  BY <1>2, <1>3 DEF Filled
<1>5. ASSUME NEW j \in 0..(pos - 1) PROVE Filled(n)[j] = command_buf[j]
  <2>1. j \in Index /\ j \notin pos..(pos + n - 1)
    BY <1>1, RxLen DEF Index
  <2> QED
    BY <2>1 DEF Filled
<1>6. ASSUME NEW j \in pos..(pos + n - 1) PROVE Filled(n)[j] = rx[j - pos + 1]
  <2>1. j \in Index
    BY <1>1 DEF Index
  <2> QED
    BY <2>1 DEF Filled
<1> QED
  BY <1>4, <1>5, <1>6

LEMMA ConsumedLine ==
  ASSUME NEW buf, NEW n \in Nat
  PROVE  /\ Consumed(buf, n) \in 0..n
         /\ Consumed(buf, n) > 0 => IsEnd(buf[Consumed(buf, n) - 1])
         /\ Consumed(buf, n) = 0 => \A j \in 0..(n - 1) : ~IsEnd(buf[j])
<1> DEFINE ends == {i \in 1..n : IsEnd(buf[i - 1])}
<1>1. CASE ends = {}
  <2>1. Consumed(buf, n) = 0
    BY <1>1 DEF Consumed
  <2>2. ASSUME NEW j \in 0..(n - 1) PROVE ~IsEnd(buf[j])
    <3>1. j + 1 \in 1..n /\ (j + 1) - 1 = j
      OBVIOUS
    <3> QED
      BY <1>1, <3>1
  <2> QED
    BY <2>1, <2>2
<1>2. CASE ends # {}
  <2>1. Consumed(buf, n) = Min(ends)
    BY <1>2 DEF Consumed
  <2>2. ends \in SUBSET Nat
    OBVIOUS
  <2>3. Min(ends) \in ends
    BY <1>2, <2>2, LeastNat
  <2> QED
    BY <2>1, <2>3
<1> QED
  BY <1>1, <1>2

(* Beyond what was consumed there is enough to move down, unless it panics.*)
LEMMA MovedType ==
  ASSUME NEW buf \in [Index -> Bytes], NEW n \in Nat, ~Panics(n)
  PROVE  Moved(buf, n) \in [Index -> Bytes]
<1>1. ASSUME NEW i \in Index, i < n PROVE n + i \in Index
  BY <1>1, LengthsAssumption DEF Panics, Index
<1> QED
  BY <1>1 DEF Moved

LEMMA FirstType ==
  ASSUME NEW buf \in [Index -> Bytes], NEW n \in 0..BufLen
  PROVE  /\ First(buf, n) \in Seq(Bytes) /\ Len(First(buf, n)) = n
         /\ \A i \in 1..n : First(buf, n)[i] = buf[i - 1]
<1>1. n \in Nat /\ \A i \in 1..n : i - 1 \in Index
  BY LengthsAssumption DEF Index
<1>2. First(buf, n) \in [1..n -> Bytes]
  BY <1>1 DEF First
<1>3. First(buf, n) \in Seq(Bytes)
  BY <1>1, <1>2, SeqDef
<1> QED
  BY <1>1, <1>2, <1>3 DEF First

LEMMA CommandsType ==
  ASSUME NEW bytes \in Seq(Bytes)
  PROVE  Commands(bytes) \subseteq Serials
<1>1. \A i \in DOMAIN bytes : bytes[i] \in Byte \cup {Nul}
  BY LenProperties DEF Bytes
<1>2. \A b \in Byte : b[1] \in Serials
  BY DEF Byte
<1> QED
  BY <1>1, <1>2 DEF Commands, ToSet
-----------------------------------------------------------------------------
(* command_buf, its length and the driver's buffer after a read. *)
Read == Filled(Taken)
Top == pos + Taken
Rest == SubSeq(rx, Taken + 1, Len(rx))

LEMMA ReadFacts ==
  ASSUME TypeOK, rx # <<>>
  PROVE  /\ Taken \in Nat /\ Top \in 1..BufLen /\ Top = pos + Taken /\ Top > pos
         /\ Read \in [Index -> Bytes]
         /\ \A j \in 0..(pos - 1) : Read[j] = command_buf[j]
         /\ \A j \in pos..(Top - 1) : Read[j] = rx[j - pos + 1]
         /\ Rest \in Seq(Byte) /\ Len(Rest) = Len(rx) - Taken
         /\ \A j \in 1..Len(Rest) : Rest[j] = rx[Taken + j]
<1>1. /\ Taken \in 1..Len(rx) /\ pos + Taken <= BufLen
      /\ Len(rx) \in Nat /\ pos \in Nat /\ BufLen \in Nat /\ Taken \in Nat
  BY TakenBounds, RxLen, LengthsAssumption
<1>2. \A i \in (Taken + 1)..Len(rx) : rx[i] \in Byte
  BY <1>1, ElementOfSeq DEF TypeOK
<1>3. /\ Rest \in Seq(Byte)
      /\ Len(Rest) = IF Taken + 1 <= Len(rx) THEN Len(rx) - (Taken + 1) + 1 ELSE 0
      /\ \A i \in 1..(Len(rx) - (Taken + 1) + 1) : Rest[i] = rx[(Taken + 1) + i - 1]
  BY <1>1, <1>2, SubSeqProperties DEF Rest
<1>4. Len(Rest) = Len(rx) - Taken
  BY <1>1, <1>3
<1>5. ASSUME NEW j \in 1..Len(Rest) PROVE Rest[j] = rx[Taken + j]
  <2>1. (Taken + 1) + j - 1 = Taken + j
    BY <1>1, <1>4
  <2> QED
    BY <1>1, <1>3, <1>4, <2>1
<1> QED
  BY <1>1, <1>3, <1>4, <1>5, FilledType DEF Read, Top

(* A turn of the drain loop, in these terms. *)
LEMMA RunStep ==
  ASSUME NEW fine, NEW reset, Run(fine, reset)
  PROVE  LET consumed == Consumed(Read, Top)
             left == IF fine THEN Left(Top, consumed) ELSE Top
         IN  /\ rx # <<>> /\ consumed > 0
             /\ fine \/ env.faults < MaxFaults
             /\ reset => env.reboots < MaxReboots
             /\ env' = [faults |-> env.faults + (IF fine THEN 0 ELSE 1),
                        reboots |-> env.reboots + (IF reset THEN 1 ELSE 0)]
             /\ executed' = Append(executed, First(Read, consumed))
             /\ \/ /\ reset \/ (fine /\ Panics(consumed))
                   /\ Restart(SubSeq(First(Read, Top), consumed + 1, Top) \o Rest)
                   /\ Answered \/ UNCHANGED owed
                   /\ reported' = (reported \/ ~fine)
                \/ /\ ~(reset \/ (fine /\ Panics(consumed)))
                   /\ command_buf' = IF fine THEN Moved(Read, consumed) ELSE Read
                   /\ pos' = IF Overflows(left) THEN 0 ELSE left
                   /\ rx' = Rest
                   /\ Answered
                   /\ reported' = (reported \/ ~fine \/ Overflows(left))
                   /\ cut' = cut
             /\ UNCHANGED <<wire, sent, length>>
BY DEF Run, Read, Top, Rest, Taken

LEMMA CollectStep ==
  ASSUME Collect
  PROVE  /\ rx # <<>> /\ Consumed(Read, Top) = 0
         /\ command_buf' = Read /\ rx' = Rest
         /\ \/ /\ Overflows(Top)
               /\ pos' = 0 /\ reported' = TRUE /\ Answered
               /\ cut' = cut \cup Commands(First(Read, Top))
            \/ /\ ~Overflows(Top)
               /\ pos' = Top /\ UNCHANGED <<reported, owed, cut>>
         /\ UNCHANGED <<wire, sent, length, executed, env>>
BY DEF Collect, Read, Top, Rest, Taken

LEMMA RestartType ==
  ASSUME TypeOK, NEW lost \in Seq(Bytes), Restart(lost)
  PROVE  /\ command_buf' \in [Index -> Byte \cup {Nul}] /\ pos' \in Index
         /\ rx' \in Seq(Byte) /\ cut' \subseteq Serials
<1>1. Commands(lost) \subseteq Serials
  BY CommandsType
<1>2. 0 \in Index /\ <<>> \in Seq(Byte)
  BY LengthsAssumption DEF Index
<1> QED
  BY <1>1, <1>2 DEF Restart, TypeOK

-----------------------------------------------------------------------------
(* No more commands are unanswered than were sent. *)
TypeInv == TypeOK /\ owed <= sent

LEMMA AnsweredType ==
  ASSUME TypeInv, Answered, UNCHANGED sent
  PROVE  owed' \in 0..MaxCommands /\ owed' <= sent'
BY BoundsAssumption DEF TypeInv, TypeOK, Answered

LEMMA RunType ==
  ASSUME TypeInv, NEW fine \in BOOLEAN, NEW reset \in BOOLEAN, Run(fine, reset)
  PROVE  TypeInv'
<1> DEFINE consumed == Consumed(Read, Top)
           left == IF fine THEN Left(Top, consumed) ELSE Top
           lost == SubSeq(First(Read, Top), consumed + 1, Top) \o Rest
<1>0. TypeOK /\ rx # <<>> /\ consumed > 0
  BY RunStep DEF TypeInv
<1>1. Top \in 1..BufLen /\ Top \in Nat /\ BufLen \in Nat /\ Read \in [Index -> Bytes]
      /\ Rest \in Seq(Byte)
  BY <1>0, ReadFacts, LengthsAssumption
<1>2. consumed \in 0..Top /\ consumed \in Nat
  BY <1>1, ConsumedLine
<1>3. First(Read, consumed) \in Seq(Bytes) /\ First(Read, Top) \in Seq(Bytes)
      /\ Len(First(Read, Top)) = Top
  BY <1>1, <1>2, FirstType
<1>4. lost \in Seq(Bytes)
  <2>1. \A i \in (consumed + 1)..Top : First(Read, Top)[i] \in Bytes
    BY <1>2, <1>3, ElementOfSeq
  <2>2. SubSeq(First(Read, Top), consumed + 1, Top) \in Seq(Bytes)
    BY <1>1, <1>2, <2>1, SubSeqProperties
  <2>3. Rest \in Seq(Bytes)
    BY <1>1, SeqMonotonic DEF Bytes
  <2> QED
    BY <2>2, <2>3, ConcatProperties
<1>5. left \in 0..BufLen
  BY <1>1, <1>2 DEF Left
<1>6. executed' \in Seq(Seq(Byte \cup {Nul}))
  <2>1. executed' = Append(executed, First(Read, consumed))
    BY RunStep
  <2>2. executed \in Seq(Seq(Bytes))
    BY <1>0 DEF TypeOK, Bytes
  <2>3. Append(executed, First(Read, consumed)) \in Seq(Seq(Bytes))
    BY <1>3, <2>2, AppendProperties
  <2> QED
    BY <2>1, <2>3 DEF Bytes
<1>7. env' \in [faults : 0..MaxFaults, reboots : 0..MaxReboots]
  BY RunStep, BoundsAssumption DEF TypeInv, TypeOK
<1>8. owed' \in 0..MaxCommands /\ owed' <= sent'
  BY RunStep, AnsweredType DEF TypeInv, TypeOK
<1>9. reported' \in BOOLEAN /\ UNCHANGED <<wire, sent, length>>
  BY RunStep DEF TypeInv, TypeOK
<1>10. /\ command_buf' \in [Index -> Byte \cup {Nul}] /\ pos' \in Index
       /\ rx' \in Seq(Byte) /\ cut' \subseteq Serials
  <2>1. CASE Restart(lost)
    BY <1>0, <1>4, <2>1, RestartType
  <2>2. CASE ~Restart(lost)
    <3>1. /\ command_buf' = IF fine THEN Moved(Read, consumed) ELSE Read
          /\ pos' = IF Overflows(left) THEN 0 ELSE left
          /\ rx' = Rest /\ cut' = cut
          /\ fine => ~Panics(consumed)
      BY <2>2, RunStep
    <3>2. command_buf' \in [Index -> Bytes]
      BY <1>1, <1>2, <3>1, MovedType
    <3>3. pos' \in Index
      BY <1>1, <1>5, <3>1 DEF Overflows, Index
    <3> QED
      BY <1>0, <1>1, <3>1, <3>2, <3>3 DEF Bytes, TypeOK
  <2> QED
    BY <2>1, <2>2
<1> QED
  BY <1>0, <1>6, <1>7, <1>8, <1>9, <1>10 DEF TypeInv, TypeOK

LEMMA CollectType == ASSUME TypeInv, Collect PROVE TypeInv'
<1>1. TypeOK /\ rx # <<>>
  BY CollectStep DEF TypeInv
<1>2. Top \in 1..BufLen /\ BufLen \in Nat /\ Read \in [Index -> Bytes] /\ Rest \in Seq(Byte)
  BY <1>1, ReadFacts, LengthsAssumption
<1>3. Commands(First(Read, Top)) \subseteq Serials
  BY <1>2, FirstType, CommandsType
<1>4. pos' \in Index /\ cut' \subseteq Serials /\ reported' \in BOOLEAN
  <2>1. CASE Overflows(Top)
    <3>1. pos' = 0 /\ reported' = TRUE /\ cut' = cut \cup Commands(First(Read, Top))
      BY <2>1, CollectStep
    <3>2. 0 \in Index
      BY <1>2 DEF Index
    <3> QED
      BY <1>1, <1>3, <3>1, <3>2 DEF TypeOK
  <2>2. CASE ~Overflows(Top)
    <3>1. pos' = Top /\ reported' = reported /\ cut' = cut
      BY <2>2, CollectStep
    <3>2. Top \in Index
      BY <1>2, <2>2 DEF Index, Overflows
    <3> QED
      BY <1>1, <3>1, <3>2 DEF TypeOK
  <2> QED
    BY <2>1, <2>2
<1>5. owed' \in 0..MaxCommands /\ owed' <= sent'
  BY CollectStep, AnsweredType DEF TypeInv, TypeOK
<1>6. /\ command_buf' \in [Index -> Byte \cup {Nul}] /\ rx' \in Seq(Byte)
      /\ UNCHANGED <<wire, sent, length, executed, env>>
  BY <1>2, CollectStep DEF Bytes
<1> QED
  BY <1>1, <1>4, <1>5, <1>6 DEF TypeInv, TypeOK

LEMMA LineType ==
  ASSUME NEW k \in Serials, NEW l \in [Serials -> Nat]
  PROVE  /\ [i \in 1..l[k] |-> <<k, i>>] \in Seq(Byte)
         /\ Len([i \in 1..l[k] |-> <<k, i>>]) = l[k]
<1>1. l[k] \in Nat
  OBVIOUS
<1>2. [i \in 1..l[k] |-> <<k, i>>] \in [1..l[k] -> Byte]
  BY DEF Byte
<1> QED
  BY <1>1, <1>2, SeqDef

(* What Send puts on the wire. *)
LEMMA SendLine ==
  ASSUME TypeInv, NEW len \in Lengths, Send(len)
  PROVE  /\ sent' \in Serials /\ sent' = sent + 1 /\ length' \in [Serials -> Nat]
         /\ length'[sent'] = len /\ len > 0
         /\ \A k \in 1..sent : length'[k] = length[k]
         /\ Line(sent)' \in Seq(Byte) /\ Len(Line(sent)') = len
         /\ \A i \in 1..len : Line(sent)'[i] = <<sent', i>>
         /\ wire' = wire \o Line(sent)'
<1>1. sent \in Nat /\ sent' = sent + 1 /\ sent' \in Serials /\ len \in Nat /\ len > 0
  BY LengthsAssumption, BoundsAssumption DEF Send, TypeInv, TypeOK, Serials
<1>2. /\ length' = [length EXCEPT ![sent'] = len] /\ length \in [Serials -> Nat]
      /\ wire' = wire \o Line(sent)'
  BY <1>1 DEF Send, TypeInv, TypeOK
<1>3. /\ length' \in [Serials -> Nat] /\ length'[sent'] = len
      /\ \A k \in 1..sent : length'[k] = length[k]
  BY <1>1, <1>2
<1>4. Line(sent)' = [i \in 1..length'[sent'] |-> <<sent', i>>]
  BY DEF Line
<1>5. Line(sent)' \in Seq(Byte) /\ Len(Line(sent)') = length'[sent']
  BY <1>1, <1>3, <1>4, LineType
<1>6. \A i \in 1..len : Line(sent)'[i] = <<sent', i>>
  BY <1>3, <1>4
<1> QED
  BY <1>1, <1>2, <1>3, <1>5, <1>6

LEMMA SendType == ASSUME TypeInv, NEW len \in Lengths, Send(len) PROVE TypeInv'
<1>1. /\ sent' \in 0..MaxCommands /\ owed' \in 0..MaxCommands /\ owed' <= sent'
  BY BoundsAssumption DEF Send, TypeInv, TypeOK
<1>2. /\ wire \in Seq(Byte) /\ Line(sent)' \in Seq(Byte) /\ wire' = wire \o Line(sent)'
      /\ length' \in [Serials -> Nat]
  BY SendLine DEF TypeInv, TypeOK
<1>3. wire' \in Seq(Byte)
  BY <1>2, ConcatProperties
<1> QED
  BY <1>1, <1>2, <1>3 DEF Send, TypeInv, TypeOK

(* What Receive moves from the wire to the driver. *)
LEMMA ReceivePart ==
  ASSUME TypeOK, NEW n \in 1..Len(wire)
  PROVE  /\ SubSeq(wire, 1, n) \in Seq(Byte) /\ Len(SubSeq(wire, 1, n)) = n
         /\ \A i \in 1..n : SubSeq(wire, 1, n)[i] = wire[i]
         /\ SubSeq(wire, n + 1, Len(wire)) \in Seq(Byte)
         /\ Len(SubSeq(wire, n + 1, Len(wire))) = Len(wire) - n
         /\ \A i \in 1..(Len(wire) - n) : SubSeq(wire, n + 1, Len(wire))[i] = wire[n + i]
<1>1. wire \in Seq(Byte) /\ Len(wire) \in Nat /\ n \in Nat /\ n <= Len(wire)
  BY RxLen DEF TypeOK
<1>2. \A i \in 1..Len(wire) : wire[i] \in Byte
  BY <1>1, ElementOfSeq
<1>3. /\ SubSeq(wire, 1, n) \in Seq(Byte)
      /\ Len(SubSeq(wire, 1, n)) = IF 1 <= n THEN n - 1 + 1 ELSE 0
      /\ \A i \in 1..(n - 1 + 1) : SubSeq(wire, 1, n)[i] = wire[1 + i - 1]
  BY <1>1, <1>2, SubSeqProperties
<1>4. /\ SubSeq(wire, n + 1, Len(wire)) \in Seq(Byte)
      /\ Len(SubSeq(wire, n + 1, Len(wire)))
           = IF n + 1 <= Len(wire) THEN Len(wire) - (n + 1) + 1 ELSE 0
      /\ \A i \in 1..(Len(wire) - (n + 1) + 1) :
           SubSeq(wire, n + 1, Len(wire))[i] = wire[(n + 1) + i - 1]
  BY <1>1, <1>2, SubSeqProperties
<1>5. ASSUME NEW i \in 1..n PROVE SubSeq(wire, 1, n)[i] = wire[i]
  <2>1. 1 + i - 1 = i /\ i \in 1..(n - 1 + 1)
    BY <1>1
  <2> QED
    BY <1>3, <2>1
<1>6. ASSUME NEW i \in 1..(Len(wire) - n)
      PROVE  SubSeq(wire, n + 1, Len(wire))[i] = wire[n + i]
  <2>1. (n + 1) + i - 1 = n + i /\ i \in 1..(Len(wire) - (n + 1) + 1)
    BY <1>1
  <2> QED
    BY <1>4, <2>1
<1> QED
  BY <1>1, <1>3, <1>4, <1>5, <1>6

LEMMA ReceiveType == ASSUME TypeInv, Receive PROVE TypeInv'
<1>1. PICK n \in 1..Len(wire) :
        rx' = rx \o SubSeq(wire, 1, n) /\ wire' = SubSeq(wire, n + 1, Len(wire))
  BY DEF Receive
<1>2. wire' \in Seq(Byte) /\ rx' \in Seq(Byte)
  BY <1>1, ReceivePart, ConcatProperties DEF TypeInv, TypeOK
<1> QED
  BY <1>2 DEF Receive, TypeInv, TypeOK

LEMMA LostType ==
  ASSUME TypeOK
  PROVE  /\ First(command_buf, pos) \in Seq(Bytes)
         /\ Len(First(command_buf, pos)) = pos
         /\ \A i \in 1..pos : First(command_buf, pos)[i] = command_buf[i - 1]
         /\ First(command_buf, pos) \o rx \in Seq(Bytes)
<1>1. command_buf \in [Index -> Bytes] /\ pos \in 0..BufLen
  BY LengthsAssumption DEF TypeOK, Bytes, Index
<1>2. rx \in Seq(Bytes)
  BY SeqMonotonic DEF TypeOK, Bytes
<1> QED
  BY <1>1, <1>2, FirstType, ConcatProperties

LEMMA NextType == TypeInv /\ [Next]_vars => TypeInv'
<1> SUFFICES ASSUME TypeInv, [Next]_vars PROVE TypeInv'
  OBVIOUS
<1>1. ASSUME NEW len \in Lengths, Send(len) PROVE TypeInv'
  BY <1>1, SendType
<1>2. CASE GiveUp
  BY <1>2, BoundsAssumption DEF GiveUp, TypeInv, TypeOK
<1>3. CASE Receive
  BY <1>3, ReceiveType
<1>4. ASSUME NEW fine \in BOOLEAN, NEW reset \in BOOLEAN, Run(fine, reset) PROVE TypeInv'
  BY <1>4, RunType
<1>5. CASE Collect
  BY <1>5, CollectType
<1>6. CASE ReadError
  <2>1. Commands(First(command_buf, pos)) \subseteq Serials
    BY LostType, CommandsType DEF TypeInv
  <2>2. env' \in [faults : 0..MaxFaults, reboots : 0..MaxReboots]
    BY <1>6, BoundsAssumption DEF ReadError, TypeInv, TypeOK
  <2>3. 0 \in Index
    BY LengthsAssumption DEF Index
  <2> QED
    BY <1>6, <2>1, <2>2, <2>3 DEF ReadError, TypeInv, TypeOK
<1>7. CASE Reboot
  <2>1. env' \in [faults : 0..MaxFaults, reboots : 0..MaxReboots]
    BY <1>7, BoundsAssumption DEF Reboot, TypeInv, TypeOK
  <2> QED
    BY <1>7, <2>1, LostType, RestartType DEF Reboot, TypeInv, TypeOK
<1>8. CASE UNCHANGED vars
  BY <1>8 DEF vars, TypeInv, TypeOK
<1> QED
  BY <1>1, <1>2, <1>3, <1>4, <1>5, <1>6, <1>7, <1>8 DEF Next, Client, UartTask

LEMMA InitType == Init => TypeInv
<1>1. 0 \in Index /\ <<>> \in Seq(Byte) /\ <<>> \in Seq(Seq(Byte \cup {Nul}))
  BY LengthsAssumption DEF Index
<1> QED
  BY <1>1, BoundsAssumption DEF Init, TypeInv, TypeOK, Serials

LEMMA TypeInvCorrect == Spec => []TypeInv
BY InitType, NextType, PTL DEF Spec

(* command_buf_pos never reaches COMMAND_BUF_LEN between two reads, so     *)
(* each read finds room; whatever the client, the faults and the restarts  *)
(* (uart.rs:79, 109-137).                                                  *)
THEOREM TypeCorrect == Spec => []TypeOK
<1>1. TypeInv => TypeOK
  BY DEF TypeInv
<1> QED
  BY <1>1, TypeInvCorrect, PTL

-----------------------------------------------------------------------------
(* What a read finds while nothing has gone wrong: more of the last        *)
(* command; a byte of it is the line's end only if it is its last one.     *)
LEMMA ReadFlow ==
  ASSUME TypeInv, FlowInv, ~reported, rx # <<>>
  PROVE  /\ Around > 0 /\ Around = Top + Len(Rest) + Len(wire)
         /\ Around \in Nat /\ Gone \in Nat /\ length[sent] = Gone + Around
         /\ sent > 0 /\ sent \in Serials
         /\ \A j \in 0..(Top - 1) : Read[j] = <<sent, Gone + j + 1>>
         /\ \A j \in 1..Len(Rest) : Rest[j] = <<sent, Gone + Top + j>>
         /\ \A j \in 0..(Top - 1) : IsEnd(Read[j]) <=> j + 1 = Around
<1>1. /\ Taken \in Nat /\ Top \in 1..BufLen /\ Top = pos + Taken
      /\ Len(Rest) = Len(rx) - Taken /\ Len(Rest) \in Nat
      /\ Len(rx) \in Nat /\ Len(wire) \in Nat /\ pos \in Nat /\ Len(rx) > 0 /\ BufLen \in Nat
  BY ReadFacts, RxLen, TakenBounds, LengthsAssumption DEF TypeInv
<1>2. Around > 0 /\ Around = Top + Len(Rest) + Len(wire) /\ Around \in Nat
  BY <1>1 DEF Around
<1>3. /\ sent > 0 /\ Around <= length[sent]
      /\ \A j \in 0..(pos - 1) : command_buf[j] = <<sent, Gone + j + 1>>
      /\ \A j \in 1..Len(rx) : rx[j] = <<sent, Gone + pos + j>>
  BY <1>2 DEF FlowInv
<1>4. sent \in Serials /\ length[sent] \in Nat
  BY <1>3, BoundsAssumption DEF TypeInv, TypeOK, Serials
<1>5. Gone \in Nat /\ length[sent] = Gone + Around
  BY <1>2, <1>3, <1>4 DEF Gone
<1>6. ASSUME NEW j \in 0..(Top - 1) PROVE Read[j] = <<sent, Gone + j + 1>>
  <2>1. CASE j < pos
    <3>1. j \in 0..(pos - 1)
      BY <1>1, <2>1
    <3> QED
      BY <1>3, <3>1, ReadFacts DEF TypeInv
  <2>2. CASE j >= pos
    <3>1. j \in pos..(Top - 1) /\ j - pos + 1 \in 1..Len(rx)
      BY <1>1, <2>2
    <3>2. Read[j] = <<sent, Gone + pos + (j - pos + 1)>>
      BY <1>3, <3>1, ReadFacts DEF TypeInv
    <3>3. Gone + pos + (j - pos + 1) = Gone + j + 1
      BY <1>1, <1>5
    <3> QED
      BY <3>2, <3>3
  <2> QED
    BY <1>1, <2>1, <2>2
<1>7. ASSUME NEW j \in 1..Len(Rest) PROVE Rest[j] = <<sent, Gone + Top + j>>
  <2>1. Taken + j \in 1..Len(rx) /\ Rest[j] = rx[Taken + j]
    BY <1>1, ReadFacts DEF TypeInv
  <2>2. Rest[j] = <<sent, Gone + pos + (Taken + j)>>
    BY <1>3, <2>1
  <2>3. Gone + pos + (Taken + j) = Gone + Top + j
    BY <1>1, <1>5
  <2> QED
    BY <2>2, <2>3
<1>8. ASSUME NEW j \in 0..(Top - 1) PROVE IsEnd(Read[j]) <=> j + 1 = Around
  <2>1. Read[j] = <<sent, Gone + j + 1>> /\ Read[j] # Nul
    BY <1>3, <1>4, <1>6 DEF Nul, Serials
  <2>2. IsEnd(Read[j]) <=> Gone + j + 1 = length[sent]
    BY <2>1 DEF IsEnd
  <2> QED
    BY <1>2, <1>5, <2>2
<1> QED
  BY <1>2, <1>3, <1>4, <1>5, <1>6, <1>7, <1>8

(* So a command is run when all of what is left of it has been read, and   *)
(* unless an error is reported there is nothing left of it afterwards.     *)
LEMMA RunFlow ==
  ASSUME TypeInv, FlowInv, NEW fine \in BOOLEAN, NEW reset \in BOOLEAN, Run(fine, reset),
         ~reported'
  PROVE  /\ ~reported /\ rx # <<>>
         /\ Consumed(Read, Top) = Top /\ Top = Around
         /\ pos' = 0 /\ rx' = <<>> /\ wire' = <<>>
         /\ Answered \/ UNCHANGED owed
<1> DEFINE consumed == Consumed(Read, Top)
<1>1. fine /\ ~reported /\ rx # <<>> /\ consumed > 0
  BY RunStep
<1>2. /\ Top \in Nat /\ Top > 0 /\ Len(Rest) \in Nat /\ Len(wire) \in Nat /\ Rest \in Seq(Byte)
      /\ wire \in Seq(Byte) /\ BufLen \in Nat /\ BufLen > 0
  BY <1>1, ReadFacts, RxLen, TakenBounds, LengthsAssumption DEF TypeInv, TypeOK
<1>3. consumed \in 1..Top /\ IsEnd(Read[consumed - 1])
  BY <1>1, <1>2, ConsumedLine
<1>4. consumed - 1 \in 0..(Top - 1)
  BY <1>2, <1>3
<1>5. consumed = Around /\ Around = Top + Len(Rest) + Len(wire)
  BY <1>1, <1>2, <1>3, <1>4, ReadFlow
<1>6. consumed = Top /\ Len(Rest) = 0 /\ Len(wire) = 0
  BY <1>2, <1>3, <1>5
<1>7. Rest = <<>> /\ wire = <<>>
  BY <1>2, <1>6, EmptySeq
<1>8. Left(Top, consumed) = 0 /\ ~Overflows(0)
  BY <1>2, <1>6 DEF Left, Overflows
<1>9. pos' = 0 /\ rx' = <<>> /\ (Answered \/ UNCHANGED owed)
  BY <1>1, <1>7, <1>8, RunStep DEF Restart
<1> QED
  BY <1>1, <1>5, <1>6, <1>7, <1>9, RunStep

(* At most one command is unanswered. *)
LEMMA NextOwed ==
  ASSUME Window = 1, TypeInv, owed <= 1, [Next]_vars
  PROVE  owed' <= 1
<1>0. owed \in Nat
  BY BoundsAssumption DEF TypeInv, TypeOK
<1>1. Answered => owed' <= 1
  BY <1>0 DEF Answered
<1>2. ASSUME NEW len, Send(len) PROVE owed' <= 1
  BY <1>0, <1>2 DEF Send
<1>3. ASSUME NEW fine, NEW reset, Run(fine, reset) PROVE owed' <= 1
  BY <1>1, <1>3, RunStep
<1>4. CASE Collect
  BY <1>1, <1>4, CollectStep
<1>5. CASE GiveUp \/ Receive \/ ReadError \/ Reboot \/ UNCHANGED vars
  BY <1>5 DEF GiveUp, Receive, ReadError, Reboot, vars
<1> QED
  BY <1>2, <1>3, <1>4, <1>5 DEF Next, Client, UartTask

(* Nothing is around: nothing is left to say. *)
LEMMA FlowEmpty ==
  ASSUME pos' = 0, rx' = <<>>, wire' = <<>>, owed' <= 1
  PROVE  FlowInv' /\ Around' = 0
<1>1. Len(rx') = 0 /\ Len(wire') = 0
  BY EmptySeq
<1> QED
  BY <1>1 DEF FlowInv, Around

LEMMA SendFlow ==
  ASSUME Window = 1, TypeInv, FlowInv, NEW len \in Lengths, Send(len), owed' <= 1, ~reported
  PROVE  FlowInv' /\ Around = 0 /\ Around' = len /\ Gone' = 0
<1>1. /\ Len(rx) \in Nat /\ Len(wire) \in Nat /\ pos \in Nat /\ owed \in Nat
      /\ wire \in Seq(Byte) /\ rx \in Seq(Byte)
  BY RxLen, BoundsAssumption DEF TypeInv, TypeOK
<1>2. owed = 0 /\ owed' = 1 /\ UNCHANGED <<pos, rx, reported>>
  BY <1>1 DEF Send
<1>3. Around = 0 /\ pos = 0 /\ Len(rx) = 0 /\ Len(wire) = 0
  BY <1>1, <1>2 DEF FlowInv, Around
<1>4. wire = <<>>
  BY <1>1, <1>3, EmptySeq
<1>5. wire' = Line(sent)'
  BY <1>4, SendLine, ConcatEmptySeq
<1>6. /\ Len(wire') = len /\ \A i \in 1..len : wire'[i] = <<sent', i>>
      /\ length'[sent'] = len /\ sent' \in Nat /\ sent' > 0 /\ len \in Nat /\ len > 0
  BY <1>5, SendLine, LengthsAssumption DEF Serials
<1>7. Around' = len /\ Gone' = 0
  BY <1>2, <1>3, <1>6 DEF Around, Gone
<1>8. \A j \in 1..Len(wire') : wire'[j] = <<sent', Gone' + pos' + Len(rx') + j>>
  BY <1>2, <1>3, <1>6, <1>7
<1> QED
  BY <1>2, <1>3, <1>6, <1>7, <1>8 DEF FlowInv

LEMMA GiveUpFlow == ASSUME TypeInv, FlowInv, GiveUp PROVE FlowInv'
<1>1. UNCHANGED <<command_buf, pos, rx, wire, sent, length, reported>> /\ owed' = 0
      /\ rx = <<>> /\ wire = <<>> /\ pos \in Nat
  BY RxLen DEF GiveUp, TypeInv
<1>2. Len(rx) = 0 /\ Len(wire) = 0
  BY <1>1, EmptySeq
<1>3. ~reported => Around = 0
  BY <1>1, <1>2 DEF FlowInv, Around
<1> QED
  BY <1>1, <1>3 DEF FlowInv, Around, Gone

LEMMA CollectFlow ==
  ASSUME TypeInv, FlowInv, Collect, owed' <= 1, ~reported'
  PROVE  FlowInv' /\ ~reported /\ Around' = Around /\ Gone' = Gone /\ Around > 0
<1>1. /\ ~reported /\ rx # <<>> /\ Consumed(Read, Top) = 0
      /\ command_buf' = Read /\ rx' = Rest /\ pos' = Top
      /\ UNCHANGED <<owed, wire, sent, length>>
  <2>1. ~Overflows(Top)
    BY CollectStep, Zenon
  <2>2. pos' = Top /\ reported' = reported /\ owed' = owed
    BY <2>1, CollectStep
  <2>3. ~reported
    BY <2>2
  <2> QED
    BY <2>2, <2>3, CollectStep
<1>2. /\ Top \in Nat /\ Top > 0 /\ Len(Rest) \in Nat /\ Len(wire) \in Nat
  BY <1>1, ReadFacts, RxLen, TakenBounds DEF TypeInv
<1>3. Around > 0 /\ Around = Top + Len(Rest) + Len(wire) /\ Around \in Nat
  BY <1>1, ReadFlow
<1>4. Around' = Around /\ Gone' = Gone
  BY <1>1, <1>3 DEF Around, Gone
<1>5. ~IsEnd(Read[Top - 1]) /\ Top - 1 \in 0..(Top - 1)
  BY <1>1, <1>2, ConsumedLine
<1>6. Top # Around
  BY <1>1, <1>2, <1>5, ReadFlow
<1>7. Len(rx') + Len(wire') > 0
  BY <1>1, <1>2, <1>3, <1>6
<1>8. sent > 0 /\ Around <= length[sent]
  BY <1>1, <1>3 DEF FlowInv
<1>9. \A j \in 1..Len(wire) : wire[j] = <<sent, Gone + pos + Len(rx) + j>>
  BY <1>1, <1>3 DEF FlowInv
<1>10. pos + Len(rx) = Top + Len(Rest) /\ Gone \in Nat /\ pos \in Nat /\ Len(rx) \in Nat
  BY <1>1, <1>2, ReadFacts, ReadFlow, RxLen DEF TypeInv
<1>11. \A j \in 1..Len(wire') : wire'[j] = <<sent', Gone' + pos' + Len(rx') + j>>
  <2> SUFFICES ASSUME NEW j \in 1..Len(wire)
               PROVE  wire[j] = <<sent, Gone + Top + Len(Rest) + j>>
    BY <1>1, <1>4
  <2>1. Gone + pos + Len(rx) + j = Gone + Top + Len(Rest) + j
    BY <1>2, <1>10
  <2> QED
    BY <1>9, <2>1
<1>12. \A j \in 0..(pos' - 1) : command_buf'[j] = <<sent', Gone' + j + 1>>
  BY <1>1, <1>4, ReadFlow
<1>13. \A j \in 1..Len(rx') : rx'[j] = <<sent', Gone' + pos' + j>>
  BY <1>1, <1>4, ReadFlow
<1>14. owed # 0
  BY <1>1, <1>3 DEF FlowInv
<1> QED
  BY <1>1, <1>3, <1>4, <1>7, <1>8, <1>11, <1>12, <1>13, <1>14 DEF FlowInv

(* Whatever moves on, or is lost off the front, the bytes that remain are  *)
(* the last ones of the command.                                           *)
LEMMA ReceiveFlow ==
  ASSUME TypeInv, FlowInv, Receive
  PROVE  FlowInv' /\ Around' = Around /\ Gone' = Gone
<1>1. PICK n \in 1..Len(wire) :
        /\ rx' = rx \o SubSeq(wire, 1, n) /\ wire' = SubSeq(wire, n + 1, Len(wire))
        /\ UNCHANGED <<command_buf, pos, sent, owed, length, executed, cut, reported, env>>
  BY DEF Receive
<1>2. /\ Len(rx) \in Nat /\ Len(wire) \in Nat /\ pos \in Nat /\ n \in Nat /\ rx \in Seq(Byte)
      /\ sent \in Nat
  BY RxLen DEF TypeInv, TypeOK
<1>3. /\ SubSeq(wire, 1, n) \in Seq(Byte) /\ Len(SubSeq(wire, 1, n)) = n
      /\ \A i \in 1..n : SubSeq(wire, 1, n)[i] = wire[i]
      /\ Len(wire') = Len(wire) - n
      /\ \A i \in 1..(Len(wire) - n) : wire'[i] = wire[n + i]
  BY <1>1, ReceivePart DEF TypeInv
<1>4. /\ Len(rx') = Len(rx) + n
      /\ \A i \in 1..(Len(rx) + n) :
           rx'[i] = IF i <= Len(rx) THEN rx[i] ELSE SubSeq(wire, 1, n)[i - Len(rx)]
  BY <1>1, <1>2, <1>3, ConcatProperties
<1>5. Around' = Around /\ Gone' = Gone
  <2>1. pos' = pos /\ length' = length /\ sent' = sent
    BY <1>1
  <2>2. pos + Len(rx') + Len(wire') = pos + Len(rx) + Len(wire)
    BY <1>2, <1>3, <1>4
  <2>3. Around' = Around
    BY <2>1, <2>2 DEF Around
  <2> QED
    BY <2>1, <2>3 DEF Gone
<1>6. ASSUME ~reported, Around > 0
      PROVE  /\ \A j \in 1..Len(rx') : rx'[j] = <<sent, Gone + pos + j>>
             /\ \A j \in 1..Len(wire') : wire'[j] = <<sent, Gone + pos + Len(rx') + j>>
  <2>1. /\ \A j \in 1..Len(rx) : rx[j] = <<sent, Gone + pos + j>>
        /\ \A j \in 1..Len(wire) : wire[j] = <<sent, Gone + pos + Len(rx) + j>>
        /\ Around <= length[sent] /\ sent \in Serials
    BY <1>2, <1>6 DEF FlowInv, TypeInv, TypeOK, Serials
  <2>2. Gone \in Nat
    BY <1>2, <2>1 DEF Gone, Around, TypeInv, TypeOK
  <2>3. ASSUME NEW j \in 1..Len(rx') PROVE rx'[j] = <<sent, Gone + pos + j>>
    <3>1. CASE j <= Len(rx)
      BY <1>2, <1>4, <2>1, <3>1
    <3>2. CASE j > Len(rx)
      <4>1. j - Len(rx) \in 1..n /\ j - Len(rx) \in 1..Len(wire)
        BY <1>2, <1>4, <3>2
      <4>2. rx'[j] = wire[j - Len(rx)]
        BY <1>2, <1>3, <1>4, <3>2, <4>1
      <4>3. Gone + pos + Len(rx) + (j - Len(rx)) = Gone + pos + j
        BY <1>2, <2>2
      <4> QED
        BY <2>1, <4>1, <4>2, <4>3
    <3> QED
      BY <1>2, <1>4, <3>1, <3>2
  <2>4. ASSUME NEW j \in 1..Len(wire') PROVE wire'[j] = <<sent, Gone + pos + Len(rx') + j>>
    <3>1. n + j \in 1..Len(wire) /\ wire'[j] = wire[n + j]
      BY <1>2, <1>3
    <3>2. Gone + pos + Len(rx) + (n + j) = Gone + pos + Len(rx') + j
      BY <1>2, <1>4, <2>2
    <3> QED
      BY <2>1, <3>1, <3>2
  <2> QED
    BY <2>3, <2>4
<1>7. Len(rx') + Len(wire') = Len(rx) + Len(wire)
  BY <1>2, <1>3, <1>4
<1> QED
  BY <1>1, <1>5, <1>6, <1>7 DEF FlowInv

LEMMA ReadErrorFlow ==
  ASSUME TypeInv, FlowInv, ReadError
  PROVE  /\ FlowInv'
         /\ ~reported => Around' = Around - pos /\ Gone' = Gone + pos /\ Around > 0
<1>1. /\ pos' = 0 /\ UNCHANGED <<command_buf, rx, wire, sent, owed, length, reported>>
      /\ rx # <<>>
  BY DEF ReadError
<1>2. Len(rx) \in Nat /\ Len(rx) > 0 /\ Len(wire) \in Nat /\ pos \in Nat
  BY <1>1, RxLen DEF TypeInv
<1>3. Around \in Nat /\ Around > 0 /\ Around' = Around - pos
  BY <1>1, <1>2 DEF Around
<1>4. ASSUME ~reported PROVE Gone' = Gone + pos /\ Gone \in Nat /\ Around <= length[sent]
  <2>1. sent \in Serials /\ Around <= length[sent]
    BY <1>3, <1>4 DEF FlowInv, TypeInv, TypeOK, Serials
  <2>2. length[sent] \in Nat
    BY <2>1 DEF TypeInv, TypeOK
  <2> QED
    BY <1>1, <1>2, <1>3, <2>1, <2>2 DEF Gone
<1>5. ASSUME ~reported PROVE \A j \in 1..Len(rx) : rx[j] = <<sent, Gone' + 0 + j>>
  BY <1>2, <1>3, <1>4, <1>5 DEF FlowInv
<1>6. ASSUME ~reported PROVE \A j \in 1..Len(wire) : wire[j] = <<sent, Gone' + 0 + Len(rx) + j>>
  BY <1>2, <1>3, <1>4, <1>6 DEF FlowInv
<1>7. ASSUME ~reported PROVE owed # 0 /\ sent > 0 /\ Around' <= length[sent]
  <2>1. owed # 0 /\ sent > 0 /\ Around <= length[sent] /\ sent \in Serials
    BY <1>3, <1>7 DEF FlowInv, TypeInv, TypeOK, Serials
  <2>2. length[sent] \in Nat
    BY <2>1 DEF TypeInv, TypeOK
  <2> QED
    BY <1>2, <1>3, <2>1, <2>2
<1>8. owed' <= 1
  BY <1>1 DEF FlowInv
<1> QED
  BY <1>1, <1>3, <1>4, <1>5, <1>6, <1>7, <1>8 DEF FlowInv

LEMMA RebootFlow ==
  ASSUME TypeInv, FlowInv, Reboot
  PROVE  /\ FlowInv'
         /\ ~reported => /\ Around' = Around - pos - Len(rx)
                         /\ Around > 0 => Gone' = Gone + pos + Len(rx)
<1>1. /\ pos' = 0 /\ rx' = <<>> /\ UNCHANGED <<wire, sent, owed, length, reported>>
  BY DEF Reboot, Restart
<1>2. Len(rx) \in Nat /\ Len(wire) \in Nat /\ pos \in Nat /\ Len(rx') = 0
  BY <1>1, RxLen, EmptySeq DEF TypeInv
<1>3. Around \in Nat /\ Around' = Len(wire) /\ Around' = Around - pos - Len(rx)
  BY <1>1, <1>2 DEF Around
<1>4. ASSUME ~reported, Around > 0
      PROVE  /\ Gone' = Gone + pos + Len(rx) /\ Gone \in Nat
             /\ Around' <= length[sent] /\ sent > 0
  <2>1. sent \in Serials /\ sent > 0 /\ Around <= length[sent]
    BY <1>4 DEF FlowInv, TypeInv, TypeOK, Serials
  <2>2. length[sent] \in Nat
    BY <2>1 DEF TypeInv, TypeOK
  <2> QED
    BY <1>1, <1>2, <1>3, <2>1, <2>2 DEF Gone
<1>5. ASSUME ~reported, Around' > 0
      PROVE  \A j \in 1..Len(wire) : wire[j] = <<sent, Gone' + 0 + 0 + j>>
  <2>1. Around > 0
    BY <1>2, <1>3, <1>5
  <2>2. \A j \in 1..Len(wire) : wire[j] = <<sent, Gone + pos + Len(rx) + j>>
    BY <1>5, <2>1 DEF FlowInv
  <2> QED
    BY <1>2, <1>4, <1>5, <2>1, <2>2
<1>6. ASSUME ~reported, owed = 0 PROVE Around' = 0
  BY <1>2, <1>3, <1>6 DEF FlowInv
<1>7. Around' > 0 => Around > 0
  BY <1>2, <1>3
<1>8. owed' <= 1
  BY <1>1 DEF FlowInv
<1> QED
  BY <1>1, <1>2, <1>3, <1>4, <1>5, <1>6, <1>7, <1>8 DEF FlowInv

LEMMA NextFlow == ASSUME Window = 1, TypeInv, FlowInv, [Next]_vars PROVE FlowInv'
<1>0. owed' <= 1
  BY NextOwed DEF FlowInv
<1>1. CASE reported'
  BY <1>0, <1>1 DEF FlowInv
<1> SUFFICES ASSUME ~reported' PROVE FlowInv'
  BY <1>1
<1>2. ASSUME NEW len \in Lengths, Send(len) PROVE FlowInv'
  BY <1>0, <1>2, SendFlow DEF Send
<1>3. ASSUME NEW fine \in BOOLEAN, NEW reset \in BOOLEAN, Run(fine, reset) PROVE FlowInv'
  BY <1>0, <1>3, RunFlow, FlowEmpty
<1>4. CASE Collect
  BY <1>0, <1>4, CollectFlow
<1>5. CASE UNCHANGED vars
  BY <1>5 DEF vars, FlowInv, Around, Gone
<1> QED
  BY <1>2, <1>3, <1>4, <1>5, GiveUpFlow, ReceiveFlow, ReadErrorFlow, RebootFlow
  DEF Next, Client, UartTask

LEMMA InitFlow == Init => FlowInv
<1>1. Len(<<>>) = 0
  BY EmptySeq
<1> QED
  BY <1>1 DEF Init, FlowInv, Around

LEMMA FlowCorrect == ASSUME Window = 1 PROVE Spec => []FlowInv
<1>1. TypeInv /\ FlowInv /\ [Next]_vars => FlowInv'
  BY NextFlow
<1> QED
  BY <1>1, InitFlow, TypeInvCorrect, PTL DEF Spec

(* The bytes around, one after the other. *)
LEMMA PendingBytes ==
  ASSUME TypeInv, FlowInv, ~reported
  PROVE  LET pending == Buffered \o rx \o wire
         IN  /\ pending \in Seq(Bytes) /\ Len(pending) = Around /\ Around \in Nat
             /\ \A i \in 1..Around : pending[i] = <<sent, Gone + i>>
<1> DEFINE front == Buffered \o rx
           pending == front \o wire
<1>1. /\ Buffered \in Seq(Bytes) /\ Len(Buffered) = pos
      /\ \A i \in 1..pos : Buffered[i] = command_buf[i - 1]
  BY LostType DEF TypeInv, Buffered
<1>2. /\ rx \in Seq(Bytes) /\ wire \in Seq(Bytes)
      /\ Len(rx) \in Nat /\ Len(wire) \in Nat /\ pos \in Nat
  BY RxLen, SeqMonotonic DEF TypeInv, TypeOK, Bytes
<1>3. /\ front \in Seq(Bytes) /\ Len(front) = pos + Len(rx)
      /\ \A i \in 1..(pos + Len(rx)) :
           front[i] = IF i <= pos THEN Buffered[i] ELSE rx[i - pos]
  BY <1>1, <1>2, ConcatProperties
<1> HIDE DEF front
<1>4. /\ pending \in Seq(Bytes) /\ Len(pending) = Len(front) + Len(wire)
      /\ \A i \in 1..(Len(front) + Len(wire)) :
           pending[i] = IF i <= Len(front) THEN front[i] ELSE wire[i - Len(front)]
  <2>1. front \in Seq(Bytes) /\ wire \in Seq(Bytes)
    BY <1>2, <1>3
  <2> QED
    BY <2>1, ConcatProperties
<1>5. /\ pending \in Seq(Bytes) /\ Len(pending) = pos + Len(rx) + Len(wire)
      /\ \A i \in 1..(pos + Len(rx) + Len(wire)) :
           pending[i] = IF i <= pos + Len(rx) THEN front[i] ELSE wire[i - (pos + Len(rx))]
  <2> HIDE DEF pending
  <2> QED
    BY <1>3, <1>4
<1> HIDE DEF pending
<1>6. Around = pos + Len(rx) + Len(wire) /\ Around \in Nat
  BY <1>2 DEF Around
<1>7. ASSUME NEW i \in 1..Around PROVE pending[i] = <<sent, Gone + i>>
  <2>1. /\ Around > 0 /\ sent \in Serials /\ Around <= length[sent]
        /\ \A j \in 0..(pos - 1) : command_buf[j] = <<sent, Gone + j + 1>>
        /\ \A j \in 1..Len(rx) : rx[j] = <<sent, Gone + pos + j>>
        /\ \A j \in 1..Len(wire) : wire[j] = <<sent, Gone + pos + Len(rx) + j>>
    BY <1>6, <1>7 DEF FlowInv, TypeInv, TypeOK, Serials
  <2>2. Gone \in Nat
    BY <1>6, <2>1 DEF Gone, TypeInv, TypeOK
  <2>3. CASE i <= pos
    <3>1. pending[i] = command_buf[i - 1] /\ i - 1 \in 0..(pos - 1)
      BY <1>1, <1>2, <1>3, <1>5, <1>6, <2>3
    <3>2. Gone + (i - 1) + 1 = Gone + i
      BY <2>2
    <3> QED
      BY <2>1, <3>1, <3>2
  <2>4. CASE i > pos /\ i <= pos + Len(rx)
    <3>1. pending[i] = rx[i - pos] /\ i - pos \in 1..Len(rx)
      BY <1>2, <1>3, <1>5, <1>6, <2>4
    <3>2. Gone + pos + (i - pos) = Gone + i
      BY <1>2, <2>2
    <3> QED
      BY <2>1, <3>1, <3>2
  <2>5. CASE i > pos + Len(rx)
    <3>1. /\ pending[i] = wire[i - (pos + Len(rx))]
          /\ i - (pos + Len(rx)) \in 1..Len(wire)
      BY <1>2, <1>5, <1>6, <2>5
    <3>2. Gone + pos + Len(rx) + (i - (pos + Len(rx))) = Gone + i
      BY <1>2, <2>2
    <3> QED
      BY <2>1, <3>1, <3>2
  <2> QED
    BY <1>2, <2>3, <2>4, <2>5
<1> QED
  BY <1>5, <1>6, <1>7 DEF pending, front

(* The end of a line, as a part of it and by its bytes. *)
LEMMA LineParts ==
  ASSUME TypeOK, NEW k \in Serials, NEW b \in Nat, b < length[k]
  PROVE  /\ LineFrom(k, b) \in Seq(Bytes) /\ Len(LineFrom(k, b)) = length[k] - b
         /\ \A m \in 1..(length[k] - b) : LineFrom(k, b)[m] = <<k, b + m>>
         /\ LineFrom(k, b)[1][1] = k
         /\ LineFrom(k, b) = SubSeq(Line(k), b + 1, length[k])
         /\ Line(k) = LineFrom(k, 0)
         /\ Line(k) \in Seq(Bytes) /\ Len(Line(k)) = length[k]
         /\ \A m \in 1..length[k] : Line(k)[m] = <<k, m>>
<1>1. length[k] \in Nat /\ length[k] - b \in Nat /\ length[k] - b > 0
  BY DEF TypeOK
<1>2. LineFrom(k, b) \in [1..(length[k] - b) -> Bytes]
  BY <1>1 DEF LineFrom, Bytes, Byte
<1>3. LineFrom(k, b) \in Seq(Bytes) /\ Len(LineFrom(k, b)) = length[k] - b
  BY <1>1, <1>2, SeqDef
<1>4. \A m \in 1..(length[k] - b) : LineFrom(k, b)[m] = <<k, b + m>>
  BY DEF LineFrom
<1>5. LineFrom(k, b)[1][1] = k
  <2>1. LineFrom(k, b)[1] = <<k, b + 1>>
    BY <1>1, <1>4
  <2> QED
    BY <2>1
<1>6. Line(k) \in [1..length[k] -> Bytes]
  BY <1>1 DEF Line, Bytes, Byte
<1>7. /\ Line(k) \in Seq(Bytes) /\ Len(Line(k)) = length[k]
      /\ \A m \in 1..length[k] : Line(k)[m] = <<k, m>>
  BY <1>1, <1>6, SeqDef DEF Line
<1>8. LineFrom(k, b) = SubSeq(Line(k), b + 1, length[k])
  <2>1. \A i \in (b + 1)..length[k] : Line(k)[i] \in Bytes
    BY <1>1, <1>7, ElementOfSeq
  <2>2. /\ SubSeq(Line(k), b + 1, length[k]) \in Seq(Bytes)
        /\ Len(SubSeq(Line(k), b + 1, length[k]))
             = IF b + 1 <= length[k] THEN length[k] - (b + 1) + 1 ELSE 0
        /\ \A i \in 1..(length[k] - (b + 1) + 1) :
             SubSeq(Line(k), b + 1, length[k])[i] = Line(k)[(b + 1) + i - 1]
    BY <1>1, <2>1, SubSeqProperties
  <2>3. Len(SubSeq(Line(k), b + 1, length[k])) = length[k] - b
    BY <1>1, <2>2
  <2>4. ASSUME NEW i \in 1..(length[k] - b)
        PROVE  LineFrom(k, b)[i] = SubSeq(Line(k), b + 1, length[k])[i]
    <3>1. (b + 1) + i - 1 = b + i /\ b + i \in 1..length[k]
          /\ i \in 1..(length[k] - (b + 1) + 1)
      BY <1>1
    <3> QED
      BY <1>4, <1>7, <2>2, <3>1
  <2> QED
    BY <1>3, <2>2, <2>3, <2>4, SeqEqual
<1>9. Line(k) = LineFrom(k, 0)
  BY <1>1 DEF Line, LineFrom
<1> QED
  BY <1>3, <1>4, <1>5, <1>7, <1>8, <1>9

(* With a client that waits for each answer, and until an error has been   *)
(* reported to it, the bytes that are still somewhere are the end of its   *)
(* last command, and once that is answered there are none: no read error,  *)
(* restart or panic shifts the stream (uart.rs:109-137).                   *)
THEOREM StaysInStep == ASSUME Window = 1 PROVE Spec => []InStep
<1>1. TypeInv /\ FlowInv => InStep
  <2> SUFFICES ASSUME TypeInv, FlowInv, ~reported PROVE InStep
    BY DEF InStep
  <2> DEFINE pending == Buffered \o rx \o wire
  <2>1. /\ pending \in Seq(Bytes) /\ Len(pending) = Around /\ Around \in Nat
        /\ \A i \in 1..Around : pending[i] = <<sent, Gone + i>>
    BY PendingBytes
  <2> HIDE DEF pending
  <2>2. ASSUME owed = 0 PROVE pending = <<>>
    BY <2>1, <2>2, EmptySeq DEF FlowInv
  <2>3. ASSUME pending # <<>>
        PROVE  \E i \in 1..length[sent] : pending = SubSeq(Line(sent), i, length[sent])
    <3>1. Around > 0
      BY <2>1, <2>3, EmptySeq
    <3>2. sent \in Serials /\ Around <= length[sent]
      BY <3>1 DEF FlowInv, TypeInv, TypeOK, Serials
    <3>3. length[sent] \in Nat /\ Gone \in Nat /\ Gone < length[sent]
          /\ length[sent] - Gone = Around
      BY <2>1, <3>1, <3>2 DEF Gone, TypeInv, TypeOK
    <3>4. pending = LineFrom(sent, Gone)
      <4>1. /\ LineFrom(sent, Gone) \in Seq(Bytes) /\ Len(LineFrom(sent, Gone)) = Around
            /\ \A m \in 1..Around : LineFrom(sent, Gone)[m] = <<sent, Gone + m>>
        BY <3>2, <3>3, LineParts DEF TypeInv
      <4>2. \A m \in 1..Len(pending) : pending[m] = LineFrom(sent, Gone)[m]
        BY <2>1, <4>1
      <4> QED
        BY <2>1, <4>1, <4>2, SeqEqual
    <3>5. pending = SubSeq(Line(sent), Gone + 1, length[sent])
      BY <3>2, <3>3, <3>4, LineParts DEF TypeInv
    <3>6. Gone + 1 \in 1..length[sent]
      BY <3>3
    <3> QED
      BY <3>5, <3>6
  <2> QED
    BY <2>2, <2>3 DEF InStep, pending
<1> QED
  BY <1>1, TypeInvCorrect, FlowCorrect, PTL

-----------------------------------------------------------------------------
(* A byte of the last command that is lost leaves its mark in cut. *)
LEMMA LostMarked ==
  ASSUME NEW k \in Serials, NEW bytes \in Seq(Bytes), Len(bytes) > 0, bytes[1][1] = k,
         bytes[1] # Nul
  PROVE  k \in Commands(bytes)
<1>1. 1 \in DOMAIN bytes
  BY LenProperties
<1> QED
  BY <1>1 DEF Commands, ToSet

LEMMA FrontLost ==
  ASSUME TypeInv, FlowInv, ~reported, Around > 0
  PROVE  /\ sent \in Serials
         /\ pos > 0 => sent \in Commands(First(command_buf, pos))
         /\ pos + Len(rx) > 0 => sent \in Commands(First(command_buf, pos) \o rx)
<1>1. sent \in Serials /\ sent > 0
  BY DEF FlowInv, TypeInv, TypeOK, Serials
<1>2. /\ First(command_buf, pos) \in Seq(Bytes) /\ Len(First(command_buf, pos)) = pos
      /\ \A i \in 1..pos : First(command_buf, pos)[i] = command_buf[i - 1]
      /\ rx \in Seq(Bytes) /\ Len(rx) \in Nat /\ pos \in Nat
  BY LostType, RxLen, SeqMonotonic DEF TypeInv, TypeOK, Bytes
<1>3. ASSUME NEW g PROVE <<sent, g>>[1] = sent /\ <<sent, g>> # Nul
  BY <1>1 DEF Nul
<1>4. ASSUME pos > 0
      PROVE  First(command_buf, pos)[1][1] = sent /\ First(command_buf, pos)[1] # Nul
  <2>1. First(command_buf, pos)[1] = command_buf[0] /\ 0 \in 0..(pos - 1)
    BY <1>2, <1>4
  <2>2. command_buf[0] = <<sent, Gone + 0 + 1>>
    BY <2>1 DEF FlowInv
  <2> QED
    BY <1>3, <2>1, <2>2
<1>5. ASSUME pos + Len(rx) > 0
      PROVE  LET lost == First(command_buf, pos) \o rx
             IN  lost \in Seq(Bytes) /\ Len(lost) > 0 /\ lost[1][1] = sent /\ lost[1] # Nul
  <2> DEFINE front == First(command_buf, pos)
             lost == front \o rx
  <2>0. front \in Seq(Bytes) /\ Len(front) = pos /\ rx \in Seq(Bytes)
        /\ (pos > 0 => front[1][1] = sent /\ front[1] # Nul)
    BY <1>2, <1>4
  <2> HIDE DEF front
  <2>1. /\ lost \in Seq(Bytes) /\ Len(lost) = pos + Len(rx)
        /\ \A i \in 1..(pos + Len(rx)) : lost[i] = IF i <= pos THEN front[i] ELSE rx[i - pos]
    BY <2>0, ConcatProperties
  <2> HIDE DEF lost
  <2>2. CASE pos > 0
    <3>1. lost[1] = front[1]
      BY <1>2, <2>1, <2>2
    <3> QED
      BY <1>2, <1>5, <2>0, <2>1, <2>2, <3>1 DEF lost, front
  <2>3. CASE pos = 0
    <3>1. lost[1] = rx[1] /\ 1 \in 1..Len(rx)
      BY <1>2, <1>5, <2>1, <2>3
    <3>2. rx[1] = <<sent, Gone + pos + 1>>
      BY <3>1 DEF FlowInv
    <3> QED
      BY <1>2, <1>3, <1>5, <2>1, <3>1, <3>2 DEF lost, front
  <2> QED
    BY <1>2, <2>2, <2>3
<1> QED
  BY <1>1, <1>2, <1>4, <1>5, LostMarked

(* The parts of RunInv. *)
LinesRun ==
  \A j \in 1..Len(executed) :
    \E k \in 1..sent, b \in Nat :
      /\ b < length[k] /\ executed[j] = LineFrom(k, b)
      /\ b = 0 \/ k \in cut
      /\ Around > 0 => k < sent
InOrder ==
  \A j \in 1..Len(executed) : \A m \in 1..(j - 1) : executed[m][1][1] < executed[j][1][1]
NoneLeftOut ==
  \A k \in (1..sent) \ cut :
    (k < sent \/ Around = 0) => \E j \in 1..Len(executed) : executed[j] = LineFrom(k, 0)

LEMMA RunInvParts ==
  RunInv <=> (~reported => /\ Around > 0 /\ Gone > 0 => sent \in cut
                           /\ LinesRun /\ InOrder /\ NoneLeftOut)
BY DEF RunInv, LinesRun, InOrder, NoneLeftOut

(* A step that runs nothing and sends nothing. *)
LEMMA NothingRun ==
  ASSUME ~reported, RunInv, sent \in Nat,
         UNCHANGED <<executed, sent, length>>, cut \subseteq cut',
         Around' > 0 => Around > 0,
         Around' = 0 => Around = 0 \/ sent \in cut',
         Around' > 0 /\ Gone' > 0 => sent' \in cut'
  PROVE  RunInv'
<1>1. LinesRun /\ InOrder /\ NoneLeftOut
  BY RunInvParts
<1>2. \A k, b : LineFrom(k, b)' = LineFrom(k, b)
  BY DEF LineFrom
<1>3. LinesRun'
  BY <1>1, <1>2 DEF LinesRun
<1>4. InOrder'
  BY <1>1 DEF InOrder
<1>5. NoneLeftOut'
  <2> SUFFICES ASSUME NEW k \in (1..sent) \ cut', k < sent \/ Around' = 0
               PROVE  \E j \in 1..Len(executed) : executed[j] = LineFrom(k, 0)'
    BY DEF NoneLeftOut
  <2>1. k \in (1..sent) \ cut /\ (k < sent \/ k = sent)
    OBVIOUS
  <2>2. k < sent \/ Around = 0
    BY <2>1
  <2>3. PICK j \in 1..Len(executed) : executed[j] = LineFrom(k, 0)
    BY <1>1, <2>1, <2>2 DEF NoneLeftOut
  <2> QED
    BY <1>2, <2>3
<1> QED
  BY <1>3, <1>4, <1>5, RunInvParts DEF RunInv, LinesRun, InOrder, NoneLeftOut

LEMMA SendRun ==
  ASSUME Window = 1, TypeInv, FlowInv, RunInv, NEW len \in Lengths, Send(len), owed' <= 1,
         ~reported
  PROVE  RunInv'
<1>1. LinesRun /\ InOrder /\ NoneLeftOut
  BY RunInvParts
<1>2. /\ Around = 0 /\ Around' = len /\ Gone' = 0 /\ len \in Nat /\ len > 0
      /\ sent' = sent + 1 /\ sent \in Nat /\ \A k \in 1..sent : length'[k] = length[k]
      /\ UNCHANGED <<executed, cut, reported>>
  <2>1. Around = 0 /\ Around' = len /\ Gone' = 0
    BY SendFlow
  <2>2. sent \in Nat /\ len \in Nat /\ len > 0 /\ length \in [Serials -> Nat]
    BY LengthsAssumption, BoundsAssumption DEF TypeInv, TypeOK
  <2>3. /\ sent' = sent + 1 /\ length' = [length EXCEPT ![sent + 1] = len]
        /\ UNCHANGED <<executed, cut, reported>>
    BY DEF Send
  <2>4. \A k \in 1..sent : length'[k] = length[k]
    BY SendLine
  <2> QED
    BY <2>1, <2>2, <2>3, <2>4
<1>3. \A k \in 1..sent : \A b : LineFrom(k, b)' = LineFrom(k, b)
  BY <1>2 DEF LineFrom
<1>4. \A k \in 1..sent : k \in 1..sent' /\ k < sent'
  BY <1>2
<1>5. LinesRun'
  <2> SUFFICES ASSUME NEW j \in 1..Len(executed)
               PROVE  \E k \in 1..sent', b \in Nat :
                        /\ b < length'[k] /\ executed[j] = LineFrom(k, b)'
                        /\ b = 0 \/ k \in cut
                        /\ Around' > 0 => k < sent'
    BY <1>2 DEF LinesRun
  <2>1. PICK k \in 1..sent, b \in Nat :
          b < length[k] /\ executed[j] = LineFrom(k, b) /\ (b = 0 \/ k \in cut)
    BY <1>1 DEF LinesRun
  <2> QED
    BY <1>2, <1>3, <1>4, <2>1
<1>6. InOrder'
  BY <1>1, <1>2 DEF InOrder
<1>7. NoneLeftOut'
  <2> SUFFICES ASSUME NEW k \in (1..sent') \ cut, k < sent'
               PROVE  \E j \in 1..Len(executed) : executed[j] = LineFrom(k, 0)'
    BY <1>2 DEF NoneLeftOut
  <2>1. k \in (1..sent) \ cut
    BY <1>2
  <2> QED
    BY <1>1, <1>2, <1>3, <2>1 DEF NoneLeftOut
<1> QED
  BY <1>2, <1>5, <1>6, <1>7, RunInvParts DEF RunInv, LinesRun, InOrder, NoneLeftOut

(* The line that is run is what is left of the last command. *)
LEMMA RunRun ==
  ASSUME TypeInv, FlowInv, RunInv, owed' <= 1,
         NEW fine \in BOOLEAN, NEW reset \in BOOLEAN, Run(fine, reset), ~reported'
  PROVE  RunInv'
<1> DEFINE line == First(Read, Top)
<1>1. /\ ~reported /\ rx # <<>> /\ Consumed(Read, Top) = Top /\ Top = Around
      /\ pos' = 0 /\ rx' = <<>> /\ wire' = <<>>
  BY RunFlow
<1>2. Around' = 0
  BY <1>1, FlowEmpty
<1>3. executed' = Append(executed, line) /\ sent' = sent /\ length' = length
  BY <1>1, RunStep
<1>4. cut \subseteq cut'
  BY RunStep DEF Restart
<1>5. LinesRun /\ InOrder /\ NoneLeftOut /\ (Gone > 0 => sent \in cut) /\ Around > 0
      /\ Gone \in Nat /\ length[sent] = Gone + Around /\ sent \in Serials /\ sent \in 1..sent
  <2>1. Around > 0 /\ Gone \in Nat /\ length[sent] = Gone + Around /\ sent \in Serials
    BY <1>1, ReadFlow
  <2>2. sent \in 1..sent
    BY <2>1 DEF Serials
  <2> QED
    BY <1>1, <2>1, <2>2, RunInvParts DEF RunInv
<1>6. line = LineFrom(sent, Gone) /\ line \in Seq(Bytes) /\ Gone < length[sent]
      /\ line[1][1] = sent
  <2>1. Top \in 0..BufLen /\ Read \in [Index -> Bytes] /\ BufLen \in Nat /\ Top \in Nat
    BY <1>1, ReadFacts, LengthsAssumption DEF TypeInv
  <2>2. line \in Seq(Bytes) /\ Len(line) = Top /\ \A i \in 1..Top : line[i] = Read[i - 1]
    BY <2>1, FirstType
  <2> HIDE DEF line
  <2>3. ASSUME NEW i \in 1..Top PROVE line[i] = <<sent, Gone + i>>
    <3>1. i - 1 \in 0..(Top - 1)
      BY <2>1
    <3>2. Read[i - 1] = <<sent, Gone + (i - 1) + 1>>
      BY <1>1, <3>1, ReadFlow
    <3>3. Gone + (i - 1) + 1 = Gone + i
      BY <1>5, <2>1
    <3> QED
      BY <2>2, <3>2, <3>3
  <2>4. Gone < length[sent] /\ length[sent] - Gone = Top
    BY <1>1, <1>5, <2>1
  <2>5. /\ LineFrom(sent, Gone) \in Seq(Bytes) /\ Len(LineFrom(sent, Gone)) = Top
        /\ \A i \in 1..Top : LineFrom(sent, Gone)[i] = <<sent, Gone + i>>
        /\ LineFrom(sent, Gone)[1][1] = sent
    BY <1>5, <2>4, LineParts DEF TypeInv
  <2>6. line = LineFrom(sent, Gone)
    BY <2>2, <2>3, <2>5, SeqEqual
  <2> QED
    BY <2>2, <2>4, <2>5, <2>6
<1> HIDE DEF line
<1>7. /\ Len(executed) \in Nat /\ Len(executed') = Len(executed) + 1
      /\ \A j \in 1..Len(executed) : executed'[j] = executed[j]
      /\ executed'[Len(executed) + 1] = line
  <2>1. executed \in Seq(Seq(Bytes)) /\ line \in Seq(Bytes)
    BY <1>6 DEF TypeInv, TypeOK, Bytes
  <2> QED
    BY <1>3, <2>1, AppendProperties
<1>8. \A k, b : LineFrom(k, b)' = LineFrom(k, b)
  BY <1>3 DEF LineFrom
<1>9. ASSUME NEW j \in 1..Len(executed) PROVE executed[j][1][1] < sent
  <2>1. PICK k \in 1..sent, b \in Nat :
          b < length[k] /\ executed[j] = LineFrom(k, b) /\ k < sent
    BY <1>5 DEF LinesRun
  <2>2. k \in Serials
    BY <1>5, <2>1, BoundsAssumption DEF Serials
  <2>3. LineFrom(k, b)[1][1] = k
    BY <2>1, <2>2, LineParts DEF TypeInv
  <2> QED
    BY <2>1, <2>3
<1>10. LinesRun'
  <2> SUFFICES ASSUME NEW j \in 1..Len(executed')
               PROVE  \E k \in 1..sent, b \in Nat :
                        /\ b < length[k] /\ executed'[j] = LineFrom(k, b)
                        /\ b = 0 \/ k \in cut'
    BY <1>2, <1>3, <1>8 DEF LinesRun
  <2>1. CASE j \in 1..Len(executed)
    BY <1>4, <1>5, <1>7, <2>1 DEF LinesRun
  <2>2. CASE j = Len(executed) + 1
    BY <1>4, <1>5, <1>6, <1>7, <2>2
  <2> QED
    BY <1>7, <2>1, <2>2
<1>11. InOrder'
  <2> SUFFICES ASSUME NEW j \in 1..Len(executed'), NEW m \in 1..(j - 1)
               PROVE  executed'[m][1][1] < executed'[j][1][1]
    BY DEF InOrder
  <2>1. CASE j \in 1..Len(executed)
    <3>1. m \in 1..Len(executed)
      BY <1>7, <2>1
    <3> QED
      BY <1>5, <1>7, <2>1, <3>1 DEF InOrder
  <2>2. CASE j = Len(executed) + 1
    <3>1. m \in 1..Len(executed)
      BY <1>7, <2>2
    <3> QED
      BY <1>6, <1>7, <1>9, <2>2, <3>1
  <2> QED
    BY <1>7, <2>1, <2>2
<1>12. NoneLeftOut'
  <2> SUFFICES ASSUME NEW k \in (1..sent) \ cut'
               PROVE  \E j \in 1..Len(executed') : executed'[j] = LineFrom(k, 0)
    BY <1>3, <1>8 DEF NoneLeftOut
  <2>1. k \in (1..sent) \ cut
    BY <1>4
  <2>2. CASE k < sent
    <3>1. PICK j \in 1..Len(executed) : executed[j] = LineFrom(k, 0)
      BY <1>5, <2>1, <2>2 DEF NoneLeftOut
    <3>2. j \in 1..Len(executed')
      BY <1>7
    <3> QED
      BY <1>7, <3>1, <3>2
  <2>3. CASE k = sent
    <3>1. Gone = 0
      BY <1>5, <2>1, <2>3
    <3>2. Len(executed) + 1 \in 1..Len(executed')
      BY <1>7
    <3> QED
      BY <1>6, <1>7, <2>3, <3>1, <3>2
  <2> QED
    BY <1>5, <2>1, <2>2, <2>3 DEF Serials
<1> QED
  BY <1>2, <1>10, <1>11, <1>12, RunInvParts DEF RunInv, LinesRun, InOrder, NoneLeftOut

LEMMA NextRun ==
  ASSUME Window = 1, TypeInv, FlowInv, RunInv, [Next]_vars PROVE RunInv'
<1>0. owed' <= 1 /\ sent \in Nat /\ pos \in Nat /\ Len(rx) \in Nat /\ Len(wire) \in Nat
      /\ Around \in Nat
  BY NextOwed, RxLen, BoundsAssumption DEF FlowInv, TypeInv, TypeOK, Around
<1>1. CASE reported'
  BY <1>1 DEF RunInv
<1> SUFFICES ASSUME ~reported' PROVE RunInv'
  BY <1>1
<1>2. ASSUME NEW len \in Lengths, Send(len) PROVE RunInv'
  <2>1. ~reported
    BY <1>2 DEF Send
  <2> QED
    BY <1>0, <1>2, <2>1, SendRun
<1>3. ASSUME NEW fine \in BOOLEAN, NEW reset \in BOOLEAN, Run(fine, reset) PROVE RunInv'
  BY <1>0, <1>3, RunRun
<1>4. CASE GiveUp
  <2>1. /\ UNCHANGED <<executed, sent, length, cut, reported, pos, rx, wire>>
    BY <1>4 DEF GiveUp
  <2>2. Around' = Around /\ Gone' = Gone
    BY <2>1 DEF Around, Gone
  <2> QED
    BY <1>0, <2>1, <2>2, NothingRun DEF RunInv
<1>5. CASE Receive
  <2>1. UNCHANGED <<executed, sent, length, cut, reported>>
    BY <1>5 DEF Receive
  <2>2. Around' = Around /\ Gone' = Gone
    BY <1>5, ReceiveFlow
  <2> QED
    BY <1>0, <2>1, <2>2, NothingRun DEF RunInv
<1>6. CASE Collect
  <2>1. UNCHANGED <<executed, sent, length>> /\ cut \subseteq cut'
    BY <1>6, CollectStep
  <2>2. ~reported /\ Around' = Around /\ Gone' = Gone /\ Around > 0
    BY <1>0, <1>6, CollectFlow
  <2> QED
    BY <1>0, <2>1, <2>2, NothingRun DEF RunInv
<1>7. CASE ReadError
  <2>1. /\ UNCHANGED <<executed, sent, length, reported>>
        /\ cut' = cut \cup Commands(First(command_buf, pos))
    BY <1>7 DEF ReadError
  <2>2. ~reported /\ Around' = Around - pos /\ Gone' = Gone + pos /\ Around > 0
    BY <1>7, <2>1, ReadErrorFlow
  <2>3. pos > 0 => sent \in cut'
    BY <2>1, <2>2, FrontLost
  <2>4. pos = 0 => Around' = Around /\ (Gone' > 0 => sent \in cut)
    <3> SUFFICES ASSUME pos = 0 PROVE Around' = Around /\ (Gone' > 0 => sent \in cut)
      OBVIOUS
    <3>1. Around' = Around
      BY <1>0, <2>2
    <3>2. Gone' = Gone
      BY <2>1, <3>1 DEF Gone
    <3> QED
      BY <2>2, <3>1, <3>2 DEF RunInv
  <2>5. pos = 0 \/ pos > 0
    BY <1>0
  <2>6. Around' = 0 => sent \in cut'
    BY <1>0, <2>2, <2>3
  <2>7. Gone' > 0 => sent \in cut'
    BY <2>1, <2>3, <2>4, <2>5
  <2> QED
    BY <1>0, <2>1, <2>2, <2>6, <2>7, NothingRun
<1>8. CASE Reboot
  <2>1. /\ UNCHANGED <<executed, sent, length, reported>>
        /\ cut' = cut \cup Commands(First(command_buf, pos) \o rx)
    BY <1>8 DEF Reboot, Restart
  <2>2. ~reported /\ Around' = Around - pos - Len(rx)
        /\ (Around > 0 => Gone' = Gone + pos + Len(rx))
    BY <1>8, <2>1, RebootFlow
  <2>3. Around > 0 /\ pos + Len(rx) > 0 => sent \in cut'
    BY <2>1, <2>2, FrontLost
  <2>4. pos + Len(rx) = 0 => Around' = Around /\ (Around > 0 /\ Gone' > 0 => sent \in cut)
    <3> SUFFICES ASSUME pos + Len(rx) = 0
                 PROVE  Around' = Around /\ (Around > 0 /\ Gone' > 0 => sent \in cut)
      OBVIOUS
    <3>1. Around' = Around
      BY <1>0, <2>2
    <3>2. Gone' = Gone
      BY <2>1, <3>1 DEF Gone
    <3> QED
      BY <2>2, <3>1, <3>2 DEF RunInv
  <2>5. pos + Len(rx) = 0 \/ pos + Len(rx) > 0
    BY <1>0
  <2>6. Around' > 0 => Around > 0
    BY <1>0, <2>2
  <2>7. Around' = 0 => Around = 0 \/ sent \in cut'
    BY <1>0, <2>2, <2>3
  <2>8. Around' > 0 /\ Gone' > 0 => sent \in cut'
    BY <2>1, <2>3, <2>4, <2>5, <2>6
  <2> QED
    BY <1>0, <2>1, <2>2, <2>6, <2>7, <2>8, NothingRun
<1>9. CASE UNCHANGED vars
  <2>1. /\ UNCHANGED <<executed, sent, length, cut, reported, pos, rx, wire>>
    BY <1>9 DEF vars
  <2>2. Around' = Around /\ Gone' = Gone
    BY <2>1 DEF Around, Gone
  <2> QED
    BY <1>0, <2>1, <2>2, NothingRun DEF RunInv
<1> QED
  BY <1>2, <1>3, <1>4, <1>5, <1>6, <1>7, <1>8, <1>9 DEF Next, Client, UartTask

LEMMA InitRun == Init => RunInv
<1>1. Len(<<>>) = 0
  BY EmptySeq
<1> QED
  BY <1>1 DEF Init, RunInv, Around

(* The end of a line, as IsSuffix has it. *)
LEMMA LineSuffix ==
  ASSUME TypeOK, NEW k \in Serials, NEW b \in Nat, b < length[k]
  PROVE  IsSuffix(LineFrom(k, b), Line(k))
<1> DEFINE line == LineFrom(k, b)
           n == length[k] - b
           reversed == Reverse(Line(k))
<1>1. length[k] \in Nat /\ n \in Nat /\ n > 0 /\ n <= length[k]
  BY DEF TypeOK
<1>2. /\ Len(line) = n /\ \A m \in 1..n : line[m] = <<k, b + m>>
      /\ Len(Line(k)) = length[k] /\ \A m \in 1..length[k] : Line(k)[m] = <<k, m>>
  BY LineParts
<1> HIDE DEF line, n
<1>3. /\ Reverse(line) \in Seq(Bytes) /\ Len(Reverse(line)) = n
      /\ \A i \in 1..n : Reverse(line)[i] = <<k, b + ((n - i) + 1)>>
  <2>1. Reverse(line) = [i \in 1..n |-> line[(n - i) + 1]]
    BY <1>2 DEF Reverse
  <2>2. \A i \in 1..n : (n - i) + 1 \in 1..n
    BY <1>1
  <2>3. \A i \in 1..n : Reverse(line)[i] = <<k, b + ((n - i) + 1)>>
    BY <1>2, <2>1, <2>2
  <2>4. \A i \in 1..n : <<k, b + ((n - i) + 1)>> \in Bytes
    BY <1>1, <2>2 DEF Bytes, Byte
  <2>5. Reverse(line) \in [1..n -> Bytes]
    BY <2>1, <2>3, <2>4
  <2> QED
    BY <1>1, <2>3, <2>5, SeqDef
<1>4. /\ reversed \in Seq(Bytes) /\ Len(reversed) = length[k]
      /\ \A i \in 1..length[k] : reversed[i] = <<k, (length[k] - i) + 1>>
  <2>1. reversed = [i \in 1..length[k] |-> Line(k)[(length[k] - i) + 1]]
    BY <1>2 DEF Reverse
  <2>2. \A i \in 1..length[k] : (length[k] - i) + 1 \in 1..length[k]
    BY <1>1
  <2>3. \A i \in 1..length[k] : reversed[i] = <<k, (length[k] - i) + 1>>
    BY <1>2, <2>1, <2>2
  <2>4. \A i \in 1..length[k] : <<k, (length[k] - i) + 1>> \in Bytes
    BY <1>1, <2>2 DEF Bytes, Byte
  <2> HIDE DEF reversed
  <2>5. reversed \in [1..length[k] -> Bytes]
    BY <2>1, <2>3, <2>4
  <2>6. reversed \in Seq(Bytes)
    BY <1>1, <2>5, SeqDef
  <2>7. Len(reversed) = length[k]
    BY <1>1, <2>5, <2>6, LenProperties
  <2> QED
    BY <2>3, <2>6, <2>7
<1> HIDE DEF reversed
<1>5. SubSeq(reversed, 1, n) = Reverse(line)
  <2>1. \A i \in 1..n : reversed[i] \in Bytes
    BY <1>1, <1>4, ElementOfSeq
  <2>2. /\ SubSeq(reversed, 1, n) \in Seq(Bytes) /\ Len(SubSeq(reversed, 1, n)) = n
        /\ \A i \in 1..n : SubSeq(reversed, 1, n)[i] = reversed[i]
    BY <1>1, <2>1, SubSeqProperties
  <2>3. ASSUME NEW i \in 1..n PROVE reversed[i] = Reverse(line)[i]
    <3>1. (length[k] - i) + 1 = b + ((n - i) + 1) /\ i \in 1..length[k]
      BY <1>1 DEF n
    <3> QED
      BY <1>3, <1>4, <3>1
  <2> QED
    BY <1>3, <2>2, <2>3, SeqEqual
<1> QED
  BY <1>1, <1>3, <1>4, <1>5 DEF IsSuffix, IsPrefix, reversed, line

(* Such a client's commands are run whole, once and in the order it sent   *)
(* them, and none is left out before its answer; of one that lost bytes to *)
(* a read error or a restart, which RunInv has in cut, the end at most     *)
(* (uart.rs:96-137, global.rs:257-319).                                    *)
THEOREM RunsInOrder == ASSUME Window = 1 PROVE Spec => []OnceInOrder
<1>1. TypeInv /\ FlowInv /\ RunInv /\ [Next]_vars => RunInv'
  BY NextRun
<1>2. TypeInv /\ FlowInv /\ RunInv => OnceInOrder
  <2> SUFFICES ASSUME TypeInv, FlowInv, RunInv, ~reported PROVE OnceInOrder
    BY DEF OnceInOrder
  <2>1. LinesRun /\ InOrder /\ NoneLeftOut /\ (owed = 0 => Around = 0)
    BY RunInvParts DEF FlowInv
  <2>2. DOMAIN executed = 1..Len(executed)
    BY LenProperties DEF TypeInv, TypeOK
  <2>3. 1..sent \subseteq Serials
    BY BoundsAssumption DEF TypeInv, TypeOK, Serials
  <2>4. ASSUME NEW j \in 1..Len(executed)
        PROVE  \E k \in 1..sent : \/ executed[j] = Line(k)
                                  \/ k \in cut /\ IsSuffix(executed[j], Line(k))
    <3>1. PICK k \in 1..sent, b \in Nat :
            b < length[k] /\ executed[j] = LineFrom(k, b) /\ (b = 0 \/ k \in cut)
      BY <2>1 DEF LinesRun
    <3>2. Line(k) = LineFrom(k, 0) /\ IsSuffix(executed[j], Line(k))
      BY <2>3, <3>1, LineParts, LineSuffix DEF TypeInv
    <3> QED
      BY <3>1, <3>2
  <2>5. ASSUME owed = 0, NEW k \in (1..sent) \ cut
        PROVE  \E j \in 1..Len(executed) : executed[j] = Line(k)
    <3>1. PICK j \in 1..Len(executed) : executed[j] = LineFrom(k, 0)
      BY <2>1, <2>5 DEF NoneLeftOut
    <3>2. Line(k) = LineFrom(k, 0)
      <4>1. length[k] \in Nat
        BY <2>3 DEF TypeInv, TypeOK
      <4> QED
        BY <4>1 DEF Line, LineFrom
    <3> QED
      BY <3>1, <3>2
  <2> QED
    BY <2>1, <2>2, <2>4, <2>5 DEF OnceInOrder, InOrder
<1> QED
  BY <1>1, <1>2, InitRun, TypeInvCorrect, FlowCorrect, PTL DEF Spec
=============================================================================
