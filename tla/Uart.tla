-------------------------------- MODULE Uart --------------------------------
(***************************************************************************)
(* uart_task (src/uart.rs): bytes come in over UART0 in pieces of any size *)
(* and are collected in Global::command_buf, Env::process_command takes    *)
(* one whole command at a time off its front, and what is left moves down. *)
(* What the commands do is modelled in Wifi, Cloud, Package and Firmware.  *)
(*                                                                         *)
(* At the other end is a client that has at most Window commands           *)
(* unanswered.  Byte i of the k-th command it sends is <<k, i>>, the last  *)
(* one being the line's end.                                               *)
(***************************************************************************)
EXTENDS Integers, Sequences, FiniteSetsExt, SequencesExt

CONSTANTS
  BufLen,       \* COMMAND_BUF_LEN
  Lengths,      \* lengths of the client's commands
  Window,       \* commands the client sends without an answer
  MaxCommands,  \* bound on commands
  MaxFaults,    \* bound on failing reads and responses
  MaxReboots    \* bound on "#reset" commands and power losses

ASSUME LengthsAssumption ==
  BufLen \in Nat \ {0} /\ Window \in Nat \ {0} /\ Lengths \subseteq Nat \ {0}
ASSUME BoundsAssumption == MaxCommands \in Nat /\ MaxFaults \in Nat /\ MaxReboots \in Nat

VARIABLES
  command_buf,  \* Global
  pos,          \* Global::command_buf_pos
  rx,           \* bytes in the driver's receive buffer
  wire,         \* bytes still on their way
  sent, owed,   \* the client: commands sent, and how many are unanswered
  length,       \* history: the length of each command
  executed,     \* history: the lines handed to process_line
  cut,          \* history: commands of which bytes were lost
  reported,     \* history: "uart.1" or "uart.2" has been sent
  env           \* history: faults and reboots so far

vars == <<command_buf, pos, rx, wire, sent, owed, length, executed, cut, reported, env>>

-----------------------------------------------------------------------------
Index == 0..(BufLen - 1)
Serials == 1..MaxCommands
Byte == Serials \X Nat
Nul == <<0, 0>>

(* The variables hold values of their Rust types, and each read finds room *)
(* in command_buf: with none left it would read nothing, for ever.         *)
TypeOK ==
  /\ command_buf \in [Index -> Byte \cup {Nul}] /\ pos \in Index
  /\ rx \in Seq(Byte) /\ wire \in Seq(Byte)
  /\ sent \in 0..MaxCommands /\ owed \in 0..MaxCommands
  /\ length \in [Serials -> Nat]
  /\ executed \in Seq(Seq(Byte \cup {Nul}))
  /\ cut \subseteq Serials /\ reported \in BOOLEAN
  /\ env \in [faults : 0..MaxFaults, reboots : 0..MaxReboots]

Line(k) == [i \in 1..length[k] |-> <<k, i>>]
IsEnd(b) == b # Nul /\ b[2] = length[b[1]]
Commands(bytes) == {b[1] : b \in ToSet(bytes) \ {Nul}}

(* The first n bytes of a buffer. *)
First(buf, n) == [i \in 1..n |-> buf[i - 1]]

Init ==
  /\ command_buf = [i \in Index |-> Nul] /\ pos = 0
  /\ rx = <<>> /\ wire = <<>> /\ sent = 0 /\ owed = 0
  /\ length = [k \in Serials |-> 0]
  /\ executed = <<>> /\ cut = {} /\ reported = FALSE
  /\ env = [faults |-> 0, reboots |-> 0]

-----------------------------------------------------------------------------
(* The client. *)
Send(len) ==
  /\ owed < Window /\ sent < MaxCommands
  /\ sent' = sent + 1 /\ owed' = owed + 1
  /\ length' = [length EXCEPT ![sent + 1] = len]
  /\ wire' = wire \o Line(sent)'
  /\ UNCHANGED <<command_buf, pos, rx, executed, cut, reported, env>>

Receive ==
  \E n \in 1..Len(wire) :
    /\ rx' = rx \o SubSeq(wire, 1, n)
    /\ wire' = SubSeq(wire, n + 1, Len(wire))
    /\ UNCHANGED <<command_buf, pos, sent, owed, length, executed, cut, reported, env>>

(* It waits for an answer until the device has had all the time it needs. *)
GiveUp ==
  /\ owed > 0 /\ wire = <<>> /\ rx = <<>>
  /\ owed' = 0
  /\ UNCHANGED <<command_buf, pos, rx, wire, sent, length, executed, cut, reported, env>>

Answered == owed' = IF owed > 0 THEN owed - 1 ELSE 0

-----------------------------------------------------------------------------
(* read() of n bytes to the end of what is already there. *)
Filled(n) ==
  [i \in Index |-> IF i \in pos..(pos + n - 1) THEN rx[i - pos + 1] ELSE command_buf[i]]

(* process_command: how many of the first n bytes it takes, a line or none. *)
Consumed(buf, n) ==
  LET ends == {i \in 1..n : IsEnd(buf[i - 1])}
  IN  IF ends = {} THEN 0 ELSE Min(ends)

(* The rest moves down, over as many bytes as were consumed. *)
Moved(buf, n) == [i \in Index |-> IF i < n THEN buf[n + i] ELSE buf[i]]

(* Mutant of Left: what was consumed still counts. *)
LeftAll(n, consumed) == n

Left(n, consumed) == n - consumed

(* Moving them reads past the end of command_buf. *)
Panics(consumed) == 2 * consumed > BufLen

(* Mutant of Overflows: off by one. *)
OverflowsLate(n) == n > BufLen

Overflows(n) == n >= BufLen

(* Whatever had come in is gone. *)
Restart(lost) ==
  /\ command_buf' = [i \in Index |-> Nul] /\ pos' = 0 /\ rx' = <<>>
  /\ cut' = cut \cup Commands(lost)

(* One turn of the drain loop in which a command is run: with a response   *)
(* that could not be written nothing is dropped from command_buf, and      *)
(* "#reset" restarts either way.                                           *)
Run(fine, reset) ==
  LET n == Min({Len(rx), BufLen - pos})
      buf == Filled(n)
      top == pos + n
      rest == SubSeq(rx, n + 1, Len(rx))
      consumed == Consumed(buf, top)
      left == IF fine THEN Left(top, consumed) ELSE top
  IN  /\ rx # <<>> /\ consumed > 0
      /\ fine \/ env.faults < MaxFaults
      /\ reset => env.reboots < MaxReboots
      /\ env' = [faults |-> env.faults + (IF fine THEN 0 ELSE 1),
                 reboots |-> env.reboots + (IF reset THEN 1 ELSE 0)]
      /\ executed' = Append(executed, First(buf, consumed))
      /\ IF reset \/ (fine /\ Panics(consumed))
           THEN /\ Restart(SubSeq(First(buf, top), consumed + 1, top) \o rest)
                /\ Answered \/ UNCHANGED owed
                /\ reported' = (reported \/ ~fine)
           ELSE /\ command_buf' = IF fine THEN Moved(buf, consumed) ELSE buf
                /\ pos' = IF Overflows(left) THEN 0 ELSE left
                /\ rx' = rest
                /\ Answered
                /\ reported' = (reported \/ ~fine \/ Overflows(left))
                /\ cut' = cut
      /\ UNCHANGED <<wire, sent, length>>

(* One in which there is no whole command yet. *)
Collect ==
  LET n == Min({Len(rx), BufLen - pos})
      top == pos + n
  IN  /\ rx # <<>> /\ Consumed(Filled(n), top) = 0
      /\ command_buf' = Filled(n)
      /\ rx' = SubSeq(rx, n + 1, Len(rx))
      /\ IF Overflows(top)
           THEN pos' = 0 /\ reported' = TRUE /\ Answered
                /\ cut' = cut \cup Commands(First(Filled(n), top))
           ELSE pos' = top /\ UNCHANGED <<reported, owed, cut>>
      /\ UNCHANGED <<wire, sent, length, executed, env>>

(* One whose read fails. *)
ReadError ==
  /\ rx # <<>> /\ env.faults < MaxFaults
  /\ pos' = 0
  /\ cut' = cut \cup Commands(First(command_buf, pos))
  /\ env' = [env EXCEPT !.faults = @ + 1]
  /\ UNCHANGED <<command_buf, rx, wire, sent, owed, length, executed, reported>>

UartTask == (\E fine, reset \in BOOLEAN : Run(fine, reset)) \/ Collect \/ ReadError

Reboot ==
  /\ env.reboots < MaxReboots
  /\ Restart(First(command_buf, pos) \o rx)
  /\ env' = [env EXCEPT !.reboots = @ + 1]
  /\ UNCHANGED <<wire, sent, owed, length, executed, reported>>

Client == (\E len \in Lengths : Send(len)) \/ GiveUp

Next == Client \/ Receive \/ UartTask \/ Reboot

(* The executor polls uart_task again 1 ms after it has drained the UART;  *)
(* the client does not wait for ever, and need not send anything.          *)
Fairness == WF_vars(UartTask) /\ WF_vars(Receive) /\ WF_vars(GiveUp)

Spec == Init /\ [][Next]_vars
FairSpec == Spec /\ Fairness

-----------------------------------------------------------------------------
Buffered == First(command_buf, pos)

(* With a client that waits for each answer and no error reported to it,   *)
(* what is in command_buf, in the driver and on the wire is the end of the *)
(* last command and nothing else; and of no command once it is answered.   *)
(* Read errors, restarts and the panic of an overlong move change nothing  *)
(* in that: the two ends never get out of step (uart.rs:109-137).          *)
InStep ==
  ~reported =>
    LET pending == Buffered \o rx \o wire
    IN  /\ owed = 0 => pending = <<>>
        /\ pending # <<>> =>
             \E i \in 1..length[sent] : pending = SubSeq(Line(sent), i, length[sent])

(* Such a client has its commands run whole, in order and only once, and   *)
(* none is left out before it gets its answer; of a command that lost      *)
(* bytes to a read error or a restart the end may be taken for a command.  *)
OnceInOrder ==
  ~reported =>
    /\ \A j \in DOMAIN executed :
         /\ \E k \in 1..sent : \/ executed[j] = Line(k)
                               \/ k \in cut /\ IsSuffix(executed[j], Line(k))
         /\ \A m \in 1..(j - 1) : executed[m][1][1] < executed[j][1][1]
    /\ owed = 0 =>
         \A k \in (1..sent) \ cut : \E j \in DOMAIN executed : executed[j] = Line(k)

(* A command is answered, or has been lost and its client knows: no error, *)
(* line too long for command_buf or restart stops the task from reading on. *)
KeepsReading == (owed > 0) ~> (owed = 0)

(* What is read accumulates until a whole command has been consumed        *)
(* (global.rs:261-263): command_buf holds consecutive bytes of what was    *)
(* sent.                                                                   *)
BytesKept ==
  \A i \in 0..(pos - 2) :
    LET b == command_buf[i]
    IN  command_buf[i + 1] = IF IsEnd(b) THEN <<b[1] + 1, 1>> ELSE <<b[1], b[2] + 1>>
=============================================================================
