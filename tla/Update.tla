------------------------------- MODULE Update -------------------------------
(***************************************************************************)
(* What "ota" promises to whoever updates a device: there is always one    *)
(* whole firmware running, and one that the next restart will run, be it   *)
(* requested or a power failure.  A new one takes effect in a single step, *)
(* is on trial once it runs, and is confirmed, or replaced by the one      *)
(* before it.  How uploads go, and which flash operations fail, does not    *)
(* show here.  Firmware implements this.                                   *)
(***************************************************************************)
CONSTANT Firmwares

VARIABLES
  runs,   \* the firmware that is running
  boots,  \* the one a restart will run
  phase   \* of the update

vars == <<runs, boots, phase>>

Init ==
  /\ runs \in Firmwares /\ boots = runs
  /\ phase = "steady"

Install(new) ==
  /\ phase = "steady" /\ phase' = "installed"
  /\ boots' = new
  /\ UNCHANGED runs

TryOut ==
  /\ phase = "installed" /\ phase' = "trial"
  /\ runs' = boots /\ boots' = runs

Confirm ==
  /\ phase = "trial" /\ phase' = "steady"
  /\ boots' = runs
  /\ UNCHANGED runs

RollBack ==
  /\ phase = "trial" /\ phase' = "steady"
  /\ runs' = boots
  /\ UNCHANGED boots

Next == (\E new \in Firmwares : Install(new)) \/ TryOut \/ Confirm \/ RollBack

Spec == Init /\ [][Next]_vars
=============================================================================
