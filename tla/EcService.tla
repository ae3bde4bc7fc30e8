------------------------------ MODULE EcService ------------------------------
(***************************************************************************)
(* What the mailbox makes of the EC: a device that performs one command at *)
(* a time.  A call that succeeds has been performed.  A call that fails    *)
(* has not been handed over, or has been and is performed once, perhaps    *)
(* later: before anything else is handed over.  Module Mailbox implements  *)
(* this; action Execute of module Controller is one call of it.            *)
(***************************************************************************)
CONSTANTS
  Duties,       \* duty percentages the hardware accepts
  Bios          \* no PWM of ours: the BIOS drives the fans

Pairs == [cpu : Duties, sys : Duties]

Commands == [op : {"set"}, pair : Pairs] \cup [op : {"version", "restore", "rpm"}]

None == [op |-> "none"]

VARIABLES
  drives,       \* what drives the fans
  owed,         \* the command handed to the EC and not performed yet
  request,      \* the call under way
  sent,         \* it has been handed to the EC
  result        \* how the last call ended

vars == <<drives, owed, request, sent, result>>

Effect(command, before) ==
  CASE command.op = "set"     -> command.pair
    [] command.op = "restore" -> Bios
    [] OTHER                  -> before

Init ==
  /\ drives \in Pairs \cup {Bios}
  /\ owed = None
  /\ request = None
  /\ sent = FALSE
  /\ result = "none"

Begin(command) ==
  /\ request = None
  /\ request' = command
  /\ result' = "none"
  /\ UNCHANGED <<drives, owed, sent>>

HandOver ==
  /\ request # None
  /\ ~sent
  /\ owed = None
  /\ owed' = request
  /\ sent' = TRUE
  /\ UNCHANGED <<drives, request, result>>

Perform ==
  /\ owed # None
  /\ drives' = Effect(owed, drives)
  /\ owed' = None
  /\ UNCHANGED <<request, sent, result>>

\* The call succeeds.
Succeed ==
  /\ sent
  /\ owed = None
  /\ result' = "ok"
  /\ request' = None
  /\ sent' = FALSE
  /\ UNCHANGED <<drives, owed>>

\* The call fails, or its process is killed.
GiveUp ==
  /\ request # None
  /\ result' = "error"
  /\ request' = None
  /\ sent' = FALSE
  /\ UNCHANGED <<drives, owed>>

Next ==
  \/ \E command \in Commands : Begin(command)
  \/ HandOver \/ Perform \/ Succeed \/ GiveUp

Spec == Init /\ [][Next]_vars

=============================================================================
