------------------------------- MODULE Mailbox -------------------------------
(***************************************************************************)
(* The EC mailbox of src/ha_nuc9_ec/hardware/mailbox.py: registers behind  *)
(* an index port (0x590) and a data port (0x591), used by one thread of    *)
(* one process (the hardware lock and the Controller's executor see to     *)
(* that).  The EC takes a command from register 0x10, performs it and      *)
(* clears the register; it may be slow, or hang.  The process may be       *)
(* killed between any two accesses and start again.                        *)
(*                                                                         *)
(* An access is the selection of an index and the transfer of a byte; the  *)
(* EC does not look at the index, so the two are one step here.  The EC    *)
(* itself is external, modelled from how the mailbox uses it: it           *)
(* acknowledges a command after performing it, and a write to 0x10 reaches *)
(* it, which nothing reads back.                                           *)
(***************************************************************************)
EXTENDS Integers, Sequences

CONSTANTS
  Duties,       \* duty percentages the hardware accepts, 30..100
  Bios,         \* no PWM of ours: the BIOS drives the fans
  Zero,         \* the parameter of command 0x01
  Noise         \* a byte nobody asked for: a garbled parameter or a response

ASSUME BytesAssumption ==
  /\ Noise \notin Duties \cup {Zero}
  /\ Zero \notin Duties

Pairs == [cpu : Duties, sys : Duties]

Commands == [op : {"set"}, pair : Pairs] \cup [op : {"version", "restore", "rpm"}]

None == [op |-> "none"]

Idle == "idle"    \* the value 0 of register 0x10

Bytes == Duties \cup {Zero, Noise}

VARIABLES
  command,      \* register 0x10
  parameter,    \* registers 0x11 and 0x12, read back and used by 0x0D; the
                \* responses of 0x01 and 0x0F overwrite them
  performed,    \* the EC has performed what 0x10 asks for
  drives,       \* what the EC drives the fans with
  request,      \* the call under way
  sent,         \* it has been written to 0x10
  result,       \* how the last call ended
  pc,           \* where the process is in _command
  index,        \* the parameter it is at
  seen,         \* parameters read back
  handed        \* history: the call that wrote 0x10 last

ecVars == <<command, performed, drives>>
callVars == <<pc, request, result, index, seen>>
vars == <<ecVars, parameter, callVars, sent, handed>>

Parameters(r) ==
  CASE r.op = "set"     -> <<r.pair.cpu, r.pair.sys>>
    [] r.op = "version" -> <<Zero>>
    [] OTHER            -> <<>>

-----------------------------------------------------------------------------
(* The process.                                                            *)

Enter(r) ==
  /\ request' = r
  /\ result' = "none"
  /\ pc' = "settle"
  /\ index' = 1
  /\ seen' = <<>>
  /\ sent' = FALSE
  /\ UNCHANGED <<ecVars, parameter, handed>>

\* LinuxBackend.open, by the first process or after a restart.
Open == pc = "down" /\ Enter([op |-> "version"])

\* set_duty; a value outside 30..100 raises before the first access, and leaves
\* everything as it is.
SetDuty == \E pair \in Pairs : pc = "ready" /\ Enter([op |-> "set", pair |-> pair])

RestoreBios == pc = "ready" /\ Enter([op |-> "restore"])

ReadRpm == pc = "ready" /\ Enter([op |-> "rpm"])

Leave(where, how) ==
  /\ request' = None
  /\ result' = how
  /\ pc' = where
  /\ index' = 1
  /\ seen' = <<>>
  /\ sent' = FALSE
  /\ UNCHANGED <<ecVars, parameter, handed>>

\* HardwareError: open gives up and the process ends; a method raises.
Fail == Leave(IF request.op = "version" THEN "down" ELSE "ready", "error")

\* Mutant: the command is prepared whatever the EC is at.
SettleAtOnce ==
  /\ pc = "settle"
  /\ pc' = IF Parameters(request) = <<>> THEN "submit" ELSE "write"
  /\ UNCHANGED <<ecVars, parameter, request, result, index, seen, sent, handed>>

\* The first wait_idle finds register 0x10 cleared.
Settle ==
  /\ pc = "settle"
  /\ command = Idle
  /\ pc' = IF Parameters(request) = <<>> THEN "submit" ELSE "write"
  /\ UNCHANGED <<ecVars, parameter, request, result, index, seen, sent, handed>>

Last == index = Len(Parameters(request))

\* write_parameter; the byte may be garbled on its way.
WriteParameter ==
  /\ pc = "write"
  /\ \E byte \in {Parameters(request)[index], Noise} :
       parameter' = [parameter EXCEPT ![index] = byte]
  /\ index' = IF Last THEN 1 ELSE index + 1
  /\ pc' = IF Last THEN "verify" ELSE "write"
  /\ UNCHANGED <<ecVars, request, result, seen, sent, handed>>

\* Mutant: it is enough that all parameters can be read.
AcceptedWhenRead(bytes) == Len(bytes) = Len(Parameters(request))

Accepted(bytes) == bytes = Parameters(request)

\* The parameters are read back one by one, then compared.
ReadBack ==
  /\ pc = "verify"
  /\ LET read == Append(seen, parameter[index])
     IN  IF Last /\ ~Accepted(read) THEN Fail
         ELSE /\ seen' = read
              /\ index' = IF Last THEN 1 ELSE index + 1
              /\ pc' = IF Last THEN "submit" ELSE "verify"
              /\ UNCHANGED <<ecVars, parameter, request, result, sent, handed>>

Submit ==
  /\ pc = "submit"
  /\ command' = request.op
  /\ performed' = FALSE
  /\ sent' = TRUE
  /\ handed' = request
  /\ pc' = "confirm"
  /\ UNCHANGED <<drives, parameter, request, result, index, seen>>

\* Mutant: 0x0D and 0x0E have no response, so nothing is waited for.
ConfirmResponseOnly ==
  /\ pc = "confirm"
  /\ IF request.op \in {"version", "rpm"}
     THEN /\ command = Idle
          /\ pc' = "response"
          /\ UNCHANGED <<ecVars, parameter, request, result, index, seen, sent, handed>>
     ELSE Leave("ready", "ok")

\* The second wait_idle finds it cleared: the EC has acknowledged.
Confirm ==
  /\ pc = "confirm"
  /\ command = Idle
  /\ IF request.op \in {"version", "rpm"}
     THEN /\ pc' = "response"
          /\ UNCHANGED <<ecVars, parameter, request, result, index, seen, sent, handed>>
     ELSE Leave("ready", "ok")

\* _response: read twice, then 0x10 once more.
Response ==
  /\ pc = "response"
  /\ Leave("ready", "ok") \/ Fail

\* Mutant: the confirmation is waited for without a deadline.
TimeOutBeforeSubmit == pc = "settle" /\ command # Idle /\ Fail

\* wait_idle: busy for a second.
TimeOut ==
  /\ pc \in {"settle", "confirm"}
  /\ command # Idle
  /\ Fail

\* Any access may raise OSError.
PortFails == request # None /\ Fail

\* SIGKILL, or the process ends in the ordinary way and is started again.
Killed ==
  /\ pc # "down"
  /\ Leave("down", IF request = None THEN result ELSE "error")

-----------------------------------------------------------------------------
(* The EC.                                                                 *)

\* What it leaves in 0x11 and 0x12: 0x0F answers from 0x11 on, 0x01 from 0x12.
Answered ==
  CASE command = "rpm"     -> [i \in 1..2 |-> Noise]
    [] command = "version" -> [parameter EXCEPT ![2] = Noise]
    [] OTHER               -> parameter

EcPerforms ==
  /\ command # Idle
  /\ ~performed
  /\ performed' = TRUE
  /\ drives' = CASE command = "set"     -> [cpu |-> parameter[1], sys |-> parameter[2]]
                 [] command = "restore" -> Bios
                 [] OTHER               -> drives
  /\ parameter' = Answered
  /\ UNCHANGED <<command, callVars, sent, handed>>

EcAcknowledges ==
  /\ performed
  /\ command' = Idle
  /\ performed' = FALSE
  /\ UNCHANGED <<drives, parameter, callVars, sent, handed>>

-----------------------------------------------------------------------------
(* The specification.                                                      *)

\* A previous process may have left any parameters, and any target.
Init ==
  /\ drives \in Pairs \cup {Bios}
  /\ command = Idle
  /\ parameter \in [1..2 -> Bytes]
  /\ performed = FALSE
  /\ pc = "down"
  /\ request = None
  /\ index = 1
  /\ seen = <<>>
  /\ result = "none"
  /\ sent = FALSE
  /\ handed = None

ProcessNext ==
  \/ Settle \/ WriteParameter \/ ReadBack \/ Submit \/ Confirm \/ Response
  \/ TimeOut

Next ==
  \/ Open \/ SetDuty \/ RestoreBios \/ ReadRpm
  \/ ProcessNext \/ PortFails \/ Killed
  \/ EcPerforms \/ EcAcknowledges

\* The thread goes on, and the clock reaches the deadline of a wait.  The EC
\* may hang for ever.
Spec ==
  /\ Init
  /\ [][Next]_vars
  /\ WF_vars(ProcessNext)

-----------------------------------------------------------------------------
(* Properties.                                                             *)

RegistersOK ==
  /\ drives \in Pairs \cup {Bios}
  /\ command \in {Idle, "set", "version", "restore", "rpm"}
  /\ parameter \in [1..2 -> Bytes]
  /\ performed \in BOOLEAN

PlaceOK ==
  /\ pc \in {"down", "ready", "settle", "write", "verify", "submit", "confirm",
             "response"}
  /\ result \in {"none", "ok", "error"}
  /\ sent \in BOOLEAN

CallOK == request \in Commands \cup {None} /\ handed \in Commands \cup {None}

ReadingOK == index \in 1..2 /\ seen \in Seq(Bytes)

\* Types; what drives the fans is always a whole pair of duties, or the BIOS.
TypeOK == RegistersOK /\ PlaceOK /\ CallOK /\ ReadingOK

\* Nothing is written over a command the EC has not acknowledged: not over one
\* whose call timed out, nor one of a process killed while waiting for it.
QuietWhileBusy == pc \in {"write", "verify", "submit"} => command = Idle

\* The EC never acts on parameters other than those of the call that submitted
\* them: no garbled byte, no response left over, no half of another pair.
VerifiedPairs ==
  command = "set" /\ ~performed =>
    /\ handed.op = "set"
    /\ parameter[1] = handed.pair.cpu
    /\ parameter[2] = handed.pair.sys

\* Every call returns, although the EC may hang: Controller's fairness of
\* Execute rests on it.
CallReturns == request # None ~> request = None

\* Each call is one command of an EC that performs one at a time (EcService).
Device == INSTANCE EcService WITH
  owed <- IF command # Idle /\ ~performed THEN handed ELSE None

ImplementsEcService == Device!Spec

=============================================================================
