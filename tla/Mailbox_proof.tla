---------------------------- MODULE Mailbox_proof ----------------------------
(***************************************************************************)
(* Theorems about module Mailbox, for all sets of duties.                  *)
(***************************************************************************)
EXTENDS Mailbox, TLAPS

\* The parameters a call has left to write, or to read back.
AtParameter ==
  /\ pc \in {"write", "verify"} => index \in 1..Len(Parameters(request))
  /\ pc = "settle" => index = 1
  /\ pc \in {"settle", "write"} => seen = <<>>

\* A call is under way exactly where the process is in _command, and has been
\* submitted exactly where it waits for the EC or reads its answer.
CallFitsPlace ==
  /\ (request = None) <=> pc \in {"down", "ready"}
  /\ sent <=> pc \in {"confirm", "response"}
  /\ pc = "response" => command = Idle

\* What has been read back is what the registers hold.
SeenIsHeld ==
  pc = "verify" =>
    /\ Len(seen) = index - 1
    /\ \A i \in 1..Len(seen) : seen[i] = parameter[i]

\* What is about to be submitted, and register 0x10, agree with the call.
SubmitsItsOwn ==
  /\ pc = "submit" /\ request.op = "set" =>
       /\ parameter[1] = request.pair.cpu
       /\ parameter[2] = request.pair.sys
  /\ command # Idle => handed \in Commands /\ command = handed.op
  /\ performed => command # Idle

IInv ==
  /\ TypeOK
  /\ AtParameter
  /\ CallFitsPlace
  /\ SeenIsHeld
  /\ SubmitsItsOwn
  /\ QuietWhileBusy
  /\ VerifiedPairs

-----------------------------------------------------------------------------

LEMMA CommandsShape ==
  ASSUME NEW r \in Commands
  PROVE  /\ r.op \in {"set", "version", "restore", "rpm"}
         /\ r.op = "set" => r.pair \in Pairs
         /\ r # None
<1>1. CASE r \in [op : {"set"}, pair : Pairs]
  BY <1>1 DEF None
<1>2. CASE r \in [op : {"version", "restore", "rpm"}]
  BY <1>2 DEF None
<1> QED
  BY <1>1, <1>2 DEF Commands

LEMMA ParametersShape ==
  ASSUME NEW r \in Commands
  PROVE  /\ r.op = "set" => Parameters(r) = <<r.pair.cpu, r.pair.sys>>
         /\ r.op = "version" => Parameters(r) = <<Zero>>
         /\ r.op \in {"restore", "rpm"} => Parameters(r) = <<>>
         /\ Parameters(r) \in Seq(Bytes)
         /\ Len(Parameters(r)) \in 0..2
<1>1. CASE r.op = "set"
  <2>1. r.pair.cpu \in Bytes /\ r.pair.sys \in Bytes
    BY <1>1, CommandsShape DEF Pairs, Bytes
  <2> QED
    BY <1>1, <2>1 DEF Parameters
<1>2. CASE r.op = "version"
  BY <1>2 DEF Parameters, Bytes
<1>3. CASE r.op \in {"restore", "rpm"}
  BY <1>3 DEF Parameters
<1> QED
  BY <1>1, <1>2, <1>3, CommandsShape

LEMMA InitIInv == Init => IInv
<1> SUFFICES ASSUME Init PROVE IInv
  OBVIOUS
<1> USE DEF Init
<1>1. TypeOK
  <2>1. RegistersOK
    BY DEF RegistersOK
  <2>2. PlaceOK
    BY DEF PlaceOK
  <2>3. CallOK /\ ReadingOK
    BY DEF CallOK, ReadingOK
  <2> QED
    BY <2>1, <2>2, <2>3 DEF TypeOK
<1>2. CallFitsPlace
  BY DEF CallFitsPlace
<1> QED
  BY <1>1, <1>2 DEF IInv, AtParameter, SeenIsHeld, SubmitsItsOwn, QuietWhileBusy,
                    VerifiedPairs, Idle

LEMMA EnterIInv ==
  ASSUME IInv, NEW r \in Commands, pc \in {"down", "ready"}, Enter(r)
  PROVE  IInv'
<1> USE DEF Enter, ecVars
<1>1. TypeOK'
  <2>1. RegistersOK'
    BY DEF IInv, TypeOK, RegistersOK
  <2>2. PlaceOK'
    BY DEF IInv, TypeOK, PlaceOK
  <2>3. CallOK'
    BY DEF IInv, TypeOK, CallOK
  <2>4. ReadingOK'
    BY DEF ReadingOK
  <2> QED
    BY <2>1, <2>2, <2>3, <2>4 DEF TypeOK
<1>2. CallFitsPlace'
  BY CommandsShape DEF CallFitsPlace
<1>3. (AtParameter /\ SeenIsHeld /\ QuietWhileBusy)'
  BY DEF AtParameter, SeenIsHeld, QuietWhileBusy
<1>4. (SubmitsItsOwn /\ VerifiedPairs)'
  BY DEF IInv, SubmitsItsOwn, VerifiedPairs
<1> QED
  BY <1>1, <1>2, <1>3, <1>4 DEF IInv

LEMMA LeaveIInv ==
  ASSUME IInv, NEW where \in {"down", "ready"},
         NEW how \in {"none", "ok", "error"}, Leave(where, how)
  PROVE  IInv'
<1> USE DEF Leave, ecVars
<1>1. TypeOK'
  <2>1. RegistersOK'
    BY DEF IInv, TypeOK, RegistersOK
  <2>2. PlaceOK'
    BY DEF IInv, TypeOK, PlaceOK
  <2>3. CallOK'
    BY DEF IInv, TypeOK, CallOK
  <2>4. ReadingOK'
    BY DEF ReadingOK
  <2> QED
    BY <2>1, <2>2, <2>3, <2>4 DEF TypeOK
<1>2. CallFitsPlace'
  BY DEF CallFitsPlace
<1>3. (AtParameter /\ SeenIsHeld /\ QuietWhileBusy)'
  BY DEF AtParameter, SeenIsHeld, QuietWhileBusy
<1>4. (SubmitsItsOwn /\ VerifiedPairs)'
  BY DEF IInv, SubmitsItsOwn, VerifiedPairs
<1> QED
  BY <1>1, <1>2, <1>3, <1>4 DEF IInv

LEMMA FailIInv ==
  ASSUME IInv, Fail
  PROVE  IInv'
  BY LeaveIInv DEF Fail

LEMMA SettleIInv ==
  ASSUME IInv, Settle
  PROVE  IInv'
<1> USE DEF Settle, ecVars
<1>1. request \in Commands
  BY DEF IInv, TypeOK, PlaceOK, CallOK, CallFitsPlace
<1>2. TypeOK'
  BY DEF IInv, TypeOK, RegistersOK, PlaceOK, CallOK, ReadingOK
<1>3. CallFitsPlace'
  BY DEF IInv, CallFitsPlace
<1>4. AtParameter'
  BY <1>1, ParametersShape DEF IInv, AtParameter
<1>5. (SeenIsHeld /\ QuietWhileBusy)'
  BY DEF SeenIsHeld, QuietWhileBusy
<1>6. SubmitsItsOwn'
  BY <1>1, ParametersShape DEF IInv, SubmitsItsOwn
<1>7. VerifiedPairs'
  BY DEF IInv, VerifiedPairs
<1> QED
  BY <1>2, <1>3, <1>4, <1>5, <1>6, <1>7 DEF IInv

LEMMA WriteIInv ==
  ASSUME IInv, WriteParameter
  PROVE  IInv'
<1> USE DEF WriteParameter, ecVars
<1>1. request \in Commands
  BY DEF IInv, TypeOK, PlaceOK, CallOK, CallFitsPlace
<1>2. /\ index \in 1..Len(Parameters(request))
      /\ Len(Parameters(request)) \in 0..2
      /\ Parameters(request)[index] \in Bytes
  BY <1>1, ParametersShape DEF IInv, AtParameter
<1>3. TypeOK'
  <2>1. parameter' \in [1..2 -> Bytes]
    BY <1>2 DEF IInv, TypeOK, RegistersOK, Bytes
  <2>2. RegistersOK' /\ CallOK'
    BY <2>1 DEF IInv, TypeOK, RegistersOK, CallOK
  <2>3. PlaceOK'
    BY DEF IInv, TypeOK, PlaceOK
  <2>4. index' \in 1..2
    <3> DEFINE n == Len(Parameters(request))
    <3>1. index' = IF index = n THEN 1 ELSE index + 1
      BY DEF Last
    <3>2. n \in 0..2 /\ index \in 1..n
      BY <1>2
    <3> HIDE DEF n
    <3> QED
      BY <3>1, <3>2
  <2>5. ReadingOK'
    BY <2>4 DEF IInv, TypeOK, ReadingOK
  <2> QED
    BY <2>2, <2>3, <2>5 DEF TypeOK
<1>4. CallFitsPlace'
  BY DEF IInv, CallFitsPlace
<1>5. AtParameter'
  BY <1>2 DEF IInv, AtParameter, Last
<1>6. (SeenIsHeld /\ QuietWhileBusy)'
  BY DEF IInv, AtParameter, SeenIsHeld, QuietWhileBusy
<1>7. command = Idle
  BY DEF IInv, QuietWhileBusy
<1>8. (SubmitsItsOwn /\ VerifiedPairs)'
  BY <1>7 DEF IInv, SubmitsItsOwn, VerifiedPairs, Idle
<1> QED
  BY <1>3, <1>4, <1>5, <1>6, <1>8 DEF IInv

LEMMA ReadBackIInv ==
  ASSUME IInv, ReadBack
  PROVE  IInv'
<1> DEFINE read == Append(seen, parameter[index])
<1>1. request \in Commands /\ pc = "verify"
  BY DEF IInv, TypeOK, PlaceOK, CallOK, CallFitsPlace, ReadBack
<1>2. /\ index \in 1..Len(Parameters(request))
      /\ Len(Parameters(request)) \in 0..2
      /\ parameter[index] \in Bytes
      /\ seen \in Seq(Bytes)
  BY <1>1, ParametersShape DEF IInv, AtParameter, TypeOK, RegistersOK, ReadingOK
<1>3. /\ read \in Seq(Bytes)
      /\ Len(read) = index
      /\ \A i \in 1..Len(read) : read[i] = parameter[i]
  BY <1>1, <1>2 DEF IInv, SeenIsHeld
<1>4. CASE Last /\ ~Accepted(read)
  BY <1>4, FailIInv DEF ReadBack
<1>5. CASE ~(Last /\ ~Accepted(read))
  <2>1. /\ seen' = read
        /\ index' = IF Last THEN 1 ELSE index + 1
        /\ pc' = IF Last THEN "submit" ELSE "verify"
        /\ UNCHANGED <<ecVars, parameter, request, result, sent, handed>>
    BY <1>5 DEF ReadBack
  <2> HIDE DEF read
  <2>2. TypeOK'
    <3>1. RegistersOK' /\ CallOK'
      BY <2>1 DEF IInv, TypeOK, RegistersOK, CallOK, ecVars
    <3>2. PlaceOK'
      BY <2>1 DEF IInv, TypeOK, PlaceOK
    <3>3. ReadingOK'
      BY <1>2, <1>3, <2>1 DEF IInv, TypeOK, ReadingOK, Last
    <3> QED
      BY <3>1, <3>2, <3>3 DEF TypeOK
  <2>3. CallFitsPlace'
    BY <1>1, <2>1 DEF IInv, CallFitsPlace, ecVars
  <2>4. AtParameter'
    BY <1>1, <1>2, <2>1 DEF AtParameter, Last
  <2>5. SeenIsHeld'
    BY <1>2, <1>3, <2>1 DEF SeenIsHeld, Last
  <2>6. QuietWhileBusy'
    BY <1>1, <2>1 DEF IInv, QuietWhileBusy, ecVars
  <2>7. VerifiedPairs'
    BY <2>1 DEF IInv, VerifiedPairs, ecVars
  <2>8. pc' = "submit" /\ request.op = "set" =>
          parameter[1] = request.pair.cpu /\ parameter[2] = request.pair.sys
    <3> SUFFICES ASSUME pc' = "submit", request.op = "set"
                 PROVE  parameter[1] = request.pair.cpu /\ parameter[2] = request.pair.sys
      OBVIOUS
    <3>1. Accepted(read)
      BY <1>5, <2>1
    <3>2. read = <<request.pair.cpu, request.pair.sys>>
      BY <1>1, <3>1, ParametersShape DEF Accepted
    <3>3. index = 2 /\ read[1] = parameter[1] /\ read[2] = parameter[2]
      BY <1>2, <1>3, <3>2
    <3> QED
      BY <3>2, <3>3
  <2>9. SubmitsItsOwn'
    BY <2>1, <2>8 DEF IInv, SubmitsItsOwn, ecVars
  <2> QED
    BY <2>2, <2>3, <2>4, <2>5, <2>6, <2>7, <2>9 DEF IInv
<1> QED
  BY <1>4, <1>5

LEMMA SubmitIInv ==
  ASSUME IInv, Submit
  PROVE  IInv'
<1> USE DEF Submit
<1>1. request \in Commands
  BY DEF IInv, TypeOK, PlaceOK, CallOK, CallFitsPlace
<1>2. request.op \in {"set", "version", "restore", "rpm"}
  BY <1>1, CommandsShape
<1>3. TypeOK'
  <2>1. RegistersOK' /\ PlaceOK'
    BY <1>2 DEF IInv, TypeOK, RegistersOK, PlaceOK
  <2>2. CallOK' /\ ReadingOK'
    BY <1>1 DEF IInv, TypeOK, CallOK, ReadingOK
  <2> QED
    BY <2>1, <2>2 DEF TypeOK
<1>4. CallFitsPlace'
  BY DEF IInv, CallFitsPlace
<1>5. (AtParameter /\ SeenIsHeld /\ QuietWhileBusy)'
  BY DEF AtParameter, SeenIsHeld, QuietWhileBusy
<1>6. SubmitsItsOwn'
  BY <1>1 DEF SubmitsItsOwn
<1>7. VerifiedPairs'
  BY DEF IInv, SubmitsItsOwn, VerifiedPairs
<1> QED
  BY <1>3, <1>4, <1>5, <1>6, <1>7 DEF IInv

LEMMA ConfirmIInv ==
  ASSUME IInv, Confirm
  PROVE  IInv'
<1>1. CASE request.op \in {"version", "rpm"}
  <2> USE <1>1 DEF Confirm, ecVars
  <2>1. TypeOK'
    BY DEF IInv, TypeOK, RegistersOK, PlaceOK, CallOK, ReadingOK
  <2>2. CallFitsPlace'
    BY DEF IInv, CallFitsPlace
  <2>3. (AtParameter /\ SeenIsHeld /\ QuietWhileBusy)'
    BY DEF AtParameter, SeenIsHeld, QuietWhileBusy
  <2>4. (SubmitsItsOwn /\ VerifiedPairs)'
    BY DEF IInv, SubmitsItsOwn, VerifiedPairs
  <2> QED
    BY <2>1, <2>2, <2>3, <2>4 DEF IInv
<1>2. CASE request.op \notin {"version", "rpm"}
  BY <1>2, LeaveIInv DEF Confirm
<1> QED
  BY <1>1, <1>2

LEMMA EcPerformsIInv ==
  ASSUME IInv, EcPerforms
  PROVE  IInv'
<1> USE DEF EcPerforms, callVars
<1>1. command # Idle /\ ~performed /\ performed' = TRUE
  OBVIOUS
<1>2. Answered \in [1..2 -> Bytes]
  BY DEF IInv, TypeOK, RegistersOK, Answered, Bytes
<1>3. drives' \in Pairs \cup {Bios}
  <2>1. CASE command = "set"
    <3>1. /\ handed \in Commands
          /\ handed.op = "set"
          /\ drives' = [cpu |-> handed.pair.cpu, sys |-> handed.pair.sys]
      BY <1>1, <2>1 DEF IInv, SubmitsItsOwn, VerifiedPairs
    <3> QED
      BY <3>1, CommandsShape DEF Pairs
  <2>2. CASE command # "set"
    BY <2>2 DEF IInv, TypeOK, RegistersOK
  <2> QED
    BY <2>1, <2>2
<1>4. TypeOK'
  <2>1. RegistersOK'
    BY <1>2, <1>3 DEF IInv, TypeOK, RegistersOK
  <2>2. PlaceOK' /\ CallOK'
    BY DEF IInv, TypeOK, PlaceOK, CallOK
  <2>3. ReadingOK'
    BY DEF IInv, TypeOK, ReadingOK
  <2> QED
    BY <2>1, <2>2, <2>3 DEF TypeOK
<1>5. CallFitsPlace' /\ AtParameter'
  BY DEF IInv, CallFitsPlace, AtParameter
<1>6. pc \notin {"write", "verify", "submit"}
  BY <1>1 DEF IInv, QuietWhileBusy
<1>7. (SeenIsHeld /\ QuietWhileBusy)'
  BY <1>6 DEF SeenIsHeld, QuietWhileBusy
<1>8. (SubmitsItsOwn /\ VerifiedPairs)'
  BY <1>1, <1>6 DEF IInv, SubmitsItsOwn, VerifiedPairs
<1> QED
  BY <1>4, <1>5, <1>7, <1>8 DEF IInv

LEMMA EcAcknowledgesIInv ==
  ASSUME IInv, EcAcknowledges
  PROVE  IInv'
<1> USE DEF EcAcknowledges, callVars
<1>1. TypeOK'
  BY DEF IInv, TypeOK, RegistersOK, PlaceOK, CallOK, ReadingOK
<1>2. CallFitsPlace' /\ AtParameter' /\ SeenIsHeld' /\ QuietWhileBusy'
  BY DEF IInv, CallFitsPlace, AtParameter, SeenIsHeld, QuietWhileBusy
<1>3. (SubmitsItsOwn /\ VerifiedPairs)'
  BY DEF IInv, SubmitsItsOwn, VerifiedPairs, Idle
<1> QED
  BY <1>1, <1>2, <1>3 DEF IInv

LEMMA StepIInv == IInv /\ [Next]_vars => IInv'
<1> SUFFICES ASSUME IInv, [Next]_vars
             PROVE  IInv'
  OBVIOUS
<1>1. CASE Open
  BY <1>1, EnterIInv DEF Open, Commands
<1>2. CASE SetDuty
  BY <1>2, EnterIInv DEF SetDuty, Commands
<1>3. CASE RestoreBios
  BY <1>3, EnterIInv DEF RestoreBios, Commands
<1>4. CASE ReadRpm
  BY <1>4, EnterIInv DEF ReadRpm, Commands
<1>5. CASE Settle
  BY <1>5, SettleIInv
<1>6. CASE WriteParameter
  BY <1>6, WriteIInv
<1>7. CASE ReadBack
  BY <1>7, ReadBackIInv
<1>8. CASE Submit
  BY <1>8, SubmitIInv
<1>9. CASE Confirm
  BY <1>9, ConfirmIInv
<1>10. CASE Response
  BY <1>10, LeaveIInv, FailIInv DEF Response
<1>11. CASE TimeOut \/ PortFails
  BY <1>11, FailIInv DEF TimeOut, PortFails
<1>12. CASE Killed
  <2>1. result \in {"none", "ok", "error"}
    BY DEF IInv, TypeOK, PlaceOK
  <2> QED
    BY <1>12, <2>1, LeaveIInv DEF Killed
<1>13. CASE EcPerforms
  BY <1>13, EcPerformsIInv
<1>14. CASE EcAcknowledges
  BY <1>14, EcAcknowledgesIInv
<1>15. CASE UNCHANGED vars
  <2> USE <1>15 DEF vars, ecVars, callVars
  <2>1. TypeOK'
    BY DEF IInv, TypeOK, RegistersOK, PlaceOK, CallOK, ReadingOK
  <2>2. CallFitsPlace' /\ AtParameter' /\ SeenIsHeld' /\ QuietWhileBusy'
    BY DEF IInv, CallFitsPlace, AtParameter, SeenIsHeld, QuietWhileBusy
  <2>3. (SubmitsItsOwn /\ VerifiedPairs)'
    BY DEF IInv, SubmitsItsOwn, VerifiedPairs
  <2> QED
    BY <2>1, <2>2, <2>3 DEF IInv
<1> QED
  BY <1>1, <1>2, <1>3, <1>4, <1>5, <1>6, <1>7, <1>8, <1>9, <1>10, <1>11, <1>12,
     <1>13, <1>14, <1>15 DEF Next, ProcessNext

\* The invariant under the three below.
THEOREM MailboxInvariant == Spec => []IInv
  BY InitIInv, StepIInv, PTL DEF Spec

\* Registers, calls and places keep their types: whatever the EC does and
\* whenever the process is killed, a whole pair or the BIOS drives the fans.
THEOREM TypeCorrect == Spec => []TypeOK
<1>1. IInv => TypeOK
  BY DEF IInv
<1> QED
  BY <1>1, MailboxInvariant, PTL

\* Nothing is written over a command the EC has not acknowledged.
THEOREM BusyIsLeftAlone == Spec => []QuietWhileBusy
<1>1. IInv => QuietWhileBusy
  BY DEF IInv
<1> QED
  BY <1>1, MailboxInvariant, PTL

\* The EC acts on the parameters of the call that submitted them.
THEOREM PairsAreVerified == Spec => []VerifiedPairs
<1>1. IInv => VerifiedPairs
  BY DEF IInv
<1> QED
  BY <1>1, MailboxInvariant, PTL

-----------------------------------------------------------------------------
(* The mailbox implements EcService.                                       *)

LEMMA InitIsDeviceInit == Init => Device!Init
  BY DEF Init, Device!Init, Device!Pairs, Pairs, Device!None, None, Idle

\* A call begins or ends; registers and EC stay as they are.
LEMMA EnterIsBegin ==
  ASSUME IInv, NEW r \in Commands, pc \in {"down", "ready"}, Enter(r)
  PROVE  Device!Next
<1>1. request = None /\ r \in Device!Commands
  BY DEF IInv, CallFitsPlace, Device!Commands, Commands, Device!Pairs, Pairs
<1>2. sent' = sent
  BY DEF IInv, CallFitsPlace, TypeOK, PlaceOK, Enter
<1>3. Device!Begin(r)
  BY <1>1, <1>2 DEF Device!Begin, Device!None, None, Enter, ecVars
<1> QED
  BY <1>1, <1>3 DEF Device!Next

LEMMA LeaveInError ==
  ASSUME request # None, NEW where, Leave(where, "error")
  PROVE  Device!Next
  BY DEF Leave, ecVars, Device!Next, Device!GiveUp, Device!None, None

LEMMA LeaveInSuccess ==
  ASSUME IInv, pc \in {"confirm", "response"}, command = Idle,
         NEW where, Leave(where, "ok")
  PROVE  Device!Next
<1>1. sent
  BY DEF IInv, CallFitsPlace
<1> QED
  BY <1>1 DEF Leave, ecVars, Device!Next, Device!Succeed, Device!None, None

LEMMA FailIsGiveUp ==
  ASSUME request # None, Fail
  PROVE  Device!Next
  BY LeaveInError DEF Fail

\* The accesses between a call and its submission are steps of nobody's.
LEMMA StutterOfDevice ==
  ASSUME UNCHANGED <<ecVars, request, result, sent, handed>>
  PROVE  UNCHANGED Device!vars
  BY DEF ecVars, Device!vars

LEMMA SubmitIsHandOver ==
  ASSUME IInv, Submit
  PROVE  Device!Next
<1>1. request # None /\ ~sent /\ command = Idle
  BY DEF IInv, CallFitsPlace, QuietWhileBusy, Submit
<1>2. request.op # Idle
  BY <1>1, CommandsShape DEF IInv, TypeOK, CallOK, Idle
<1> QED
  BY <1>1, <1>2 DEF Submit, Device!Next, Device!HandOver, Device!None, None

LEMMA EcPerformsIsPerform ==
  ASSUME IInv, EcPerforms
  PROVE  Device!Next
<1>1. handed \in Commands /\ command = handed.op /\ command # Idle /\ ~performed
  BY DEF IInv, SubmitsItsOwn, EcPerforms
<1>2. handed # None
  BY <1>1, CommandsShape
<1>3. drives' = Device!Effect(handed, drives)
  <2>1. CASE command = "set"
    <3>1. drives' = [cpu |-> handed.pair.cpu, sys |-> handed.pair.sys]
      BY <1>1, <2>1 DEF IInv, VerifiedPairs, EcPerforms
    <3>2. handed.pair = [cpu |-> handed.pair.cpu, sys |-> handed.pair.sys]
      BY <1>1, <2>1, CommandsShape DEF Pairs
    <3> QED
      BY <1>1, <2>1, <3>1, <3>2 DEF Device!Effect
  <2>2. CASE command # "set"
    BY <1>1, <2>2 DEF EcPerforms, Device!Effect
  <2> QED
    BY <2>1, <2>2
<1>4. performed' /\ UNCHANGED <<request, sent, result>>
  BY DEF EcPerforms, callVars
<1>5. Device!Perform
  BY <1>1, <1>2, <1>3, <1>4 DEF Device!Perform, Device!None, None
<1> QED
  BY <1>5 DEF Device!Next

LEMMA StepIsDeviceStep == IInv /\ [Next]_vars => [Device!Next]_(Device!vars)
<1> SUFFICES ASSUME IInv, [Next]_vars
             PROVE  Device!Next \/ UNCHANGED Device!vars
  OBVIOUS
<1>1. CASE Open
  BY <1>1, EnterIsBegin DEF Open, Commands
<1>2. CASE SetDuty
  BY <1>2, EnterIsBegin DEF SetDuty, Commands
<1>3. CASE RestoreBios
  BY <1>3, EnterIsBegin DEF RestoreBios, Commands
<1>4. CASE ReadRpm
  BY <1>4, EnterIsBegin DEF ReadRpm, Commands
<1>5. CASE Settle \/ WriteParameter
  BY <1>5, StutterOfDevice DEF Settle, WriteParameter
<1>6. CASE ReadBack
  <2>1. request # None
    BY <1>6 DEF IInv, CallFitsPlace, ReadBack
  <2> QED
    BY <1>6, <2>1, FailIsGiveUp, StutterOfDevice DEF ReadBack
<1>7. CASE Submit
  BY <1>7, SubmitIsHandOver
<1>8. CASE Confirm
  BY <1>8, LeaveInSuccess, StutterOfDevice DEF Confirm
<1>9. CASE Response
  <2>1. request # None /\ command = Idle
    BY <1>9 DEF IInv, CallFitsPlace, Response
  <2> QED
    BY <1>9, <2>1, LeaveInSuccess, FailIsGiveUp DEF Response
<1>10. CASE TimeOut \/ PortFails
  <2>1. request # None
    BY <1>10 DEF IInv, CallFitsPlace, TimeOut, PortFails
  <2> QED
    BY <1>10, <2>1, FailIsGiveUp DEF TimeOut, PortFails
<1>11. CASE Killed
  <2>1. CASE request # None
    BY <1>11, <2>1, LeaveInError DEF Killed
  <2>2. CASE request = None
    <3>1. sent' = sent
      BY <1>11, <2>2 DEF IInv, CallFitsPlace, TypeOK, PlaceOK, Killed, Leave
    <3> QED
      BY <1>11, <2>2, <3>1, StutterOfDevice DEF Killed, Leave, ecVars
  <2> QED
    BY <2>1, <2>2
<1>12. CASE EcPerforms
  BY <1>12, EcPerformsIsPerform
<1>13. CASE EcAcknowledges
  BY <1>13 DEF EcAcknowledges, callVars, Device!vars
<1>14. CASE UNCHANGED vars
  BY <1>14, StutterOfDevice DEF vars, ecVars, callVars
<1> QED
  BY <1>1, <1>2, <1>3, <1>4, <1>5, <1>6, <1>7, <1>8, <1>9, <1>10, <1>11, <1>12,
     <1>13, <1>14 DEF Next, ProcessNext

\* For any duties: a call that succeeds has been performed by the EC, and one
\* that fails leaves at most its own command behind, performed before any other.
THEOREM MailboxIsEcService == Spec => ImplementsEcService
  BY InitIsDeviceInit, StepIsDeviceStep, MailboxInvariant, PTL
     DEF Spec, ImplementsEcService, Device!Spec

=============================================================================
