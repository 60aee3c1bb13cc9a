----------------------------- MODULE VmmProofs -----------------------------
(***************************************************************************)
(* Proofs about Vmm: each instruction of the guest takes effect exactly    *)
(* once, for every program length and every set of SMC calls.  The         *)
(* inductive invariant adds to the two properties what a handler relies    *)
(* on: while it runs, the guest is blocked on the fault it is handling,    *)
(* its copy of the registers is up to date, and no other fault is queued.  *)
(***************************************************************************)
EXTENDS Vmm, TLAPS

(* The guest is blocked on the VMM exactly while the reply capability is   *)
(* its own or its fault is queued.                                         *)
Waiting ==
    /\ reply_cap = "guest" => guest = "blocked" /\ queued = None
    /\ queued # None => guest = "blocked"

(* A handler works on the current registers, and on the fault of an        *)
(* instruction or of an interrupt.                                         *)
Handler ==
    vmm = "handle" =>
        /\ reply_cap = "guest"
        /\ regs = tcb
        /\ cur \in FaultMessages
        /\ cur \notin InterruptFaults => regs.pc < MaxPc

(* A queued fault of an instruction was raised inside the program. *)
InProgram ==
    queued \in FaultMessages \ InterruptFaults => tcb.pc < MaxPc

IInv == TypeOK /\ ExecutedOnce /\ Waiting /\ Handler /\ InProgram

(* The empty message is not a fault. *)
LEMMA NoneIsNoFault == None \notin FaultMessages
BY DEF None, FaultMessages, InstructionFaults, InterruptFaults, VmFaults, Syscalls,
       SmcFaults, VcpuFaults, OtherFaults

(* The labels and fields of the messages tell the kinds apart. *)
LEMMA InstructionLabels ==
    ASSUME NEW f \in FaultMessages,
           f.label \in {"VMFault", "UnknownSyscall", "VCPUFault"}
    PROVE  f \notin InterruptFaults
BY DEF InterruptFaults

(* Instructions are one of the kinds of fault. *)
LEMMA InstructionIsMessage == InstructionFaults \subseteq FaultMessages
BY DEF FaultMessages

LEMMA InterruptIsMessage == InterruptFaults \subseteq FaultMessages
BY DEF FaultMessages

(* The step that counts instruction p and moves pc past it. *)
LEMMA CountStep ==
    ASSUME TypeOK, ExecutedOnce, NEW p \in 0 .. MaxPc, p = tcb.pc, p < MaxPc,
           Effect(p), tcb'.pc = p + 1
    PROVE  count' \in [0 .. MaxPc -> Nat] /\ ExecutedOnce'
<1>1. count \in [0 .. MaxPc -> Nat] /\ count[p] = 0
  BY DEF TypeOK, ExecutedOnce
<1>2. count' = [count EXCEPT ![p] = 1]
  BY <1>1 DEF Effect
<1>3. count' \in [0 .. MaxPc -> Nat]
  BY <1>1, <1>2
<1>4. ASSUME NEW q \in 0 .. MaxPc
      PROVE  count'[q] = IF q < p + 1 THEN 1 ELSE 0
  <2>1. count[q] = IF q < p THEN 1 ELSE 0
    BY DEF ExecutedOnce
  <2>2. q \in Int /\ p \in Int
    BY MaxPcAssumption
  <2> QED BY <1>1, <1>2, <2>1, <2>2
<1> QED BY <1>3, <1>4 DEF ExecutedOnce

LEMMA InitInv == Init => IInv
<1> SUFFICES ASSUME Init PROVE IInv
  OBVIOUS
<1>1. TypeOK
  BY MaxPcAssumption DEF Init, TypeOK
<1>2. ExecutedOnce
  BY MaxPcAssumption DEF Init, ExecutedOnce
<1>3. Waiting /\ Handler /\ InProgram
  BY NoneIsNoFault DEF Init, Waiting, Handler, InProgram
<1> QED BY <1>1, <1>2, <1>3 DEF IInv

(* The values handle_psci returns. *)
LEMMA PsciReturnInt ==
    ASSUME NEW f \in SmcFaults, SmcAnswered(f)
    PROVE  PsciReturn(f.target)[f.fn] \in Int
BY DEF SmcAnswered, PsciReturn, SmcFaults

(* Every step preserves the invariant. *)
LEMMA NextInv == IInv /\ [Next]_vars => IInv'
<1> SUFFICES ASSUME IInv, [Next]_vars PROVE IInv'
  OBVIOUS
<1> USE DEF IInv
<1>a. tcb.pc \in 0 .. MaxPc /\ tcb.x0 \in Int /\ MaxPc \in Nat
  BY MaxPcAssumption DEF TypeOK
<1>1. CASE GuestExecutes
  <2>1. /\ guest = "running" /\ tcb.pc < MaxPc /\ Effect(tcb.pc)
        /\ tcb' = [tcb EXCEPT !.pc = @ + 1]
        /\ UNCHANGED <<guest, queued, reply_cap, vmm, cur, regs>>
    BY <1>1 DEF GuestExecutes
  <2>2. tcb' \in [pc : 0 .. MaxPc, x0 : Int] /\ tcb'.pc = tcb.pc + 1
    BY <1>a, <2>1 DEF TypeOK
  <2>3. count' \in [0 .. MaxPc -> Nat] /\ ExecutedOnce'
    BY <1>a, <2>1, <2>2, CountStep
  <2>4. TypeOK'
    BY <2>1, <2>2, <2>3 DEF TypeOK
  <2>5. Waiting' /\ Handler' /\ InProgram'
    BY <2>1, NoneIsNoFault DEF Waiting, Handler, InProgram
  <2> QED BY <2>3, <2>4, <2>5
<1>2. ASSUME NEW f \in InstructionFaults, GuestFaults(f) PROVE IInv'
  <2>1. f \in FaultMessages
    BY InstructionIsMessage
  <2> QED BY <1>2, <2>1, NoneIsNoFault
          DEF GuestFaults, Raises, TypeOK, ExecutedOnce, Waiting, Handler, InProgram
<1>3. ASSUME NEW f \in InterruptFaults, InterruptReported(f) PROVE IInv'
  <2>1. f \in FaultMessages
    BY InterruptIsMessage
  <2> QED BY <1>3, <2>1, NoneIsNoFault
          DEF InterruptReported, Raises, TypeOK, ExecutedOnce, Waiting, Handler, InProgram
<1>4. CASE Receive
  BY <1>4, NoneIsNoFault
     DEF Receive, TypeOK, ExecutedOnce, Waiting, Handler, InProgram
<1>5. CASE reply_to_fault
  BY <1>5, NoneIsNoFault
     DEF reply_to_fault, TypeOK, ExecutedOnce, Waiting, Handler, InProgram
<1>6. ASSUME vmm = "handle", cur \notin InterruptFaults, NEW x0 \in Int,
             fault_advance_vcpu(x0)
      PROVE  IInv'
  <2>1. /\ regs = tcb /\ tcb.pc < MaxPc /\ Effect(tcb.pc)
        /\ queued = None
        /\ tcb' = [pc |-> tcb.pc + 1, x0 |-> x0] /\ guest' = "running"
        /\ reply_cap' = "null" /\ vmm' = "reply"
        /\ UNCHANGED <<queued, cur, regs>>
    BY <1>6 DEF fault_advance_vcpu, Handler, Waiting
  <2>2. tcb' \in [pc : 0 .. MaxPc, x0 : Int] /\ tcb'.pc = tcb.pc + 1
    BY <1>a, <2>1
  <2>3. count' \in [0 .. MaxPc -> Nat] /\ ExecutedOnce'
    BY <1>a, <2>1, <2>2, CountStep
  <2>4. TypeOK'
    BY <2>1, <2>2, <2>3 DEF TypeOK
  <2>5. Waiting' /\ Handler' /\ InProgram'
    BY <2>1, NoneIsNoFault DEF Waiting, Handler, InProgram
  <2> QED BY <2>3, <2>4, <2>5
<1>7. CASE HandleDistFault
  <2>1. vmm = "handle" /\ cur \notin InterruptFaults /\ fault_advance_vcpu(regs.x0)
    BY <1>7, InstructionLabels DEF HandleDistFault, Handling, Handler
  <2>2. regs.x0 \in Int
    BY DEF TypeOK
  <2> QED BY <2>1, <2>2, <1>6
<1>8. CASE HandlePsci
  <2>1. /\ vmm = "handle" /\ cur \notin InterruptFaults
        /\ cur \in FaultMessages /\ cur.label = "VCPUFault" /\ cur.class = "SMC"
        /\ SmcAnswered(cur) /\ fault_advance_vcpu(PsciReturn(cur.target)[cur.fn])
    BY <1>8, InstructionLabels DEF HandlePsci, Handling, Handler
  <2>2. cur \in SmcFaults
    BY <2>1 DEF FaultMessages, InstructionFaults, InterruptFaults, VmFaults, Syscalls,
                VcpuFaults, OtherFaults
  <2>3. PsciReturn(cur.target)[cur.fn] \in Int
    BY <2>1, <2>2, PsciReturnInt
  <2> QED BY <2>1, <2>3, <1>6
<1>9. CASE HandleKnownSyscall
  <2>1. /\ regs = tcb /\ tcb.pc < MaxPc /\ Effect(tcb.pc)
        /\ reply_cap = "guest" /\ guest = "blocked" /\ queued = None
        /\ tcb' = [tcb EXCEPT !.pc = @ + 1] /\ vmm' = "idle"
        /\ UNCHANGED <<guest, queued, reply_cap, cur, regs>>
    BY <1>9, InstructionLabels DEF HandleKnownSyscall, Handling, Handler, Waiting
  <2>2. tcb' \in [pc : 0 .. MaxPc, x0 : Int] /\ tcb'.pc = tcb.pc + 1
    BY <1>a, <2>1 DEF TypeOK
  <2>3. count' \in [0 .. MaxPc -> Nat] /\ ExecutedOnce'
    BY <1>a, <2>1, <2>2, CountStep
  <2>4. TypeOK'
    BY <2>1, <2>2, <2>3 DEF TypeOK
  <2>5. Waiting' /\ Handler' /\ InProgram'
    BY <2>1, NoneIsNoFault DEF Waiting, Handler, InProgram
  <2> QED BY <2>3, <2>4, <2>5
<1>10. CASE /\ vmm' \in {"idle", "reply", "asserted"}
            /\ UNCHANGED <<guest, tcb, queued, reply_cap, cur, regs, count>>
  BY <1>10 DEF TypeOK, ExecutedOnce, Waiting, Handler, InProgram
<1>11. CASE HandleUnknownFault
  BY <1>11, NoneIsNoFault
     DEF HandleUnknownFault, Handling, TypeOK, ExecutedOnce, Waiting, Handler, InProgram
<1>12. CASE \/ HandleFails \/ HandleUnexpectedVmFault \/ HandleUnknownSyscall \/ HandleUserException
            \/ HandleOtherSmc \/ HandleWfx \/ HandleUnknownVcpuFault \/ HandleInterrupt
  BY <1>10, <1>12
     DEF HandleFails, Asserts, HandleUnexpectedVmFault, HandleUnknownSyscall, HandleUserException,
         HandleOtherSmc, HandleWfx, HandleUnknownVcpuFault, HandleInterrupt,
         ReturnsUnanswered, RepliesOnly
<1>13. CASE UNCHANGED vars
  BY <1>13 DEF vars, TypeOK, ExecutedOnce, Waiting, Handler, InProgram
<1> QED BY <1>1, <1>2, <1>3, <1>4, <1>5, <1>7, <1>8, <1>9, <1>11, <1>12, <1>13
        DEF Next, GuestStep, VmmStep

LEMMA Invariant == Spec => []IInv
BY InitInv, NextInv, PTL DEF Spec

(* Each instruction of the guest takes effect exactly once, whichever of   *)
(* its instructions the handlers of vmm.c, smc.c and psci.c emulate and    *)
(* wherever interrupts are reported.                                       *)
THEOREM InstructionsOnce == Spec => []ExecutedOnce
BY Invariant, PTL DEF IInv

(* The reply at the end of fault_advance_vcpu() never resumes the guest    *)
(* from a fault that has not been handled.                                 *)
THEOREM RepliesNotBlind == Spec => []NoBlindReply
<1>1. IInv => NoBlindReply
  BY DEF IInv, Waiting, NoBlindReply
<1> QED BY <1>1, Invariant, PTL

(* The registers the handlers of vmm.c write and the messages they decode  *)
(* keep their types; the pc stays inside the guest's program.              *)
THEOREM TypeCorrect == Spec => []TypeOK
BY Invariant, PTL DEF IInv

----------------------------------------------------------------------------
(* A handler about to reply to a blocked guest has its reply capability,   *)
(* or the guest has faulted again since it was resumed.                    *)
Replying ==
    vmm = "reply" /\ guest = "blocked" /\ queued = None => reply_cap = "guest"

LEMMA InitBlocks == Init => Replying /\ OnlyReportedFaultsBlock
BY DEF Init, Replying, OnlyReportedFaultsBlock

(* Every step preserves what is said of a guest left blocked. *)
LEMMA NextBlocks ==
    IInv /\ Replying /\ OnlyReportedFaultsBlock /\ [Next]_vars
        => (Replying /\ OnlyReportedFaultsBlock)'
<1> SUFFICES ASSUME IInv, Replying, OnlyReportedFaultsBlock, [Next]_vars
             PROVE  (Replying /\ OnlyReportedFaultsBlock)'
  OBVIOUS
<1> USE DEF Replying, OnlyReportedFaultsBlock
<1>1. CASE GuestExecutes
  BY <1>1 DEF GuestExecutes
<1>2. ASSUME NEW f \in FaultMessages, Raises(f)
      PROVE  (Replying /\ OnlyReportedFaultsBlock)'
  BY <1>2, NoneIsNoFault DEF Raises
<1>3. CASE (\E f \in InstructionFaults : GuestFaults(f))
           \/ \E f \in InterruptFaults : InterruptReported(f)
  BY <1>2, <1>3, InstructionIsMessage, InterruptIsMessage DEF GuestFaults, InterruptReported
<1>4. CASE Receive
  BY <1>4 DEF Receive
<1>5. CASE reply_to_fault
  BY <1>5 DEF reply_to_fault
<1>6. CASE HandleDistFault \/ HandlePsci
  BY <1>6 DEF HandleDistFault, HandlePsci, fault_advance_vcpu
<1>7. CASE HandleKnownSyscall \/ HandleUnknownSyscall \/ HandleUserException
           \/ HandleOtherSmc \/ HandleUnknownVcpuFault
  BY <1>7 DEF HandleKnownSyscall, HandleUnknownSyscall, HandleUserException, HandleOtherSmc,
              HandleUnknownVcpuFault, Handling, ReturnsUnanswered
<1>8. CASE HandleWfx \/ HandleInterrupt
  BY <1>8 DEF HandleWfx, HandleInterrupt, Handling, RepliesOnly, IInv, Handler
<1>9. CASE HandleFails \/ HandleUnexpectedVmFault
  BY <1>9 DEF HandleFails, HandleUnexpectedVmFault, Asserts
<1>10. CASE HandleUnknownFault
  BY <1>10 DEF HandleUnknownFault
<1>11. CASE UNCHANGED vars
  BY <1>11 DEF vars
<1> QED BY <1>1, <1>3, <1>4, <1>5, <1>6, <1>7, <1>8, <1>9, <1>10, <1>11
        DEF Next, GuestStep, VmmStep

(* A guest is left blocked only by the handlers that never answer: no      *)
(* reply of vmm.c or fault.c is lost, whenever the guest faults again.     *)
THEOREM BlocksOnlyReported == Spec => []OnlyReportedFaultsBlock
BY Invariant, InitBlocks, NextBlocks, PTL DEF Spec
=============================================================================
