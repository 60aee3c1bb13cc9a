-------------------------------- MODULE Vmm --------------------------------
(***************************************************************************)
(* How the VMM answers the faults of its guest: the dispatch of fault() in *)
(* vmm.c, the handlers of VM faults, system calls, vCPU faults, SMC and    *)
(* PSCI calls, and the two ways a handler resumes the guest,               *)
(* reply_to_fault() and fault_advance_vcpu().                              *)
(*                                                                         *)
(* The guest's program is straight-line code of MaxPc instructions; pc is  *)
(* an instruction's number, so the code's pc += 4 is + 1.  The guest runs  *)
(* from the moment it is resumed, which fault_advance_vcpu() does when it  *)
(* writes the registers, before it replies.                                *)
(***************************************************************************)
EXTENDS Integers

CONSTANTS MaxPc,     \* the length of the guest's program
          Services,  \* the service numbers of the guest's SMC calls
          Functions  \* the function numbers of the guest's SMC calls

ASSUME MaxPcAssumption == MaxPc \in Nat
ASSUME ServicesAssumption == Services \subseteq 0 .. 63
ASSUME FunctionsAssumption == Functions \subseteq 0 .. 65535

VCPU_ID   == 0
PSCI_MAX  == 31
SMC_CALL_STD_SERVICE        == 4
SMC_CALL_VENDOR_HYP_SERVICE == 6
SMC_CALL_TRUSTED_APP        == 48
SMC_CALL_TRUSTED_OS         == 50
SMC_CALL_RESERVED           == 64

(* The faults an instruction raises, and the interrupts the kernel reports *)
(* as faults.  The page of a VM fault is one of the distributor's, one of  *)
(* the redistributor's (GICv3), the page after one of the two (which the   *)
(* case ranges of handle_vm_fault include), or another.                    *)
(* fails: an assertion of the virtual GIC fails in the handler; Vgic says  *)
(* in which states, and it always does for an address past the             *)
(* redistributor.  The SMC function, its service and its first argument    *)
(* are read from x0 and x1.                                                *)
GicPages    == {"dist", "dist_end", "redist"}
VmFaults    == [label : {"VMFault"}, page : GicPages, fails : BOOLEAN]
               \cup [label : {"VMFault"}, page : {"redist_end"}, fails : {TRUE}]
               \cup [label : {"VMFault"}, page : {"other"}, fails : {FALSE}]
Syscalls    == [label : {"UnknownSyscall"}, syscall : {"PA_TO_IPA", "NOP", "unknown"}]
SmcFaults   == [label : {"VCPUFault"}, class : {"SMC"}, service : Services,
                fn : Functions, target : {VCPU_ID, 1}]
VcpuFaults  == [label : {"VCPUFault"}, class : {"WFx", "unknown"}]
OtherFaults == [label : {"UserException", "unknown"}]
InstructionFaults == VmFaults \cup Syscalls \cup SmcFaults \cup VcpuFaults \cup OtherFaults
InterruptFaults == [label : {"VPPIEvent", "VGICMaintenance"}, fails : BOOLEAN]
FaultMessages == InstructionFaults \cup InterruptFaults
None == [label |-> "none"]

----------------------------------------------------------------------------
smc_get_call(service) ==
    IF service <= SMC_CALL_VENDOR_HYP_SERVICE THEN service
    ELSE IF service < SMC_CALL_TRUSTED_APP THEN SMC_CALL_RESERVED
    ELSE IF service < SMC_CALL_TRUSTED_OS THEN SMC_CALL_TRUSTED_APP
    ELSE SMC_CALL_TRUSTED_OS

(* The PSCI functions handle_psci knows, with the value each returns       *)
(* (negative values in two's complement).                                  *)
PsciReturn(target) ==
    [fn \in {0, 3, 6, 9, 10} |->
        CASE fn = 0  -> 65536                                \* PSCI_VERSION
          [] fn = 3  -> IF target = VCPU_ID THEN -4 ELSE -6  \* PSCI_CPU_ON
          [] fn = 6  -> 2                                    \* PSCI_MIGRATE_INFO_TYPE
          [] fn = 9  -> 0                                    \* PSCI_SYSTEM_RESET
          [] fn = 10 -> -1]                                  \* PSCI_FEATURES

(* handle_smc and handle_psci answer the call. *)
SmcAnswered(f) ==
    /\ smc_get_call(f.service) = SMC_CALL_STD_SERVICE
    /\ f.fn < PSCI_MAX
    /\ f.fn \in DOMAIN PsciReturn(f.target)

----------------------------------------------------------------------------
VARIABLES guest,   \* "running", "blocked" in a fault, or "stopped"
          tcb,     \* the guest's registers: pc, x0
          queued,  \* the fault that waits at the VMM's endpoint
          reply_cap, \* whom the VMM's reply capability answers
          vmm,     \* "idle", "handle", "reply" or "asserted"
          cur,     \* the fault fault() is handling
          regs,    \* the handler's copy of the guest's registers
          count    \* history: how often each instruction took effect

vars == <<guest, tcb, queued, reply_cap, vmm, cur, regs, count>>

Init ==
    /\ guest = "running"
    /\ tcb = [pc |-> 0, x0 |-> 0]
    /\ queued = None
    /\ reply_cap = "null"
    /\ vmm = "idle"
    /\ cur = None
    /\ regs = tcb
    /\ count = [p \in 0 .. MaxPc |-> 0]

(* The instruction at p takes effect. *)
Effect(p) == count' = [count EXCEPT ![p] = @ + 1]

----------------------------------------------------------------------------
(* The guest *)
GuestExecutes ==
    /\ guest = "running" /\ tcb.pc < MaxPc
    /\ tcb' = [tcb EXCEPT !.pc = @ + 1]
    /\ Effect(tcb.pc)
    /\ UNCHANGED <<guest, queued, reply_cap, vmm, cur, regs>>

(* The kernel sends the fault and blocks the guest. *)
Raises(f) ==
    /\ guest = "running"
    /\ guest' = "blocked"
    /\ queued' = f
    /\ UNCHANGED <<tcb, reply_cap, vmm, cur, regs, count>>

GuestFaults(f) == tcb.pc < MaxPc /\ Raises(f)
InterruptReported(f) == Raises(f)

----------------------------------------------------------------------------
(* The VMM *)

(* The event loop receives the fault, fault() reads its label and the      *)
(* handler the guest's registers.                                          *)
Receive ==
    /\ vmm = "idle" /\ queued # None
    /\ vmm' = "handle"
    /\ cur' = queued
    /\ queued' = None
    /\ reply_cap' = "guest"
    /\ regs' = tcb
    /\ UNCHANGED <<guest, tcb, count>>

Handling(label) == vmm = "handle" /\ cur.label = label

(* reply_to_fault: a reply capability that is not bound answers nobody. *)
reply_to_fault ==
    /\ vmm = "reply"
    /\ guest' = IF reply_cap = "guest" THEN "running" ELSE guest
    /\ reply_cap' = "null"
    /\ vmm' = "idle"
    /\ UNCHANGED <<tcb, queued, cur, regs, count>>

(* The guest is resumed and the VMM's reply capability still is the        *)
(* guest's.                                                                *)
MutantStaysBound(x0) ==
    /\ tcb' = [pc |-> regs.pc + 1, x0 |-> x0]
    /\ guest' = "running"
    /\ vmm' = "reply"
    /\ Effect(regs.pc)
    /\ UNCHANGED <<queued, reply_cap, cur, regs>>
(* fault_advance_vcpu up to its reply: writing the registers with the      *)
(* resume flag restarts the guest and so takes it off the VMM's reply      *)
(* capability.                                                             *)
fault_advance_vcpu(x0) ==
    /\ tcb' = [pc |-> regs.pc + 1, x0 |-> x0]
    /\ guest' = "running"
    /\ reply_cap' = "null"
    /\ vmm' = "reply"
    /\ Effect(regs.pc)
    /\ UNCHANGED <<queued, cur, regs>>

(* The handler returns to the event loop without a reply. *)
ReturnsUnanswered ==
    /\ vmm' = "idle"
    /\ UNCHANGED <<guest, tcb, queued, reply_cap, cur, regs, count>>

RepliesOnly ==
    /\ vmm' = "reply"
    /\ UNCHANGED <<guest, tcb, queued, reply_cap, cur, regs, count>>

(* An access to a register is emulated, with an operand other than x0;     *)
(* DistRegs has its effect.                                                *)
HandleDistFault ==
    /\ Handling("VMFault") /\ cur.page \in GicPages /\ ~cur.fails
    /\ fault_advance_vcpu(regs.x0)

(* assert_fail: the VMM stops. *)
Asserts ==
    /\ vmm' = "asserted"
    /\ UNCHANGED <<guest, tcb, queued, reply_cap, cur, regs, count>>

(* An assertion fails in the emulation of the access or in the interrupt   *)
(* handler.                                                                *)
HandleFails ==
    /\ vmm = "handle" /\ cur \in VmFaults \cup InterruptFaults /\ cur.fails
    /\ Asserts

HandleUnexpectedVmFault ==
    Handling("VMFault") /\ cur.page = "other" /\ Asserts

(* The two known calls write the registers back and do not reply. *)
HandleKnownSyscall ==
    /\ Handling("UnknownSyscall") /\ cur.syscall # "unknown"
    /\ tcb' = [regs EXCEPT !.pc = @ + 1]
    /\ Effect(regs.pc)
    /\ vmm' = "idle"
    /\ UNCHANGED <<guest, queued, reply_cap, cur, regs>>

HandleUnknownSyscall ==
    Handling("UnknownSyscall") /\ cur.syscall = "unknown" /\ ReturnsUnanswered

HandleUserException == Handling("UserException") /\ ReturnsUnanswered

HandlePsci ==
    /\ Handling("VCPUFault") /\ cur.class = "SMC" /\ SmcAnswered(cur)
    /\ fault_advance_vcpu(PsciReturn(cur.target)[cur.fn])

HandleOtherSmc ==
    Handling("VCPUFault") /\ cur.class = "SMC" /\ ~SmcAnswered(cur) /\ ReturnsUnanswered

(* Nothing is done, not even the reply. *)
MutantIgnoresWfx == Handling("VCPUFault") /\ cur.class = "WFx" /\ ReturnsUnanswered
(* A WFI or WFE is answered and executed again. *)
HandleWfx == Handling("VCPUFault") /\ cur.class = "WFx" /\ RepliesOnly

HandleUnknownVcpuFault ==
    Handling("VCPUFault") /\ cur.class = "unknown" /\ ReturnsUnanswered

(* The instruction the interrupt came at is skipped. *)
MutantAdvances ==
    /\ vmm = "handle" /\ cur \in InterruptFaults /\ ~cur.fails
    /\ tcb' = [regs EXCEPT !.pc = @ + 1]
    /\ guest' = "running"
    /\ reply_cap' = "null"
    /\ vmm' = "reply"
    /\ UNCHANGED <<queued, cur, regs, count>>
(* The interrupt is reported in a fault of no instruction; Vgic has the    *)
(* effect of its handling.                                                 *)
HandleInterrupt ==
    vmm = "handle" /\ cur \in InterruptFaults /\ ~cur.fails /\ RepliesOnly

(* sel4cp_vm_stop *)
HandleUnknownFault ==
    /\ Handling("unknown")
    /\ guest' = "stopped"
    /\ reply_cap' = "null"
    /\ vmm' = "idle"
    /\ UNCHANGED <<tcb, queued, cur, regs, count>>

----------------------------------------------------------------------------
GuestStep ==
    \/ GuestExecutes
    \/ \E f \in InstructionFaults : GuestFaults(f)
    \/ \E f \in InterruptFaults : InterruptReported(f)

VmmStep ==
    \/ Receive
    \/ reply_to_fault
    \/ HandleDistFault
    \/ HandleFails
    \/ HandleUnexpectedVmFault
    \/ HandleKnownSyscall
    \/ HandleUnknownSyscall
    \/ HandleUserException
    \/ HandlePsci
    \/ HandleOtherSmc
    \/ HandleWfx
    \/ HandleUnknownVcpuFault
    \/ HandleInterrupt
    \/ HandleUnknownFault

Next == GuestStep \/ VmmStep

Spec == Init /\ [][Next]_vars

(* The VMM runs whenever it has something to do; nothing is assumed of the *)
(* guest.                                                                  *)
FairSpec == Spec /\ WF_vars(VmmStep)

----------------------------------------------------------------------------
(* Properties *)

(* The state of the guest and of the event loop of vmm.c; the registers    *)
(* that fault_advance_vcpu() writes keep the pc inside the program.        *)
TypeOK ==
    /\ guest \in {"running", "blocked", "stopped"}
    /\ tcb \in [pc : 0 .. MaxPc, x0 : Int]
    /\ queued \in FaultMessages \cup {None}
    /\ reply_cap \in {"guest", "null"}
    /\ vmm \in {"idle", "handle", "reply", "asserted"}
    /\ cur \in FaultMessages \cup {None}
    /\ regs \in [pc : 0 .. MaxPc, x0 : Int]
    /\ count \in [0 .. MaxPc -> Nat]

(* Every instruction before the guest's pc has taken effect exactly once,  *)
(* executed by the guest or emulated by the VMM, and none after it has:    *)
(* whatever interrupts and faults it meets, and although the guest may run *)
(* before the handler that resumed it has finished.                        *)
ExecutedOnce ==
    \A p \in 0 .. MaxPc : count[p] = IF p < tcb.pc THEN 1 ELSE 0

(* The guest runs again only after its fault has been handled: the reply   *)
(* at the end of fault_advance_vcpu(), which finds the guest already       *)
(* resumed, never answers the guest's next fault.                          *)
NoBlindReply == guest = "running" => queued = None

(* Faults whose handlers answer them. *)
Answered(f) ==
    \/ f.label \in {"VPPIEvent", "VGICMaintenance"} /\ ~f.fails
    \/ f.label = "VMFault" /\ f.page \in GicPages /\ ~f.fails
    \/ f.label = "VCPUFault" /\ f.class = "WFx"
    \/ f.label = "VCPUFault" /\ f.class = "SMC" /\ SmcAnswered(f)

(* Every access to the two register files, known PSCI call, WFI and        *)
(* interrupt for which no assertion fails is answered, and the guest runs  *)
(* on.                                                                     *)
AnsweredResumes ==
    \A f \in FaultMessages : Answered(f) => (queued = f ~> guest = "running")

(* Once the event loop waits again, a guest that stays blocked without a   *)
(* fault in the queue was left there by one of the handlers that never     *)
(* answer: those of system calls (the known ones too, although they move   *)
(* the guest past the call), of user exceptions, of SMC calls outside      *)
(* handle_psci and of unknown vCPU faults.  No other fault, and no         *)
(* interleaving of the guest with the replies, leaves it blocked.          *)
OnlyReportedFaultsBlock ==
    guest = "blocked" /\ queued = None /\ vmm = "idle" =>
        \/ cur.label \in {"UnknownSyscall", "UserException"}
        \/ cur.label = "VCPUFault" /\ cur.class = "unknown"
        \/ cur.label = "VCPUFault" /\ cur.class = "SMC" /\ ~SmcAnswered(cur)
=============================================================================
