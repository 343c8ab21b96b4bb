------------------------------ MODULE NatFeats ------------------------------
(***************************************************************************)
(* Native features: an emulator gives a meaning to two opcodes that trap on *)
(* a 68000.  nf_init tries the first of them once, with the vector of the   *)
(* trap, or the signal the kernel makes of it, bent to its own code.  It    *)
(* puts those back on every way out, the stack too; SIGSYS, which it takes  *)
(* against Supexec's refusal, it keeps.                                     *)
(***************************************************************************)
EXTENDS Integers, Sequences

CONSTANTS
    Machines,   \* what the program may run on
    Features,
    Modes,      \* of nf_shutdown
    Results,    \* what a feature may answer
    Garbage     \* what may be in d0 when nobody has set it

\* An identification has room for the number of a function below it.
Functions == 16

\* opcode says what NATFEAT_ID does: it is "illegal", "emulated", or another
\* instruction of the processor, which changes neither stack nor d0.  A MiNT kernel
\* that is secure has no Supexec for everybody.
MachineType ==
    [mint: BOOLEAN, secure: BOOLEAN, opcode: {"illegal", "emulated", "other"},
     ids: [Features -> Nat],
     sigill: {"SIG_DFL", "program"}, sigsys: {"SIG_DFL", "program"}]

NatFeatsAssumption ==
    /\ {"NF_NAME", "NF_VERSION", "NF_STDERR", "NF_SHUTDOWN"} \subseteq Features
    /\ Modes \subseteq 0 .. Functions - 1 /\ Results \cup Garbage \subseteq Int
    /\ Machines \subseteq MachineType
    /\ \A m \in Machines :
        /\ m.secure => m.mint
        /\ \A f \in Features : m.ids[f] % Functions = 0
        /\ \A f, g \in Features : f # g /\ m.ids[f] # 0 => m.ids[f] # m.ids[g]

VARIABLES
    machine,
    nf_ops,         \* whether it is set
    step,
    does,           \* the function that was called, and with what
    reg,            \* a0, a1 and d0
    local,          \* of nf_init on MiNT: ret, ill_jmp and got_ill
    words,          \* the stack, its top first
    vector,         \* of illegal instructions
    sigill, sigsys, \* who handles the signals of a MiNT process
    asked,          \* the function of the emulator that was called last
    answer

nfVars ==
    <<machine, nf_ops, step, does, reg, local, words, vector, sigill, sigsys, asked, answer>>

Call(f, feature, sub) == [f |-> f, feature |-> feature, sub |-> sub]
Calls ==
    {Call("nf_get_id", x, 0) : x \in Features}
    \cup {Call("nf_get_name", "NF_NAME", 0), Call("nf_get_fullname", "NF_NAME", 1),
          Call("nf_version", "NF_VERSION", 0), Call("nf_debug", "NF_STDERR", 0),
          Call("nf_debugprintf", "NF_STDERR", 0)}
    \cup {Call("nf_shutdown", "NF_SHUTDOWN", m) : m \in Modes}
NoCall == Call("none", "NF_NAME", 0)

\* What a function returns when there is no such feature; NULL is 0.
Unavailable(f) == IF f = "nf_debugprintf" THEN -1 ELSE 0

\* What it makes of the answer of the feature; 1 stands for the address of the buffer.
Told(f, ret) ==
    IF f \in {"nf_get_name", "nf_get_fullname"} THEN IF ret # 0 THEN 1 ELSE 0
    ELSE IF f = "nf_debug" THEN 1 ELSE ret

NfInit ==
    /\ machine \in Machines
    /\ nf_ops = FALSE /\ step = "ready" /\ does = NoCall
    /\ reg = [a0 |-> "none", a1 |-> 0, d0 |-> 0]
    /\ local = [ret |-> "none", ill_jmp |-> 0, got_ill |-> FALSE]
    /\ words = <<"caller">> /\ vector = "system"
    /\ sigill = machine.sigill /\ sigsys = machine.sigsys
    /\ asked = NoCall /\ answer = 0

-----------------------------------------------------------------------------

\* Who has SIGSYS then.  TOS does not know Psignal.
nf_catch_sigsys == IF machine.mint THEN "sigsys_handler" ELSE sigsys

\* Whoever calls comes to nf_init.
Enter(call) ==
    /\ step = "ready"
    /\ does' = call /\ asked' = NoCall
    /\ step' = IF nf_ops THEN "look" ELSE "supexec"
    /\ sigsys' = IF nf_ops THEN sigsys ELSE nf_catch_sigsys
    /\ UNCHANGED <<machine, nf_ops, reg, local, words, vector, sigill, answer>>

\* Supexec(_nf_detect_tos) up to the opcode, or EPERM and a signal.
Supexec ==
    /\ step = "supexec"
    /\ IF machine.secure
       THEN /\ step' = IF sigsys = "SIG_DFL" THEN "killed" ELSE "psignal"
            /\ UNCHANGED <<reg, words, vector>>
       ELSE /\ step' = "detect_tos"
            /\ words' = <<"zero", "NF_VERSION">> \o words
            /\ reg' = [a0 |-> vector, a1 |-> Len(words) + 2, d0 |-> 0]
            /\ vector' = "1:"
    /\ UNCHANGED <<machine, nf_ops, does, local, sigill, sigsys, asked, answer>>

\* The emulator takes what lies behind a return address.
Feature == words[2]
GetId(d0) ==
    IF machine.opcode = "emulated" THEN machine.ids[Feature] ELSE d0

\* NATFEAT_ID in _nf_detect_tos and the test of d0.  An exception leaves its frame.
TrapTos ==
    /\ step = "detect_tos" /\ machine.opcode = "illegal"
    /\ words' = <<"frame", "frame">> \o words
    /\ step' = IF vector = "1:" THEN "1:" ELSE "bombs"
    /\ UNCHANGED <<machine, nf_ops, does, reg, local, vector, sigill, sigsys, asked, answer>>

OpcodeTos ==
    /\ step = "detect_tos" /\ machine.opcode # "illegal"
    /\ words' = IF GetId(reg.d0) # 0 THEN <<"one">> \o Tail(words) ELSE words
    /\ step' = "1:"
    /\ UNCHANGED <<machine, nf_ops, does, reg, local, vector, sigill, sigsys, asked, answer>>

Drop(n) == SubSeq(words, n + 1, Len(words))

\* move.l a1,sp
StackBack == Drop(Len(words) - reg.a1)

\* From label 1 on, and back in nf_init.
Label1 ==
    /\ step = "1:"
    /\ words' = SubSeq(StackBack, 3, Len(StackBack))
    /\ vector' = reg.a0
    /\ nf_ops' = (Head(StackBack) = "one")
    /\ step' = "look"
    /\ UNCHANGED <<machine, does, reg, local, sigill, sigsys, asked, answer>>

\* Supexec was refused: Psignal, setjmp, and _nf_detect_mint up to the opcode.
Psignal ==
    /\ step = "psignal"
    /\ IF machine.mint
       THEN /\ sigill' = "catch_ill"
            /\ local' = [ret |-> sigill, ill_jmp |-> Len(words), got_ill |-> FALSE]
            /\ words' = <<"zero", "NF_VERSION">> \o words
            /\ reg' = [reg EXCEPT !.d0 = 0]
            /\ step' = "detect_mint"
       ELSE step' = "look" /\ UNCHANGED <<sigill, words, reg, local>>
    /\ UNCHANGED <<machine, nf_ops, does, vector, sigsys, asked, answer>>

\* The kernel calls catch_ill, which jumps to the place and the stack of setjmp.
TrapMint ==
    /\ step = "detect_mint" /\ machine.opcode = "illegal"
    /\ step' = IF sigill = "catch_ill" THEN "setjmp" ELSE "killed"
    /\ words' = Drop(Len(words) - local.ill_jmp)
    /\ local' = [local EXCEPT !.got_ill = TRUE]
    /\ UNCHANGED <<machine, nf_ops, does, reg, vector, sigill, sigsys, asked, answer>>

OpcodeMint ==
    /\ step = "detect_mint" /\ machine.opcode # "illegal"
    /\ words' = Drop(2)
    /\ step' = "setjmp"
    /\ UNCHANGED <<machine, nf_ops, does, reg, local, vector, sigill, sigsys, asked, answer>>

\* A slip: the handler that was there is put back after a signal only.
OldHandler_Late == IF local.got_ill THEN local.ret ELSE sigill

OldHandler == local.ret

\* If no signal came there are native features, whatever the opcode left in d0.
BehindSetjmp ==
    /\ step = "setjmp"
    /\ sigill' = OldHandler
    /\ nf_ops' = ~local.got_ill
    /\ step' = "look"
    /\ UNCHANGED <<machine, does, reg, local, words, vector, sigsys, asked, answer>>

-----------------------------------------------------------------------------

Return(value) == answer' = value /\ step' = "ready"

\* Behind nf_init in the function that called it.
NoFeatures ==
    /\ step = "look" /\ ~nf_ops
    /\ Return(Unavailable(does.f))
    /\ UNCHANGED <<machine, nf_ops, does, reg, local, words, vector, sigill, sigsys, asked>>

\* NF_GET_ID.
Look(garbage) ==
    /\ step = "look" /\ nf_ops
    /\ words' = <<"return", does.feature>> \o words
    /\ reg' = [reg EXCEPT !.d0 = garbage]
    /\ step' = "get_id"
    /\ UNCHANGED <<machine, nf_ops, does, local, vector, sigill, sigsys, asked, answer>>

\* Each function looks at the number before it calls.
IsThere(id) == id # 0

GotId ==
    /\ step = "get_id"
    /\ LET id == GetId(reg.d0) IN
       /\ reg' = [reg EXCEPT !.d0 = id]
       /\ IF does.f = "nf_get_id" THEN Return(id)
          ELSE IF IsThere(id) THEN step' = "call" /\ UNCHANGED answer
          ELSE Return(Unavailable(does.f))
    /\ words' = Drop(2)
    /\ UNCHANGED <<machine, nf_ops, does, local, vector, sigill, sigsys, asked>>

Owners(id) == {f \in Features : machine.ids[f] = id}

\* ops->call: an emulator runs the function it knows by the number.  Another processor
\* runs its own instruction, and d0 stays.
Obey(result) ==
    /\ step = "call"
    /\ LET number == reg.d0 + does.sub
           sub == number % Functions
           known == Owners(number - sub)
       IN  IF machine.opcode = "emulated"
           THEN /\ asked' = Call(does.f, IF known = {} THEN "none" ELSE CHOOSE f \in known : TRUE,
                                 sub)
                /\ Return(Told(does.f, result))
           ELSE /\ asked' = Call(does.f, "none", sub)
                /\ Return(Told(does.f, reg.d0))
    /\ UNCHANGED <<machine, nf_ops, does, reg, local, words, vector, sigill, sigsys>>

NfNext ==
    \/ \E call \in Calls : Enter(call)
    \/ Supexec \/ TrapTos \/ OpcodeTos \/ Label1
    \/ Psignal \/ TrapMint \/ OpcodeMint \/ BehindSetjmp
    \/ NoFeatures \/ GotId
    \/ \E garbage \in Garbage : Look(garbage)
    \/ \E result \in Results : Obey(result)

NfSpec == NfInit /\ [][NfNext]_nfVars

-----------------------------------------------------------------------------

NfTypeOK ==
    /\ machine \in Machines /\ nf_ops \in BOOLEAN /\ does \in Calls \cup {NoCall}
    /\ step \in {"ready", "look", "supexec", "detect_tos", "1:", "psignal", "detect_mint",
                 "setjmp", "get_id", "call"}
    /\ answer \in Int

\* Behind every function of the library, stack, vector and SIGILL are the program's
\* again, on whatever machine nf_init ran and whichever way it came back, and no trap
\* has ended the program.  SIGSYS is not: after the first call under MiNT the library
\* has it for good.
PutsBack ==
    /\ step \notin {"bombs", "killed"}
    /\ step \in {"ready", "look"} =>
        /\ words = <<"caller">> /\ vector = "system" /\ sigill = machine.sigill
        /\ sigsys = IF machine.mint /\ does # NoCall THEN "sigsys_handler" ELSE machine.sigsys

\* nf_init takes no trapping opcode for native features, and misses no emulator that
\* knows its own version.  On an emulator a function runs what was meant, and only
\* where that is.  Where nothing answers, the opcodes run only on a secure MiNT, whose
\* detection takes an opcode without a trap for a feature.
FeaturesFound ==
    step = "ready" /\ does # NoCall =>
        /\ nf_ops => machine.opcode = "emulated" \/ (machine.secure /\ machine.opcode = "other")
        /\ ~nf_ops => machine.opcode # "emulated" \/ machine.ids["NF_VERSION"] = 0
        /\ asked # NoCall =>
             IF machine.opcode = "emulated" THEN asked = does /\ machine.ids[does.feature] # 0
             ELSE nf_ops /\ asked.feature = "none"
        /\ machine.opcode = "emulated" /\ nf_ops /\ does.f # "nf_get_id" =>
             (asked = NoCall) = (machine.ids[does.feature] = 0)
        /\ ~nf_ops \/ (machine.opcode = "emulated" /\ machine.ids[does.feature] = 0) =>
             answer = Unavailable(does.f)
=============================================================================
