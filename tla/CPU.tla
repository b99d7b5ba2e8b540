--------------------------------- MODULE CPU ---------------------------------
(***************************************************************************)
(* Kore::system::CPU: what the constructor finds out about the processor   *)
(* with the instruction cpuid, in the GCC build (CPU_GCC.cpp) and in the   *)
(* MSVC build (CPU_MSVC.cpp).  A register is the set of its bits that are  *)
(* one.                                                                    *)
(***************************************************************************)
EXTENDS Integers, Sequences

VARIABLES
    build,          \* the compiler
    has,            \* what the processor has
    step,           \* how far the constructor is
    enabled,        \* the features whose members are true
    _cpusCount,     \* never written by the constructor
    _vendorString

cpuVars == <<build, has, step, enabled, _cpusCount, _vendorString>>

-----------------------------------------------------------------------------
(* The processor.                                                          *)

\* Each generation has what came before.
Generations == <<"MMX", "SSE", "SSE2", "SSE3", "SSSE3", "SSE4">>

\* Of Intel, with or without pending break enable (PBE) and the leaves from
\* 0x80000000 on; and of AMD.
Processors ==
    {{Generations[i] : i \in 1 .. n} \cup more :
        n \in 0 .. Len(Generations),
        more \in SUBSET {"PBE", "extended"} \cup {{"extended", "3DNow"}, {"extended", "3DNow", "3DNow2"}}}

\* Where cpuid says that a processor has something: leaf, register and bit.
FeaturePlaces ==
    {<<"MMX", 1, "edx", 23>>, <<"SSE", 1, "edx", 25>>, <<"SSE2", 1, "edx", 26>>,
     <<"PBE", 1, "edx", 31>>, <<"SSE3", 1, "ecx", 0>>, <<"SSSE3", 1, "ecx", 9>>,
     <<"SSE4", 1, "ecx", 19>>, <<"3DNow", 0, "edx", 31>>, <<"3DNow2", 0, "edx", 30>>}

\* Leaf 0 stands for 0x80000001; when it does not exist, what it yields is not about features.
Cpuid(leaf, register) ==
    IF leaf = 1 \/ "extended" \in has
    THEN {{p[4] : p \in {q \in FeaturePlaces : q[1] \in has /\ q[2] = leaf /\ q[3] = register}}}
    ELSE SUBSET {30, 31}

-----------------------------------------------------------------------------
(* CPU::init.                                                              *)

\* The results are named by the assembler, or are the places of an array.
Edx == IF build = "GCC" THEN "edx" ELSE <<"eax", "ebx", "ecx", "edx">>[3 + 1]
Ecx == IF build = "GCC" THEN "ecx" ELSE <<"eax", "ebx", "ecx", "edx">>[2 + 1]

Selected(masks, register) == {f \in DOMAIN masks : masks[f] \in register}
InEdx == [MMX |-> 23, SSE |-> 25, SSE2 |-> 26, _3DNow |-> 31]
InEcxOfSSSE3 == [SSE3 |-> 0, SSE4 |-> 9]
InEcx == [SSE3 |-> 0, SSE4 |-> 19]

CpuInit ==
    /\ build \in {"GCC", "MSVC"}
    /\ has = {} /\ step = "none" /\ enabled = {}
    /\ _cpusCount = 0 /\ _vendorString = ""

\* The memory of the new object, and so its _cpusCount, may hold anything.
Construct ==
    /\ step \in {"none", "ready"}
    /\ step' = "leaf 1"
    /\ has' \in Processors
    /\ enabled' = {}
    /\ _cpusCount' \in 0 .. 1
    /\ _vendorString' = "anything"
    /\ UNCHANGED build

AskFeatures ==
    /\ step = "leaf 1"
    /\ \E cpu_info \in Cpuid(1, Edx), cpu_ssex \in Cpuid(1, Ecx) :
        enabled' = Selected(InEdx, cpu_info) \cup Selected(InEcx, cpu_ssex)
    /\ step' = "vendor"
    /\ UNCHANGED <<build, has, _cpusCount, _vendorString>>

\* The name of the vendor is asked for, by the GCC build alone, and not kept.
ClearVendor ==
    /\ step = "vendor"
    /\ _vendorString' = ""
    /\ step' = "extended"
    /\ UNCHANGED <<build, has, enabled, _cpusCount>>

AskExtended ==
    /\ step = "extended"
    /\ \E cpu_info \in Cpuid(0, Edx) :
        enabled' = enabled \cup Selected([_3DNow2 |-> 30], cpu_info)
    /\ step' = "ready"
    /\ UNCHANGED <<build, has, _cpusCount, _vendorString>>

\* isMMXEnabled and the other getters
IsEnabled(f) == f \in enabled

CpuNext == Construct \/ AskFeatures \/ ClearVendor \/ AskExtended

CpuSpec == CpuInit /\ [][CpuNext]_cpuVars

-----------------------------------------------------------------------------
(* Properties.                                                             *)

\* The getters return "true if CPUs are ... compliant, false otherwise" (CPU.hpp),
\* for the features of all vendors, whichever compiler built the library; and for
\* 3DNow2 where the processor has the leaf that is asked.  The getter for 3DNow is
\* left out: it reads the bit of leaf 1 that says whether there is PBE.
FeaturesAreHonest ==
    step = "ready" =>
        /\ \A f \in {"MMX", "SSE", "SSE2", "SSE3", "SSE4"} : IsEnabled(f) <=> f \in has
        /\ "extended" \in has => (IsEnabled("_3DNow2") <=> "3DNow2" \in has)
=============================================================================
