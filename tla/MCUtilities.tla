----------------------------- MODULE MCUtilities -----------------------------
(* The parts of the library that use no other: the memory of two users, the *)
(* hash, the processor, the errors of two threads and the plug-ins of a     *)
(* directory.  They share nothing, so a behaviour exercises one of them.    *)
(* Bytes of memory are scaled down: pointers of two cells, chunks aligned   *)
(* to two.  The strings are short ones over four letters, one of them with  *)
(* the sign bit, and the usual check string.                                *)
EXTENDS AlignedMemory, CRC32, CPU, Errors, Plugins, TLC

CONSTANTS u1, u2, main, worker

TwoUsers == {u1, u2}
Swap == Permutations(TwoUsers)
SmallSizes == {1, 3}
SmallAlignments == {1, 2, 4}

Letters == {1, 65, 128, 255}
CheckString == <<49, 50, 51, 52, 53, 54, 55, 56, 57>>
ShortStrings == UNION {[1 .. n -> Letters] : n \in 0 .. 3} \cup {CheckString}

TwoThreads == {main, worker}

\* Two plug-ins, with a link to one of them, a library with another interface, and a
\* text.
FiveFiles == {"a", "link", "b", "foreign", "text"}
TargetOf(f) == IF f = "link" THEN "a" ELSE f
KindOf(file) == CASE file \in {"a", "b"} -> "plugin"
                  [] file = "foreign" -> "foreign"
                  [] file = "text" -> "broken"

VARIABLE unit

UtilitiesInit ==
    /\ unit \in {"memory", "hash", "processor", "errors", "plugins"}
    /\ Init /\ CrcInit /\ CpuInit /\ ErrorsInit /\ PluginsInit
    /\ unit # "processor" => build = "GCC"

\* The event loop waits.
Waiting == posted = <<>> /\ UNCHANGED errorVars

\* The program is gone.
Crashed == manager = "crashed" /\ UNCHANGED pluginVars

UtilitiesNext ==
    /\ UNCHANGED unit
    /\ IF unit = "memory" THEN Next ELSE UNCHANGED vars
    /\ IF unit = "hash" THEN CrcNext ELSE UNCHANGED crcVars
    /\ IF unit = "processor" THEN CpuNext ELSE UNCHANGED cpuVars
    /\ IF unit = "errors" THEN ErrorsNext \/ Waiting ELSE UNCHANGED errorVars
    /\ IF unit = "plugins" THEN PluginsNext \/ Crashed ELSE UNCHANGED pluginVars

UtilitiesSpec ==
    UtilitiesInit /\ [][UtilitiesNext]_<<vars, crcVars, cpuVars, errorVars, pluginVars, unit>>
=============================================================================
