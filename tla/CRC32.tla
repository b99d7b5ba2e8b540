-------------------------------- MODULE CRC32 --------------------------------
(***************************************************************************)
(* Kore::util::CRC32: the hash of a string, with a table that is built     *)
(* when the first string is hashed.                                        *)
(*                                                                         *)
(* A word is the set of its bits that are one.  A kulong is an unsigned    *)
(* long, of 32 or 64 bits; a khash has 32.                                 *)
(***************************************************************************)
EXTENDS Integers, Sequences, FiniteSetsExt

CONSTANTS
    LongWidth,  \* the bits of a kulong
    Strings,    \* the strings that are hashed, as their bytes
    NoHash      \* before the first string is hashed

ASSUME CRC32Assumption ==
    /\ LongWidth \in {32, 64}
    /\ Strings \subseteq Seq(1 .. 255)

VARIABLES
    initialized,  \* CRC32::_Instance is there, with its table
    string,       \* the string that is hashed, or was
    sData,        \* what is left of it
    ulCRC,        \* its sum so far
    hash          \* what HashString has returned

crcVars == <<initialized, string, sData, ulCRC, hash>>

Byte(n) == {b \in 0 .. 7 : (n \div 2^b) % 2 = 1}
Xor(v, w) == SymDiff(v, w)
ShiftLeft(w, n) == {b + n : b \in w} \cap (0 .. LongWidth - 1)
ShiftRight(w, n) == {b - n : b \in w} \cap Nat

\* 1 << n, of an int: when that is negative, a wider word takes over its sign.
One(n) == IF n = 31 THEN 31 .. LongWidth - 1 ELSE {n}

ulPolynomial == {26, 23, 22, 16, 12, 11, 10, 8, 7, 5, 4, 2, 1, 0}

ReflectButLast(w, n) == UNION {One(n - 1 - b) : b \in w \cap (0 .. n - 2)}
Reflect(w, n) == UNION {One(n - 1 - b) : b \in w \cap (0 .. n - 1)}

Initialize ==
    [iCodes \in SUBSET (0 .. 7) |->
        LET at[iPos \in 0 .. 8] ==
                IF iPos = 0 THEN ShiftLeft(Reflect(iCodes, 8), 24)
                ELSE LET w == at[iPos - 1]
                     IN Xor(ShiftLeft(w, 1), IF w \cap One(31) # {} THEN ulPolynomial ELSE {})
        IN Reflect(at[8], 32)]

ulTable == Initialize

CrcInit ==
    /\ initialized = FALSE
    /\ string = <<>> /\ sData = <<>> /\ ulCRC = {}
    /\ hash = NoHash

\* fullCRC of the first instance, which is made now if there is none.
HashString(s) ==
    /\ sData = <<>> /\ ulCRC = {}
    /\ initialized' = TRUE
    /\ string' = s /\ sData' = s
    /\ ulCRC' = 0 .. 31
    /\ hash' = NoHash

PartialCRC ==
    /\ sData # <<>>
    /\ sData' = Tail(sData)
    /\ ulCRC' = Xor(ShiftRight(ulCRC, 8),
                    ulTable[Xor(ulCRC \cap (0 .. 7), Byte(Head(sData)))])
    /\ UNCHANGED <<initialized, string, hash>>

FullCRC ==
    /\ sData = <<>> /\ hash = NoHash /\ initialized
    /\ hash' = Xor(ulCRC, 0 .. 31) \cap (0 .. 31)
    /\ ulCRC' = {}
    /\ UNCHANGED <<initialized, string, sData>>

CrcNext ==
    \/ \E s \in Strings : HashString(s)
    \/ PartialCRC
    \/ FullCRC

CrcSpec == CrcInit /\ [][CrcNext]_crcVars

-----------------------------------------------------------------------------
(* Properties.                                                             *)

\* The standard's sum: a register of 32 bits that takes in one bit at a time.
Crc(s) ==
    LET reversed == {31 - b : b \in ulPolynomial}
        bits == [k \in 0 .. 8 * Len(s) - 1 |-> (k % 8) \in Byte(s[(k \div 8) + 1])]
        register[k \in 0 .. 8 * Len(s)] ==
            IF k = 0 THEN 0 .. 31
            ELSE LET r == register[k - 1]
                 IN Xor(ShiftRight(r, 1), IF (0 \in r) # bits[k - 1] THEN reversed ELSE {})
    IN Xor(register[8 * Len(s)], 0 .. 31)

\* CRC32.hpp says that the class "calculates a CRC32", and CRC32.cpp that the
\* reflections are there to conform to the official standard: the hash of a
\* string, computed with the table, is the sum that the standard defines.
HashIsCrc == hash # NoHash => hash = Crc(string)
=============================================================================
