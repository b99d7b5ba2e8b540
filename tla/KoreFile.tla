------------------------------ MODULE KoreFile ------------------------------
(***************************************************************************)
(* Kore::serialization::Dumper and Loader: the file around the records of  *)
(* KoreV1.  A header goes before the records, and once more behind them;   *)
(* its words are swapped on big-endian hosts, those of the records are     *)
(* little-endian by QDataStream and play no part here.                     *)
(*                                                                         *)
(* The Loader does not step over the meta data behind the header: hosts    *)
(* do, before they inflate.                                                *)
(***************************************************************************)
EXTENDS KoreV1

VARIABLES
    writer,  \* the byte order of the host that dumps
    given,   \* the FileHeader that the host gives to the Dumper
    header   \* Loader::_header

fileVars == <<writer, given, header>>

Hosts == {"little", "big"}

\* A word is the number it should be, and whether its bytes are the other way around.
Word(n) == [number |-> n, swapped |-> FALSE]
Zero == Word("0")
Swap(w) == IF w = Zero THEN w ELSE [w EXCEPT !.swapped = ~ @]

\* qToLittleEndian and qFromLittleEndian are the same.
LittleEndian(host, w) == IF host = "big" THEN Swap(w) ELSE w

Fields == <<"signature", "version", "QtDataStreamVersion",
            "subProfileSignature", "subProfileVersion", "metaDataSize">>

Header0 == [i \in 1 .. Len(Fields) |-> Zero]

\* FileHeader::FileHeader swaps already.
DefaultHeader(host) ==
    <<LittleEndian(host, Word("KORE")), LittleEndian(host, Word("1")),
      LittleEndian(host, Word("12")), Zero, Zero, Zero>>

\* What a host may set by itself instead, as numbers of its own.
OwnHeader == <<Word("KORE"), Word("1"), Word("12"), Word("PROF"), Word("2"), Zero>>
OtherVersion == [OwnHeader EXCEPT ![2] = Word("2")]

\* Dumper::Dumper; the meta data is of 8 bytes.
WithMetaData(h) == [h EXCEPT ![6] = Word("8")]
FinalHeaderNative(host, h) == WithMetaData(h)
FinalHeader(host, h) == [i \in DOMAIN h |-> LittleEndian(host, WithMetaData(h)[i])]

\* The bytes of a word that host has written, as reader has them in memory.
Read(host, reader, w) == IF host = reader THEN w ELSE Swap(w)

\* Loader::Loader, of a file with n words of its header left.
Loaded(host, reader, h, n) ==
    [i \in DOMAIN h |->
        IF i <= n THEN LittleEndian(reader, Read(host, reader, FinalHeader(host, h)[i])) ELSE Zero]

IsValid(h) == h[1] = Word("KORE")
Inflater(h) == IF h[2] = Word("1") THEN "KoreV1" ELSE "none"

-----------------------------------------------------------------------------
FileInit ==
    /\ Init
    /\ writer \in Hosts
    /\ given \in {DefaultHeader(writer), OwnHeader, OtherVersion}
    /\ header = Header0

\* Hosts ask isValid, and need an inflater.
Accepts(h) == IsValid(h) /\ Inflater(h) # "none"

\* A file that is cut within its header has no records.
Open ==
    /\ StartLoading
    /\ \E reader \in Hosts, n \in 0 .. Len(Fields) :
        /\ n < Len(Fields) => ~ whole' /\ device' = <<>>
        /\ header' = Loaded(writer, reader, given, n)
    /\ Accepts(header')
    /\ UNCHANGED <<writer, given>>

Refuse ==
    /\ phase = "dump" /\ stack = <<>>
    /\ \E reader \in Hosts, n \in 0 .. Len(Fields) :
        /\ header' = Loaded(writer, reader, given, n)
        /\ whole' = (n = Len(Fields))
    /\ ~ Accepts(header')
    /\ phase' = "refused"
    /\ UNCHANGED <<source, device, position, stack, returned, built, kept, stopped, cut, writer, given>>

FileNext ==
    \/ Open \/ Refuse
    \/ (Deflate \/ Inflate \/ Finish) /\ UNCHANGED fileVars

FileSpec == FileInit /\ [][FileNext]_<<vars, fileVars>>

-----------------------------------------------------------------------------
(* Properties.                                                             *)

\* What the host that dumps means, in numbers.
Meant == WithMetaData([i \in DOMAIN given |-> Word(given[i].number)])

\* Whatever the byte orders of the two hosts, the header of a file that is loaded with
\* success reads as it was meant, or the file is refused: if its version is not known,
\* if it was cut, or if the host that dumped is big-endian and gave the default header,
\* which has been swapped before.
HeaderIsAsMeant ==
    /\ phase = "done" /\ returned.result = "Success" => header = Meant
    /\ phase = "refused" =>
        ~ whole \/ given = OtherVersion \/ (writer = "big" /\ given = DefaultHeader(writer))
=============================================================================
