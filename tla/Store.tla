---------------------------------- MODULE Store ----------------------------------
(***************************************************************************)
(* The data-file of the program: write and its helpers in creation-mode,   *)
(* read and its helper in find-mode (inc/SuffixArray.hpp:347-550), two     *)
(* processes that share nothing but the file.                              *)
(*                                                                         *)
(* The file is a sequence of cells: flags and sizes, one cell for a symbol *)
(* and for an index, one cell for a digit of an index stored as a string,  *)
(* one cell for the two LCP rows of a position. The writer truncates the   *)
(* file and appends cell after cell; it looks at no error of its stream,   *)
(* and it may be killed. The reader takes field after field from wherever  *)
(* it stands; what it does not get it leaves as it was, or uninitialized.  *)
(***************************************************************************)
EXTENDS Integers, Sequences

CONSTANTS
  Saves,    \* what creation-mode runs save: records [cmpr, size, data, sa, lcp]
  Base,     \* the base of the index strings, 16 in the code
  MaxRuns,  \* bound: runs of creation-mode
  MaxSize,  \* bound: an uninitialized or foreign number is 0 .. MaxSize
  NoSave    \* no file

Numbers == 0 .. MaxSize

ASSUME SavesAssumption ==
  \A x \in Saves :
    /\ x.cmpr \in BOOLEAN /\ x.lcp \in BOOLEAN /\ x.size \in Numbers \ {0, 1}
    /\ x.data \in [0 .. x.size - 1 -> Numbers] /\ x.sa \in [0 .. x.size -> 0 .. x.size]

ASSUME BaseAssumption == Base \in Nat /\ Base >= 2

VARIABLES
  disk,   \* the cells of the file
  owner,  \* the save whose write created the file, or NoSave
  saved, wpc, runs,        \* the writer: what it saves, where it is
  rpc, at, good, quiet,    \* the reader: its position, its stream is good, nobody wrote
  got                      \* what it has read

writer == <<saved, wpc, runs>>
reader == <<rpc, at, good, quiet, got>>
vars   == <<disk, owner, writer, reader>>
-----------------------------------------------------------------------------
Cell(kind, v) == [kind |-> kind, v |-> v]

\* Base to the power of w, as a function that can be reasoned about.
Power[w \in Nat] == IF w = 0 THEN 1 ELSE Base * Power[w - 1]

\* idxTToHexStr(i, 0).size(): the digits of the largest index.
Width(i) == CHOOSE w \in 1 .. i + 1 : i < Power[w] /\ (w = 1 \/ Power[w - 1] <= i)

\* Digit c of the strings of all indices in sequence, w digits each, filled with 0.
DigitAt(sa, w, c) == (sa[(c - 1) \div w] \div Power[w - 1 - ((c - 1) % w)]) % Base

\* Bugs a run has to notice stand before the definition they would replace, marked
\* "Bug:". Bug: one index too few.
SymbolCount(x) == x.size

\* SA.size(): the corpus and the empty suffix.
EntryCount(x) == x.size + 1

\* bin_writeSA and writeCompSA up to the LCP arrays.
ArrayCells(x) ==
  LET w == Width(x.size)
  IN  IF x.cmpr
        THEN <<Cell("num", w)>>
               \o [c \in 1 .. w * EntryCount(x) |-> Cell("digit", DigitAt(x.sa, w, c))]
        ELSE [p \in 1 .. EntryCount(x) |-> Cell("num", x.sa[p - 1])]

\* write: all cells of the file.
Image(x) ==
  <<Cell("flag", x.cmpr), Cell("num", x.size)>>
    \o [p \in 1 .. x.size |-> Cell("sym", x.data[p - 1])]
    \o ArrayCells(x)
    \o <<Cell("flag", x.lcp)>>
    \o (IF x.lcp THEN [p \in 1 .. x.size + 1 |-> Cell("row", p)] ELSE << >>)

Nothing == [cmpr |-> FALSE, size |-> 0, data |-> << >>, width |-> 0, sa |-> << >>, rows |-> << >>]

Init ==
  /\ disk = << >> /\ owner = NoSave
  /\ saved \in Saves /\ wpc = "ready" /\ runs = 1
  /\ rpc = "ready" /\ at = 1 /\ good = TRUE /\ quiet = TRUE /\ got = Nothing
-----------------------------------------------------------------------------
\* std::ofstream out(f_name): an existing file is emptied.
OpenToWrite ==
  /\ wpc = "ready"
  /\ disk' = << >> /\ owner' = saved /\ wpc' = "writing"
  /\ quiet' = FALSE
  /\ UNCHANGED <<saved, runs, rpc, at, good, got>>

\* The cells reach the file one after the other, buffered or not.
WriteCell ==
  /\ wpc = "writing" /\ Len(disk) < Len(Image(saved))
  /\ disk' = Append(disk, Image(saved)[Len(disk) + 1])
  /\ quiet' = FALSE
  /\ UNCHANGED <<owner, writer, rpc, at, good, got>>

\* out.close(), and "Data wrote to" from init.
Report ==
  /\ wpc = "writing" /\ disk = Image(saved)
  /\ wpc' = "reported"
  /\ UNCHANGED <<disk, owner, saved, runs, reader>>

\* The stream cannot be opened or goes bad: all further output is dropped and, since
\* write returns nothing, init reports as ever.
StreamFails ==
  /\ wpc \in {"ready", "writing"}
  /\ wpc' = "reported"
  /\ UNCHANGED <<disk, owner, saved, runs, reader>>

\* The process is killed.
Crash ==
  /\ wpc = "writing"
  /\ wpc' = "crashed"
  /\ UNCHANGED <<disk, owner, saved, runs, reader>>

\* Another run of creation-mode with the same data-file.
RunAgain ==
  /\ wpc \in {"reported", "crashed"} /\ runs < MaxRuns
  /\ runs' = runs + 1 /\ saved' \in Saves /\ wpc' = "ready"
  /\ UNCHANGED <<disk, owner, reader>>
-----------------------------------------------------------------------------
\* What strm_in.read may store for the cell at position p: the value there; if that
\* belongs to another field (the file has changed since) any; behind the end of the
\* file, or once the stream is bad, whatever the variable held.
Stored(p, kind, any, held) ==
  IF ~ good \/ p > Len(disk) THEN held
  ELSE IF disk[p].kind = kind THEN {disk[p].v} ELSE any

\* Bug: a read is good if its first cell is there.
FirstIsThere(m) == at <= Len(disk)

\* strm_in.read gets all of the m cells it asks for.
AllAreThere(m) == at + m - 1 <= Len(disk)

\* The stream and the position after a read of m cells.
Advance(m) ==
  /\ good' = (good /\ AllAreThere(m))
  /\ at' = at + m

Vectors(m, kind, any) ==
  {v \in [0 .. m - 1 -> any \cup {0}] : \A p \in 0 .. m - 1 : v[p] \in Stored(at + p, kind, any, {0})}

\* read: std::ifstream, which fails if there is no file.
OpenToRead ==
  /\ rpc = "ready" /\ owner # NoSave
  /\ rpc' = "flag" /\ at' = 1 /\ good' = TRUE /\ got' = Nothing
  /\ quiet' = (wpc # "writing")
  /\ UNCHANGED <<disk, owner, writer>>

\* There is no file: read returns false and init reports it.
Refuse ==
  /\ rpc = "ready" /\ owner = NoSave
  /\ rpc' = "refused"
  /\ UNCHANGED <<disk, owner, writer, at, good, quiet, got>>

\* bool cmpr.
ReadFlag ==
  /\ rpc = "flag"
  /\ \E b \in Stored(at, "flag", BOOLEAN, BOOLEAN) : got' = [got EXCEPT !.cmpr = b]
  /\ Advance(1) /\ rpc' = "size"
  /\ UNCHANGED <<disk, owner, writer, quiet>>

\* idxT data_size.
ReadSize ==
  /\ rpc = "size"
  /\ \E s \in Stored(at, "num", Numbers, Numbers) : got' = [got EXCEPT !.size = s]
  /\ Advance(1) /\ rpc' = "data"
  /\ UNCHANGED <<disk, owner, writer, quiet>>

\* data.resize(data_size, alph()).
ReadData ==
  /\ rpc = "data"
  /\ \E v \in Vectors(got.size, "sym", Numbers) : got' = [got EXCEPT !.data = v]
  /\ Advance(got.size) /\ rpc' = IF got.cmpr THEN "width" ELSE "array"
  /\ UNCHANGED <<disk, owner, writer, quiet>>

\* SA.resize(data_size + 1, idxT()).
ReadArray ==
  /\ rpc = "array"
  /\ \E v \in Vectors(got.size + 1, "num", Numbers) : got' = [got EXCEPT !.sa = v]
  /\ Advance(got.size + 1) /\ rpc' = "lcp"
  /\ UNCHANGED <<disk, owner, writer, quiet>>

\* idxT max_idx_size; a width of 0 is no limit for operator>>.
ReadWidth ==
  /\ rpc = "width"
  /\ \E w \in Stored(at, "num", Numbers, Numbers) : got' = [got EXCEPT !.width = w]
  /\ Advance(1) /\ rpc' = "strings"
  /\ UNCHANGED <<disk, owner, writer, quiet>>

\* Bug: the strings are read as decimal numbers.
WithDecimal(v, digit) == v * 10 + digit

\* std::hex: the value of a number with one more digit.
WithDigit(v, digit) == v * Base + digit

\* HexStrTToIdxT of the string in the cells p .. p + w - 1, or up to the end of the
\* file: the value of the digits before the first cell that is none.
StringValue(p, w) ==
  LET last == IF p + w - 1 < Len(disk) THEN p + w - 1 ELSE Len(disk)
      digits == CHOOSE c \in 0 .. last - p + 1 :
                  /\ \A e \in p .. p + c - 1 : disk[e].kind = "digit"
                  /\ p + c > last \/ disk[p + c].kind # "digit"
      value[c \in 0 .. digits] == IF c = 0 THEN 0 ELSE WithDigit(value[c - 1], disk[p + c - 1].v)
  IN  value[digits]

\* while(strm_in >> std::setw(max_idx_size) >> hexstr): the loop ends with the file.
ReadStrings ==
  /\ rpc = "strings"
  /\ LET rest == IF good /\ at <= Len(disk) THEN Len(disk) - at + 1 ELSE 0
         w == IF got.width = 0 THEN rest ELSE got.width
         strings == IF rest = 0 THEN 0 ELSE (rest + w - 1) \div w
     IN  got' = [got EXCEPT !.sa = [p \in 0 .. strings - 1 |-> StringValue(at + p * w, w)]]
  /\ at' = Len(disk) + 1 /\ good' = FALSE /\ rpc' = "lcp"
  /\ UNCHANGED <<disk, owner, writer, quiet>>

\* The size of the next vector was not read: that of data, or, if there seem to be LCP
\* arrays, that of their first row.
SizeUnread ==
  \/ rpc \in {"data", "lcp"} /\ ~ (good /\ quiet)
  \/ rpc = "lcp" /\ at > Len(disk)
  \/ rpc = "lcp" /\ at = Len(disk) /\ disk[at].kind = "flag" /\ disk[at].v

\* A vector of that size may be too large for the memory; nobody catches the exception.
Throw ==
  /\ SizeUnread
  /\ rpc' = "thrown"
  /\ UNCHANGED <<disk, owner, writer, at, good, quiet, got>>

\* read_lcp_lr, and read returns true. A row that is not in the file is a row of zeros,
\* as many as the variable for its size still says: here it is 0.
ReadLcp ==
  /\ rpc = "lcp"
  /\ \E use \in Stored(at, "flag", BOOLEAN, BOOLEAN) :
       IF use
         THEN /\ got' = [got EXCEPT !.rows =
                           [p \in 1 .. got.size + 1 |->
                              IF good /\ at + p <= Len(disk) THEN disk[at + p].v ELSE 0]]
              /\ Advance(got.size + 2)
         ELSE got' = [got EXCEPT !.rows = << >>] /\ Advance(1)
  /\ rpc' = "done"
  /\ UNCHANGED <<disk, owner, writer, quiet>>

\* Another run of find-mode.
ReadAgain ==
  /\ rpc \in {"done", "refused", "thrown"}
  /\ rpc' = "ready" /\ got' = Nothing /\ at' = 1 /\ good' = TRUE /\ quiet' = TRUE
  /\ UNCHANGED <<disk, owner, writer>>

Next ==
  \/ OpenToWrite \/ WriteCell \/ Report \/ StreamFails \/ Crash \/ RunAgain
  \/ OpenToRead \/ Refuse \/ ReadFlag \/ ReadSize \/ ReadData \/ ReadArray
  \/ ReadWidth \/ ReadStrings \/ ReadLcp \/ Throw \/ ReadAgain

Spec == Init /\ [][Next]_vars
-----------------------------------------------------------------------------
\* What has been read is the save x.
Is(x) ==
  /\ got.size = x.size /\ got.data = x.data /\ got.sa = x.sa
  /\ got.rows = IF x.lcp THEN [p \in 1 .. x.size + 1 |-> p] ELSE << >>

\* The binary format can be trusted as far as the stream can: a read that no write
\* has disturbed and that leaves the stream good has got exactly what was saved,
\* whatever has become of the writer. (read does not look at the stream.)
GoodReadIsExact ==
  rpc = "done" /\ good /\ quiet => ~ got.cmpr /\ Is(owner)

\* A file that was written to its end and left alone gives back what was saved, leaves
\* the stream good and no size unread.
RoundTrip ==
  rpc \in {"done", "thrown"} /\ quiet /\ disk = Image(owner) /\ ~ owner.cmpr =>
    rpc = "done" /\ Is(owner) /\ good

\* The index strings before the LCP flag give back every index, leading zeros or not.
StringsKeepIndices ==
  rpc = "lcp" /\ got.cmpr /\ quiet /\ disk = Image(owner) =>
    \A p \in 0 .. owner.size : got.sa[p] = owner.sa[p]

\* "-tc ... storing the indices as hexadecimal strings" (SuffixArray.man:41): a form of
\* the same data-file.
CompressedRoundTrip ==
  rpc = "done" /\ quiet /\ disk = Image(owner) /\ owner.cmpr => Is(owner)

=============================================================================
