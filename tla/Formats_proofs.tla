----------------------------- MODULE Formats_proofs -----------------------------
(***************************************************************************)
(* Theorems about Formats, for outputs and keyboards of any size.          *)
(***************************************************************************)
EXTENDS Formats, TLAPS

Places == {f.at : f \in Range(formats)}

(* What has been read so far is what the list holds.                       *)
Progress ==
    /\ pc = "json" => /\ next <= Len(output.entries) + 1
                      /\ ~inFormats
                      /\ Places = {i \in 1..(next - 1) : Kept(output.entries[i])}
    /\ pc = "text" => /\ Videos = {}
                      /\ next <= Len(output.table) + 1
                      /\ inFormats <=> Sectioned(next)
                      /\ Places = {i \in 1..(next - 1) : i \in Rows}
    /\ pc \notin {"json", "text"} => Places = Parsed

(* What parseFormatList makes of the bitrate at place i.                   *)
ReadBitrate(i) ==
    IF Videos # {} THEN Tbr(output.entries[i]) ELSE ParseBitrate(output.table[i].note)

Faithful == \A f \in Range(formats) : f.tbr = ReadBitrate(f.at)

Distinct == \A i, j \in DOMAIN formats : formats[i].at = formats[j].at => i = j

Layout ==
    /\ pc \in {"show", "shown"} => BestFirst(formats)
    /\ pc = "shown" => keyboard = [r \in 1..((Shown + 1) \div 2) |-> Pair(r)]
    /\ pc # "shown" => keyboard = <<>>
    /\ pc = "fallback" => formats = <<>>

Types ==
    /\ output \in Output
    /\ next \in Nat \ {0}
    /\ inFormats \in BOOLEAN
    /\ formats \in Seq(Format)
    /\ pc \in {"json", "text", "sort", "show", "shown", "fallback"}

Inv == Types /\ Progress /\ Faithful /\ Distinct /\ Layout

-----------------------------------------------------------------------------
(* What the parsers make of an entry or a row is a format.                 *)
LEMMA EntryFormat ==
    ASSUME NEW e \in Entry, NEW i \in Nat \ {0}, Kept(e)
    PROVE  [at |-> i, resolution |-> Resolution(e), tbr |-> Tbr(e)] \in Format
<1>1. Tbr(e) \in Nat
  BY DEF Tbr, Entry
<1>2. Resolution(e) = "size"
  BY DEF Kept, IsVideoFormat, Resolution, Entry
<1> QED
  BY <1>1, <1>2 DEF Format

LEMMA BitrateType ==
    ASSUME NEW line \in Line
    PROVE  ParseBitrate(line.note) \in Nat
<1> DEFINE note == line.note
<1>1. note \in Seq(Quantity)
  BY DEF Line
<1>2. CASE note = <<>>
  BY <1>2 DEF ParseBitrate
<1>3. CASE note # <<>>
  <2>1. note[1] \in Quantity
    BY <1>1, <1>3
  <2>2. note[1].value \in Nat /\ note[1].unit \in {"k", "space", "M"}
    BY <2>1 DEF Quantity, Unit
  <2>3. Unit[note[1].unit] = 1 \/ Unit[note[1].unit] = 1000
    BY <2>2 DEF Unit
  <2>4. note[1].value * 1 \in Nat /\ note[1].value * 1000 \in Nat
    BY <2>2
  <2> QED
    BY <1>3, <2>3, <2>4 DEF ParseBitrate, Amount
<1> QED
  BY <1>2, <1>3

(* A format appended is one more, at the place just read.                  *)
LEMMA Appended ==
    ASSUME NEW f \in Format, formats \in Seq(Format), formats' = Append(formats, f)
    PROVE  /\ formats' \in Seq(Format)
           /\ Range(formats') = Range(formats) \cup {f}
           /\ Places' = Places \cup {f.at}
           /\ Distinct /\ f.at \notin Places => Distinct'
<1>1. formats' \in Seq(Format) /\ Len(formats') = Len(formats) + 1
  OBVIOUS
<1>2. /\ DOMAIN formats = 1..Len(formats)
      /\ DOMAIN formats' = 1..(Len(formats) + 1)
  BY <1>1
<1>3. /\ \A i \in DOMAIN formats : formats'[i] = formats[i]
      /\ formats'[Len(formats) + 1] = f
  OBVIOUS
<1>4. Range(formats') = Range(formats) \cup {f}
  BY <1>2, <1>3 DEF Range
<1>5. Places' = Places \cup {f.at}
  BY <1>4 DEF Places
<1>6. ASSUME Distinct, f.at \notin Places
      PROVE  Distinct'
  <2>1. \A i \in DOMAIN formats : formats[i].at # f.at
    BY <1>6 DEF Places, Range
  <2> QED
    BY <1>2, <1>3, <1>6, <2>1 DEF Distinct
<1> QED
  BY <1>1, <1>4, <1>5, <1>6

(* A list put into another order holds the same.                           *)
LEMMA Rearranged ==
    ASSUME formats \in Seq(Format),
           NEW place \in Bijection(DOMAIN formats, DOMAIN formats),
           formats' = [i \in DOMAIN formats |-> formats[place[i]]]
    PROVE  /\ formats' \in Seq(Format)
           /\ Range(formats') = Range(formats)
           /\ Places' = Places
           /\ Distinct => Distinct'
<1>1. /\ place \in [DOMAIN formats -> DOMAIN formats]
      /\ \A i, j \in DOMAIN formats : place[i] = place[j] => i = j
      /\ \A j \in DOMAIN formats : \E i \in DOMAIN formats : place[i] = j
  BY DEF Bijection, Injection, Surjection, IsInjective
<1>2. DOMAIN formats = 1..Len(formats) /\ Len(formats) \in Nat
  OBVIOUS
<1>3. formats' \in [1..Len(formats) -> Format]
  BY <1>1, <1>2
<1>4. formats' \in Seq(Format)
  BY <1>2, <1>3
<1>5. Range(formats') = Range(formats)
  BY <1>1 DEF Range
<1>6. Places' = Places
  BY <1>5 DEF Places
<1>7. ASSUME Distinct
      PROVE  Distinct'
  <2> SUFFICES ASSUME NEW i \in DOMAIN formats, NEW j \in DOMAIN formats,
                      formats[place[i]].at = formats[place[j]].at
               PROVE  i = j
    BY DEF Distinct
  <2> QED
    BY <1>1, <1>7 DEF Distinct
<1> QED
  BY <1>4, <1>5, <1>6, <1>7

(* The bitrate read stays what it is while the output does.                *)
LEMMA ReadBitrateKept ==
    ASSUME output' = output
    PROVE  /\ \A i : ReadBitrate(i)' = ReadBitrate(i)
           /\ Faithful /\ formats' = formats => Faithful'
<1>1. \A i : ReadBitrate(i)' = ReadBitrate(i)
  BY DEF ReadBitrate, Videos
<1> QED
  BY <1>1 DEF Faithful

-----------------------------------------------------------------------------
LEMMA InvInit == Init => Inv
<1> SUFFICES ASSUME Init
             PROVE  Inv
  OBVIOUS
<1>1. output \in Output
  <2>1. \A S : Sequences(S) \subseteq Seq(S) /\ <<>> \in Seq(S)
    BY ConstantsAssumption DEF Sequences
  <2> QED
    BY <2>1 DEF Init, Output
<1>2. next = 1 /\ inFormats = FALSE /\ formats = <<>> /\ keyboard = <<>> /\ pc = "json"
  BY DEF Init
<1>3. Places = {}
  BY <1>2 DEF Places, Range
<1>4. formats \in Seq(Format)
  BY <1>2
<1>5. Types
  <2>1. next \in Nat \ {0}
    BY <1>2
  <2>2. inFormats \in BOOLEAN
    BY <1>2, Zenon
  <2>3. pc \in {"json", "text", "sort", "show", "shown", "fallback"}
    BY <1>2
  <2> QED
    BY <1>1, <1>4, <2>1, <2>2, <2>3 DEF Types
<1>6. Progress
  <2>1. Len(output.entries) \in Nat
    BY <1>1 DEF Output
  <2>2. {i \in 1..(next - 1) : Kept(output.entries[i])} = {}
    BY <1>2
  <2> QED
    BY <1>2, <1>3, <2>1, <2>2 DEF Progress
<1>7. Distinct /\ Layout /\ Faithful
  BY <1>2 DEF Distinct, Layout, Faithful, Range
<1> QED
  BY <1>5, <1>6, <1>7 DEF Inv

LEMMA InvReadEntry == Inv /\ ReadEntry => Inv'
<1> SUFFICES ASSUME Inv, ReadEntry
             PROVE  Inv'
  OBVIOUS
<1> USE DEF ReadEntry, Inv
<1> DEFINE e == output.entries[next]
           f == [at |-> next, resolution |-> Resolution(e), tbr |-> Tbr(e)]
<1>1. next \in 1..Len(output.entries) /\ Len(output.entries) \in Nat /\ e \in Entry
  BY ConstantsAssumption DEF Types, Output
<1>2. Kept(e) => f \in Format
  BY <1>1, EntryFormat
<1>3. Places = {i \in 1..(next - 1) : Kept(output.entries[i])}
  BY DEF Progress
<1>4. next \notin Places
  BY <1>1, <1>3
<1>5. /\ formats' \in Seq(Format)
      /\ Places' = {i \in 1..next : Kept(output.entries[i])}
      /\ Distinct'
  <2>1. CASE Kept(e)
    <3>1. formats' = Append(formats, f)
      BY <2>1
    <3>2. formats' \in Seq(Format) /\ Places' = Places \cup {next} /\ Distinct'
      BY <1>2, <1>4, <2>1, <3>1, Appended DEF Types
    <3>3. {i \in 1..next : Kept(output.entries[i])}
            = {i \in 1..(next - 1) : Kept(output.entries[i])} \cup {next}
      BY <1>1, <2>1
    <3> QED
      BY <1>3, <3>2, <3>3
  <2>2. CASE ~Kept(e)
    <3>1. formats' = formats /\ Places' = Places /\ Distinct'
      BY <2>2 DEF Places, Distinct
    <3>2. {i \in 1..next : Kept(output.entries[i])}
            = {i \in 1..(next - 1) : Kept(output.entries[i])}
      BY <1>1, <2>2
    <3> QED
      BY <1>3, <3>1, <3>2 DEF Types
  <2> QED
    BY <2>1, <2>2
<1>6. Types'
  BY <1>1, <1>5 DEF Types
<1>7. Progress'
  BY <1>1, <1>5 DEF Progress
<1>8. Layout'
  BY DEF Layout
<1>9. Faithful'
  <2>1. CASE Kept(e)
    <3>1. Range(formats') = Range(formats) \cup {f}
      BY <1>2, <2>1, Appended DEF Types
    <3>2. next \in Videos
      BY <1>1, <2>1 DEF Videos, Types, Output
    <3>3. f.tbr = ReadBitrate(f.at)
      BY <3>2 DEF ReadBitrate
    <3> QED
      BY <3>1, <3>3, ReadBitrateKept DEF Faithful
  <2>2. CASE ~Kept(e)
    BY <2>2, ReadBitrateKept
  <2> QED
    BY <2>1, <2>2
<1> QED
  BY <1>5, <1>6, <1>7, <1>8, <1>9

(* Nothing kept of the entries: there is no video among them, and no line  *)
(* of the table has been read.                                             *)
LEMMA InvEndOfEntries == Inv /\ EndOfEntries => Inv'
<1> SUFFICES ASSUME Inv, EndOfEntries
             PROVE  Inv'
  OBVIOUS
<1> USE DEF EndOfEntries, Inv
<1>1. DOMAIN output.entries = 1..Len(output.entries) /\ Len(output.entries) \in Nat
      /\ Len(output.table) \in Nat
  BY DEF Types, Output
<1>2. next - 1 = Len(output.entries) /\ next \in Nat
  BY <1>1 DEF Progress, Types
<1>3. Places = Videos
  BY <1>1, <1>2 DEF Progress, Videos
<1>4. Places' = Places /\ Distinct' /\ Videos' = Videos /\ Parsed' = Parsed
  BY DEF Places, Distinct, Videos, Parsed, Rows, Sectioned
<1>5. formats = <<>> <=> Places = {}
  <2>1. DOMAIN formats = 1..Len(formats) /\ Len(formats) \in Nat
    BY DEF Types
  <2>2. formats # <<>> => Len(formats) > 0
    BY DEF Types
  <2>3. formats # <<>> => formats[1].at \in Places
    BY <2>1, <2>2 DEF Places, Range
  <2>4. formats = <<>> => Range(formats) = {}
    BY DEF Range
  <2>5. formats = <<>> => Places = {}
    BY <2>4 DEF Places
  <2> QED
    BY <2>3, <2>5
<1>6. Types'
  BY DEF Types
<1>7. Progress'
  <2>1. CASE formats = <<>>
    <3>1. pc' = "text" /\ next' = 1 /\ ~inFormats'
      BY <2>1 DEF Progress
    <3>2. ~Sectioned(next)'
      BY <3>1 DEF Sectioned
    <3>3. {i \in 1..(next' - 1) : i \in Rows'} = {}
      BY <3>1
    <3> QED
      BY <1>1, <1>3, <1>4, <1>5, <2>1, <3>1, <3>2, <3>3 DEF Progress
  <2>2. CASE formats # <<>>
    <3>1. pc' = "sort"
      BY <2>2
    <3>2. Places = Parsed
      BY <1>3, <1>5, <2>2 DEF Parsed
    <3> QED
      BY <1>4, <3>1, <3>2 DEF Progress
  <2> QED
    BY <2>1, <2>2
<1>8. Layout' /\ Faithful'
  BY ReadBitrateKept DEF Layout
<1> QED
  BY <1>4, <1>6, <1>7, <1>8

(* A section holds at a line exactly when the flag says so: a heading sets *)
(* it, an end clears it, and any other line leaves it.                     *)
LEMMA SectionStep ==
    ASSUME Types, pc = "text", next \in 1..Len(output.table),
           inFormats <=> Sectioned(next)
    PROVE  Sectioned(next + 1) <=>
             \/ output.table[next].kind = "heading"
             \/ inFormats /\ output.table[next].kind # "end"
<1> DEFINE kind(i) == output.table[i].kind
<1>1. next \in Nat \ {0} /\ (next + 1) - 1 = next
  BY DEF Types
<1>2. ASSUME kind(next) = "heading"
      PROVE  Sectioned(next + 1)
  <2>1. \A k \in (next + 1)..next : FALSE
    BY <1>1
  <2> QED
    BY <1>1, <1>2, <2>1 DEF Sectioned
<1>3. ASSUME inFormats, kind(next) # "end"
      PROVE  Sectioned(next + 1)
  <2>1. PICK h \in 1..(next - 1) : /\ kind(h) = "heading"
                                  /\ \A k \in (h + 1)..(next - 1) : kind(k) # "end"
    BY <1>3 DEF Sectioned
  <2>2. \A k \in (h + 1)..next : k = next \/ k \in (h + 1)..(next - 1)
    BY <1>1, <2>1
  <2> QED
    BY <1>1, <1>3, <2>1, <2>2 DEF Sectioned
<1>4. ASSUME Sectioned(next + 1), kind(next) # "heading"
      PROVE  inFormats /\ kind(next) # "end"
  <2>1. PICK h \in 1..next : /\ kind(h) = "heading"
                            /\ \A k \in (h + 1)..next : kind(k) # "end"
    BY <1>1, <1>4 DEF Sectioned
  <2>2. h # next
    BY <1>4, <2>1
  <2>3. h \in 1..(next - 1) /\ next \in (h + 1)..next
        /\ (h + 1)..(next - 1) \subseteq (h + 1)..next
    BY <1>1, <2>1, <2>2
  <2> QED
    BY <2>1, <2>3 DEF Sectioned
<1> QED
  BY <1>2, <1>3, <1>4

LEMMA InvReadLine == Inv /\ ReadLine => Inv'
<1> SUFFICES ASSUME Inv, ReadLine
             PROVE  Inv'
  OBVIOUS
<1> DEFINE kind == output.table[next].kind
<1>1. PICK line \in Lines :
         /\ Reads(line)
         /\ Heading(line) \/ Skip(line) \/ EndOfSection(line) \/ FormatRow(line)
  BY DEF ReadLine
<1>2. /\ pc = "text" /\ pc' = "text" /\ next' = next + 1
      /\ next \in 1..Len(output.table) /\ Len(output.table) \in Nat
      /\ line = output.table[next] /\ line \in Line
      /\ output' = output /\ keyboard' = keyboard
  BY <1>1, ConstantsAssumption DEF Inv, Types, Output, Reads
<1>3. /\ Videos = {}
      /\ inFormats <=> Sectioned(next)
      /\ Places = {i \in 1..(next - 1) : i \in Rows}
  BY <1>2 DEF Inv, Progress
<1>4. Videos' = Videos /\ Rows' = Rows /\ (Sectioned(next)' <=> Sectioned(next + 1))
  BY <1>2 DEF Videos, Rows, Sectioned
<1>5. Sectioned(next + 1) <=> kind = "heading" \/ (inFormats /\ kind # "end")
  <2>1. Types
    BY DEF Inv
  <2> QED
    BY <1>2, <1>3, <2>1, SectionStep
<1>6. next \in Rows <=> kind = "row" /\ inFormats
  <2>1. DOMAIN output.table = 1..Len(output.table)
    BY DEF Inv, Types, Output
  <2> QED
    BY <1>2, <1>3, <2>1 DEF Rows
<1>7. kind \in {"heading", "end", "row", "other"} /\ inFormats \in BOOLEAN
  BY <1>2 DEF Line, Inv, Types
<1>8. inFormats' \in BOOLEAN /\ (inFormats' <=> Sectioned(next)')
  <2>1. Sectioned(next)' <=> kind = "heading" \/ (inFormats /\ kind # "end")
    BY <1>4, <1>5
  <2>2. CASE Heading(line)
    BY <1>2, <2>1, <2>2 DEF Heading
  <2>3. CASE Skip(line)
    BY <1>2, <1>7, <2>1, <2>3 DEF Skip
  <2>4. CASE EndOfSection(line)
    BY <1>2, <2>1, <2>4 DEF EndOfSection
  <2>5. CASE FormatRow(line)
    BY <1>2, <1>7, <2>1, <2>5 DEF FormatRow
  <2> QED
    BY <1>1, <2>2, <2>3, <2>4, <2>5
<1>9. /\ formats' \in Seq(Format)
      /\ Places' = {i \in 1..next : i \in Rows}
      /\ Distinct' /\ Faithful'
  <2>1. CASE FormatRow(line)
    <3> DEFINE f == [at |-> next, resolution |-> line.resolution,
                     tbr |-> ParseBitrate(line.note)]
    <3>1. f \in Format
      <4>1. ParseBitrate(line.note) \in Nat
        BY <1>2, BitrateType
      <4>2. line.resolution \in {"audio", "size"} /\ next \in Nat \ {0}
        BY <1>2 DEF Line
      <4> QED
        BY <4>1, <4>2 DEF Format
    <3>2. formats' = Append(formats, f) /\ next \in Rows
      BY <1>2, <1>6, <2>1 DEF FormatRow
    <3>3. next \notin Places
      BY <1>2, <1>3
    <3>4. /\ formats' \in Seq(Format) /\ Places' = Places \cup {next} /\ Distinct'
          /\ Range(formats') = Range(formats) \cup {f}
      BY <3>1, <3>2, <3>3, Appended DEF Inv, Types
    <3>5. {i \in 1..next : i \in Rows} = {i \in 1..(next - 1) : i \in Rows} \cup {next}
      BY <1>2, <3>2
    <3>6. f.tbr = ReadBitrate(f.at)
      BY <1>2, <1>3 DEF ReadBitrate
    <3>7. Faithful'
      BY <1>2, <3>4, <3>6, ReadBitrateKept DEF Inv, Faithful
    <3> QED
      BY <1>3, <3>4, <3>5, <3>7
  <2>2. CASE ~FormatRow(line)
    <3>1. formats' = formats /\ next \notin Rows
      BY <1>1, <1>2, <1>6, <1>7, <2>2 DEF Heading, Skip, EndOfSection
    <3>2. formats' \in Seq(Format) /\ Places' = Places /\ Distinct'
      BY <3>1 DEF Places, Distinct, Inv, Types
    <3>3. {i \in 1..next : i \in Rows} = {i \in 1..(next - 1) : i \in Rows}
      BY <1>2, <3>1
    <3>4. Faithful'
      BY <1>2, <3>1, ReadBitrateKept DEF Inv
    <3> QED
      BY <1>3, <3>2, <3>3, <3>4
  <2> QED
    BY <2>1, <2>2
<1>10. Types'
  BY <1>2, <1>8, <1>9 DEF Inv, Types
<1>11. Progress'
  <2>1. next' <= Len(output'.table) + 1 /\ next' - 1 = next
    BY <1>2
  <2>2. /\ Videos' = {} /\ (inFormats' <=> Sectioned(next)')
        /\ Places' = {i \in 1..(next' - 1) : i \in Rows'}
    BY <1>3, <1>4, <1>8, <1>9, <2>1
  <2> QED
    BY <1>2, <2>1, <2>2 DEF Progress
<1>12. Layout'
  BY <1>2 DEF Inv, Layout
<1> QED
  BY <1>9, <1>10, <1>11, <1>12 DEF Inv

LEMMA InvEndOfText == Inv /\ EndOfText => Inv'
<1> SUFFICES ASSUME Inv, EndOfText
             PROVE  Inv'
  OBVIOUS
<1> USE DEF EndOfText, Inv
<1>1. DOMAIN output.table = 1..Len(output.table) /\ Len(output.table) \in Nat
  BY DEF Types, Output
<1>2. next - 1 = Len(output.table) /\ Videos = {}
  BY <1>1 DEF Progress, Types
<1>3. Places = Rows
  BY <1>1, <1>2 DEF Progress, Rows
<1>4. Places = Parsed
  BY <1>2, <1>3 DEF Parsed
<1>5. Places' = Places /\ Distinct' /\ Parsed' = Parsed
  BY DEF Places, Distinct, Videos, Parsed, Rows, Sectioned, parser
<1>6. Types' /\ Layout' /\ Faithful'
  BY ReadBitrateKept DEF Types, Layout, parser
<1>7. Progress'
  BY <1>4, <1>5 DEF Progress
<1> QED
  BY <1>5, <1>6, <1>7

LEMMA InvSort == Inv /\ Sort => Inv'
<1> SUFFICES ASSUME Inv, Sort
             PROVE  Inv'
  OBVIOUS
<1> USE DEF Sort, Inv
<1>1. PICK place \in Bijection(DOMAIN formats, DOMAIN formats) :
         formats' = [i \in DOMAIN formats |-> formats[place[i]]]
  OBVIOUS
<1>2. formats' \in Seq(Format) /\ Places' = Places /\ Distinct'
  BY <1>1, Rearranged DEF Types
<1>3. Parsed' = Parsed
  BY DEF Videos, Parsed, Rows, Sectioned
<1>4. Types'
  BY <1>2 DEF Types, parser
<1>5. Progress'
  BY <1>2, <1>3 DEF Progress
<1>6. Layout'
  BY DEF Layout, BestFirst
<1>7. Faithful'
  <2>1. Range(formats') = Range(formats)
    BY <1>1, Rearranged DEF Types
  <2> QED
    BY <2>1, ReadBitrateKept DEF Faithful
<1> QED
  BY <1>2, <1>4, <1>5, <1>6, <1>7

LEMMA InvShow == Inv /\ (SendFormatSelection \/ FallBack) => Inv'
<1> SUFFICES ASSUME Inv, SendFormatSelection \/ FallBack
             PROVE  Inv'
  OBVIOUS
<1> USE DEF SendFormatSelection, FallBack, Inv
<1>1. output' = output /\ formats' = formats
  OBVIOUS
<1>2. Places' = Places /\ Distinct' /\ Parsed' = Parsed
  BY <1>1 DEF Places, Distinct, Videos, Parsed, Rows, Sectioned
<1>3. Types'
  BY DEF Types, parser
<1>4. Progress'
  BY <1>2 DEF Progress
<1>5. BestFirst(formats)' /\ Shown' = Shown /\ \A r : Pair(r)' = Pair(r)
  BY DEF Layout, BestFirst, Shown, Pair
<1>6. Layout' /\ Faithful'
  BY <1>1, <1>5, ReadBitrateKept DEF Layout
<1> QED
  BY <1>2, <1>3, <1>4, <1>6

LEMMA InvHolds == Spec => []Inv
<1>1. Inv /\ UNCHANGED vars => Inv'
  BY ReadBitrateKept DEF Inv, Types, Progress, Distinct, Layout, Places, Videos, Parsed, Rows, Sectioned,
         BestFirst, Shown, Pair, vars, parser
<1>2. Inv /\ [Next]_vars => Inv'
  BY <1>1, InvReadEntry, InvEndOfEntries, InvReadLine, InvEndOfText, InvSort, InvShow DEF Next
<1> QED
  BY <1>2, InvInit, PTL DEF Spec

-----------------------------------------------------------------------------
(* The rows of a keyboard: row r holds the formats 2r - 1 and 2r, and      *)
(* every format up to the last one shown has its row.                      *)
LEMMA Keyboard ==
    ASSUME Inv, pc = "shown"
    PROVE  /\ Len(formats) \in Nat /\ DOMAIN formats = 1..Len(formats)
           /\ Shown \in Nat /\ Shown <= Len(formats)
           /\ DOMAIN keyboard = 1..((Shown + 1) \div 2) /\ (Shown + 1) \div 2 \in Nat
           /\ \A r \in DOMAIN keyboard :
                /\ 2 * r - 1 \in 1..Shown
                /\ keyboard[r] \in Seq(Format) /\ Len(keyboard[r]) \in 1..2
                /\ DOMAIN keyboard[r] = 1..Len(keyboard[r])
                /\ \A c \in DOMAIN keyboard[r] :
                     /\ 2 * r - 2 + c \in 1..Shown
                     /\ keyboard[r][c] = formats[2 * r - 2 + c]
           /\ \A i \in 1..Shown : \E r \in DOMAIN keyboard : \E c \in DOMAIN keyboard[r] :
                                     i = 2 * r - 2 + c
<1> USE DEF Inv
<1>1. /\ Len(formats) \in Nat /\ DOMAIN formats = 1..Len(formats)
      /\ Shown \in Nat /\ Shown <= Len(formats)
  BY ConstantsAssumption DEF Types, Shown
<1>2. /\ (Shown + 1) \div 2 \in Nat
      /\ \A r \in 1..((Shown + 1) \div 2) : 2 * r - 1 \in 1..Shown
  BY <1>1
<1>3. DOMAIN keyboard = 1..((Shown + 1) \div 2)
      /\ \A r \in DOMAIN keyboard : keyboard[r] = Pair(r)
  BY DEF Layout
<1>4. ASSUME NEW r \in DOMAIN keyboard
      PROVE  /\ 2 * r - 1 \in 1..Shown
             /\ keyboard[r] \in Seq(Format) /\ Len(keyboard[r]) \in 1..2
             /\ DOMAIN keyboard[r] = 1..Len(keyboard[r])
             /\ \A c \in DOMAIN keyboard[r] :
                  /\ 2 * r - 2 + c \in 1..Shown
                  /\ keyboard[r][c] = formats[2 * r - 2 + c]
             /\ 2 * r <= Shown => DOMAIN keyboard[r] = 1..2
  <2>1. r \in Nat /\ 2 * r - 1 \in 1..Shown
    BY <1>2, <1>3
  <2>2. formats[2 * r - 1] \in Format
    BY <1>1, <2>1 DEF Types
  <2>3. CASE 2 * r <= Shown
    <3>1. keyboard[r] = <<formats[2 * r - 1], formats[2 * r]>>
      BY <1>3, <2>3 DEF Pair
    <3>2. formats[2 * r] \in Format
      BY <1>1, <2>1, <2>3 DEF Types
    <3>3. 2 * r - 2 + 1 = 2 * r - 1 /\ 2 * r - 2 + 2 = 2 * r
      BY <2>1
    <3> QED
      BY <1>1, <2>1, <2>2, <2>3, <3>1, <3>2, <3>3
  <2>4. CASE ~(2 * r <= Shown)
    <3>1. keyboard[r] = <<formats[2 * r - 1]>>
      BY <1>3, <2>4 DEF Pair
    <3>2. 2 * r - 2 + 1 = 2 * r - 1
      BY <2>1
    <3> QED
      BY <1>1, <2>1, <2>2, <2>4, <3>1, <3>2
  <2> QED
    BY <2>3, <2>4
<1>5. ASSUME NEW i \in 1..Shown
      PROVE  \E r \in DOMAIN keyboard : \E c \in DOMAIN keyboard[r] : i = 2 * r - 2 + c
  <2> DEFINE r == (i + 1) \div 2
  <2>1. r \in 1..((Shown + 1) \div 2) /\ (i = 2 * r - 1 \/ i = 2 * r)
    BY <1>1
  <2>2. 1 \in DOMAIN keyboard[r]
    BY <1>3, <1>4, <2>1
  <2>3. i = 2 * r => 2 \in DOMAIN keyboard[r]
    BY <1>3, <1>4, <2>1
  <2> QED
    BY <1>3, <2>1, <2>2, <2>3
<1> QED
  BY <1>1, <1>2, <1>3, <1>4, <1>5

(* The types, among them at most two buttons to a row.                     *)
THEOREM TypeCorrect == Spec => []TypeOK
<1>1. Inv => TypeOK
  <2> SUFFICES ASSUME Inv
               PROVE  TypeOK
    OBVIOUS
  <2>1. Types
    BY DEF Inv
  <2>2. CASE pc = "shown"
    <3>1. keyboard = [r \in 1..((Shown + 1) \div 2) |-> keyboard[r]]
      BY <2>2 DEF Inv, Layout
    <3>2. /\ (Shown + 1) \div 2 \in Nat
          /\ \A r \in 1..((Shown + 1) \div 2) :
                keyboard[r] \in Seq(Format) /\ Len(keyboard[r]) \in 1..2
      BY <2>2, Keyboard
    <3>3. keyboard \in Seq(Seq(Format))
      <4>1. \A S : \A n \in Nat : [1..n -> S] \subseteq Seq(S)
        OBVIOUS
      <4>2. keyboard \in [1..((Shown + 1) \div 2) -> Seq(Format)]
        BY <3>1, <3>2, Zenon
      <4> QED
        BY <3>2, <4>1, <4>2, Zenon
    <3>4. \A r \in DOMAIN keyboard : Len(keyboard[r]) \in 1..2
      BY <3>1, <3>2
    <3> QED
      BY <2>1, <3>3, <3>4 DEF TypeOK, Types
  <2>3. CASE pc # "shown"
    <3>1. keyboard = <<>>
      BY <2>3 DEF Inv, Layout
    <3>2. keyboard \in Seq(Seq(Format)) /\ \A r \in DOMAIN keyboard : Len(keyboard[r]) \in 1..2
      BY <3>1
    <3> QED
      BY <2>1, <3>2 DEF TypeOK, Types
  <2> QED
    BY <2>2, <2>3
<1> QED
  BY <1>1, InvHolds, PTL

(* A quantity that comes first and is the bitrate is the one stated.       *)
LEMMA FirstIsStated ==
    ASSUME NEW line \in Line, line.note = <<>> \/ line.note[1].of = "bitrate"
    PROVE  StatedBitrate(line.note) = ParseBitrate(line.note)
<1> DEFINE note == line.note
           places == {k \in DOMAIN note : note[k].of = "bitrate"}
<1>1. note \in Seq(Quantity) /\ DOMAIN note = 1..Len(note) /\ Len(note) \in Nat
  BY DEF Line
<1>2. CASE note = <<>>
  BY <1>2 DEF StatedBitrate, ParseBitrate
<1>3. CASE note # <<>>
  <2>1. 1 \in places /\ \A m \in places : m \in Nat /\ 1 <= m
    BY <1>1, <1>3
  <2>2. ASSUME NEW k \in places, \A m \in places : k <= m
        PROVE  k = 1
    BY <2>1, <2>2
  <2>3. \E k \in places : \A m \in places : k <= m
    BY <2>1
  <2> HIDE DEF places
  <2>4. (CHOOSE k \in places : \A m \in places : k <= m) = 1
    BY <2>2, <2>3
  <2>5. places # {}
    BY <2>1
  <2>6. StatedBitrate(note) =
           Amount(note[CHOOSE k \in places : \A m \in places : k <= m])
    BY <2>5, Zenon DEF StatedBitrate, places
  <2> QED
    BY <1>3, <2>4, <2>6 DEF ParseBitrate
<1> QED
  BY <1>2, <1>3

(* So what is not misread is sorted by the bitrate the output states.      *)
LEMMA BitrateRead ==
    ASSUME Types, NEW i \in Parsed \ Misread
    PROVE  Bitrate(i) = ReadBitrate(i)
<1>1. CASE Videos # {}
  BY <1>1 DEF Bitrate, ReadBitrate
<1>2. CASE Videos = {}
  <2>1. i \in Rows /\ i \notin Misread
    BY <1>2 DEF Parsed
  <2>2. output.table[i] \in Line
    BY <2>1, ConstantsAssumption DEF Rows, Types, Output
  <2>3. output.table[i].note = <<>> \/ output.table[i].note[1].of = "bitrate"
    BY <2>1 DEF Misread
  <2> QED
    BY <1>2, <2>2, <2>3, FirstIsStated DEF Bitrate, ReadBitrate
<1> QED
  BY <1>1, <1>2

(* Whatever is on the keyboard has at least the bitrate of what is not,    *)
(* where the output states it first: read, sort, then cut, for any output  *)
(* and size.                                                               *)
THEOREM BestOffered == Spec => []OffersTheBest
<1>1. Inv => OffersTheBest
  <2> SUFFICES ASSUME Inv, pc = "shown",
                      NEW i \in Parsed \ Misread, NEW j \in Parsed \ Misread,
                      Offered(i), ~Offered(j)
               PROVE  Bitrate(i) >= Bitrate(j)
    BY DEF OffersTheBest
  <2>0. /\ Len(formats) \in Nat /\ DOMAIN formats = 1..Len(formats)
        /\ Shown \in Nat /\ Shown <= Len(formats)
    BY Keyboard
  <2>1. PICK m \in 1..Shown : formats[m].at = i
    <3>1. PICK r \in DOMAIN keyboard : \E c \in DOMAIN keyboard[r] : keyboard[r][c].at = i
      BY DEF Offered
    <3>2. PICK c \in DOMAIN keyboard[r] : keyboard[r][c].at = i
      BY <3>1
    <3>3. 2 * r - 2 + c \in 1..Shown /\ keyboard[r][c] = formats[2 * r - 2 + c]
      BY <3>2, Keyboard
    <3> QED
      BY <3>2, <3>3
  <2>2. PICK n \in DOMAIN formats : formats[n].at = j
    <3>1. Places = Parsed
      BY DEF Inv, Progress
    <3> QED
      BY <3>1 DEF Places, Range
  <2>3. n \notin 1..Shown
    <3> SUFFICES ASSUME n \in 1..Shown
                 PROVE  Offered(j)
      OBVIOUS
    <3>1. PICK r \in DOMAIN keyboard : \E c \in DOMAIN keyboard[r] : n = 2 * r - 2 + c
      BY Keyboard
    <3>2. PICK c \in DOMAIN keyboard[r] : n = 2 * r - 2 + c
      BY <3>1
    <3>3. keyboard[r][c] = formats[n]
      BY <3>2, Keyboard
    <3> QED
      BY <2>2, <3>3 DEF Offered
  <2>4. m \in DOMAIN formats /\ m < n
    BY <2>0, <2>1, <2>2, <2>3
  <2>5. formats[m].tbr >= formats[n].tbr
    BY <2>2, <2>4 DEF Inv, Layout, BestFirst
  <2>6. \A k \in DOMAIN formats : formats[k].tbr = ReadBitrate(formats[k].at)
    BY DEF Inv, Faithful, Range
  <2>7. Bitrate(i) = ReadBitrate(i) /\ Bitrate(j) = ReadBitrate(j)
    BY BitrateRead DEF Inv
  <2> QED
    BY <2>1, <2>2, <2>4, <2>5, <2>6, <2>7
<1> QED
  BY <1>1, InvHolds, PTL

(* The scan of the entries or of the table, the sort and the pairing of    *)
(* buttons lose no video that is listed and double nothing; what else they *)
(* offer is an audio row.                                                  *)
THEOREM AllOffered == Spec => []OffersAll
<1>1. Inv => OffersAll
  <2> SUFFICES ASSUME Inv
               PROVE  OffersAll
    OBVIOUS
  <2>1. ASSUME pc = "fallback"
        PROVE  Listed = {}
    <3>1. Places = Parsed /\ formats = <<>>
      BY <2>1 DEF Inv, Progress, Layout
    <3>2. Range(formats) = {}
      BY <3>1 DEF Range
    <3>3. Parsed = {}
      BY <3>1, <3>2 DEF Places
    <3> QED
      BY <3>3 DEF Parsed, Listed
  <2>2. ASSUME pc = "shown"
        PROVE  /\ Listed \subseteq {f.at : f \in Range(formats)}
               /\ {f.at : f \in Range(formats)} \subseteq Listed \cup AudioRows
    <3>1. {f.at : f \in Range(formats)} = Parsed
      BY <2>2 DEF Inv, Progress, Places
    <3>2. Listed \subseteq Parsed /\ Parsed \subseteq Listed \cup AudioRows
      BY DEF Listed, Parsed
    <3> QED
      BY <3>1, <3>2
  <2>3. ASSUME pc = "shown", NEW i \in 1..Shown
        PROVE  OnKeyboard(formats[i])
    BY <2>3, Keyboard DEF OnKeyboard
  <2>4. ASSUME pc = "shown", NEW r \in DOMAIN keyboard, NEW s \in DOMAIN keyboard,
               NEW c \in DOMAIN keyboard[r], NEW d \in DOMAIN keyboard[s]
        PROVE  /\ keyboard[r][c] \in Range(formats)
               /\ keyboard[r][c].at = keyboard[s][d].at => r = s /\ c = d
    <3>1. /\ r \in Nat /\ s \in Nat /\ c \in 1..2 /\ d \in 1..2
          /\ 2 * r - 2 + c \in DOMAIN formats /\ keyboard[r][c] = formats[2 * r - 2 + c]
          /\ 2 * s - 2 + d \in DOMAIN formats /\ keyboard[s][d] = formats[2 * s - 2 + d]
      <4>1. /\ DOMAIN keyboard = 1..((Shown + 1) \div 2) /\ Shown \in Nat
            /\ Shown <= Len(formats) /\ DOMAIN formats = 1..Len(formats) /\ Len(formats) \in Nat
        BY <2>4, Keyboard
      <4>2. \A q \in DOMAIN keyboard :
              /\ Len(keyboard[q]) \in 1..2 /\ DOMAIN keyboard[q] = 1..Len(keyboard[q])
              /\ \A b \in DOMAIN keyboard[q] :
                   2 * q - 2 + b \in 1..Shown /\ keyboard[q][b] = formats[2 * q - 2 + b]
        BY <2>4, Keyboard
      <4>3. r \in Nat /\ s \in Nat /\ c \in 1..2 /\ d \in 1..2
        <5>1. r \in Nat /\ s \in Nat
          BY <2>4, <4>1
        <5>2. c \in 1..Len(keyboard[r]) /\ d \in 1..Len(keyboard[s])
          BY <2>4, <4>2, Zenon
        <5>3. Len(keyboard[r]) \in 1..2 /\ Len(keyboard[s]) \in 1..2
          BY <2>4, <4>2
        <5> QED
          BY <5>1, <5>2, <5>3
      <4>4. 2 * r - 2 + c \in 1..Shown /\ keyboard[r][c] = formats[2 * r - 2 + c]
        BY <2>4, <4>2
      <4>5. 2 * s - 2 + d \in 1..Shown /\ keyboard[s][d] = formats[2 * s - 2 + d]
        BY <2>4, <4>2
      <4> QED
        BY <4>1, <4>3, <4>4, <4>5
    <3>2. keyboard[r][c].at = keyboard[s][d].at => 2 * r - 2 + c = 2 * s - 2 + d
      BY <3>1 DEF Inv, Distinct
    <3>3. 2 * r - 2 + c = 2 * s - 2 + d => r = s /\ c = d
      BY <3>1
    <3> QED
      BY <3>1, <3>2, <3>3 DEF Range
  <2> QED
    BY <2>1, <2>2, <2>3, <2>4 DEF OffersAll
<1> QED
  BY <1>1, InvHolds, PTL
=============================================================================
