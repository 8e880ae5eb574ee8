-------------------------------- MODULE Formats --------------------------------
(***************************************************************************)
(* From yt-dlp's answer to the keyboard: parseFormatList, which reads the  *)
(* entries of a JSON document and, where none is a video, the lines of a   *)
(* table; its sort by bitrate; and SendFormatSelection, which offers the   *)
(* first ten.                                                              *)
(*                                                                         *)
(* A format is known by its place in the output, which stands for its      *)
(* format_id (yt-dlp makes them unique).  Left out: names, sizes, notes    *)
(* and extensions, which are only displayed.  The output is that of both   *)
(* streams, so a warning makes it unreadable as JSON.                      *)
(***************************************************************************)
EXTENDS Naturals, Sequences, Functions

CONSTANTS
    Entries,       \* elements of the JSON array "formats"
    Lines,         \* lines of the table
    MaxLength,     \* bound: entries or lines of an output
    KeyboardSize   \* 10

Unit == [k |-> 1, space |-> 1, M |-> 1000]
Quantity == [value : Nat, unit : DOMAIN Unit,   \* "250k", "30 ", "2M"
             of : {"bitrate", "other"}]         \* what yt-dlp means by it

(* Entry: object is false for an element that is not a JSON object, and    *)
(* tbr holds at most one number.  Line: a heading contains "format code"   *)
(* or "ID", an end is blank or starts with "[", a row has four words; the  *)
(* first word of its resolution column and the quantities of its note, in  *)
(* the order of its columns, are what is read of it.                       *)
Entry == [object : BOOLEAN, named : BOOLEAN, height : Nat, tbr : SUBSET Nat,
          resolution : {"", "audio only", "size"}]
Line == [kind : {"heading", "end", "row", "other"}, resolution : {"audio", "size"},
         note : Seq(Quantity)]

ASSUME ConstantsAssumption ==
    /\ Entries \subseteq Entry
    /\ Lines \subseteq Line
    /\ MaxLength \in Nat
    /\ KeyboardSize \in Nat \ {0}

VARIABLES
    output,     \* of yt-dlp
    next,       \* the entry or line to be read
    inFormats,  \* parseFormatText's inFormatsSection
    formats,    \* the list
    keyboard,   \* rows of buttons, without the last row's "Best Quality"
    pc

parser == <<next, inFormats>>
vars == <<output, parser, formats, keyboard, pc>>

Output == [entries : Seq(Entries), table : Seq(Lines)]
Format == [at : Nat \ {0}, resolution : {"audio", "size"}, tbr : Nat]

TypeOK ==
    /\ output \in Output
    /\ next \in Nat \ {0}
    /\ inFormats \in BOOLEAN
    /\ formats \in Seq(Format)
    /\ keyboard \in Seq(Seq(Format))
    /\ \A row \in DOMAIN keyboard : Len(keyboard[row]) \in 1..2
    /\ pc \in {"json", "text", "sort", "show", "shown", "fallback"}

Sequences(S) == UNION {[1..n -> S] : n \in 0..MaxLength}

(* A JSON document is one line, which is at most a heading.                *)
Init ==
    /\ output \in [entries : Sequences(Entries), table : {<<>>}] \cup
                   [entries : {<<>>}, table : Sequences(Lines)]
    /\ next = 1
    /\ inFormats = FALSE
    /\ formats = <<>>
    /\ keyboard = <<>>
    /\ pc = "json"

-----------------------------------------------------------------------------
(* parseFormatJSON *)

Tbr(e) == IF e.tbr = {} THEN 0 ELSE CHOOSE t \in e.tbr : TRUE

Resolution(e) == IF e.resolution = "" /\ e.height > 0 THEN "size" ELSE e.resolution

(* Mutant: only a missing resolution is refused.                           *)
IsAnyFormat(resolution) == resolution # ""

IsVideoFormat(resolution) == resolution \notin {"", "audio only"}

Kept(e) == e.object /\ e.named /\ IsVideoFormat(Resolution(e))

ReadEntry ==
    /\ pc = "json"
    /\ next <= Len(output.entries)
    /\ LET e == output.entries[next]
           f == [at |-> next, resolution |-> Resolution(e), tbr |-> Tbr(e)]
       IN  formats' = IF Kept(e) THEN Append(formats, f) ELSE formats
    /\ next' = next + 1
    /\ UNCHANGED <<output, inFormats, keyboard, pc>>

EndOfEntries ==
    /\ pc = "json"
    /\ next > Len(output.entries)
    /\ pc' = IF formats = <<>> THEN "text" ELSE "sort"
    /\ next' = 1
    /\ UNCHANGED <<output, inFormats, formats, keyboard>>

-----------------------------------------------------------------------------
(* parseFormatText *)

Reads(line) ==
    /\ pc = "text"
    /\ next <= Len(output.table)
    /\ line = output.table[next]
    /\ next' = next + 1
    /\ UNCHANGED <<output, keyboard, pc>>

Heading(line) ==
    /\ line.kind = "heading"
    /\ inFormats' = TRUE
    /\ UNCHANGED formats

Skip(line) ==
    /\ line.kind # "heading"
    /\ ~inFormats \/ line.kind = "other"
    /\ UNCHANGED <<inFormats, formats>>

(* Mutant: a blank line does not end the section.                          *)
EndOfNothing(line) ==
    /\ inFormats
    /\ line.kind = "end"
    /\ UNCHANGED <<inFormats, formats>>

EndOfSection(line) ==
    /\ inFormats
    /\ line.kind = "end"
    /\ inFormats' = FALSE
    /\ UNCHANGED formats

Amount(q) == q.value * Unit[q.unit]

(* The first number followed by k, M or a space, whatever it counts.       *)
ParseBitrate(note) == IF note = <<>> THEN 0 ELSE Amount(note[1])

(* "audio only" is two words and the column is one, so the comparison that *)
(* is to skip such rows never holds.                                       *)
FormatRow(line) ==
    /\ inFormats
    /\ line.kind = "row"
    /\ formats' = Append(formats, [at |-> next, resolution |-> line.resolution,
                                   tbr |-> ParseBitrate(line.note)])
    /\ UNCHANGED inFormats

ReadLine ==
    \E line \in Lines :
       /\ Reads(line)
       /\ Heading(line) \/ Skip(line) \/ EndOfSection(line) \/ FormatRow(line)

EndOfText ==
    /\ pc = "text"
    /\ next > Len(output.table)
    /\ pc' = "sort"
    /\ UNCHANGED <<output, parser, formats, keyboard>>

-----------------------------------------------------------------------------
(* The sort, and SendFormatSelection *)

(* Mutant: < for >.                                                        *)
WorstFirst(list) == \A i, j \in DOMAIN list : i < j => list[i].tbr <= list[j].tbr

BestFirst(list) == \A i, j \in DOMAIN list : i < j => list[i].tbr >= list[j].tbr

(* sort.Slice puts equal ones in any order.                                *)
Sort ==
    /\ pc = "sort"
    /\ \E place \in Bijection(DOMAIN formats, DOMAIN formats) :
          formats' = [i \in DOMAIN formats |-> formats[place[i]]]
    /\ BestFirst(formats')
    /\ pc' = "show"
    /\ UNCHANGED <<output, parser, keyboard>>

Shown == IF Len(formats) > KeyboardSize THEN KeyboardSize ELSE Len(formats)

Pair(r) ==
    IF 2 * r <= Shown THEN <<formats[2 * r - 1], formats[2 * r]>> ELSE <<formats[2 * r - 1]>>

SendFormatSelection ==
    /\ pc = "show"
    /\ formats # <<>>
    /\ keyboard' = [r \in 1..((Shown + 1) \div 2) |-> Pair(r)]
    /\ pc' = "shown"
    /\ UNCHANGED <<output, parser, formats>>

(* The best quality is queued without asking.                              *)
FallBack ==
    /\ pc = "show"
    /\ formats = <<>>
    /\ pc' = "fallback"
    /\ UNCHANGED <<output, parser, formats, keyboard>>

Next ==
    \/ ReadEntry \/ EndOfEntries
    \/ ReadLine \/ EndOfText
    \/ Sort
    \/ SendFormatSelection \/ FallBack

Spec == Init /\ [][Next]_vars

-----------------------------------------------------------------------------
(* What the output lists, without scanning it: in a table, the rows with a *)
(* heading before and no end in between.                                   *)
Videos == {i \in DOMAIN output.entries : Kept(output.entries[i])}

Sectioned(i) ==
    \E h \in 1..(i - 1) : /\ output.table[h].kind = "heading"
                          /\ \A k \in (h + 1)..(i - 1) : output.table[k].kind # "end"

Rows == {i \in DOMAIN output.table : output.table[i].kind = "row" /\ Sectioned(i)}

AudioRows == {i \in Rows : output.table[i].resolution = "audio"}

Parsed == IF Videos # {} THEN Videos ELSE Rows

Listed == IF Videos # {} THEN Videos ELSE Rows \ AudioRows

(* The bitrate the output states: yt-dlp's tables have the frame rate and  *)
(* the size before it, so that the first quantity need not be it.          *)
StatedBitrate(note) ==
    LET places == {k \in DOMAIN note : note[k].of = "bitrate"}
    IN  IF places = {} THEN 0
        ELSE Amount(note[CHOOSE k \in places : \A m \in places : k <= m])

Bitrate(i) ==
    IF Videos # {} THEN Tbr(output.entries[i]) ELSE StatedBitrate(output.table[i].note)

Misread == {i \in Rows : /\ output.table[i].note # <<>>
                         /\ output.table[i].note[1].of # "bitrate"}

OnKeyboard(f) == \E r \in DOMAIN keyboard : \E c \in DOMAIN keyboard[r] : keyboard[r][c] = f

Offered(i) == \E r \in DOMAIN keyboard : \E c \in DOMAIN keyboard[r] : keyboard[r][c].at = i

(* The keyboard ends at ten formats, after the sort of parseFormatList:    *)
(* nothing it leaves out has, in the output, a greater bitrate than        *)
(* something it offers, however the output was ordered and whatever the    *)
(* sort did with equal ones.  That is so of the entries of a document, and *)
(* of the rows of a table which state their bitrate before any other       *)
(* quantity; of the others the code sorts by that quantity.                *)
OffersTheBest ==
    pc = "shown" =>
        \A i, j \in Parsed \ Misread :
            Offered(i) /\ ~Offered(j) => Bitrate(i) >= Bitrate(j)

(* parseFormatList keeps every video of the output and, of a table, the    *)
(* audio rows, which its comparison fails to skip, and nothing else; each  *)
(* is on at most one button, and as many as the keyboard has room for are  *)
(* on one, so that only an audio row can take a video's place; and the     *)
(* fall-back to the best quality is for an output without a video.         *)
OffersAll ==
    /\ pc = "fallback" => Listed = {}
    /\ pc = "shown" =>
          /\ Listed \subseteq {f.at : f \in Range(formats)}
          /\ {f.at : f \in Range(formats)} \subseteq Listed \cup AudioRows
          /\ \A i \in 1..Shown : OnKeyboard(formats[i])
          /\ \A r, s \in DOMAIN keyboard :
                \A c \in DOMAIN keyboard[r], d \in DOMAIN keyboard[s] :
                   /\ keyboard[r][c] \in Range(formats)
                   /\ keyboard[r][c].at = keyboard[s][d].at => r = s /\ c = d
=============================================================================
