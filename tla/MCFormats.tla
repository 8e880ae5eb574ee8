------------------------------- MODULE MCFormats -------------------------------
(***************************************************************************)
(* Entries and lines for Formats: one of each way through the parsers.     *)
(***************************************************************************)
EXTENDS Formats

Video(height, resolution, tbr) ==
    [object |-> TRUE, named |-> TRUE, height |-> height, resolution |-> resolution, tbr |-> tbr]

MCEntries == {
    Video(0, "size", {1}), Video(0, "size", {2}),
    Video(1, "", {2}),                 \* known by its height
    Video(0, "size", {}),              \* a storyboard: no bitrate
    Video(0, "audio only", {2}),
    Video(0, "", {2}),
    [Video(0, "size", {2}) EXCEPT !.named = FALSE],
    [Video(0, "size", {2}) EXCEPT !.object = FALSE] }

TableLine(kind, resolution, note) == [kind |-> kind, resolution |-> resolution, note |-> note]

Quantities(value, unit, of) == <<[value |-> value, unit |-> unit, of |-> of]>>

MCLines == {
    TableLine("heading", "size", <<>>),
    TableLine("end", "size", <<>>),
    TableLine("other", "size", <<>>),
    TableLine("row", "size", <<>>),
    TableLine("row", "size", Quantities(1, "M", "bitrate")),
    TableLine("row", "size",                  \* frames per second come first
              Quantities(30, "space", "other") \o Quantities(250, "k", "bitrate")),
    TableLine("row", "audio", Quantities(129, "k", "bitrate")) }
=============================================================================
