------------------------------ MODULE M3u8Parser ------------------------------
(***************************************************************************)
(* iptv::manifest::M3u8Parser: one pass over the lines of a playlist, with *)
(* a builder for the segment and one for the variant being described.      *)
(*                                                                         *)
(* A line is what LineReader returns: trimmed, not blank, and here already *)
(* told apart into its tag and its value.  Values that std::from_chars     *)
(* refuses are Malformed.  The attribute list of a STREAM-INF is the list  *)
(* of pairs that AttributeScanner finds in it.  Any text may follow any    *)
(* text: each step reads a line of Lines, or meets the end.                *)
(***************************************************************************)
EXTENDS Integers, Sequences, FiniteSets, Functions

CONSTANTS
    Lines,             \* lines a playlist may have
    Uris, Malformed,
    MaxLines,          \* bound: lines after the header
    SeqMod             \* 2^64: sequence numbers are uint64_t

Tags == {"EXTINF", "TARGETDURATION", "MEDIA-SEQUENCE", "ENDLIST", "DISCONTINUITY",
         "DISCONTINUITY-SEQUENCE", "STREAM-INF", "OTHER", "URI"}

Keys == {"BANDWIDTH", "RESOLUTION", "FRAME-RATE", "CODECS"}

ASSUME LinesAssumption ==
    \A line \in Lines :
        /\ line.tag \in Tags
        /\ line.tag = "URI" => line.value \in Uris
        /\ line.tag \in {"EXTINF", "TARGETDURATION"} => line.value \in Nat \cup {Malformed}
        /\ line.tag = "MEDIA-SEQUENCE" => line.value \in 0 .. SeqMod - 1 \cup {Malformed}
        /\ line.tag = "STREAM-INF" =>
              /\ line.value \in Seq([key : Keys, value : Nat \cup {Malformed}])
              /\ \A i \in DOMAIN line.value :
                    line.value[i].key = "CODECS" => line.value[i].value # Malformed
ASSUME NumbersAssumption == MaxLines \in Nat /\ SeqMod \in Nat \ {0} /\ Malformed \notin Nat

VARIABLES
    playlist,
    segment_builder,
    variant_builder,
    state,             \* "header", "lines", "parsed" or the code of the ParseError
    lines              \* ghost: the lines read after the header

vars == <<playlist, segment_builder, variant_builder, state, lines>>

NoUri == ""

NoVariant == [uri |-> NoUri, attributes |-> [key \in Keys |-> 0]]

Init ==
    /\ playlist = [type |-> "MediaVOD", target_duration |-> 0, media_sequence |-> 0,
                   has_endlist |-> FALSE, segments |-> <<>>, variants |-> <<>>]
    /\ segment_builder = [active |-> FALSE, duration |-> 0, discontinuity |-> FALSE]
    /\ variant_builder = [active |-> FALSE, variant |-> NoVariant]
    /\ state = "header"
    /\ lines = <<>>

\* parse() up to the loop: nothing at all, a first line that is not the header, or one that is.
ValidateHeader ==
    /\ state = "header"
    /\ state' \in {"EmptyContent", "InvalidHeader", "lines"}
    /\ UNCHANGED <<playlist, segment_builder, variant_builder, lines>>

Refuse(code) ==
    state' = code /\ UNCHANGED <<playlist, segment_builder, variant_builder>>

-----------------------------------------------------------------------------
\* The tags

HandleExtInf(value) ==
    \/ value = Malformed /\ Refuse("InvalidFormat")
    \/ /\ value # Malformed
       /\ segment_builder' = [segment_builder EXCEPT !.duration = value, !.active = TRUE]
       /\ UNCHANGED <<playlist, variant_builder, state>>

\* The value that an attribute list leaves for a key: the last one that can be read.
Attribute(attrs, key, default) ==
    LET readable == {i \in DOMAIN attrs : attrs[i].key = key /\ attrs[i].value # Malformed} IN
      IF readable = {} THEN default
      ELSE attrs[CHOOSE i \in readable : \A j \in readable : j <= i].value

\* applyStreamInfAttributes
ApplyStreamInfAttributes(attrs, variant) ==
    [variant EXCEPT !.attributes = [key \in Keys |-> Attribute(attrs, key, @[key])]]

HandleStreamInf(attrs) ==
    /\ variant_builder' = [active |-> TRUE,
                           variant |-> ApplyStreamInfAttributes(attrs, variant_builder.variant)]
    /\ UNCHANGED <<playlist, segment_builder, state>>

HandleTargetDuration(value) ==
    /\ playlist' = [playlist EXCEPT !.target_duration = IF value = Malformed THEN @ ELSE value]
    /\ UNCHANGED <<segment_builder, variant_builder, state>>

HandleMediaSequence(value) ==
    /\ playlist' = [playlist EXCEPT !.media_sequence = IF value = Malformed THEN @ ELSE value]
    /\ UNCHANGED <<segment_builder, variant_builder, state>>

HandleEndList ==
    /\ playlist' = [playlist EXCEPT !.has_endlist = TRUE, !.type = "MediaVOD"]
    /\ UNCHANGED <<segment_builder, variant_builder, state>>

HandleDiscontinuity ==
    /\ segment_builder' = [segment_builder EXCEPT !.discontinuity = TRUE]
    /\ UNCHANGED <<playlist, variant_builder, state>>

\* dispatchTag: the first entry of the table that is a prefix of the line handles it, which
\* for a DISCONTINUITY-SEQUENCE is that of DISCONTINUITY.
DispatchTag(line) ==
    \/ line.tag = "EXTINF" /\ HandleExtInf(line.value)
    \/ line.tag = "TARGETDURATION" /\ HandleTargetDuration(line.value)
    \/ line.tag = "MEDIA-SEQUENCE" /\ HandleMediaSequence(line.value)
    \/ line.tag = "ENDLIST" /\ HandleEndList
    \/ line.tag \in {"DISCONTINUITY", "DISCONTINUITY-SEQUENCE"} /\ HandleDiscontinuity
    \/ line.tag = "STREAM-INF" /\ HandleStreamInf(line.value)
    \/ line.tag = "OTHER" /\ UNCHANGED <<playlist, segment_builder, variant_builder, state>>

-----------------------------------------------------------------------------
\* The uris

\* Deviation: the builder stays active.
ResetSegmentBuilder_KeepActive == [segment_builder EXCEPT !.discontinuity = FALSE]

ResetSegmentBuilder == [segment_builder EXCEPT !.active = FALSE, !.discontinuity = FALSE]

\* Deviation: the next variant starts from the attributes of this one.
ResetVariantBuilder_KeepAttributes == [variant_builder EXCEPT !.active = FALSE]

ResetVariantBuilder == [active |-> FALSE, variant |-> NoVariant]

CommitSegment(uri) ==
    /\ playlist' = [playlist EXCEPT !.segments = Append(@,
          [uri |-> uri,
           duration |-> segment_builder.duration,
           sequence_index |-> (playlist.media_sequence + Len(playlist.segments)) % SeqMod,
           is_discontinuity |-> segment_builder.discontinuity])]
    /\ segment_builder' = ResetSegmentBuilder
    /\ UNCHANGED <<variant_builder, state>>

CommitVariant(uri) ==
    /\ playlist' = [playlist EXCEPT !.variants =
                       Append(@, [variant_builder.variant EXCEPT !.uri = uri])]
    /\ variant_builder' = ResetVariantBuilder
    /\ UNCHANGED <<segment_builder, state>>

\* parseUriLine: a variant that waits for its uri comes before a segment.
CommitUriLine(uri) ==
    \/ variant_builder.active /\ CommitVariant(uri)
    \/ ~variant_builder.active /\ segment_builder.active /\ CommitSegment(uri)
    \/ ~variant_builder.active /\ ~segment_builder.active /\ Refuse("MissingMandatoryTags")

-----------------------------------------------------------------------------
\* An iteration of parseLines.
ReadLine(line) ==
    /\ state = "lines"
    /\ Len(lines) < MaxLines
    /\ lines' = Append(lines, line)
    /\ IF line.tag = "URI" THEN CommitUriLine(line.value) ELSE DispatchTag(line)

Bandwidth(variant) == variant.attributes["BANDWIDTH"]

\* The orders that std::sort, which is not stable, may leave variants in.
Sorted(variants) ==
    {s \in {[i \in DOMAIN variants |-> variants[p[i]]] :
               p \in Bijection(DOMAIN variants, DOMAIN variants)} :
        \A i, j \in DOMAIN s : i < j => Bandwidth(s[i]) <= Bandwidth(s[j])}

\* Deviation: the variants keep the order of the playlist.
FinalizePlaylist_Unsorted ==
    playlist' = IF playlist.variants # <<>> THEN [playlist EXCEPT !.type = "Master"]
                ELSE IF ~playlist.has_endlist THEN [playlist EXCEPT !.type = "MediaLive"]
                ELSE playlist

FinalizePlaylist ==
    \/ /\ playlist.variants # <<>>
       /\ \E s \in Sorted(playlist.variants) :
             playlist' = [playlist EXCEPT !.type = "Master", !.variants = s]
    \/ /\ playlist.variants = <<>> /\ ~playlist.has_endlist
       /\ playlist' = [playlist EXCEPT !.type = "MediaLive"]
    \/ playlist.variants = <<>> /\ playlist.has_endlist /\ UNCHANGED playlist

\* The end of the content: the playlist is returned.
EndOfContent ==
    /\ state = "lines"
    /\ FinalizePlaylist
    /\ state' = "parsed"
    /\ UNCHANGED <<segment_builder, variant_builder, lines>>

Next == ValidateHeader \/ (\E line \in Lines : ReadLine(line)) \/ EndOfContent

Spec == Init /\ [][Next]_vars

-----------------------------------------------------------------------------
\* The reading of a playlist that its text itself suggests.

UriLines(text) == {i \in DOMAIN text : text[i].tag = "URI"}

\* The tags of a kind since the uri before line i, which describe the uri at line i.
Describing(text, i, tag) ==
    {j \in 1 .. i - 1 : text[j].tag = tag /\ \A k \in j .. i - 1 : k \notin UriLines(text)}

Numbering(text) == {i \in DOMAIN text : text[i].tag = "MEDIA-SEQUENCE"}

\* The first sequence number is given at most once and before any uri.
WellNumbered(text) ==
    /\ Cardinality(Numbering(text)) <= 1
    /\ \A i \in Numbering(text) : \A j \in UriLines(text) : i < j

\* Every uri has one EXTINF or one STREAM-INF of its own.
WellDescribed(text) ==
    \A i \in UriLines(text) :
        Cardinality(Describing(text, i, "EXTINF"))
            + Cardinality(Describing(text, i, "STREAM-INF")) = 1

SegmentLines(text) == {i \in UriLines(text) : Describing(text, i, "EXTINF") # {}}
VariantLines(text) == UriLines(text) \ SegmentLines(text)

\* The number of segments before the one at line i.
SegmentsBefore(text, i) == Cardinality({j \in SegmentLines(text) : j < i})

Given(text, i, tag) == text[CHOOSE j \in Describing(text, i, tag) : TRUE].value

FirstNumber(text) ==
    IF \E i \in Numbering(text) : text[i].value # Malformed
    THEN text[CHOOSE i \in Numbering(text) : TRUE].value ELSE 0

VariantAt(text, i) ==
    [ApplyStreamInfAttributes(Given(text, i, "STREAM-INF"), NoVariant)
        EXCEPT !.uri = text[i].value]

\* The segment that line i of the text describes, its number aside.
SegmentAsWritten(segment, text, i) ==
    /\ segment.uri = text[i].value
    /\ segment.duration = Given(text, i, "EXTINF")
    /\ Describing(text, i, "DISCONTINUITY") # {} => segment.is_discontinuity

SegmentsAsWritten(segments, text) ==
    /\ Len(segments) = Cardinality(SegmentLines(text))
    /\ \A i \in SegmentLines(text) :
          SegmentAsWritten(segments[SegmentsBefore(text, i) + 1], text, i)

\* How often v is one of the variants, and how often the text describes it.
Times(variants, v) == Cardinality({n \in DOMAIN variants : variants[n] = v})
TimesDescribed(text, v) == Cardinality({j \in VariantLines(text) : VariantAt(text, j) = v})

VariantsAsWritten(variants, text) ==
    /\ Len(variants) = Cardinality(VariantLines(text))
    /\ \A i \in VariantLines(text) :
          Times(variants, VariantAt(text, i)) = TimesDescribed(text, VariantAt(text, i))

\* A playlist in which everything is described once comes out as it was written: each segment
\* with the duration in front of it, its number, and a mark after each DISCONTINUITY; each
\* variant with the attributes of its own STREAM-INF and no others.
AsWritten ==
    state = "parsed" /\ WellNumbered(lines) /\ WellDescribed(lines) =>
        /\ SegmentsAsWritten(playlist.segments, lines)
        /\ \A i \in SegmentLines(lines) :
              LET n == SegmentsBefore(lines, i) IN
                playlist.segments[n + 1].sequence_index = (FirstNumber(lines) + n) % SeqMod
        /\ VariantsAsWritten(playlist.variants, lines)

Described(text, i) ==
    Describing(text, i, "EXTINF") \cup Describing(text, i, "STREAM-INF") # {}

\* A playlist is refused at a duration that cannot be read and at a uri that nothing
\* describes, and only there.  (A uri with both tags leaves the EXTINF to the next uri.)
RefusedExactly ==
    LET last == Len(lines)
        bare == last \in UriLines(lines) /\ ~Described(lines, last)
    IN  lines # <<>> =>
          /\ state = "InvalidFormat" <=> lines[last].tag = "EXTINF" /\ lines[last].value = Malformed
          /\ state = "MissingMandatoryTags" => bare
          /\ bare /\ (\A i \in UriLines(lines) \ {last} :
                        Describing(lines, i, "EXTINF") = {} \/ Describing(lines, i, "STREAM-INF") = {})
                => state = "MissingMandatoryTags"

\* What the orchestrator and the AbrManager rely on: sequence numbers that go up by one, and
\* variants from the lowest bandwidth to the highest in a master playlist.
AsPlayerExpects ==
    state = "parsed" =>
        /\ WellNumbered(lines) =>
              \A i \in DOMAIN playlist.segments :
                  playlist.segments[i].sequence_index = (playlist.media_sequence + i - 1) % SeqMod
        /\ \A i, j \in DOMAIN playlist.variants :
              i < j => Bandwidth(playlist.variants[i]) <= Bandwidth(playlist.variants[j])
        /\ playlist.type = "Master" <=> playlist.variants # <<>>
        /\ playlist.type = "MediaLive" => ~playlist.has_endlist

-----------------------------------------------------------------------------
\* What the repository says and this code does not do.

\* "Timestamp jump marker (#EXT-X-DISCONTINUITY)": the marked segments are those with that tag.
JumpsAsWritten ==
    state = "parsed" /\ WellDescribed(lines) =>
        \A i \in SegmentLines(lines) :
            playlist.segments[SegmentsBefore(lines, i) + 1].is_discontinuity
                <=> Describing(lines, i, "DISCONTINUITY") # {}
===============================================================================
