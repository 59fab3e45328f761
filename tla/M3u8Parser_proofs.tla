-------------------------- MODULE M3u8Parser_proofs --------------------------
(***************************************************************************)
(* Theorems about M3u8Parser for every set of lines, every length of a     *)
(* playlist and every width of its numbers.                                *)
(***************************************************************************)
EXTENDS M3u8Parser, WellFoundedInduction, FiniteSetTheorems, TLAPS

-----------------------------------------------------------------------------
\* The inductive invariant.  While lines are read, the builders hold what stands since the
\* last uri, and the playlist holds the uris before it; nothing about a tag that a later
\* line repeats is promised, which is what WellDescribed and WellNumbered exclude.

Segments == [uri : Uris, duration : Nat, sequence_index : 0 .. SeqMod - 1,
             is_discontinuity : BOOLEAN]

Attributes == [key : Keys, value : Nat \cup {Malformed}]

Variants == [uri : Uris \cup {NoUri}, attributes : [Keys -> Nat]]

PlaylistOK ==
    playlist \in [type : {"MediaVOD", "MediaLive", "Master"}, target_duration : Nat,
                  media_sequence : Nat, has_endlist : BOOLEAN,
                  segments : Seq(Segments), variants : Seq(Variants)]

BuildersOK ==
    /\ segment_builder \in [active : BOOLEAN, duration : Nat, discontinuity : BOOLEAN]
    /\ variant_builder \in [active : BOOLEAN, variant : Variants]

States == {"header", "lines", "parsed", "EmptyContent", "InvalidHeader",
           "InvalidFormat", "MissingMandatoryTags"}

TypeOK ==
    /\ lines \in Seq(Lines)
    /\ state \in States
    /\ PlaylistOK
    /\ BuildersOK

\* The tags of a kind since the last uri, which will describe the next one.
Pending(text, tag) == Describing(text, Len(text) + 1, tag)

\* No uri so far had both an EXTINF and a STREAM-INF; such a uri takes the second and leaves
\* the builder of the segment open.
NoneHasBoth(text) ==
    \A i \in UriLines(text) : Describing(text, i, "EXTINF") = {}
                              \/ Describing(text, i, "STREAM-INF") = {}

\* What the builder of the segment owes to the tags since the last uri.
SegmentPending ==
    /\ Pending(lines, "EXTINF") # {} => segment_builder.active
    /\ segment_builder.active /\ NoneHasBoth(lines) => Pending(lines, "EXTINF") # {}
    /\ \A j \in Pending(lines, "EXTINF") :
          Pending(lines, "EXTINF") = {j} => segment_builder.duration = lines[j].value
    /\ Pending(lines, "DISCONTINUITY") # {} => segment_builder.discontinuity

\* The same for the builder of the variant, which starts from nothing after each uri.
VariantPending ==
    /\ variant_builder.active <=> Pending(lines, "STREAM-INF") # {}
    /\ Pending(lines, "STREAM-INF") = {} => variant_builder.variant = NoVariant
    /\ \A j \in Pending(lines, "STREAM-INF") :
          Pending(lines, "STREAM-INF") = {j} =>
            variant_builder.variant = ApplyStreamInfAttributes(lines[j].value, NoVariant)

NumbersFollow ==
    \A i \in DOMAIN playlist.segments :
        playlist.segments[i].sequence_index = (playlist.media_sequence + i - 1) % SeqMod

\* The numbers follow the one that the text begins with.
Numbered ==
    /\ UriLines(lines) = {} => playlist.segments = <<>>
    /\ WellNumbered(lines) => playlist.media_sequence = FirstNumber(lines) /\ NumbersFollow

\* Every variant as often as the text describes it.
VariantsCounted(variants, text) ==
    /\ Len(variants) = Cardinality(VariantLines(text))
    /\ \A v : Times(variants, v) = TimesDescribed(text, v)

\* The uris so far are in the playlist as the text has them.
Written ==
    WellDescribed(lines) => /\ SegmentsAsWritten(playlist.segments, lines)
                            /\ VariantsCounted(playlist.variants, lines)

ReadSoFar ==
    state \in {"header", "lines"} =>
        /\ playlist.type = "MediaVOD"
        /\ SegmentPending
        /\ VariantPending
        /\ Numbered
        /\ Written

NothingRead == state \in {"header", "EmptyContent", "InvalidHeader"} => lines = <<>>

IInv ==
    /\ TypeOK
    /\ NothingRead
    /\ ReadSoFar
    /\ AsWritten
    /\ RefusedExactly
    /\ AsPlayerExpects

-----------------------------------------------------------------------------
\* Texts: what one more line changes in the way a text is read.

\* u is t with one more line.
OneMore(t, u) ==
    /\ Len(u) = Len(t) + 1
    /\ \A i \in 1 .. Len(t) : u[i] = t[i]

\* A set of line numbers is finite.
LEMMA FiniteBelow ==
    ASSUME NEW n \in Nat, NEW S, S \subseteq 1 .. n
    PROVE  IsFiniteSet(S)
<1>1. IsFiniteSet(1 .. n) /\ S \in SUBSET (1 .. n)
  BY FS_Interval
<1> QED
  BY <1>1, FS_Subset

\* The uris and the sequence tags of a text are among its lines, and finitely many.
LEMMA UriLinesCorrect ==
    ASSUME NEW t \in Seq(Lines)
    PROVE  /\ UriLines(t) \subseteq 1 .. Len(t)
           /\ Numbering(t) \subseteq 1 .. Len(t)
           /\ IsFiniteSet(UriLines(t)) /\ IsFiniteSet(Numbering(t))
<1>1. UriLines(t) \subseteq 1 .. Len(t) /\ Numbering(t) \subseteq 1 .. Len(t)
  BY DEF UriLines, Numbering
<1>2. IsFiniteSet(UriLines(t)) /\ IsFiniteSet(Numbering(t))
  BY <1>1, FiniteBelow
<1> QED
  BY <1>1, <1>2

\* A further line adds itself to the lines with a uri if it is one, and else nothing.
LEMMA UriLinesNext ==
    ASSUME NEW t \in Seq(Lines), NEW u \in Seq(Lines), OneMore(t, u)
    PROVE  /\ u[Len(u)].tag = "URI" => UriLines(u) = UriLines(t) \cup {Len(u)}
           /\ u[Len(u)].tag # "URI" => UriLines(u) = UriLines(t)
<1>1. DOMAIN u = DOMAIN t \cup {Len(u)} /\ DOMAIN t = 1 .. Len(t) /\ Len(t) \in Nat
  BY DEF OneMore
<1> QED
  BY <1>1 DEF UriLines, OneMore

\* What describes a line that t has, or the one after, is the same in u.
LEMMA DescribingKept ==
    ASSUME NEW t \in Seq(Lines), NEW u \in Seq(Lines), OneMore(t, u),
           NEW i \in 1 .. Len(t) + 1, NEW tag
    PROVE  Describing(u, i, tag) = Describing(t, i, tag)
<1>1. \A k \in 1 .. Len(t) : u[k] = t[k] /\ (k \in UriLines(u) <=> k \in UriLines(t))
  BY DEF OneMore, UriLines
<1> QED
  BY <1>1 DEF Describing

\* A tag that is read is pending, and a uri leaves none.
LEMMA PendingNext ==
    ASSUME NEW t \in Seq(Lines), NEW u \in Seq(Lines), OneMore(t, u), NEW tag
    PROVE  /\ u[Len(u)].tag = "URI" => Pending(u, tag) = {}
           /\ u[Len(u)].tag # "URI" /\ u[Len(u)].tag # tag => Pending(u, tag) = Pending(t, tag)
           /\ u[Len(u)].tag # "URI" /\ u[Len(u)].tag = tag
                => Pending(u, tag) = Pending(t, tag) \cup {Len(u)}
<1>1. Len(t) \in Nat /\ Len(u) = Len(t) + 1
  BY DEF OneMore
<1>2. \A k \in 1 .. Len(t) : u[k] = t[k]
  BY DEF OneMore
<1>3. CASE u[Len(u)].tag = "URI"
  <2>1. Len(u) \in UriLines(u)
    BY <1>1, <1>3 DEF UriLines
  <2> QED
    BY <1>1, <1>3, <2>1 DEF Pending, Describing
<1>4. CASE u[Len(u)].tag # "URI"
  <2>1. UriLines(u) = UriLines(t) /\ Len(u) \notin UriLines(u)
    BY <1>4, UriLinesNext DEF UriLines
  <2>2. \A j \in 1 .. Len(t) : j \in Pending(u, tag) <=> j \in Pending(t, tag)
    BY <1>1, <1>2, <2>1 DEF Pending, Describing
  <2>3. Len(u) \in Pending(u, tag) <=> u[Len(u)].tag = tag
    BY <1>1, <2>1 DEF Pending, Describing
  <2>4. Pending(u, tag) \subseteq 1 .. Len(t) + 1 /\ Pending(t, tag) \subseteq 1 .. Len(t)
    BY <1>1 DEF Pending, Describing
  <2>5. \A j : j \in Pending(u, tag)
                <=> j \in Pending(t, tag) \/ (j = Len(u) /\ u[Len(u)].tag = tag)
    BY <1>1, <2>2, <2>3, <2>4
  <2> HIDE DEF Pending
  <2> QED
    BY <1>4, <2>5, Zenon
<1> QED
  BY <1>3, <1>4

\* What describes a line stands before it, so it is finite.
LEMMA DescribingFinite ==
    ASSUME NEW t \in Seq(Lines), NEW i \in Nat, NEW tag
    PROVE  /\ Describing(t, i, tag) \subseteq 1 .. i - 1
           /\ IsFiniteSet(Describing(t, i, tag))
           /\ Cardinality(Describing(t, i, tag)) \in Nat
<1>1. Describing(t, i, tag) \subseteq 1 .. i - 1
  BY DEF Describing
<1>2. IsFiniteSet(1 .. i - 1)
  BY FS_Interval
<1>3. IsFiniteSet(Describing(t, i, tag))
  BY <1>1, <1>2, FS_Subset
<1> QED
  BY <1>1, <1>3, FS_CardinalityType

-----------------------------------------------------------------------------
\* Texts that are well described: a uri has one tag of its own.

\* A text whose uris are all clearly described was so before its last line.
LEMMA WellDescribedKept ==
    ASSUME NEW t \in Seq(Lines), NEW u \in Seq(Lines), OneMore(t, u), WellDescribed(u)
    PROVE  WellDescribed(t)
<1>1. UriLines(t) \subseteq UriLines(u) /\ UriLines(t) \subseteq 1 .. Len(t)
  BY UriLinesNext, UriLinesCorrect
<1>2. ASSUME NEW i \in UriLines(t), NEW tag
      PROVE  Describing(u, i, tag) = Describing(t, i, tag)
  <2>1. i \in 1 .. Len(t) + 1
    BY <1>1
  <2> QED
    BY <2>1, DescribingKept
<1> QED
  BY <1>1, <1>2 DEF WellDescribed

\* The lines of segments and those of variants, with one more line.
LEMMA KindsNext ==
    ASSUME NEW t \in Seq(Lines), NEW u \in Seq(Lines), OneMore(t, u)
    PROVE  /\ u[Len(u)].tag # "URI" =>
                 SegmentLines(u) = SegmentLines(t) /\ VariantLines(u) = VariantLines(t)
           /\ u[Len(u)].tag = "URI" /\ Pending(t, "EXTINF") # {} =>
                 /\ SegmentLines(u) = SegmentLines(t) \cup {Len(u)}
                 /\ VariantLines(u) = VariantLines(t)
           /\ u[Len(u)].tag = "URI" /\ Pending(t, "EXTINF") = {} =>
                 /\ SegmentLines(u) = SegmentLines(t)
                 /\ VariantLines(u) = VariantLines(t) \cup {Len(u)}
<1>1. Len(u) = Len(t) + 1 /\ Len(t) \in Nat /\ UriLines(t) \subseteq 1 .. Len(t)
  BY UriLinesCorrect DEF OneMore
<1>2. Len(u) \notin UriLines(t) /\ Len(u) \notin SegmentLines(t)
  BY <1>1 DEF SegmentLines
<1>3. \A i \in UriLines(t) : i \in 1 .. Len(t) + 1
  BY <1>1
<1>4. \A i \in UriLines(t) : Describing(u, i, "EXTINF") = Describing(t, i, "EXTINF")
  BY <1>3, DescribingKept
<1>5. Describing(u, Len(u), "EXTINF") = Pending(t, "EXTINF")
  BY <1>1, DescribingKept DEF Pending
<1>6. CASE u[Len(u)].tag # "URI"
  <2>1. UriLines(u) = UriLines(t)
    BY <1>6, UriLinesNext
  <2>2. SegmentLines(u) = SegmentLines(t)
    BY <1>4, <2>1 DEF SegmentLines
  <2> QED
    BY <1>6, <2>1, <2>2 DEF VariantLines
<1>7. CASE u[Len(u)].tag = "URI"
  <2>1. UriLines(u) = UriLines(t) \cup {Len(u)}
    BY <1>7, UriLinesNext
  <2>2. CASE Pending(t, "EXTINF") # {}
    <3>1. SegmentLines(u) = SegmentLines(t) \cup {Len(u)}
      BY <1>4, <1>5, <2>1, <2>2 DEF SegmentLines
    <3> QED
      BY <1>2, <1>7, <2>1, <2>2, <3>1 DEF VariantLines
  <2>3. CASE Pending(t, "EXTINF") = {}
    <3>1. SegmentLines(u) = SegmentLines(t)
      BY <1>4, <1>5, <2>1, <2>3 DEF SegmentLines
    <3> QED
      BY <1>2, <1>7, <2>1, <2>3, <3>1 DEF VariantLines
  <2> QED
    BY <2>2, <2>3
<1> QED
  BY <1>6, <1>7

\* The lines with the uris of segments and of variants can be counted.
LEMMA KindsCorrect ==
    ASSUME NEW t \in Seq(Lines)
    PROVE  /\ SegmentLines(t) \subseteq 1 .. Len(t) /\ VariantLines(t) \subseteq 1 .. Len(t)
           /\ IsFiniteSet(SegmentLines(t)) /\ IsFiniteSet(VariantLines(t))
           /\ Cardinality(SegmentLines(t)) \in Nat /\ Cardinality(VariantLines(t)) \in Nat
<1>1. SegmentLines(t) \in SUBSET UriLines(t) /\ VariantLines(t) \in SUBSET UriLines(t)
  BY DEF SegmentLines, VariantLines
<1>2. UriLines(t) \subseteq 1 .. Len(t) /\ IsFiniteSet(UriLines(t))
  BY UriLinesCorrect
<1>3. IsFiniteSet(SegmentLines(t)) /\ IsFiniteSet(VariantLines(t))
  BY <1>1, <1>2, FS_Subset
<1>4. Cardinality(SegmentLines(t)) \in Nat /\ Cardinality(VariantLines(t)) \in Nat
  BY <1>3, FS_CardinalityType
<1> QED
  BY <1>1, <1>2, <1>3, <1>4

\* Two finite sets of one element together.
LEMMA OneOfTwo ==
    ASSUME NEW A, NEW B, IsFiniteSet(A), IsFiniteSet(B), Cardinality(A) + Cardinality(B) = 1
    PROVE  (A = {} /\ \E j : B = {j}) \/ (B = {} /\ \E j : A = {j})
<1>1. Cardinality(A) \in Nat /\ Cardinality(B) \in Nat
  BY FS_CardinalityType
<1>2. CASE Cardinality(A) = 0
  <2>1. Cardinality(B) = 1
    BY <1>1, <1>2
  <2> QED
    BY <1>2, <2>1, FS_EmptySet, FS_Singleton
<1>3. CASE Cardinality(A) = 1
  <2>1. Cardinality(B) = 0
    BY <1>1, <1>3
  <2> QED
    BY <1>3, <2>1, FS_EmptySet, FS_Singleton
<1>4. Cardinality(A) = 0 \/ Cardinality(A) = 1
  BY <1>1
<1> QED
  BY <1>2, <1>3, <1>4, Zenon

\* What stands in front of a uri: a segment has one EXTINF, a variant one STREAM-INF.
LEMMA OwnTag ==
    ASSUME NEW t \in Seq(Lines), NEW i \in UriLines(t), WellDescribed(t)
    PROVE  \/ /\ Describing(t, i, "EXTINF") = {}
              /\ \E j : Describing(t, i, "STREAM-INF") = {j}
           \/ /\ Describing(t, i, "STREAM-INF") = {}
              /\ \E j : Describing(t, i, "EXTINF") = {j}
<1>1. i \in Nat
  BY UriLinesCorrect
<1>2. /\ IsFiniteSet(Describing(t, i, "EXTINF"))
      /\ IsFiniteSet(Describing(t, i, "STREAM-INF"))
  BY <1>1, DescribingFinite
<1>3. Cardinality(Describing(t, i, "EXTINF")) + Cardinality(Describing(t, i, "STREAM-INF")) = 1
  BY DEF WellDescribed
<1> QED
  BY <1>2, <1>3, OneOfTwo

\* If one line describes a uri, its value is the one given.
LEMMA GivenOne ==
    ASSUME NEW t, NEW i, NEW tag, NEW j, Describing(t, i, tag) = {j}
    PROVE  Given(t, i, tag) = t[j].value
  BY DEF Given

\* What is given for a line stays.
LEMMA GivenKept ==
    ASSUME NEW t \in Seq(Lines), NEW u \in Seq(Lines), OneMore(t, u), NEW i \in 1 .. Len(t),
           NEW tag, Describing(t, i, tag) # {}
    PROVE  Given(u, i, tag) = Given(t, i, tag)
<1>1. i \in 1 .. Len(t) + 1 /\ i \in Nat
  OBVIOUS
<1>2. Describing(u, i, tag) = Describing(t, i, tag)
  BY <1>1, DescribingKept
<1> DEFINE j == CHOOSE j \in Describing(t, i, tag) : TRUE
<1>3. j \in Describing(t, i, tag)
  OBVIOUS
<1>4. j \in 1 .. Len(t)
  BY <1>1, <1>3, DescribingFinite
<1> QED
  BY <1>2, <1>4 DEF Given, OneMore

\* What the text says of a variant is not changed by a further line.
LEMMA VariantKept ==
    ASSUME NEW t \in Seq(Lines), NEW u \in Seq(Lines), OneMore(t, u), WellDescribed(t),
           NEW i \in VariantLines(t)
    PROVE  VariantAt(u, i) = VariantAt(t, i)
<1>1. i \in 1 .. Len(t) /\ i \in UriLines(t) /\ Describing(t, i, "EXTINF") = {}
  BY KindsCorrect DEF VariantLines, SegmentLines
<1>2. Describing(t, i, "STREAM-INF") # {}
  BY <1>1, OwnTag
<1>3. Given(u, i, "STREAM-INF") = Given(t, i, "STREAM-INF") /\ u[i] = t[i]
  BY <1>1, <1>2, GivenKept DEF OneMore
<1> QED
  BY <1>3 DEF VariantAt

\* The place of a segment among the segments.
LEMMA BeforeCorrect ==
    ASSUME NEW t \in Seq(Lines), NEW i \in SegmentLines(t)
    PROVE  SegmentsBefore(t, i) \in Nat /\ SegmentsBefore(t, i) < Cardinality(SegmentLines(t))
<1> DEFINE S == SegmentLines(t)
           B == {j \in S : j < i}
<1>1. IsFiniteSet(S) /\ S \subseteq 1 .. Len(t) /\ Cardinality(S) \in Nat
  BY KindsCorrect
<1>2. B \in SUBSET S /\ i \in S /\ i \notin B
  BY <1>1
<1>3. /\ IsFiniteSet(B) /\ Cardinality(B) <= Cardinality(S)
      /\ Cardinality(S) = Cardinality(B) => S = B
  <2> HIDE DEF B, S
  <2> QED
    BY <1>1, <1>2, FS_Subset
<1>4. Cardinality(B) \in Nat /\ Cardinality(B) # Cardinality(S)
  <2> HIDE DEF B, S
  <2> QED
    BY <1>2, <1>3, FS_CardinalityType
<1> QED
  BY <1>1, <1>3, <1>4 DEF SegmentsBefore

\* Nor is the number of segments before a line; before the last one are all the others.
LEMMA BeforeNext ==
    ASSUME NEW t \in Seq(Lines), NEW u \in Seq(Lines), OneMore(t, u)
    PROVE  /\ \A i \in 1 .. Len(t) : SegmentsBefore(u, i) = SegmentsBefore(t, i)
           /\ SegmentsBefore(u, Len(u)) = Cardinality(SegmentLines(t))
<1>1. Len(u) = Len(t) + 1 /\ Len(t) \in Nat /\ SegmentLines(t) \subseteq 1 .. Len(t)
  BY KindsCorrect DEF OneMore
<1>2. SegmentLines(u) = SegmentLines(t) \/ SegmentLines(u) = SegmentLines(t) \cup {Len(u)}
  BY KindsNext
<1>3. ASSUME NEW i \in 1 .. Len(t)
      PROVE  {j \in SegmentLines(u) : j < i} = {j \in SegmentLines(t) : j < i}
  BY <1>1, <1>2
<1>4. {j \in SegmentLines(u) : j < Len(u)} = SegmentLines(t)
  BY <1>1, <1>2
<1> QED
  BY <1>3, <1>4 DEF SegmentsBefore

-----------------------------------------------------------------------------
\* The first sequence number.

\* A further line adds itself to the sequence tags if it is one, and else nothing.
LEMMA NumberingNext ==
    ASSUME NEW t \in Seq(Lines), NEW u \in Seq(Lines), OneMore(t, u)
    PROVE  /\ u[Len(u)].tag = "MEDIA-SEQUENCE" => Numbering(u) = Numbering(t) \cup {Len(u)}
           /\ u[Len(u)].tag # "MEDIA-SEQUENCE" => Numbering(u) = Numbering(t)
<1>1. DOMAIN u = DOMAIN t \cup {Len(u)} /\ DOMAIN t = 1 .. Len(t) /\ Len(t) \in Nat
  BY DEF OneMore
<1> QED
  BY <1>1 DEF Numbering, OneMore

\* A text that begins with its number, if it has one, did so before its last line, which can
\* be the number only when there was none, nor a uri.
LEMMA WellNumberedKept ==
    ASSUME NEW t \in Seq(Lines), NEW u \in Seq(Lines), OneMore(t, u), WellNumbered(u)
    PROVE  /\ WellNumbered(t)
           /\ u[Len(u)].tag = "MEDIA-SEQUENCE" => Numbering(t) = {} /\ UriLines(t) = {}
<1>1. /\ UriLines(t) \subseteq UriLines(u) /\ Numbering(t) \subseteq Numbering(u)
      /\ IsFiniteSet(Numbering(t)) /\ IsFiniteSet(Numbering(u))
  BY UriLinesNext, NumberingNext, UriLinesCorrect
<1>2. /\ Cardinality(Numbering(u)) <= 1
      /\ \A i \in Numbering(u) : \A j \in UriLines(u) : i < j
  BY DEF WellNumbered
<1>3. Cardinality(Numbering(t)) \in Nat /\ Cardinality(Numbering(u)) \in Nat
  BY <1>1, FS_CardinalityType
<1>4. Cardinality(Numbering(t)) <= Cardinality(Numbering(u))
  BY <1>1, FS_Subset
<1>5. WellNumbered(t)
  BY <1>1, <1>2, <1>3, <1>4 DEF WellNumbered
<1>6. ASSUME u[Len(u)].tag = "MEDIA-SEQUENCE"
      PROVE  Numbering(t) = {} /\ UriLines(t) = {}
  <2>1. Numbering(u) = Numbering(t) \cup {Len(u)}
    BY <1>6, NumberingNext
  <2>2. /\ Len(u) = Len(t) + 1 /\ Len(t) \in Nat
        /\ Numbering(t) \subseteq 1 .. Len(t) /\ UriLines(t) \subseteq 1 .. Len(t)
    BY UriLinesCorrect DEF OneMore
  <2>3. Cardinality(Numbering(t) \cup {Len(u)}) = Cardinality(Numbering(t)) + 1
    <3>1. Len(u) \notin Numbering(t)
      BY <2>2
    <3> QED
      BY <1>1, <3>1, FS_AddElement
  <2>4. Cardinality(Numbering(t)) = 0
    BY <1>2, <1>3, <2>1, <2>3
  <2>5. Numbering(t) = {}
    BY <1>1, <2>4, FS_EmptySet
  <2>6. \A j \in UriLines(t) : Len(u) < j
    BY <1>1, <1>2, <2>1
  <2>7. UriLines(t) = {}
    BY <2>2, <2>6
  <2> QED
    BY <2>5, <2>7
<1> QED
  BY <1>5, <1>6

\* The number of the first segment changes with a sequence tag only, and then from 0.
LEMMA FirstNumberNext ==
    ASSUME NEW t \in Seq(Lines), NEW u \in Seq(Lines), OneMore(t, u), WellNumbered(u)
    PROVE  /\ u[Len(u)].tag # "MEDIA-SEQUENCE" => FirstNumber(u) = FirstNumber(t)
           /\ u[Len(u)].tag = "MEDIA-SEQUENCE" =>
                 /\ FirstNumber(t) = 0
                 /\ u[Len(u)].value # Malformed => FirstNumber(u) = u[Len(u)].value
                 /\ u[Len(u)].value = Malformed => FirstNumber(u) = 0
<1>1. CASE u[Len(u)].tag # "MEDIA-SEQUENCE"
  <2>1. Numbering(u) = Numbering(t) /\ Numbering(t) \subseteq 1 .. Len(t)
    BY <1>1, NumberingNext, UriLinesCorrect
  <2>2. \A i \in Numbering(t) : u[i] = t[i]
    BY <2>1 DEF OneMore
  <2>3. CASE Numbering(t) = {}
    BY <1>1, <2>1, <2>3 DEF FirstNumber
  <2>4. CASE Numbering(t) # {}
    <3> DEFINE i == CHOOSE i \in Numbering(t) : TRUE
    <3>1. i \in Numbering(t)
      BY <2>4
    <3>2. u[i] = t[i]
      BY <2>2, <3>1
    <3> QED
      BY <1>1, <2>1, <2>2, <3>2 DEF FirstNumber
  <2> QED
    BY <2>3, <2>4
<1>2. CASE u[Len(u)].tag = "MEDIA-SEQUENCE"
  <2>1. Numbering(t) = {}
    BY <1>2, WellNumberedKept
  <2>2. Numbering(u) = {Len(u)}
    BY <1>2, <2>1, NumberingNext
  <2>3. FirstNumber(t) = 0
    BY <2>1 DEF FirstNumber
  <2>4. (CHOOSE i \in Numbering(u) : TRUE) = Len(u)
    BY <2>2
  <2> QED
    BY <1>2, <2>2, <2>3, <2>4 DEF FirstNumber
<1> QED
  BY <1>1, <1>2

-----------------------------------------------------------------------------
\* Attributes and variants.

\* Among line numbers there is a greatest, such as that of the last uri.
LEMMA GreatestExists ==
    ASSUME NEW n \in Nat, NEW S, S \subseteq 1 .. n, S # {}
    PROVE  \E i \in S : \A j \in S : j <= i
<1> DEFINE U == {k \in Nat : \A j \in S : j <= k}
           R == OpToRel(<, Nat)
<1>1. U \in SUBSET Nat /\ n \in U
  OBVIOUS
<1>2. PICK k \in U : \A u \in U : <<u, k>> \notin R
  <2> HIDE DEF U, R
  <2> QED
    BY <1>1, NatLessThanWellFounded, WFMin DEF R
<1>3. \A u \in U : k <= u
  <2>1. \A x, y \in Nat : <<x, y>> \notin R => y <= x
    BY DEF OpToRel
  <2> QED
    BY <1>2, <2>1
<1>4. k \in S
  <2>1. SUFFICES ASSUME k \notin S PROVE FALSE
    OBVIOUS
  <2> HIDE DEF R
  <2>2. ASSUME NEW j \in S PROVE j <= k - 1 /\ k - 1 \in Nat
    <3>1. j \in Nat /\ j >= 1 /\ j <= k /\ j # k /\ k \in Nat
      BY <2>1
    <3> QED
      BY <3>1
  <2>3. k - 1 \in U
    BY <2>2
  <2> QED
    BY <1>3, <2>3
<1> QED
  BY <1>4

\* The last readable attribute of a key is a number, as the default is (parseBandwidth).
LEMMA AttributeCorrect ==
    ASSUME NEW attrs \in Seq(Attributes), NEW key, NEW default \in Nat
    PROVE  Attribute(attrs, key, default) \in Nat
<1> DEFINE readable == {i \in DOMAIN attrs : attrs[i].key = key /\ attrs[i].value # Malformed}
<1>1. CASE readable = {}
  BY <1>1 DEF Attribute
<1>2. CASE readable # {}
  <2>1. readable \subseteq 1 .. Len(attrs) /\ Len(attrs) \in Nat
    OBVIOUS
  <2>2. ASSUME NEW i \in readable PROVE attrs[i].value \in Nat
    <3>1. attrs[i] \in Attributes /\ attrs[i].value # Malformed
      OBVIOUS
    <3> QED
      BY <3>1 DEF Attributes
  <2> DEFINE last == CHOOSE i \in readable : \A j \in readable : j <= i
  <2>3. last \in readable
    <3> HIDE DEF readable
    <3>1. \E i \in readable : \A j \in readable : j <= i
      BY <1>2, <2>1, GreatestExists
    <3> QED
      BY <3>1
  <2>4. Attribute(attrs, key, default) = attrs[last].value
    BY <1>2 DEF Attribute
  <2> QED
    BY <2>2, <2>3, <2>4
<1> QED
  BY <1>1, <1>2

\* Attributes applied to a variant give a variant (applyStreamInfAttributes).
LEMMA AppliedCorrect ==
    ASSUME NEW attrs \in Seq(Attributes), NEW variant \in Variants
    PROVE  ApplyStreamInfAttributes(attrs, variant) \in Variants
<1>1. variant.attributes \in [Keys -> Nat]
  BY DEF Variants
<1>2. [key \in Keys |-> Attribute(attrs, key, variant.attributes[key])] \in [Keys -> Nat]
  BY <1>1, AttributeCorrect
<1> QED
  BY <1>2 DEF ApplyStreamInfAttributes, Variants

\* The variant of a fresh builder is one, with an empty uri.
LEMMA NoVariantCorrect == NoVariant \in Variants
  BY DEF NoVariant, Variants

\* Appending a variant adds one to how often it occurs.
LEMMA TimesNext ==
    ASSUME NEW s \in Seq(Variants), NEW x \in Variants, NEW v
    PROVE  Times(Append(s, x), v) = IF x = v THEN Times(s, v) + 1 ELSE Times(s, v)
<1> DEFINE r == Append(s, x)
           A == {n \in DOMAIN s : s[n] = v}
           B == {n \in DOMAIN r : r[n] = v}
<1>1. /\ DOMAIN s = 1 .. Len(s) /\ Len(s) \in Nat
      /\ DOMAIN r = 1 .. Len(s) + 1 /\ r[Len(s) + 1] = x
      /\ \A n \in 1 .. Len(s) : r[n] = s[n]
  OBVIOUS
<1>2. A \subseteq 1 .. Len(s) /\ Len(s) + 1 \notin A
  BY <1>1
<1>3. IsFiniteSet(A)
  <2> HIDE DEF A
  <2> QED
    BY <1>1, <1>2, FiniteBelow
<1>4. B = IF x = v THEN A \cup {Len(s) + 1} ELSE A
  <2> HIDE DEF r
  <2> QED
    BY <1>1
<1> HIDE DEF A, B
<1>5. Cardinality(B) = IF x = v THEN Cardinality(A) + 1 ELSE Cardinality(A)
  BY <1>2, <1>3, <1>4, FS_AddElement
<1> QED
  BY <1>5 DEF Times, A, B

\* A further line adds one for the variant it describes, if it is the uri of one.
LEMMA TimesDescribedNext ==
    ASSUME NEW t \in Seq(Lines), NEW u \in Seq(Lines), OneMore(t, u), WellDescribed(t), NEW v
    PROVE  /\ VariantLines(u) = VariantLines(t) => TimesDescribed(u, v) = TimesDescribed(t, v)
           /\ VariantLines(u) = VariantLines(t) \cup {Len(u)} =>
                 TimesDescribed(u, v) = IF VariantAt(u, Len(u)) = v THEN TimesDescribed(t, v) + 1
                                        ELSE TimesDescribed(t, v)
<1> DEFINE A == {j \in VariantLines(t) : VariantAt(t, j) = v}
           B == {j \in VariantLines(u) : VariantAt(u, j) = v}
<1>1. \A j \in VariantLines(t) : VariantAt(u, j) = VariantAt(t, j)
  BY VariantKept
<1>2. Len(u) \notin A /\ IsFiniteSet(A)
  <2>1. VariantLines(t) \subseteq 1 .. Len(t) /\ IsFiniteSet(VariantLines(t))
    BY KindsCorrect
  <2>2. A \in SUBSET VariantLines(t)
    OBVIOUS
  <2>3. IsFiniteSet(A)
    BY <2>1, <2>2, FS_Subset
  <2> QED
    BY <2>1, <2>2, <2>3 DEF OneMore
<1>3. CASE VariantLines(u) = VariantLines(t)
  <2>1. B = A /\ VariantLines(u) # VariantLines(t) \cup {Len(u)}
    <3>1. Len(u) \notin VariantLines(t)
      BY KindsCorrect DEF OneMore
    <3> QED
      BY <1>1, <1>3, <3>1
  <2> QED
    BY <1>3, <2>1 DEF TimesDescribed
<1>4. CASE VariantLines(u) = VariantLines(t) \cup {Len(u)} /\ VariantLines(u) # VariantLines(t)
  <2>1. B = IF VariantAt(u, Len(u)) = v THEN A \cup {Len(u)} ELSE A
    BY <1>1, <1>4
  <2> HIDE DEF A, B
  <2>2. Cardinality(B) = IF VariantAt(u, Len(u)) = v THEN Cardinality(A) + 1 ELSE Cardinality(A)
    BY <1>2, <2>1, FS_AddElement
  <2> QED
    BY <1>4, <2>2 DEF TimesDescribed, A, B
<1> QED
  BY <1>3, <1>4

\* What std::sort leaves is a rearrangement of what it was given.
LEMMA SortedCorrect ==
    ASSUME NEW variants \in Seq(Variants), NEW s \in Sorted(variants)
    PROVE  /\ s \in Seq(Variants) /\ Len(s) = Len(variants)
           /\ \A v : Times(s, v) = Times(variants, v)
           /\ \A i, j \in DOMAIN s : i < j => Bandwidth(s[i]) <= Bandwidth(s[j])
<1> DEFINE D == DOMAIN variants
<1>1. PICK p \in Bijection(D, D) : s = [i \in D |-> variants[p[i]]]
  BY DEF Sorted
<1>2. /\ p \in [D -> D]
      /\ \A a, b \in D : p[a] = p[b] => a = b
      /\ \A b \in D : \E a \in D : p[a] = b
  BY <1>1 DEF Bijection, Injection, Surjection, IsInjective
<1>3. D = 1 .. Len(variants) /\ Len(variants) \in Nat
  OBVIOUS
<1>4. s \in [D -> Variants]
  BY <1>1, <1>2
<1>5. s \in Seq(Variants) /\ Len(s) = Len(variants) /\ DOMAIN s = D
  BY <1>3, <1>4
<1>6. ASSUME NEW v
      PROVE  Times(s, v) = Times(variants, v)
  <2> DEFINE S == {n \in D : s[n] = v}
             T == {n \in D : variants[n] = v}
             f == [n \in S |-> p[n]]
  <2>1. f \in [S -> T]
    BY <1>1, <1>2
  <2>2. \A a, b \in S : f[a] = f[b] => a = b
    BY <1>2
  <2>3. \A b \in T : \E a \in S : f[a] = b
    <3>1. SUFFICES ASSUME NEW b \in T PROVE \E a \in S : f[a] = b
      OBVIOUS
    <3>2. PICK a \in D : p[a] = b
      BY <1>2
    <3>3. a \in S
      BY <1>1, <3>2
    <3> QED
      BY <3>2, <3>3
  <2>4. IsFiniteSet(S)
    <3>1. S \subseteq 1 .. Len(variants)
      OBVIOUS
    <3> QED
      BY <1>3, <3>1, FiniteBelow
  <2>5. f \in Bijection(S, T)
    <3> HIDE DEF S, T
    <3> QED
      BY <2>1, <2>2, <2>3 DEF Bijection, Injection, Surjection, IsInjective
  <2>6. Cardinality(T) = Cardinality(S)
    <3> HIDE DEF S, T, f
    <3> QED
      BY <2>4, <2>5, FS_Bijection DEF ExistsBijection
  <2> QED
    BY <1>5, <2>6 DEF Times
<1>7. \A i, j \in DOMAIN s : i < j => Bandwidth(s[i]) <= Bandwidth(s[j])
  BY DEF Sorted
<1> QED
  BY <1>5, <1>6, <1>7

-----------------------------------------------------------------------------
\* Lines and types.

\* Before the header is read there is no line, and both builders are empty.
LEMMA InitIInv == Init => IInv
<1> SUFFICES ASSUME Init PROVE IInv
  OBVIOUS
<1>1. lines = <<>> /\ lines \in Seq(Lines) /\ Len(lines) = 0
  BY DEF Init
<1>2. UriLines(lines) = {} /\ Numbering(lines) = {}
  BY <1>1 DEF UriLines, Numbering
<1>3. SegmentLines(lines) = {} /\ VariantLines(lines) = {}
  BY <1>2 DEF SegmentLines, VariantLines
<1>4. \A tag : Pending(lines, tag) = {}
  BY <1>1 DEF Pending, Describing
<1>5. TypeOK
  BY <1>1, NoVariantCorrect, NumbersAssumption DEF Init, TypeOK, States, PlaylistOK, BuildersOK
<1>6. SegmentPending /\ VariantPending
  BY <1>4 DEF Init, SegmentPending, VariantPending
<1>7. Numbered
  BY <1>2 DEF Init, Numbered, NumbersFollow, FirstNumber
<1>8. Written
  <2>1. \A v : {n \in DOMAIN playlist.variants : playlist.variants[n] = v} = {}
    BY DEF Init
  <2>2. \A v : {j \in VariantLines(lines) : VariantAt(lines, j) = v} = {}
    BY <1>3
  <2>3. \A v : Times(playlist.variants, v) = TimesDescribed(lines, v)
    BY <2>1, <2>2 DEF Times, TimesDescribed
  <2>4. Len(playlist.segments) = 0 /\ Len(playlist.variants) = 0
    BY DEF Init
  <2> QED
    BY <1>3, <2>3, <2>4, FS_EmptySet DEF Written, SegmentsAsWritten, VariantsCounted
<1>9. state = "header" /\ playlist.type = "MediaVOD"
  BY DEF Init
<1> QED
  BY <1>1, <1>5, <1>6, <1>7, <1>8, <1>9
     DEF IInv, NothingRead, ReadSoFar, AsWritten, RefusedExactly, AsPlayerExpects

\* What the assumption says of a line, one kind at a time.
LEMMA LineCorrect ==
    ASSUME NEW line \in Lines
    PROVE  /\ line.tag \in Tags
           /\ line.tag = "URI" => line.value \in Uris
           /\ line.tag = "EXTINF" /\ line.value # Malformed => line.value \in Nat
           /\ line.tag = "TARGETDURATION" /\ line.value # Malformed => line.value \in Nat
           /\ line.tag = "MEDIA-SEQUENCE" /\ line.value # Malformed => line.value \in Nat
           /\ line.tag = "STREAM-INF" => line.value \in Seq(Attributes)
<1>1. line.tag = "MEDIA-SEQUENCE" /\ line.value # Malformed => line.value \in Nat
  BY LinesAssumption, NumbersAssumption
<1> QED
  BY <1>1, LinesAssumption DEF Attributes

\* Reading a line makes the text longer by that line.
LEMMA ReadOneMore ==
    ASSUME TypeOK, NEW line \in Lines, ReadLine(line)
    PROVE  /\ lines \in Seq(Lines) /\ lines' \in Seq(Lines)
           /\ OneMore(lines, lines') /\ Len(lines) \in Nat /\ Len(lines') = Len(lines) + 1
           /\ lines'[Len(lines')] = line
           /\ state = "lines"
  BY DEF TypeOK, ReadLine, OneMore

\* What a tag that is not refused changes.
TagRead(line) ==
    /\ state' = "lines"
    /\ playlist'.type = playlist.type \/ playlist'.type = "MediaVOD"
    /\ playlist'.segments = playlist.segments
    /\ playlist'.variants = playlist.variants
    /\ playlist'.media_sequence = IF line.tag = "MEDIA-SEQUENCE" /\ line.value # Malformed
                                  THEN line.value ELSE playlist.media_sequence
    /\ line.tag = "EXTINF" =>
          /\ line.value # Malformed
          /\ segment_builder' = [segment_builder EXCEPT !.duration = line.value, !.active = TRUE]
    /\ line.tag \in {"DISCONTINUITY", "DISCONTINUITY-SEQUENCE"} =>
          segment_builder' = [segment_builder EXCEPT !.discontinuity = TRUE]
    /\ line.tag \notin {"EXTINF", "DISCONTINUITY", "DISCONTINUITY-SEQUENCE"} =>
          segment_builder' = segment_builder
    /\ line.tag = "STREAM-INF" =>
          variant_builder' =
              [active  |-> TRUE,
               variant |-> ApplyStreamInfAttributes(line.value, variant_builder.variant)]
    /\ line.tag # "STREAM-INF" => variant_builder' = variant_builder

\* The outcomes of a line.
LEMMA ReadCases ==
    ASSUME TypeOK, NEW line \in Lines, ReadLine(line)
    PROVE  \/ line.tag # "URI" /\ TagRead(line)
           \/ line.tag = "EXTINF" /\ line.value = Malformed /\ Refuse("InvalidFormat")
           \/ line.tag = "URI" /\ variant_builder.active /\ CommitVariant(line.value)
           \/ /\ line.tag = "URI" /\ ~variant_builder.active /\ segment_builder.active
              /\ CommitSegment(line.value)
           \/ /\ line.tag = "URI" /\ ~variant_builder.active /\ ~segment_builder.active
              /\ Refuse("MissingMandatoryTags")
<1>1. CASE line.tag = "URI"
  BY <1>1 DEF ReadLine, CommitUriLine
<1>2. CASE line.tag # "URI"
  <2>1. state = "lines" /\ DispatchTag(line)
    BY <1>2 DEF ReadLine
  <2>2. CASE line.tag = "EXTINF"
    BY <2>1, <2>2 DEF DispatchTag, HandleExtInf, TagRead
  <2>3. CASE line.tag = "TARGETDURATION"
    BY <2>1, <2>3 DEF DispatchTag, HandleTargetDuration, TagRead, TypeOK, PlaylistOK
  <2>4. CASE line.tag = "MEDIA-SEQUENCE"
    BY <2>1, <2>4 DEF DispatchTag, HandleMediaSequence, TagRead, TypeOK, PlaylistOK
  <2>5. CASE line.tag = "ENDLIST"
    BY <2>1, <2>5 DEF DispatchTag, HandleEndList, TagRead, TypeOK, PlaylistOK
  <2>6. CASE line.tag \in {"DISCONTINUITY", "DISCONTINUITY-SEQUENCE"}
    BY <2>1, <2>6 DEF DispatchTag, HandleDiscontinuity, TagRead
  <2>7. CASE line.tag = "STREAM-INF"
    BY <2>1, <2>7 DEF DispatchTag, HandleStreamInf, TagRead
  <2>8. CASE line.tag = "OTHER"
    BY <2>1, <2>8 DEF DispatchTag, TagRead
  <2> QED
    BY <1>2, <2>2, <2>3, <2>4, <2>5, <2>6, <2>7, <2>8, LineCorrect DEF Tags
<1> QED
  BY <1>1, <1>2

\* What a committed uri adds to the playlist.
LEMMA SegmentCommitted ==
    ASSUME PlaylistOK, BuildersOK, NEW uri \in Uris, CommitSegment(uri)
    PROVE  \E segment \in Segments :
              /\ playlist' = [playlist EXCEPT !.segments = Append(playlist.segments, segment)]
              /\ segment.uri = uri
              /\ segment.duration = segment_builder.duration
              /\ segment.sequence_index
                   = (playlist.media_sequence + Len(playlist.segments)) % SeqMod
              /\ segment_builder.discontinuity => segment.is_discontinuity
<1> DEFINE number == (playlist.media_sequence + Len(playlist.segments)) % SeqMod
           segment == [uri |-> uri,
                       duration |-> segment_builder.duration,
                       sequence_index |-> number,
                       is_discontinuity |-> segment_builder.discontinuity]
<1>1. playlist' = [playlist EXCEPT !.segments = Append(playlist.segments, segment)]
  BY DEF CommitSegment, PlaylistOK
<1>2. number \in 0 .. SeqMod - 1
  <2>1. playlist.media_sequence \in Nat /\ Len(playlist.segments) \in Nat
    BY DEF PlaylistOK
  <2> QED
    BY <2>1, NumbersAssumption
<1> HIDE DEF number
<1>3. segment \in Segments
  BY <1>2 DEF BuildersOK, Segments
<1> QED
  BY <1>1, <1>3 DEF number

\* commitVariant appends the variant of the builder with its uri.
LEMMA VariantCommitted ==
    ASSUME PlaylistOK, BuildersOK, NEW uri \in Uris, CommitVariant(uri)
    PROVE  LET variant == [variant_builder.variant EXCEPT !.uri = uri]
           IN  /\ variant \in Variants
               /\ playlist' = [playlist EXCEPT !.variants = Append(playlist.variants, variant)]
<1>1. [variant_builder.variant EXCEPT !.uri = uri] \in Variants
  BY DEF BuildersOK, Variants
<1> QED
  BY <1>1 DEF CommitVariant, PlaylistOK

\* Every line leaves the types: a refused line changes nothing else.
LEMMA ReadType ==
    ASSUME TypeOK, NEW line \in Lines, ReadLine(line)
    PROVE  TypeOK'
<1>1. lines' \in Seq(Lines) /\ state = "lines" /\ state \in States
  BY ReadOneMore DEF TypeOK
<1>2. PlaylistOK /\ BuildersOK
  BY DEF TypeOK
<1>3. CASE line.tag # "URI" /\ DispatchTag(line)
  <2>1. state' \in States
    BY <1>1, <1>3 DEF DispatchTag, HandleExtInf, HandleTargetDuration, HandleMediaSequence,
          HandleEndList, HandleDiscontinuity, HandleStreamInf, Refuse, States
  <2>2. PlaylistOK'
    BY <1>2, <1>3, LineCorrect DEF PlaylistOK, DispatchTag, HandleExtInf, HandleTargetDuration,
          HandleMediaSequence, HandleEndList, HandleDiscontinuity, HandleStreamInf, Refuse
  <2>3. segment_builder' \in [active : BOOLEAN, duration : Nat, discontinuity : BOOLEAN]
    BY <1>2, <1>3, LineCorrect DEF BuildersOK, DispatchTag, HandleExtInf, HandleTargetDuration,
          HandleMediaSequence, HandleEndList, HandleDiscontinuity, HandleStreamInf, Refuse
  <2>4. variant_builder' \in [active : BOOLEAN, variant : Variants]
    <3>1. CASE line.tag = "STREAM-INF"
      <4> DEFINE variant == ApplyStreamInfAttributes(line.value, variant_builder.variant)
      <4>1. variant \in Variants
        BY <1>2, <3>1, LineCorrect, AppliedCorrect DEF BuildersOK
      <4>2. variant_builder' = [active |-> TRUE, variant |-> variant]
        BY <1>3, <3>1 DEF DispatchTag, HandleStreamInf
      <4> HIDE DEF variant
      <4> QED
        BY <4>1, <4>2
    <3>2. CASE line.tag # "STREAM-INF"
      BY <1>2, <1>3, <3>2 DEF BuildersOK, DispatchTag, HandleExtInf, HandleTargetDuration,
            HandleMediaSequence, HandleEndList, HandleDiscontinuity, Refuse
    <3> QED
      BY <3>1, <3>2
  <2> QED
    BY <1>1, <2>1, <2>2, <2>3, <2>4 DEF TypeOK, BuildersOK
<1>4. CASE line.tag = "URI" /\ CommitVariant(line.value)
  <2>1. state' = "lines" /\ BuildersOK'
    BY <1>1, <1>2, <1>4, NoVariantCorrect DEF CommitVariant, ResetVariantBuilder, BuildersOK
  <2>2. PlaylistOK'
    <3> DEFINE variant == [variant_builder.variant EXCEPT !.uri = line.value]
    <3>1. /\ variant \in Variants
          /\ playlist' = [playlist EXCEPT !.variants = Append(playlist.variants, variant)]
      BY <1>2, <1>4, LineCorrect, VariantCommitted
    <3> HIDE DEF variant
    <3>2. Append(playlist.variants, variant) \in Seq(Variants)
      BY <1>2, <3>1 DEF PlaylistOK
    <3> QED
      BY <1>2, <3>1, <3>2 DEF PlaylistOK
  <2> QED
    BY <1>1, <2>1, <2>2 DEF TypeOK, States
<1>5. CASE line.tag = "URI" /\ CommitSegment(line.value)
  <2>1. state' = "lines" /\ BuildersOK'
    BY <1>1, <1>2, <1>5 DEF CommitSegment, ResetSegmentBuilder, BuildersOK
  <2>2. PICK segment \in Segments :
           playlist' = [playlist EXCEPT !.segments = Append(playlist.segments, segment)]
    BY <1>2, <1>5, LineCorrect, SegmentCommitted
  <2>3. Append(playlist.segments, segment) \in Seq(Segments)
    BY <1>2, <2>2 DEF PlaylistOK
  <2>4. PlaylistOK'
    BY <1>2, <2>2, <2>3 DEF PlaylistOK
  <2> QED
    BY <1>1, <2>1, <2>4 DEF TypeOK, States
<1>6. CASE Refuse("MissingMandatoryTags")
  BY <1>1, <1>2, <1>6 DEF Refuse, TypeOK, PlaylistOK, BuildersOK, States
<1> QED
  BY <1>3, <1>4, <1>5, <1>6 DEF ReadLine, CommitUriLine

-----------------------------------------------------------------------------
\* The builders.

\* What the uris of a text have is not changed by a further line.
LEMMA NoneHasBothKept ==
    ASSUME NEW t \in Seq(Lines), NEW u \in Seq(Lines), OneMore(t, u), NoneHasBoth(u)
    PROVE  NoneHasBoth(t)
<1>1. UriLines(t) \subseteq UriLines(u) /\ UriLines(t) \subseteq 1 .. Len(t)
  BY UriLinesNext, UriLinesCorrect
<1>2. ASSUME NEW i \in UriLines(t), NEW tag
      PROVE  Describing(u, i, tag) = Describing(t, i, tag)
  <2>1. i \in 1 .. Len(t) + 1
    BY <1>1
  <2> QED
    BY <2>1, DescribingKept
<1> QED
  BY <1>1, <1>2 DEF NoneHasBoth

\* A pending tag is one of the lines read.
LEMMA PendingCorrect ==
    ASSUME NEW t \in Seq(Lines), NEW tag
    PROVE  Pending(t, tag) \subseteq 1 .. Len(t)
  BY DEF Pending, Describing

\* A tag leaves in the segment builder what stands since the last uri.
LEMMA SegmentPendingTag ==
    ASSUME TypeOK, SegmentPending, NEW line \in Lines, ReadLine(line), line.tag # "URI",
           TagRead(line)
    PROVE  SegmentPending'
<1> DEFINE t == lines
           u == lines'
<1>1. /\ t \in Seq(Lines) /\ u \in Seq(Lines) /\ OneMore(t, u)
      /\ u[Len(u)] = line /\ Len(t) \in Nat /\ Len(u) = Len(t) + 1
  BY ReadOneMore
<1>2. \A j \in 1 .. Len(t) : u[j] = t[j]
  BY <1>1 DEF OneMore
<1>3. segment_builder \in [active : BOOLEAN, duration : Nat, discontinuity : BOOLEAN]
  BY DEF TypeOK, BuildersOK
<1>4. NoneHasBoth(u) => NoneHasBoth(t)
  BY <1>1, NoneHasBothKept
<1>5. Pending(t, "EXTINF") \subseteq 1 .. Len(t)
  BY <1>1, PendingCorrect
<1> HIDE DEF t, u
<1>6. CASE line.tag = "EXTINF"
  <2>1. segment_builder' = [segment_builder EXCEPT !.duration = line.value, !.active = TRUE]
    BY <1>6 DEF TagRead
  <2>2. /\ Pending(u, "EXTINF") = Pending(t, "EXTINF") \cup {Len(u)}
        /\ Pending(u, "DISCONTINUITY") = Pending(t, "DISCONTINUITY")
    BY <1>1, <1>6, PendingNext
  <2>3. \A j \in Pending(u, "EXTINF") : Pending(u, "EXTINF") = {j} => u[j] = line
    BY <1>1, <2>2
  <2> QED
    BY <1>3, <2>1, <2>2, <2>3 DEF SegmentPending, t, u
<1>7. CASE line.tag # "EXTINF"
  <2>1. /\ segment_builder'.active = segment_builder.active
        /\ segment_builder'.duration = segment_builder.duration
        /\ segment_builder.discontinuity => segment_builder'.discontinuity
        /\ line.tag = "DISCONTINUITY" => segment_builder'.discontinuity
    BY <1>3, <1>7 DEF TagRead
  <2>2. /\ Pending(u, "EXTINF") = Pending(t, "EXTINF")
        /\ line.tag # "DISCONTINUITY" => Pending(u, "DISCONTINUITY") = Pending(t, "DISCONTINUITY")
    BY <1>1, <1>7, PendingNext
  <2>3. \A j \in Pending(u, "EXTINF") : u[j] = t[j]
    BY <1>2, <1>5, <2>2
  <2> QED
    BY <1>4, <2>1, <2>2, <2>3 DEF SegmentPending, t, u
<1> QED
  BY <1>6, <1>7

\* So it does for the variant builder.
LEMMA VariantPendingTag ==
    ASSUME TypeOK, VariantPending, NEW line \in Lines, ReadLine(line), line.tag # "URI",
           TagRead(line)
    PROVE  VariantPending'
<1> DEFINE t == lines
           u == lines'
<1>1. /\ t \in Seq(Lines) /\ u \in Seq(Lines) /\ OneMore(t, u)
      /\ u[Len(u)] = line /\ Len(t) \in Nat /\ Len(u) = Len(t) + 1
  BY ReadOneMore
<1>2. \A j \in 1 .. Len(t) : u[j] = t[j]
  BY <1>1 DEF OneMore
<1>3. Pending(t, "STREAM-INF") \subseteq 1 .. Len(t)
  BY <1>1, PendingCorrect
<1> HIDE DEF t, u
<1>4. CASE line.tag = "STREAM-INF"
  <2>1. /\ variant_builder'.active = TRUE
        /\ variant_builder'.variant
             = ApplyStreamInfAttributes(line.value, variant_builder.variant)
    BY <1>4 DEF TagRead
  <2>2. Pending(u, "STREAM-INF") = Pending(t, "STREAM-INF") \cup {Len(u)}
    BY <1>1, <1>4, PendingNext
  <2>3. ASSUME NEW j \in Pending(u, "STREAM-INF"), Pending(u, "STREAM-INF") = {j}
        PROVE  variant_builder'.variant = ApplyStreamInfAttributes(u[j].value, NoVariant)
    <3>1. j = Len(u) /\ Pending(t, "STREAM-INF") = {}
      BY <1>1, <1>3, <2>2, <2>3
    <3>2. variant_builder.variant = NoVariant
      BY <3>1 DEF VariantPending, t
    <3> QED
      BY <1>1, <2>1, <3>1, <3>2
  <2> QED
    BY <2>1, <2>2, <2>3 DEF VariantPending, u
<1>5. CASE line.tag # "STREAM-INF"
  <2>1. variant_builder' = variant_builder
    BY <1>5 DEF TagRead
  <2>2. Pending(u, "STREAM-INF") = Pending(t, "STREAM-INF")
    BY <1>1, <1>5, PendingNext
  <2>3. \A j \in Pending(u, "STREAM-INF") : u[j] = t[j]
    BY <1>2, <1>3, <2>2
  <2> QED
    BY <2>1, <2>2, <2>3 DEF VariantPending, t, u
<1> QED
  BY <1>4, <1>5

\* After a uri nothing is pending; the builder that stays active is the one whose tag stood
\* before the uri of another kind.
LEMMA PendingUri ==
    ASSUME TypeOK, SegmentPending, VariantPending, NEW line \in Lines, ReadLine(line),
           line.tag = "URI",
           \/ variant_builder.active /\ CommitVariant(line.value)
           \/ ~variant_builder.active /\ segment_builder.active /\ CommitSegment(line.value)
    PROVE  SegmentPending' /\ VariantPending'
<1> DEFINE t == lines
           u == lines'
<1>1. /\ t \in Seq(Lines) /\ u \in Seq(Lines) /\ OneMore(t, u)
      /\ u[Len(u)] = line /\ Len(t) \in Nat /\ Len(u) = Len(t) + 1
  BY ReadOneMore
<1> HIDE DEF t, u
<1>2. \A tag : Pending(u, tag) = {}
  BY <1>1, PendingNext
<1>3. CASE variant_builder.active /\ CommitVariant(line.value)
  <2>1. segment_builder' = segment_builder
    BY <1>3 DEF CommitVariant
  <2>2. variant_builder'.active = FALSE /\ variant_builder'.variant = NoVariant
    BY <1>3 DEF CommitVariant, ResetVariantBuilder
  <2>3. ASSUME segment_builder.active, NoneHasBoth(u) PROVE FALSE
    <3>1. NoneHasBoth(t)
      BY <1>1, <2>3, NoneHasBothKept
    <3>2. Pending(t, "EXTINF") # {} /\ Pending(t, "STREAM-INF") # {}
      BY <1>3, <2>3, <3>1 DEF SegmentPending, VariantPending, t
    <3>3. /\ Describing(u, Len(u), "EXTINF") = Pending(t, "EXTINF")
          /\ Describing(u, Len(u), "STREAM-INF") = Pending(t, "STREAM-INF")
      BY <1>1, DescribingKept DEF Pending
    <3>4. Len(u) \in UriLines(u)
      BY <1>1, UriLinesNext
    <3> QED
      BY <2>3, <3>2, <3>3, <3>4 DEF NoneHasBoth
  <2>4. SegmentPending'
    BY <1>2, <2>1, <2>3 DEF SegmentPending, u
  <2>5. VariantPending'
    BY <1>2, <2>2 DEF VariantPending, u
  <2> QED
    BY <2>4, <2>5
<1>4. CASE ~variant_builder.active /\ segment_builder.active /\ CommitSegment(line.value)
  <2>1. segment_builder'.active = FALSE
    BY <1>4 DEF CommitSegment, ResetSegmentBuilder, TypeOK, BuildersOK
  <2>2. SegmentPending'
    BY <1>2, <2>1 DEF SegmentPending, u
  <2>3. variant_builder' = variant_builder /\ Pending(t, "STREAM-INF") = {}
    BY <1>4 DEF CommitSegment, VariantPending, t
  <2>4. ~variant_builder.active /\ variant_builder.variant = NoVariant
    BY <1>4, <2>3 DEF VariantPending, t
  <2>5. VariantPending'
    BY <1>2, <2>3, <2>4 DEF VariantPending, u
  <2> QED
    BY <2>2, <2>5
<1> QED
  BY <1>3, <1>4

-----------------------------------------------------------------------------
\* The numbers.

\* After a tag the playlist still counts its segments from the number in the text.
LEMMA NumberedTag ==
    ASSUME TypeOK, Numbered, NEW line \in Lines, ReadLine(line), line.tag # "URI", TagRead(line)
    PROVE  Numbered'
<1> DEFINE t == lines
           u == lines'
<1>1. t \in Seq(Lines) /\ u \in Seq(Lines) /\ OneMore(t, u) /\ u[Len(u)] = line
  BY ReadOneMore
<1>2. /\ playlist'.segments = playlist.segments
      /\ playlist'.media_sequence = IF line.tag = "MEDIA-SEQUENCE" /\ line.value # Malformed
                                    THEN line.value ELSE playlist.media_sequence
  BY DEF TagRead
<1> HIDE DEF t, u
<1>3. UriLines(u) = {} => playlist'.segments = <<>>
  BY <1>1, <1>2, UriLinesNext DEF Numbered, t
<1>4. ASSUME WellNumbered(u)
      PROVE  /\ playlist'.media_sequence = FirstNumber(u)
             /\ \A i \in DOMAIN playlist'.segments :
                   playlist'.segments[i].sequence_index
                     = (playlist'.media_sequence + i - 1) % SeqMod
  <2>1. playlist.media_sequence = FirstNumber(t) /\ NumbersFollow
    BY <1>1, <1>4, WellNumberedKept DEF Numbered, t
  <2>2. CASE line.tag # "MEDIA-SEQUENCE"
    <3>1. FirstNumber(u) = FirstNumber(t) /\ playlist'.media_sequence = playlist.media_sequence
      BY <1>1, <1>2, <1>4, <2>2, FirstNumberNext
    <3> QED
      BY <1>2, <2>1, <3>1 DEF NumbersFollow
  <2>3. CASE line.tag = "MEDIA-SEQUENCE"
    <3>1. UriLines(t) = {}
      BY <1>1, <1>4, <2>3, WellNumberedKept
    <3>2. playlist'.segments = <<>>
      BY <1>2, <3>1 DEF Numbered, t
    <3>3. playlist'.media_sequence = FirstNumber(u)
      BY <1>1, <1>2, <1>4, <2>1, <2>3, FirstNumberNext
    <3> QED
      BY <3>2, <3>3
  <2> QED
    BY <2>2, <2>3
<1> QED
  BY <1>3, <1>4 DEF Numbered, NumbersFollow, u

\* After the uri of a segment it does, because every segment takes the next number.
LEMMA NumberedUri ==
    ASSUME TypeOK, Numbered, NEW line \in Lines, ReadLine(line), line.tag = "URI",
           CommitVariant(line.value) \/ CommitSegment(line.value)
    PROVE  Numbered'
<1> DEFINE t == lines
           u == lines'
<1>1. t \in Seq(Lines) /\ u \in Seq(Lines) /\ OneMore(t, u) /\ u[Len(u)] = line
  BY ReadOneMore
<1>2. PlaylistOK /\ BuildersOK /\ line.value \in Uris
  BY LineCorrect DEF TypeOK
<1> HIDE DEF t, u
<1>3. UriLines(u) # {}
  BY <1>1, UriLinesNext
<1>4. playlist'.media_sequence = playlist.media_sequence
  BY <1>2 DEF CommitVariant, CommitSegment, PlaylistOK
<1>5. ASSUME WellNumbered(u)
      PROVE  playlist.media_sequence = FirstNumber(u) /\ NumbersFollow
  <2>1. WellNumbered(t) /\ FirstNumber(u) = FirstNumber(t)
    BY <1>1, <1>5, WellNumberedKept, FirstNumberNext
  <2> QED
    BY <2>1 DEF Numbered, t
<1>6. ASSUME NumbersFollow
      PROVE  \A i \in DOMAIN playlist'.segments :
                playlist'.segments[i].sequence_index = (playlist.media_sequence + i - 1) % SeqMod
  <2>1. CASE CommitVariant(line.value)
    <3>1. playlist'.segments = playlist.segments
      BY <1>2, <2>1 DEF CommitVariant, PlaylistOK
    <3> QED
      BY <1>6, <3>1 DEF NumbersFollow
  <2>2. CASE CommitSegment(line.value)
    <3> DEFINE s == playlist.segments
               n == Len(s)
    <3>1. PICK segment : /\ playlist'.segments = Append(s, segment)
                         /\ segment.sequence_index = (playlist.media_sequence + n) % SeqMod
      BY <1>2, <2>2, SegmentCommitted DEF PlaylistOK
    <3>2. s \in Seq(Segments) /\ n \in Nat /\ playlist.media_sequence \in Nat
      BY <1>2 DEF PlaylistOK
    <3>3. \A i \in 1 .. n : s[i].sequence_index = (playlist.media_sequence + i - 1) % SeqMod
      BY <1>6, <3>2 DEF NumbersFollow
    <3> HIDE DEF s
    <3>4. /\ DOMAIN playlist'.segments = 1 .. n + 1
          /\ playlist'.segments[n + 1] = segment
          /\ \A i \in 1 .. n : playlist'.segments[i] = s[i]
      BY <3>1, <3>2
    <3>5. playlist.media_sequence + (n + 1) - 1 = playlist.media_sequence + n
      BY <3>2
    <3> HIDE DEF n
    <3>6. ASSUME NEW i \in 1 .. n + 1
          PROVE  playlist'.segments[i].sequence_index = (playlist.media_sequence + i - 1) % SeqMod
      <4>1. CASE i = n + 1
        BY <3>1, <3>4, <3>5, <4>1
      <4>2. CASE i \in 1 .. n
        BY <3>3, <3>4, <4>2
      <4> QED
        BY <3>2, <4>1, <4>2
    <3> QED
      BY <3>4, <3>6
  <2> QED
    BY <2>1, <2>2
<1> QED
  BY <1>3, <1>4, <1>5, <1>6 DEF Numbered, NumbersFollow, u

-----------------------------------------------------------------------------
\* Segments and variants as the text has them.

\* A segment that is as written remains so when a line is added.
LEMMA SegmentKept ==
    ASSUME NEW t \in Seq(Lines), NEW u \in Seq(Lines), OneMore(t, u), NEW i \in SegmentLines(t),
           NEW segment, SegmentAsWritten(segment, t, i)
    PROVE  SegmentAsWritten(segment, u, i)
<1>1. i \in 1 .. Len(t) /\ Describing(t, i, "EXTINF") # {}
  BY KindsCorrect DEF SegmentLines
<1>2. u[i] = t[i] /\ i \in 1 .. Len(t) + 1
  BY <1>1 DEF OneMore
<1>3. Given(u, i, "EXTINF") = Given(t, i, "EXTINF")
  BY <1>1, GivenKept
<1>4. Describing(u, i, "DISCONTINUITY") = Describing(t, i, "DISCONTINUITY")
  BY <1>2, DescribingKept
<1> QED
  BY <1>2, <1>3, <1>4 DEF SegmentAsWritten

\* The same for all segments, if the line does not name another.
LEMMA SegmentsKept ==
    ASSUME NEW t \in Seq(Lines), NEW u \in Seq(Lines), OneMore(t, u), NEW s,
           SegmentLines(u) = SegmentLines(t), SegmentsAsWritten(s, t)
    PROVE  SegmentsAsWritten(s, u)
<1>1. ASSUME NEW i \in SegmentLines(t)
      PROVE  SegmentAsWritten(s[SegmentsBefore(u, i) + 1], u, i)
  <2>1. SegmentsBefore(u, i) = SegmentsBefore(t, i)
    BY KindsCorrect, BeforeNext
  <2>2. SegmentAsWritten(s[SegmentsBefore(t, i) + 1], t, i)
    BY DEF SegmentsAsWritten
  <2> QED
    BY <2>1, <2>2, SegmentKept
<1> QED
  BY <1>1 DEF SegmentsAsWritten

\* If the line names a segment, and that one is as written, all of them are.
LEMMA SegmentsNext ==
    ASSUME NEW t \in Seq(Lines), NEW u \in Seq(Lines), OneMore(t, u),
           NEW s \in Seq(Segments), NEW segment \in Segments,
           SegmentLines(u) = SegmentLines(t) \cup {Len(u)},
           SegmentsAsWritten(s, t), SegmentAsWritten(segment, u, Len(u))
    PROVE  SegmentsAsWritten(Append(s, segment), u)
<1> DEFINE r == Append(s, segment)
<1>1. /\ Len(s) = Cardinality(SegmentLines(t)) /\ Len(s) \in Nat
      /\ Len(r) = Len(s) + 1 /\ r[Len(s) + 1] = segment
      /\ \A n \in 1 .. Len(s) : r[n] = s[n]
  BY DEF SegmentsAsWritten
<1> HIDE DEF r
<1>2. SegmentsBefore(u, Len(u)) = Len(s)
  BY <1>1, BeforeNext
<1>3. ASSUME NEW i \in SegmentLines(t)
      PROVE  SegmentAsWritten(r[SegmentsBefore(u, i) + 1], u, i)
  <2>1. SegmentsBefore(u, i) = SegmentsBefore(t, i)
    BY KindsCorrect, BeforeNext
  <2>2. SegmentsBefore(t, i) \in Nat /\ SegmentsBefore(t, i) < Len(s)
    BY <1>1, BeforeCorrect
  <2>3. r[SegmentsBefore(t, i) + 1] = s[SegmentsBefore(t, i) + 1]
    BY <1>1, <2>2
  <2>4. SegmentAsWritten(s[SegmentsBefore(t, i) + 1], t, i)
    BY DEF SegmentsAsWritten
  <2> QED
    BY <2>1, <2>3, <2>4, SegmentKept
<1>4. Len(r) = Cardinality(SegmentLines(u))
  <2>1. IsFiniteSet(SegmentLines(t)) /\ Len(u) \notin SegmentLines(t)
    BY KindsCorrect DEF OneMore
  <2> QED
    BY <1>1, <2>1, FS_AddElement
<1> QED
  BY <1>1, <1>2, <1>3, <1>4 DEF SegmentsAsWritten, r

\* Variants that are counted remain so, if the line does not name another.
LEMMA VariantsKept ==
    ASSUME NEW t \in Seq(Lines), NEW u \in Seq(Lines), OneMore(t, u), WellDescribed(t), NEW s,
           VariantLines(u) = VariantLines(t), VariantsCounted(s, t)
    PROVE  VariantsCounted(s, u)
<1>1. \A v : TimesDescribed(u, v) = TimesDescribed(t, v)
  BY TimesDescribedNext
<1> QED
  BY <1>1 DEF VariantsCounted

\* If it does, the variant as written is one more on either side.
LEMMA VariantsNext ==
    ASSUME NEW t \in Seq(Lines), NEW u \in Seq(Lines), OneMore(t, u), WellDescribed(t),
           NEW s \in Seq(Variants), VariantAt(u, Len(u)) \in Variants,
           VariantLines(u) = VariantLines(t) \cup {Len(u)}, VariantsCounted(s, t)
    PROVE  VariantsCounted(Append(s, VariantAt(u, Len(u))), u)
<1> DEFINE variant == VariantAt(u, Len(u))
           r == Append(s, variant)
<1>1. Len(r) = Cardinality(VariantLines(u))
  <2>1. IsFiniteSet(VariantLines(t)) /\ Len(u) \notin VariantLines(t)
    BY KindsCorrect DEF OneMore
  <2>2. Cardinality(VariantLines(u)) = Cardinality(VariantLines(t)) + 1
    BY <2>1, FS_AddElement
  <2> QED
    BY <2>2 DEF VariantsCounted
<1>2. ASSUME NEW v
      PROVE  Times(r, v) = TimesDescribed(u, v)
  <2>1. Times(s, v) = TimesDescribed(t, v)
    BY DEF VariantsCounted
  <2>2. TimesDescribed(u, v) = IF variant = v THEN TimesDescribed(t, v) + 1
                               ELSE TimesDescribed(t, v)
    BY TimesDescribedNext
  <2> HIDE DEF variant
  <2>3. Times(r, v) = IF variant = v THEN Times(s, v) + 1 ELSE Times(s, v)
    BY TimesNext DEF variant
  <2> QED
    BY <2>1, <2>2, <2>3
<1> QED
  BY <1>1, <1>2 DEF VariantsCounted

\* A tag changes neither the segments and variants of the playlist nor those of the text.
LEMMA WrittenTag ==
    ASSUME TypeOK, Written, NEW line \in Lines, ReadLine(line), line.tag # "URI", TagRead(line)
    PROVE  Written'
<1> DEFINE t == lines
           u == lines'
<1>1. t \in Seq(Lines) /\ u \in Seq(Lines) /\ OneMore(t, u) /\ u[Len(u)] = line
  BY ReadOneMore
<1>2. playlist'.segments = playlist.segments /\ playlist'.variants = playlist.variants
  BY DEF TagRead
<1> HIDE DEF t, u
<1>3. SegmentLines(u) = SegmentLines(t) /\ VariantLines(u) = VariantLines(t)
  BY <1>1, KindsNext
<1>4. ASSUME WellDescribed(u)
      PROVE  SegmentsAsWritten(playlist.segments, u) /\ VariantsCounted(playlist.variants, u)
  <2>1. WellDescribed(t)
    BY <1>1, <1>4, WellDescribedKept
  <2>2. SegmentsAsWritten(playlist.segments, t) /\ VariantsCounted(playlist.variants, t)
    BY <2>1 DEF Written, t
  <2> QED
    BY <1>1, <1>3, <2>1, <2>2, SegmentsKept, VariantsKept
<1> QED
  BY <1>2, <1>4 DEF Written, u

\* The uri of a well described text is committed to the kind that its tag says, with what
\* the tag says.
LEMMA WrittenUri ==
    ASSUME TypeOK, SegmentPending, VariantPending, Written, NEW line \in Lines, ReadLine(line),
           line.tag = "URI",
           \/ variant_builder.active /\ CommitVariant(line.value)
           \/ ~variant_builder.active /\ segment_builder.active /\ CommitSegment(line.value)
    PROVE  Written'
<1> DEFINE t == lines
           u == lines'
<1>1. /\ t \in Seq(Lines) /\ u \in Seq(Lines) /\ OneMore(t, u)
      /\ u[Len(u)] = line /\ Len(t) \in Nat /\ Len(u) = Len(t) + 1
  BY ReadOneMore
<1>2. PlaylistOK /\ BuildersOK /\ line.value \in Uris
  BY LineCorrect DEF TypeOK
<1> HIDE DEF t, u
<1>3. SUFFICES ASSUME WellDescribed(u)
               PROVE  /\ SegmentsAsWritten(playlist'.segments, u)
                      /\ VariantsCounted(playlist'.variants, u)
  BY DEF Written, u
<1>4. /\ WellDescribed(t)
      /\ SegmentsAsWritten(playlist.segments, t) /\ VariantsCounted(playlist.variants, t)
  BY <1>1, <1>3, WellDescribedKept DEF Written, t
<1>5. \A tag : Describing(u, Len(u), tag) = Pending(t, tag)
  BY <1>1, DescribingKept DEF Pending
<1>6. \/ Pending(t, "EXTINF") = {} /\ \E j : Pending(t, "STREAM-INF") = {j}
      \/ Pending(t, "STREAM-INF") = {} /\ \E j : Pending(t, "EXTINF") = {j}
  <2>1. Len(u) \in UriLines(u)
    BY <1>1, UriLinesNext
  <2>2. \/ /\ Describing(u, Len(u), "EXTINF") = {}
           /\ \E j : Describing(u, Len(u), "STREAM-INF") = {j}
        \/ /\ Describing(u, Len(u), "STREAM-INF") = {}
           /\ \E j : Describing(u, Len(u), "EXTINF") = {j}
    BY <1>1, <1>3, <2>1, OwnTag
  <2> QED
    BY <1>5, <2>2
<1>7. CASE Pending(t, "EXTINF") = {} /\ \E j : Pending(t, "STREAM-INF") = {j}
  <2>1. PICK j : Pending(t, "STREAM-INF") = {j}
    BY <1>7
  <2> DEFINE variant == [variant_builder.variant EXCEPT !.uri = line.value]
  <2>2. variant_builder.active /\ CommitVariant(line.value)
    BY <2>1 DEF VariantPending, t
  <2>3. /\ variant \in Variants
        /\ playlist' = [playlist EXCEPT !.variants = Append(playlist.variants, variant)]
    BY <1>2, <2>2, VariantCommitted
  <2>4. variant_builder.variant = ApplyStreamInfAttributes(t[j].value, NoVariant)
    BY <2>1 DEF VariantPending, t
  <2>5. Given(u, Len(u), "STREAM-INF") = t[j].value
    <3>1. Given(u, Len(u), "STREAM-INF") = u[j].value
      BY <1>5, <2>1, GivenOne
    <3>2. j \in 1 .. Len(t)
      BY <1>1, <2>1, PendingCorrect
    <3> QED
      BY <1>1, <3>1, <3>2 DEF OneMore
  <2>6. variant = VariantAt(u, Len(u))
    BY <1>1, <2>4, <2>5 DEF VariantAt
  <2> HIDE DEF variant
  <2>7. /\ playlist'.segments = playlist.segments
        /\ playlist'.variants = Append(playlist.variants, variant)
        /\ playlist.variants \in Seq(Variants)
    BY <1>2, <2>3 DEF PlaylistOK
  <2>8. /\ SegmentLines(u) = SegmentLines(t)
        /\ VariantLines(u) = VariantLines(t) \cup {Len(u)}
    BY <1>1, <1>7, KindsNext
  <2> QED
    BY <1>1, <1>4, <2>3, <2>6, <2>7, <2>8, SegmentsKept, VariantsNext
<1>8. CASE Pending(t, "STREAM-INF") = {} /\ \E j : Pending(t, "EXTINF") = {j}
  <2>1. PICK j : Pending(t, "EXTINF") = {j}
    BY <1>8
  <2>2. CommitSegment(line.value)
    BY <1>8 DEF VariantPending, t
  <2>3. PICK segment \in Segments :
           /\ playlist' = [playlist EXCEPT !.segments = Append(playlist.segments, segment)]
           /\ segment.uri = line.value
           /\ segment.duration = segment_builder.duration
           /\ segment_builder.discontinuity => segment.is_discontinuity
    BY <1>2, <2>2, SegmentCommitted
  <2>4. Given(u, Len(u), "EXTINF") = segment_builder.duration
    <3>1. Given(u, Len(u), "EXTINF") = u[j].value
      BY <1>5, <2>1, GivenOne
    <3>2. j \in 1 .. Len(t)
      BY <1>1, <2>1, PendingCorrect
    <3>3. segment_builder.duration = t[j].value
      BY <2>1 DEF SegmentPending, t
    <3> QED
      BY <1>1, <3>1, <3>2, <3>3 DEF OneMore
  <2>5. Describing(u, Len(u), "DISCONTINUITY") # {} => segment.is_discontinuity
    BY <1>5, <2>3 DEF SegmentPending, t
  <2>6. SegmentAsWritten(segment, u, Len(u))
    BY <1>1, <2>3, <2>4, <2>5 DEF SegmentAsWritten
  <2>7. /\ playlist'.variants = playlist.variants
        /\ playlist'.segments = Append(playlist.segments, segment)
        /\ playlist.segments \in Seq(Segments)
    BY <1>2, <2>3 DEF PlaylistOK
  <2>8. /\ SegmentLines(u) = SegmentLines(t) \cup {Len(u)}
                 /\ VariantLines(u) = VariantLines(t)
    BY <1>1, <2>1, KindsNext
  <2> QED
    BY <1>1, <1>4, <2>6, <2>7, <2>8, SegmentsNext, VariantsKept
<1> QED
  BY <1>6, <1>7, <1>8

-----------------------------------------------------------------------------
\* The lines that are refused.

\* A line is refused exactly where it must be: at a malformed duration or a bare uri.
LEMMA RefusedStep ==
    ASSUME TypeOK, SegmentPending, VariantPending, NEW line \in Lines, ReadLine(line)
    PROVE  RefusedExactly'
<1> DEFINE t == lines
           u == lines'
           last == Len(u)
           bare == last \in UriLines(u) /\ ~Described(u, last)
           alone == \A i \in UriLines(u) \ {last} :
                       Describing(u, i, "EXTINF") = {} \/ Describing(u, i, "STREAM-INF") = {}
<1>1. /\ t \in Seq(Lines) /\ u \in Seq(Lines) /\ OneMore(t, u) /\ state = "lines"
      /\ u[last] = line /\ Len(t) \in Nat /\ last = Len(t) + 1
  BY ReadOneMore
<1> HIDE DEF t, u
<1>2. last \in UriLines(u) <=> line.tag = "URI"
  BY <1>1 DEF UriLines
<1>3. \A tag : Describing(u, last, tag) = Pending(t, tag)
  BY <1>1, DescribingKept DEF Pending
<1>4. bare <=> line.tag = "URI" /\ Pending(t, "EXTINF") = {} /\ Pending(t, "STREAM-INF") = {}
  BY <1>2, <1>3 DEF Described
<1>5. ASSUME bare, alone PROVE ~variant_builder.active /\ ~segment_builder.active
  <2>1. NoneHasBoth(u)
    BY <1>3, <1>4, <1>5 DEF NoneHasBoth
  <2>2. NoneHasBoth(t)
    BY <1>1, <2>1, NoneHasBothKept
  <2> QED
    BY <1>4, <1>5, <2>2 DEF SegmentPending, VariantPending, t
<1>6. ~variant_builder.active => Pending(t, "STREAM-INF") = {}
  BY DEF VariantPending, t
<1>7. ~segment_builder.active => Pending(t, "EXTINF") = {}
  BY DEF SegmentPending, t
<1>8. /\ state' = "InvalidFormat" <=> line.tag = "EXTINF" /\ line.value = Malformed
      /\ state' = "MissingMandatoryTags" => bare
      /\ bare /\ alone => state' = "MissingMandatoryTags"
  <2> HIDE DEF bare, alone
  <2>1. CASE line.tag # "URI" /\ TagRead(line)
    BY <1>4, <2>1 DEF TagRead
  <2>2. CASE line.tag = "EXTINF" /\ line.value = Malformed /\ Refuse("InvalidFormat")
    BY <1>4, <2>2 DEF Refuse
  <2>3. CASE line.tag = "URI" /\ variant_builder.active /\ CommitVariant(line.value)
    BY <1>1, <1>5, <2>3 DEF CommitVariant
  <2>4. CASE /\ line.tag = "URI" /\ ~variant_builder.active /\ segment_builder.active
             /\ CommitSegment(line.value)
    BY <1>1, <1>5, <2>4 DEF CommitSegment
  <2>5. CASE /\ line.tag = "URI" /\ ~variant_builder.active /\ ~segment_builder.active
             /\ Refuse("MissingMandatoryTags")
    BY <1>4, <1>6, <1>7, <2>5 DEF Refuse
  <2> QED
    BY <2>1, <2>2, <2>3, <2>4, <2>5, ReadCases
<1> QED
  BY <1>1, <1>8 DEF RefusedExactly, u

-----------------------------------------------------------------------------
\* The steps.

\* Every line keeps the invariant.
LEMMA ReadStep ==
    ASSUME IInv, NEW line \in Lines, ReadLine(line)
    PROVE  IInv'
<1>1. TypeOK /\ state = "lines"
  BY DEF IInv, ReadLine
<1>2. /\ playlist.type = "MediaVOD"
      /\ SegmentPending /\ VariantPending /\ Numbered /\ Written
  BY <1>1 DEF IInv, ReadSoFar
<1>3. TypeOK' /\ RefusedExactly'
  BY <1>1, <1>2, ReadType, RefusedStep
<1>4. state' \in {"lines", "InvalidFormat", "MissingMandatoryTags"}
  BY <1>1, ReadCases DEF TagRead, Refuse, CommitVariant, CommitSegment
<1>5. ASSUME state' = "lines"
      PROVE  /\ playlist'.type = "MediaVOD"
             /\ SegmentPending' /\ VariantPending' /\ Numbered' /\ Written'
  <2>1. CASE line.tag # "URI" /\ TagRead(line)
    <3>1. playlist'.type = "MediaVOD"
      BY <1>2, <2>1 DEF TagRead
    <3> QED
      BY <1>1, <1>2, <2>1, <3>1, SegmentPendingTag, VariantPendingTag, NumberedTag, WrittenTag
  <2>2. CASE /\ line.tag = "URI"
             /\ \/ variant_builder.active /\ CommitVariant(line.value)
                \/ ~variant_builder.active /\ segment_builder.active /\ CommitSegment(line.value)
    <3>1. playlist'.type = "MediaVOD"
      BY <1>1, <1>2, <2>2 DEF CommitVariant, CommitSegment, TypeOK, PlaylistOK
    <3> QED
      BY <1>1, <1>2, <2>2, <3>1, PendingUri, NumberedUri, WrittenUri
  <2> QED
    BY <1>1, <1>5, <2>1, <2>2, ReadCases DEF Refuse
<1>6. NothingRead' /\ AsWritten' /\ AsPlayerExpects'
  BY <1>4 DEF NothingRead, AsWritten, AsPlayerExpects
<1>7. ReadSoFar'
  BY <1>4, <1>5 DEF ReadSoFar
<1> QED
  BY <1>3, <1>6, <1>7 DEF IInv

\* A header begins the pass with no line read, or refuses the text.
LEMMA ValidateHeaderStep == ASSUME IInv, ValidateHeader PROVE IInv'
<1>1. /\ lines = <<>> /\ lines' = <<>> /\ state = "header"
      /\ state' \in {"EmptyContent", "InvalidHeader", "lines"}
      /\ UNCHANGED <<playlist, segment_builder, variant_builder, lines>>
  BY DEF IInv, NothingRead, ValidateHeader
<1>2. TypeOK'
  BY <1>1 DEF IInv, TypeOK, PlaylistOK, BuildersOK, States
<1>3. ReadSoFar'
  <2>1. /\ playlist.type = "MediaVOD"
        /\ SegmentPending /\ VariantPending /\ Numbered /\ Written
    BY <1>1 DEF IInv, ReadSoFar
  <2>2. SegmentPending' /\ VariantPending'
    BY <1>1, <2>1 DEF SegmentPending, VariantPending
  <2>3. Numbered' /\ Written'
    BY <1>1, <2>1 DEF Numbered, NumbersFollow, Written
  <2> QED
    BY <1>1, <2>1, <2>2, <2>3 DEF ReadSoFar
<1> QED
  BY <1>1, <1>2, <1>3 DEF IInv, NothingRead, AsWritten, RefusedExactly, AsPlayerExpects

\* finalizePlaylist rearranges the variants and gives the playlist its type.
LEMMA Finalized ==
    ASSUME PlaylistOK, playlist.type = "MediaVOD", FinalizePlaylist
    PROVE  /\ PlaylistOK'
           /\ playlist'.segments = playlist.segments
           /\ playlist'.media_sequence = playlist.media_sequence
           /\ Len(playlist'.variants) = Len(playlist.variants)
           /\ \A v : Times(playlist'.variants, v) = Times(playlist.variants, v)
           /\ \A i, j \in DOMAIN playlist'.variants :
                 i < j => Bandwidth(playlist'.variants[i]) <= Bandwidth(playlist'.variants[j])
           /\ playlist'.type = "Master" <=> playlist'.variants # <<>>
           /\ playlist'.type = "MediaLive" => ~playlist'.has_endlist
<1>1. CASE playlist.variants # <<>>
  <2>1. PICK s \in Sorted(playlist.variants) :
           playlist' = [playlist EXCEPT !.type = "Master", !.variants = s]
    BY <1>1 DEF FinalizePlaylist
  <2>2. playlist.variants \in Seq(Variants)
    BY DEF PlaylistOK
  <2>3. /\ s \in Seq(Variants) /\ Len(s) = Len(playlist.variants)
        /\ \A v : Times(s, v) = Times(playlist.variants, v)
        /\ \A i, j \in DOMAIN s : i < j => Bandwidth(s[i]) <= Bandwidth(s[j])
    BY <2>2, SortedCorrect
  <2>4. s # <<>>
    BY <1>1, <2>2, <2>3
  <2>5. /\ playlist'.type = "Master" /\ playlist'.variants = s
        /\ playlist'.segments = playlist.segments
        /\ playlist'.media_sequence = playlist.media_sequence
    BY <2>1 DEF PlaylistOK
  <2>6. PlaylistOK'
    BY <2>1, <2>3 DEF PlaylistOK
  <2> QED
    BY <2>3, <2>4, <2>5, <2>6
<1>2. CASE playlist.variants = <<>>
  <2>1. /\ playlist'.variants = <<>> /\ playlist'.type # "Master"
        /\ playlist'.segments = playlist.segments
        /\ playlist'.media_sequence = playlist.media_sequence
    BY <1>2 DEF FinalizePlaylist, PlaylistOK
  <2>2. playlist'.type = "MediaLive" => ~playlist'.has_endlist
    BY <1>2 DEF FinalizePlaylist, PlaylistOK
  <2>3. PlaylistOK'
    BY <1>2 DEF FinalizePlaylist, PlaylistOK
  <2> QED
    BY <1>2, <2>1, <2>2, <2>3
<1> QED
  BY <1>1, <1>2

\* The end keeps it: sorting loses no variant and invents none (finalizePlaylist).
LEMMA EndStep == ASSUME IInv, EndOfContent PROVE IInv'
<1>1. /\ state = "lines" /\ state' = "parsed" /\ lines' = lines
      /\ segment_builder' = segment_builder /\ variant_builder' = variant_builder
      /\ FinalizePlaylist
  BY DEF EndOfContent
<1>2. TypeOK /\ PlaylistOK /\ BuildersOK /\ playlist.type = "MediaVOD" /\ Numbered /\ Written
  BY <1>1 DEF IInv, TypeOK, ReadSoFar
<1>3. /\ PlaylistOK'
      /\ playlist'.segments = playlist.segments
      /\ playlist'.media_sequence = playlist.media_sequence
      /\ Len(playlist'.variants) = Len(playlist.variants)
      /\ \A v : Times(playlist'.variants, v) = Times(playlist.variants, v)
      /\ \A i, j \in DOMAIN playlist'.variants :
            i < j => Bandwidth(playlist'.variants[i]) <= Bandwidth(playlist'.variants[j])
      /\ playlist'.type = "Master" <=> playlist'.variants # <<>>
      /\ playlist'.type = "MediaLive" => ~playlist'.has_endlist
  BY <1>1, <1>2, Finalized
<1>4. TypeOK'
  BY <1>1, <1>2, <1>3 DEF TypeOK, BuildersOK, States
<1>5. RefusedExactly'
  BY <1>1 DEF IInv, RefusedExactly
<1>6. AsPlayerExpects'
  <2>1. WellNumbered(lines) => NumbersFollow
    BY <1>2 DEF Numbered
  <2> QED
    BY <1>1, <1>3, <2>1 DEF AsPlayerExpects, NumbersFollow
<1>7. AsWritten'
  <2>1. SUFFICES ASSUME WellNumbered(lines), WellDescribed(lines)
                 PROVE  AsWritten'
    BY <1>1 DEF AsWritten
  <2>2. /\ playlist.media_sequence = FirstNumber(lines) /\ NumbersFollow
        /\ SegmentsAsWritten(playlist.segments, lines)
        /\ VariantsCounted(playlist.variants, lines)
    BY <1>2, <2>1 DEF Numbered, Written
  <2>3. ASSUME NEW i \in SegmentLines(lines)
        PROVE  LET n == SegmentsBefore(lines, i) IN
                 playlist.segments[n + 1].sequence_index = (FirstNumber(lines) + n) % SeqMod
    <3> DEFINE n == SegmentsBefore(lines, i)
    <3>1. n \in Nat /\ n < Len(playlist.segments)
      BY <1>2, <2>2, BeforeCorrect DEF TypeOK, SegmentsAsWritten
    <3> HIDE DEF n
    <3>2. n + 1 \in DOMAIN playlist.segments
      BY <1>2, <3>1 DEF PlaylistOK
    <3>3. playlist.segments[n + 1].sequence_index = (playlist.media_sequence + (n + 1) - 1) % SeqMod
      BY <2>2, <3>2 DEF NumbersFollow
    <3>4. playlist.media_sequence + (n + 1) - 1 = FirstNumber(lines) + n
      BY <1>2, <2>2, <3>1 DEF PlaylistOK
    <3> QED
      BY <3>3, <3>4 DEF n
  <2>4. VariantsAsWritten(playlist'.variants, lines)
    BY <1>3, <2>2 DEF VariantsCounted, VariantsAsWritten
  <2> QED
    BY <1>1, <1>3, <2>2, <2>3, <2>4 DEF AsWritten
<1>8. NothingRead' /\ ReadSoFar'
  BY <1>1 DEF NothingRead, ReadSoFar
<1> QED
  BY <1>4, <1>5, <1>6, <1>7, <1>8 DEF IInv

\* Every step keeps the invariant.
LEMMA NextIInv == IInv /\ [Next]_vars => IInv'
<1> SUFFICES ASSUME IInv, [Next]_vars PROVE IInv'
  OBVIOUS
<1>1. CASE ValidateHeader
  BY <1>1, ValidateHeaderStep
<1>2. CASE \E line \in Lines : ReadLine(line)
  BY <1>2, ReadStep
<1>3. CASE EndOfContent
  BY <1>3, EndStep
<1>4. CASE UNCHANGED vars
  <2>1. UNCHANGED <<playlist, segment_builder, variant_builder, state, lines>>
    BY <1>4 DEF vars
  <2>2. TypeOK' /\ NothingRead'
    BY <2>1 DEF IInv, TypeOK, PlaylistOK, BuildersOK, NothingRead
  <2>3. ReadSoFar'
    <3>1. SegmentPending => SegmentPending'
      BY <2>1 DEF SegmentPending
    <3>2. VariantPending => VariantPending'
      BY <2>1 DEF VariantPending
    <3>3. (Numbered => Numbered') /\ (Written => Written')
      BY <2>1 DEF Numbered, NumbersFollow, Written
    <3> QED
      BY <2>1, <3>1, <3>2, <3>3 DEF IInv, ReadSoFar
  <2>4. state' = state /\ lines' = lines /\ playlist' = playlist
    BY <2>1
  <2>5. AsWritten => AsWritten'
    BY <2>4 DEF AsWritten
  <2>6. (RefusedExactly => RefusedExactly') /\ (AsPlayerExpects => AsPlayerExpects')
    BY <2>1 DEF RefusedExactly, AsPlayerExpects
  <2> QED
    BY <2>2, <2>3, <2>5, <2>6 DEF IInv
<1> QED
  BY <1>1, <1>2, <1>3, <1>4 DEF Next

\* The invariant holds at all times.
LEMMA Invariance == Spec => []IInv
<1>1. IInv /\ [Next]_vars => IInv'
  BY NextIInv
<1> QED
  BY <1>1, InitIInv, PTL DEF Spec

-----------------------------------------------------------------------------
\* Theorems

\* Builders, playlist and lines keep their types through every tag and every uri, refused or
\* not; a number that is not readable never gets into them.
THEOREM TypeCorrect == Spec => []TypeOK
<1>1. IInv => TypeOK
  BY DEF IInv
<1> QED
  BY <1>1, Invariance, PTL

\* A playlist in which everything is described once comes out as it was written, however long
\* it is and whatever stands between its uris (the builders and the resets of parseLines).
THEOREM AlwaysAsWritten == Spec => []AsWritten
<1>1. IInv => AsWritten
  BY DEF IInv
<1> QED
  BY <1>1, Invariance, PTL

\* Every playlist is refused at its first unreadable duration or uri without a description,
\* and no other is (the errors of handleExtInf and parseUriLine).
THEOREM AlwaysRefusedExactly == Spec => []RefusedExactly
<1>1. IInv => RefusedExactly
  BY DEF IInv
<1> QED
  BY <1>1, Invariance, PTL

\* Whoever reads a parsed playlist finds its segments numbered one after the other, its
\* variants sorted and its type the one that its content says (commitSegment,
\* finalizePlaylist).
THEOREM AlwaysAsPlayerExpects == Spec => []AsPlayerExpects
<1>1. IInv => AsPlayerExpects
  BY DEF IInv
<1> QED
  BY <1>1, Invariance, PTL
===============================================================================
