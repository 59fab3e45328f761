--------------------- MODULE PlaybackOrchestrator_proofs ---------------------
(***************************************************************************)
(* Theorems about PlaybackOrchestrator for every set of urls, master and   *)
(* media playlists, throughputs and number of sessions.                    *)
(***************************************************************************)
EXTENDS PlaybackOrchestrator, WellFoundedInduction, TLAPS

-----------------------------------------------------------------------------
\* resolveUrl

\* A nonempty set of natural numbers has a least element.
LEMMA LeastExists ==
    ASSUME NEW S \in SUBSET Nat, S # {}
    PROVE  Url!Min(S) \in S /\ \A x \in S : Url!Min(S) <= x
<1> DEFINE R == OpToRel(<, Nat)
<1>1. PICK k \in S : \A x \in S : <<x, k>> \notin R
  BY NatLessThanWellFounded, WFMin
<1>2. \A x, y \in Nat : <<x, y>> \notin R => y <= x
  BY DEF OpToRel
<1>3. \A x \in S : k <= x
  BY <1>1, <1>2
<1> QED
  BY <1>3 DEF Url!Min

\* A text has a piece, and a character when it has one piece only.
LEMMA TextIsNotEmpty ==
    ASSUME NEW text \in Texts
    PROVE  /\ text \in Seq(STRING) /\ Len(text) \in Nat \ {0}
           /\ Len(text) = 1 => text[1] # Url!Nothing
           /\ Len(text) = 1 \/ Len(text) > 1
<1>1. text \in Seq(STRING)
  BY DEF Texts
<1>2. Len(text) > 1 \/ (Len(text) = 1 /\ text[1] # Url!Nothing)
  BY DEF Texts
<1>3. Len(text) \in Nat \ {0}
  BY <1>1, <1>2
<1>4. Len(text) = 1 => text[1] # Url!Nothing
  BY <1>1, <1>2
<1> QED
  BY Zenon, <1>1, <1>2, <1>3, <1>4

\* A sequence of two pieces or more is a text.
LEMMA LongIsText == ASSUME NEW text \in Seq(STRING), Len(text) > 1 PROVE text \in Texts
  BY DEF Texts

\* The lengths that tell urls apart.
LEMMA AtLeast ==
    ASSUME NEW n \in Nat
    PROVE  (n > 1 => n # 1) /\ (n >= 3 => n # 1 /\ (n = 3 \/ n > 3))
  OBVIOUS

LEMMA LengthIsNat == ASSUME NEW P, NEW s \in Seq(P) PROVE Len(s) \in Nat
  OBVIOUS

LEMMA JoinedLength ==
    ASSUME NEW P, NEW s \in Seq(P), NEW t \in Seq(P)
    PROVE  s \o t \in Seq(P) /\ Len(s \o t) = Len(s) + Len(t)
  OBVIOUS

LEMMA PrefixLength ==
    ASSUME NEW P, NEW s \in Seq(P), NEW n \in 0 .. Len(s)
    PROVE  SubSeq(s, 1, n) \in Seq(P) /\ Len(SubSeq(s, 1, n)) = n
  OBVIOUS

\* What the code takes for the origin is a nonempty beginning of the text.
LEMMA OriginCorrect ==
    ASSUME NEW P, NEW text \in Seq(P), Len(text) > 1
    PROVE  \E n \in 1 .. Len(text) : Url!Origin(text) = SubSeq(text, 1, n)
<1> DEFINE hosts == {i \in 3 .. Len(text) : text[i - 2] \in Colons /\ text[i - 1] = Url!Nothing}
<1>1. hosts # {} => Url!Min(hosts) \in hosts
  <2>1. hosts \in SUBSET Nat
    OBVIOUS
  <2> QED
    BY <2>1, LeastExists
<1>2. Url!HostPiece(text) \in {1, 2, 3, Url!Min(hosts)} /\ (hosts = {} => Url!HostPiece(text) \in {1, 2, 3})
  BY DEF Url!HostPiece
<1>3. Url!HostPiece(text) \in Nat \ {0}
  BY <1>1, <1>2
<1>4. CASE Url!HostPiece(text) < Len(text)
  BY <1>3, <1>4 DEF Url!Origin
<1>5. CASE ~(Url!HostPiece(text) < Len(text))
  <2>1. Url!Origin(text) = text
    BY <1>5 DEF Url!Origin
  <2>2. text = SubSeq(text, 1, Len(text)) /\ Len(text) \in 1 .. Len(text)
    OBVIOUS
  <2> QED
    BY Zenon, <2>1, <2>2
<1> QED
  BY <1>4, <1>5

\* The origin of an absolute url is its scheme and host, whatever else the text holds.
LEMMA OriginOfUrl ==
    ASSUME NEW P, NEW base \in Seq(P), Url!IsUrl(base)
    PROVE  Url!Origin(base) = SubSeq(base, 1, 3)
<1> DEFINE hosts == {i \in 3 .. Len(base) : base[i - 2] \in Colons /\ base[i - 1] = Url!Nothing}
<1>1. 3 \in hosts /\ hosts \in SUBSET Nat /\ \A i \in hosts : i >= 3
  BY DEF Url!IsUrl
<1>2. Url!Min(hosts) = 3
  BY <1>1, LeastExists
<1>3. Url!HostPiece(base) = 3
  BY <1>1, <1>2 DEF Url!HostPiece
<1>4. Len(base) = 3 => base = SubSeq(base, 1, 3)
  OBVIOUS
<1> QED
  BY <1>3, <1>4 DEF Url!Origin, Url!IsUrl

\* The directory of a path is the text up to the last slash exactly if the url is plain.
LEMMA DirectoryCorrect ==
    ASSUME NEW P, NEW base \in Seq(P), Len(base) >= 3
    PROVE  \E k \in 3 .. Len(base) :
              /\ Url!PathDirectory(base) = SubSeq(base, 1, k)
              /\ Url!IsPlain(base) <=> k = Len(base) - 1
<1>0. Len(base) = 3 \/ Len(base) > 3
  BY Zenon, LengthIsNat, AtLeast
<1> DEFINE ends == {i \in 4 .. Len(base) : i = Len(base) \/ base[i] \in Queries}
<1>1. Url!PathDirectory(base) =
        IF ends = {} THEN SubSeq(base, 1, 3) ELSE SubSeq(base, 1, Url!Min(ends) - 1)
  BY DEF Url!PathDirectory
<1>2. CASE Len(base) = 3
  BY <1>1, <1>2 DEF Url!IsPlain
<1>3. CASE Len(base) > 3
  <2> DEFINE m == Url!Min(ends)
  <2>1. Len(base) \in ends /\ ends \in SUBSET Nat
    BY <1>3
  <2>2. m \in ends /\ \A i \in ends : m <= i
    BY <2>1, LeastExists
  <2>3. Url!PathDirectory(base) = SubSeq(base, 1, m - 1)
    BY <1>1, <2>1
  <2> HIDE DEF m
  <2>4. Url!IsPlain(base) <=> m = Len(base)
    BY <1>3, <2>1, <2>2 DEF Url!IsPlain
  <2>5. m \in Nat /\ m - 1 \in 3 .. Len(base) /\ (Url!IsPlain(base) <=> m - 1 = Len(base) - 1)
    BY <2>2, <2>4
  <2> QED
    BY <2>3, <2>5
<1> QED
  BY Zenon, <1>0, <1>2, <1>3

\* What resolveUrl makes of a relative uri is a text of two pieces or more.
LEMMA ResolveType ==
    ASSUME NEW P, NEW base \in Seq(P), NEW uri \in Seq(P), Len(base) > 1, Len(uri) > 0,
           ~Url!IsAbsolute(uri)
    PROVE  /\ Url!ResolveUrl(base, uri) \in Seq(P)
           /\ Len(Url!ResolveUrl(base, uri)) > 1
<1>1. CASE Url!IsRootRelative(uri)
  <2>1. PICK n \in 1 .. Len(base) : Url!Origin(base) = SubSeq(base, 1, n)
    BY OriginCorrect
  <2> DEFINE host == SubSeq(base, 1, n)
             path == Tail(uri)
  <2>2. Url!ResolveUrl(base, uri) = host \o path
    BY <1>1, <2>1 DEF Url!ResolveUrl, Url!ResolveRootRelative
  <2>3. host \in Seq(P) /\ Len(host) = n
    BY PrefixLength
  <2>4. path \in Seq(P) /\ Len(path) >= 1
    BY <1>1 DEF Url!IsRootRelative
  <2> HIDE DEF host, path
  <2>5. host \o path \in Seq(P) /\ Len(host \o path) = n + Len(path)
    BY <2>3, <2>4, JoinedLength
  <2>6. Len(host \o path) > 1
    BY <2>4, <2>5
  <2> QED
    BY <2>2, <2>5, <2>6
<1>2. CASE ~Url!IsRootRelative(uri)
  <2>0. Len(base) # 1
    BY Zenon, LengthIsNat, AtLeast
  <2> DEFINE here == SubSeq(base, 1, Len(base) - 1)
  <2>1. Url!ResolveUrl(base, uri) = here \o uri
    BY <1>2, <2>0 DEF Url!ResolveUrl, Url!ResolvePathRelative, Url!Directory
  <2>2. here \in Seq(P) /\ Len(here) = Len(base) - 1
    BY PrefixLength
  <2> HIDE DEF here
  <2>3. here \o uri \in Seq(P) /\ Len(here \o uri) = Len(base) - 1 + Len(uri)
    BY <2>2, JoinedLength
  <2>4. Len(here \o uri) > 1
    BY <2>3
  <2> QED
    BY <2>1, <2>3, <2>4
<1> QED
  BY <1>1, <1>2

\* A uri that is relative to the playlist is looked for in the directory of the path, except
\* for the two kinds of base that IsPlain excludes.
LEMMA PathRelativeCorrect ==
    ASSUME NEW P, NEW base \in Seq(P), NEW uri \in Seq(P), Url!IsUrl(base), Len(uri) > 0,
           Url!IsPathRelative(uri), ~Url!IsAbsolute(uri)
    PROVE  Url!ResolveUrl(base, uri) = Url!Designated(base, uri) <=> Url!IsPlain(base)
<1>1. Len(base) >= 3
  BY DEF Url!IsUrl
<1>2. PICK k \in 3 .. Len(base) : /\ Url!PathDirectory(base) = SubSeq(base, 1, k)
                                  /\ Url!IsPlain(base) <=> k = Len(base) - 1
  BY <1>1, DirectoryCorrect
<1> DEFINE here == SubSeq(base, 1, Len(base) - 1)
           there == SubSeq(base, 1, k)
<1>3. ~Url!IsRootRelative(uri)
  BY DEF Url!IsPathRelative, Url!IsAbsolutePath, Url!IsRootRelative
<1>4. Url!ResolveUrl(base, uri) = here \o uri /\ Url!Designated(base, uri) = there \o uri
  BY <1>1, <1>2, <1>3
     DEF Url!IsPathRelative, Url!ResolveUrl, Url!ResolvePathRelative, Url!Directory, Url!Designated
<1>5. here \in Seq(P) /\ Len(here) = Len(base) - 1 /\ there \in Seq(P) /\ Len(there) = k
  BY <1>1, PrefixLength
<1>6. k = Len(base) - 1 => here = there
  OBVIOUS
<1> HIDE DEF here, there
<1>7. Len(here \o uri) = Len(base) - 1 + Len(uri) /\ Len(there \o uri) = k + Len(uri)
  BY <1>5, JoinedLength
<1>8. ASSUME here \o uri = there \o uri PROVE k = Len(base) - 1
  <2>1. Len(base) - 1 + Len(uri) = k + Len(uri)
    BY <1>7, <1>8
  <2> QED
    BY <1>1, <2>1
<1> QED
  BY <1>2, <1>4, <1>6, <1>8

\* A path is looked for on the host of the playlist.
LEMMA AbsolutePathCorrect ==
    ASSUME NEW P, NEW base \in Seq(P), NEW uri \in Seq(P), Url!IsUrl(base),
           Url!IsAbsolutePath(uri), ~Url!IsAbsolute(uri)
    PROVE  Url!ResolveUrl(base, uri) = Url!Designated(base, uri)
<1>1. Url!IsRootRelative(uri) /\ ~Url!IsNetworkPath(uri) /\ Len(base) >= 3
  BY DEF Url!IsAbsolutePath, Url!IsRootRelative, Url!IsUrl
<1>2. ~Url!HasScheme(uri)
  BY Zenon, PiecesAssumption DEF Url!IsAbsolutePath, Url!HasScheme
<1>3. Url!Designated(base, uri) = SubSeq(base, 1, 3) \o Tail(uri)
  BY <1>1, <1>2 DEF Url!Designated
<1>4. Url!ResolveUrl(base, uri) = SubSeq(base, 1, 3) \o Tail(uri)
  <2>1. Len(base) # 1 /\ Url!Origin(base) = SubSeq(base, 1, 3)
    BY <1>1, OriginOfUrl
  <2> QED
    BY Zenon, <1>1, <2>1 DEF Url!ResolveUrl, Url!ResolveRootRelative
<1> QED
  BY <1>3, <1>4

\* What names another host is not looked for there, unless by http or https: it is taken for a
\* path, and the address is longer than the designated one.
LEMMA OtherHostWrong ==
    ASSUME NEW P, NEW base \in Seq(P), NEW uri \in Seq(P), Url!IsUrl(base), Len(uri) > 0,
           Url!HasScheme(uri) \/ Url!IsNetworkPath(uri), ~Url!IsAbsolute(uri)
    PROVE  Url!ResolveUrl(base, uri) # Url!Designated(base, uri)
<1>1. Len(base) >= 3
  BY DEF Url!IsUrl
<1>2. CASE Url!HasScheme(uri)
  <2>1. ~Url!IsRootRelative(uri)
    BY Zenon, <1>2, PiecesAssumption DEF Url!HasScheme, Url!IsRootRelative
  <2>0. Len(base) # 1
    BY Zenon, <1>1, LengthIsNat, AtLeast
  <2> DEFINE here == SubSeq(base, 1, Len(base) - 1)
  <2>2. Url!ResolveUrl(base, uri) = here \o uri /\ Url!Designated(base, uri) = uri
    BY Zenon, <1>2, <2>0, <2>1
       DEF Url!ResolveUrl, Url!ResolvePathRelative, Url!Directory, Url!Designated
  <2>3. here \in Seq(P) /\ Len(here) = Len(base) - 1
    BY <1>1, PrefixLength
  <2> HIDE DEF here
  <2>4. Len(here \o uri) = Len(base) - 1 + Len(uri)
    BY <2>3, JoinedLength
  <2>5. Len(here \o uri) # Len(uri)
    BY <1>1, <2>4
  <2> QED
    BY <2>2, <2>5
<1>3. CASE ~Url!HasScheme(uri) /\ Url!IsNetworkPath(uri)
  <2>1. Url!IsRootRelative(uri)
    BY <1>3 DEF Url!IsNetworkPath, Url!IsRootRelative
  <2> DEFINE host == SubSeq(base, 1, 3)
             scheme == SubSeq(base, 1, 1)
             path == Tail(uri)
  <2>2. Url!ResolveUrl(base, uri) = host \o path /\ Url!Designated(base, uri) = scheme \o path
    <3>1. Len(base) # 1 /\ Url!Origin(base) = host
      BY <1>1, OriginOfUrl
    <3> QED
      BY Zenon, <1>3, <2>1, <3>1 DEF Url!ResolveUrl, Url!ResolveRootRelative, Url!Designated
  <2>3. host \in Seq(P) /\ Len(host) = 3 /\ scheme \in Seq(P) /\ Len(scheme) = 1
    BY <1>1, PrefixLength
  <2>4. path \in Seq(P) /\ Len(path) \in Nat
    OBVIOUS
  <2> HIDE DEF host, scheme, path
  <2>5. Len(host \o path) = 3 + Len(path) /\ Len(scheme \o path) = 1 + Len(path)
    BY <2>3, <2>4, JoinedLength
  <2>6. Len(host \o path) # Len(scheme \o path)
    BY <2>4, <2>5
  <2> QED
    BY <2>2, <2>6
<1> QED
  BY <1>2, <1>3

\* Whatever resolveUrl is given, its result is a text, and in a playlist at an absolute url it is
\* the designated address exactly in the cases that Right names.
LEMMA ResolveCorrect ==
    ASSUME NEW base \in Texts, NEW uri \in Texts
    PROVE  /\ Url!ResolveUrl(base, uri) \in Texts
           /\ Right(base, uri, Url!ResolveUrl(base, uri))
<1>1. /\ base \in Seq(STRING) /\ Len(base) > 0 /\ uri \in Seq(STRING) /\ Len(uri) > 0
      /\ Len(base) = 1 \/ Len(base) > 1
  BY TextIsNotEmpty
<1>2. Url!ResolveUrl(base, uri) \in Texts
  <2>1. CASE Url!IsAbsolute(uri) \/ Len(base) = 1
    BY <2>1 DEF Url!ResolveUrl
  <2>2. CASE ~Url!IsAbsolute(uri) /\ Len(base) > 1
    BY <1>1, <2>2, ResolveType, LongIsText
  <2> QED
    BY <1>1, <2>1, <2>2
<1>3. ASSUME Url!IsUrl(base), Url!IsAbsolute(uri)
      PROVE  Url!ResolveUrl(base, uri) = Url!Designated(base, uri)
  <2>1. Url!HasScheme(uri)
    BY Zenon, <1>3, PiecesAssumption DEF Url!HasScheme, Url!IsAbsolute
  <2> QED
    BY <1>3, <2>1 DEF Url!ResolveUrl, Url!Designated
<1>4. ASSUME Url!IsUrl(base), ~Url!IsAbsolute(uri), Url!IsAbsolutePath(uri)
      PROVE  Url!ResolveUrl(base, uri) = Url!Designated(base, uri)
  BY <1>1, <1>4, AbsolutePathCorrect
<1>5. ASSUME Url!IsUrl(base), ~Url!IsAbsolute(uri), Url!IsPathRelative(uri)
      PROVE  Url!ResolveUrl(base, uri) = Url!Designated(base, uri) <=> Url!IsPlain(base)
  BY <1>1, <1>5, PathRelativeCorrect
<1>6. ASSUME Url!IsUrl(base), ~Url!IsAbsolute(uri), Url!HasScheme(uri) \/ Url!IsNetworkPath(uri)
      PROVE  Url!ResolveUrl(base, uri) # Url!Designated(base, uri)
  BY <1>1, <1>6, OtherHostWrong
<1>7. Url!IsPathRelative(uri) => ~Url!IsAbsolutePath(uri)
  BY DEF Url!IsPathRelative
<1>8. Url!HasScheme(uri) \/ Url!IsNetworkPath(uri) => ~Url!IsAbsolutePath(uri) /\ ~Url!IsPathRelative(uri)
  BY Zenon, PiecesAssumption DEF Url!HasScheme, Url!IsAbsolutePath, Url!IsPathRelative
<1>9. \/ Url!IsPathRelative(uri) \/ Url!IsAbsolutePath(uri)
      \/ Url!HasScheme(uri) \/ Url!IsNetworkPath(uri)
  BY DEF Url!IsPathRelative
<1> QED
  BY Zenon, <1>2, <1>3, <1>4, <1>5, <1>6, <1>7, <1>8, <1>9 DEF Right

-----------------------------------------------------------------------------
\* The sequence numbers of a queue, which is how the feed sees it

SeqsOf(queue) == [i \in DOMAIN queue |-> queue[i].seq]

LEMMA SeqsOfEmpty == SeqsOf(<<>>) = <<>>
  BY DEF SeqsOf

LEMMA SeqsOfQueue ==
    ASSUME NEW queue \in Seq(Segments)
    PROVE  SeqsOf(queue) \in Seq(SeqNumbers) /\ Len(SeqsOf(queue)) = Len(queue)
<1>1. DOMAIN queue = 1 .. Len(queue) /\ Len(queue) \in Nat
  OBVIOUS
<1>2. \A i \in 1 .. Len(queue) : queue[i] \in Segments
  OBVIOUS
<1>3. \A segment \in Segments : segment.seq \in SeqNumbers
  BY DEF Segments
<1> QED
  BY <1>1, <1>2, <1>3 DEF SeqsOf

LEMMA SeqsOfAppend ==
    ASSUME NEW queue \in Seq(Segments), NEW segment \in Segments
    PROVE  SeqsOf(Append(queue, segment)) = Append(SeqsOf(queue), segment.seq)
<1> DEFINE longer == Append(queue, segment)
           numbers == Append(SeqsOf(queue), segment.seq)
<1>1. SeqsOf(queue) \in Seq(SeqNumbers) /\ Len(SeqsOf(queue)) = Len(queue)
  BY SeqsOfQueue
<1>2. segment.seq \in SeqNumbers
  BY DEF Segments
<1>3. longer \in Seq(Segments) /\ Len(longer) = Len(queue) + 1
  OBVIOUS
<1>4. numbers \in Seq(SeqNumbers) /\ Len(numbers) = Len(queue) + 1
  BY <1>1, <1>2
<1>5. \A i \in 1 .. Len(queue) + 1 : SeqsOf(longer)[i] = numbers[i]
  BY <1>1, <1>2 DEF SeqsOf
<1> HIDE DEF longer, numbers
<1>6. SeqsOf(longer) \in Seq(SeqNumbers) /\ Len(SeqsOf(longer)) = Len(queue) + 1
  BY <1>3, SeqsOfQueue
<1>7. SeqsOf(longer) = numbers
  BY <1>4, <1>5, <1>6
<1> QED
  BY <1>7 DEF longer, numbers

LEMMA SeqsOfTail ==
    ASSUME NEW queue \in Seq(Segments), queue # <<>>
    PROVE  SeqsOf(Tail(queue)) = Tail(SeqsOf(queue))
<1> DEFINE shorter == Tail(queue)
           numbers == Tail(SeqsOf(queue))
<1>1. SeqsOf(queue) \in Seq(SeqNumbers) /\ Len(SeqsOf(queue)) = Len(queue)
  BY SeqsOfQueue
<1>2. shorter \in Seq(Segments) /\ Len(shorter) = Len(queue) - 1
  OBVIOUS
<1>3. numbers \in Seq(SeqNumbers) /\ Len(numbers) = Len(queue) - 1
  BY <1>1
<1>4. \A i \in 1 .. Len(queue) - 1 : SeqsOf(shorter)[i] = numbers[i]
  BY <1>1 DEF SeqsOf
<1> HIDE DEF shorter, numbers
<1>5. SeqsOf(shorter) \in Seq(SeqNumbers) /\ Len(SeqsOf(shorter)) = Len(queue) - 1
  BY <1>2, SeqsOfQueue
<1>6. SeqsOf(shorter) = numbers
  BY <1>3, <1>4, <1>5
<1> QED
  BY <1>6 DEF shorter, numbers

-----------------------------------------------------------------------------
\* The inductive invariant

\* A thread belongs to a session that start() has counted, with the url it was given.
SessionOfThread ==
    /\ call \in Urls => session < MaxStarts
    /\ wpc # "none" => session \in 1 .. MaxStarts /\ url \in Urls

\* What a session begins with: stop() emptied the queue.
QueueBegins == wpc \in {"none", "master"} => segment_queue_ = <<>>

\* The index of the AbrManager is one of this session's variants, although the object
\* outlives the sessions.
VariantExists == wpc \in InLoop => current_variant_index_ < Len(Stream[url].variants)

\* The loop is at a segment of the playlist while it transfers it and chooses the variant, and
\* transfers it because it is not fed yet.
AtSegment ==
    /\ wpc \in {"transfer", "abr"} => cursor <= Len(playlist.segments)
    /\ wpc = "transfer" => ctx.next <= playlist.segments[cursor]

\* The queue holds what was fetched from the addresses of the variant's own playlist.
Addresses ==
    \A i \in DOMAIN segment_queue_ :
        segment_queue_[i].address = SegmentAddress(url, ctx.uri, segment_queue_[i].seq)

UpgradesBegin == smoothed_throughput_ = 0 => consecutive_upgrades_ = 0

IInv ==
    /\ TypeOK
    /\ QueueOfCurrentVariant
    /\ UriIsSelected
    /\ SessionOfThread
    /\ QueueBegins
    /\ VariantExists
    /\ AtSegment
    /\ Addresses
    /\ UpgradesBegin

\* The bandwidths that the orchestrator hands to the AbrManager.
LEMMA BandwidthsCorrect ==
    ASSUME NEW u \in Urls
    PROVE  Bandwidths(u) \in Seq(Nat) /\ Len(Bandwidths(u)) = Len(Stream[u].variants)
<1>1. Stream[u].variants \in Seq(VariantStreams)
  BY StreamAssumption
<1> DEFINE list == Stream[u].variants
<1>2. list \in Seq(VariantStreams)
  BY <1>1
<1> HIDE DEF list
<1>3. DOMAIN list = 1 .. Len(list) /\ Len(list) \in Nat
  BY <1>2
<1>4. \A i \in 1 .. Len(list) : list[i] \in VariantStreams
  BY <1>2
<1>5. \A i \in 1 .. Len(list) : list[i].bandwidth \in Nat
  BY <1>4 DEF VariantStreams
<1>6. Bandwidths(u) = [i \in 1 .. Len(list) |-> list[i].bandwidth]
  BY <1>3 DEF Bandwidths, list
<1> QED
  BY <1>3, <1>5, <1>6 DEF list

\* The resolved uri of a variant that exists.
LEMMA VariantUriCorrect ==
    ASSUME url \in Urls, NEW index \in Nat, index < Len(Stream[url].variants)
    PROVE  /\ VariantUri(index) \in Texts
           /\ Right(Stream[url].url, Stream[url].variants[index + 1].uri, VariantUri(index))
<1> DEFINE list == Stream[url].variants
<1>1. Stream[url].url \in Texts /\ list \in Seq(VariantStreams)
  BY StreamAssumption
<1>2. index + 1 \in 1 .. Len(list)
  BY <1>1
<1>3. list[index + 1].uri \in Texts
  <2>1. list[index + 1] \in VariantStreams
    BY <1>1, <1>2
  <2> QED
    BY <2>1 DEF VariantStreams
<1> QED
  BY <1>1, <1>3, ResolveCorrect DEF VariantUri

\* calculateIdealVariantIndex returns an index of the list.
LEMMA IdealIndexInRange ==
    ASSUME NEW list \in Seq(Nat), list # <<>>, NEW s \in Nat
    PROVE  IdealIndex(list, s) \in 0 .. Len(list) - 1
<1> DEFINE P == FittingPrefix(list, s)
           U == {k \in Nat : \A i \in P : i <= k}
<1>1. Len(list) - 1 \in U /\ P \subseteq 0 .. Len(list) - 1
  BY DEF FittingPrefix
<1>2. CASE P = {}
  BY <1>1, <1>2 DEF IdealIndex
<1>3. CASE P # {}
  <2> DEFINE least == Url!Min(U)
  <2>1. least \in U /\ \A k \in U : least <= k
    BY <1>1, LeastExists
  <2> HIDE DEF least, P
  <2>2. least \in P
    <3>1. SUFFICES ASSUME least \notin P PROVE FALSE
      OBVIOUS
    <3>2. \A i \in P : i \in Nat /\ i <= least - 1
      BY <1>1, <2>1, <3>1
    <3>3. least - 1 \in U
      BY <1>3, <2>1, <3>2
    <3> QED
      BY <2>1, <3>3
  <2>3. Max(P) \in P
    BY <2>1, <2>2 DEF Max
  <2> QED
    BY <1>1, <1>3, <2>3 DEF IdealIndex, P
<1> QED
  BY <1>2, <1>3

\* What a call of selectVariant guarantees here, whatever the calls before it left: an index
\* of the list, and no favorable measurement counted before a positive one.
LEMMA SelectCorrect ==
    ASSUME AbrTypeOK, UpgradesBegin, NEW list \in Seq(Nat), NEW m \in Nat,
           SelectVariant(list, m)
    PROVE  AbrTypeOK' /\ UpgradesBegin' /\ current_variant_index_' < Len(list)
<1>1. list # <<>> /\ Len(list) \in Nat
  BY DEF SelectVariant
<1>2. CASE smoothed_throughput_ = 0
  BY <1>1, <1>2, IdealIndexInRange
     DEF SelectVariant, InitializeFirstSegment, AbrTypeOK, UpgradesBegin
<1>3. CASE smoothed_throughput_ # 0
  <2> DEFINE s == Ewma(m, smoothed_throughput_)
             ideal == IdealIndex(list, s)
  <2>1. s \in Nat \ {0}
    <3>1. Alpha * m \in Nat /\ (10 - Alpha) * smoothed_throughput_ \in Nat \ {0}
      BY <1>3, AlphaAssumption DEF AbrTypeOK
    <3> QED
      BY <3>1 DEF Ewma
  <2>2. smoothed_throughput_' = s /\ ApplyHysteresis(ideal)
    BY <1>3 DEF SelectVariant
  <2>3. ideal \in 0 .. Len(list) - 1
    BY <1>1, <2>1, IdealIndexInRange
  <2> HIDE DEF s, ideal
  <2> QED
    BY <1>1, <2>1, <2>2, <2>3 DEF ApplyHysteresis, AbrTypeOK, UpgradesBegin
<1> QED
  BY <1>2, <1>3

\* selectVariant on this session's variants, in whatever state the sessions before left the
\* AbrManager.
LEMMA Select ==
    ASSUME AbrTypeOK, UpgradesBegin, url \in Urls, NEW m \in Nat,
           SelectVariant(Bandwidths(url), m)
    PROVE  /\ AbrTypeOK' /\ UpgradesBegin'
           /\ current_variant_index_' \in Nat
           /\ current_variant_index_' < Len(Stream[url].variants)
           /\ VariantUri(current_variant_index_') \in Texts
<1>1. Bandwidths(url) \in Seq(Nat) /\ Len(Bandwidths(url)) = Len(Stream[url].variants)
  BY BandwidthsCorrect
<1>2. AbrTypeOK' /\ UpgradesBegin' /\ current_variant_index_' < Len(Bandwidths(url))
  BY <1>1, SelectCorrect
<1>3. current_variant_index_' \in Nat
  BY <1>2 DEF AbrTypeOK
<1> QED
  BY <1>1, <1>2, <1>3, VariantUriCorrect

\* The context of a session before its first variant, and on a variant.
LEMMA NoContextCorrect ==
    /\ NoContext \in Contexts
    /\ \A uri \in Texts : [NoContext EXCEPT !.uri = uri] \in Contexts
<1>1. 0 \in SeqNumbers
  BY NumbersAssumption DEF SeqNumbers
<1> QED
  BY <1>1 DEF NoContext, Contexts

LEMMA InitIInv == Init => IInv
<1> SUFFICES ASSUME Init PROVE IInv
  OBVIOUS
<1>1. TypeOK
  <2>1. segment_queue_ \in Seq(Segments) /\ hand \in Seq(Segments) /\ Len(hand) <= 1
    BY DEF Init
  <2>2. AbrTypeOK /\ session \in 0 .. MaxStarts
    BY NumbersAssumption DEF Init, AbrInit, AbrTypeOK
  <2>3. /\ wpc \in WorkerPlaces /\ stop_ \in BOOLEAN /\ url \in Urls \cup {None} /\ ctx \in Contexts
        /\ playlist \in MediaPlaylists \cup {None} /\ call \in Urls \cup {"stop", None}
        /\ wpc \notin {"segments", "transfer", "abr"}
    BY NoContextCorrect DEF Init, WorkerPlaces
  <2> QED
    BY <2>1, <2>2, <2>3 DEF TypeOK
<1> QED
  BY <1>1, NamesAssumption DEF Init, AbrInit, IInv, QueueOfCurrentVariant, UriIsSelected,
          SessionOfThread, QueueBegins, VariantExists, AtSegment, Addresses, UpgradesBegin, InLoop

LEMMA CallStep ==
    ASSUME IInv, NEW what \in Urls \cup {"stop"}, Call(what)
    PROVE  IInv'
<1>1. TypeOK'
  BY DEF IInv, TypeOK, Call, abrVars, AbrTypeOK, loopVars
<1>2. SessionOfThread'
  BY NamesAssumption DEF IInv, SessionOfThread, Call, loopVars
<1> QED
  BY <1>1, <1>2 DEF IInv, Call, loopVars, abrVars, QueueOfCurrentVariant, UriIsSelected,
          QueueBegins, VariantExists, AtSegment, Addresses, UpgradesBegin, VariantUri

LEMMA ReturnStep == ASSUME IInv, Return PROVE IInv'
<1>1. TypeOK'
  <2>1. segment_queue_' \in Seq(Segments)
    BY DEF Return, ClearQueue
  <2>2. AbrTypeOK' /\ ctx' \in Contexts /\ stop_' \in BOOLEAN /\ call' = None
    BY NoContextCorrect DEF IInv, TypeOK, Return, abrVars, AbrTypeOK
  <2>3. wpc' \in {"none", "master"} /\ url' \in Urls \cup {None}
    BY NamesAssumption DEF IInv, TypeOK, Return
  <2>4. session' \in 0 .. MaxStarts
    BY NumbersAssumption, NamesAssumption DEF IInv, TypeOK, SessionOfThread, Return
  <2> QED
    BY <2>1, <2>2, <2>3, <2>4 DEF IInv, TypeOK, Return, WorkerPlaces
<1>2. SessionOfThread'
  BY NumbersAssumption, NamesAssumption DEF IInv, SessionOfThread, TypeOK, Return
<1>3. segment_queue_' = <<>> /\ wpc' \in {"none", "master"}
  BY DEF Return, ClearQueue
<1> QED
  BY <1>1, <1>2, <1>3 DEF IInv, Return, abrVars, QueueOfCurrentVariant, UriIsSelected,
          QueueBegins, VariantExists, AtSegment, Addresses, UpgradesBegin, InLoop

LEMMA FetchMasterStep == ASSUME IInv, FetchMaster PROVE IInv'
<1>1. /\ TypeOK /\ AbrTypeOK /\ UpgradesBegin /\ url \in Urls /\ segment_queue_ = <<>>
      /\ session \in 1 .. MaxStarts
  BY DEF IInv, TypeOK, SessionOfThread, QueueBegins, FetchMaster
<1>2. CASE wpc' = "done" /\ UNCHANGED <<abrVars, ctx>>
  BY <1>1, <1>2 DEF IInv, FetchMaster, apiVars, abrVars, TypeOK, AbrTypeOK, WorkerPlaces,
          QueueOfCurrentVariant, UriIsSelected, SessionOfThread,
          QueueBegins, VariantExists, AtSegment, Addresses, UpgradesBegin, InLoop
<1>3. CASE /\ SelectVariant(Bandwidths(url), 0)
           /\ ctx' = [NoContext EXCEPT !.uri = VariantUri(current_variant_index_')]
           /\ wpc' = "loop"
  <2>1. /\ AbrTypeOK' /\ UpgradesBegin'
        /\ current_variant_index_' < Len(Stream[url].variants)
        /\ VariantUri(current_variant_index_') \in Texts
    BY <1>1, <1>3, Select
  <2>2. UNCHANGED <<segment_queue_, url, playlist, cursor, stop_, call, session, hand>>
    BY DEF FetchMaster, apiVars
  <2>3. ctx' \in Contexts
    BY <1>3, <2>1, NoContextCorrect
  <2>4. TypeOK'
    BY <1>1, <1>3, <2>1, <2>2, <2>3 DEF TypeOK, WorkerPlaces, InLoop
  <2>5. UriIsSelected' /\ VariantExists'
    BY <1>3, <2>1, <2>2 DEF UriIsSelected, VariantExists, VariantUri, NoContext
  <2> QED
    BY <1>1, <1>3, <2>1, <2>2, <2>4, <2>5 DEF IInv, QueueOfCurrentVariant, SessionOfThread,
            QueueBegins, AtSegment, Addresses
<1> QED
  BY <1>2, <1>3 DEF FetchMaster

LEMMA LoopTestStep == ASSUME IInv, LoopTest PROVE IInv'
<1>1. TypeOK'
  BY DEF IInv, TypeOK, LoopTest, abrVars, AbrTypeOK, loopVars, apiVars, WorkerPlaces, InLoop
<1> QED
  BY <1>1 DEF IInv, LoopTest, loopVars, abrVars, apiVars, QueueOfCurrentVariant, UriIsSelected,
          SessionOfThread, QueueBegins, VariantExists, AtSegment, Addresses, UpgradesBegin,
          VariantUri, InLoop

LEMMA FetchPlaylistStep == ASSUME IInv, FetchPlaylist PROVE IInv'
<1>1. TypeOK'
  <2>1. CASE \E p \in MediaPlaylists : Downloaded(p) /\ wpc' = "segments"
    <3>1. PICK p \in MediaPlaylists : playlist' = p /\ cursor' = 1 /\ wpc' = "segments"
      BY <2>1 DEF Downloaded
    <3>2. p # None /\ cursor' \in 1 .. Len(p.segments) + 1
      <4>1. p.segments \in Seq(SeqNumbers)
        BY PlaylistsAssumption
      <4> QED
        BY <3>1, <4>1, NamesAssumption
    <3> QED
      BY <3>1, <3>2 DEF IInv, TypeOK, FetchPlaylist, abrVars, AbrTypeOK, apiVars,
              WorkerPlaces, InLoop
  <2>2. CASE wpc' = "done" /\ UNCHANGED <<playlist, cursor>>
    BY <2>2 DEF IInv, TypeOK, FetchPlaylist, abrVars, AbrTypeOK, apiVars, WorkerPlaces, InLoop
  <2> QED
    BY <2>1, <2>2 DEF FetchPlaylist
<1> QED
  BY <1>1 DEF IInv, FetchPlaylist, abrVars, apiVars, QueueOfCurrentVariant, UriIsSelected,
          SessionOfThread, QueueBegins, VariantExists, AtSegment, Addresses, UpgradesBegin,
          VariantUri, InLoop

\* The playlist that the loop over the segments is in.
LEMMA PlaylistCorrect ==
    ASSUME TypeOK, wpc \in {"segments", "transfer", "abr"}
    PROVE  /\ playlist \in MediaPlaylists /\ playlist.segments \in Seq(SeqNumbers)
           /\ cursor \in Nat /\ cursor > 0 /\ Len(playlist.segments) \in Nat
           /\ cursor <= Len(playlist.segments) + 1
<1>1. playlist \in MediaPlaylists /\ cursor \in 1 .. Len(playlist.segments) + 1
  BY DEF TypeOK
<1>2. playlist.segments \in Seq(SeqNumbers)
  BY <1>1, PlaylistsAssumption
<1> QED
  BY <1>1, <1>2

LEMMA SegmentTestStep == ASSUME IInv, SegmentTest PROVE IInv'
<1>1. /\ playlist.segments \in Seq(SeqNumbers) /\ cursor \in Nat /\ cursor > 0
      /\ Len(playlist.segments) \in Nat /\ cursor <= Len(playlist.segments) + 1
  BY PlaylistCorrect DEF IInv, SegmentTest
<1>2. /\ UNCHANGED <<segment_queue_, abrVars, url, ctx, playlist, apiVars, hand>>
      /\ TypeOK /\ AtSegment /\ wpc = "segments"
  BY DEF SegmentTest, IInv
<1>3. CASE wpc' \in {"done", "loop"} /\ UNCHANGED cursor
  <2>1. TypeOK'
    BY <1>2, <1>3 DEF TypeOK, abrVars, AbrTypeOK, apiVars, WorkerPlaces, InLoop
  <2> QED
    BY <1>2, <1>3, <2>1 DEF IInv, abrVars, apiVars, QueueOfCurrentVariant, UriIsSelected,
            SessionOfThread, QueueBegins, VariantExists, AtSegment, Addresses, UpgradesBegin,
            VariantUri, InLoop
<1>4. CASE /\ cursor <= Len(playlist.segments) /\ cursor' = cursor + 1
           /\ wpc' = "segments"
  <2>1. TypeOK'
    BY <1>1, <1>2, <1>4 DEF TypeOK, abrVars, AbrTypeOK, apiVars, WorkerPlaces, InLoop
  <2> QED
    BY <1>2, <1>4, <2>1 DEF IInv, abrVars, apiVars, QueueOfCurrentVariant, UriIsSelected,
            SessionOfThread, QueueBegins, VariantExists, AtSegment, Addresses, UpgradesBegin,
            VariantUri, InLoop
<1>5. CASE /\ cursor <= Len(playlist.segments) /\ ~AlreadyFed(playlist.segments[cursor])
           /\ wpc' = "transfer" /\ UNCHANGED cursor
  <2>1. TypeOK'
    BY <1>2, <1>5 DEF TypeOK, abrVars, AbrTypeOK, apiVars, WorkerPlaces, InLoop
  <2>2. playlist.segments[cursor] \in SeqNumbers
    BY <1>1, <1>5
  <2>3. ctx.next \in SeqNumbers
    BY <1>2 DEF TypeOK, Contexts
  <2>4. AtSegment'
    BY <1>2, <1>5, <2>2, <2>3, NumbersAssumption DEF AtSegment, AlreadyFed, SeqNumbers
  <2> QED
    BY <1>2, <1>5, <2>1, <2>4 DEF IInv, abrVars, apiVars, QueueOfCurrentVariant, UriIsSelected,
            SessionOfThread, QueueBegins, VariantExists, Addresses, UpgradesBegin,
            VariantUri, InLoop
<1> QED
  BY <1>2, <1>3, <1>4, <1>5 DEF SegmentTest, Continue

LEMMA TransferFailsStep == ASSUME IInv, TransferFails PROVE IInv'
<1>1. TypeOK'
  BY DEF IInv, TypeOK, TransferFails, Continue, abrVars, AbrTypeOK, loopVars, apiVars, WorkerPlaces,
         InLoop
<1> QED
  BY <1>1 DEF IInv, TransferFails, Continue, loopVars, abrVars, apiVars, QueueOfCurrentVariant,
          UriIsSelected, SessionOfThread, QueueBegins, VariantExists, AtSegment, Addresses,
          UpgradesBegin, VariantUri, InLoop

LEMMA PopStep == ASSUME IInv, Pop PROVE IInv'
<1> DEFINE queue == segment_queue_
<1>1. /\ queue \in Seq(Segments) /\ queue # <<>> /\ segment_queue_' = Tail(queue)
      /\ hand' = <<queue[1]>>
  BY DEF IInv, TypeOK, Pop
<1>2. /\ Tail(queue) \in Seq(Segments)
      /\ \A i \in DOMAIN Tail(queue) : i + 1 \in DOMAIN queue /\ Tail(queue)[i] = queue[i + 1]
  BY <1>1
<1>3. queue[1] \in Segments
  BY <1>1
<1>4. hand' \in Seq(Segments) /\ Len(hand') <= 1
  BY <1>1, <1>3
<1>5. TypeOK'
  BY <1>1, <1>2, <1>4 DEF IInv, TypeOK, Pop, abrVars, AbrTypeOK, loopVars, apiVars
<1>6. QueueOfCurrentVariant' /\ Addresses'
  BY <1>1, <1>2 DEF IInv, Pop, loopVars, apiVars, QueueOfCurrentVariant, Addresses
<1>7. QueueBegins'
  BY <1>1 DEF IInv, Pop, QueueBegins
<1> QED
  BY <1>5, <1>6, <1>7 DEF IInv, Pop, loopVars, abrVars, apiVars, UriIsSelected, SessionOfThread,
          VariantExists, AtSegment, UpgradesBegin, VariantUri

LEMMA DecodeStep == ASSUME IInv, Decode \/ UNCHANGED vars PROVE IInv'
<1>1. UNCHANGED <<segment_queue_, abrVars, wpc, loopVars, apiVars>> /\ (hand' = <<>> \/ hand' = hand)
  BY DEF Decode, vars
<1>2. TypeOK'
  <2>1. hand' \in Seq(Segments) /\ Len(hand') <= 1
    <3>1. CASE hand' = <<>>
      BY <3>1
    <3>2. CASE hand' = hand
      BY <3>2 DEF IInv, TypeOK
    <3> QED
      BY <1>1, <3>1, <3>2
  <2> QED
    BY <1>1, <2>1 DEF IInv, TypeOK, abrVars, AbrTypeOK, loopVars, apiVars
<1> QED
  BY <1>1, <1>2 DEF IInv, loopVars, abrVars, apiVars, QueueOfCurrentVariant, UriIsSelected,
          SessionOfThread, QueueBegins, VariantExists, AtSegment, Addresses, UpgradesBegin,
          VariantUri

\* What is pushed is a segment of the variant the context is on.
LEMMA PushedCorrect ==
    ASSUME IInv, wpc = "transfer"
    PROVE  LET seq == playlist.segments[cursor] IN
           /\ seq \in SeqNumbers
           /\ [session |-> session, uri |-> ctx.uri, seq |-> seq,
               address |-> SegmentAddress(url, ctx.uri, seq)] \in Segments
<1> DEFINE seq == playlist.segments[cursor]
<1>1. TypeOK /\ cursor <= Len(playlist.segments)
  BY DEF IInv, AtSegment
<1>2. /\ playlist.segments \in Seq(SeqNumbers) /\ cursor \in Nat /\ cursor > 0
      /\ Len(playlist.segments) \in Nat
  BY <1>1, PlaylistCorrect
<1>3. seq \in SeqNumbers
  BY <1>1, <1>2
<1>4. /\ url \in Urls /\ session \in 1 .. MaxStarts /\ current_variant_index_ \in Nat
      /\ current_variant_index_ < Len(Stream[url].variants)
      /\ ctx.uri = VariantUri(current_variant_index_)
  BY <1>1 DEF IInv, SessionOfThread, VariantExists, UriIsSelected, TypeOK, AbrTypeOK, InLoop
<1>5. ctx.uri \in Texts
  BY <1>4, VariantUriCorrect
<1>6. SegmentAddress(url, ctx.uri, seq) \in Texts
  BY <1>3, <1>5, ResolveCorrect, PlaylistsAssumption DEF SegmentAddress
<1> QED
  BY <1>3, <1>4, <1>5, <1>6 DEF Segments

LEMMA TransferSucceedsStep == ASSUME IInv, TransferSucceeds PROVE IInv'
<1> DEFINE seq == playlist.segments[cursor]
           segment == [session |-> session, uri |-> ctx.uri, seq |-> seq,
                       address |-> SegmentAddress(url, ctx.uri, seq)]
<1>1. TypeOK /\ wpc = "transfer" /\ wpc' = "abr" /\ cursor <= Len(playlist.segments)
  BY DEF IInv, AtSegment, TransferSucceeds
<1>2. seq \in SeqNumbers /\ segment \in Segments
  BY <1>1, PushedCorrect
<1>3. /\ UNCHANGED <<abrVars, url, playlist, cursor, apiVars, hand>>
      /\ segment_queue_' = Append(segment_queue_, segment)
  BY DEF TransferSucceeds
<1>4. PICK t \in Throughputs : ctx' = [ctx EXCEPT !.throughput = t, !.next = (seq + 1) % SeqMod]
  BY DEF TransferSucceeds
<1> HIDE DEF segment, seq
<1>5. segment_queue_ \in Seq(Segments)
  BY <1>1 DEF TypeOK
<1>6. (seq + 1) % SeqMod \in SeqNumbers
  BY <1>2, NumbersAssumption DEF SeqNumbers
<1>7. ctx' \in Contexts /\ ctx'.uri = ctx.uri
  BY <1>1, <1>4, <1>6 DEF TypeOK, Contexts
<1>8. TypeOK'
  <2>1. segment_queue_' \in Seq(Segments)
    BY <1>2, <1>3, <1>5
  <2> QED
    BY <1>1, <1>3, <1>7, <2>1 DEF TypeOK, abrVars, AbrTypeOK, apiVars, WorkerPlaces, InLoop
<1>9. \A i \in DOMAIN segment_queue_' :
          \/ segment_queue_'[i] = segment
          \/ i \in DOMAIN segment_queue_ /\ segment_queue_'[i] = segment_queue_[i]
  BY <1>2, <1>3, <1>5
<1>10. QueueOfCurrentVariant'
  <2>1. segment.session = session /\ segment.uri = ctx.uri
    BY DEF segment
  <2> QED
    BY <1>3, <1>7, <1>9, <2>1 DEF IInv, QueueOfCurrentVariant, apiVars
<1>11. Addresses'
  <2>1. segment.seq = seq /\ segment.address = SegmentAddress(url, ctx.uri, seq)
    BY DEF segment
  <2> QED
    BY <1>3, <1>7, <1>9, <2>1 DEF IInv, Addresses, SegmentAddress
<1>12. UriIsSelected' /\ VariantExists' /\ SessionOfThread' /\ QueueBegins' /\ UpgradesBegin'
  BY <1>1, <1>3, <1>7 DEF IInv, UriIsSelected, VariantExists, SessionOfThread, QueueBegins,
          UpgradesBegin, VariantUri, abrVars, apiVars, InLoop
<1>13. AtSegment'
  BY <1>1, <1>3 DEF AtSegment
<1> QED
  BY <1>8, <1>10, <1>11, <1>12, <1>13 DEF IInv

LEMMA ThroughputCorrect == \A t \in Throughputs \cup {0} : t \in Nat
  BY NumbersAssumption

LEMMA EvaluateAbrSwitchStep == ASSUME IInv, EvaluateAbrSwitch PROVE IInv'
<1>1. /\ TypeOK /\ AbrTypeOK /\ UpgradesBegin /\ url \in Urls /\ session \in 1 .. MaxStarts
      /\ wpc = "abr" /\ cursor <= Len(playlist.segments) /\ ctx.throughput \in Nat
  <2>1. TypeOK /\ wpc = "abr"
    BY DEF IInv, EvaluateAbrSwitch
  <2>2. ctx.throughput \in Throughputs \cup {0}
    BY <2>1 DEF TypeOK, Contexts
  <2>3. ctx.throughput \in Nat
    BY <2>2, ThroughputCorrect
  <2>4. AbrTypeOK
    BY <2>1 DEF TypeOK
  <2>5. UpgradesBegin
    BY DEF IInv
  <2>6. url \in Urls /\ session \in 1 .. MaxStarts
    BY <2>1 DEF IInv, SessionOfThread
  <2>7. cursor <= Len(playlist.segments)
    BY <2>1 DEF IInv, AtSegment
  <2> QED
    BY <2>1, <2>3, <2>4, <2>5, <2>6, <2>7, Zenon
<1>2. UNCHANGED <<url, playlist, stop_, call, session, hand>>
  BY DEF EvaluateAbrSwitch, apiVars
<1>3. /\ AbrTypeOK' /\ UpgradesBegin'
      /\ current_variant_index_' < Len(Stream[url].variants)
      /\ VariantUri(current_variant_index_') \in Texts
  BY <1>1, Select DEF EvaluateAbrSwitch
<1> DEFINE next_uri == VariantUri(current_variant_index_')
<1>4. CASE next_uri # ctx.uri
  <2>1. /\ segment_queue_' = <<>> /\ ctx' = [ctx EXCEPT !.uri = next_uri]
        /\ wpc' \in {"done", "loop"} /\ UNCHANGED cursor
    BY <1>4 DEF EvaluateAbrSwitch, SwitchTo, ClearQueue, Continue
  <2>2. ctx' \in Contexts /\ ctx'.uri = next_uri
    BY <1>1, <1>3, <2>1 DEF TypeOK, Contexts
  <2>3. TypeOK'
    <3>1. segment_queue_' \in Seq(Segments)
      BY <2>1
    <3> QED
      BY <1>1, <1>2, <1>3, <2>1, <2>2, <3>1 DEF TypeOK, WorkerPlaces, InLoop
  <2>4. UriIsSelected' /\ VariantExists'
    BY <1>2, <1>3, <2>2 DEF UriIsSelected, VariantExists, VariantUri
  <2>5. QueueOfCurrentVariant' /\ Addresses' /\ QueueBegins' /\ AtSegment'
    BY <2>1 DEF QueueOfCurrentVariant, Addresses, QueueBegins, AtSegment
  <2> QED
    BY <1>1, <1>2, <1>3, <2>1, <2>3, <2>4, <2>5 DEF IInv, SessionOfThread
<1>5. CASE next_uri = ctx.uri
  <2>1. cursor' = cursor + 1 /\ wpc' = "segments" /\ UNCHANGED <<segment_queue_, ctx>>
    BY <1>5 DEF EvaluateAbrSwitch
  <2>2. /\ cursor \in Nat /\ cursor > 0 /\ Len(playlist.segments) \in Nat
    BY <1>1, PlaylistCorrect
  <2>3. TypeOK'
    BY <1>1, <1>2, <1>3, <2>1, <2>2 DEF TypeOK, WorkerPlaces, InLoop
  <2>4. UriIsSelected' /\ VariantExists'
    BY <1>2, <1>3, <1>5, <2>1 DEF UriIsSelected, VariantExists, VariantUri
  <2> QED
    BY <1>1, <1>2, <1>3, <2>1, <2>3, <2>4 DEF IInv, SessionOfThread, QueueOfCurrentVariant, Addresses,
            QueueBegins, AtSegment
<1> QED
  BY <1>4, <1>5

LEMMA NextIInv == IInv /\ [Next]_vars => IInv'
<1> SUFFICES ASSUME IInv, [Next]_vars PROVE IInv'
  OBVIOUS
<1>1. CASE \E what \in Urls \cup {"stop"} : Call(what)
  BY <1>1, CallStep
<1>2. CASE Return
  BY <1>2, ReturnStep
<1>3. CASE Worker
  BY <1>3, FetchMasterStep, LoopTestStep, FetchPlaylistStep, SegmentTestStep, TransferFailsStep,
     TransferSucceedsStep, EvaluateAbrSwitchStep DEF Worker
<1>4. CASE Pop
  BY <1>4, PopStep
<1>5. CASE Decode \/ UNCHANGED vars
  BY <1>5, DecodeStep
<1> QED
  BY <1>1, <1>2, <1>3, <1>4, <1>5 DEF Next

LEMMA Invariance == Spec => []IInv
  BY InitIInv, NextIInv, PTL DEF Spec

-----------------------------------------------------------------------------
\* The loop over the segments stays in its playlist, and the fields keep their types.
THEOREM TypeCorrect == Spec => []TypeOK
  BY Invariance, PTL DEF IInv

\* Neither a restart nor a switch leaves segments of another session or variant in the queue, and
\* the uri of the context is that of the AbrManager's variant: after every sequence of sessions,
\* switches and stops.
THEOREM VariantsAlwaysAgree == Spec => []VariantsAgree
<1>1. IInv => VariantsAgree
  BY DEF IInv, VariantsAgree
<1> QED
  BY <1>1, Invariance, PTL

\* After stop() the queue is empty.
THEOREM StopAlwaysEmpties == Spec => []StopEmpties
<1>1. IInv => StopEmpties
  BY DEF IInv, QueueBegins, StopEmpties
<1> QED
  BY <1>1, Invariance, PTL

\* Every playlist, and every segment that waits in the queue, was fetched from the address that
\* its uri designates in a playlist at an absolute url, exactly in the cases that Right names,
\* whatever the texts are.
THEOREM AlwaysFetchedAsWritten == Spec => []FetchedAsWritten
<1>1. ASSUME IInv PROVE FetchedAsWritten
  <2>1. ASSUME wpc \in InLoop
        PROVE  Right(Stream[url].url, Stream[url].variants[current_variant_index_ + 1].uri, ctx.uri)
    BY <1>1, <2>1, VariantUriCorrect
       DEF IInv, UriIsSelected, VariantExists, SessionOfThread, TypeOK, AbrTypeOK, InLoop
  <2>2. ASSUME NEW i \in DOMAIN segment_queue_
        PROVE  Right(ctx.uri, SegmentUri[segment_queue_[i].seq], segment_queue_[i].address)
    <3>1. segment_queue_[i] \in Segments
      BY <1>1, <2>2 DEF IInv, TypeOK
    <3>2. ctx.uri \in Texts /\ segment_queue_[i].seq \in SeqNumbers
      BY <1>1, <3>1 DEF IInv, QueueOfCurrentVariant, Segments
    <3>3. segment_queue_[i].address = Url!ResolveUrl(ctx.uri, SegmentUri[segment_queue_[i].seq])
      BY <1>1 DEF IInv, Addresses, SegmentAddress
    <3>4. SegmentUri[segment_queue_[i].seq] \in Texts
      BY <3>2, PlaylistsAssumption
    <3> QED
      BY <3>2, <3>3, <3>4, ResolveCorrect
  <2> QED
    BY <2>1, <2>2 DEF FetchedAsWritten
<1> QED
  BY <1>1, Invariance, PTL

-----------------------------------------------------------------------------
\* The refinement of SegmentFeed

\* No playlist names the last sequence number a uint64_t can hold.
NumbersBelowWrap ==
    \A p \in MediaPlaylists : \A i \in DOMAIN p.segments : p.segments[i] # SeqMod - 1

LEMMA InitFeed == Init => Feed!FeedInit
  BY SeqsOfEmpty DEF Init, NoContext, Feed!FeedInit, SeqsOf

\* Every step of the orchestrator is a step of the feed, or none.
LEMMA NextFeed ==
    ASSUME NumbersBelowWrap
    PROVE  IInv /\ [Next]_vars => [Feed!FeedNext]_(Feed!feedVars)
<1> SUFFICES ASSUME IInv, [Next]_vars PROVE [Feed!FeedNext]_(Feed!feedVars)
  OBVIOUS
<1> DEFINE feed == SeqsOf(segment_queue_)
           Unseen == segment_queue_' = segment_queue_ /\ ctx'.next = ctx.next
           Dropped == segment_queue_' = <<>> /\ ctx'.next = ctx.next
<1>1. ASSUME Unseen PROVE UNCHANGED Feed!feedVars
  BY <1>1 DEF Feed!feedVars
<1>2. ASSUME Dropped PROVE Feed!Drop
  BY <1>2, SeqsOfEmpty DEF Feed!Drop, SeqsOf
<1>3. CASE Return
  <2>1. segment_queue_' = <<>> /\ ctx'.next = 0
    BY <1>3 DEF Return, ClearQueue, NoContext
  <2>2. Feed!Reset
    BY <2>1, SeqsOfEmpty DEF Feed!Reset, SeqsOf
  <2> QED
    BY <2>2 DEF Feed!FeedNext
<1>4. CASE FetchMaster
  <2>1. segment_queue_ = <<>> /\ segment_queue_' = <<>> /\ ctx'.next \in {0, ctx.next}
    BY <1>4 DEF FetchMaster, IInv, QueueBegins, NoContext
  <2>2. Feed!Reset \/ Feed!Drop
    BY <2>1, SeqsOfEmpty DEF Feed!Reset, Feed!Drop, SeqsOf
  <2> QED
    BY <2>2 DEF Feed!FeedNext
<1>5. CASE TransferSucceeds
  <2> DEFINE seq == playlist.segments[cursor]
             segment == [session |-> session, uri |-> ctx.uri, seq |-> seq,
                         address |-> SegmentAddress(url, ctx.uri, seq)]
  <2>1. /\ TypeOK /\ TypeOK' /\ wpc = "transfer" /\ cursor <= Len(playlist.segments) /\ ctx.next <= seq
    BY <1>5, TransferSucceedsStep DEF IInv, AtSegment, TransferSucceeds
  <2>2. /\ playlist \in MediaPlaylists /\ playlist.segments \in Seq(SeqNumbers)
        /\ cursor \in Nat /\ cursor > 0 /\ Len(playlist.segments) \in Nat
    BY <2>1, PlaylistCorrect
  <2>3. seq \in SeqNumbers /\ seq # SeqMod - 1
    BY <2>1, <2>2 DEF NumbersBelowWrap
  <2>4. segment_queue_' = Append(segment_queue_, segment) /\ segment.seq = seq
    BY <1>5 DEF TransferSucceeds
  <2>5. ctx'.next = (seq + 1) % SeqMod
    BY <1>5, <2>1 DEF TransferSucceeds, TypeOK, Contexts
  <2>6. ctx'.next = seq + 1
    BY <2>3, <2>5, NumbersAssumption DEF SeqNumbers
  <2>7. segment \in Segments /\ segment_queue_ \in Seq(Segments)
    BY <1>5, <2>1, <2>3, PushedCorrect DEF TypeOK
  <2> HIDE DEF segment, seq
  <2>8. SeqsOf(segment_queue_') = Append(SeqsOf(segment_queue_), seq)
    BY <2>4, <2>7, SeqsOfAppend
  <2>9. Feed!Deliver(seq)
    BY <2>1, <2>6, <2>8 DEF Feed!Deliver, SeqsOf, seq
  <2>10. \E n \in SeqNumbers : Feed!Deliver(n)
    BY <2>3, <2>9 DEF Feed!Deliver
  <2> QED
    BY <2>10 DEF Feed!FeedNext
<1>6. CASE EvaluateAbrSwitch
  <2>1. ctx \in Contexts
    BY DEF IInv, TypeOK
  <2>2. \/ segment_queue_' = segment_queue_ /\ ctx' = ctx
        \/ \E uri : segment_queue_' = <<>> /\ ctx' = [ctx EXCEPT !.uri = uri]
    BY <1>6 DEF EvaluateAbrSwitch, SwitchTo, ClearQueue
  <2>3. Unseen \/ Dropped
    BY <2>1, <2>2 DEF Contexts
  <2> QED
    BY <1>1, <1>2, <2>3 DEF Feed!FeedNext
<1>7. CASE Pop
  <2>1. /\ segment_queue_ \in Seq(Segments) /\ segment_queue_ # <<>>
        /\ segment_queue_' = Tail(segment_queue_) /\ ctx' = ctx
    BY <1>7 DEF Pop, loopVars, IInv, TypeOK
  <2>2. SeqsOf(segment_queue_') = Tail(SeqsOf(segment_queue_)) /\ SeqsOf(segment_queue_) # <<>>
    BY <2>1, SeqsOfTail, SeqsOfQueue
  <2>3. Feed!TakeSegment
    BY <2>1, <2>2 DEF Feed!TakeSegment, SeqsOf
  <2> QED
    BY <2>3 DEF Feed!FeedNext
<1>8. CASE \/ \E what \in Urls \cup {"stop"} : Call(what)
           \/ LoopTest \/ FetchPlaylist \/ SegmentTest \/ TransferFails \/ Decode \/ UNCHANGED vars
  <2>1. Unseen
    BY <1>8 DEF Call, LoopTest, FetchPlaylist, SegmentTest, TransferFails, Decode, vars, loopVars
  <2> QED
    BY <1>1, <2>1
<1> QED
  BY <1>3, <1>4, <1>5, <1>6, <1>7, <1>8 DEF Next, Worker

\* The sequence numbers that the demuxer thread gets from the queue only grow within a session,
\* through reloads, switches, failures and stops, as long as they stay below the largest
\* uint64_t.
THEOREM FeedGrows ==
    ASSUME NumbersBelowWrap
    PROVE  Spec => ImplementsFeed
  BY InitFeed, NextFeed, Invariance, PTL DEF Spec, ImplementsFeed, Feed!FeedSpec

-----------------------------------------------------------------------------
\* What CallReturns rests on besides fairness.

\* A call that waits for a download thread has asked it to stop.
AskedToStop == call # None /\ wpc # "none" => stop_

\* The steps that a download thread which was asked to stop still has before it, at most.
StepsLeft(place) ==
    CASE place = "transfer" -> 4
      [] place \in {"playlist", "abr"} -> 3
      [] place \in {"master", "segments"} -> 2
      [] place = "loop" -> 1
      [] OTHER -> 0

\* The request is made with the call and lasts until it returns: the thread and the consumer
\* have no part in it.
LEMMA NextAskedToStop == AskedToStop /\ [Next]_vars => AskedToStop'
<1> SUFFICES ASSUME AskedToStop, [Next]_vars PROVE AskedToStop'
  OBVIOUS
<1>1. ASSUME NEW what, Call(what) PROVE AskedToStop'
  BY <1>1 DEF Call, AskedToStop
<1>2. CASE Return
  BY <1>2 DEF Return, AskedToStop
<1>3. CASE Worker
  <2>1. wpc # "none" /\ call' = call /\ stop_' = stop_
    BY <1>3 DEF Worker, FetchMaster, LoopTest, FetchPlaylist, SegmentTest, TransferFails,
                TransferSucceeds, EvaluateAbrSwitch, apiVars
  <2> QED
    BY <2>1 DEF AskedToStop
<1>4. CASE Pop \/ Decode \/ UNCHANGED vars
  BY <1>4 DEF Pop, Decode, vars, apiVars, AskedToStop
<1> QED
  BY <1>1, <1>2, <1>3, <1>4 DEF Next

\* No call waits for a thread that does not know of it.
THEOREM AlwaysAskedToStop == Spec => []AskedToStop
<1>1. Init => AskedToStop
  BY DEF Init, AskedToStop
<1> QED
  BY <1>1, NextAskedToStop, PTL DEF Spec

\* Once asked, the thread is at most four steps from its end, whatever the playlists say and
\* however often they can be reloaded: it begins no transfer of a segment, fetches no
\* playlist anew, and each step it does take brings it nearer.
THEOREM StopLeadsOut == Spec => [][Worker /\ stop_ => StepsLeft(wpc') < StepsLeft(wpc)]_vars
<1>1. [Next]_vars => [Worker /\ stop_ => StepsLeft(wpc') < StepsLeft(wpc)]_vars
  <2> SUFFICES ASSUME Worker, stop_ PROVE StepsLeft(wpc') < StepsLeft(wpc)
    OBVIOUS
  <2>1. CASE FetchMaster
    <3>1. wpc = "master" /\ wpc' \in {"done", "loop"}
      BY <2>1 DEF FetchMaster
    <3> QED
      BY <3>1 DEF StepsLeft
  <2>2. CASE LoopTest
    <3>1. wpc = "loop" /\ wpc' = "done"
      BY <2>2 DEF LoopTest
    <3> QED
      BY <3>1 DEF StepsLeft
  <2>3. CASE FetchPlaylist
    <3>1. wpc = "playlist" /\ wpc' \in {"segments", "done"}
      BY <2>3 DEF FetchPlaylist
    <3> QED
      BY <3>1 DEF StepsLeft
  <2>4. CASE SegmentTest
    <3>1. wpc = "segments" /\ wpc' \in {"loop", "done"}
      BY <2>4 DEF SegmentTest, Continue
    <3> QED
      BY <3>1 DEF StepsLeft
  <2>5. CASE TransferFails \/ TransferSucceeds
    <3>1. wpc = "transfer" /\ wpc' \in {"abr", "done"}
      BY <2>5 DEF TransferFails, TransferSucceeds, Continue
    <3> QED
      BY <3>1 DEF StepsLeft
  <2>6. CASE EvaluateAbrSwitch
    <3>1. wpc = "abr" /\ wpc' \in {"segments", "loop", "done"}
      BY <2>6 DEF EvaluateAbrSwitch, Continue
    <3> QED
      BY <3>1 DEF StepsLeft
  <2> QED
    BY <2>1, <2>2, <2>3, <2>4, <2>5, <2>6 DEF Worker
<1> QED
  BY <1>1, PTL DEF Spec
=============================================================================
