------------------------- MODULE MediaDecoders_proofs -------------------------
(***************************************************************************)
(* Theorems about the demuxer and the decoders, for any segments, packets  *)
(* and codec.                                                              *)
(***************************************************************************)
EXTENDS MediaDecoders, WellFoundedInduction, SequenceTheorems, TLAPS

-----------------------------------------------------------------------------
\* The demuxer

\* A set of numbers from 1 to n that is not empty has a last one.
LEMMA LastExists ==
    ASSUME NEW n \in Nat, NEW S, S \subseteq 1 .. n, S # {}
    PROVE  \E i \in S : \A j \in S : j <= i
<1> DEFINE Above == {k \in Nat : \A j \in S : j <= k}
           R == OpToRel(<, Nat)
<1>1. Above \subseteq Nat /\ n \in Above
  OBVIOUS
<1>2. PICK k \in Above : \A a \in Above : <<a, k>> \notin R
  BY <1>1, NatLessThanWellFounded, WFMin
<1>3. \A a \in Above : ~(a < k)
  BY <1>1, <1>2 DEF OpToRel
<1>4. k \in S
  <2>1. SUFFICES ASSUME k \notin S PROVE FALSE
    OBVIOUS
  <2>2. \A j \in S : j \in Nat /\ j >= 1 /\ j <= k - 1
    BY <2>1
  <2>3. k - 1 \in Nat
    <3>1. PICK j \in S : j \in Nat /\ j >= 1 /\ j <= k - 1
      BY <2>2
    <3> QED
      BY <3>1
  <2>4. k - 1 \in Above
    BY <2>2, <2>3
  <2> QED
    BY <1>3, <2>3, <2>4
<1> QED
  BY <1>4

\* The index of a stream is an index of the segment, or -1.
LEMMA LastOfCorrect ==
    ASSUME NEW streams \in Seq({"video", "audio", "other"}), NEW kind
    PROVE  LastOf(streams, kind) \in {-1} \cup DOMAIN streams
<1> DEFINE found == {i \in DOMAIN streams : streams[i] = kind}
<1>1. Len(streams) \in Nat /\ found \subseteq 1 .. Len(streams) /\ DOMAIN streams = 1 .. Len(streams)
  OBVIOUS
<1>2. CASE found = {}
  BY <1>2 DEF LastOf
<1>3. CASE found # {}
  <2>1. \E i \in found : \A j \in found : j <= i
    BY <1>1, <1>3, LastExists
  <2>2. LastOf(streams, kind) = CHOOSE i \in found : \A j \in found : j <= i
    BY <1>3 DEF LastOf
  <2> HIDE DEF found
  <2>3. LastOf(streams, kind) \in found
    BY <2>1, <2>2
  <2> QED
    BY <2>3 DEF found
<1> QED
  BY <1>2, <1>3

\* A quotient with one more divisor in its dividend is greater.
LEMMA QuotientGrows ==
    ASSUME NEW x \in Nat, NEW y \in Nat, NEW d \in Nat, 0 < d, x + d <= y
    PROVE  x \div d < y \div d
<1> DEFINE p == x \div d  q == y \div d
<1>1. p \in Nat /\ p * d <= x
  OBVIOUS
<1>2. q \in Nat /\ y < (q + 1) * d
  OBVIOUS
<1> HIDE DEF p, q
<1>3. ASSUME q <= p PROVE FALSE
  <2>1. PICK k \in Nat : p = q + k
    <3>1. p - q \in Nat /\ p = q + (p - q)
      BY <1>1, <1>2, <1>3
    <3> QED
      BY <3>1
  <2>2. p * d = q * d + k * d /\ (q + 1) * d = q * d + d /\ k * d \in Nat /\ q * d \in Nat
    BY <1>2, <2>1
  <2> QED
    BY <1>1, <1>2, <2>2
<1>4. p < q
  BY <1>1, <1>2, <1>3
<1> QED
  BY <1>4 DEF p, q

\* Converted times are in the order of those of the segment, and equal where they are.
LEMMA MicrosecondsMonotone ==
    ASSUME NEW s \in Nat, NEW t \in Nat
    PROVE  /\ Microseconds(s) \in Nat
           /\ s < t => Microseconds(s) < Microseconds(t)
<1> DEFINE d == 2 * TimeBase
           x == 2 * Micro * s + TimeBase
           y == 2 * Micro * t + TimeBase
<1>1. Micro \in Nat
  BY SMT DEF Micro
<1>2. TimeBase \in Nat /\ 1 <= TimeBase /\ TimeBase <= Micro
  BY <1>1, TimeBaseAssumption
<1>3. Micro * s \in Nat /\ Micro * t \in Nat
  BY <1>1
<1>4. s < t => Micro * s + Micro <= Micro * t
  <2>1. SUFFICES ASSUME s < t PROVE Micro * s + Micro <= Micro * t
    OBVIOUS
  <2>2. t - s - 1 \in Nat /\ t = s + 1 + (t - s - 1)
    BY <2>1
  <2>3. PICK k \in Nat : t = s + 1 + k
    BY <2>2
  <2>4. Micro * t = Micro * s + Micro + Micro * k /\ Micro * k \in Nat
    BY <1>1, <2>3
  <2> QED
    BY <1>1, <1>3, <2>4
<1>5. 2 * Micro * s = 2 * (Micro * s) /\ 2 * Micro * t = 2 * (Micro * t)
  BY <1>1
<1>6. d \in Nat /\ 0 < d /\ x \in Nat /\ y \in Nat
  BY <1>2, <1>3, <1>5
<1>7. s < t => x + d <= y
  BY <1>1, <1>2, <1>3, <1>4, <1>5
<1>8. Microseconds(s) = x \div d /\ Microseconds(t) = y \div d
  BY DEF Microseconds
<1> HIDE DEF d, x, y
<1>9. x \div d \in Nat
  BY <1>6
<1>10. s < t => x \div d < y \div d
  BY <1>6, <1>7, QuotientGrows
<1> QED
  BY <1>8, <1>9, <1>10

\* How many of the unique_ptrs hold an object where the scope has come to.
Constructed ==
    CASE at \in {"idle", "buffer", "avio"} -> 0
      [] at = "format" -> 1
      [] at \in {"open", "info", "streams", "packet"} -> 2
      [] at = "read" -> 3
      [] OTHER -> Len(owned)

\* The unique_ptrs hold what was constructed first, in that order, and what they hold is all
\* that exists, except for what has no owner.
Ownership ==
    /\ Len(owned) = Constructed /\ Len(owned) <= 3
    /\ Len(owned) >= 1 => owned[1] = "avio"
    /\ Len(owned) >= 2 => owned[2] = "format"
    /\ Len(owned) >= 3 => owned[3] = "packet"
    /\ "avio" \in live <=> Len(owned) >= 1
    /\ "format" \in live <=> Len(owned) >= 2
    /\ "packet" \in live <=> Len(owned) >= 3
    /\ Len(owned) >= 1 \/ at = "avio" => "buffer" \in live
    /\ at = "buffer" => live = {}

\* What has no owner stays to the end: the buffer, which comes first, and the filters, which
\* come with the input.
Leftover ==
    /\ "filters" \in live => "buffer" \in live
    /\ at \in {"info", "streams", "packet", "read"} \/ outcome = "packets" => "filters" \in live
    /\ outcome = "packets" => at \in {"leave", "idle"}
    /\ at = "avio" => "filters" \notin live

\* What the call has found out is of its own segment.
Found ==
    /\ at \in {"buffer", "avio", "format", "open", "info", "streams"} =>
          video_stream_index = -1 /\ audio_stream_index = -1
    /\ at \in {"packet", "read"} \/ outcome = "packets" =>
          /\ video_stream_index = LastOf(input.streams, "video")
          /\ audio_stream_index = LastOf(input.streams, "audio")
    /\ video_stream_index \in {-1, LastOf(input.streams, "video")}
    /\ audio_stream_index \in {-1, LastOf(input.streams, "audio")}

\* Every packet is the one at its place in the segment.
Read ==
    /\ Len(packets) <= Len(input.packets)
    /\ \A i \in DOMAIN packets :
          /\ packets[i].stream = input.packets[i].stream
          /\ packets[i].time = Converted(input.packets[i].time)

\* Preserved by every step of the demuxer.
DemuxerIInv == DemuxerTypeOK /\ Ownership /\ Leftover /\ Found /\ Read

LEMMA DemuxerInitIInv ==
    ASSUME DemuxerInit PROVE DemuxerIInv
<1>1. input.packets \in Seq(DemuxedPacket) /\ input \in Inputs
  BY InputsAssumption DEF DemuxerInit
<1>2. DemuxerTypeOK
  BY <1>1 DEF DemuxerInit, DemuxerTypeOK, Statements
<1>3. Ownership /\ Leftover
  BY DEF DemuxerInit, Ownership, Constructed, Leftover
<1>4. Found
  BY DEF DemuxerInit, Found
<1>5. Read
  BY <1>1 DEF DemuxerInit, Read
<1> QED
  BY <1>2, <1>3, <1>4, <1>5 DEF DemuxerIInv

\* The call.
LEMMA DemuxStep ==
    ASSUME DemuxerIInv, NEW segment \in Inputs, Demux(segment) PROVE DemuxerIInv'
<1>1. /\ at = "idle" /\ at' = "buffer" /\ input' = segment /\ live' = {} /\ packets' = <<>>
      /\ outcome' = "none" /\ video_stream_index' = -1 /\ audio_stream_index' = -1
      /\ owned' = owned
  BY DEF Demux
<1>2. segment.packets \in Seq(DemuxedPacket)
  BY InputsAssumption
<1>3. DemuxerTypeOK'
  BY <1>1 DEF DemuxerIInv, DemuxerTypeOK, Statements
<1>4. Ownership' /\ Leftover'
  BY <1>1 DEF DemuxerIInv, Ownership, Constructed, Leftover
<1>5. Found'
  BY <1>1 DEF Found
<1>6. Read'
  BY <1>1, <1>2 DEF Read
<1> QED
  BY <1>3, <1>4, <1>5, <1>6 DEF DemuxerIInv

\* A statement that touches neither the indices nor the packets, whether it succeeds or throws.
LEMMA FoundAndReadUnchanged ==
    ASSUME Found, Read, UNCHANGED <<outVars, packets>>,
           at' \in {"buffer", "avio", "format", "open", "info", "streams"} =>
              at \in {"buffer", "avio", "format", "open", "info", "streams"},
           at' \in {"packet", "read"} => at \in {"packet", "read"},
           outcome' = "packets" => outcome = "packets" \/ at \in {"packet", "read"}
    PROVE  Found' /\ Read'
<1>1. UNCHANGED <<input, video_stream_index, audio_stream_index, packets>>
  BY DEF outVars
<1>2. Found'
  BY <1>1 DEF Found
<1>3. Read'
  BY <1>1 DEF Read
<1> QED
  BY <1>2, <1>3

\* A step that leaves the buffer and the filters alone.
LEMMA LeftoverStays ==
    ASSUME Leftover,
           "buffer" \in live => "buffer" \in live', "filters" \in live' <=> "filters" \in live,
           at' \in {"info", "streams", "packet", "read"}
              => at \in {"info", "streams", "packet", "read"},
           outcome' = "packets" => outcome = "packets" \/ at = "read",
           outcome' = "packets" => at' \in {"leave", "idle"},
           at' # "avio"
    PROVE  Leftover'
BY DEF Leftover

\* One unique_ptr more, for the object that comes next.
LEMMA AcquireOwnership ==
    ASSUME DemuxerTypeOK, Ownership, NEW object \in Objects, Acquire(object),
           \/ at = "avio" /\ at' = "format" /\ object = "avio"
           \/ at = "format" /\ at' = "open" /\ object = "format"
           \/ at = "packet" /\ at' = "read" /\ object = "packet"
    PROVE  Ownership' /\ owned' \in Seq(Objects) /\ live' \subseteq Objects
<1>1. owned \in Seq(Objects) /\ live \subseteq Objects /\ Len(owned) = Constructed
  BY DEF DemuxerTypeOK, Ownership
<1>2. owned' = Append(owned, object) /\ live' = live \cup {object}
  BY DEF Acquire
<1>3. /\ owned' \in Seq(Objects) /\ Len(owned') = Len(owned) + 1
      /\ \A i \in 1 .. Len(owned) : owned'[i] = owned[i]
      /\ owned'[Len(owned) + 1] = object
  BY <1>1, <1>2, AppendProperties
<1>4. Ownership'
  BY <1>1, <1>2, <1>3 DEF Ownership, Constructed
<1> QED
  BY <1>1, <1>2, <1>3, <1>4

\* One unique_ptr less, the one that was constructed last.
LEMMA ReleaseOwnership ==
    ASSUME DemuxerTypeOK, Ownership, owned # <<>>, at' = "leave",
           live' = live \ {owned[Len(owned)]}, owned' = SubSeq(owned, 1, Len(owned) - 1)
    PROVE  Ownership' /\ owned' \in Seq(Objects) /\ live' \subseteq Objects
<1>1. owned \in Seq(Objects) /\ live \subseteq Objects /\ Len(owned) \in 1 .. 3
  BY DEF DemuxerTypeOK, Ownership
<1>2. /\ owned' \in Seq(Objects) /\ Len(owned') = Len(owned) - 1
      /\ \A i \in 1 .. Len(owned) - 1 : owned'[i] = owned[i]
  <2> DEFINE n == Len(owned) - 1
  <2>1. n \in 0 .. 2 /\ \A i \in 1 .. n : owned[i] \in Objects
    BY <1>1
  <2> HIDE DEF n
  <2>2. /\ SubSeq(owned, 1, n) \in Seq(Objects)
        /\ Len(SubSeq(owned, 1, n)) = IF 1 <= n THEN n - 1 + 1 ELSE 0
        /\ \A i \in 1 .. n - 1 + 1 : SubSeq(owned, 1, n)[i] = owned[1 + i - 1]
    BY <2>1, SubSeqProperties
  <2>3. /\ Len(SubSeq(owned, 1, n)) = n
        /\ \A i \in 1 .. n : SubSeq(owned, 1, n)[i] = owned[i]
    BY <2>1, <2>2
  <2> QED
    BY <2>2, <2>3 DEF n
<1>3. Ownership'
  BY <1>1, <1>2 DEF Ownership, Constructed
<1> QED
  BY <1>1, <1>2, <1>3

\* The statements up to the streams, and the packet.
LEMMA StatementStep ==
    ASSUME DemuxerIInv,
           AllocBuffer \/ AllocAvio \/ AllocFormat \/ OpenInput \/ FindStreamInfo \/ AllocPacket
    PROVE  DemuxerIInv'
<1> USE DEF Goes, Throws
<1>1. Found' /\ Read'
  <2>1. UNCHANGED <<outVars, packets>>
    BY DEF AllocBuffer, AllocAvio, AllocFormat, OpenInput, FindStreamInfo, AllocPacket
  <2>2. outcome' # "packets" \/ outcome' = outcome
    BY DEF AllocBuffer, AllocAvio, AllocFormat, OpenInput, FindStreamInfo, AllocPacket
  <2>3. \/ at' = "leave"
        \/ /\ at \in {"buffer", "avio", "format", "open", "info"}
           /\ at' \in {"avio", "format", "open", "info", "streams"}
        \/ at = "packet" /\ at' = "read"
    BY DEF AllocBuffer, AllocAvio, AllocFormat, OpenInput, FindStreamInfo, AllocPacket
  <2> QED
    BY <2>1, <2>2, <2>3, FoundAndReadUnchanged DEF DemuxerIInv
<1>2. Ownership' /\ owned' \in Seq(Objects) /\ live' \subseteq Objects
  <2> USE DEF DemuxerIInv
  <2>1. CASE AllocBuffer
    BY <2>1 DEF AllocBuffer, DemuxerTypeOK, Ownership, Constructed, Objects
  <2>2. CASE AllocAvio
    <3>1. CASE at' = "format"
      BY <2>2, <3>1, AcquireOwnership DEF AllocAvio, Objects
    <3>2. CASE at' # "format"
      BY <2>2, <3>2 DEF AllocAvio, DemuxerTypeOK, Ownership, Constructed
    <3> QED
      BY <3>1, <3>2
  <2>3. CASE AllocFormat
    <3>1. CASE at' = "open"
      BY <2>3, <3>1, AcquireOwnership DEF AllocFormat, Objects
    <3>2. CASE at' # "open"
      BY <2>3, <3>2 DEF AllocFormat, DemuxerTypeOK, Ownership, Constructed
    <3> QED
      BY <3>1, <3>2
  <2>4. CASE OpenInput
    <3>1. CASE at' = "info"
      <4>1. /\ at = "open" /\ owned' = owned /\ live' = live \cup {"filters"}
        BY <2>4, <3>1 DEF OpenInput
      <4>2. /\ "avio" \in live' <=> "avio" \in live
            /\ "format" \in live' <=> "format" \in live
            /\ "packet" \in live' <=> "packet" \in live
            /\ "buffer" \in live' <=> "buffer" \in live
        BY <4>1
      <4>3. Ownership'
        BY <3>1, <4>1, <4>2 DEF Ownership, Constructed
      <4> QED
        BY <4>1, <4>3 DEF DemuxerTypeOK, Objects
    <3>2. CASE at' # "info"
      <4>1. at = "open" /\ owned[Len(owned)] = "format" /\ owned # <<>>
        <5>1. at = "open" /\ owned \in Seq(Objects)
          BY <2>4 DEF OpenInput, DemuxerTypeOK
        <5>2. Len(owned) = 2 /\ owned[2] = "format"
          BY <5>1 DEF Ownership, Constructed
        <5> QED
          BY <5>1, <5>2
      <4>2. at' = "leave" /\ live' = live \ {"format"} /\ owned' = SubSeq(owned, 1, Len(owned) - 1)
        BY <2>4, <3>2 DEF OpenInput
      <4> QED
        BY <4>1, <4>2, ReleaseOwnership
    <3> QED
      BY <3>1, <3>2
  <2>5. CASE FindStreamInfo
    BY <2>5 DEF FindStreamInfo, DemuxerTypeOK, Ownership, Constructed
  <2>6. CASE AllocPacket
    <3>1. CASE at' = "read"
      BY <2>6, <3>1, AcquireOwnership DEF AllocPacket, Objects
    <3>2. CASE at' # "read"
      BY <2>6, <3>2 DEF AllocPacket, DemuxerTypeOK, Ownership, Constructed
    <3> QED
      BY <3>1, <3>2
  <2> QED
    BY <2>1, <2>2, <2>3, <2>4, <2>5, <2>6
<1>3. Leftover'
  <2> USE DEF DemuxerIInv
  <2>1. CASE AllocBuffer \/ AllocAvio
    BY <2>1 DEF AllocBuffer, AllocAvio, Acquire, Leftover, Ownership
  <2>2. CASE AllocFormat \/ AllocPacket \/ FindStreamInfo
    BY <2>2 DEF AllocFormat, AllocPacket, FindStreamInfo, Acquire, Leftover
  <2>3. CASE OpenInput
    BY <2>3 DEF OpenInput, Leftover, Ownership, Constructed
  <2> QED
    BY <2>1, <2>2, <2>3
<1>4. at' \in Statements
  BY DEF AllocBuffer, AllocAvio, AllocFormat, OpenInput, FindStreamInfo, AllocPacket, Statements
<1>5. UNCHANGED <<outVars, packets>>
  BY DEF AllocBuffer, AllocAvio, AllocFormat, OpenInput, FindStreamInfo, AllocPacket
<1>6. outcome' = outcome \/ outcome' = "exception"
  BY DEF AllocBuffer, AllocAvio, AllocFormat, OpenInput, FindStreamInfo, AllocPacket
<1>7. DemuxerTypeOK'
  BY <1>2, <1>4, <1>5, <1>6 DEF DemuxerIInv, DemuxerTypeOK, outVars
<1> QED
  BY <1>1, <1>2, <1>7, <1>3 DEF DemuxerIInv

\* The loop over the streams.
LEMMA FindStreamsStep ==
    ASSUME DemuxerIInv, FindStreams PROVE DemuxerIInv'
<1> DEFINE video == LastOf(input.streams, "video")
           audio == LastOf(input.streams, "audio")
<1>1. at = "streams" /\ at' = "packet" /\ UNCHANGED <<input, live, owned, packets, outcome>>
  BY DEF FindStreams
<1>2. video_stream_index = -1 /\ audio_stream_index = -1
  BY <1>1 DEF DemuxerIInv, Found
<1>3. video_stream_index' = video /\ audio_stream_index' = audio
  BY <1>2 DEF FindStreams
<1>4. video \in {-1} \cup DOMAIN input.streams /\ audio \in {-1} \cup DOMAIN input.streams
  BY LastOfCorrect, InputsAssumption DEF DemuxerIInv, DemuxerTypeOK
<1> HIDE DEF video, audio
<1>5. DemuxerTypeOK'
  BY <1>1, <1>3, <1>4 DEF DemuxerIInv, DemuxerTypeOK, Statements
<1>6. Ownership' /\ Leftover'
  BY <1>1, LeftoverStays DEF DemuxerIInv, Ownership, Constructed, Leftover
<1>7. Found'
  BY <1>1, <1>3 DEF Found, video, audio
<1>8. Read'
  BY <1>1 DEF DemuxerIInv, Read
<1> QED
  BY <1>5, <1>6, <1>7, <1>8 DEF DemuxerIInv

\* One more packet, at the place it has in the segment.
LEMMA ReadFrameStep ==
    ASSUME DemuxerIInv, ReadFrame PROVE DemuxerIInv'
<1> DEFINE source == input.packets[Len(packets) + 1]
           packet == [source EXCEPT !.time = Converted(@)]
<1>1. /\ at = "read" /\ at' = "read" /\ Len(packets) < Len(input.packets)
      /\ packets' = Append(packets, packet)
      /\ UNCHANGED <<input, video_stream_index, audio_stream_index, live, owned, outcome>>
  BY DEF ReadFrame, Goes, outVars
<1>2. packets \in Seq(DemuxedPacket) /\ input.packets \in Seq(DemuxedPacket)
  BY InputsAssumption DEF DemuxerIInv, DemuxerTypeOK
<1>3. source \in DemuxedPacket
  BY <1>1, <1>2
<1>4. Converted(source.time) \in Nat \cup {NoTime}
  BY <1>3, MicrosecondsMonotone DEF Converted, DemuxedPacket
<1>5. /\ packet \in DemuxedPacket
      /\ packet.stream = source.stream
      /\ packet.time = Converted(source.time)
  BY <1>3, <1>4 DEF DemuxedPacket
<1> HIDE DEF packet
<1>6. /\ packets' \in Seq(DemuxedPacket) /\ Len(packets') = Len(packets) + 1
      /\ \A i \in 1 .. Len(packets) : packets'[i] = packets[i]
      /\ packets'[Len(packets) + 1] = packet
  BY <1>1, <1>2, <1>5, AppendProperties
<1>7. DemuxerTypeOK'
  BY <1>1, <1>6 DEF DemuxerIInv, DemuxerTypeOK
<1>8. Ownership' /\ Leftover'
  BY <1>1 DEF DemuxerIInv, Ownership, Constructed, Leftover
<1>9. Found'
  BY <1>1 DEF DemuxerIInv, Found
<1>10. Read'
  <2>1. Len(packets') <= Len(input.packets)
    BY <1>1, <1>2, <1>6
  <2>2. ASSUME NEW i \in DOMAIN packets'
        PROVE  /\ packets'[i].stream = input.packets[i].stream
               /\ packets'[i].time = Converted(input.packets[i].time)
    <3>1. i \in 1 .. Len(packets) + 1 /\ Len(packets) \in Nat
      BY <1>2, <1>6
    <3>2. CASE i \in 1 .. Len(packets)
      BY <1>2, <1>6, <3>2 DEF DemuxerIInv, Read
    <3>3. CASE i = Len(packets) + 1
      BY <1>5, <1>6, <3>3
    <3> QED
      BY <3>1, <3>2, <3>3
  <2> QED
    BY <1>1, <2>1, <2>2 DEF Read
<1> QED
  BY <1>7, <1>8, <1>9, <1>10 DEF DemuxerIInv

\* The end of the segment, and the end of the scope.
LEMMA LeaveStep ==
    ASSUME DemuxerIInv, ReadEnds \/ Release \/ Leave PROVE DemuxerIInv'
<1> USE DEF outVars
<1>1. CASE ReadEnds
  <2>1. Found' /\ Read'
    BY <1>1, FoundAndReadUnchanged DEF ReadEnds, DemuxerIInv
  <2>2. DemuxerTypeOK'
    BY <1>1 DEF ReadEnds, DemuxerIInv, DemuxerTypeOK, Statements
  <2>3. Ownership' /\ Leftover'
    BY <1>1 DEF ReadEnds, DemuxerIInv, Ownership, Constructed, Leftover
  <2> QED
    BY <2>1, <2>2, <2>3 DEF DemuxerIInv
<1>2. CASE Release
  <2>1. Found' /\ Read'
    BY <1>2, FoundAndReadUnchanged DEF Release, DemuxerIInv
  <2>2. Ownership' /\ owned' \in Seq(Objects) /\ live' \subseteq Objects
    BY <1>2, ReleaseOwnership DEF Release, DemuxerIInv
  <2>3. DemuxerTypeOK'
    BY <1>2, <2>2 DEF Release, DemuxerIInv, DemuxerTypeOK
  <2>4. Leftover'
    <3>1. /\ at = "leave" /\ owned # <<>> /\ live' = live \ {owned[Len(owned)]}
          /\ at' = at /\ outcome' = outcome
      BY <1>2 DEF Release
    <3>2. owned[Len(owned)] \in {"avio", "format", "packet"}
      <4>1. Len(owned) \in 1 .. 3
        BY <3>1 DEF DemuxerIInv, DemuxerTypeOK, Ownership
      <4> QED
        BY <4>1 DEF DemuxerIInv, Ownership
    <3> QED
      BY <3>1, <3>2 DEF DemuxerIInv, Leftover
  <2> QED
    BY <2>1, <2>2, <2>3, <2>4 DEF DemuxerIInv
<1>3. CASE Leave
  <2>1. packets' = packets \/ packets' = <<>>
    BY <1>3 DEF Leave
  <2>2. input.packets \in Seq(DemuxedPacket) /\ input' = input
    BY <1>3, InputsAssumption DEF Leave, DemuxerIInv, DemuxerTypeOK
  <2>3. Found'
    BY <1>3 DEF Leave, DemuxerIInv, Found
  <2>4. Read'
    BY <2>1, <2>2 DEF DemuxerIInv, Read
  <2>5. Ownership' /\ Leftover'
    BY <1>3 DEF Leave, DemuxerIInv, DemuxerTypeOK, Ownership, Constructed, Leftover
  <2>6. DemuxerTypeOK'
    BY <1>3, <2>1 DEF Leave, DemuxerIInv, DemuxerTypeOK
  <2> QED
    BY <2>3, <2>4, <2>5, <2>6 DEF DemuxerIInv
<1> QED
  BY <1>1, <1>2, <1>3

LEMMA DemuxerNextIInv == DemuxerIInv /\ DemuxerNext => DemuxerIInv'
  BY DemuxStep, StatementStep, FindStreamsStep, ReadFrameStep, LeaveStep DEF DemuxerNext

\* What the invariant means for whoever calls demux().
LEMMA DemuxerPromises ==
    ASSUME DemuxerIInv PROVE ReleasesWhatItOwns /\ ReturnsThisSegment
<1>1. ReleasesWhatItOwns
  <2>1. Len(owned) \in 0 .. 3 /\ DOMAIN owned = 1 .. Len(owned)
    BY DEF DemuxerIInv, DemuxerTypeOK, Ownership
  <2>2. \A i \in DOMAIN owned : owned[i] \in live
    BY <2>1 DEF DemuxerIInv, Ownership
  <2>3. /\ "format" \in live => "avio" \in live
        /\ {"avio", "filters"} \cap live # {} => "buffer" \in live
    BY <2>1 DEF DemuxerIInv, Ownership, Leftover
  <2>4. at = "idle" => live \subseteq Unowned
    BY DEF DemuxerIInv, DemuxerTypeOK, Ownership, Constructed, Objects, Unowned
  <2>5. outcome = "packets" => Unowned \subseteq live
    BY DEF DemuxerIInv, Leftover, Unowned
  <2> QED
    BY <2>2, <2>3, <2>4, <2>5 DEF ReleasesWhatItOwns
<1>2. IndicesOfThisCall
  BY DEF DemuxerIInv, Found, IndicesOfThisCall
<1>3. PacketsAsRead
  <2>1. Len(packets) <= Len(input.packets)
    BY DEF DemuxerIInv, Read
  <2>2. packets \in Seq(DemuxedPacket) /\ input.packets \in Seq(DemuxedPacket)
    BY InputsAssumption DEF DemuxerIInv, DemuxerTypeOK
  <2>3. ASSUME NEW i \in DOMAIN packets
        PROVE  /\ packets[i].stream = input.packets[i].stream
               /\ packets[i].time = Converted(input.packets[i].time)
               /\ input.packets[i].time \in Nat \cup {NoTime}
    <3>1. i \in 1 .. Len(input.packets)
      BY <2>1, <2>2
    <3>2. input.packets[i] \in DemuxedPacket
      BY <2>2, <3>1
    <3> QED
      BY <3>2 DEF DemuxerIInv, Read, DemuxedPacket
  <2>4. ASSUME NEW i \in DOMAIN packets
        PROVE  packets[i].time = NoTime <=> input.packets[i].time = NoTime
    BY <2>3, MicrosecondsMonotone, TimeBaseAssumption DEF Converted
  <2>5. ASSUME NEW i \in DOMAIN packets, NEW j \in DOMAIN packets,
               NoTime \notin {input.packets[i].time, input.packets[j].time}
        PROVE  packets[i].time < packets[j].time <=> input.packets[i].time < input.packets[j].time
    <3> DEFINE s == input.packets[i].time  t == input.packets[j].time
    <3>1. s \in Nat /\ t \in Nat
      BY <2>3, <2>5
    <3>2. packets[i].time = Microseconds(s) /\ packets[j].time = Microseconds(t)
      BY <2>3, <2>5 DEF Converted
    <3> HIDE DEF s, t
    <3>3. /\ Microseconds(s) \in Nat /\ Microseconds(t) \in Nat
          /\ s < t => Microseconds(s) < Microseconds(t)
          /\ t < s => Microseconds(t) < Microseconds(s)
      BY <3>1, MicrosecondsMonotone
    <3>4. Microseconds(s) < Microseconds(t) <=> s < t
      BY <3>1, <3>3
    <3> QED
      BY <3>2, <3>4 DEF s, t
  <2> QED
    BY <2>1, <2>3, <2>4, <2>5 DEF PacketsAsRead
<1> QED
  BY <1>1, <1>2, <1>3 DEF ReturnsThisSegment

-----------------------------------------------------------------------------
\* The decoders

\* The frames of all operations, those that the running one has collected last.
Collected == returned \o frames

\* How many pictures the codec has handed out.
Out == Len(taken) - Len(held)

InOrder(c, last) ==
    \A i \in DOMAIN c :
        /\ c[i].picture \in 0 .. last
        /\ \A j \in DOMAIN c :
              i < j /\ c[i].picture # 0 /\ c[j].picture # 0 => c[i].picture < c[j].picture

Timed(c, clock) ==
    \A i \in DOMAIN c :
        /\ c[i].pts \in Nat /\ c[i].pts < clock
        /\ \A j \in DOMAIN c : i < j => c[i].pts < c[j].pts

Has(c, picture) == \E i \in DOMAIN c : c[i].picture = picture

\* What the codec holds are the last pictures it took.
HeldIsTheRest ==
    /\ Len(held) <= Len(taken)
    /\ \A i \in DOMAIN held : held[i] = Len(taken) - Len(held) + i

\* Every picture that the codec has handed out has come to the client, or is about to: all of
\* them until something is damaged, the good ones until something is thrown.
Kept ==
    \A p \in 1 .. Out :
        harm = "none" \/ (harm = "damaged" /\ taken[p].kind = "good") => Has(Collected, p)

\* Between two operations the codec has nothing to hand out.
Settled == call = "none" /\ harm = "none" => ~Ready

\* Preserved by every step of either decoder.
DecoderIInv == DecoderTypeOK /\ HeldIsTheRest /\ InOrder(Collected, Out) /\ Kept /\ Settled

\* The video decoder that was flushed and whose operation has ended has an empty codec, unless
\* the last picture it handed out was damaged or the operation threw.
FlushedOut ==
    end_of_stream =>
        draining /\ (call = "none" /\ harm # "thrown" => held = <<>> \/ BehindDamage)

\* The clock of the video decoder is ahead of all times it has given.
ClockAhead == driven = "video" => Timed(Collected, next_pts_ms)

LEMMA OrderOfPrefix ==
    ASSUME NEW s \in Seq(DecodedFrame), NEW t \in Seq(DecodedFrame), NEW n \in Nat,
           InOrder(s \o t, n)
    PROVE  InOrder(s, n)
<1>1. /\ Len(s) \in Nat /\ Len(t) \in Nat /\ DOMAIN s = 1 .. Len(s)
      /\ DOMAIN (s \o t) = 1 .. Len(s) + Len(t)
      /\ \A i \in 1 .. Len(s) : (s \o t)[i] = s[i]
  OBVIOUS
<1> QED
  BY <1>1 DEF InOrder

LEMMA TimesOfPrefix ==
    ASSUME NEW s \in Seq(DecodedFrame), NEW t \in Seq(DecodedFrame), NEW clock,
           Timed(s \o t, clock)
    PROVE  Timed(s, clock)
<1>1. /\ Len(s) \in Nat /\ Len(t) \in Nat /\ DOMAIN s = 1 .. Len(s)
      /\ DOMAIN (s \o t) = 1 .. Len(s) + Len(t)
      /\ \A i \in 1 .. Len(s) : (s \o t)[i] = s[i]
  OBVIOUS
<1> QED
  BY <1>1 DEF Timed

\* A frame is of the next picture, or of none.
LEMMA OrderOfAppend ==
    ASSUME NEW c \in Seq(DecodedFrame), NEW frame \in DecodedFrame, NEW n \in Nat, NEW m \in Nat,
           InOrder(c, n), n <= m,
           frame.picture = 0 \/ (frame.picture = m /\ n < m)
    PROVE  InOrder(Append(c, frame), m)
<1> DEFINE d == Append(c, frame)
<1>1. /\ Len(c) \in Nat /\ DOMAIN c = 1 .. Len(c) /\ DOMAIN d = 1 .. Len(c) + 1
      /\ \A i \in 1 .. Len(c) : d[i] = c[i]
      /\ d[Len(c) + 1] = frame
  BY AppendProperties
<1>2. \A i \in 1 .. Len(c) : c[i].picture \in 0 .. n /\ c[i].picture \in Nat
  BY <1>1 DEF InOrder
<1> HIDE DEF d
<1>3. ASSUME NEW i \in DOMAIN d PROVE d[i].picture \in 0 .. m
  BY <1>1, <1>2
<1>4. ASSUME NEW i \in DOMAIN d, NEW j \in DOMAIN d, i < j, d[i].picture # 0, d[j].picture # 0
      PROVE  d[i].picture < d[j].picture
  <2>1. i \in 1 .. Len(c) /\ d[i] = c[i]
    BY <1>1, <1>4
  <2>2. CASE j \in 1 .. Len(c)
    BY <1>1, <1>4, <2>1, <2>2 DEF InOrder
  <2>3. CASE j = Len(c) + 1
    BY <1>1, <1>2, <1>4, <2>1, <2>3
  <2> QED
    BY <1>1, <2>2, <2>3
<1>5. InOrder(d, m)
  BY <1>3, <1>4 DEF InOrder
<1> QED
  BY <1>5 DEF d

LEMMA TimesOfAppend ==
    ASSUME NEW c \in Seq(DecodedFrame), NEW frame \in DecodedFrame,
           NEW clock \in Nat, NEW later \in Nat,
           Timed(c, clock), frame.pts = clock, clock < later
    PROVE  Timed(Append(c, frame), later)
<1> DEFINE d == Append(c, frame)
<1>1. /\ Len(c) \in Nat /\ DOMAIN c = 1 .. Len(c) /\ DOMAIN d = 1 .. Len(c) + 1
      /\ \A i \in 1 .. Len(c) : d[i] = c[i]
      /\ d[Len(c) + 1] = frame
  BY AppendProperties
<1>2. \A i \in 1 .. Len(c) : c[i].pts \in Nat /\ c[i].pts < clock
  BY <1>1 DEF Timed
<1> HIDE DEF d
<1>3. ASSUME NEW i \in DOMAIN d PROVE d[i].pts \in Nat /\ d[i].pts < later
  BY <1>1, <1>2
<1>4. ASSUME NEW i \in DOMAIN d, NEW j \in DOMAIN d, i < j
      PROVE  d[i].pts < d[j].pts
  <2>1. i \in 1 .. Len(c) /\ d[i] = c[i]
    BY <1>1, <1>4
  <2>2. CASE j \in 1 .. Len(c)
    BY <1>1, <1>4, <2>1, <2>2 DEF Timed
  <2>3. CASE j = Len(c) + 1
    BY <1>1, <1>2, <1>4, <2>1, <2>3
  <2> QED
    BY <1>1, <2>2, <2>3
<1>5. Timed(d, later)
  BY <1>3, <1>4 DEF Timed
<1> QED
  BY <1>5 DEF d

\* What a client has got more is had as well.
LEMMA HasOfPrefix ==
    ASSUME NEW s \in Seq(DecodedFrame), NEW t \in Seq(DecodedFrame), NEW p, Has(s, p)
    PROVE  Has(s \o t, p)
<1>1. /\ Len(s) \in Nat /\ Len(t) \in Nat /\ DOMAIN s = 1 .. Len(s)
      /\ DOMAIN (s \o t) = 1 .. Len(s) + Len(t)
      /\ \A i \in 1 .. Len(s) : (s \o t)[i] = s[i]
  OBVIOUS
<1> QED
  BY <1>1 DEF Has

\* Types that the steps below rely on.
LEMMA DecoderFacts ==
    ASSUME DecoderIInv
    PROVE  /\ frames \in Seq(DecodedFrame) /\ returned \in Seq(DecodedFrame)
           /\ Collected \in Seq(DecodedFrame)
           /\ held \in Seq(Nat) /\ taken \in Seq(Picture)
           /\ Len(held) \in Nat /\ Len(taken) \in Nat /\ Out \in Nat /\ Out <= Len(taken)
<1>1. /\ frames \in Seq(DecodedFrame) /\ returned \in Seq(DecodedFrame)
      /\ held \in Seq(Nat) /\ taken \in Seq(Picture)
  BY DEF DecoderIInv, DecoderTypeOK
<1>2. Collected \in Seq(DecodedFrame)
  BY <1>1 DEF Collected
<1>3. Len(held) \in Nat /\ Len(taken) \in Nat /\ Len(held) <= Len(taken)
  BY <1>1 DEF DecoderIInv, HeldIsTheRest
<1> QED
  BY <1>1, <1>2, <1>3 DEF Out

\* What Return and Throw leave of the frames.
LEMMA ReturnCollects ==
    ASSUME DecoderIInv, NEW more \in Seq(DecodedFrame), Return(more)
    PROVE  /\ Collected' = Collected \o more /\ frames' = <<>> /\ returned' = Collected'
           /\ returned' \in Seq(DecodedFrame)
<1>1. frames \in Seq(DecodedFrame) /\ returned \in Seq(DecodedFrame)
  BY DecoderFacts
<1>2. returned' = Collected \o more /\ frames' = <<>>
  BY DEF Return, Collected
<1>3. returned' \in Seq(DecodedFrame)
  BY <1>2, DecoderFacts, ConcatProperties
<1>4. returned' \o <<>> = returned'
  BY <1>3, ConcatEmptySeq
<1>5. Collected' = returned'
  BY <1>2, <1>4 DEF Collected
<1> QED
  BY <1>2, <1>3, <1>5

LEMMA NothingCollected ==
    ASSUME DecoderIInv, frames' = <<>>, returned' = returned
    PROVE  /\ Collected' = returned
           /\ InOrder(returned, Out)
           /\ \A clock : Timed(Collected, clock) => Timed(Collected', clock)
           /\ frames = <<>> => Collected' = Collected
<1>1. frames \in Seq(DecodedFrame) /\ returned \in Seq(DecodedFrame) /\ Out \in Nat
  BY DecoderFacts
<1>2. returned \o <<>> = returned
  BY <1>1, ConcatEmptySeq
<1>3. Collected' = returned
  BY <1>2 DEF Collected
<1>4. InOrder(returned \o frames, Out)
  BY DEF DecoderIInv, Collected
<1>5. InOrder(returned, Out)
  BY <1>1, <1>4, OrderOfPrefix
<1>6. ASSUME NEW clock, Timed(returned \o frames, clock) PROVE Timed(returned, clock)
  BY <1>1, <1>6, TimesOfPrefix
<1>7. frames = <<>> => Collected' = Collected
  BY <1>3, <1>2 DEF Collected
<1> QED
  BY <1>3, <1>5, <1>6, <1>7 DEF Collected

\* A call that ends, or does not begin, without anything reaching the codec.
LEMMA IdleStep ==
    ASSUME DecoderIInv, call = "none", call' = "none", result' \in Results, pimpl_' \in BOOLEAN,
           UNCHANGED <<held, draining, taken, harm, frames, returned>>
    PROVE  DecoderIInv' /\ Collected' = Collected
<1>1. Collected' = Collected /\ Out' = Out
  BY DEF Collected, Out
<1>2. DecoderTypeOK'
  BY DEF DecoderIInv, DecoderTypeOK
<1>3. HeldIsTheRest'
  BY DEF DecoderIInv, HeldIsTheRest
<1>4. InOrder(Collected', Out')
  BY <1>1 DEF DecoderIInv
<1>5. Kept'
  BY <1>1 DEF DecoderIInv, Kept
<1>6. Settled'
  BY DEF DecoderIInv, Settled, Ready
<1> QED
  BY <1>1, <1>2, <1>3, <1>4, <1>5, <1>6 DEF DecoderIInv

\* A call that goes on to receive frames, with or without the end of the stream.
LEMMA BeginStep ==
    ASSUME DecoderIInv, call = "none", call' \in {"decode", "flush"}, draining' \in BOOLEAN,
           UNCHANGED <<held, taken, pimpl_, frames, result, returned, harm>>
    PROVE  DecoderIInv' /\ Collected' = Collected
<1>1. Collected' = Collected /\ Out' = Out
  BY DEF Collected, Out
<1>2. DecoderTypeOK'
  BY DEF DecoderIInv, DecoderTypeOK
<1>3. HeldIsTheRest'
  BY DEF DecoderIInv, HeldIsTheRest
<1>4. InOrder(Collected', Out')
  BY <1>1 DEF DecoderIInv
<1>5. Kept'
  BY <1>1 DEF DecoderIInv, Kept
<1>6. Settled'
  BY DEF Settled
<1> QED
  BY <1>1, <1>2, <1>3, <1>4, <1>5, <1>6 DEF DecoderIInv

\* The pictures of a packet and their places, behind those before.
Appended(t, h, n, more, places) ==
    /\ t \o more \in Seq(Picture) /\ Len(t \o more) = Len(t) + n
    /\ \A i \in 1 .. Len(t) : (t \o more)[i] = t[i]
    /\ h \o places \in Seq(Nat) /\ Len(h \o places) = Len(h) + n
    /\ \A i \in 1 .. Len(h) : (h \o places)[i] = h[i]
    /\ \A i \in Len(h) + 1 .. Len(h) + n : (h \o places)[i] = Len(t) + (i - Len(h))

LEMMA SentPictures ==
    ASSUME NEW t \in Seq(Picture), NEW h \in Seq(Nat), NEW n \in Nat,
           NEW more \in Seq(Picture), Len(more) = n,
           NEW places \in Seq(Nat), Len(places) = n, \A i \in 1 .. n : places[i] = Len(t) + i
    PROVE  Appended(t, h, n, more, places)
<1>1. Len(t) \in Nat /\ Len(h) \in Nat
  OBVIOUS
<1>2. /\ t \o more \in Seq(Picture) /\ Len(t \o more) = Len(t) + n
      /\ \A i \in 1 .. Len(t) : (t \o more)[i] = t[i]
  <2>1. /\ t \o more \in Seq(Picture) /\ Len(t \o more) = Len(t) + Len(more)
        /\ \A i \in 1 .. Len(t) + Len(more) :
              (t \o more)[i] = IF i <= Len(t) THEN t[i] ELSE more[i - Len(t)]
    BY ConcatProperties
  <2> QED
    BY <1>1, <2>1
<1>3. /\ h \o places \in Seq(Nat) /\ Len(h \o places) = Len(h) + n
      /\ \A i \in 1 .. Len(h) : (h \o places)[i] = h[i]
      /\ \A i \in Len(h) + 1 .. Len(h) + n : (h \o places)[i] = places[i - Len(h)]
  <2>1. /\ h \o places \in Seq(Nat) /\ Len(h \o places) = Len(h) + Len(places)
        /\ \A i \in 1 .. Len(h) + Len(places) :
              (h \o places)[i] = IF i <= Len(h) THEN h[i] ELSE places[i - Len(h)]
    BY ConcatProperties
  <2> QED
    BY <1>1, <2>1
<1>4. \A i \in Len(h) + 1 .. Len(h) + n : (h \o places)[i] = Len(t) + (i - Len(h))
  BY <1>1, <1>3
<1> QED
  BY <1>2, <1>3, <1>4, Zenon DEF Appended

\* The codec takes the n pictures of a packet.
LEMMA SendStep ==
    ASSUME DecoderIInv, NEW n \in Nat, Len(taken) + n <= MaxPictures,
           taken' \in Seq(Picture), Len(taken') = Len(taken) + n,
           \A i \in 1 .. Len(taken) : taken'[i] = taken[i],
           held' \in Seq(Nat), Len(held') = Len(held) + n,
           \A i \in 1 .. Len(held) : held'[i] = held[i],
           \A i \in Len(held) + 1 .. Len(held) + n : held'[i] = Len(taken) + (i - Len(held)),
           call = "none", call' = "decode",
           UNCHANGED <<draining, pimpl_, frames, result, returned, harm>>
    PROVE  DecoderIInv' /\ Collected' = Collected
<1>1. /\ held \in Seq(Nat) /\ taken \in Seq(Picture)
      /\ Len(held) \in Nat /\ Len(taken) \in Nat /\ Len(held) <= Len(taken)
  BY DecoderFacts DEF DecoderIInv, HeldIsTheRest
<1>2. n \in Nat
  OBVIOUS
<1>3. Len(taken') = Len(taken) + n /\ \A i \in 1 .. Len(taken) : taken'[i] = taken[i]
  OBVIOUS
<1>4. /\ held' \in Seq(Nat) /\ Len(held') = Len(held) + n
      /\ \A i \in 1 .. Len(held) : held'[i] = held[i]
      /\ \A i \in Len(held) + 1 .. Len(held) + n : held'[i] = Len(taken) + (i - Len(held))
  OBVIOUS
<1>5. HeldIsTheRest'
  <2>1. Len(held') <= Len(taken')
    BY <1>1, <1>2, <1>3, <1>4
  <2>2. ASSUME NEW i \in DOMAIN held' PROVE held'[i] = Len(taken') - Len(held') + i
    <3>1. i \in 1 .. Len(held) + n /\ Len(taken') - Len(held') = Len(taken) - Len(held)
      BY <1>1, <1>2, <1>3, <1>4
    <3>2. CASE i \in 1 .. Len(held)
      BY <1>1, <1>4, <3>1, <3>2 DEF DecoderIInv, HeldIsTheRest
    <3>3. CASE i \in Len(held) + 1 .. Len(held) + n
      <4>1. held'[i] = Len(taken) + (i - Len(held)) /\ i \in Int
        BY <1>1, <1>2, <1>4, <3>3
      <4> QED
        BY <1>1, <3>1, <4>1
    <3> QED
      BY <1>1, <1>2, <3>1, <3>2, <3>3
  <2> QED
    BY <2>1, <2>2 DEF HeldIsTheRest
<1>6. Collected' = Collected /\ Out' = Out
  BY <1>1, <1>2, <1>3, <1>4 DEF Collected, Out
<1>7. DecoderTypeOK'
  <2>1. \A i \in DOMAIN held' : held'[i] \in 1 .. Len(taken')
    <3>1. SUFFICES ASSUME NEW i \in DOMAIN held' PROVE held'[i] \in 1 .. Len(taken')
      OBVIOUS
    <3>2. i \in 1 .. Len(held') /\ Len(held') \in Nat /\ Len(taken') \in Nat
      BY <1>3, <1>4
    <3>3. Len(held') <= Len(taken') /\ held'[i] = Len(taken') - Len(held') + i
      BY <1>5 DEF HeldIsTheRest
    <3> QED
      BY <3>2, <3>3
  <2>2. /\ \A i \in DOMAIN frames : frames[i].picture \in 1 .. Len(taken')
        /\ \A i \in DOMAIN returned : returned[i].picture \in 0 .. Len(taken')
    BY <1>1, <1>2, <1>3 DEF DecoderIInv, DecoderTypeOK
  <2>3. Len(taken') <= MaxPictures
    BY <1>3
  <2> QED
    BY <1>3, <1>4, <2>1, <2>2, <2>3 DEF DecoderIInv, DecoderTypeOK
<1>8. InOrder(Collected', Out')
  BY <1>6 DEF DecoderIInv
<1>9. Kept'
  <2>1. \A p \in 1 .. Out : p \in 1 .. Len(taken)
    BY <1>1, DecoderFacts
  <2> QED
    BY <1>3, <1>6, <2>1 DEF DecoderIInv, Kept
<1>10. Settled'
  BY DEF Settled
<1> QED
  BY <1>5, <1>6, <1>7, <1>8, <1>9, <1>10 DEF DecoderIInv

\* The codec hands out the picture that comes next.
LEMMA ReceiveFacts ==
    ASSUME DecoderIInv, NEW picture, Receive(picture)
    PROVE  /\ picture = Out + 1 /\ picture \in 1 .. Len(taken) /\ Out' = Out + 1
           /\ Out' \in Nat /\ Out' <= Len(taken)
           /\ held' \in Seq(Nat) /\ UNCHANGED <<draining, taken>>
           /\ \A i \in DOMAIN held' : held'[i] \in 1 .. Len(taken)
           /\ HeldIsTheRest'
<1>1. /\ held \in Seq(Nat) /\ Len(held) \in Nat /\ Len(taken) \in Nat
      /\ Len(held) <= Len(taken)
      /\ \A i \in 1 .. Len(held) : held[i] = Len(taken) - Len(held) + i
  BY DecoderFacts DEF DecoderIInv, HeldIsTheRest
<1>2. held # <<>> /\ picture = Head(held) /\ held' = Tail(held) /\ UNCHANGED <<draining, taken>>
  BY DEF Receive, Ready
<1>3. Len(held) >= 1 /\ picture = held[1]
  BY <1>1, <1>2
<1>4. /\ held' \in Seq(Nat) /\ Len(held') = Len(held) - 1 /\ DOMAIN held' = 1 .. Len(held) - 1
      /\ \A i \in 1 .. Len(held) - 1 : held'[i] = held[i + 1]
  BY <1>1, <1>2, <1>3, HeadTailProperties
<1>5. Out' = Out + 1 /\ picture = Out + 1
  BY <1>1, <1>2, <1>3, <1>4 DEF Out
<1>6. \A i \in DOMAIN held' : held'[i] = Len(taken) - Len(held') + i /\ held'[i] \in 1 .. Len(taken)
  <2>1. SUFFICES ASSUME NEW i \in 1 .. Len(held) - 1
                 PROVE  held'[i] = Len(taken) - Len(held') + i /\ held'[i] \in 1 .. Len(taken)
    BY <1>4
  <2>2. i + 1 \in 1 .. Len(held) /\ held'[i] = held[i + 1]
    BY <1>1, <1>4
  <2>3. held[i + 1] = Len(taken) - Len(held) + (i + 1)
    BY <1>1, <2>2
  <2> QED
    BY <1>1, <1>4, <2>2, <2>3
<1>7. HeldIsTheRest'
  BY <1>1, <1>2, <1>4, <1>6 DEF HeldIsTheRest
<1> QED
  BY <1>1, <1>2, <1>3, <1>4, <1>5, <1>6, <1>7 DEF Out

\* A good picture becomes a frame.
LEMMA CollectStep ==
    ASSUME DecoderIInv, NEW picture, Receive(picture), NEW pts \in Nat \cup {NoPts},
           frames' = Append(frames, [picture |-> picture, pts |-> pts]),
           call \in {"decode", "flush"}, UNCHANGED <<pimpl_, call, result, returned, harm>>
    PROVE  /\ DecoderIInv'
           /\ [picture |-> picture, pts |-> pts] \in DecodedFrame
           /\ Collected' = Append(Collected, [picture |-> picture, pts |-> pts])
<1> DEFINE frame == [picture |-> picture, pts |-> pts]
<1>1. /\ frames \in Seq(DecodedFrame) /\ returned \in Seq(DecodedFrame)
      /\ Collected \in Seq(DecodedFrame)
      /\ Len(taken) \in Nat /\ Out \in Nat
  BY DecoderFacts
<1>2. /\ picture = Out + 1 /\ picture \in 1 .. Len(taken) /\ Out' = Out + 1 /\ Out' \in Nat
      /\ held' \in Seq(Nat) /\ UNCHANGED <<draining, taken>>
      /\ \A i \in DOMAIN held' : held'[i] \in 1 .. Len(taken)
      /\ HeldIsTheRest'
  BY ReceiveFacts
<1>3. frame \in DecodedFrame /\ frame.picture = picture
  BY <1>1, <1>2 DEF DecodedFrame
<1> HIDE DEF frame
<1>4. frames' = Append(frames, frame)
  BY DEF frame
<1>5. Collected' = Append(Collected, frame)
  <2>1. Append(frames, frame) = frames \o <<frame>> /\ <<frame>> \in Seq(DecodedFrame)
    BY <1>1, <1>3, AppendIsConcat
  <2>2. Append(Collected, frame) = Collected \o <<frame>>
    BY <1>1, <1>3, AppendIsConcat
  <2>3. (returned \o frames) \o <<frame>> = returned \o (frames \o <<frame>>)
    BY <1>1, <2>1, ConcatAssociative
  <2> QED
    BY <1>4, <2>1, <2>2, <2>3 DEF Collected
<1>6. /\ frames' \in Seq(DecodedFrame) /\ Len(frames') = Len(frames) + 1
      /\ \A i \in 1 .. Len(frames) : frames'[i] = frames[i]
      /\ frames'[Len(frames) + 1] = frame
  BY <1>1, <1>3, <1>4, AppendProperties
<1>7. \A i \in DOMAIN frames' : frames'[i].picture \in 1 .. Len(taken)
  <2>1. SUFFICES ASSUME NEW i \in 1 .. Len(frames) + 1
                 PROVE  frames'[i].picture \in 1 .. Len(taken)
    BY <1>6
  <2>2. CASE i \in 1 .. Len(frames)
    BY <1>1, <1>6, <2>2 DEF DecoderIInv, DecoderTypeOK
  <2>3. CASE i = Len(frames) + 1
    BY <1>2, <1>3, <1>6, <2>3
  <2> QED
    BY <1>1, <2>2, <2>3
<1>8. DecoderTypeOK'
  BY <1>2, <1>6, <1>7 DEF DecoderIInv, DecoderTypeOK
<1>9. InOrder(Collected', Out')
  <2>1. InOrder(Collected, Out)
    BY DEF DecoderIInv
  <2>2. InOrder(Append(Collected, frame), Out + 1)
    BY <1>1, <1>2, <1>3, <2>1, OrderOfAppend
  <2> QED
    BY <1>2, <1>5, <2>2
<1>10. /\ Len(Collected') = Len(Collected) + 1
       /\ \A i \in 1 .. Len(Collected) : Collected'[i] = Collected[i]
       /\ Collected'[Len(Collected) + 1] = frame
       /\ DOMAIN Collected' = 1 .. Len(Collected) + 1 /\ DOMAIN Collected = 1 .. Len(Collected)
       /\ Len(Collected) \in Nat
  BY <1>1, <1>3, <1>5, AppendProperties
<1>11. Kept'
  <2>1. SUFFICES ASSUME NEW p \in 1 .. Out + 1,
                        harm = "none" \/ (harm = "damaged" /\ taken[p].kind = "good")
                 PROVE  Has(Collected', p)
    BY <1>2 DEF Kept
  <2>2. CASE p \in 1 .. Out
    <3>1. Has(Collected, p)
      BY <2>1, <2>2 DEF DecoderIInv, Kept
    <3> QED
      BY <1>10, <3>1 DEF Has
  <2>3. CASE p = Out + 1
    BY <1>2, <1>3, <1>10, <2>3 DEF Has
  <2> QED
    BY <1>1, <2>2, <2>3
<1>12. Settled'
  BY DEF Settled
<1> QED
  BY <1>2, <1>3, <1>5, <1>8, <1>9, <1>11, <1>12 DEF DecoderIInv, frame

\* The codec gives nothing more and the operation returns, perhaps with samples of no picture.
LEMMA EndStep ==
    ASSUME DecoderIInv, NEW more \in Seq(DecodedFrame), Return(more), ~Ready,
           more = <<>> \/ \E frame \in DecodedFrame : more = <<frame>> /\ frame.picture = 0,
           UNCHANGED <<held, draining, pimpl_, taken, harm>>
    PROVE  DecoderIInv' /\ (more = <<>> => Collected' = Collected)
<1>1. /\ Collected \in Seq(DecodedFrame) /\ Out \in Nat /\ Out' = Out
      /\ Len(taken) \in Nat /\ Out <= Len(taken)
  BY DecoderFacts DEF Out
<1>2. /\ Collected' = Collected \o more /\ frames' = <<>> /\ returned' = Collected'
      /\ returned' \in Seq(DecodedFrame)
  BY ReturnCollects
<1>3. call' = "none" /\ result' = "frames"
  BY DEF Return
<1>4. InOrder(Collected, Out)
  BY DEF DecoderIInv
<1>5. InOrder(Collected', Out)
  <2>1. CASE more = <<>>
    BY <1>1, <1>2, <1>4, <2>1, ConcatEmptySeq
  <2>2. CASE more # <<>>
    <3>1. PICK frame \in DecodedFrame : more = <<frame>> /\ frame.picture = 0
      BY <2>2
    <3>2. Collected' = Append(Collected, frame)
      BY <1>1, <1>2, <3>1, AppendIsConcat
    <3>3. InOrder(Append(Collected, frame), Out)
      BY <1>1, <1>4, <3>1, OrderOfAppend
    <3> QED
      BY <3>2, <3>3
  <2> QED
    BY <2>1, <2>2
<1>6. \A i \in DOMAIN returned' : returned'[i].picture \in 0 .. Len(taken)
  BY <1>1, <1>2, <1>5 DEF InOrder
<1>7. DecoderTypeOK'
  BY <1>2, <1>3, <1>6 DEF DecoderIInv, DecoderTypeOK, Results
<1>8. HeldIsTheRest'
  BY DEF DecoderIInv, HeldIsTheRest
<1>9. Kept'
  <2>1. SUFFICES ASSUME NEW p \in 1 .. Out,
                        harm = "none" \/ (harm = "damaged" /\ taken[p].kind = "good")
                 PROVE  Has(Collected', p)
    BY <1>1 DEF Kept
  <2>2. Has(Collected, p)
    BY <2>1 DEF DecoderIInv, Kept
  <2> QED
    BY <1>1, <1>2, <2>2, HasOfPrefix
<1>10. Settled'
  BY DEF Settled, Ready
<1>11. more = <<>> => Collected' = Collected
  BY <1>1, <1>2, ConcatEmptySeq
<1> QED
  BY <1>1, <1>5, <1>7, <1>8, <1>9, <1>10, <1>11 DEF DecoderIInv

\* A damaged picture ends an operation that returns what it has.
LEMMA DamagedStep ==
    ASSUME DecoderIInv, NEW picture, Receive(picture), Damaged(picture), Return(<<>>),
           harm' = IF harm = "none" THEN "damaged" ELSE harm, UNCHANGED pimpl_
    PROVE  DecoderIInv' /\ Collected' = Collected
<1>1. /\ Collected \in Seq(DecodedFrame) /\ Out \in Nat /\ Len(taken) \in Nat
      /\ <<>> \in Seq(DecodedFrame)
  BY DecoderFacts
<1>2. /\ picture = Out + 1 /\ picture \in 1 .. Len(taken) /\ Out' = Out + 1
      /\ Out' \in Nat /\ Out' <= Len(taken)
      /\ held' \in Seq(Nat) /\ UNCHANGED <<draining, taken>>
      /\ \A i \in DOMAIN held' : held'[i] \in 1 .. Len(taken)
      /\ HeldIsTheRest'
  BY ReceiveFacts
<1>3. /\ Collected' = Collected /\ frames' = <<>> /\ returned' = Collected
      /\ returned' \in Seq(DecodedFrame)
  BY <1>1, ReturnCollects, ConcatEmptySeq
<1>4. call' = "none" /\ result' = "frames" /\ harm' # "none"
      /\ (harm' = "damaged" <=> harm \in {"none", "damaged"})
  BY DEF Return
<1>5. InOrder(Collected, Out)
  BY DEF DecoderIInv
<1>6. InOrder(Collected, Out')
  BY <1>1, <1>2, <1>5 DEF InOrder
<1>7. \A i \in DOMAIN returned' : returned'[i].picture \in 0 .. Len(taken)
  BY <1>1, <1>2, <1>3, <1>6 DEF InOrder
<1>8. harm' \in {"none", "damaged", "thrown"}
  BY DEF DecoderIInv, DecoderTypeOK
<1>9. DecoderTypeOK'
  BY <1>2, <1>3, <1>4, <1>7, <1>8 DEF DecoderIInv, DecoderTypeOK, Results
<1>10. Kept'
  <2>1. SUFFICES ASSUME NEW p \in 1 .. Out + 1, harm' = "damaged", taken[p].kind = "good"
                 PROVE  Has(Collected, p)
    BY <1>2, <1>3, <1>4 DEF Kept
  <2>2. p # Out + 1
    BY <1>2, <2>1 DEF Damaged
  <2>3. p \in 1 .. Out /\ harm \in {"none", "damaged"}
    BY <1>1, <1>4, <2>1, <2>2
  <2> QED
    BY <2>1, <2>3 DEF DecoderIInv, Kept
<1>11. Settled'
  BY <1>4 DEF Settled
<1> QED
  BY <1>2, <1>3, <1>6, <1>9, <1>10, <1>11 DEF DecoderIInv

\* An exception: the frames of the operation are lost, whatever the codec still has.
LEMMA ThrowStep ==
    ASSUME DecoderIInv, NEW exception \in Results, Throw(exception), harm' = "thrown",
           \/ UNCHANGED <<held, taken>>
           \/ \E picture : Receive(picture),
           draining' \in BOOLEAN, UNCHANGED pimpl_
    PROVE  DecoderIInv' /\ \A clock : Timed(Collected, clock) => Timed(Collected', clock)
<1>1. /\ returned \in Seq(DecodedFrame) /\ Out \in Nat /\ Len(taken) \in Nat /\ Out <= Len(taken)
  BY DecoderFacts
<1>2. call' = "none" /\ result' = exception /\ frames' = <<>> /\ returned' = returned
  BY DEF Throw
<1>3. /\ Collected' = returned /\ InOrder(returned, Out)
      /\ \A clock : Timed(Collected, clock) => Timed(Collected', clock)
  BY <1>2, NothingCollected
<1>4. /\ Out' \in Nat /\ Out <= Out'
      /\ held' \in Seq(Nat) /\ taken' = taken
      /\ \A i \in DOMAIN held' : held'[i] \in 1 .. Len(taken)
      /\ HeldIsTheRest'
  <2>1. CASE UNCHANGED <<held, taken>>
    BY <1>1, <2>1 DEF DecoderIInv, DecoderTypeOK, HeldIsTheRest, Out
  <2>2. ASSUME NEW picture, Receive(picture)
        PROVE  /\ Out' \in Nat /\ Out <= Out'
               /\ held' \in Seq(Nat) /\ taken' = taken
               /\ \A i \in DOMAIN held' : held'[i] \in 1 .. Len(taken)
               /\ HeldIsTheRest'
    BY <1>1, <2>2, ReceiveFacts
  <2> QED
    BY <2>1, <2>2
<1>5. InOrder(Collected', Out')
  BY <1>1, <1>3, <1>4 DEF InOrder
<1>6. DecoderTypeOK'
  BY <1>2, <1>4 DEF DecoderIInv, DecoderTypeOK
<1>7. Kept'
  BY DEF Kept
<1>8. Settled'
  BY DEF Settled
<1> QED
  BY <1>3, <1>4, <1>5, <1>6, <1>7, <1>8 DEF DecoderIInv

LEMMA DecoderInitIInv ==
    ASSUME DecoderInit PROVE DecoderIInv /\ \A clock : Timed(Collected, clock)
<1>1. Collected = <<>> /\ Out = 0
  BY ConcatEmptySeq DEF DecoderInit, Collected, Out
<1>2. DecoderTypeOK
  <2>1. draining \in BOOLEAN /\ pimpl_ \in BOOLEAN
    BY DEF DecoderInit
  <2> QED
    BY <2>1, DecoderAssumption DEF DecoderInit, DecoderTypeOK, Results
<1>3. HeldIsTheRest /\ Settled /\ Kept
  BY <1>1 DEF DecoderInit, HeldIsTheRest, Settled, Ready, Kept
<1>4. InOrder(Collected, Out) /\ \A clock : Timed(Collected, clock)
  BY <1>1 DEF InOrder, Timed
<1> QED
  BY <1>2, <1>3, <1>4 DEF DecoderIInv

\* An operation that returns or throws before it has received anything.
LEMMA RefusedStep ==
    ASSUME DecoderIInv, call = "none",
           Return(<<>>) \/ \E exception \in Results : Throw(exception),
           UNCHANGED <<held, draining, pimpl_, taken, harm>>
    PROVE  DecoderIInv' /\ Collected' = Collected
<1>1. frames = <<>> /\ returned \in Seq(DecodedFrame) /\ pimpl_ \in BOOLEAN
  BY DEF DecoderIInv, DecoderTypeOK
<1>2. returned \o <<>> = returned
  BY <1>1, ConcatEmptySeq
<1>3. call' = "none" /\ result' \in Results /\ frames' = frames /\ returned' = returned
  BY <1>1, <1>2 DEF Return, Throw, Results
<1> QED
  BY <1>1, <1>3, IdleStep

LEMMA MoveStep ==
    ASSUME DecoderIInv, MovedFrom \/ Move
    PROVE  DecoderIInv' /\ Collected' = Collected
<1>1. CASE MovedFrom
  BY <1>1, RefusedStep DEF MovedFrom, Results
<1>2. CASE Move
  <2>1. pimpl_' \in BOOLEAN
    BY <1>2 DEF Move
  <2>2. call = "none" /\ result \in Results
        /\ UNCHANGED <<held, draining, call, frames, result, taken, returned, harm>>
    BY <1>2 DEF Move, DecoderIInv, DecoderTypeOK
  <2> QED
    BY <2>1, <2>2, IdleStep
<1> QED
  BY <1>1, <1>2

\* avcodec_send_packet took the packet and the operation goes on to receive frames.
LEMMA SentStep ==
    ASSUME DecoderIInv, NEW pictures \in Seq(Kinds), NEW pts \in Nat \cup {NoPts},
           Len(taken) + Len(pictures) <= MaxPictures, NEW status, SendPacket(pictures, pts, status),
           call = "none", call' = "decode", UNCHANGED <<pimpl_, frames, result, returned, harm>>
    PROVE  DecoderIInv' /\ Collected' = Collected
<1>1. CASE UNCHANGED <<held, draining, taken>>
  BY <1>1, BeginStep DEF DecoderIInv, DecoderTypeOK
<1>2. CASE ~UNCHANGED <<held, draining, taken>>
  <2> DEFINE n == Len(pictures)
             more == [i \in DOMAIN pictures |-> [kind |-> pictures[i], pts |-> pts]]
             places == [i \in DOMAIN pictures |-> Len(taken) + i]
  <2>1. taken' = taken \o more /\ held' = held \o places /\ UNCHANGED draining
    BY <1>2 DEF SendPacket
  <2>2. /\ held \in Seq(Nat) /\ taken \in Seq(Picture) /\ Len(taken) \in Nat
        /\ n \in Nat /\ DOMAIN pictures = 1 .. n
    BY DecoderFacts
  <2>3. \A i \in 1 .. n : [kind |-> pictures[i], pts |-> pts] \in Picture
    BY <2>2 DEF Picture
  <2>4. more \in Seq(Picture) /\ Len(more) = n
    BY <2>2, <2>3
  <2>5. places \in Seq(Nat) /\ Len(places) = n /\ \A i \in 1 .. n : places[i] = Len(taken) + i
    BY <2>2
  <2>6. Len(taken) + n <= MaxPictures
    OBVIOUS
  <2> HIDE DEF more, places, n
  <2>7. /\ taken' \in Seq(Picture) /\ Len(taken') = Len(taken) + n
        /\ \A i \in 1 .. Len(taken) : taken'[i] = taken[i]
        /\ held' \in Seq(Nat) /\ Len(held') = Len(held) + n
        /\ \A i \in 1 .. Len(held) : held'[i] = held[i]
        /\ \A i \in Len(held) + 1 .. Len(held) + n : held'[i] = Len(taken) + (i - Len(held))
    <3>1. Appended(taken, held, n, more, places)
      BY <2>2, <2>4, <2>5, SentPictures
    <3> QED
      BY <2>1, <3>1, Zenon DEF Appended
  <2>8. UNCHANGED draining
    BY <2>1
  <2> QED
    BY <2>2, <2>6, <2>7, <2>8, SendStep
<1> QED
  BY <1>1, <1>2

-----------------------------------------------------------------------------
\* The video decoder

LEMMA VideoDecodeStep ==
    ASSUME DecoderIInv, VideoTypeOK, NEW packet \in Packets, Decode(packet)
    PROVE  DecoderIInv' /\ VideoTypeOK' /\ Collected' = Collected /\ next_pts_ms' = next_pts_ms
<1> DEFINE pts == IF packet.pts = NotGiven THEN NoPts ELSE packet.pts
<1>1. packet.pictures \in Seq(Kinds) /\ pts \in Nat \cup {NoPts}
  BY PacketsAssumption
<1> HIDE DEF pts
<1>2. PICK status : 
        /\ SendPacket(packet.pictures, pts, status)
        /\ \/ /\ status = "OK" /\ call' = "decode"
              /\ UNCHANGED <<frames, result, returned>>
           \/ status = "INVALIDDATA" /\ Return(<<>>)
           \/ status \notin {"OK", "INVALIDDATA"} /\ Throw("DecoderException")
  BY DEF Decode, pts
<1>3. /\ call = "none" /\ Len(taken) + Len(packet.pictures) <= MaxPictures
      /\ codec_context' = TRUE /\ UNCHANGED <<pimpl_, harm, next_pts_ms, end_of_stream>>
  BY DEF Decode, Callable
<1>4. codec_context' \in BOOLEAN
  BY <1>3
<1>5. VideoTypeOK'
  BY <1>3, <1>4 DEF VideoTypeOK
<1>6. CASE status = "OK"
  BY <1>1, <1>2, <1>3, <1>5, <1>6, SentStep
<1>7. CASE status # "OK"
  <2>1. UNCHANGED <<held, draining, taken>>
    BY <1>2, <1>7 DEF SendPacket
  <2>2. Return(<<>>) \/ \E exception \in Results : Throw(exception)
    BY <1>2, <1>7 DEF Results
  <2> QED
    BY <1>3, <1>5, <2>1, <2>2, RefusedStep
<1> QED
  BY <1>6, <1>7

LEMMA VideoFlushStep ==
    ASSUME DecoderIInv, VideoTypeOK, Flush
    PROVE  /\ DecoderIInv' /\ VideoTypeOK' /\ next_pts_ms' = next_pts_ms
           /\ \A clock : Timed(Collected, clock) => Timed(Collected', clock)
<1>1. call = "none" /\ UNCHANGED <<pimpl_, codec_context, next_pts_ms>>
  BY DEF Flush, Callable
<1>2. end_of_stream' \in BOOLEAN
  BY DEF Flush, VideoTypeOK
<1>3. VideoTypeOK'
  BY <1>1, <1>2 DEF VideoTypeOK
<1>4. CASE end_of_stream /\ Return(<<>>) /\ UNCHANGED <<held, draining, taken, harm, end_of_stream>>
  BY <1>1, <1>3, <1>4, RefusedStep
<1>5. CASE /\ SendEnd("OK") \/ SendEnd("EOF")
           /\ call' = "flush"
           /\ UNCHANGED <<frames, result, returned, harm>>
  <2>1. UNCHANGED <<held, taken>> /\ draining' \in BOOLEAN
    BY <1>5 DEF SendEnd
  <2> QED
    BY <1>1, <1>3, <1>5, <2>1, BeginStep
<1>6. CASE SendEnd("error") /\ Throw("DecoderException") /\ harm' = "thrown"
  <2>1. UNCHANGED <<held, taken>> /\ draining' \in BOOLEAN
    BY <1>6 DEF SendEnd
  <2> QED
    BY <1>1, <1>3, <1>6, <2>1, ThrowStep DEF Results
<1>7. CASE /\ result' = "undefined"
           /\ UNCHANGED <<held, draining, taken, harm, end_of_stream, call, frames, returned>>
  BY <1>1, <1>3, <1>7, IdleStep DEF Results, DecoderIInv, DecoderTypeOK
<1> QED
  BY <1>4, <1>5, <1>6, <1>7 DEF Flush

LEMMA VideoStep ==
    ASSUME DecoderIInv, VideoTypeOK, Timed(Collected, next_pts_ms), VideoNext
    PROVE  DecoderIInv' /\ VideoTypeOK' /\ Timed(Collected', next_pts_ms')
<1>1. ASSUME UNCHANGED videoVars PROVE VideoTypeOK' /\ next_pts_ms' = next_pts_ms
  BY <1>1 DEF VideoTypeOK, videoVars
<1>2. ASSUME NEW packet \in Packets, DecodeRejected(packet)
      PROVE  DecoderIInv' /\ VideoTypeOK' /\ Timed(Collected', next_pts_ms')
  <2>1. /\ call = "none" /\ UNCHANGED <<held, draining, pimpl_, taken, harm>>
        /\ UNCHANGED videoVars
    BY <1>2 DEF DecodeRejected, Callable
  <2>2. Return(<<>>) \/ \E exception \in Results : Throw(exception)
    BY <1>2 DEF DecodeRejected, Results
  <2> QED
    BY <1>1, <2>1, <2>2, RefusedStep
<1>3. ASSUME NEW packet \in Packets, Decode(packet)
      PROVE  DecoderIInv' /\ VideoTypeOK' /\ Timed(Collected', next_pts_ms')
  BY <1>3, VideoDecodeStep
<1>4. CASE Flush
  BY <1>4, VideoFlushStep
<1>5. CASE GetCodecInfo
  <2>1. /\ call = "none" /\ result' = "undefined" /\ UNCHANGED videoVars
        /\ UNCHANGED <<held, draining, pimpl_, call, frames, taken, returned, harm>>
    BY <1>5 DEF GetCodecInfo, Callable
  <2>2. pimpl_' \in BOOLEAN /\ result' \in Results
    BY <2>1 DEF DecoderIInv, DecoderTypeOK, Results
  <2> QED
    BY <1>1, <2>1, <2>2, IdleStep
<1>6. ASSUME NEW picture \in DOMAIN taken, NEW duration \in Durations, ReleaseFrame(picture, duration)
      PROVE  DecoderIInv' /\ VideoTypeOK' /\ Timed(Collected', next_pts_ms')
  <2> DEFINE frame == [picture |-> picture, pts |-> next_pts_ms]
  <2>1. /\ call \in {"decode", "flush"} /\ Receive(picture) /\ frames' = Append(frames, frame)
        /\ UNCHANGED <<pimpl_, call, result, returned, harm>>
        /\ next_pts_ms' = next_pts_ms + Step(duration)
        /\ UNCHANGED <<codec_context, end_of_stream>>
    BY <1>6 DEF ReleaseFrame
  <2>2. next_pts_ms \in Nat /\ next_pts_ms' \in Nat /\ next_pts_ms < next_pts_ms'
    BY <2>1, DurationsAssumption DEF VideoTypeOK, Step
  <2>3. DecoderIInv' /\ frame \in DecodedFrame /\ Collected' = Append(Collected, frame)
    BY <2>1, <2>2, CollectStep
  <2>4. VideoTypeOK'
    BY <2>1, <2>2 DEF VideoTypeOK
  <2>5. frame.pts = next_pts_ms /\ Collected \in Seq(DecodedFrame)
    BY DecoderFacts
  <2> HIDE DEF frame
  <2>6. Timed(Append(Collected, frame), next_pts_ms')
    BY <2>2, <2>3, <2>5, TimesOfAppend
  <2> QED
    BY <2>3, <2>4, <2>6
<1>7. ASSUME NEW picture \in DOMAIN taken, RefuseFrame(picture)
      PROVE  DecoderIInv' /\ VideoTypeOK' /\ Timed(Collected', next_pts_ms')
  <2>1. /\ Receive(picture) /\ Throw("DecoderException") /\ harm' = "thrown"
        /\ UNCHANGED pimpl_ /\ UNCHANGED videoVars
    BY <1>7 DEF RefuseFrame
  <2>2. draining' \in BOOLEAN
    BY <2>1 DEF Receive, DecoderIInv, DecoderTypeOK
  <2> QED
    BY <1>1, <2>1, <2>2, ThrowStep DEF Results
<1>8. ASSUME NEW picture \in DOMAIN taken, StopAtDamaged(picture)
      PROVE  DecoderIInv' /\ VideoTypeOK' /\ Timed(Collected', next_pts_ms')
  BY <1>1, <1>8, DamagedStep DEF StopAtDamaged
<1>9. CASE NoFrameLeft
  <2>1. <<>> \in Seq(DecodedFrame)
    OBVIOUS
  <2> QED
    BY <1>1, <1>9, <2>1, EndStep DEF NoFrameLeft
<1>10. CASE ReceiveFails
  <2>1. draining' \in BOOLEAN
    BY <1>10 DEF ReceiveFails, DecoderIInv, DecoderTypeOK
  <2> QED
    BY <1>1, <1>10, <2>1, ThrowStep DEF ReceiveFails, Results
<1>11. CASE (MovedFrom \/ Move) /\ UNCHANGED videoVars
  BY <1>1, <1>11, MoveStep
<1> QED
  BY <1>2, <1>3, <1>4, <1>5, <1>6, <1>7, <1>8, <1>9, <1>10, <1>11 DEF VideoNext

LEMMA FlushedOutStep ==
    ASSUME DecoderIInv, FlushedOut, VideoNext
    PROVE  FlushedOut'
<1>1. ASSUME UNCHANGED <<held, draining, taken, harm, end_of_stream>>,
             call' = "none" => call = "none"
      PROVE  FlushedOut'
  BY <1>1 DEF FlushedOut, BehindDamage, Damaged
<1>2. ASSUME ~end_of_stream, end_of_stream' = end_of_stream PROVE FlushedOut'
  BY <1>2 DEF FlushedOut
<1>3. ASSUME NEW packet \in Packets, DecodeRejected(packet) PROVE FlushedOut'
  BY <1>1, <1>3 DEF DecodeRejected, Callable, videoVars
<1>4. ASSUME NEW packet \in Packets, Decode(packet) PROVE FlushedOut'
  BY <1>2, <1>4 DEF Decode
<1>5. CASE Flush
  <2>1. CASE end_of_stream /\ UNCHANGED <<held, draining, taken, harm, end_of_stream>>
    BY <1>1, <1>5, <2>1 DEF Flush, Callable
  <2>2. CASE draining' = TRUE /\ (call' = "flush" \/ harm' = "thrown")
    BY <2>2 DEF FlushedOut
  <2>3. CASE ~end_of_stream /\ end_of_stream' = end_of_stream
    BY <1>2, <2>3
  <2> QED
    BY <1>5, <2>1, <2>2, <2>3 DEF Flush, SendEnd
<1>6. CASE GetCodecInfo
  BY <1>1, <1>6 DEF GetCodecInfo, videoVars
<1>7. ASSUME NEW picture \in DOMAIN taken, NEW duration \in Durations, ReleaseFrame(picture, duration)
      PROVE  FlushedOut'
  <2>1. call' # "none" /\ draining' = draining /\ end_of_stream' = end_of_stream
    BY <1>7 DEF ReleaseFrame, Receive
  <2> QED
    BY <2>1 DEF FlushedOut
<1>8. ASSUME harm' = "thrown", UNCHANGED <<draining, end_of_stream>> PROVE FlushedOut'
  BY <1>8 DEF FlushedOut
<1>9. ASSUME NEW picture \in DOMAIN taken, RefuseFrame(picture) PROVE FlushedOut'
  BY <1>8, <1>9 DEF RefuseFrame, Receive, videoVars
<1>10. ASSUME NEW picture \in DOMAIN taken, StopAtDamaged(picture) PROVE FlushedOut'
  <2>1. /\ Receive(picture) /\ taken[picture].kind = "damaged"
        /\ UNCHANGED <<codec_context, next_pts_ms, end_of_stream>>
    BY <1>10 DEF StopAtDamaged, Damaged, videoVars
  <2>2. picture = Out + 1 /\ Out' = Out + 1 /\ Out \in Nat /\ taken' = taken /\ draining' = draining
    BY <2>1, ReceiveFacts, DecoderFacts
  <2>3. Out' > 0 /\ taken'[Out'].kind = "damaged"
    BY <2>1, <2>2
  <2>4. BehindDamage'
    BY <2>3 DEF BehindDamage, Damaged, Out
  <2> QED
    BY <2>1, <2>2, <2>4 DEF FlushedOut
<1>11. CASE NoFrameLeft
  <2>1. ~Ready /\ UNCHANGED <<held, draining>> /\ end_of_stream' = end_of_stream
    BY <1>11 DEF NoFrameLeft, videoVars
  <2>2. draining => held = <<>>
    BY <2>1 DEF Ready
  <2> QED
    BY <2>1, <2>2 DEF FlushedOut
<1>12. CASE ReceiveFails
  BY <1>8, <1>12 DEF ReceiveFails, videoVars
<1>13. CASE (MovedFrom \/ Move) /\ UNCHANGED videoVars
  BY <1>1, <1>13 DEF MovedFrom, Move, Throw, videoVars
<1> QED
  BY <1>3, <1>4, <1>5, <1>6, <1>7, <1>9, <1>10, <1>11, <1>12, <1>13 DEF VideoNext

-----------------------------------------------------------------------------
\* The audio decoder

LEMMA AudioDecodeStep ==
    ASSUME DecoderIInv, AudioTypeOK, NEW packet \in Packets, AudioDecode(packet)
    PROVE  DecoderIInv' /\ AudioTypeOK'
<1>1. packet.pictures \in Seq(Kinds) /\ packet.pts \in Nat \cup {NoPts, NotGiven}
  BY PacketsAssumption
<1>2. PICK status :
        /\ SendEnd(status) \/ SendPacket(packet.pictures, packet_pts', status)
        /\ \/ /\ status \in {"OK", "EOF"}
              /\ call' = "decode"
              /\ UNCHANGED <<frames, result, returned>>
           \/ status \notin {"OK", "EOF"} /\ Throw("DecoderException")
  BY DEF AudioDecode
<1>3. /\ call = "none" /\ Len(taken) + Len(packet.pictures) <= MaxPictures
      /\ packet_pts' = IF packet.pts = NotGiven THEN packet_pts ELSE packet.pts
      /\ UNCHANGED <<pimpl_, swr_ctx>>
  BY DEF AudioDecode, Callable
<1>4. harm' = IF call' = "none" /\ draining' # draining THEN "thrown" ELSE harm
  BY DEF AudioDecode
<1>5. packet_pts' \in Nat \cup {NoPts}
  BY <1>1, <1>3 DEF AudioTypeOK
<1>6. AudioTypeOK'
  BY <1>3, <1>5 DEF AudioTypeOK
<1>7. ASSUME SendEnd(status) PROVE UNCHANGED <<held, taken>> /\ draining' \in BOOLEAN
  BY <1>7 DEF SendEnd
<1>8. CASE status \in {"OK", "EOF"}
  <2>1. call' = "decode" /\ UNCHANGED <<frames, result, returned>> /\ harm' = harm
    BY <1>2, <1>4, <1>8
  <2>2. CASE SendEnd(status)
    BY <1>3, <1>6, <1>7, <2>1, <2>2, BeginStep
  <2>3. CASE SendPacket(packet.pictures, packet_pts', status)
    BY <1>1, <1>3, <1>5, <1>6, <2>1, <2>3, SentStep
  <2> QED
    BY <1>2, <2>2, <2>3
<1>9. CASE status \notin {"OK", "EOF"}
  <2>1. Throw("DecoderException") /\ call' = "none" /\ "DecoderException" \in Results
    BY <1>2, <1>9 DEF Throw, Results
  <2>2. CASE UNCHANGED <<held, draining, taken>>
    BY <1>3, <1>4, <1>6, <2>1, <2>2, RefusedStep
  <2>3. CASE SendEnd(status) /\ draining' # draining
    BY <1>3, <1>4, <1>6, <1>7, <2>1, <2>3, ThrowStep
  <2>4. CASE SendPacket(packet.pictures, packet_pts', status)
    BY <1>9, <2>2, <2>4 DEF SendPacket
  <2> QED
    BY <1>2, <1>7, <2>2, <2>3, <2>4
<1> QED
  BY <1>8, <1>9

LEMMA DrainFrameStep ==
    ASSUME DecoderIInv, AudioTypeOK, NEW picture \in DOMAIN taken, DrainFrame(picture)
    PROVE  DecoderIInv' /\ AudioTypeOK'
<1>1. call \in {"decode", "flush"} /\ Receive(picture) /\ UNCHANGED <<pimpl_, packet_pts>>
  BY DEF DrainFrame
<1>2. swr_ctx' \in {"none", "empty", "holding"}
  BY DEF DrainFrame
<1>3. AudioTypeOK'
  BY <1>1, <1>2 DEF AudioTypeOK
<1>4. CASE /\ frames' = Append(frames, [picture |-> picture, pts |-> taken[picture].pts])
           /\ UNCHANGED <<call, result, returned, harm>>
  <2>1. taken[picture].pts \in Nat \cup {NoPts}
    <3>1. taken \in Seq(Picture) /\ picture \in 1 .. Len(taken)
      BY DecoderFacts
    <3>2. taken[picture] \in Picture
      BY <3>1
    <3> QED
      BY <3>2 DEF Picture
  <2> QED
    BY <1>1, <1>3, <1>4, <2>1, CollectStep
<1>5. CASE Throw("DecoderException") /\ harm' = "thrown"
  <2>1. draining' \in BOOLEAN
    BY <1>1 DEF Receive, DecoderIInv, DecoderTypeOK
  <2> QED
    BY <1>1, <1>3, <1>5, <2>1, ThrowStep DEF Results
<1> QED
  BY <1>4, <1>5 DEF DrainFrame

LEMMA DrainedStep ==
    ASSUME DecoderIInv, AudioTypeOK, Drained
    PROVE  DecoderIInv' /\ AudioTypeOK'
<1> DEFINE rest == [picture |-> 0, pts |-> NoPts]
<1>1. ~Ready /\ UNCHANGED <<held, draining, pimpl_, taken, harm>> /\ UNCHANGED packet_pts
  BY DEF Drained
<1>2. swr_ctx' \in {"none", "empty", "holding"}
  BY DEF Drained, AudioTypeOK
<1>3. AudioTypeOK'
  BY <1>1, <1>2 DEF AudioTypeOK
<1>4. rest \in DecodedFrame /\ rest.picture = 0
  BY DEF DecodedFrame
<1> HIDE DEF rest
<1>5. CASE Return(<<rest>>)
  <2>1. <<rest>> \in Seq(DecodedFrame)
    BY <1>4
  <2> QED
    BY <1>1, <1>3, <1>4, <1>5, <2>1, EndStep
<1>6. CASE Return(<<>>)
  <2>1. <<>> \in Seq(DecodedFrame)
    OBVIOUS
  <2> QED
    BY <1>1, <1>3, <1>6, <2>1, EndStep
<1> QED
  BY <1>5, <1>6 DEF Drained, rest

LEMMA AudioStep ==
    ASSUME DecoderIInv, AudioTypeOK, AudioNext
    PROVE  DecoderIInv' /\ AudioTypeOK'
<1>1. ASSUME UNCHANGED audioVars PROVE AudioTypeOK'
  BY <1>1 DEF AudioTypeOK, audioVars
<1>2. CASE AudioFlush
  <2>1. /\ call = "none" /\ call' = "flush" /\ UNCHANGED audioVars
        /\ UNCHANGED <<pimpl_, frames, result, returned, harm>>
    BY <1>2 DEF AudioFlush, Callable
  <2>2. UNCHANGED <<held, taken>> /\ draining' \in BOOLEAN
    BY <1>2 DEF AudioFlush, SendEnd
  <2> QED
    BY <1>1, <2>1, <2>2, BeginStep
<1>3. CASE DrainFails
  <2>1. /\ UNCHANGED <<held, draining, taken>> \/ \E picture : Receive(picture)
        /\ Throw("DecoderException") /\ harm' = "thrown" /\ UNCHANGED pimpl_ /\ UNCHANGED audioVars
    BY <1>3 DEF DrainFails
  <2>2. draining' \in BOOLEAN
    BY <2>1 DEF Receive, DecoderIInv, DecoderTypeOK
  <2> QED
    BY <1>1, <2>1, <2>2, ThrowStep DEF Results
<1>4. CASE (MovedFrom \/ Move) /\ UNCHANGED audioVars
  BY <1>1, <1>4, MoveStep
<1> QED
  BY <1>2, <1>3, <1>4, AudioDecodeStep, DrainFrameStep, DrainedStep DEF AudioNext

-----------------------------------------------------------------------------
\* The objects together

\* Preserved by every step.
IInv ==
    /\ driven \in {"video", "audio", "demuxer"}
    /\ DecoderIInv /\ VideoTypeOK /\ AudioTypeOK /\ ClockAhead
    /\ driven = "video" => FlushedOut
    /\ DemuxerIInv

LEMMA InitIInv == Init => IInv
<1> SUFFICES ASSUME Init PROVE IInv
  OBVIOUS
<1>1. DecoderIInv /\ ClockAhead
  BY DecoderInitIInv DEF Init, ClockAhead
<1>2. VideoTypeOK /\ AudioTypeOK /\ FlushedOut
  BY DEF Init, VideoInit, VideoTypeOK, AudioInit, AudioTypeOK, FlushedOut
<1> QED
  BY <1>1, <1>2, DemuxerInitIInv DEF Init, IInv

\* What an object does not touch stays as it is.
LEMMA DecoderUnchanged ==
    ASSUME DecoderIInv, UNCHANGED decoderVars PROVE DecoderIInv' /\ Collected' = Collected
<1>1. UNCHANGED <<held, draining, pimpl_, call, frames, result, taken, returned, harm>>
  BY DEF decoderVars
<1>2. Collected' = Collected /\ Out' = Out
  BY <1>1 DEF Collected, Out
<1>3. DecoderTypeOK' /\ HeldIsTheRest' /\ Settled'
  BY <1>1 DEF DecoderIInv, DecoderTypeOK, HeldIsTheRest, Settled, Ready
<1>4. InOrder(Collected', Out') /\ Kept'
  BY <1>1, <1>2 DEF DecoderIInv, Kept
<1> QED
  BY <1>2, <1>3, <1>4 DEF DecoderIInv

LEMMA DemuxerUnchanged ==
    ASSUME DemuxerIInv, UNCHANGED demuxerVars PROVE DemuxerIInv'
<1>1. UNCHANGED <<at, input, live, owned, video_stream_index, audio_stream_index, packets, outcome>>
  BY DEF demuxerVars
<1>2. DemuxerTypeOK' /\ Ownership' /\ Leftover'
  BY <1>1 DEF DemuxerIInv, DemuxerTypeOK, Ownership, Constructed, Leftover
<1>3. Found' /\ Read'
  BY <1>1 DEF DemuxerIInv, Found, Read
<1> QED
  BY <1>2, <1>3 DEF DemuxerIInv

LEMMA NextIInv == IInv /\ [Next]_vars => IInv'
<1> SUFFICES ASSUME IInv, [Next]_vars PROVE IInv'
  OBVIOUS
<1>1. ASSUME UNCHANGED videoVars PROVE VideoTypeOK' /\ next_pts_ms' = next_pts_ms
  BY <1>1 DEF IInv, VideoTypeOK, videoVars
<1>2. ASSUME UNCHANGED audioVars PROVE AudioTypeOK'
  BY <1>2 DEF IInv, AudioTypeOK, audioVars
<1>3. CASE driven = "video" /\ VideoNext /\ UNCHANGED <<audioVars, demuxerVars, driven>>
  <2>1. Timed(Collected, next_pts_ms)
    BY <1>3 DEF IInv, ClockAhead
  <2>2. DecoderIInv' /\ VideoTypeOK' /\ Timed(Collected', next_pts_ms')
    BY <1>3, <2>1, VideoStep DEF IInv
  <2>3. ClockAhead' /\ FlushedOut'
    BY <1>3, <2>2, FlushedOutStep DEF IInv, ClockAhead
  <2> QED
    BY <1>2, <1>3, <2>2, <2>3, DemuxerUnchanged DEF IInv
<1>4. CASE driven = "audio" /\ AudioNext /\ UNCHANGED <<videoVars, demuxerVars, driven>>
  <2>1. ClockAhead'
    BY <1>4 DEF ClockAhead
  <2> QED
    BY <1>1, <1>4, <2>1, AudioStep, DemuxerUnchanged DEF IInv
<1>5. CASE driven = "demuxer" /\ DemuxerNext /\ UNCHANGED <<decoderVars, videoVars, audioVars, driven>>
  <2>1. ClockAhead'
    BY <1>5 DEF ClockAhead
  <2> QED
    BY <1>1, <1>2, <1>5, <2>1, DecoderUnchanged, DemuxerNextIInv DEF IInv
<1>6. CASE UNCHANGED vars
  <2>1. UNCHANGED decoderVars /\ UNCHANGED videoVars /\ UNCHANGED audioVars
        /\ UNCHANGED demuxerVars /\ UNCHANGED driven
    BY <1>6 DEF vars
  <2>2. ClockAhead'
    BY <1>1, <2>1, DecoderUnchanged DEF IInv, ClockAhead
  <2>3. FlushedOut' <=> FlushedOut
    BY <2>1 DEF FlushedOut, BehindDamage, Damaged, decoderVars, videoVars
  <2> QED
    BY <1>1, <1>2, <2>1, <2>2, <2>3, DecoderUnchanged, DemuxerUnchanged DEF IInv
<1> QED
  BY <1>3, <1>4, <1>5, <1>6 DEF Next

LEMMA Invariance == Spec => []IInv
  BY InitIInv, NextIInv, PTL DEF Spec

-----------------------------------------------------------------------------
\* Nothing is left in the local vector of an operation that has ended, and every frame is of a
\* picture that the codec was given.
THEOREM TypeCorrect == Spec => []TypeOK
<1>1. IInv => TypeOK
  BY DEF IInv, DecoderIInv, DemuxerIInv, TypeOK
<1> QED
  BY <1>1, Invariance, PTL

\* On each way out of demux(), after any segments and whichever call has failed, what a
\* unique_ptr owns is released in the right order and once; the AVIO buffer and the filters of
\* an opened input, which nobody owns, are left, both of them by every call that returns packets.
THEOREM AlwaysReleasesWhatItOwns == Spec => []ReleasesWhatItOwns
<1>1. IInv => ReleasesWhatItOwns
  BY DemuxerPromises DEF IInv
<1> QED
  BY <1>1, Invariance, PTL

\* Indices and packets are of the segment of the call, and the conversion of times keeps their
\* order for any unit that is not shorter than a microsecond.
THEOREM AlwaysReturnsThisSegment == Spec => []ReturnsThisSegment
<1>1. IInv => ReturnsThisSegment
  BY DemuxerPromises DEF IInv
<1> QED
  BY <1>1, Invariance, PTL

\* Frames of both decoders come in output order, each once, and those of video at times that go
\* up strictly, whatever durations the codec reports.
THEOREM FramesAlwaysOrdered == Spec => []FramesOrdered
<1>1. IInv => FramesOrdered
  <2> SUFFICES ASSUME IInv PROVE FramesOrdered
    OBVIOUS
  <2>1. /\ frames \in Seq(DecodedFrame) /\ returned \in Seq(DecodedFrame) /\ Out \in Nat
        /\ InOrder(returned \o frames, Out)
        /\ driven = "video" => Timed(returned \o frames, next_pts_ms)
    BY DecoderFacts DEF IInv, DecoderIInv, ClockAhead, Collected
  <2>2. InOrder(returned, Out)
    BY <2>1, OrderOfPrefix
  <2>3. driven = "video" => Timed(returned, next_pts_ms)
    BY <2>1, TimesOfPrefix
  <2> QED
    BY <2>2, <2>3 DEF FramesOrdered, InOrder, Timed
<1> QED
  BY <1>1, Invariance, PTL

\* Unless an operation has thrown, a good picture that is neither returned nor collected is in
\* the codec, and the codec is still asked for it, except behind a damaged picture at which a
\* flush has stopped.
THEOREM LosesOnlyBehindDamage == Spec => []LostOnlyBehindDamage
<1>1. IInv => LostOnlyBehindDamage
  <2> SUFFICES ASSUME IInv, harm # "thrown", NEW p \in DOMAIN taken, taken[p].kind = "good"
               PROVE  \/ (\E i \in DOMAIN held : held[i] = p) /\ (StillAsked \/ BehindDamage)
                      \/ \E i \in DOMAIN frames : frames[i].picture = p
                      \/ \E i \in DOMAIN returned : returned[i].picture = p
    BY DEF LostOnlyBehindDamage
  <2>1. /\ frames \in Seq(DecodedFrame) /\ returned \in Seq(DecodedFrame)
        /\ held \in Seq(Nat) /\ Len(held) \in Nat /\ Len(taken) \in Nat /\ Out \in Nat
        /\ p \in 1 .. Len(taken) /\ harm \in {"none", "damaged"}
    BY DecoderFacts DEF IInv, DecoderIInv, DecoderTypeOK
  <2>2. CASE p \in 1 .. Out
    <3>1. Has(returned \o frames, p)
      BY <2>1, <2>2 DEF IInv, DecoderIInv, Kept, Collected
    <3>2. PICK i \in 1 .. Len(returned) + Len(frames) : (returned \o frames)[i].picture = p
      BY <2>1, <3>1 DEF Has
    <3>3. (returned \o frames)[i] = IF i <= Len(returned) THEN returned[i] ELSE frames[i - Len(returned)]
      BY <2>1, ConcatProperties
    <3>4. /\ Len(returned) \in Nat /\ DOMAIN returned = 1 .. Len(returned)
          /\ Len(frames) \in Nat /\ DOMAIN frames = 1 .. Len(frames)
      BY <2>1
    <3>5. CASE i <= Len(returned)
      BY <3>2, <3>3, <3>4, <3>5
    <3>6. CASE ~(i <= Len(returned))
      <4>1. i - Len(returned) \in DOMAIN frames
        BY <3>4, <3>6
      <4> QED
        BY <3>2, <3>3, <3>6, <4>1
    <3> QED
      BY <3>5, <3>6
  <2>3. CASE p \notin 1 .. Out
    <3>1. p - Out \in 1 .. Len(held) /\ Len(held) <= Len(taken)
      BY <2>1, <2>3 DEF Out, IInv, DecoderIInv, HeldIsTheRest
    <3>2. held[p - Out] = p /\ p - Out \in DOMAIN held
      BY <2>1, <3>1 DEF Out, IInv, DecoderIInv, HeldIsTheRest
    <3>3. held # <<>>
      BY <2>1, <3>2
    <3>4. StillAsked \/ BehindDamage
      BY <3>3 DEF IInv, FlushedOut, StillAsked
    <3> QED
      BY <3>2, <3>4
  <2> QED
    BY <2>2, <2>3
<1> QED
  BY <1>1, Invariance, PTL

\* Until a picture is unusable, what has been returned is what the codec has handed out, and
\* between two operations the codec has nothing more to hand out.
THEOREM NothingEverLost == Spec => []NothingLost
<1>1. IInv => NothingLost
  <2> SUFFICES ASSUME IInv, call = "none", harm = "none"
               PROVE  /\ ~Ready
                      /\ {returned[i].picture : i \in DOMAIN returned} \ {0} = 1 .. Out
    BY DEF NothingLost, Out
  <2>1. returned \in Seq(DecodedFrame) /\ frames = <<>> /\ Out \in Nat
    BY DecoderFacts DEF IInv, DecoderIInv, DecoderTypeOK
  <2>2. Collected = returned
    BY <2>1, ConcatEmptySeq DEF Collected
  <2>3. \A i \in DOMAIN returned : returned[i].picture \in 0 .. Out
    BY <2>2 DEF IInv, DecoderIInv, InOrder
  <2>4. \A p \in 1 .. Out : \E i \in DOMAIN returned : returned[i].picture = p
    BY <2>2 DEF IInv, DecoderIInv, Kept, Has
  <2>5. {returned[i].picture : i \in DOMAIN returned} \ {0} = 1 .. Out
    BY <2>1, <2>3, <2>4
  <2>6. ~Ready
    BY DEF IInv, DecoderIInv, Settled
  <2> QED
    BY <2>5, <2>6
<1> QED
  BY <1>1, Invariance, PTL
==============================================================================
