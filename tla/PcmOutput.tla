------------------------------ MODULE PcmOutput ------------------------------
(***************************************************************************)
(* A PCM derivative of one recording: the plan whether and where to cut it *)
(* (policy.py), the pieces FFmpeg writes, their verification, the records  *)
(* the manifest keeps and their verification when a later job reuses them  *)
(* (ableton.py).  Lengths are in samples, sizes in bytes.                  *)
(***************************************************************************)
EXTENDS Integers, Sequences, FiniteSets, SequencesExt

CONSTANTS
  Lengths,         \* decoded lengths of recordings
  SafeSizes,       \* configured safe sizes
  SegmentLengths,  \* configured segment lengths in seconds
  SampleRate,      \* samples per second
  FrameSize,       \* bytes of one sample in all channels
  Reserve,         \* WAV_HEADER_RESERVE
  Header,          \* bytes of a WAV header
  Packet,          \* samples of one decoded packet
  Drift,           \* samples by which the probed duration may be wrong
  Radix,           \* 10, and ...
  Digits           \* ... 3: parts are numbered with this many digits at least

\* The reserve is there for the header, for the packet that runs over a cut, and
\* for a duration that is slightly wrong.
ASSUME PcmAssumption ==
  /\ Lengths \subseteq Nat \ {0} /\ SegmentLengths \subseteq Nat \ {0}
  /\ SafeSizes \subseteq Nat /\ Reserve \in Nat
  /\ SampleRate \in Nat \ {0} /\ FrameSize \in Nat \ {0} /\ Packet \in 1..SampleRate
  /\ Header \in Nat /\ Drift \in Nat
  /\ Header + FrameSize * (Packet + Drift) <= Reserve
  /\ \A s \in SafeSizes : s - Reserve >= SampleRate * FrameSize
  /\ Radix \in Nat \ {0, 1} /\ Digits \in Nat \ {0}

VARIABLES
  decoded, probed,  \* length of the recording, and what its probe reported
  config,           \* configured safe size and segment length
  phase,            \* planning, verifying, published, reused, refused, conflict
  files,            \* generated pieces in the order of their names
  records           \* assets verified so far, as the manifest will list them

pcmVars == <<decoded, probed, config, phase, files, records>>

PcmInit ==
  /\ decoded \in Lengths
  /\ probed \in { n \in decoded - Drift .. decoded + Drift : n > 0 }
  /\ config \in [safe : SafeSizes, segment : SegmentLengths]
  /\ phase = "planning"
  /\ files = <<>> /\ records = <<>>

-----------------------------------------------------------------------------
(* plan_ableton_output and estimate_pcm_bytes.                             *)

\* Mutant: the reserve is forgotten in the decision to cut.
SegmentedLate == probed * FrameSize > config.safe

Segmented == probed * FrameSize + Reserve > config.safe

SegmentSeconds ==
  Min({config.segment, (config.safe - Reserve) \div (SampleRate * FrameSize)})

-----------------------------------------------------------------------------
(* FFmpeg's segment muxer: a piece begins at the first packet that does    *)
(* not begin before a multiple of the segment length.                      *)

PieceStart(k) ==
  LET cut == k * SegmentSeconds * SampleRate
  IN  Packet * ((cut + Packet - 1) \div Packet)

PieceCount ==
  IF Segmented THEN Cardinality({ k \in 0 .. decoded : PieceStart(k) < decoded }) ELSE 1

PieceLength(i) ==
  IF Segmented THEN Min({PieceStart(i), decoded}) - PieceStart(i - 1) ELSE decoded

Power[d \in Nat] == IF d = 0 THEN 1 ELSE Radix * Power[d - 1]

\* "part-%03d": so many digits at least.
NameLength(n) ==
  CHOOSE d \in Digits .. Digits + n : n < Power[d] /\ (d > Digits => n >= Power[d - 1])

\* A number filled up with noughts on the right to the length of the longest name.
Filled(n) == n * Power[NameLength(PieceCount) - NameLength(n)]

\* Names are compared as text: as the filled numbers, a name before its own
\* continuations.
NamePrecedes(m, n) == Filled(m) < Filled(n) \/ (Filled(m) = Filled(n) /\ m < n)

\* The listing sorted by name: at each place the piece with so many before it.
Listed ==
  [p \in 1 .. PieceCount |->
     CHOOSE n \in 1 .. PieceCount :
       Cardinality({ m \in 1 .. PieceCount : NamePrecedes(m, n) }) = p - 1]

-----------------------------------------------------------------------------
(* _generate and _verify_generated.                                        *)

\* The conversion, and the listing of what it made, sorted by name.
Convert ==
  /\ phase = "planning"
  /\ files' = Listed
  /\ phase' = "verifying"
  /\ UNCHANGED <<decoded, probed, config, records>>

\* The next piece: its size is checked, its samples are counted, and it takes
\* the place after the one before it.
VerifyPiece ==
  /\ phase = "verifying" /\ Len(records) < Len(files)
  /\ LET position == Len(records) + 1
         piece == files[position]
         start == IF records = <<>> THEN 0 ELSE Last(records).end
     IN  IF Header + PieceLength(piece) * FrameSize > config.safe
           THEN phase' = "refused" /\ UNCHANGED records
           ELSE /\ records' = Append(records,
                     [piece |-> piece, index |-> IF Segmented THEN position ELSE 0,
                      start |-> start, end |-> start + PieceLength(piece)])
                /\ UNCHANGED phase
  /\ UNCHANGED <<decoded, probed, config, files>>

\* A recording that was to be cut must have come out in several pieces.
Publish ==
  /\ phase = "verifying" /\ Len(records) = Len(files)
  /\ phase' = IF Segmented /\ Len(records) < 2 THEN "refused" ELSE "published"
  /\ UNCHANGED <<decoded, probed, config, files, records>>

\* _verify_existing: a later job takes the pieces up as the manifest has them.
Contiguous ==
  \A i \in DOMAIN records :
    /\ records[i].start = IF i = 1 THEN 0 ELSE records[i - 1].end
    /\ records[i].end - records[i].start = PieceLength(records[i].piece)
    /\ Len(records) > 1 => records[i].index = i

Reuse ==
  /\ phase = "published"
  /\ phase' = IF Contiguous THEN "reused" ELSE "conflict"
  /\ UNCHANGED <<decoded, probed, config, files, records>>

PcmNext == Convert \/ VerifyPiece \/ Publish \/ Reuse

PcmSpec == PcmInit /\ [][PcmNext]_pcmVars

-----------------------------------------------------------------------------
\* A derivative that is published holds the whole recording, each piece within
\* the safe size and recorded where its samples are, and a later job accepts it.
\* The order needs fewer parts than their digits can number: part-1000 sorts
\* before part-101.  A conversion is never refused for the size of a piece; only
\* a recording that exceeds one segment by less than a packet comes out whole
\* (policy.py: plan_ableton_output; ableton.py: _verify_generated).
PiecesWhole ==
  /\ phase \in {"published", "reused"} =>
       /\ Last(records).end = decoded
       /\ \A i \in DOMAIN records :
            Header + PieceLength(records[i].piece) * FrameSize <= config.safe
       /\ PieceCount < Power[Digits] =>
            \A i \in DOMAIN records :
              /\ records[i].piece = i
              /\ records[i].start = IF Segmented THEN PieceStart(i - 1) ELSE 0
  /\ phase = "refused" => Segmented /\ PieceCount = 1
  /\ phase # "conflict"
=============================================================================
