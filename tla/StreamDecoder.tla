---------------------------- MODULE StreamDecoder ----------------------------
(***************************************************************************)
(* StreamDecoder (utf/tscg_b/core.py): frames are cut out of a byte stream *)
(* that arrives in chunks of any size, may carry bytes between frames and  *)
(* may have been damaged on the way.                                       *)
(*                                                                         *)
(* A stream is a sequence of cells <<kind, number>>, each standing for a   *)
(* run of bytes.  A frame is the two halves of the magic, a cell with the  *)
(* number of payload cells, the payload, and one cell for CRC32 and        *)
(* SHA-256.  The check sums have no collisions: unpack_frame() accepts     *)
(* exactly what pack_text() packed.                                        *)
(***************************************************************************)
EXTENDS Integers, SequencesExt

CONSTANTS
  Payloads,   \* Payloads[i], the cells of the i-th text that is packed
  Wires,      \* streams: [cells, starts], starts[i] being where frame i begins
  MaxBuffer,  \* 65536 in the code
  MaxFlushes  \* bound: calls of flush()

VARIABLES
  wire,      \* the stream of this run
  fed,       \* how many of its cells were fed
  buffer,    \* StreamDecoder.buffer
  decoding,  \* feed() is in its loop
  frames,    \* numbers of the frames returned by feed() so far
  stalled,   \* history: the last feed() ended at a frame it refused
  dropped,   \* history: cells of a frame were thrown away with the buffer
  flushes    \* calls of flush()
streamVars == <<wire, fed, buffer, decoding, frames, stalled, dropped, flushes>>

Magic == << <<"magic", 1>>, <<"magic", 2>> >>
HeaderSize == 3
SumSize == 1
MinFrameSize == HeaderSize + SumSize

\* pack_text()
Packed(i) == Magic \o << <<"length", Len(Payloads[i])>> >> \o Payloads[i] \o << <<"sum", i>> >>

\* The frames of a stream follow one another, and what was packed is found
\* nowhere but where it was sent, however the stream was damaged.
Cell == {"magic", "length", "data", "sum"} \X Nat
Carries(w) ==
  /\ w.cells \in Seq(Cell) /\ w.starts \in [DOMAIN Payloads -> Nat \ {0}]
  /\ \A i \in DOMAIN Payloads :
       /\ w.starts[i] + Len(Packed(i)) - 1 <= Len(w.cells)
       /\ \A j \in DOMAIN Payloads :
            i < j => w.starts[i] + Len(Packed(i)) <= w.starts[j]
       /\ \A p \in 1..(Len(w.cells) - Len(Packed(i)) + 1) :
            SubSeq(w.cells, p, p + Len(Packed(i)) - 1) = Packed(i) => p = w.starts[i]
ASSUME StreamAssumption ==
  /\ Payloads \in Seq(Seq(Cell))
  /\ MaxBuffer \in Nat /\ MaxBuffer >= MinFrameSize /\ MaxFlushes \in Nat
  /\ \A w \in Wires : Carries(w)

StreamInit ==
  /\ wire \in Wires
  /\ fed = 0 /\ buffer = <<>> /\ decoding = FALSE
  /\ frames = <<>> /\ stalled = FALSE /\ dropped = FALSE /\ flushes = 0

\* buffer.find(MAGIC), -1 when it is not there
MagicAt == {i \in 1..(Len(buffer) - 1) : SubSeq(buffer, i, i + 1) = Magic}
Find == IF MagicAt = {} THEN -1 ELSE Min(MagicAt) - 1

\* Mutant: the check sums are not counted.
MutFrameSize(b) == HeaderSize + b[HeaderSize][2]
\* Whatever follows the magic is read as the payload length.
FrameSize(b) == HeaderSize + b[HeaderSize][2] + SumSize

\* Mutant: the check sums are not verified.
MutUnpacked(cells) == {i \in DOMAIN Payloads : SubSeq(cells, 1, 2) = Magic /\
                                               Len(cells) = Len(Packed(i))}
Unpacked(cells) == {i \in DOMAIN Payloads : cells = Packed(i)}

\* feed(): extend the buffer, then decode until _try_decode() gives nothing.
Feed(n) ==
  /\ ~decoding /\ fed + n <= Len(wire.cells)
  /\ buffer' = buffer \o SubSeq(wire.cells, fed + 1, fed + n)
  /\ fed' = fed + n
  /\ decoding' = TRUE /\ stalled' = FALSE
  /\ UNCHANGED <<wire, frames, dropped, flushes>>

TooShort ==
  /\ decoding /\ Len(buffer) < MinFrameSize
  /\ decoding' = FALSE
  /\ UNCHANGED <<wire, fed, buffer, frames, stalled, dropped, flushes>>

\* Mutant: one cell more is kept.
MutOverfull == Len(buffer) > MaxBuffer + 1
Overfull == Len(buffer) > MaxBuffer

NoMagic ==
  /\ decoding /\ Len(buffer) >= MinFrameSize /\ Find = -1
  /\ decoding' = FALSE
  /\ IF Overfull
     THEN buffer' = <<>> /\ dropped' = (dropped \/ Last(buffer) = Magic[1])
     ELSE UNCHANGED <<buffer, dropped>>
  /\ UNCHANGED <<wire, fed, frames, stalled, flushes>>

\* The buffer from its first magic on
Synced == SubSeq(buffer, Find + 1, Len(buffer))
HasFrame == /\ Len(buffer) >= MinFrameSize /\ Find # -1
            /\ Len(Synced) >= HeaderSize /\ Len(Synced) >= FrameSize(Synced)

Incomplete ==
  /\ decoding /\ Len(buffer) >= MinFrameSize /\ Find # -1 /\ ~HasFrame
  /\ buffer' = Synced
  /\ decoding' = FALSE
  /\ UNCHANGED <<wire, fed, frames, stalled, dropped, flushes>>

\* A frame is cut out; one that unpack_frame() refuses ends the loop.
CutFrame ==
  /\ decoding /\ HasFrame
  /\ LET size == FrameSize(Synced)
         got  == Unpacked(SubSeq(Synced, 1, size))
     IN  /\ buffer' = SubSeq(Synced, size + 1, Len(Synced))
         /\ IF got = {}
            THEN decoding' = FALSE /\ stalled' = TRUE /\ UNCHANGED frames
            ELSE /\ \E i \in got : frames' = Append(frames, i)
                 /\ UNCHANGED <<decoding, stalled>>
  /\ UNCHANGED <<wire, fed, dropped, flushes>>

Flush ==
  /\ ~decoding /\ flushes < MaxFlushes
  /\ dropped' = (dropped \/ buffer # <<>>)
  /\ buffer' = <<>> /\ flushes' = flushes + 1
  /\ UNCHANGED <<wire, fed, decoding, frames, stalled>>

StreamNext ==
  \/ \E n \in 0..(Len(wire.cells) - fed) : Feed(n)
  \/ TooShort \/ NoMagic \/ Incomplete \/ CutFrame \/ Flush

StreamSpec == StreamInit /\ [][StreamNext]_streamVars

-----------------------------------------------------------------------------
(* Properties                                                              *)

StreamTypeOK ==
  /\ wire \in Wires /\ fed \in 0..Len(wire.cells)
  /\ \E i \in 0..fed : buffer = SubSeq(wire.cells, i + 1, fed)
  /\ frames \in Seq(DOMAIN Payloads)
  /\ decoding \in BOOLEAN /\ stalled \in BOOLEAN /\ dropped \in BOOLEAN
  /\ flushes \in 0..MaxFlushes

LastCell(i) == wire.starts[i] + Len(Packed(i)) - 1
Intact(i) == SubSeq(wire.cells, wire.starts[i], LastCell(i)) = Packed(i)
Received(i) == LastCell(i) <= fed
\* What is left of the wire in the buffer begins after this many cells.
Consumed == fed - Len(buffer)

\* Whatever was damaged and however it was cut into chunks, feed() returns
\* only frames that arrived intact, each once and in the order they were sent.
DeliveredAreSent ==
  /\ \A k \in DOMAIN frames : Intact(frames[k]) /\ Received(frames[k])
  /\ \A j, k \in DOMAIN frames : j < k => wire.starts[frames[j]] < wire.starts[frames[k]]

\* Bytes without a magic do not pile up, and one that is found keeps no more
\* than the frame it announces: after a feed() that met no damaged frame the
\* buffer is small or holds the beginning of a frame.
BufferBounded ==
  ~decoding /\ ~stalled =>
    \/ Len(buffer) <= MaxBuffer
    \/ SubSeq(buffer, 1, 2) = Magic /\ Len(buffer) < FrameSize(buffer)

\* Damage that spares the headers: payloads and check sums only, and no magic
\* between frames.
Header(i) == SubSeq(wire.cells, wire.starts[i], wire.starts[i] + HeaderSize - 1)
Aligned ==
  /\ \A i \in DOMAIN Payloads : Header(i) = SubSeq(Packed(i), 1, HeaderSize)
  /\ \A p \in 1..(Len(wire.cells) - 1) :
       SubSeq(wire.cells, p, p + 1) = Magic =>
         \E i \in DOMAIN Payloads : p \in wire.starts[i]..LastCell(i)

\* If the headers arrive, damage to one frame never costs another: an intact
\* frame has been returned or is still in the buffer; and it does not stay
\* there after a feed() that met no damaged frame.
NoFrameLost ==
  Aligned /\ ~dropped =>
    \A i \in DOMAIN Payloads : Intact(i) /\ Received(i) =>
      \/ Contains(frames, i)
      \/ wire.starts[i] > Consumed /\ (decoding \/ stalled)
=============================================================================
