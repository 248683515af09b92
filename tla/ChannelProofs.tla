--------------------------- MODULE ChannelProofs ----------------------------
(***************************************************************************)
(* The development channel: its two ends stay in step for any messages and *)
(* any capacity of the line, and its requests keep within their rate,      *)
(* whatever the clock does.                                                *)
(***************************************************************************)
EXTENDS DevChannel, RequestBudget, Integers, SequenceTheorems, TLAPS

-----------------------------------------------------------------------------
(* The requests (RequestBudget): the bound, for every rate, burst and width *)
(* of the arithmetic.                                                      *)

LEMMA ProductType == \A a, b \in Nat : a * b \in Nat
  OBVIOUS

(* What `take` finds in the bucket: between nothing and the burst, at most *)
(* what was there and what the time brought, and one request's worth if    *)
(* the time brought that much.                                             *)
LEMMA RefilledBounds ==
    ASSUME BudgetTypeOK, NEW now \in 0 .. MaxNow
    PROVE  /\ Elapsed(now) \in Nat
           /\ Latest(now) = last_ms + Elapsed(now)
           /\ Elapsed(now) * Rate \in Nat
           /\ Refilled(now) \in 0 .. Full
           /\ Refilled(now) <= tokens + Elapsed(now) * Rate
           /\ Elapsed(now) * Rate >= Unit => Refilled(now) >= Unit
  <1>1. /\ tokens \in Nat /\ last_ms \in Nat /\ now \in Nat /\ tokens <= Full
        /\ MaxU64 \in Nat /\ Rate \in Nat /\ Unit \in Nat
    BY BudgetType, ProductType DEF BudgetTypeOK, Full
  <1>2. /\ Full \in Nat /\ Full <= MaxU64 /\ Unit <= Full
    <2>1. \A b \in Nat \ {0}, u \in Nat : u <= b * u
      OBVIOUS
    <2> QED  BY <2>1, BudgetType, ProductType DEF Full
  <1>3. Elapsed(now) \in Nat /\ Latest(now) = last_ms + Elapsed(now)
    BY <1>1 DEF Elapsed, Latest
  <1> DEFINE e == Elapsed(now) * Rate
  <1>4. e \in Nat
    BY <1>1, <1>3, ProductType
  <1> HIDE DEF e
  <1>5. Refilled(now) = Lesser(Saturate(tokens + Saturate(e)), Full)
    BY DEF Refilled, e
  <1>6. /\ Refilled(now) \in 0 .. Full
        /\ Refilled(now) <= tokens + e
        /\ e >= Unit => Refilled(now) >= Unit
    BY <1>1, <1>2, <1>4, <1>5 DEF Lesser, Saturate
  <1> QED  BY <1>3, <1>4, <1>6 DEF e

LEMMA BudgetStarts == BudgetInit => BudgetInv
  <1> SUFFICES ASSUME BudgetInit PROVE BudgetInv
    OBVIOUS
  <1>1. Full \in Nat
    BY BudgetType, ProductType DEF Full
  <1>2. 0 * Unit = 0 /\ 0 * Rate = 0
    BY BudgetType
  <1>3. last_ms \in Nat /\ last_ms - since = 0
    BY BudgetType DEF BudgetInit
  <1>4. tokens = Full /\ since = last_ms /\ taken = 0 /\ spaced = TRUE /\ refused = FALSE
    BY DEF BudgetInit
  <1>5. BudgetTypeOK
    <2>1. tokens \in 0 .. Full /\ since \in 0 .. last_ms /\ taken \in Nat
      BY <1>1, <1>3, <1>4
    <2> QED  BY <1>3, <1>4, <2>1, Zenon DEF BudgetTypeOK
  <1>6. Balance
    <2>1. taken * Unit = 0 /\ (last_ms - since) * Rate = 0
      BY <1>2, <1>3, <1>4
    <2> QED  BY <1>1, <1>4, <2>1 DEF Balance
  <1>7. SpacedNeverRefused
    BY <1>4 DEF SpacedNeverRefused
  <1> QED  BY <1>5, <1>6, <1>7 DEF BudgetInv

LEMMA BudgetTake ==
    ASSUME BudgetInv, NEW now \in 0 .. MaxNow, Take(now)
    PROVE  BudgetInv'
  <1> DEFINE e == Elapsed(now)
             R == Refilled(now)
  <1>1. /\ e \in Nat /\ last_ms' = last_ms + e
        /\ e * Rate \in Nat /\ R \in 0 .. Full /\ R <= tokens + e * Rate
        /\ e * Rate >= Unit => R >= Unit
    BY RefilledBounds DEF BudgetInv, Take
  <1>2. /\ Unit \in Nat \ {0} /\ Rate \in Nat /\ Full \in Nat
        /\ tokens \in Nat /\ taken \in Nat /\ last_ms \in Nat /\ since \in Nat
        /\ since <= last_ms
    BY BudgetType, ProductType DEF BudgetInv, BudgetTypeOK, Full
  <1>3. /\ since' = since
        /\ spaced' = (spaced /\ e * Rate >= Unit)
        /\ R < Unit => tokens' = R /\ refused' = TRUE /\ taken' = taken
        /\ R >= Unit => tokens' = R - Unit /\ refused' = refused /\ taken' = taken + 1
    BY <1>1, <1>2 DEF Take
  <1> HIDE DEF e, R
  <1>4. BudgetTypeOK'
    <2>1. tokens' \in 0 .. Full /\ taken' \in Nat
      BY <1>1, <1>2, <1>3
    <2>2. last_ms' \in Nat /\ since' \in 0 .. last_ms'
      BY <1>1, <1>2, <1>3
    <2>3. spaced' \in BOOLEAN /\ refused' \in BOOLEAN
      <3>1. spaced \in BOOLEAN /\ refused \in BOOLEAN
        BY DEF BudgetInv, BudgetTypeOK
      <3>2. R < Unit \/ R >= Unit
        BY <1>1, <1>2
      <3> QED  BY <3>1, <3>2, <1>3
    <2> QED  BY <2>1, <2>2, <2>3 DEF BudgetTypeOK, Full
  <1>5. Balance'
    <2> DEFINE T == taken * Unit
               T1 == taken' * Unit
               D == (last_ms - since) * Rate
               D1 == (last_ms' - since') * Rate
               g == e * Rate
    <2>1. tokens + T <= Full + D
      BY DEF BudgetInv, Balance
    <2>2. T \in Nat /\ D \in Nat /\ g \in Nat
      <3>1. last_ms - since \in Nat
        BY <1>2
      <3> QED  BY <1>1, <1>2, <3>1, ProductType
    <2>3. D1 = D + g
      BY <1>1, <1>2, <1>3
    <2>4. T1 = IF R >= Unit THEN T + Unit ELSE T
      BY <1>1, <1>2, <1>3
    <2>5. /\ R \in Nat /\ R <= tokens + g
          /\ tokens' = IF R >= Unit THEN R - Unit ELSE R
      BY <1>1, <1>2, <1>3
    <2> HIDE DEF T, T1, D, D1, g
    <2>6. tokens' + T1 <= Full + D1
      BY <1>2, <2>1, <2>2, <2>3, <2>4, <2>5
    <2>7. Full' = Full
      BY DEF Full
    <2> QED  BY <2>6, <2>7 DEF Balance, T1, D1
  <1>6. SpacedNeverRefused'
    BY <1>1, <1>2, <1>3 DEF BudgetInv, SpacedNeverRefused
  <1> QED  BY <1>4, <1>5, <1>6 DEF BudgetInv

LEMMA BudgetObserve == ASSUME BudgetInv, Observe PROVE BudgetInv'
  <1>1. /\ since' = last_ms /\ taken' = 0 /\ tokens' = tokens /\ last_ms' = last_ms
        /\ spaced' = spaced /\ refused' = refused
    BY DEF Observe
  <1>2. 0 * Unit = 0 /\ (last_ms - last_ms) * Rate = 0 /\ Full \in Nat
    BY BudgetType, ProductType DEF BudgetInv, BudgetTypeOK, Full
  <1>3. BudgetTypeOK'
    BY <1>1 DEF BudgetInv, BudgetTypeOK, Full
  <1>4. Balance'
    BY <1>1, <1>2 DEF BudgetInv, BudgetTypeOK, Balance, Full
  <1> QED  BY <1>1, <1>3, <1>4 DEF BudgetInv, SpacedNeverRefused

LEMMA BudgetStep == BudgetInv /\ [BudgetNext]_budgetVars => BudgetInv'
  <1> SUFFICES ASSUME BudgetInv, [BudgetNext]_budgetVars PROVE BudgetInv'
    OBVIOUS
  <1>1. CASE UNCHANGED budgetVars
    BY <1>1 DEF budgetVars, BudgetInv, BudgetTypeOK, Balance, SpacedNeverRefused, Full
  <1> QED  BY <1>1, BudgetTake, BudgetObserve DEF BudgetNext

THEOREM BudgetInvHolds == BudgetSpec => []BudgetInv
  BY BudgetStarts, BudgetStep, PTL DEF BudgetSpec

(* However the requests of a session fall and whatever its clock does, any *)
(* interval holds at most the burst and what the rate allows for it.       *)
THEOREM RateHolds == BudgetSpec => []WithinRate
  <1>1. BudgetInv => WithinRate
    <2> SUFFICES ASSUME BudgetInv PROVE WithinRate
      OBVIOUS
    <2>1. /\ tokens \in Nat /\ taken * Unit \in Nat /\ Full \in Nat
          /\ (last_ms - since) * Rate \in Nat
      <3>1. last_ms - since \in Nat /\ taken \in Nat
        BY DEF BudgetInv, BudgetTypeOK
      <3> QED  BY <3>1, BudgetType, ProductType DEF BudgetInv, BudgetTypeOK, Full
    <2> QED  BY <2>1 DEF BudgetInv, Balance, WithinRate
  <1> QED  BY <1>1, BudgetInvHolds, PTL

-----------------------------------------------------------------------------
(* The two ends and the line between them (DevChannel). What is on the line *)
(* is a sequence of frames cut into cells: the invariant says which, from  *)
(* what each end has written and read.                                     *)

CellNames == {"first", "length", "header", "chunk"}
Size(frame) == 3 + Chunks(frame)
Cell(k) == IF k = 1 THEN "first" ELSE IF k = 2 THEN "length" ELSE IF k = 3 THEN "header"
           ELSE "chunk"

\* A frame is its three first cells and its chunks.
LEMMA CellsOf ==
    ASSUME NEW frame \in Frames
    PROVE  /\ Chunks(frame) \in 0..MaxChunks /\ Chunks(frame) \in Nat /\ Size(frame) \in Nat
           /\ Size(frame) = 3 + Chunks(frame)
           /\ Cells(frame) \in Seq(CellNames)
           /\ Len(Cells(frame)) = Size(frame)
           /\ \A k \in 1..Size(frame) : Cells(frame)[k] = Cell(k)
<1>1. Chunks(frame) \in 0..MaxChunks
  <2>1. CASE frame.type = "install"
    <3>1. frame.chunks \in 1..MaxChunks
      BY <2>1 DEF Frames
    <3> QED BY <2>1, <3>1, ChannelAssumption DEF Chunks
  <2> QED BY <2>1, ChannelAssumption DEF Chunks
<1> DEFINE three == <<"first", "length", "header">>
           chunks == [i \in 1..Chunks(frame) |-> "chunk"]
<1>2. three \in Seq(CellNames) /\ Len(three) = 3
      /\ three[1] = "first" /\ three[2] = "length" /\ three[3] = "header"
  BY DEF CellNames
<1>3. chunks \in Seq(CellNames) /\ Len(chunks) = Chunks(frame)
      /\ \A i \in 1..Chunks(frame) : chunks[i] = "chunk"
  BY <1>1, ChannelAssumption DEF CellNames
<1>4. Cells(frame) = three \o chunks
  BY DEF Cells
<1> HIDE DEF three, chunks
<1>5. /\ three \o chunks \in Seq(CellNames)
      /\ Len(three \o chunks) = 3 + Chunks(frame)
      /\ \A i \in 1..3 + Chunks(frame) :
           (three \o chunks)[i] = IF i <= 3 THEN three[i] ELSE chunks[i - 3]
  <2>1. /\ three \o chunks \in Seq(CellNames)
        /\ Len(three \o chunks) = Len(three) + Len(chunks)
        /\ \A i \in 1..Len(three) + Len(chunks) :
             (three \o chunks)[i] = IF i <= Len(three) THEN three[i] ELSE chunks[i - Len(three)]
    BY <1>2, <1>3, ConcatProperties
  <2> QED BY <1>2, <1>3, <2>1
<1> QED BY <1>1, <1>2, <1>3, <1>4, <1>5, ChannelAssumption DEF Size, Cell

-----------------------------------------------------------------------------
\* The cells on their way to the reader.
Stream == wire \o unsent

\* How many cells of the frame being read were taken.
Taken == CASE reading.next = "first" -> 0
           [] reading.next = "length" -> 1
           [] reading.next = "header" -> 2
           [] reading.next = "chunk" -> Size(sent[Index]) - reading.left

\* Where each of the frames a to b begins in the stream, one after the other.
Laid(start, a, b, frames, stream) ==
    /\ \A j \in a..b : start[j + 1] = start[j] + Size(frames[j])
    /\ \A j \in a..b + 1 : start[j] <= start[b + 1]
    /\ \A j \in a..b : \A k \in 1..Size(frames[j]) :
         start[j] + k \in 1..Len(stream) => stream[start[j] + k] = Cell(k)
    /\ Len(stream) <= start[b + 1]

\* The frames not yet returned, from the one being read, and the end of the
\* last one when no cell was lost.
Placed(start) ==
    /\ Laid(start, Index, Len(sent), sent, Stream)
    /\ start[Index] = 0 - Taken
    /\ peer = "open" => Len(Stream) = start[Len(sent) + 1]

\* What the reader knows of the frame it is in.
ReadsRight ==
    /\ Len(got) = Len(sent) => reading.next = "first"
    /\ reading.next \in {"header", "chunk"} => sent[Index].header # "size"
    /\ reading.next = "chunk" => /\ sent[Index].type = "install"
                                 /\ reading.left \in 1..sent[Index].chunks

GotRight ==
    /\ Len(got) <= Len(sent)
    /\ \A i \in 1..Len(got) :
         /\ got[i][1] = i /\ sent[i].header = "valid"
         /\ got[i][2] = "digest" <=> sent[i].type = "install" /\ ~sent[i].digest

ChannelInv ==
    /\ ChannelTypeOK /\ GotRight
    /\ ~Closed => ReadsRight /\ \E start \in [Nat -> Int] : Placed(start)

\* What the invariant says in the words of the property.
LEMMA InvInStep == ChannelInv => InStep
<1> SUFFICES ASSUME ChannelInv PROVE InStep
  OBVIOUS
<1> USE ChannelAssumption
<1>1. /\ Len(got) \in Nat /\ Len(sent) \in Nat /\ Index = Len(got) + 1
      /\ wire \in Seq(CellNames) /\ unsent \in Seq(CellNames)
      /\ Len(got) <= Len(sent)
  BY DEF ChannelInv, ChannelTypeOK, GotRight, Index, CellNames
<1>2. ASSUME ~Closed
      PROVE /\ wire # <<>> => Head(wire) = reading.next
            /\ peer = "open" /\ Index = Len(sent) => wire \o unsent = RestOf(sent[Index])
  <2>1. PICK start \in [Nat -> Int] : Placed(start)
    BY <1>2 DEF ChannelInv
  <2>2. /\ Stream \in Seq(CellNames) /\ Len(Stream) = Len(wire) + Len(unsent)
        /\ Len(wire) \in Nat /\ Len(unsent) \in Nat
        /\ \A i \in 1..Len(wire) : Stream[i] = wire[i]
    BY <1>1, ConcatProperties DEF Stream
  <2>3. CASE Len(got) = Len(sent)
    <3>1. Taken = 0
      BY <1>2, <2>3 DEF ChannelInv, ReadsRight, Taken
    <3>2. Len(Stream) <= 0
      BY <1>1, <2>1, <2>3, <3>1 DEF Placed, Laid
    <3>3. Len(wire) = 0
      BY <2>2, <3>2
    <3>4. wire = <<>>
      BY <1>1, <3>3, EmptySeq
    <3> QED BY <1>1, <2>3, <3>4
  <2>4. CASE Len(got) < Len(sent)
    <3> DEFINE frame == sent[Index]
    <3>1. frame \in Frames
      BY <1>1, <2>4, ElementOfSeq DEF ChannelInv, ChannelTypeOK
    <3>2. Chunks(frame) \in Nat /\ Size(frame) = 3 + Chunks(frame)
      BY <3>1, CellsOf DEF Size
    <3>3. reading.next = "chunk" => reading.left \in 1..Chunks(frame)
      BY <1>2 DEF ChannelInv, ReadsRight, Chunks
    <3>4. reading.next \in CellNames
      BY DEF ChannelInv, ChannelTypeOK, CellNames
    <3>5. Taken \in 0..Size(frame) - 1 /\ Cell(Taken + 1) = reading.next
      BY <3>2, <3>3, <3>4 DEF Taken, Cell, CellNames
    <3> HIDE DEF frame
    <3>6. ASSUME wire # <<>> PROVE Head(wire) = reading.next
      <4>1. Len(wire) >= 1 /\ Head(wire) = wire[1]
        BY <1>1, <3>6, EmptySeq
      <4>2. start[Index] + (Taken + 1) = 1
        BY <2>1, <3>2, <3>5 DEF Placed, Laid
      <4>3. Index \in Index..Len(sent) /\ Taken + 1 \in 1..Size(sent[Index])
        <5>1. Index \in Index..Len(sent) BY <1>1, <2>4
        <5>2. Taken + 1 \in 1..Size(frame) BY <3>2, <3>5
        <5> QED BY <5>1, <5>2 DEF frame
      <4>4. Stream[start[Index] + (Taken + 1)] = Cell(Taken + 1)
        <5>1. start[Index] + (Taken + 1) \in 1..Len(Stream)
                => Stream[start[Index] + (Taken + 1)] = Cell(Taken + 1)
          BY <2>1, <4>3 DEF Placed, Laid
        <5> QED BY <2>2, <4>1, <4>2, <5>1
      <4> QED BY <2>2, <3>5, <4>1, <4>2, <4>4
    <3>7. ASSUME peer = "open", Index = Len(sent)
          PROVE  wire \o unsent = RestOf(frame)
      <4>1. start[Index] = 0 - Taken /\ start[Index + 1] = start[Index] + Size(frame)
            /\ Len(Stream) = start[Len(sent) + 1]
        <5>1. Index \in Index..Len(sent) BY <1>1, <3>7
        <5>2. Laid(start, Index, Len(sent), sent, Stream)
          BY <2>1 DEF Placed
        <5>3. start[Index + 1] = start[Index] + Size(frame)
          BY <5>1, <5>2 DEF Laid, frame
        <5> QED BY <2>1, <3>7, <5>3 DEF Placed
      <4>2. Len(Stream) = Size(frame) - Taken
        <5>1. Index + 1 = Len(sent) + 1 BY <3>7
        <5>2. Len(Stream) = (0 - Taken) + Size(frame) BY <4>1, <5>1
        <5>3. Taken \in Int /\ Size(frame) \in Int BY <3>2, <3>5
        <5> QED BY <5>2, <5>3
      <4>3. \A i \in 1..Len(Stream) : Stream[i] = Cell(Taken + i)
        <5>1. SUFFICES ASSUME NEW i \in 1..Len(Stream) PROVE Stream[i] = Cell(Taken + i)
          OBVIOUS
        <5>2. Taken + i \in 1..Size(frame) /\ start[Index] + (Taken + i) = i
          BY <3>2, <3>5, <4>1, <4>2
        <5>3. Index \in Index..Len(sent) BY <1>1, <3>7
        <5> QED BY <2>1, <5>2, <5>3 DEF Placed, Laid, frame
      <4> DEFINE n == Size(frame) - Taken
                 rest == SubSeq(Cells(frame), Taken + 1, Size(frame))
      <4>4. RestOf(frame) = rest
        <5>1. Len(Cells(frame)) = Size(frame) /\ Cells(frame) \in Seq(CellNames)
          BY <3>1, CellsOf
        <5>2. SubSeq(Cells(frame), 1, Size(frame)) = Cells(frame)
          BY <5>1, SubSeqFull
        <5>3. CASE reading.next = "first"
          BY <5>2, <5>3 DEF RestOf, Taken
        <5>4. CASE reading.next = "length"
          <6>1. Taken = 1 BY <5>4 DEF Taken
          <6>2. Size(frame) - (Size(frame) - 1) + 1 = 2 BY <3>2
          <6>3. RestOf(frame) = SubSeq(Cells(frame), Size(frame) - (Size(frame) - 1) + 1,
                                       Size(frame))
            BY <5>1, <5>4 DEF RestOf, Suffix
          <6>4. Taken + 1 = 2 BY <6>1
          <6> QED BY <6>2, <6>3, <6>4
        <5>5. CASE reading.next = "header"
          <6>1. Taken = 2 BY <5>5 DEF Taken
          <6>2. Size(frame) - (Size(frame) - 2) + 1 = 3 BY <3>2
          <6>3. RestOf(frame) = SubSeq(Cells(frame), Size(frame) - (Size(frame) - 2) + 1,
                                       Size(frame))
            BY <5>1, <5>5 DEF RestOf, Suffix
          <6>4. Taken + 1 = 3 BY <6>1
          <6> QED BY <6>2, <6>3, <6>4
        <5>6. CASE reading.next = "chunk"
          <6>1. Taken = Size(frame) - reading.left BY <5>6 DEF Taken, frame
          <6>2. Size(frame) - reading.left + 1 = Taken + 1 BY <6>1
          <6> QED BY <5>1, <5>6, <6>2 DEF RestOf, Suffix
        <5> QED BY <3>4, <5>3, <5>4, <5>5, <5>6 DEF CellNames
      <4>5. /\ rest \in Seq(CellNames) /\ Len(rest) = n
            /\ \A i \in 1..n : rest[i] = Cells(frame)[Taken + i]
        <5>1. \A i \in Taken + 1..Size(frame) : Cells(frame)[i] \in CellNames
          BY <3>1, <3>2, <3>5, CellsOf DEF Cell, CellNames
        <5>2. Taken + 1 \in Int /\ Size(frame) \in Int /\ Taken + 1 <= Size(frame)
              /\ Size(frame) - (Taken + 1) + 1 = n
          BY <3>2, <3>5
        <5>3. /\ rest \in Seq(CellNames) /\ Len(rest) = n
              /\ \A i \in 1..n : rest[i] = Cells(frame)[Taken + 1 + i - 1]
          BY <5>1, <5>2, SubSeqProperties
        <5>4. \A i \in 1..n : Taken + 1 + i - 1 = Taken + i
          BY <3>2, <3>5
        <5> QED BY <5>3, <5>4
      <4>6. \A i \in 1..n : Stream[i] = rest[i]
        <5>1. \A i \in 1..n : Taken + i \in 1..Size(frame)
          BY <3>2, <3>5
        <5> QED BY <4>2, <4>3, <4>5, <5>1, <3>1, CellsOf
      <4>7. Stream = rest
        <5> HIDE DEF n, rest
        <5>1. n = Len(Stream) BY <4>2 DEF n
        <5> QED BY <2>2, <4>5, <4>6, <5>1, SeqEqual
      <4> QED BY <4>4, <4>7 DEF Stream
    <3> QED BY <3>6, <3>7 DEF frame
  <2> QED BY <1>1, <2>3, <2>4
<1> QED BY <1>2 DEF InStep, ChannelInv, GotRight

-----------------------------------------------------------------------------
\* Where the frames begin when one more follows.
Extended(start, b, frame) == [start EXCEPT ![b + 1 + 1] = start[b + 1] + Size(frame)]

LEMMA LaidMore ==
    ASSUME NEW b \in Nat, NEW a \in 1..b + 1, NEW frames \in Seq(Frames), Len(frames) = b,
           NEW stream \in Seq(CellNames), NEW start \in [Nat -> Int],
           Laid(start, a, b, frames, stream), Len(stream) = start[b + 1], NEW frame \in Frames
    PROVE  /\ Extended(start, b, frame) \in [Nat -> Int]
           /\ Laid(Extended(start, b, frame), a, b + 1, Append(frames, frame),
                   stream \o Cells(frame))
<1> DEFINE more == Append(frames, frame)
           longer == stream \o Cells(frame)
           later == Extended(start, b, frame)
<1>1. more[b + 1] = frame /\ \A j \in 1..b : more[j] = frames[j]
  OBVIOUS
<1>2. Size(frame) \in Nat /\ \A j \in 1..b : Size(frames[j]) \in Nat
  BY CellsOf, ElementOfSeq
<1>3. /\ Len(longer) = Len(stream) + Size(frame)
      /\ \A i \in 1..Len(stream) : longer[i] = stream[i]
      /\ \A k \in 1..Size(frame) : longer[Len(stream) + k] = Cell(k)
  <2>1. Cells(frame) \in Seq(CellNames) /\ Len(Cells(frame)) = Size(frame)
        /\ \A k \in 1..Size(frame) : Cells(frame)[k] = Cell(k)
    BY CellsOf
  <2>2. /\ Len(longer) = Len(stream) + Len(Cells(frame))
        /\ \A i \in 1..Len(stream) + Len(Cells(frame)) :
             longer[i] = IF i <= Len(stream) THEN stream[i] ELSE Cells(frame)[i - Len(stream)]
    BY <2>1, ConcatProperties
  <2>3. Len(stream) \in Nat
    OBVIOUS
  <2> HIDE DEF longer
  <2>4. ASSUME NEW k \in 1..Size(frame) PROVE longer[Len(stream) + k] = Cell(k)
    <3>1. /\ Len(stream) + k \in 1..Len(stream) + Len(Cells(frame))
          /\ ~(Len(stream) + k <= Len(stream)) /\ (Len(stream) + k) - Len(stream) = k
      <4>1. PICK m \in Nat, n \in Nat : m = Len(stream) /\ n = Len(Cells(frame))
        BY <1>2, <2>1, <2>3
      <4>2. k \in 1..n
        BY <2>1, <4>1
      <4>3. m + k \in 1..m + n /\ ~(m + k <= m) /\ (m + k) - m = k
        BY <4>2
      <4> QED BY <4>1, <4>3
    <3> QED BY <2>1, <2>2, <3>1
  <2>5. Len(longer) = Len(stream) + Size(frame)
    BY <2>1, <2>2
  <2>6. \A i \in 1..Len(stream) : longer[i] = stream[i]
    <3>1. ASSUME NEW i \in 1..Len(stream) PROVE i \in 1..Len(stream) + Len(Cells(frame)) /\ i <= Len(stream)
      <4>1. Size(frame) \in Nat /\ Len(Cells(frame)) \in Nat
        BY <1>2, <2>1
      <4> QED BY <2>3, <4>1
    <3> QED BY <2>2, <3>1
  <2> QED BY <2>4, <2>5, <2>6
<1>4. /\ later \in [Nat -> Int] /\ later[b + 1 + 1] = start[b + 1] + Size(frame)
      /\ \A j \in 1..b + 1 : later[j] = start[j]
  BY <1>2 DEF Extended
<1>5. Len(stream) \in Nat
  OBVIOUS
<1> HIDE DEF more, longer, later
<1>6. \A j \in a..b + 1 : later[j + 1] = later[j] + Size(more[j])
  <2>1. ASSUME NEW j \in a..b PROVE later[j + 1] = later[j] + Size(more[j])
    <3>1. j \in 1..b /\ j \in 1..b + 1 /\ j + 1 \in 1..b + 1
      OBVIOUS
    <3>2. start[j + 1] = start[j] + Size(frames[j])
      BY DEF Laid
    <3> QED BY <1>1, <1>4, <3>1, <3>2
  <2>2. later[b + 1 + 1] = later[b + 1] + Size(more[b + 1])
    <3>1. b + 1 \in 1..b + 1
      OBVIOUS
    <3> QED BY <1>1, <1>4, <3>1
  <2>3. \A j \in a..b + 1 : j \in a..b \/ j = b + 1
    OBVIOUS
  <2> QED BY <2>1, <2>2, <2>3
<1>7. \A j \in a..b + 1 + 1 : later[j] <= later[b + 1 + 1]
  <2>1. start[b + 1] <= later[b + 1 + 1]
    BY <1>2, <1>4
  <2>2. ASSUME NEW j \in a..b + 1 PROVE later[j] <= later[b + 1 + 1]
    BY <1>4, <2>1 DEF Laid
  <2> QED BY <1>4, <2>2
<1>8. ASSUME NEW j \in a..b + 1, NEW k \in 1..Size(more[j]), later[j] + k \in 1..Len(longer)
      PROVE  longer[later[j] + k] = Cell(k)
  <2>1. CASE j = b + 1
    <3>1. later[j] + k = Len(stream) + k
      BY <1>4, <2>1
    <3> QED BY <1>1, <1>3, <2>1, <3>1
  <2>2. CASE j # b + 1
    <3>1. j \in a..b /\ j \in 1..b /\ j + 1 \in a..b + 1 /\ j \in Nat /\ j + 1 \in Nat
      BY <2>2
    <3>2. more[j] = frames[j] /\ later[j] = start[j]
      BY <1>1, <1>4, <3>1
    <3>3. start[j + 1] = start[j] + Size(frames[j]) /\ start[j + 1] <= start[b + 1]
      BY <3>1 DEF Laid
    <3>4. start[j] + k <= Len(stream)
      <4>1. /\ start[j] \in Int /\ start[b + 1] \in Int /\ Size(frames[j]) \in Nat
            /\ start[j] + Size(frames[j]) <= start[b + 1]
        BY <1>2, <3>1, <3>3
      <4>2. k \in Nat /\ k <= Size(frames[j])
        BY <3>2, <4>1
      <4> QED BY <4>1, <4>2
    <3>5. start[j] + k \in 1..Len(stream)
      BY <1>3, <1>5, <1>8, <3>2, <3>4
    <3>6. stream[start[j] + k] = Cell(k)
      BY <3>1, <3>2, <3>5 DEF Laid
    <3> QED BY <1>3, <3>2, <3>5, <3>6
  <2> QED BY <2>1, <2>2
<1>9. Len(longer) = later[b + 1 + 1]
  BY <1>3, <1>4
<1>10. Len(longer) <= later[b + 1 + 1]
  <2>1. Len(longer) \in Nat BY <1>2, <1>3, <1>5
  <2> QED BY <1>9, <2>1
<1>11. Laid(later, a, b + 1, more, longer)
  BY <1>6, <1>7, <1>8, <1>10 DEF Laid
<1> QED BY <1>4, <1>11 DEF more, longer, later

\* The first cell of the stream is taken.
Shifted(start) == [j \in Nat |-> start[j] - 1]
LEMMA LaidShift ==
    ASSUME NEW b \in Nat, NEW a \in 1..b + 1, NEW frames \in Seq(Frames), Len(frames) = b,
           NEW stream \in Seq(CellNames), stream # <<>>, NEW start \in [Nat -> Int],
           Laid(start, a, b, frames, stream), NEW c \in a..b + 1
    PROVE  Laid(Shifted(start), c, b, frames, Tail(stream))
<1> DEFINE later == Shifted(start)
           shorter == Tail(stream)
<1>1. later \in [Nat -> Int] /\ \A j \in Nat : later[j] = start[j] - 1
  BY DEF Shifted
<1>2. /\ Len(shorter) = Len(stream) - 1 /\ Len(stream) \in Nat
      /\ \A i \in 1..Len(shorter) : shorter[i] = stream[i + 1]
  BY HeadTailProperties
<1>3. \A j \in 1..b : Size(frames[j]) \in Nat
  BY CellsOf, ElementOfSeq
<1> HIDE DEF later, shorter
<1>4. \A j \in c..b : later[j + 1] = later[j] + Size(frames[j])
  <2>1. ASSUME NEW j \in c..b PROVE later[j + 1] = later[j] + Size(frames[j])
    <3>1. j \in a..b /\ j \in 1..b /\ j \in Nat /\ j + 1 \in Nat
      OBVIOUS
    <3>2. start[j + 1] = start[j] + Size(frames[j])
      BY <3>1 DEF Laid
    <3>3. start[j] \in Int /\ Size(frames[j]) \in Int
      BY <1>3, <3>1
    <3> QED BY <1>1, <3>1, <3>2, <3>3
  <2> QED BY <2>1
<1>5. \A j \in c..b + 1 : later[j] <= later[b + 1]
  BY <1>1 DEF Laid
<1>6. ASSUME NEW j \in c..b, NEW k \in 1..Size(frames[j]), later[j] + k \in 1..Len(shorter)
      PROVE  shorter[later[j] + k] = Cell(k)
  <2>1. j \in a..b /\ j \in Nat
    OBVIOUS
  <2>2. start[j] + k \in 1..Len(stream) /\ later[j] + k + 1 = start[j] + k
    <3>1. start[j] \in Int /\ k \in Int /\ later[j] = start[j] - 1
      BY <1>1, <1>3, <2>1
    <3>2. PICK x \in Int : x = start[j] /\ later[j] = x - 1
      BY <3>1
    <3>3. x - 1 + k >= 1 /\ x - 1 + k <= Len(stream) - 1
      BY <1>2, <1>6, <3>2
    <3>4. x + k \in 1..Len(stream) /\ x - 1 + k + 1 = x + k
      BY <1>2, <3>1, <3>3
    <3> QED BY <3>2, <3>4
  <2>3. stream[start[j] + k] = Cell(k)
    BY <2>1, <2>2 DEF Laid
  <2> QED BY <1>2, <1>6, <2>2, <2>3
<1>7. Len(shorter) <= later[b + 1]
  <2>1. Len(stream) <= start[b + 1] /\ start[b + 1] \in Int /\ later[b + 1] = start[b + 1] - 1
    BY <1>1 DEF Laid
  <2> QED BY <1>2, <2>1
<1>8. Laid(later, c, b, frames, shorter)
  BY <1>4, <1>5, <1>6, <1>7 DEF Laid
<1> QED BY <1>8 DEF shorter, later

\* The end of the stream is lost.
LEMMA LaidCut ==
    ASSUME NEW b \in Nat, NEW a \in 1..b + 1, NEW frames,
           NEW stream \in Seq(CellNames), NEW part \in Seq(CellNames), NEW start \in [Nat -> Int],
           Laid(start, a, b, frames, stream), Len(part) <= Len(stream),
           \A i \in 1..Len(part) : part[i] = stream[i]
    PROVE  Laid(start, a, b, frames, part)
<1>1. Len(part) \in Nat /\ Len(stream) \in Nat /\ start[b + 1] \in Int
  OBVIOUS
<1>2. 1..Len(part) \subseteq 1..Len(stream)
  BY <1>1
<1>3. Len(part) <= start[b + 1]
  BY <1>1 DEF Laid
<1> QED BY <1>2, <1>3 DEF Laid

LEMMA ChannelStart == ChannelInit => ChannelInv
<1> SUFFICES ASSUME ChannelInit PROVE ChannelInv
  OBVIOUS
<1> USE ChannelAssumption DEF ChannelInit
<1>1. ChannelTypeOK
  <2>1. reading \in [next: {"first", "length", "header", "chunk"}, left: 0..MaxChunks]
    BY DEF Waiting
  <2>2. client \in [pc: {"hello", "wait"} \cup Ends, written: BOOLEAN]
    OBVIOUS
  <2>3. sent \in Seq(Frames) /\ Len(sent) <= MaxFrames
    OBVIOUS
  <2>4. /\ unsent \in Seq({"first", "length", "header", "chunk"})
        /\ wire \in Seq({"first", "length", "header", "chunk"})
    OBVIOUS
  <2>5. got \in Seq((1..MaxFrames) \X {"frame", "digest"})
    OBVIOUS
  <2>6. answers \in Seq({"welcome", "refused", "supported"})
    OBVIOUS
  <2>7. own \in BOOLEAN /\ armed \in BOOLEAN /\ peer \in {"open", "gone"}
        /\ session \in {"accepted", "greeted"} \cup Closings
    OBVIOUS
  <2> QED BY <2>1, <2>2, <2>3, <2>4, <2>5, <2>6, <2>7 DEF ChannelTypeOK
<1>2. GotRight
  BY DEF GotRight
<1>3. ReadsRight
  BY DEF ReadsRight, Waiting
<1>4. Placed([j \in Nat |-> 0])
  <2>1. Stream = <<>> BY DEF Stream
  <2>2. Taken = 0 BY DEF Taken, Waiting
  <2>3. Len(sent) = 0 /\ Index = 1 /\ Len(Stream) = 0 BY <2>1 DEF Index
  <2> QED BY <2>2, <2>3 DEF Placed, Laid
<1>5. [j \in Nat |-> 0] \in [Nat -> Int]
  OBVIOUS
<1> QED BY <1>1, <1>2, <1>3, <1>4, <1>5 DEF ChannelInv

\* What the invariant says of lengths and of the frame being read.
LEMMA ChannelLengths ==
    ASSUME ChannelInv
    PROVE  /\ Len(got) \in Nat /\ Len(sent) \in Nat /\ Index = Len(got) + 1
           /\ Len(got) <= Len(sent) /\ Len(sent) <= MaxFrames
           /\ wire \in Seq(CellNames) /\ unsent \in Seq(CellNames)
           /\ Len(wire) \in Nat /\ Len(unsent) \in Nat
           /\ Stream \in Seq(CellNames) /\ Len(Stream) = Len(wire) + Len(unsent)
           /\ \A i \in 1..Len(Stream) :
                Stream[i] = IF i <= Len(wire) THEN wire[i] ELSE unsent[i - Len(wire)]
           /\ \A j \in 1..Len(sent) : sent[j] \in Frames
<1>1. /\ Len(got) \in Nat /\ Len(sent) \in Nat /\ Index = Len(got) + 1
      /\ Len(got) <= Len(sent) /\ Len(sent) <= MaxFrames
      /\ wire \in Seq(CellNames) /\ unsent \in Seq(CellNames)
      /\ Len(wire) \in Nat /\ Len(unsent) \in Nat
  BY DEF ChannelInv, ChannelTypeOK, GotRight, Index, CellNames
<1>2. /\ Stream \in Seq(CellNames) /\ Len(Stream) = Len(wire) + Len(unsent)
      /\ \A i \in 1..Len(wire) + Len(unsent) :
           Stream[i] = IF i <= Len(wire) THEN wire[i] ELSE unsent[i - Len(wire)]
  BY <1>1, ConcatProperties DEF Stream
<1>3. \A j \in 1..Len(sent) : sent[j] \in Frames
  BY ElementOfSeq DEF ChannelInv, ChannelTypeOK
<1> QED BY <1>1, <1>2, <1>3

\* A frame begun follows the last one, which is written to its end.
LEMMA InvBegins ==
    ASSUME ChannelInv, NEW frame \in Frames, Begins(frame), peer = "open",
           UNCHANGED <<own, wire, peer, readerVars, client>>
    PROVE  ChannelInv'
<1> USE DEF readerVars
<1>1. /\ sent' = Append(sent, frame) /\ unsent' = Cells(frame) /\ unsent = <<>>
      /\ Len(sent) < MaxFrames /\ sent \in Seq(Frames)
  BY DEF Begins, ChannelInv, ChannelTypeOK
<1>2. /\ sent' \in Seq(Frames) /\ Len(sent') = Len(sent) + 1
      /\ \A j \in 1..Len(sent) : sent'[j] = sent[j]
  BY <1>1
<1>3. /\ Len(got) \in Nat /\ Len(sent) \in Nat /\ Index = Len(got) + 1 /\ Len(got) <= Len(sent)
      /\ wire \in Seq(CellNames) /\ Len(wire) \in Nat
  BY ChannelLengths
<1>4. ChannelTypeOK'
  <2>1. Len(sent') <= MaxFrames
    BY <1>1, <1>2, <1>3, ChannelAssumption
  <2> QED BY <1>1, <1>2, <2>1, CellsOf DEF ChannelInv, ChannelTypeOK, CellNames
<1>5. GotRight'
  BY <1>2, <1>3 DEF ChannelInv, GotRight
<1>6. ASSUME ~Closed PROVE ReadsRight' /\ \E start \in [Nat -> Int] : Placed(start)'
  <2>1. PICK start \in [Nat -> Int] : Placed(start)
    BY <1>6 DEF ChannelInv
  <2>2. ReadsRight /\ Index' = Index /\ Index \in 1..Len(sent) + 1
    BY <1>3, <1>6 DEF ChannelInv, Index
  <2>3. reading.next # "first" => sent'[Index] = sent[Index]
    <3>1. reading.next # "first" => Index \in 1..Len(sent)
      BY <1>3, <2>2 DEF ReadsRight
    <3> QED BY <1>2, <3>1
  <2>4. ReadsRight'
    BY <1>2, <1>3, <2>2, <2>3 DEF ReadsRight
  <2>5. Taken' = Taken
    BY <2>2, <2>3 DEF Taken
  <2>6. wire \o unsent = wire /\ Stream = wire /\ Stream' = wire \o Cells(frame)
    BY <1>1, <1>3, ConcatEmptySeq DEF Stream
  <2>7. Laid(start, Index, Len(sent), sent, wire) /\ Len(wire) = start[Len(sent) + 1]
    BY <2>1, <2>6 DEF Placed
  <2>8. PICK n \in Nat, a \in Nat, w \in Seq(CellNames), frames \in Seq(Frames) :
          n = Len(sent) /\ a = Index /\ a \in 1..n + 1 /\ w = wire /\ frames = sent
    BY <1>1, <1>3, <2>2
  <2> DEFINE later == Extended(start, n, frame)
  <2>9. /\ later \in [Nat -> Int] /\ later[a] = start[a]
        /\ Laid(later, a, n + 1, Append(frames, frame), w \o Cells(frame))
        /\ Len(w \o Cells(frame)) = later[n + 1 + 1]
    <3>1. Laid(start, a, n, frames, w) /\ Len(w) = start[n + 1] /\ Len(frames) = n
      BY <2>7, <2>8
    <3>2. a \in 1..n + 1
      BY <2>8
    <3>3. Extended(start, n, frame) \in [Nat -> Int]
      BY <3>1, <3>2, LaidMore
    <3>4. Extended(start, n, frame)[a] = start[a]
      BY <3>2 DEF Extended
    <3>5. Laid(Extended(start, n, frame), a, n + 1, Append(frames, frame), w \o Cells(frame))
      BY <3>1, <3>2, LaidMore
    <3>6. Len(w \o Cells(frame)) = Extended(start, n, frame)[n + 1 + 1]
      <4>1. Cells(frame) \in Seq(CellNames) /\ Len(Cells(frame)) = Size(frame)
        BY CellsOf
      <4>2. Len(w \o Cells(frame)) = Len(w) + Size(frame)
        BY <4>1, ConcatProperties
      <4> QED BY <3>1, <4>2 DEF Extended
    <3> QED BY <3>3, <3>4, <3>5, <3>6
  <2> HIDE DEF later
  <2>10. Placed(later)'
    <3>1. /\ Index' = a /\ Len(sent') = n + 1 /\ sent' = Append(frames, frame)
          /\ Stream' = w \o Cells(frame) /\ Taken' = Taken
      BY <1>1, <1>2, <2>2, <2>5, <2>6, <2>8
    <3>2. start[a] = 0 - Taken
      BY <2>1, <2>8 DEF Placed
    <3> QED BY <2>9, <3>1, <3>2 DEF Placed
  <2> QED BY <2>4, <2>9, <2>10
<1>7. Closed' <=> Closed
  BY DEF Closed
<1> QED BY <1>4, <1>5, <1>6, <1>7 DEF ChannelInv

\* While there are cells to read, they are of a frame that was sent.
LEMMA FrameThere ==
    ASSUME ChannelInv, ~Closed, wire # <<>>
    PROVE  Len(got) < Len(sent) /\ Index \in 1..Len(sent) /\ sent[Index] \in Frames
<1>1. /\ Len(got) \in Nat /\ Len(sent) \in Nat /\ Index = Len(got) + 1 /\ Len(got) <= Len(sent)
      /\ wire \in Seq(CellNames) /\ Len(wire) \in Nat /\ Len(unsent) \in Nat
      /\ Len(Stream) = Len(wire) + Len(unsent)
  BY ChannelLengths
<1>2. Len(wire) >= 1
  BY <1>1, EmptySeq
<1>3. PICK start \in [Nat -> Int] : Placed(start)
  BY DEF ChannelInv
<1>4. Len(got) # Len(sent)
  <2>1. SUFFICES ASSUME Len(got) = Len(sent) PROVE FALSE
    OBVIOUS
  <2>2. Taken = 0
    BY <2>1 DEF ChannelInv, ReadsRight, Taken
  <2>3. Len(Stream) <= 0
    BY <1>1, <1>3, <2>1, <2>2 DEF Placed, Laid
  <2> QED BY <1>1, <1>2, <2>3
<1>5. Index \in 1..Len(sent)
  BY <1>1, <1>4
<1> QED BY <1>1, <1>4, <1>5, ChannelLengths

\* What was taken of a frame is short of it.
LEMMA TakenType ==
    ASSUME ChannelInv, ~Closed, wire # <<>>
    PROVE  Taken \in 0..Size(sent[Index]) - 1
<1> DEFINE frame == sent[Index]
<1>1. frame \in Frames
  BY FrameThere
<1>2. Chunks(frame) \in Nat /\ Size(frame) = 3 + Chunks(frame)
  BY <1>1, CellsOf
<1>3. reading.next = "chunk" => reading.left \in 1..Chunks(frame)
  BY DEF ChannelInv, ReadsRight, Chunks
<1>4. reading.next \in CellNames
  BY DEF ChannelInv, ChannelTypeOK, CellNames
<1> QED BY <1>2, <1>3, <1>4 DEF Taken, CellNames

\* A cell taken from the wire moves every frame by one.
LEMMA InvMoves ==
    ASSUME ChannelInv, ~Closed, wire # <<>>, wire' = Tail(wire), UNCHANGED <<sent, unsent, peer>>,
           Len(got') \in {Len(got), Len(got) + 1},
           \A start \in [Nat -> Int] : Placed(start) => start[Index'] - 1 = 0 - Taken'
    PROVE  \E start \in [Nat -> Int] : Placed(start)'
<1>1. /\ Len(got) \in Nat /\ Len(sent) \in Nat /\ Index = Len(got) + 1
      /\ wire \in Seq(CellNames) /\ unsent \in Seq(CellNames)
      /\ Stream \in Seq(CellNames) /\ Len(Stream) = Len(wire) + Len(unsent)
      /\ Len(wire) \in Nat /\ Len(unsent) \in Nat
      /\ Index \in 1..Len(sent) /\ sent \in Seq(Frames)
  BY ChannelLengths, FrameThere DEF ChannelInv, ChannelTypeOK
<1>2. PICK start \in [Nat -> Int] : Placed(start)
  BY DEF ChannelInv
<1>3. Index' \in Index..Len(sent) + 1 /\ Index' = Len(got') + 1
  <2>1. Index' = Len(got') + 1
    BY DEF Index
  <2>2. Index' = Index \/ Index' = Index + 1
    BY <1>1, <2>1
  <2>3. Index \in Index..Len(sent) + 1 /\ Index + 1 \in Index..Len(sent) + 1
    <3>1. PICK a \in Int, b \in Int : a = Index /\ b = Len(sent) /\ a <= b
      BY <1>1, LenProperties
    <3> QED BY <3>1
  <2> QED BY <2>1, <2>2, <2>3
<1>4. Stream # <<>> /\ Stream' = Tail(Stream) /\ Len(Stream') = Len(Stream) - 1
  <2>1. Len(wire) >= 1
    BY <1>1, EmptySeq
  <2>2. /\ Tail(wire) \in Seq(CellNames) /\ Len(Tail(wire)) = Len(wire) - 1
        /\ \A i \in 1..Len(Tail(wire)) : Tail(wire)[i] = wire[i + 1]
    BY <1>1, HeadTailProperties
  <2>3. Stream # <<>>
    BY <1>1, <2>1, EmptySeq
  <2>4. /\ Tail(Stream) \in Seq(CellNames) /\ Len(Tail(Stream)) = Len(Stream) - 1
        /\ \A i \in 1..Len(Tail(Stream)) : Tail(Stream)[i] = Stream[i + 1]
    BY <1>1, <2>3, HeadTailProperties
  <2>5. /\ \A i \in 1..Len(wire) + Len(unsent) :
             Stream[i] = IF i <= Len(wire) THEN wire[i] ELSE unsent[i - Len(wire)]
    BY <1>1, ConcatProperties DEF Stream
  <2>6. /\ Tail(wire) \o unsent \in Seq(CellNames)
        /\ Len(Tail(wire) \o unsent) = Len(Tail(wire)) + Len(unsent)
        /\ \A i \in 1..Len(Tail(wire)) + Len(unsent) :
             (Tail(wire) \o unsent)[i]
                = IF i <= Len(Tail(wire)) THEN Tail(wire)[i] ELSE unsent[i - Len(Tail(wire))]
    BY <1>1, <2>2, ConcatProperties
  <2> DEFINE s == Tail(wire) \o unsent  t == Tail(Stream)
  <2>7. Len(s) = Len(t)
    BY <1>1, <2>2, <2>4, <2>6
  <2>8. ASSUME NEW i \in 1..Len(s) PROVE s[i] = t[i]
    <3>1. i \in 1..Len(Tail(wire)) + Len(unsent) /\ i + 1 \in 1..Len(wire) + Len(unsent)
          /\ i \in 1..Len(t)
      BY <1>1, <2>1, <2>2, <2>6, <2>7
    <3>2. t[i] = Stream[i + 1]
      BY <2>4, <3>1
    <3>3. CASE i <= Len(Tail(wire))
      <4>1. i + 1 <= Len(wire) /\ i \in 1..Len(Tail(wire))
        BY <1>1, <2>2, <3>1, <3>3
      <4> QED BY <2>2, <2>5, <2>6, <3>1, <3>2, <4>1
    <3>4. CASE ~(i <= Len(Tail(wire)))
      <4>1. ~(i + 1 <= Len(wire)) /\ i - Len(Tail(wire)) = i + 1 - Len(wire)
        BY <1>1, <2>2, <3>1, <3>4
      <4>2. Stream[i + 1] = unsent[i + 1 - Len(wire)]
        BY <2>5, <3>1, <4>1
      <4>3. s[i] = unsent[i - Len(Tail(wire))]
        BY <2>6, <3>1, <3>4
      <4> QED BY <3>2, <4>1, <4>2, <4>3
    <3> QED BY <3>3, <3>4
  <2>9. s = t
    <3> HIDE DEF s, t
    <3>1. s \in Seq(CellNames) /\ t \in Seq(CellNames)
      BY <2>4, <2>6 DEF s, t
    <3> QED BY <2>7, <2>8, <3>1, SeqEqual
  <2> QED BY <2>3, <2>4, <2>9 DEF Stream
<1>5. PICK b \in Nat, a \in Nat, c \in Nat, st \in Seq(CellNames), frames \in Seq(Frames) :
        /\ b = Len(sent) /\ a = Index /\ c = Index' /\ st = Stream /\ frames = sent
        /\ a \in 1..b + 1 /\ c \in a..b + 1 /\ st # <<>>
  BY <1>1, <1>3, <1>4
<1> DEFINE later == Shifted(start)
<1>6. Laid(later, c, b, frames, Tail(st))
  <2>1. Laid(start, a, b, frames, st) /\ Len(frames) = b
    BY <1>2, <1>5 DEF Placed
  <2>2. a \in 1..b + 1 /\ c \in a..b + 1 /\ st # <<>>
    BY <1>5
  <2> QED BY <2>1, <2>2, LaidShift
<1>7. /\ later \in [Nat -> Int] /\ later[c] = start[c] - 1
      /\ later[b + 1] = start[b + 1] - 1
  BY DEF Shifted
<1> HIDE DEF later
<1>8. Placed(later)'
  <2>1. Len(sent') = b /\ sent' = frames /\ Stream' = Tail(st) /\ Len(Stream') = Len(st) - 1
    BY <1>4, <1>5
  <2>2. later[Index'] = 0 - Taken'
    BY <1>2, <1>5, <1>7
  <2>3. peer' = "open" => Len(Stream') = later[b + 1]
    BY <1>2, <1>5, <1>7, <2>1 DEF Placed
  <2> QED BY <1>5, <1>6, <2>1, <2>2, <2>3 DEF Placed
<1> QED BY <1>7, <1>8

\* A cell inside a frame.
LEMMA InvTakes ==
    ASSUME ChannelInv, wire # <<>>, ~Closed, NEW next, Reads(next), UNCHANGED <<got, session, answers>>,
           next \in [next: {"first", "length", "header", "chunk"}, left: 0..MaxChunks],
           armed' \in BOOLEAN, Taken' = Taken + 1, ReadsRight'
    PROVE  ChannelInv'
<1>1. ChannelTypeOK'
  BY DEF Reads, ChannelInv, ChannelTypeOK
<1>2. GotRight'
  BY DEF Reads, ChannelInv, GotRight
<1>3. Len(got) \in Nat /\ Taken \in Int
  BY ChannelLengths, TakenType
<1>4. ASSUME NEW start \in [Nat -> Int], Placed(start)
      PROVE  start[Index'] - 1 = 0 - Taken'
  <2>1. Index' = Index /\ start[Index] = 0 - Taken
    BY <1>4 DEF Index, Placed
  <2> QED BY <1>3, <2>1
<1>5. \E start \in [Nat -> Int] : Placed(start)'
  BY <1>3, <1>4, InvMoves DEF Reads
<1> QED BY <1>1, <1>2, <1>5 DEF ChannelInv

\* The last cell of a frame, which is returned for what it is.
LEMMA InvReturns ==
    ASSUME ChannelInv, wire # <<>>, ~Closed, NEW result \in {"frame", "digest"}, Returns(result),
           session' \in {"accepted", "greeted"},
           answers' \in Seq({"welcome", "refused", "supported"}),
           Taken = Size(sent[Index]) - 1, sent[Index].header = "valid",
           result = "digest" <=> sent[Index].type = "install" /\ ~sent[Index].digest
    PROVE  ChannelInv'
<1>1. /\ Len(got) \in Nat /\ Len(sent) \in Nat /\ Index = Len(got) + 1
      /\ Len(got) < Len(sent) /\ Index \in 1..Len(sent) /\ sent[Index] \in Frames
      /\ Len(sent) <= MaxFrames
  BY ChannelLengths, FrameThere
<1>2. Index \in 1..MaxFrames
  BY <1>1, ChannelAssumption
<1>3. /\ got' = Append(got, <<Index, result>>) /\ armed' = FALSE /\ wire' = Tail(wire)
      /\ reading' = Waiting /\ UNCHANGED <<own, sent, unsent, peer, client>>
  BY DEF Returns, Reads
<1>4. got \in Seq((1..MaxFrames) \X {"frame", "digest"})
  BY DEF ChannelInv, ChannelTypeOK
<1>5. /\ got' \in Seq((1..MaxFrames) \X {"frame", "digest"}) /\ Len(got') = Len(got) + 1
      /\ got'[Index] = <<Index, result>> /\ \A i \in 1..Len(got) : got'[i] = got[i]
  BY <1>1, <1>2, <1>3, <1>4
<1>6. ChannelTypeOK'
  <2>1. Waiting \in [next: {"first", "length", "header", "chunk"}, left: 0..MaxChunks]
    BY ChannelAssumption DEF Waiting
  <2>2. wire' \in Seq({"first", "length", "header", "chunk"})
    BY <1>3, HeadTailProperties DEF ChannelInv, ChannelTypeOK
  <2> QED BY <1>3, <1>5, <2>1, <2>2 DEF ChannelInv, ChannelTypeOK
<1>7. GotRight'
  <2>1. Len(got') <= Len(sent')
    BY <1>1, <1>3, <1>5
  <2>2. ASSUME NEW i \in 1..Len(got')
        PROVE  /\ got'[i][1] = i /\ sent'[i].header = "valid"
               /\ got'[i][2] = "digest" <=> sent'[i].type = "install" /\ ~sent'[i].digest
    <3>1. CASE i = Index
      <4>1. got'[i][1] = i /\ got'[i][2] = result
        BY <1>5, <3>1
      <4> QED BY <1>3, <3>1, <4>1
    <3>2. CASE i # Index
      <4>1. i \in 1..Len(got)
        BY <1>1, <1>5, <3>2
      <4> QED BY <1>3, <1>5, <4>1 DEF ChannelInv, GotRight
    <3> QED BY <3>1, <3>2
  <2> QED BY <2>1, <2>2 DEF GotRight
<1>8. reading'.next = "first"
  BY <1>3 DEF Waiting
<1>9. ReadsRight' /\ Taken' = 0
  BY <1>8 DEF ReadsRight, Taken
<1>10. ASSUME NEW start \in [Nat -> Int], Placed(start)
       PROVE  start[Index'] - 1 = 0 - Taken'
  <2>1. Index' = Index + 1 /\ Index \in Index..Len(sent)
    BY <1>1, <1>5 DEF Index
  <2>2. start[Index + 1] = start[Index] + Size(sent[Index]) /\ start[Index] = 0 - Taken
    BY <1>10, <2>1 DEF Placed, Laid
  <2>3. Size(sent[Index]) \in Nat
    BY <1>1, CellsOf
  <2> QED BY <1>9, <2>1, <2>2, <2>3
<1>11. \E start \in [Nat -> Int] : Placed(start)'
  BY <1>3, <1>5, <1>10, InvMoves
<1> QED BY <1>6, <1>7, <1>9, <1>11 DEF ChannelInv

\* The overlay closes, with a word that may still be read.
LEMMA InvCloses ==
    ASSUME ChannelInv, NEW how \in Closings, NEW words, Closes(how, words),
           words \in Seq({"welcome", "refused", "supported"})
    PROVE  ChannelInv'
<1>1. Closed'
  BY DEF Closes, Closed
<1>2. answers' \in Seq({"welcome", "refused", "supported"})
  BY ConcatProperties DEF Closes, ChannelInv, ChannelTypeOK
<1>3. ChannelTypeOK'
  BY <1>2 DEF Closes, ChannelInv, ChannelTypeOK
<1>4. GotRight'
  BY DEF Closes, ChannelInv, GotRight
<1> QED BY <1>1, <1>3, <1>4 DEF ChannelInv

\* A cell that goes from what is unsent to the wire stays in the stream.
LEMMA InvWriteCell == ASSUME ChannelInv, WriteCell PROVE ChannelInv'
<1>1. /\ wire \in Seq(CellNames) /\ unsent \in Seq(CellNames) /\ unsent # <<>>
      /\ Len(wire) \in Nat /\ Len(unsent) \in Nat
  BY ChannelLengths DEF WriteCell
<1>2. /\ wire' = Append(wire, Head(unsent)) /\ unsent' = Tail(unsent)
      /\ UNCHANGED <<own, sent, peer, reading, armed, got, session, answers>>
  BY DEF WriteCell, readerVars
<1>3. /\ Head(unsent) \in CellNames /\ Tail(unsent) \in Seq(CellNames)
      /\ Len(Tail(unsent)) = Len(unsent) - 1 /\ Head(unsent) = unsent[1] /\ Len(unsent) >= 1
      /\ \A i \in 1..Len(Tail(unsent)) : Tail(unsent)[i] = unsent[i + 1]
  BY <1>1, HeadTailProperties, EmptySeq
<1> DEFINE w == Append(wire, Head(unsent))  s == w \o Tail(unsent)  t == wire \o unsent
<1>4. /\ w \in Seq(CellNames) /\ Len(w) = Len(wire) + 1 /\ w[Len(wire) + 1] = unsent[1]
      /\ \A i \in 1..Len(wire) : w[i] = wire[i]
  BY <1>1, <1>3
<1>5. Stream' = Stream
  <2> HIDE DEF w
  <2>1. /\ t \in Seq(CellNames) /\ Len(t) = Len(wire) + Len(unsent)
        /\ \A i \in 1..Len(wire) + Len(unsent) :
             t[i] = IF i <= Len(wire) THEN wire[i] ELSE unsent[i - Len(wire)]
    BY <1>1, ConcatProperties
  <2>2. /\ s \in Seq(CellNames) /\ Len(s) = Len(w) + Len(Tail(unsent))
        /\ \A i \in 1..Len(w) + Len(Tail(unsent)) :
             s[i] = IF i <= Len(w) THEN w[i] ELSE Tail(unsent)[i - Len(w)]
    BY <1>3, <1>4, ConcatProperties
  <2> HIDE DEF s, t
  <2>3. Len(s) = Len(t) /\ Len(s) = Len(wire) + Len(unsent)
    BY <1>1, <1>3, <1>4, <2>1, <2>2
  <2>4. ASSUME NEW i \in 1..Len(s) PROVE s[i] = t[i]
    <3>1. i \in 1..Len(wire) + Len(unsent) /\ i \in 1..Len(w) + Len(Tail(unsent))
      BY <2>2, <2>3
    <3>2. CASE i <= Len(wire)
      <4>1. i \in 1..Len(wire) /\ i <= Len(w)
        BY <1>1, <1>4, <3>1, <3>2
      <4> QED BY <1>4, <2>1, <2>2, <3>1, <3>2, <4>1
    <3>3. CASE i = Len(wire) + 1
      <4>1. i <= Len(w) /\ ~(i <= Len(wire)) /\ i - Len(wire) = 1
        BY <1>1, <1>4, <3>3
      <4> QED BY <1>4, <2>1, <2>2, <3>1, <3>3, <4>1
    <3>4. CASE i > Len(wire) + 1
      <4>1. /\ ~(i <= Len(w)) /\ ~(i <= Len(wire)) /\ i - Len(w) \in 1..Len(Tail(unsent))
            /\ i - Len(w) + 1 = i - Len(wire)
        BY <1>1, <1>3, <1>4, <3>1, <3>4
      <4>2. s[i] = Tail(unsent)[i - Len(w)]
        BY <2>2, <3>1, <4>1
      <4>3. Tail(unsent)[i - Len(w)] = unsent[i - Len(w) + 1]
        BY <1>3, <4>1
      <4>4. t[i] = unsent[i - Len(wire)]
        BY <2>1, <3>1, <4>1
      <4> QED BY <4>1, <4>2, <4>3, <4>4
    <3> QED BY <1>1, <3>1, <3>2, <3>3, <3>4
  <2>5. s = t
    BY <2>1, <2>2, <2>3, <2>4, SeqEqual
  <2>6. Stream' = s /\ Stream = t
    BY <1>2 DEF Stream, s, t, w
  <2> QED BY <2>5, <2>6
<1>6. ChannelTypeOK'
  <2>1. client' \in [pc: {"hello", "wait"} \cup Ends, written: BOOLEAN]
    BY DEF WriteCell, ChannelInv, ChannelTypeOK
  <2>2. wire' \in Seq(CellNames) /\ unsent' \in Seq(CellNames)
    BY <1>2, <1>3, <1>4
  <2> QED BY <1>2, <2>1, <2>2 DEF ChannelInv, ChannelTypeOK, CellNames
<1>7. GotRight'
  BY <1>2 DEF ChannelInv, GotRight
<1>8. ASSUME ~Closed PROVE ReadsRight' /\ \E start \in [Nat -> Int] : Placed(start)'
  <2>1. PICK start \in [Nat -> Int] : Placed(start)
    BY <1>8 DEF ChannelInv
  <2>2. Index' = Index /\ Taken' = Taken /\ ReadsRight'
    BY <1>2, <1>8 DEF Index, Taken, ReadsRight, ChannelInv
  <2>3. Placed(start)'
    BY <1>2, <1>5, <2>1, <2>2 DEF Placed
  <2> QED BY <2>2, <2>3
<1> QED BY <1>2, <1>6, <1>7, <1>8 DEF ChannelInv, Closed

\* What the peer does not write is lost: the cells on the wire come first.
LEMMA InvLeave == ASSUME ChannelInv, Leave PROVE ChannelInv'
<1>1. /\ wire \in Seq(CellNames) /\ unsent \in Seq(CellNames) /\ Len(wire) \in Nat
      /\ Len(unsent) \in Nat /\ Len(Stream) = Len(wire) + Len(unsent) /\ Stream \in Seq(CellNames)
      /\ Len(sent) \in Nat /\ Index \in 1..Len(sent) + 1
  BY ChannelLengths
<1>2. /\ peer' = "gone" /\ unsent' = <<>>
      /\ UNCHANGED <<own, sent, wire, reading, armed, got, session, answers, client>>
  BY DEF Leave, readerVars
<1>3. ChannelTypeOK'
  BY <1>2, EmptySeq DEF ChannelInv, ChannelTypeOK
<1>4. GotRight'
  BY <1>2 DEF ChannelInv, GotRight
<1>5. Stream' = wire
  BY <1>1, <1>2, ConcatEmptySeq DEF Stream
<1>6. ASSUME ~Closed PROVE ReadsRight' /\ \E start \in [Nat -> Int] : Placed(start)'
  <2>1. PICK start \in [Nat -> Int] : Placed(start)
    BY <1>6 DEF ChannelInv
  <2>2. Index' = Index /\ Taken' = Taken /\ ReadsRight'
    BY <1>2, <1>6 DEF Index, Taken, ReadsRight, ChannelInv
  <2>3. PICK b \in Nat, a \in Nat, st \in Seq(CellNames), part \in Seq(CellNames), frames \in {sent} :
          b = Len(sent) /\ a = Index /\ st = Stream /\ part = wire /\ frames = sent
    BY <1>1
  <2>4. Len(part) <= Len(st) /\ a \in 1..b + 1 /\ Laid(start, a, b, frames, st)
        /\ \A i \in 1..Len(part) : part[i] = st[i]
    <3>1. \A i \in 1..Len(wire) : Stream[i] = wire[i]
      BY <1>1, ConcatProperties DEF Stream
    <3> QED BY <1>1, <2>1, <2>3, <3>1 DEF Placed
  <2>5. Laid(start, a, b, frames, part)
    BY <2>4, LaidCut
  <2>6. Placed(start)'
    BY <1>2, <1>5, <2>1, <2>2, <2>3, <2>5 DEF Placed
  <2> QED BY <2>2, <2>6
<1> QED BY <1>2, <1>3, <1>4, <1>6 DEF ChannelInv, Closed

LEMMA InvWriteLost == ASSUME ChannelInv, WriteLost PROVE ChannelInv'
<1>1. /\ unsent' = <<>> /\ Closed
      /\ UNCHANGED <<own, sent, wire, peer, reading, armed, got, session, answers>>
  BY DEF WriteLost, readerVars
<1>2. client' \in [pc: {"hello", "wait"} \cup Ends, written: BOOLEAN]
  BY DEF WriteLost, ChannelInv, ChannelTypeOK
<1>3. ChannelTypeOK'
  BY <1>1, <1>2, EmptySeq DEF ChannelInv, ChannelTypeOK
<1> QED BY <1>1, <1>3 DEF ChannelInv, GotRight, Closed

\* The handshake of the CLI reads answers, and nothing of the stream.
LEMMA InvClient ==
    ASSUME ChannelInv, UNCHANGED <<own, sent, unsent, wire, peer, reading, armed, got, session>>,
           answers' \in Seq({"welcome", "refused", "supported"}),
           client' \in [pc: {"hello", "wait"} \cup Ends, written: BOOLEAN]
    PROVE  ChannelInv'
<1>1. ChannelTypeOK' /\ GotRight' /\ Closed' = Closed
  BY DEF ChannelInv, ChannelTypeOK, GotRight, Closed
<1>2. Index' = Index /\ Taken' = Taken /\ Stream' = Stream /\ (ReadsRight => ReadsRight')
  BY DEF Index, Taken, Stream, ReadsRight
<1>3. ASSUME NEW start, Placed(start) PROVE Placed(start)'
  BY <1>2, <1>3 DEF Placed
<1> QED BY <1>1, <1>2, <1>3 DEF ChannelInv

LEMMA InvAnswered == ASSUME ChannelInv, Answered \/ Unanswered PROVE ChannelInv'
<1>1. CASE Answered
  <2>1. /\ answers \in Seq({"welcome", "refused", "supported"}) /\ answers # <<>>
        /\ answers' = Tail(answers)
    BY <1>1 DEF Answered, ChannelInv, ChannelTypeOK
  <2>2. answers' \in Seq({"welcome", "refused", "supported"})
    BY <2>1, HeadTailProperties
  <2>3. PICK a \in {"welcome", "refused", "supported"} : a = Head(answers)
    BY <2>1, HeadTailProperties
  <2>4. Conclude(a) \in Ends
    BY DEF Conclude, Ends
  <2>5. client' \in [pc: {"hello", "wait"} \cup Ends, written: BOOLEAN]
    BY <1>1, <2>3, <2>4 DEF Answered, ChannelInv, ChannelTypeOK
  <2> QED BY <1>1, <2>2, <2>5, InvClient DEF Answered
<1>2. CASE Unanswered
  <2>1. PICK end \in Ends : client' = [client EXCEPT !.pc = end]
    BY <1>2 DEF Unanswered, Ends
  <2>2. client' \in [pc: {"hello", "wait"} \cup Ends, written: BOOLEAN]
    BY <2>1 DEF ChannelInv, ChannelTypeOK
  <2> QED BY <1>2, <2>2, InvClient DEF Unanswered, readerVars, ChannelInv, ChannelTypeOK
<1> QED BY <1>1, <1>2

\* The words of the overlay, and a session that goes on.
LEMMA WordsType ==
    /\ <<>> \in Seq({"welcome", "refused", "supported"})
    /\ <<"refused">> \in Seq({"welcome", "refused", "supported"})
    /\ <<"supported">> \in Seq({"welcome", "refused", "supported"})
OBVIOUS

LEMMA SessionGoesOn ==
    ASSUME ChannelInv, ~Closed
    PROVE  /\ session \in {"accepted", "greeted"}
           /\ answers \in Seq({"welcome", "refused", "supported"})
           /\ Append(answers, "welcome") \in Seq({"welcome", "refused", "supported"})
BY DEF ChannelInv, ChannelTypeOK, Closed

LEMMA InvCloser == ASSUME ChannelInv, RefuseSession \/ TimesOut \/ ReadEnd PROVE ChannelInv'
<1>1. PICK how \in Closings, words \in {<<>>, <<"refused">>} : Closes(how, words)
  BY DEF RefuseSession, TimesOut, ReadEnd, Closings
<1> QED BY <1>1, WordsType, InvCloses

LEMMA InvReadFirst == ASSUME ChannelInv, ReadFirst PROVE ChannelInv'
<1> DEFINE next == [next |-> "length", left |-> 0]
<1>1. /\ wire # <<>> /\ ~Closed /\ Reads(next) /\ UNCHANGED <<got, session, answers>>
      /\ armed' \in BOOLEAN /\ reading.next = "first"
  BY DEF ReadFirst, Available
<1>2. next \in [next: {"first", "length", "header", "chunk"}, left: 0..MaxChunks]
  BY ChannelAssumption
<1>3. Len(got) < Len(sent) /\ Len(got) \in Nat /\ Len(sent) \in Nat
  BY <1>1, FrameThere, ChannelLengths
<1>4. Taken' = Taken + 1 /\ ReadsRight'
  BY <1>1, <1>3 DEF Reads, Taken, ReadsRight
<1> HIDE DEF next
<1> QED BY <1>1, <1>2, <1>4, InvTakes

LEMMA InvReadLength == ASSUME ChannelInv, ReadLength PROVE ChannelInv'
<1>1. wire # <<>> /\ ~Closed /\ reading.next = "length"
  BY DEF ReadLength, Available
<1>2. CASE sent[Index].header = "size"
  BY <1>2, WordsType, InvCloses DEF ReadLength, Closings
<1>3. CASE sent[Index].header # "size"
  <2> DEFINE next == [next |-> "header", left |-> 0]
  <2>1. Reads(next) /\ UNCHANGED <<armed, got, session, answers>>
    BY <1>3 DEF ReadLength
  <2>2. next \in [next: {"first", "length", "header", "chunk"}, left: 0..MaxChunks]
        /\ armed' \in BOOLEAN
    BY <2>1, ChannelAssumption DEF ChannelInv, ChannelTypeOK
  <2>3. Len(got) < Len(sent) /\ Len(got) \in Nat /\ Len(sent) \in Nat
    BY <1>1, FrameThere, ChannelLengths
  <2>4. Taken' = Taken + 1 /\ ReadsRight'
    BY <1>1, <1>3, <2>1, <2>3 DEF Reads, Taken, ReadsRight, Index
  <2> HIDE DEF next
  <2> QED BY <1>1, <2>1, <2>2, <2>4, InvTakes
<1> QED BY <1>2, <1>3

LEMMA InvReadHeader == ASSUME ChannelInv, ReadHeader PROVE ChannelInv'
<1> DEFINE frame == sent[Index]
<1>1. wire # <<>> /\ ~Closed /\ reading.next = "header"
  BY DEF ReadHeader, Available
<1>2. /\ frame \in Frames /\ Index \in 1..Len(sent) /\ Len(got) < Len(sent) /\ Taken = 2
      /\ Len(got) \in Nat /\ Len(sent) \in Nat
      /\ Size(frame) = 3 + Chunks(frame) /\ Chunks(frame) \in 0..MaxChunks
  BY <1>1, FrameThere, ChannelLengths, CellsOf DEF Taken
<1>3. frame.header # "size"
  BY <1>1 DEF ChannelInv, ReadsRight
<1>4. CASE frame.header \in {"malformed", "invalid"}
  <2>1. Closes(frame.header, <<"refused">>) /\ frame.header \in Closings
    BY <1>4 DEF ReadHeader, Closings
  <2> QED BY <2>1, WordsType, InvCloses
<1>5. CASE frame.header \notin {"malformed", "invalid"}
  <2>1. frame.header = "valid" /\ frame.type \in {"hello", "status", "install"}
    BY <1>2, <1>3, <1>5 DEF Frames
  <2>2. CASE frame.type = "install"
    <3> DEFINE next == [next |-> "chunk", left |-> frame.chunks]
    <3>1. Reads(next) /\ UNCHANGED <<armed, got, session, answers>>
      BY <1>5, <2>2 DEF ReadHeader
    <3>2. frame.chunks \in 1..MaxChunks /\ Chunks(frame) = frame.chunks
      BY <1>2, <2>2 DEF Frames, Chunks
    <3>3. next \in [next: {"first", "length", "header", "chunk"}, left: 0..MaxChunks]
          /\ armed' \in BOOLEAN
      <4>1. frame.chunks \in 0..MaxChunks
        BY <3>2, ChannelAssumption
      <4>2. armed' \in BOOLEAN
        BY <3>1 DEF ChannelInv, ChannelTypeOK
      <4> QED BY <4>1, <4>2
    <3>4. reading' = next /\ Index' = Index /\ sent' = sent /\ got' = got
      BY <3>1 DEF Reads, Index
    <3>5. Taken' = 3
      <4>1. Taken' = Size(frame) - frame.chunks
        BY <3>4 DEF Taken
      <4> QED BY <1>2, <3>2, <4>1, ChannelAssumption
    <3>6. ReadsRight'
      BY <1>2, <2>1, <2>2, <3>2, <3>4, ChannelAssumption DEF ReadsRight
    <3> HIDE DEF next
    <3> QED BY <1>1, <1>2, <3>1, <3>3, <3>5, <3>6, InvTakes
  <2>3. CASE frame.type # "install"
    <3>1. Greets(frame)
      BY <1>5, <2>3 DEF ReadHeader
    <3>2. CASE Closes("protocol", <<"refused">>) \/ Closes("unsupported", <<"supported">>)
      BY <3>2, WordsType, InvCloses DEF Closings
    <3>3. CASE /\ Returns("frame")
               /\ \/ UNCHANGED <<session, answers>>
                  \/ session' = "greeted" /\ answers' = Append(answers, "welcome")
      <4>1. /\ session' \in {"accepted", "greeted"}
            /\ answers' \in Seq({"welcome", "refused", "supported"})
        BY <1>1, <3>3, SessionGoesOn
      <4>2. Taken = Size(frame) - 1
        BY <1>2, <2>3 DEF Chunks
      <4> QED BY <1>1, <2>1, <2>3, <3>3, <4>1, <4>2, InvReturns
    <3> QED BY <3>1, <3>2, <3>3 DEF Greets
  <2> QED BY <2>2, <2>3
<1> QED BY <1>4, <1>5

LEMMA InvReadChunk == ASSUME ChannelInv, ReadChunk PROVE ChannelInv'
<1> DEFINE frame == sent[Index]
<1>1. wire # <<>> /\ ~Closed /\ reading.next = "chunk"
  BY DEF ReadChunk, Available
<1>2. /\ frame \in Frames /\ Index \in 1..Len(sent) /\ Len(got) < Len(sent)
      /\ Len(got) \in Nat /\ Len(sent) \in Nat /\ Size(frame) \in Nat
  BY <1>1, FrameThere, ChannelLengths, CellsOf
<1>3. frame.type = "install" /\ reading.left \in 1..frame.chunks /\ Taken = Size(frame) - reading.left
  BY <1>1 DEF ChannelInv, ReadsRight, Taken
<1>4. frame.header = "valid" /\ frame.chunks \in 1..MaxChunks
  BY <1>2, <1>3 DEF Frames
<1>5. CASE reading.left > 1
  <2> DEFINE next == [reading EXCEPT !.left = reading.left - 1]
  <2>1. Reads(next) /\ UNCHANGED <<armed, got, session, answers>>
    BY <1>5 DEF ReadChunk
  <2>2. /\ next \in [next: {"first", "length", "header", "chunk"}, left: 0..MaxChunks]
        /\ next.next = "chunk" /\ next.left = reading.left - 1 /\ next.left \in 1..frame.chunks
        /\ armed' \in BOOLEAN
    <3>1. /\ reading \in [next: {"first", "length", "header", "chunk"}, left: 0..MaxChunks]
          /\ armed \in BOOLEAN
      BY DEF ChannelInv, ChannelTypeOK
    <3>2. reading.left - 1 \in 1..frame.chunks /\ reading.left - 1 \in 0..MaxChunks
      BY <1>3, <1>4, <1>5, ChannelAssumption
    <3> QED BY <1>1, <2>1, <3>1, <3>2
  <2> HIDE DEF next
  <2>3. reading' = next /\ Index' = Index /\ sent' = sent /\ got' = got
    BY <2>1 DEF Reads, Index
  <2>4. Taken' = Taken + 1
    <3>1. Taken' = Size(frame) - next.left
      BY <2>2, <2>3 DEF Taken
    <3> QED BY <1>2, <1>3, <2>2, <3>1, ChannelAssumption
  <2>5. ReadsRight'
    BY <1>2, <1>3, <1>4, <2>2, <2>3 DEF ReadsRight
  <2> QED BY <1>1, <2>1, <2>2, <2>4, <2>5, InvTakes
<1>6. CASE ~(reading.left > 1)
  <2>1. \/ Closes("protocol", <<"refused">>)
        \/ /\ UNCHANGED <<session, answers>>
           /\ \E result \in {"frame", "digest"} :
                Returns(result) /\ (result = "digest" <=> ~frame.digest)
    BY <1>3, <1>6 DEF ReadChunk, TakesPackage, Greets
  <2>2. CASE Closes("protocol", <<"refused">>)
    BY <2>2, WordsType, InvCloses DEF Closings
  <2>3. CASE UNCHANGED <<session, answers>> /\ ~Closes("protocol", <<"refused">>)
    <3>1. PICK result \in {"frame", "digest"} :
            Returns(result) /\ (result = "digest" <=> ~frame.digest)
      BY <2>1, <2>3
    <3>2. Taken = Size(frame) - 1
      BY <1>2, <1>3, <1>4, <1>6, ChannelAssumption
    <3>3. /\ session' \in {"accepted", "greeted"}
          /\ answers' \in Seq({"welcome", "refused", "supported"})
      BY <1>1, <2>3, SessionGoesOn
    <3> QED BY <1>1, <1>3, <1>4, <3>1, <3>2, <3>3, InvReturns
  <2> QED BY <2>1, <2>2, <2>3
<1> QED BY <1>5, <1>6

LEMMA InvSends == ASSUME ChannelInv, Send \/ Hello PROVE ChannelInv'
<1>1. PICK frame \in Frames : Begins(frame)
  <2>1. WritableFrames \subseteq Frames
    BY DEF WritableFrames, Frames
  <2>2. [type |-> "hello", header |-> "valid", protocol |-> "spoken"] \in Frames
    BY DEF Frames
  <2> QED BY <2>1, <2>2 DEF Send, Hello
<1> QED BY <1>1, InvBegins DEF Send, Hello

LEMMA ChannelInvNext == ChannelInv /\ [ChannelNext]_channelVars => ChannelInv'
<1> SUFFICES ASSUME ChannelInv, [ChannelNext]_channelVars PROVE ChannelInv'
  OBVIOUS
<1>1. CASE UNCHANGED channelVars
  BY <1>1, InvClient DEF channelVars, ChannelInv, ChannelTypeOK
<1>2. CASE ChannelNext
  BY <1>2, InvSends, InvLeave, InvCloser, InvReadFirst, InvReadLength, InvReadHeader,
     InvReadChunk, InvAnswered, InvWriteCell, InvWriteLost
     DEF ChannelNext, ReaderStep, ClientStep, WriterStep
<1> QED BY <1>1, <1>2

LEMMA ChannelKept == ChannelSpec => []ChannelInv
BY ChannelStart, ChannelInvNext, PTL DEF ChannelSpec

\* The types of DevChannel hold in every reachable state.
THEOREM ChannelTypeCorrect == ChannelSpec => []ChannelTypeOK
BY ChannelKept, PTL DEF ChannelInv

\* Whatever frames and packages there are, however they are cut on the way and
\* wherever a peer leaves: the reader returns the frames in order, each whole
\* and for what it is, and stays in step with the writer.
THEOREM ChannelInStep == ChannelSpec => []InStep
BY ChannelKept, InvInStep, PTL

-----------------------------------------------------------------------------
(* The handshake of the CLI: until it ends, it has begun its hello at most *)
(* and the overlay has said at most one word.                              *)

HelloFrame == [type |-> "hello", header |-> "valid", protocol |-> "spoken"]

\* The overlay has closed for a reason it gave.
Refuses ==
    /\ Closed /\ session \notin {"closed", "cut"}
    /\ answers \in {<<"refused">>, <<"supported">>}

\* It has greeted a hello that came whole, and nothing followed.
Welcomes ==
    /\ session = "greeted" /\ answers = <<"welcome">> /\ client.pc = "wait"
    /\ wire = <<>> /\ unsent = <<>> /\ ~armed

Handshakes ==
    own /\ peer = "open" /\ client.pc \in {"hello", "wait"} =>
      /\ sent \in {<<>>, <<HelloFrame>>}
      /\ client.pc = "hello" /\ sent # <<>> => unsent # <<>>
      /\ \/ session = "accepted" /\ answers = <<>>
         \/ Welcomes
         \/ Refuses

HandshakeInv == ChannelInv /\ Handshakes

LEMMA HandshakeStart == ChannelInit => Handshakes
BY DEF ChannelInit, Handshakes

\* The overlay answers the hello when it has read the last of it.
LEMMA HandshakeReads ==
    ASSUME HandshakeInv, ReadHeader, own, peer = "open", client.pc \in {"hello", "wait"}
    PROVE  Handshakes'
<1>1. /\ wire # <<>> /\ ~Closed /\ reading.next = "header" /\ ChannelInv /\ Handshakes
  BY DEF ReadHeader, Available, HandshakeInv
<1>2. session = "accepted" /\ answers = <<>> /\ sent \in {<<>>, <<HelloFrame>>}
  BY <1>1 DEF Handshakes, Welcomes, Refuses
<1>3. Len(got) < Len(sent) /\ Len(got) \in Nat /\ Index = Len(got) + 1
  BY <1>1, FrameThere, ChannelLengths
<1>4. sent = <<HelloFrame>> /\ Len(sent) = 1 /\ Index = 1 /\ sent[Index] = HelloFrame
  BY <1>2, <1>3
<1>5. Greets(HelloFrame)
  BY <1>4 DEF ReadHeader, HelloFrame
<1>6. /\ Returns("frame") /\ session' = "greeted" /\ answers' = Append(answers, "welcome")
  BY <1>2, <1>5 DEF Greets, HelloFrame
<1>7. Len(wire) = 1 /\ unsent = <<>>
  <2>1. PICK start \in [Nat -> Int] : Placed(start)
    BY <1>1 DEF ChannelInv
  <2>2. Size(HelloFrame) = 3 /\ Taken = 2
    BY <1>1 DEF Size, Chunks, HelloFrame, Taken
  <2>3. start[1] = 0 - 2
    BY <1>4, <2>1, <2>2 DEF Placed
  <2>4. start[1 + 1] = start[1] + Size(sent[1])
    BY <1>4, <2>1 DEF Placed, Laid
  <2>5. Len(Stream) = start[1 + 1]
    BY <1>4, <2>1 DEF Placed
  <2>6. Len(Stream) = 1
    BY <1>4, <2>2, <2>3, <2>4, <2>5
  <2>7. /\ wire \in Seq(CellNames) /\ unsent \in Seq(CellNames) /\ Len(wire) \in Nat
        /\ Len(unsent) \in Nat /\ Len(Stream) = Len(wire) + Len(unsent)
    BY <1>1, ChannelLengths
  <2>8. Len(wire) >= 1
    BY <1>1, <2>7, EmptySeq
  <2>9. Len(wire) = 1 /\ Len(unsent) = 0
    <3>1. PICK x \in Nat, y \in Nat : x = Len(wire) /\ y = Len(unsent)
      BY <2>7
    <3>2. x + y = 1 /\ x >= 1
      BY <2>6, <2>7, <2>8, <3>1
    <3> QED BY <3>1, <3>2
  <2> QED BY <2>7, <2>9, EmptySeq
<1>8. client.pc = "wait"
  BY <1>1, <1>4, <1>7 DEF Handshakes
<1>9. Tail(wire) = <<>>
  <2>1. wire \in Seq(CellNames)
    BY <1>1, ChannelLengths
  <2>2. Tail(wire) \in Seq(CellNames) /\ Len(Tail(wire)) = 0
    BY <1>1, <1>7, <2>1, HeadTailProperties
  <2> QED BY <2>2, EmptySeq
<1>10. answers' = <<"welcome">>
  BY <1>2, <1>6
<1> QED BY <1>4, <1>6, <1>7, <1>8, <1>9, <1>10 DEF Returns, Reads, Handshakes, Welcomes

\* A hello has no package.
LEMMA HandshakePackage ==
    ASSUME HandshakeInv, ReadChunk
    PROVE  ~(own /\ peer = "open" /\ client.pc \in {"hello", "wait"})
<1> SUFFICES ASSUME own, peer = "open", client.pc \in {"hello", "wait"} PROVE FALSE
  OBVIOUS
<1>1. /\ wire # <<>> /\ ~Closed /\ reading.next = "chunk" /\ ChannelInv /\ Handshakes
  BY DEF ReadChunk, Available, HandshakeInv
<1>2. sent \in {<<>>, <<HelloFrame>>}
  BY <1>1 DEF Handshakes
<1>3. Len(got) < Len(sent) /\ Len(got) \in Nat /\ Index = Len(got) + 1
  BY <1>1, FrameThere, ChannelLengths
<1>4. sent[Index] = HelloFrame
  BY <1>2, <1>3
<1>5. sent[Index].type = "install"
  BY <1>1 DEF ChannelInv, ReadsRight
<1> QED BY <1>4, <1>5 DEF HelloFrame

LEMMA HandshakeNext == HandshakeInv /\ [ChannelNext]_channelVars => Handshakes'
<1> SUFFICES ASSUME HandshakeInv, [ChannelNext]_channelVars PROVE Handshakes'
  OBVIOUS
<1> USE DEF HandshakeInv
<1>1. CASE UNCHANGED channelVars
  BY <1>1 DEF channelVars, Handshakes, Welcomes, Refuses, Closed
<1>2. CASE Send
  BY <1>2 DEF Send, Begins, readerVars, Handshakes
<1>3. CASE Hello
  <2>1. sent' = <<HelloFrame>> /\ unsent' = Cells(HelloFrame)
    BY <1>3 DEF Hello, Begins, HelloFrame
  <2>2. unsent' # <<>>
    <3>1. HelloFrame \in Frames
      BY DEF HelloFrame, Frames
    <3>2. Cells(HelloFrame) \in Seq(CellNames) /\ Len(Cells(HelloFrame)) \in Nat
          /\ Len(Cells(HelloFrame)) >= 3
      BY <3>1, CellsOf
    <3> QED BY <2>1, <3>2
  <2> QED BY <1>3, <2>1, <2>2 DEF Hello, readerVars, Handshakes, Welcomes, Refuses, Closed
<1>4. CASE WriteCell
  <2>1. /\ unsent # <<>> /\ unsent \in Seq(CellNames) /\ Len(unsent) \in Nat
    BY <1>4, ChannelLengths DEF WriteCell
  <2>2. Len(unsent) # 1 => unsent' # <<>>
    <3>1. Len(unsent') = Len(unsent) - 1 /\ unsent' \in Seq(CellNames)
      BY <1>4, <2>1, HeadTailProperties DEF WriteCell
    <3> QED BY <2>1, <3>1, EmptySeq
  <2> QED BY <1>4, <2>1, <2>2 DEF WriteCell, readerVars, Handshakes, Welcomes, Refuses, Closed
<1>5. CASE WriteLost
  BY <1>5 DEF WriteLost, readerVars, Handshakes, Welcomes, Refuses, Closed, Closings
<1>6. CASE Leave
  BY <1>6 DEF Leave, Handshakes
<1>7. CASE Answered
  <2>1. client'.pc \in Ends
    <3>1. PICK a \in {"welcome", "refused", "supported"} : a = Head(answers)
      BY <1>7, HeadTailProperties DEF Answered, ChannelInv, ChannelTypeOK
    <3>2. Conclude(a) \in Ends
      BY DEF Conclude, Ends
    <3> QED BY <1>7, <3>1, <3>2 DEF Answered, ChannelInv, ChannelTypeOK
  <2> QED BY <2>1 DEF Handshakes, Ends
<1>8. CASE Unanswered
  <2>1. client'.pc \in Ends
    BY <1>8 DEF Unanswered, Ends, ChannelInv, ChannelTypeOK
  <2> QED BY <2>1 DEF Handshakes, Ends
<1>9. ASSUME NEW how \in Closings, Closes(how, <<"refused">>), ~Closed, how \notin {"closed", "cut"},
             session = "accepted"
      PROVE  Handshakes'
  <2>1. own /\ peer = "open" /\ client.pc \in {"hello", "wait"} => answers' = <<"refused">>
    <3>1. own /\ peer = "open" /\ client.pc \in {"hello", "wait"} => answers = <<>>
      BY <1>9 DEF Handshakes, Welcomes, Refuses
    <3>2. <<>> \o <<"refused">> = <<"refused">>
      BY WordsType, ConcatEmptySeq
    <3> QED BY <1>9, <3>1, <3>2 DEF Closes
  <2> QED BY <1>9, <2>1 DEF Closes, Handshakes, Refuses, Closed
<1>10. CASE RefuseSession
  BY <1>9, <1>10 DEF RefuseSession, Closings, Closed
<1>11. CASE TimesOut
  <2>1. CASE session = "accepted"
    BY <1>9, <1>11, <2>1 DEF TimesOut, Closings
  <2>2. CASE session # "accepted"
    BY <1>11, <2>2 DEF TimesOut, Closes, Handshakes, Welcomes, Refuses
  <2> QED BY <2>1, <2>2
<1>12. CASE ReadEnd
  BY <1>12 DEF ReadEnd, Closes, Handshakes
<1>13. CASE ReadFirst
  BY <1>13 DEF ReadFirst, Available, Reads, Handshakes, Welcomes, Refuses, Closed
<1>14. CASE ReadLength
  <2>1. CASE sent[Index].header = "size"
    <3>1. Closes("size", <<"refused">>) /\ ~Closed /\ wire # <<>>
      BY <1>14, <2>1 DEF ReadLength, Available
    <3>2. CASE session = "accepted"
      BY <1>9, <3>1, <3>2 DEF Closings
    <3>3. CASE session # "accepted"
      BY <3>1, <3>3 DEF Closes, Handshakes, Welcomes, Refuses
    <3> QED BY <3>2, <3>3
  <2>2. CASE sent[Index].header # "size"
    BY <1>14, <2>2 DEF ReadLength, Available, Reads, Handshakes, Welcomes, Refuses, Closed
  <2> QED BY <2>1, <2>2
<1>15. CASE ReadHeader
  <2>1. own' = own /\ peer' = peer /\ client' = client
    BY <1>15 DEF ReadHeader, Closes, Reads, Greets, Returns
  <2> QED BY <1>15, <2>1, HandshakeReads DEF Handshakes
<1>16. CASE ReadChunk
  <2>1. own' = own /\ peer' = peer /\ client' = client
    BY <1>16 DEF ReadChunk, TakesPackage, Closes, Reads, Greets, Returns
  <2>2. ~(own /\ peer = "open" /\ client.pc \in {"hello", "wait"})
    BY <1>16, HandshakePackage
  <2> QED BY <2>1, <2>2 DEF Handshakes
<1> QED BY <1>1, <1>2, <1>3, <1>4, <1>5, <1>6, <1>7, <1>8, <1>10, <1>11, <1>12, <1>13, <1>14, <1>15,
           <1>16
        DEF ChannelNext, ReaderStep, ClientStep, WriterStep

\* When the overlay has closed with a word, the CLI's wait ends with it.
LEMMA WaitSaysWhy ==
    ASSUME HandshakeInv, ChannelNext, client.pc = "wait", client'.pc # "wait", Closed,
           session # "closed"
    PROVE  client'.pc \in {"refused", "incompatible"}
<1>1. Answered \/ Unanswered
  BY DEF ChannelNext, ReaderStep, ClientStep, WriterStep, Send, Hello, WriteCell, WriteLost, Leave,
         RefuseSession, TimesOut, ReadFirst, ReadLength, ReadHeader, ReadChunk, ReadEnd, Closes,
         Reads, Returns, Greets, TakesPackage
<1>2. own /\ peer = "open"
  BY <1>1 DEF Answered, Unanswered
<1>3. answers \in {<<"refused">>, <<"supported">>}
  BY <1>2 DEF HandshakeInv, Handshakes, Welcomes, Refuses, Closed, Closings
<1>4. Answered
  BY <1>1, <1>3 DEF Unanswered
<1>5. PICK a \in {"refused", "supported"} : Head(answers) = a
  BY <1>3
<1>6. Conclude(a) \in {"refused", "incompatible"}
  BY DEF Conclude
<1> QED BY <1>4, <1>5, <1>6 DEF Answered, HandshakeInv, ChannelInv, ChannelTypeOK

\* Where the overlay has refused, the CLI says so, however the refusal, the
\* close and the hello crossed.
THEOREM ChannelSaysWhy == ChannelSpec => SaysWhy
<1>1. ChannelInit => HandshakeInv
  BY ChannelStart, HandshakeStart DEF HandshakeInv
<1>2. HandshakeInv /\ [ChannelNext]_channelVars => HandshakeInv'
  BY ChannelInvNext, HandshakeNext DEF HandshakeInv
<1>3. HandshakeInv /\ [ChannelNext]_channelVars
        => [client.pc = "wait" /\ client'.pc # "wait" /\ Closed /\ session # "closed"
              => client'.pc \in {"refused", "incompatible"}]_channelVars
  BY WaitSaysWhy
<1> QED BY <1>1, <1>2, <1>3, PTL DEF ChannelSpec, SaysWhy
=============================================================================
