------------------------------ MODULE DevChannel ------------------------------
(***************************************************************************)
(* A connection of the development channel: the frames both ends share     *)
(* (crates/overcrow-widget-devchannel) and the CLI's handshake (cli/src/   *)
(* channel.rs). The stream carries bytes in order, may hold any part of a  *)
(* frame, and may be cut anywhere. The overlay's loop around               *)
(* `read_client_frame` is external: it answers and goes on after an error  *)
(* that is recoverable, and closes after any other.                        *)
(*                                                                         *)
(* A frame is cells: the first byte of its length, the rest of the length, *)
(* the header, then the package of an install in chunks.                   *)
(***************************************************************************)
EXTENDS Naturals, Sequences

CONSTANTS
    MaxChunks,  \* bound: chunks of a package
    MaxFrames   \* bound: frames of a connection

ASSUME ChannelAssumption == MaxChunks \in Nat \ {0} /\ MaxFrames \in Nat \ {0}

VARIABLES
    own,      \* whether the peer is the CLI, or any program of the user
    sent,     \* the frames the peer began to write
    unsent,   \* the cells of the last one not yet written
    wire,     \* the cells written and not yet read
    peer,     \* "open", or "gone"
    reading,  \* read_client_frame: what comes next, and how many chunks
    armed,    \* FRAME_TIMEOUT runs
    got,      \* what the reader returned: <<frame, result>>
    session,  \* "accepted", "greeted", or how the overlay closed it
    answers,  \* what the overlay wrote and the CLI has not read
    client    \* the CLI's handshake: where it is, and whether hello was written
channelVars == <<own, sent, unsent, wire, peer, reading, armed, got, session, answers, client>>
readerVars == <<reading, armed, got, session, answers>>

\* A frame that is no message: its length is out of bounds, its header is not
\* JSON of a message, or a value of it is out of bounds. A removal reads as a
\* status does.
Frames ==
    [type: {"none"}, header: {"size", "malformed", "invalid"}]
      \cup [type: {"hello"}, header: {"valid"}, protocol: {"spoken", "other"}]
      \cup [type: {"status"}, header: {"valid"}]
      \cup [type: {"install"}, header: {"valid"}, chunks: 1..MaxChunks, digest: BOOLEAN]

\* `write_client_frame` refuses a message out of its bounds and a package
\* that is not the header's; the caller hashes the package it gives.
WritableFrames ==
    [type: {"status"}, header: {"valid"}]
      \cup [type: {"install"}, header: {"valid"}, chunks: 1..MaxChunks, digest: {TRUE}]

Chunks(frame) == IF frame.type = "install" THEN frame.chunks ELSE 0
Cells(frame) == <<"first", "length", "header">> \o [i \in 1..Chunks(frame) |-> "chunk"]

Waiting == [next |-> "first", left |-> 0]
Closings == {"closed", "cut", "size", "malformed", "invalid", "timeout", "protocol",
             "unsupported", "full"}
Ends == {"connected", "incompatible", "refused", "closed", "io", "untrusted"}

ChannelTypeOK ==
    /\ own \in BOOLEAN /\ armed \in BOOLEAN
    /\ sent \in Seq(Frames) /\ Len(sent) <= MaxFrames
    /\ unsent \in Seq({"first", "length", "header", "chunk"})
    /\ wire \in Seq({"first", "length", "header", "chunk"})
    /\ peer \in {"open", "gone"}
    /\ reading \in [next: {"first", "length", "header", "chunk"}, left: 0..MaxChunks]
    /\ got \in Seq((1..MaxFrames) \X {"frame", "digest"})
    /\ session \in {"accepted", "greeted"} \cup Closings
    /\ answers \in Seq({"welcome", "refused", "supported"})
    /\ client \in [pc: {"hello", "wait"} \cup Ends, written: BOOLEAN]

ChannelInit ==
    /\ own \in BOOLEAN
    /\ sent = <<>> /\ unsent = <<>> /\ wire = <<>> /\ got = <<>> /\ answers = <<>>
    /\ peer = "open" /\ session = "accepted"
    /\ reading = Waiting /\ armed = FALSE
    /\ client = [pc |-> "hello", written |-> FALSE]

Closed == session \in Closings
-----------------------------------------------------------------------------
(* The peer.                                                               *)

Begins(frame) ==
    /\ Len(sent) < MaxFrames /\ unsent = <<>>
    /\ sent' = Append(sent, frame) /\ unsent' = Cells(frame)

\* The CLI says hello, then its requests once it is connected.
Hello ==
    /\ own /\ peer = "open" /\ client.pc = "hello" /\ sent = <<>>
    /\ Begins([type |-> "hello", header |-> "valid", protocol |-> "spoken"])
    /\ UNCHANGED <<own, wire, peer, readerVars, client>>
Send ==
    /\ peer = "open" /\ ~Closed
    /\ IF own THEN client.pc = "connected" /\ \E frame \in WritableFrames : Begins(frame)
              ELSE \E frame \in Frames : Begins(frame)
    /\ UNCHANGED <<own, wire, peer, readerVars, client>>

\* A part of the frame reaches the stream.
WriteCell ==
    /\ peer = "open" /\ unsent # <<>> /\ ~Closed
    /\ wire' = Append(wire, Head(unsent)) /\ unsent' = Tail(unsent)
    /\ client' = IF own /\ client.pc = "hello" /\ Len(unsent) = 1
                 THEN [pc |-> "wait", written |-> TRUE] ELSE client
    /\ UNCHANGED <<own, sent, peer, readerVars>>

\* The overlay has closed: what is written is lost, unnoticed, or fails.
WriteLost ==
    /\ peer = "open" /\ unsent # <<>> /\ Closed
    /\ unsent' = <<>>
    /\ \/ client.pc = "hello" /\ \E written \in BOOLEAN :
              client' = [pc |-> "wait", written |-> written]
       \/ client.pc # "hello" /\ UNCHANGED client
    /\ UNCHANGED <<own, sent, wire, peer, readerVars>>

\* The peer closes, or is killed, anywhere in a frame.
Leave ==
    /\ peer = "open" /\ peer' = "gone" /\ unsent' = <<>>
    /\ UNCHANGED <<own, sent, wire, readerVars, client>>

\* Mutant of Conclude: a hello that could not be written ends the handshake.
ConcludeOnWrite(answer) ==
    IF ~client.written THEN "closed"
    ELSE CASE answer = "supported" -> "incompatible"
           [] answer = "refused"   -> "refused"
           [] answer = "welcome"   -> "connected"

\* `handshake` on an answer: a refusal counts even when the hello was not
\* written.
Conclude(answer) ==
    CASE answer = "supported" -> "incompatible"
      [] answer = "refused"   -> "refused"
      [] answer = "welcome"   -> IF client.written THEN "connected" ELSE "closed"

Answered ==
    /\ own /\ peer = "open" /\ client.pc = "wait" /\ answers # <<>>
    /\ client' = [client EXCEPT !.pc = Conclude(Head(answers))]
    /\ answers' = Tail(answers)
    /\ UNCHANGED <<own, sent, unsent, wire, peer, reading, armed, got, session>>

\* Mutant of Unanswered: only the end of the channel ends the wait.
UnansweredOpen ==
    /\ own /\ peer = "open" /\ client.pc = "wait" /\ answers = <<>> /\ Closed
    /\ client' = [client EXCEPT !.pc = IF client.written THEN "io" ELSE "closed"]
    /\ UNCHANGED <<own, sent, unsent, wire, peer, readerVars>>

\* No answer: the channel closed without a word, or nothing came in time.
Unanswered ==
    /\ own /\ peer = "open" /\ client.pc = "wait" /\ answers = <<>>
    /\ client' = [client EXCEPT !.pc = IF ~client.written THEN "closed"
                                       ELSE IF Closed THEN "io" ELSE "untrusted"]
    /\ UNCHANGED <<own, sent, unsent, wire, peer, readerVars>>
-----------------------------------------------------------------------------
(* The overlay.                                                            *)

\* It closes, with a word to the peer or none.
Closes(how, words) ==
    /\ session' = how /\ answers' = answers \o words /\ armed' = FALSE
    /\ UNCHANGED <<own, sent, unsent, wire, peer, reading, got, client>>

\* Too many sessions: refused before the hello is read.
RefuseSession ==
    /\ session = "accepted" /\ reading = Waiting /\ got = <<>>
    /\ Closes("full", <<"refused">>)

Index == Len(got) + 1   \* the frame being read
Available(cell) == ~Closed /\ reading.next = cell /\ wire # <<>>
Reads(next) ==
    /\ wire' = Tail(wire) /\ reading' = next
    /\ UNCHANGED <<own, sent, unsent, peer, client>>

\* `read_header`: the first byte starts the delay of the frame.
ReadFirst ==
    /\ Available("first") /\ Reads([next |-> "length", left |-> 0])
    /\ armed' = TRUE /\ UNCHANGED <<got, session, answers>>

ReadLength ==
    /\ Available("length")
    /\ IF sent[Index].header = "size" THEN Closes("size", <<"refused">>)
       ELSE Reads([next |-> "header", left |-> 0]) /\ UNCHANGED <<armed, got, session, answers>>

\* The frame is complete: the overlay takes it, and waits for the next one.
Returns(result) == got' = Append(got, <<Index, result>>) /\ armed' = FALSE /\ Reads(Waiting)

\* The first message is the hello, and no other is.
Greets(frame) ==
    IF (session = "accepted") # (frame.type = "hello") THEN Closes("protocol", <<"refused">>)
    ELSE IF frame.type # "hello"
         THEN Returns("frame") /\ UNCHANGED <<session, answers>>
         ELSE IF frame.protocol = "other" THEN Closes("unsupported", <<"supported">>)
         ELSE Returns("frame") /\ session' = "greeted" /\ answers' = Append(answers, "welcome")

\* `parse`, then `validate`: a JSON object of a known message, within bounds.
\* An install goes on to its package.
ReadHeader ==
    /\ Available("header")
    /\ LET frame == sent[Index]
       IN  IF frame.header \in {"malformed", "invalid"}
           THEN Closes(frame.header, <<"refused">>)
           ELSE IF frame.type = "install"
           THEN Reads([next |-> "chunk", left |-> frame.chunks])
                /\ UNCHANGED <<armed, got, session, answers>>
           ELSE Greets(frame)

\* The package is read, and then only what the overlay makes of it: what does
\* not match is answered, for the stream is still in step; before the hello,
\* the overlay may close on it too.
TakesPackage(frame) ==
    \/ frame.digest /\ Greets(frame)
    \/ ~frame.digest /\ Returns("digest") /\ UNCHANGED <<session, answers>>
    \/ ~frame.digest /\ session = "accepted" /\ Closes("protocol", <<"refused">>)

\* Mutant of ReadChunk: a package that cannot match is not read to its end.
ReadChunkShort ==
    /\ Available("chunk")
    /\ IF reading.left > 1 /\ sent[Index].digest
       THEN Reads([reading EXCEPT !.left = @ - 1]) /\ UNCHANGED <<armed, got, session, answers>>
       ELSE TakesPackage(sent[Index])

\* `take(package_bytes).read_to_end`, then the digest.
ReadChunk ==
    /\ Available("chunk")
    /\ IF reading.left > 1
       THEN Reads([reading EXCEPT !.left = @ - 1]) /\ UNCHANGED <<armed, got, session, answers>>
       ELSE TakesPackage(sent[Index])

\* The peer closed: between two frames or inside one.
ReadEnd ==
    /\ ~Closed /\ wire = <<>> /\ peer = "gone"
    /\ Closes(IF reading = Waiting THEN "closed" ELSE "cut", <<>>)

\* FRAME_TIMEOUT inside a frame; HELLO_TIMEOUT before the hello.
TimesOut ==
    /\ ~Closed /\ wire = <<>> /\ (armed \/ session = "accepted")
    /\ Closes("timeout", <<"refused">>)

ReaderStep == ReadFirst \/ ReadLength \/ ReadHeader \/ ReadChunk \/ ReadEnd
ClientStep == Hello \/ Answered \/ Unanswered
WriterStep == WriteCell \/ WriteLost
ChannelNext ==
    \/ Send \/ Leave \/ RefuseSession \/ TimesOut
    \/ ReaderStep \/ ClientStep \/ WriterStep
ChannelSpec == ChannelInit /\ [][ChannelNext]_channelVars
-----------------------------------------------------------------------------
(* What the channel promises.                                              *)

\* Wherever the stream is cut, split or refused, the reader stays in step
\* with the writer: it returns the frames in order, one that is whole and
\* valid as itself, one whose package does not match as that, and never a
\* part of a frame or bytes of a package as a frame. What is left on the
\* wire is what follows the cells it has read.
Suffix(s, n) == SubSeq(s, Len(s) - n + 1, Len(s))
RestOf(frame) ==  \* of the frame being read
    CASE reading.next = "first"  -> Cells(frame)
      [] reading.next = "length" -> Suffix(Cells(frame), Len(Cells(frame)) - 1)
      [] reading.next = "header" -> Suffix(Cells(frame), Len(Cells(frame)) - 2)
      [] reading.next = "chunk"  -> Suffix(Cells(frame), reading.left)
InStep ==
    /\ \A i \in 1..Len(got) :
         /\ got[i][1] = i /\ sent[i].header = "valid"
         /\ got[i][2] = "digest" <=> sent[i].type = "install" /\ ~sent[i].digest
    /\ wire # <<>> /\ ~Closed => Head(wire) = reading.next
    /\ ~Closed /\ peer = "open" /\ Index = Len(sent) => wire \o unsent = RestOf(sent[Index])

\* channel.rs: "its refusal still waits in the channel, and says why". When
\* the overlay has refused, the CLI says so, however the refusal, the close
\* and the hello crossed, unless it gave up before.
SaysWhy ==
    [][client.pc = "wait" /\ client'.pc # "wait" /\ Closed /\ session # "closed"
         => client'.pc \in {"refused", "incompatible"}]_channelVars

\* A handshake ends, whatever the overlay does.
HandshakeEnds == own ~> client.pc \in Ends \/ peer = "gone"
=============================================================================
