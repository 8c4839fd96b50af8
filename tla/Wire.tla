-------------------------------- MODULE Wire --------------------------------
(***************************************************************************)
(* LineReader (protocol.py): frames out of a TCP stream.  A frame ends     *)
(* with CR LF; one read returns any part of what has arrived, at most      *)
(* READ_SIZE bytes of it; the buffer is cut from the front before the      *)
(* frames are taken out of it.                                             *)
(*                                                                         *)
(* A byte is a frame's number and its place in the frame; after the frame  *)
(* come its CR and its LF.  What a cut leaves of a frame is no object:     *)
(* the gateway's objects are flat and have no braces in their strings.     *)
(***************************************************************************)
EXTENDS Naturals, Sequences, FiniteSetsExt

CONSTANTS
    MaxBuffer,  \* MAX_BUFFER
    ReadSize,   \* gateway.py's _READ_SIZE
    Lengths,    \* of the frames the peer sends, 0 a blank line
    MaxFrames   \* bound

ASSUME WireAssumption ==
    /\ ReadSize \in Nat \ {0} /\ MaxBuffer \in Nat /\ ReadSize < MaxBuffer
    /\ Lengths \subseteq Nat
    /\ MaxFrames \in Nat

VARIABLES
    frames,   \* every frame the peer has sent: its length, and whether it is an object
    unread,   \* bytes that have not been read yet
    buffer,   \* LineReader._buffer
    got,      \* frames handed to _dispatch, in order
    arrived   \* history: frames read to their last byte

wireVars == <<frames, unread, buffer, got, arrived>>

Bytes(i) == [k \in 1 .. frames[i].length + 2 |-> <<i, k>>]
IsCR(b) == b[2] = frames[b[1]].length + 1
IsLF(b) == b[2] = frames[b[1]].length + 2

\* Frames that have arrived, or ended with their connection.
Passed == IF unread = <<>> THEN Len(frames) ELSE Head(unread)[1] - 1

C == INSTANCE Channel WITH
        passed <- Passed,
        Limit <- MaxBuffer - ReadSize - 1

WireTypeOK ==
    /\ frames \in Seq([length : Lengths, object : BOOLEAN])
    /\ unread \in Seq(Nat \X Nat)
    /\ buffer \in Seq(Nat \X Nat)
    /\ Len(buffer) <= MaxBuffer
    /\ got \in Seq(DOMAIN frames)
    /\ arrived \subseteq DOMAIN frames

WireInit ==
    /\ frames = <<>>
    /\ unread = <<>>
    /\ buffer = <<>>
    /\ got = <<>>
    /\ arrived = {}
-----------------------------------------------------------------------------
\* Mutant: the head is kept.
Kept_Head(s) == SubSeq(s, 1, IF Len(s) < MaxBuffer THEN Len(s) ELSE MaxBuffer)

\* The tail a full buffer is cut to.
Kept(s) == IF Len(s) > MaxBuffer THEN SubSeq(s, Len(s) - MaxBuffer + 1, Len(s)) ELSE s

\* Where separators begin.
Separators(s) == {j \in 1 .. Len(s) - 1 : IsCR(s[j]) /\ IsLF(s[j + 1])}

\* The line that a separator ends begins behind the one before.
LineStart(s, j) ==
    LET before == {k \in Separators(s) : k < j}
    IN  IF before = {} THEN 1 ELSE Max(before) + 2

Line(s, j) == SubSeq(s, LineStart(s, j), j - 1)

\* Mutant: the last line is left in the buffer.
Rest_Line(s) == IF Separators(s) = {} THEN s ELSE SubSeq(s, LineStart(s, Max(Separators(s))), Len(s))

Rest(s) == IF Separators(s) = {} THEN s ELSE SubSeq(s, Max(Separators(s)) + 2, Len(s))

\* json.loads: of the lines, only an object is a message.  The half of a
\* separator a cut has left before it is white space.
Text(line) == IF line # <<>> /\ IsLF(Head(line)) THEN Tail(line) ELSE line
IsMessage(line) ==
    /\ Text(line) # <<>>
    /\ LET i == Head(Text(line))[1]
       IN  frames[i].object /\ Text(line) = SubSeq(Bytes(i), 1, frames[i].length)
Parsed(s) ==
    LET ends == C!InOrder({j \in Separators(s) : IsMessage(Line(s, j))})
    IN  [n \in DOMAIN ends |-> Head(Text(Line(s, ends[n])))[1]]
-----------------------------------------------------------------------------
\* The peer sends a frame, or something else in a line.
PeerSends(n, object) ==
    /\ Len(frames) < MaxFrames
    /\ object => n > 0
    /\ frames' = Append(frames, [length |-> n, object |-> object])
    /\ unread' = unread \o [k \in 1 .. n + 2 |-> <<Len(frames) + 1, k>>]
    /\ UNCHANGED <<buffer, got, arrived>>

\* One read: LineReader.feed and the dispatch of what it returns.
Receive(n) ==
    /\ n \in 1 .. Len(unread)
    /\ LET data == SubSeq(unread, 1, n)
           kept == Kept(buffer \o data)
       IN  /\ unread' = SubSeq(unread, n + 1, Len(unread))
           /\ buffer' = Rest(kept)
           /\ got' = got \o Parsed(kept)
           /\ arrived' = arrived \cup {data[k][1] : k \in {j \in DOMAIN data : IsLF(data[j])}}
    /\ UNCHANGED frames

\* Mutant: one reader for all connections.
Hangup_KeepsBuffer ==
    /\ unread \o buffer # <<>>
    /\ unread' = <<>>
    /\ UNCHANGED <<frames, buffer, got, arrived>>

\* The connection ends with what it carried; the next has a reader of its own.
Hangup ==
    /\ unread \o buffer # <<>>
    /\ unread' = <<>>
    /\ buffer' = <<>>
    /\ UNCHANGED <<frames, got, arrived>>

WireNext ==
    \/ \E n \in Lengths, object \in BOOLEAN : PeerSends(n, object)
    \/ \E n \in 1 .. ReadSize : Receive(n)
    \/ Hangup

WireSpec == WireInit /\ [][WireNext]_wireVars
-----------------------------------------------------------------------------
(* Properties.                                                             *)

\* Whatever the reads cut the stream into and the buffer loses, what is
\* dispatched are objects the peer sent, whole, once and in order.
OnlyWhatWasSent ==
    /\ \A n \in DOMAIN got : frames[got[n]].object
    /\ \A m, n \in DOMAIN got : m < n => got[m] < got[n]

\* An object read to its end is dispatched if the part of it that has to
\* wait in the buffer leaves room for one more read.  A longer one may be
\* lost though it is legal and complete: the buffer is cut before the frames
\* are taken out of it (protocol.py:366-372).
OnlyLongFramesLost ==
    \A i \in arrived :
        frames[i].object /\ frames[i].length + 1 + ReadSize <= MaxBuffer =>
            \E n \in DOMAIN got : got[n] = i

\* Reads, a buffer and its cuts together do no more to the frames of a peer
\* than Channel allows: what is dispatched is dispatched when its end is read,
\* and only a frame longer than the limit, or a connection's last, is missing.
ImplementsChannel == C!ChannelSpec
=============================================================================
