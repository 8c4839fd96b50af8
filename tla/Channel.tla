------------------------------- MODULE Channel -------------------------------
(***************************************************************************)
(* What LineReader promises of one peer's frames, without bytes, reads or  *)
(* a buffer: objects come out whole, once and in the order they were sent, *)
(* in the step that takes in their end; of those that are not too long     *)
(* none is missing, unless its connection ends first.  Wire implements it. *)
(***************************************************************************)
EXTENDS Naturals, Sequences, FiniteSets

CONSTANTS
    Lengths,  \* of the frames the peer sends
    Limit     \* the longest frame that is never lost

VARIABLES
    frames,   \* every frame the peer has sent
    passed,   \* how many of them have arrived, or ended with their connection
    arrived,  \* those that arrived
    got       \* the objects handed on, in order

channelVars == <<frames, passed, arrived, got>>

\* The elements of a finite set of numbers, in ascending order.
InOrder(S) ==
    CHOOSE q \in [1 .. Cardinality(S) -> S] :
        /\ \A m, n \in DOMAIN q : m < n => q[m] < q[n]
        /\ \A x \in S : \E n \in DOMAIN q : q[n] = x

ChannelInit ==
    /\ frames = <<>>
    /\ passed = 0
    /\ arrived = {}
    /\ got = <<>>

Objects(S) == {i \in S : frames[i].object}

\* The peer sends a frame.
Sends(n, object) ==
    /\ frames' = Append(frames, [length |-> n, object |-> object])
    /\ UNCHANGED <<passed, arrived, got>>

\* The next frames arrive, and what is found among them is handed on.
Arrive(n) ==
    /\ passed < n
    /\ passed' = n
    /\ arrived' = arrived \cup (passed + 1) .. n
    /\ \E found \in SUBSET Objects((passed + 1) .. n) :
          /\ {i \in Objects((passed + 1) .. n) : frames[i].length <= Limit} \subseteq found
          /\ got' = got \o InOrder(found)
    /\ UNCHANGED frames

\* The connection ends, and takes what has not arrived with it.
Break ==
    /\ passed' = Len(frames)
    /\ UNCHANGED <<frames, arrived, got>>

ChannelNext ==
    \/ \E n \in Lengths, object \in BOOLEAN : Sends(n, object)
    \/ \E n \in 1 .. Len(frames) : Arrive(n)
    \/ Break

ChannelSpec == ChannelInit /\ [][ChannelNext]_channelVars
=============================================================================
