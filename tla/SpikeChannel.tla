---------------------------- MODULE SpikeChannel ----------------------------
(***************************************************************************)
(* What the SAN's spike queue promises its clients, with no cells, sequence *)
(* numbers or program counters: spikes are accepted in one global order, at *)
(* most Capacity of them are held at a time, and each accepted spike is     *)
(* handed to exactly one consumer, in the order of acceptance.              *)
(* MpmcQueue is shown to implement this specification.                      *)
(***************************************************************************)
EXTENDS Naturals, Sequences

CONSTANTS Consumers,  \* the threads that take spikes
          Spikes,     \* every spike that may be posted
          Capacity,   \* how many accepted spikes may wait to be handed out
          NoSpike     \* what a consumer holds before its first spike

VARIABLES accepted,   \* every spike accepted so far, in the order of acceptance
          taken,      \* how many of them have been handed out
          hand        \* hand[c] is the last spike handed to consumer c

chanVars == <<accepted, taken, hand>>

ChanTypeOK ==
    /\ accepted \in Seq(Spikes)
    /\ taken \in 0 .. Len(accepted)
    /\ hand \in [Consumers -> Spikes \union {NoSpike}]

ChanInit ==
    /\ accepted = <<>>
    /\ taken = 0
    /\ hand = [c \in Consumers |-> NoSpike]

\* A spike is accepted behind every spike accepted before it, if there is room.
Accept(s) ==
    /\ Len(accepted) - taken < Capacity
    /\ accepted' = Append(accepted, s)
    /\ UNCHANGED <<taken, hand>>

\* The oldest spike not yet handed out goes to one consumer.
Take(c) ==
    /\ taken < Len(accepted)
    /\ taken' = taken + 1
    /\ hand' = [hand EXCEPT ![c] = accepted[taken + 1]]
    /\ UNCHANGED accepted

ChanNext ==
    \/ \E s \in Spikes : Accept(s)
    \/ \E c \in Consumers : Take(c)

ChanSpec == ChanInit /\ [][ChanNext]_chanVars
=============================================================================
