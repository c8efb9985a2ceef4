------------------------------ MODULE Broadcast ------------------------------
(***************************************************************************)
(* What a broadcast promises, without packets, streams or ranks' program   *)
(* counters: rank 0 starts a broadcast, every other rank gets its content, *)
(* and rank 0 returns only when they all have ("The root always waits for  *)
(* all N-1 ACKs before returning from the collective", AGENT.md).          *)
(* Broadcasts are numbered from 1; the number stands for the content.      *)
(***************************************************************************)
EXTENDS Integers

CONSTANTS N,         \* WORD_SIZE, the number of ranks
          MaxBcasts  \* bound: the broadcasts rank 0 starts


Receiver == 1 .. N-1

VARIABLES started,   \* how many broadcasts rank 0 has started
          returned,  \* how many of its calls have returned
          content    \* content[r]: the broadcast whose content is in the buffer of rank r

vars == <<started, returned, content>>

Init == /\ started = 0
        /\ returned = 0
        /\ content = [r \in Receiver |-> 0]

Start == /\ started = returned
         /\ started < MaxBcasts
         /\ started' = started + 1
         /\ UNCHANGED <<returned, content>>

Receive(r) == /\ content[r] < started
              /\ content' = [content EXCEPT ![r] = started]
              /\ UNCHANGED <<started, returned>>

Return == /\ returned < started
          /\ \A r \in Receiver : content[r] = started
          /\ returned' = started
          /\ UNCHANGED <<started, content>>

Next == Start \/ Return \/ \E r \in Receiver : Receive(r)

Spec == Init /\ [][Next]_vars
=============================================================================
