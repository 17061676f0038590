----------------------------- MODULE PageSource -----------------------------
(* What MmapManager promises to the code that carves batches: a range of   *)
(* pages of the size asked for, none of which was given away before.  No   *)
(* request is refused.                                                     *)
EXTENDS Integers

CONSTANTS Client, Size, Nothing

VARIABLES
  asked,  \* the size each client is waiting for, or Nothing
  given   \* the ranges given away: area, first page, size and a serial number

Apart(g, h) ==
  g.area # h.area \/ g.from + g.size <= h.from \/ h.from + h.size <= g.from

Init ==
  /\ asked = [c \in Client |-> Nothing]
  /\ given = {}

Ask(c, size) ==
  /\ asked[c] = Nothing
  /\ asked' = [asked EXCEPT ![c] = size]
  /\ UNCHANGED given

Give(c) ==
  /\ asked[c] # Nothing
  /\ asked' = [asked EXCEPT ![c] = Nothing]
  /\ \E h \in given' :
       /\ h.size = asked[c]
       /\ \A g \in given : Apart(g, h)
       /\ h \notin given /\ given' = given \cup {h}

Next == \E c \in Client : Give(c) \/ \E size \in Size : Ask(c, size)

Spec == Init /\ [][Next]_<<asked, given>>
=============================================================================
