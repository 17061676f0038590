-------------------------------- MODULE Heap --------------------------------
(***************************************************************************)
(* What malloc, realloc and free promise to the application, whatever the  *)
(* threads that call them: a block that is handed out belongs to nobody    *)
(* else until it is freed, it is of the class that was asked for, and a    *)
(* block given to realloc stays with its owner until there is a new one.   *)
(***************************************************************************)
EXTENDS Integers

CONSTANTS
  Client, Block,
  Class,     \* a set of naturals, ordered by the size of the blocks
  Nothing

VARIABLES
  owned,    \* how often each block is in the application's hands
  class,    \* the size class of each block, Nothing before it exists
  request   \* the malloc or realloc of each client that is still unanswered

vars == <<owned, class, request>>

Init ==
  /\ owned = [b \in Block |-> 0]
  /\ class = [b \in Block |-> Nothing]
  /\ request = [t \in Client |-> Nothing]

\* A block that may be freed: it is owned, and no realloc is waiting with it.
Usable(b) == owned[b] > 0 /\ \A t \in Client : request[t] = Nothing \/ request[t].old # b

\* Block b of class i is handed out in exchange for old.  It may have come
\* into being now, with others of its class.
Exchange(old, b, i) ==
  /\ owned[b] = 0
  /\ \E S \in SUBSET {c \in Block : class[c] = Nothing} :
       class' = [c \in Block |-> IF c \in S THEN i ELSE class[c]]
  /\ class'[b] = i
  /\ owned' = [c \in Block |-> IF c = b THEN 1
                               ELSE IF c = old THEN owned[c] - 1 ELSE owned[c]]

\* malloc (old is Nothing) and realloc (to a greater class) at once, ...
Serve(old, i) ==
  /\ old = Nothing \/ (Usable(old) /\ class[old] < i)
  /\ \E b \in Block : Exchange(old, b, i)
  /\ UNCHANGED request

\* ... or as a request that is answered or refused later.
Ask(t, old, i) ==
  /\ request[t] = Nothing
  /\ old = Nothing \/ (Usable(old) /\ class[old] < i)
  /\ request' = [request EXCEPT ![t] = [class |-> i, old |-> old]]
  /\ UNCHANGED <<owned, class>>

Answer(t) ==
  /\ request[t] # Nothing
  /\ \E b \in Block : Exchange(request[t].old, b, request[t].class)
  /\ request' = [request EXCEPT ![t] = Nothing]

Refuse(t) ==
  /\ request[t] # Nothing
  /\ request' = [request EXCEPT ![t] = Nothing]
  /\ UNCHANGED <<owned, class>>

Free(b) ==
  /\ Usable(b)
  /\ owned' = [owned EXCEPT ![b] = @ - 1]
  /\ UNCHANGED <<class, request>>

Next ==
  \/ \E i \in Class, old \in Block \cup {Nothing} :
       Serve(old, i) \/ \E t \in Client : Ask(t, old, i)
  \/ \E t \in Client : Answer(t) \/ Refuse(t)
  \/ \E b \in Block : Free(b)

Spec == Init /\ [][Next]_vars
=============================================================================
