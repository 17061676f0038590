------------------------- MODULE MemorySizeManager --------------------------
(***************************************************************************)
(* MemorySizeManager: the table of batch sizes, filled at start-up from    *)
(* the file named by FCM_SIZE_LIST_FILE, one number per line, or with the  *)
(* default.  The file is read in blocks into one buffer, and strtok cuts   *)
(* the block into lines by writing NULs into it.                           *)
(***************************************************************************)
EXTENDS Integers, Sequences, SequencesExt, FiniteSetsExt

CONSTANTS
  Size,            \* the number of size classes, 64 + 1 in the source
  max_num_digits,  \* digits of a number the buffer is made for
  Default,         \* the default table
  Digit,           \* the digits a file is made of
  NL, NUL,         \* '\n' and '\0'
  MaxLen           \* bound: the length of the file

ASSUME SizeListAssumption ==
  /\ Size \in Nat \ {0} /\ max_num_digits \in Nat \ {0}
  /\ Default \in [0 .. Size - 1 -> Nat]
  /\ Digit \subseteq 0 .. 9
  /\ NL # NUL /\ {NL, NUL} \cap Digit = {}
  /\ MaxLen \in Nat

Char   == Digit \cup {NL}
BufLen == Size * max_num_digits + 1

VARIABLES
  file,      \* the contents of the file
  pos,       \* how much of it has been read
  val,       \* the buffer, the byte after it, and an end to what we look at
  token,     \* the token strtok returned, as the sequence of its digits;
             \* the empty one for nullptr
  save,      \* where strtok goes on
  index,
  nPerSize_,
  pc

bvars == <<val, token, save>>
vars  == <<file, pos, bvars, index, nPerSize_, pc>>

Init ==
  /\ file \in UNION {[1 .. n -> Char] : n \in 0 .. MaxLen}
  /\ pos = 0
  /\ val = [i \in 1 .. BufLen + 2 |-> NUL]
  /\ token = << >> /\ save = 1
  /\ index = 0
  /\ nPerSize_ = [i \in 0 .. Size - 1 |-> 0]
  /\ pc = "open"

\* Without a file name, and when the file cannot be opened.
setDefault ==
  /\ pc = "open"
  /\ nPerSize_' = Default
  /\ pc' = "done"
  /\ UNCHANGED <<file, pos, bvars, index>>

Open ==
  /\ pc = "open"
  /\ pc' = "read"
  /\ UNCHANGED <<file, pos, bvars, index, nPerSize_>>

\* Seeded: empty lines are tokens too.
Seededstrtok(v, from) ==
  LET end == Min({i \in from .. BufLen + 2 : v[i] \in {NL, NUL}})
  IN  /\ token' = SubSeq(v, from, end - 1)
      /\ val' = [v EXCEPT ![end] = NUL]
      /\ save' = IF v[end] = NL THEN end + 1 ELSE end

\* strtok(.., "\n") from a place in the buffer v.
strtok(v, from) ==
  LET start == Min({i \in from .. BufLen + 2 : v[i] # NL})
      end   == Min({i \in start .. BufLen + 2 : v[i] \in {NL, NUL}})
  IN  /\ token' = SubSeq(v, start, end - 1)
      /\ val' = [v EXCEPT ![end] = NUL]
      /\ save' = IF v[end] = NL THEN end + 1 ELSE end

\* Seeded: every read starts at the head of the file.
SeededNextPos(n) == pos

\* The place in the file after a read of n bytes.
NextPos(n) == pos + n

\* What a block of n bytes leaves of the buffer as it was.
Kept(i, n) == IF i > n THEN val[i] ELSE file[pos + i]

\* read(fd, val, sizeof(val)) > 0 and the first strtok.  A block that fills
\* the buffer has no NUL behind it: what strtok finds there is whatever the
\* stack holds.
Read ==
  LET n == Min({BufLen, Len(file) - pos})
  IN  /\ pc = "read" /\ n > 0
      /\ pos' = NextPos(n)
      /\ \E beyond \in IF n = BufLen THEN Char \cup {NUL} ELSE {val[BufLen + 1]} :
           strtok([i \in 1 .. BufLen + 2 |-> IF i = BufLen + 1 THEN beyond ELSE Kept(i, n)], 1)
      /\ pc' = "token"
      /\ UNCHANGED <<file, index, nPerSize_>>

atoi(t) == FoldLeft(LAMBDA a, d : 10 * a + d, 0, t)

\* One turn of the inner loop.
Store ==
  /\ pc = "token" /\ token # << >> /\ index < Size
  /\ nPerSize_' = [nPerSize_ EXCEPT ![index] = atoi(token)]
  /\ index' = index + 1
  /\ strtok(val, save)
  /\ UNCHANGED <<file, pos, pc>>

EndOfBlock ==
  /\ pc = "token" /\ (token = << >> \/ index = Size)
  /\ pc' = "read"
  /\ UNCHANGED <<file, pos, bvars, index, nPerSize_>>

Close ==
  /\ pc = "read" /\ pos = Len(file)
  /\ pc' = "done"
  /\ UNCHANGED <<file, pos, bvars, index, nPerSize_>>

Done == pc = "done" /\ UNCHANGED vars

Next == setDefault \/ Open \/ Read \/ Store \/ EndOfBlock \/ Close \/ Done

\* The constructor runs to its end.
Spec == Init /\ [][Next]_vars /\ WF_vars(Next)

-----------------------------------------------------------------------------

\* The lines of the file that are not empty, by the place they start at.
Starts    == {i \in 1 .. Len(file) : file[i] # NL /\ (i = 1 \/ file[i-1] = NL)}
Start(k)  == CHOOSE i \in Starts : Cardinality({j \in Starts : j < i}) = k
LineEnd(i) == Min({j \in i .. Len(file) : file[j] = NL} \cup {Len(file) + 1})
Line(k)   == SubSeq(file, Start(k), LineEnd(Start(k)) - 1)

\* Line k (from 0) of the file becomes entry k of the table when it ends in
\* the first block; and a file that leaves a byte of the buffer free is the
\* whole table, with zeros for the lines it does not have.
TableIsFile ==
  pc = "done" /\ file # << >> /\ pos = Len(file) =>
    /\ \A k \in 0 .. Size - 1 :
         k < Cardinality(Starts) /\ LineEnd(Start(k)) <= BufLen =>
           nPerSize_[k] = atoi(Line(k))
    /\ Len(file) < BufLen =>
         \A k \in 0 .. Size - 1 : k >= Cardinality(Starts) => nPerSize_[k] = 0

\* However the blocks fall, the table is complete at some time: the first
\* malloc of the process waits for it.
Loads == <>(pc = "done")
=============================================================================
