------------------------------- MODULE Channel -------------------------------
(***************************************************************************)
(* What a pipe promises: a bounded first-in first-out byte channel.  Bytes *)
(* are numbered in the order in which the writers hand them over.  A read  *)
(* takes the oldest one; the end of file shows only once the writers have  *)
(* closed and everything they wrote was read.                              *)
(***************************************************************************)
EXTENDS Integers, Sequences

CONSTANT Capacity

VARIABLES
  chan,     \* the bytes written and not yet read
  put,      \* how many bytes were written so far
  closed,   \* no write end is open
  taken,    \* the bytes the last read took
  eof       \* a reader has been told of the end

vars == <<chan, put, closed, taken, eof>>

Init == chan = <<>> /\ put = 0 /\ closed = FALSE /\ taken = <<>> /\ eof = FALSE

Put ==
  /\ ~closed
  /\ \E k \in 1..Capacity - Len(chan) :
       /\ chan' = [i \in 1..Len(chan) + k |->
                    IF i <= Len(chan) THEN chan[i] ELSE put + i - Len(chan)]
       /\ put' = put + k
  /\ UNCHANGED <<closed, taken, eof>>

Get ==
  /\ ~eof /\ chan # <<>>
  /\ taken' = <<Head(chan)>>
  /\ chan' = Tail(chan)
  /\ UNCHANGED <<put, closed, eof>>

Close ==
  /\ closed' = TRUE
  /\ UNCHANGED <<chan, put, taken, eof>>

End ==
  /\ closed /\ chan = <<>>
  /\ eof' = TRUE
  /\ UNCHANGED <<chan, put, closed, taken>>

Next == Put \/ Get \/ Close \/ End

Spec == Init /\ [][Next]_vars
=============================================================================
