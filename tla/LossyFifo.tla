------------------------------ MODULE LossyFifo ------------------------------
(***************************************************************************)
(* What the notification service promises to those who call Send: a queue  *)
(* of bounded length that refuses when it is full or shut, but once it has *)
(* taken a body serves it after all earlier ones and before all later      *)
(* ones, once, and also after it was shut.  Only the end of the process    *)
(* loses what is in it.  Notification implements this queue.               *)
(***************************************************************************)
EXTENDS Naturals, Sequences

CONSTANT Room         \* how many bodies may wait or be in service

VARIABLES
    pending,   \* the numbers of the bodies taken and not served yet
    last,      \* how many were ever taken: each one's number
    open       \* bodies are still taken

Init == pending = <<>> /\ last = 0 /\ open = TRUE

Accept ==
    /\ open = TRUE
    /\ Len(pending) < Room
    /\ last' = last + 1
    /\ pending' = Append(pending, last + 1)
    /\ UNCHANGED open

Serve ==
    /\ pending # <<>>
    /\ pending' = Tail(pending)
    /\ UNCHANGED <<last, open>>

Shut == open = TRUE /\ open' = FALSE /\ UNCHANGED <<pending, last>>

Crash == pending' = <<>> /\ open' = TRUE /\ UNCHANGED last

Next == Accept \/ Serve \/ Shut \/ Crash

Spec == Init /\ [][Next]_<<pending, last, open>>
=============================================================================
