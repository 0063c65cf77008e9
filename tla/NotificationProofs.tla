------------------------- MODULE NotificationProofs -------------------------
(***************************************************************************)
(* Proofs about Notification, for every set of policies, schedules and     *)
(* types, every capacity and every bound.  The channel with its thread and *)
(* the controller with its recipients share no variable but through        *)
(* guards, so the invariant has a half for each of them: ChannelInv and    *)
(* PolicyInv.                                                              *)
(***************************************************************************)
EXTENDS Notification, FiniteSetTheorems, TLAPS

ChannelTyped ==
    /\ ch \in Seq(Bodies) /\ Len(ch) <= Capacity /\ closed \in BOOLEAN
    /\ sending \subseteq Nat \X Bodies
    /\ run \in Threads /\ log \in [Policies -> Seq(Nat)]
    /\ accepted \in 0..MaxSends /\ sends \in 0..MaxSends

PolicyTyped ==
    /\ policy \in [Policies -> Specs \cup {None}] /\ ready \in [Policies -> Reasons]
    /\ polQ \subseteq Policies /\ pw \in PWorkers
    /\ recipients \in [Names -> [Policies -> Types \cup {None}]]
    /\ gauge \in [Types \X Names -> Int]
    /\ edits \in 0..MaxEdits /\ faults \in 0..MaxFaults

RestTyped ==
    /\ ctxDone \in BOOLEAN /\ cron \in {"running", "stopping", "stopped"}
    /\ jobs \in 0..MaxJobs /\ shutdowns \in 0..MaxShutdowns
    /\ restarts \in 0..MaxRestarts

(* Every Send has its own ticket, and every accepted body had one.           *)
Ticketed ==
    /\ \A x \in sending : x[1] < sends
    /\ IsFiniteSet(sending)
    /\ accepted + Cardinality(sending) <= sends

InHand == run.pc \in {"lookup", "notify"}

(* The numbers in the channel are the last ones given, without a gap, and    *)
(* the body in the thread's hands comes just before them.                    *)
Numbered ==
    /\ Len(ch) <= accepted
    /\ \A i \in DOMAIN ch : ch[i].n = accepted - Len(ch) + i
    /\ InHand => run.body \in Bodies /\ run.body.n = accepted - Len(ch)

(* No recipient was ever called with a body still in the channel; one that   *)
(* is still to be called with the body in hand has not been called with it.  *)
LogBounded ==
    \A p \in Policies : \A i \in DOMAIN log[p] :
        /\ log[p][i] <= accepted - Len(ch)
        /\ run.pc = "lookup" \/ (run.pc = "notify" /\ p \in run.copy)
              => log[p][i] < run.body.n

ChannelInv ==
    /\ ChannelTyped /\ NeverSendsOnClosed /\ Ticketed /\ Numbered
    /\ LogBounded /\ RecipientsGetBodiesInOrder

chSide  == <<ch, closed, sending, accepted, sends, run, log>>
polSide == <<policy, ready, polQ, pw, edits, faults, recipients, gauge>>

-----------------------------------------------------------------------------
(* The channel and its thread.                                               *)

(* The types of the three parts are the types of the whole. *)
LEMMA TypeParts == TypeOK <=> ChannelTyped /\ PolicyTyped /\ RestTyped
BY DEF TypeOK, ChannelTyped, PolicyTyped, RestTyped

(* What the assumption says of the bounds, one by one. *)
LEMMA Bounds ==
    /\ Capacity \in Nat /\ MaxSends \in Nat /\ MaxEdits \in Nat /\ MaxFaults \in Nat
    /\ MaxRestarts \in Nat /\ MaxJobs \in Nat /\ MaxShutdowns \in Nat
BY NotificationAssumption

(* A longer sequence, element by element. *)
LEMMA AppendFacts ==
    ASSUME NEW S, NEW q \in Seq(S), NEW x \in S
    PROVE  /\ Append(q, x) \in Seq(S) /\ Len(q) \in Nat
           /\ DOMAIN q = 1..Len(q) /\ Len(Append(q, x)) = Len(q) + 1
           /\ DOMAIN Append(q, x) = 1..(Len(q) + 1)
           /\ \A i \in 1..Len(q) : Append(q, x)[i] = q[i] /\ q[i] \in S
           /\ Append(q, x)[Len(q) + 1] = x
OBVIOUS

(* A shorter one. *)
LEMMA TailFacts ==
    ASSUME NEW S, NEW q \in Seq(S), q # <<>>
    PROVE  /\ Tail(q) \in Seq(S) /\ Len(q) \in Nat \ {0}
           /\ DOMAIN q = 1..Len(q) /\ Len(Tail(q)) = Len(q) - 1
           /\ DOMAIN Tail(q) = 1..(Len(q) - 1)
           /\ \A i \in 1..(Len(q) - 1) : Tail(q)[i] = q[i + 1]
           /\ Head(q) = q[1] /\ Head(q) \in S
OBVIOUS

(* The service starts with an empty, open channel. *)
LEMMA ChannelInit == Init => ChannelInv
<1> SUFFICES ASSUME Init PROVE ChannelInv
  OBVIOUS
<1>1. ChannelTyped
  <2>1. Thread \in Threads
    BY DEF Thread, Threads
  <2>2. ch \in Seq(Bodies) /\ Len(ch) = 0
    BY DEF Init
  <2>3. log \in [Policies -> Seq(Nat)]
    BY DEF Init
  <2>4. closed \in BOOLEAN /\ run = Thread /\ sending = {} /\ accepted = 0 /\ sends = 0
    BY DEF Init
  <2> QED
    BY <2>1, <2>2, <2>3, <2>4, Bounds DEF ChannelTyped
<1>2. Ticketed
  BY FS_EmptySet DEF Init, Ticketed
<1> QED
  BY <1>1, <1>2
     DEF Init, ChannelInv, NeverSendsOnClosed, Numbered, LogBounded, InHand, Thread,
         RecipientsGetBodiesInOrder

(* A Send that has seen an open channel takes the read lock with a ticket of *)
(* its own; one that has seen a closed channel drops its body.               *)
LEMMA SendKeeps ==
    ASSUME NEW s \in Names, NEW of \in Schedules, ChannelInv, Send(s, of)
    PROVE  ChannelInv'
<1> DEFINE x == <<sends, [n |-> 0, schedule |-> s, of |-> of]>>
<1>1. x \in Nat \X Bodies /\ x[1] = sends
  BY DEF ChannelInv, ChannelTyped, Bodies
<1> HIDE DEF x
<1>2. /\ sends < MaxSends /\ sends' = sends + 1
      /\ sending' = IF closed THEN sending ELSE sending \cup {x}
      /\ UNCHANGED <<ch, closed, accepted, run, log>>
  BY DEF Send, x, runVars
<1>3. ChannelTyped'
  BY <1>1, <1>2, Bounds DEF ChannelInv, ChannelTyped
<1>4. Ticketed'
  <2>1. x \notin sending
    BY <1>1 DEF ChannelInv, ChannelTyped, Ticketed
  <2>2. IsFiniteSet(sending) /\ Cardinality(sending) \in Nat
    BY FS_CardinalityType DEF ChannelInv, Ticketed
  <2>3. /\ IsFiniteSet(sending \cup {x})
        /\ Cardinality(sending \cup {x}) = Cardinality(sending) + 1
    BY <2>1, <2>2, FS_AddElement
  <2>4. \A y \in sending' : y[1] < sends'
    BY <1>1, <1>2 DEF ChannelInv, ChannelTyped, Ticketed
  <2> QED
    BY <1>2, <2>2, <2>3, <2>4 DEF ChannelInv, ChannelTyped, Ticketed
<1> QED
  BY <1>2, <1>3, <1>4
     DEF ChannelInv, NeverSendsOnClosed, Numbered, LogBounded, InHand,
         RecipientsGetBodiesInOrder

(* The send itself: the body gets the next number and goes to the end of the *)
(* channel, or is dropped.                                                   *)
LEMMA PutKeeps ==
    ASSUME NEW x \in sending, ChannelInv, Put(x)
    PROVE  ChannelInv'
<1> DEFINE body == [x[2] EXCEPT !.n = accepted + 1]
<1>1. x[2] \in Bodies /\ accepted \in Nat /\ sends \in Nat /\ ch \in Seq(Bodies)
  BY Bounds DEF ChannelInv, ChannelTyped
<1>2. body \in Bodies /\ body.n = accepted + 1
  BY <1>1 DEF Bodies
<1> HIDE DEF body
<1>3. /\ sending' = sending \ {x}
      /\ UNCHANGED <<closed, sends, run, log>>
      /\ \/ Len(ch) < Capacity /\ ch' = Append(ch, body) /\ accepted' = accepted + 1
         \/ UNCHANGED <<ch, accepted>>
  BY DEF Put, runVars, body
<1>4. Ticketed' /\ accepted' \in 0..MaxSends
  <2>1. IsFiniteSet(sending) /\ Cardinality(sending) \in Nat
    BY FS_CardinalityType DEF ChannelInv, Ticketed
  <2>2. IsFiniteSet(sending') /\ Cardinality(sending') = Cardinality(sending) - 1
    BY <1>3, <2>1, FS_RemoveElement
  <2>3. Cardinality(sending') \in Nat
    BY <2>2, FS_CardinalityType
  <2>4. accepted' + Cardinality(sending') <= sends /\ accepted' \in Nat
    BY <1>1, <1>3, <2>1, <2>2 DEF ChannelInv, Ticketed
  <2> QED
    BY <1>1, <1>3, <2>2, <2>3, <2>4, Bounds
       DEF ChannelInv, Ticketed, ChannelTyped
<1>5. CASE UNCHANGED <<ch, accepted>>
  BY <1>3, <1>4, <1>5
     DEF ChannelInv, ChannelTyped, NeverSendsOnClosed, Numbered, LogBounded, InHand,
         RecipientsGetBodiesInOrder
<1>6. CASE Len(ch) < Capacity /\ ch' = Append(ch, body) /\ accepted' = accepted + 1
  <2>1. /\ ch' \in Seq(Bodies) /\ Len(ch') = Len(ch) + 1
        /\ \A i \in DOMAIN ch : ch'[i] = ch[i]
        /\ ch'[Len(ch')] = body
        /\ DOMAIN ch' = DOMAIN ch \cup {Len(ch')}
    BY <1>1, <1>2, <1>6, AppendFacts
  <2>2. ChannelTyped'
    BY <1>3, <1>4, <1>6, <2>1, Bounds DEF ChannelInv, ChannelTyped
  <2>3. Len(ch) \in Nat /\ accepted' - Len(ch') = accepted - Len(ch)
    BY <1>1, <1>6, <2>1
  <2>4. Numbered'
    BY <1>1, <1>2, <1>3, <1>6, <2>1, <2>3 DEF ChannelInv, Numbered, InHand
  <2>5. LogBounded'
    BY <1>3, <2>3 DEF ChannelInv, LogBounded
  <2> QED
    BY <1>3, <1>4, <2>2, <2>4, <2>5
       DEF ChannelInv, NeverSendsOnClosed, RecipientsGetBodiesInOrder
<1> QED
  BY <1>3, <1>5, <1>6

(* The oldest body goes from the channel to the thread's hands. *)
LEMMA ReceiveKeeps == ChannelInv /\ Receive => ChannelInv'
<1> SUFFICES ASSUME ChannelInv, Receive PROVE ChannelInv'
  OBVIOUS
<1>1. /\ ch \in Seq(Bodies) /\ Len(ch) <= Capacity /\ run \in Threads /\ accepted \in Nat
      /\ log \in [Policies -> Seq(Nat)] /\ Len(ch) <= accepted /\ Len(ch) \in Nat
  BY Bounds DEF ChannelInv, ChannelTyped, Numbered
<1>2. UNCHANGED <<closed, sending, accepted, sends, log>>
  BY DEF Receive
<1>3. CASE ch # <<>> /\ run' = [run EXCEPT !.pc = "lookup", !.body = Head(ch)] /\ ch' = Tail(ch)
  <2>1. /\ Head(ch) \in Bodies /\ Head(ch) = ch[1] /\ 1 \in DOMAIN ch
        /\ ch' \in Seq(Bodies) /\ Len(ch') = Len(ch) - 1
        /\ \A i \in DOMAIN ch' : ch'[i] = ch[i + 1] /\ i + 1 \in DOMAIN ch /\ i \in Nat
    <3>1. /\ Len(ch) \in Nat \ {0} /\ DOMAIN ch = 1..Len(ch)
          /\ DOMAIN ch' = 1..(Len(ch) - 1) /\ Len(ch') = Len(ch) - 1
          /\ \A i \in 1..(Len(ch) - 1) : ch'[i] = ch[i + 1]
          /\ Head(ch) \in Bodies /\ Head(ch) = ch[1] /\ ch' \in Seq(Bodies)
      BY <1>1, <1>3, TailFacts
    <3> QED
      BY <3>1
  <2>2. run' \in Threads /\ run'.pc = "lookup" /\ run'.body = Head(ch)
    BY <1>1, <1>3, <2>1 DEF Threads
  <2>3. ChannelTyped'
    BY <1>1, <1>2, <2>1, <2>2, Bounds DEF ChannelInv, ChannelTyped
  <2>4. Head(ch).n = accepted - Len(ch) + 1
    BY <1>1, <2>1 DEF ChannelInv, Numbered
  <2>5. Numbered'
    <3>1. \A i \in DOMAIN ch' : ch'[i].n = accepted - Len(ch') + i
      BY <1>1, <2>1 DEF ChannelInv, Numbered
    <3> QED
      BY <1>1, <1>2, <2>1, <2>2, <2>4, <3>1 DEF Numbered
  <2>6. LogBounded'
    <3> SUFFICES ASSUME NEW p \in Policies, NEW i \in DOMAIN log[p]
                 PROVE  log[p][i] <= accepted - Len(ch') /\ log[p][i] < run'.body.n
      BY <1>2 DEF LogBounded
    <3>1. log[p][i] \in Nat /\ log[p][i] <= accepted - Len(ch)
      BY <1>1 DEF ChannelInv, LogBounded
    <3> QED
      BY <1>1, <2>1, <2>2, <2>4, <3>1
  <2> QED
    BY <1>2, <2>3, <2>5, <2>6
       DEF ChannelInv, NeverSendsOnClosed, Ticketed, RecipientsGetBodiesInOrder
<1>4. CASE run' = [run EXCEPT !.pc = "stopped", !.body = None] /\ UNCHANGED ch
  <2>1. run' \in Threads /\ run'.pc = "stopped"
    BY <1>1, <1>4 DEF Threads
  <2> QED
    BY <1>2, <1>4, <2>1
       DEF ChannelInv, ChannelTyped, NeverSendsOnClosed, Ticketed, Numbered, LogBounded,
           InHand, RecipientsGetBodiesInOrder
<1> QED
  BY <1>3, <1>4 DEF Receive, Take

(* The copy of the recipients has nobody who was called with the body yet. *)
LEMMA LookupKeeps == ChannelInv /\ Lookup => ChannelInv'
<1> SUFFICES ASSUME ChannelInv, Lookup PROVE ChannelInv'
  OBVIOUS
<1>1. run \in Threads /\ UNCHANGED <<ch, closed, sending, accepted, sends, log>>
  BY DEF Lookup, chVars, ChannelInv, ChannelTyped
<1>2. /\ run' \in Threads /\ run'.pc = "notify" /\ run'.body = run.body /\ run.pc = "lookup"
  BY <1>1 DEF Lookup, Threads
<1> QED
  BY <1>1, <1>2
     DEF ChannelInv, ChannelTyped, NeverSendsOnClosed, Ticketed, Numbered, LogBounded,
         InHand, RecipientsGetBodiesInOrder

(* A recipient that is called leaves the copy, so nobody is called twice;    *)
(* the thread goes on to the next body when all have been called.            *)
LEMMA NotifyKeeps == ChannelInv /\ Notify => ChannelInv'
<1> SUFFICES ASSUME ChannelInv, Notify PROVE ChannelInv'
  OBVIOUS
<1>1. /\ ch \in Seq(Bodies) /\ run \in Threads /\ accepted \in Nat
      /\ log \in [Policies -> Seq(Nat)] /\ Len(ch) \in Nat
      /\ run.pc = "notify" /\ run.body \in Bodies /\ run.body.n = accepted - Len(ch)
      /\ run.copy \subseteq Policies /\ run.body.n \in Nat
  BY Bounds DEF ChannelInv, ChannelTyped, Numbered, Notify, InHand, Threads, Bodies
<1>2. UNCHANGED <<ch, closed, sending, accepted, sends>>
  BY DEF Notify, chVars
<1>3. ASSUME NEW p \in run.copy, Deliver(p), run' = [run EXCEPT !.copy = @ \ {p}]
      PROVE  ChannelInv'
  <2>1. /\ run' \in Threads /\ run'.pc = "notify" /\ run'.body = run.body
        /\ run'.copy = run.copy \ {p}
    BY <1>1, <1>3 DEF Threads
  <2>2. CASE log' = log
    BY <1>1, <1>2, <2>1, <2>2
       DEF ChannelInv, ChannelTyped, NeverSendsOnClosed, Ticketed, Numbered, LogBounded,
           InHand, RecipientsGetBodiesInOrder
  <2>3. CASE log' = [log EXCEPT ![p] = Append(@, run.body.n)]
    <3>1. /\ log' \in [Policies -> Seq(Nat)]
          /\ \A q \in Policies \ {p} : log'[q] = log[q]
          /\ log'[p] = Append(log[p], run.body.n)
          /\ log[p] \in Seq(Nat)
      BY <1>1, <2>3
    <3>2. /\ DOMAIN log'[p] = 1..(Len(log[p]) + 1)
          /\ Len(log[p]) \in Nat /\ DOMAIN log[p] = 1..Len(log[p])
          /\ \A i \in 1..Len(log[p]) : log'[p][i] = log[p][i] /\ log[p][i] \in Nat
          /\ log'[p][Len(log[p]) + 1] = run.body.n
      BY <1>1, <3>1, AppendFacts
    <3>3. \A i \in DOMAIN log[p] : log[p][i] < run.body.n
      BY <1>1 DEF ChannelInv, LogBounded
    <3>4. ChannelTyped'
      BY <1>2, <2>1, <3>1 DEF ChannelInv, ChannelTyped
    <3>5. LogBounded'
      <4> SUFFICES ASSUME NEW q \in Policies, NEW i \in DOMAIN log'[q]
                   PROVE  /\ log'[q][i] <= accepted - Len(ch)
                          /\ q \in run'.copy => log'[q][i] < run.body.n
        BY <1>2, <2>1 DEF LogBounded
      <4>1. CASE q = p
        <5>1. i \in 1..Len(log[p]) \/ i = Len(log[p]) + 1
          BY <3>2, <4>1
        <5>2. \A k \in 1..Len(log[p]) : log'[p][k] \in Nat /\ log'[p][k] < run.body.n
          BY <3>2, <3>3
        <5> QED
          BY <1>1, <2>1, <3>2, <4>1, <5>1, <5>2
      <4>2. CASE q # p
        BY <1>1, <2>1, <3>1, <4>2 DEF ChannelInv, LogBounded
      <4> QED
        BY <4>1, <4>2
    <3>6. RecipientsGetBodiesInOrder'
      <4> SUFFICES ASSUME NEW q \in Policies, NEW i \in DOMAIN log'[q], NEW j \in DOMAIN log'[q],
                          i < j
                   PROVE  log'[q][i] < log'[q][j]
        BY DEF RecipientsGetBodiesInOrder
      <4>1. CASE q = p
        <5>1. i \in 1..Len(log[p]) /\ (j \in 1..Len(log[p]) \/ j = Len(log[p]) + 1)
          BY <3>2, <4>1
        <5>2. j \in 1..Len(log[p]) => log[p][i] < log[p][j]
          BY <1>1, <3>2, <5>1 DEF ChannelInv, RecipientsGetBodiesInOrder
        <5> QED
          BY <3>2, <3>3, <4>1, <5>1, <5>2
      <4>2. CASE q # p
        BY <3>1, <4>2 DEF ChannelInv, RecipientsGetBodiesInOrder
      <4> QED
        BY <4>1, <4>2
    <3> QED
      BY <1>1, <1>2, <2>1, <3>4, <3>5, <3>6
         DEF ChannelInv, NeverSendsOnClosed, Ticketed, Numbered, InHand
  <2> QED
    BY <1>3, <2>2, <2>3 DEF Deliver
<1>4. CASE run' = [run EXCEPT !.pc = "receive", !.handled = run.body.n] /\ UNCHANGED log
  <2>1. run' \in Threads /\ run'.pc = "receive"
    BY <1>1, <1>4 DEF Threads
  <2> QED
    BY <1>1, <1>2, <1>4, <2>1
       DEF ChannelInv, ChannelTyped, NeverSendsOnClosed, Ticketed, Numbered, LogBounded,
           InHand, RecipientsGetBodiesInOrder
<1> QED
  BY <1>3, <1>4 DEF Notify

(* The channel is closed only when nobody holds the lock for reading. *)
LEMMA CloseKeeps == ChannelInv /\ Close => ChannelInv'
BY DEF ChannelInv, ChannelTyped, NeverSendsOnClosed, Ticketed, Numbered, LogBounded,
       InHand, RecipientsGetBodiesInOrder, Close, MuFree, runVars

(* A new process begins with an empty channel; what was called before has    *)
(* numbers that are not given again.                                         *)
LEMMA RestartKeepsChannel == ChannelInv /\ Restart => ChannelInv'
<1> SUFFICES ASSUME ChannelInv, Restart PROVE ChannelInv'
  OBVIOUS
<1>1. /\ ch' = <<>> /\ closed' = FALSE /\ sending' = {} /\ accepted \in Nat
      /\ run' = [Thread EXCEPT !.handled = accepted] /\ UNCHANGED <<log, accepted, sends>>
      /\ log \in [Policies -> Seq(Nat)] /\ Len(ch) \in Nat
  BY Bounds DEF Restart, ChannelInv, ChannelTyped
<1>2. run' \in Threads /\ run'.pc = "receive"
  BY <1>1 DEF Thread, Threads
<1>3. ChannelTyped'
  <2>1. ch' \in Seq(Bodies) /\ Len(ch') = 0
    BY <1>1
  <2>2. accepted \in 0..MaxSends /\ sends \in 0..MaxSends /\ closed' \in BOOLEAN
    BY <1>1 DEF ChannelInv, ChannelTyped
  <2> QED
    BY <1>1, <1>2, <2>1, <2>2, Bounds DEF ChannelTyped
<1>4. Ticketed'
  <2>1. Cardinality(sending) \in Nat
    BY FS_CardinalityType DEF ChannelInv, Ticketed
  <2> QED
    BY <1>1, <2>1, FS_EmptySet, Bounds DEF ChannelInv, Ticketed, ChannelTyped
<1>5. LogBounded'
  <2> SUFFICES ASSUME NEW p \in Policies, NEW i \in DOMAIN log[p]
               PROVE  log[p][i] <= accepted
    BY <1>1, <1>2 DEF LogBounded
  <2>1. log[p][i] \in Nat /\ log[p][i] <= accepted - Len(ch)
    BY <1>1 DEF ChannelInv, LogBounded
  <2> QED
    BY <1>1, <2>1
<1> QED
  BY <1>1, <1>2, <1>3, <1>4, <1>5
     DEF ChannelInv, NeverSendsOnClosed, Numbered, InHand, RecipientsGetBodiesInOrder

(* The other actions leave the channel and its thread alone. *)
LEMMA ChannelStep == ChannelInv /\ [Next]_vars => ChannelInv'
<1> SUFFICES ASSUME ChannelInv, [Next]_vars PROVE ChannelInv'
  OBVIOUS
<1>1. CASE UNCHANGED chSide
  BY <1>1
     DEF ChannelInv, ChannelTyped, NeverSendsOnClosed, Ticketed, Numbered, LogBounded,
         InHand, RecipientsGetBodiesInOrder, chSide
<1>2. CASE JobReport
  BY <1>2, SendKeeps DEF JobReport, Names
<1>3. CASE ExecutionReport
  BY <1>3, SendKeeps DEF ExecutionReport, Names
<1>4. ASSUME NEW p \in Policies, NEW spec \in Specs \cup {None}, WritePolicy(p, spec)
      PROVE  UNCHANGED chSide
  BY <1>4 DEF WritePolicy, chSide, chVars, runVars
<1>5. ASSUME NEW p \in Policies, ReconcilePolicy(p) PROVE UNCHANGED chSide
  BY <1>5 DEF ReconcilePolicy, chSide, chVars, runVars
<1>6. CASE Controller
  BY <1>1, <1>6 DEF Controller, AddNext, UpdatePolicyStatus, chSide, chVars, runVars
<1>7. CASE JobStart \/ JobEnd \/ Shutdown \/ StopCron
  BY <1>1, <1>7 DEF JobStart, JobEnd, Shutdown, StopCron, chSide, chVars, runVars
<1>8. CASE UNCHANGED vars
  BY <1>1, <1>8 DEF vars, chSide, chVars, runVars
<1> QED
  BY <1>1, <1>2, <1>3, <1>4, <1>5, <1>6, <1>7, <1>8, PutKeeps, ReceiveKeeps, LookupKeeps,
     NotifyKeeps, CloseKeeps, RestartKeepsChannel DEF Next

-----------------------------------------------------------------------------
(* The controller of policies and the recipients.                            *)

Elems(q) == {q[i] : i \in DOMAIN q}

(* The type of the recipient a policy with this spec is to be for s. *)
Given(spec, s) ==
    IF spec # None /\ Verdict(spec) = "Active" /\ s \in Elems(spec.schedules)
    THEN spec.type ELSE None

Working(p) == pw.pc # "idle" /\ pw.id = p

(* The worker's copy of the spec is the policy's, unless the policy is       *)
(* queued again; the recipients are those of the copy, but for the schedules *)
(* the loop still has to come to.                                            *)
WorkerInv ==
    pw.pc # "idle" =>
        /\ pw.id \in Policies /\ pw.spec \in Specs /\ pw.ready = Verdict(pw.spec)
        /\ pw.id \notin polQ => policy[pw.id] = pw.spec
        /\ Elems(pw.todo) \subseteq Elems(pw.spec.schedules)
        /\ \A s \in Names \ Elems(pw.todo) : recipients[s][pw.id] = Given(pw.spec, s)
        /\ pw.pc = "add" => pw.ready = "Active"
        /\ pw.pc = "status" => pw.todo = <<>>

(* A policy nobody has to look at has its recipients, and says so. *)
Settled(p) ==
    /\ \A s \in Names : recipients[s][p] = Given(policy[p], s)
    /\ policy[p] # None => ready[p] = Verdict(policy[p])

PolicyInv ==
    /\ PolicyTyped /\ WorkerInv
    /\ \A p \in Policies : p \notin polQ /\ ~Working(p) => Settled(p)

(* Nothing is left of an empty list; of another, its head goes first. *)
LEMMA ElemsFacts ==
    ASSUME NEW S, NEW q \in Seq(S)
    PROVE  /\ q = <<>> => Elems(q) = {}
           /\ q # <<>> => Elems(q) = {Head(q)} \cup Elems(Tail(q)) /\ Head(q) \in S
           /\ Elems(q) \subseteq S
<1>1. q = <<>> => Elems(q) = {}
  BY DEF Elems
<1>2. Elems(q) \subseteq S
  BY DEF Elems
<1>3. ASSUME q # <<>> PROVE Elems(q) = {Head(q)} \cup Elems(Tail(q))
  <2>1. /\ Len(q) \in Nat \ {0} /\ DOMAIN q = 1..Len(q)
        /\ DOMAIN Tail(q) = 1..(Len(q) - 1)
        /\ \A i \in 1..(Len(q) - 1) : Tail(q)[i] = q[i + 1]
        /\ Head(q) = q[1]
    BY <1>3, TailFacts
  <2>2. ASSUME NEW x \in Elems(q) PROVE x = Head(q) \/ x \in Elems(Tail(q))
    <3>1. PICK i \in 1..Len(q) : x = q[i]
      BY <2>1 DEF Elems
    <3>2. CASE i = 1
      BY <2>1, <3>1, <3>2
    <3>3. CASE i # 1
      <4>1. i - 1 \in 1..(Len(q) - 1) /\ Tail(q)[i - 1] = q[i]
        BY <2>1, <3>3
      <4> QED
        BY <2>1, <3>1, <4>1 DEF Elems
    <3> QED
      BY <3>2, <3>3
  <2>3. Head(q) \in Elems(q)
    BY <2>1 DEF Elems
  <2>4. ASSUME NEW x \in Elems(Tail(q)) PROVE x \in Elems(q)
    <3>1. PICK i \in 1..(Len(q) - 1) : x = Tail(q)[i]
      BY <2>1 DEF Elems
    <3>2. i + 1 \in 1..Len(q) /\ x = q[i + 1]
      BY <2>1, <3>1
    <3> QED
      BY <2>1, <3>2 DEF Elems
  <2> QED
    BY <2>2, <2>3, <2>4
<1>4. q # <<>> => Head(q) \in S
  BY TailFacts
<1> QED
  BY <1>1, <1>2, <1>3, <1>4

(* The parts of a spec and what the controller makes of it. *)
LEMMA SpecFacts ==
    ASSUME NEW spec \in Specs
    PROVE  /\ spec # None /\ spec.type \in Types /\ spec.schedules \in Seq(Schedules)
           /\ Verdict(spec) \in Reasons
BY NotificationAssumption DEF PolicySpec, Verdict, Reasons

(* What RemoveRecipient leaves, pair by pair. *)
LEMMA RemoveEffect ==
    ASSUME NEW p \in Policies, PolicyTyped, RemoveRecipient(p)
    PROVE  /\ recipients' \in [Names -> [Policies -> Types \cup {None}]]
           /\ gauge' \in [Types \X Names -> Int]
           /\ \A s \in Names : recipients'[s][p] = None
           /\ \A s \in Names, q \in Policies \ {p} : recipients'[s][q] = recipients[s][q]
           /\ \A t \in Types, s \in Names :
                 gauge'[<<t, s>>] = IF recipients[s][p] = t THEN gauge[<<t, s>>] - 1
                                                           ELSE gauge[<<t, s>>]
<1> USE DEF PolicyTyped, RemoveRecipient
<1>1. recipients' \in [Names -> [Policies -> Types \cup {None}]]
  OBVIOUS
<1>2. \A s \in Names : recipients'[s][p] = None
  OBVIOUS
<1>3. \A s \in Names, q \in Policies \ {p} : recipients'[s][q] = recipients[s][q]
  OBVIOUS
<1>4. gauge' \in [Types \X Names -> Int]
  OBVIOUS
<1>5. \A t \in Types, s \in Names :
         gauge'[<<t, s>>] = IF recipients[s][p] = t THEN gauge[<<t, s>>] - 1
                                                   ELSE gauge[<<t, s>>]
  OBVIOUS
<1> QED
  BY <1>1, <1>2, <1>3, <1>4, <1>5

(* AddRecipientToSchedule changes one pair, *)
LEMMA AddEffect ==
    ASSUME NEW s \in Names, NEW p \in Policies, NEW type \in Types, PolicyTyped,
           AddRecipientToSchedule(s, p, type)
    PROVE  \A z \in Names, q \in Policies :
              recipients'[z][q] = IF z = s /\ q = p THEN type ELSE recipients[z][q]
BY DEF PolicyTyped, AddRecipientToSchedule

(* and no type. *)
LEMMA AddTyped ==
    ASSUME NEW s \in Names, NEW p \in Policies, NEW type \in Types, PolicyTyped,
           AddRecipientToSchedule(s, p, type)
    PROVE  /\ recipients' \in [Names -> [Policies -> Types \cup {None}]]
           /\ gauge' \in [Types \X Names -> Int]
BY DEF PolicyTyped, AddRecipientToSchedule

(* At the start every policy that exists is queued, and there are no        *)
(* recipients.                                                               *)
LEMMA PolicyStart ==
    ASSUME policy \in [Policies -> Specs \cup {None}], ready \in [Policies -> Reasons],
           edits \in 0..MaxEdits, faults \in 0..MaxFaults,
           polQ = Existing, pw = PIdle, recipients = NoRecipients, gauge = ZeroGauge
    PROVE  PolicyInv
<1>1. PIdle \in PWorkers /\ PIdle.pc = "idle"
  BY DEF PIdle, PWorkers, Reasons
<1>2. PolicyTyped
  BY <1>1 DEF PolicyTyped, Existing, NoRecipients, ZeroGauge
<1>3. WorkerInv
  BY <1>1 DEF WorkerInv
<1>4. ASSUME NEW p \in Policies, p \notin polQ PROVE Settled(p)
  BY <1>4 DEF Settled, Existing, NoRecipients, Given
<1> QED
  BY <1>2, <1>3, <1>4 DEF PolicyInv

(* At the start every policy is queued, and nobody is a recipient. *)
LEMMA PolicyInit == Init => PolicyInv
<1> SUFFICES ASSUME Init PROVE PolicyInv
  OBVIOUS
<1>1. ready \in [Policies -> Reasons] /\ edits \in 0..MaxEdits /\ faults \in 0..MaxFaults
  BY Bounds DEF Init, Reasons
<1> QED
  BY <1>1, PolicyStart DEF Init

(* After a restart it is the same. *)
LEMMA RestartKeepsPolicies == PolicyInv /\ Restart => PolicyInv'
<1> SUFFICES ASSUME PolicyInv, Restart PROVE PolicyInv'
  OBVIOUS
<1>1. /\ UNCHANGED <<policy, ready, edits, faults>>
      /\ polQ' = Existing /\ pw' = PIdle /\ recipients' = NoRecipients /\ gauge' = ZeroGauge
  BY DEF Restart
<1>2. PIdle \in PWorkers /\ PIdle.pc = "idle"
  BY DEF PIdle, PWorkers, Reasons
<1>3. PolicyTyped'
  BY <1>1, <1>2 DEF PolicyInv, PolicyTyped, Existing, NoRecipients, ZeroGauge
<1>4. WorkerInv'
  BY <1>1, <1>2 DEF WorkerInv
<1>5. ASSUME NEW p \in Policies, p \notin polQ' PROVE Settled(p)'
  BY <1>1, <1>5 DEF Settled, Existing, NoRecipients, Given
<1> QED
  BY <1>3, <1>4, <1>5 DEF PolicyInv

(* An edit queues its policy. *)
LEMMA WriteKeeps ==
    ASSUME NEW p \in Policies, NEW spec \in Specs \cup {None}, PolicyInv, WritePolicy(p, spec)
    PROVE  PolicyInv'
<1>1. /\ policy' = [policy EXCEPT ![p] = spec] /\ polQ' = polQ \cup {p}
      /\ ready' = IF spec = None THEN [ready EXCEPT ![p] = "none"] ELSE ready
      /\ edits < MaxEdits /\ edits' = edits + 1 /\ UNCHANGED <<pw, faults, recipients, gauge>>
  BY DEF WritePolicy, regVars
<1>2. /\ policy \in [Policies -> Specs \cup {None}] /\ ready \in [Policies -> Reasons]
      /\ edits \in 0..MaxEdits
  BY DEF PolicyInv, PolicyTyped
<1>3. ready' \in [Policies -> Reasons] /\ edits' \in 0..MaxEdits
  BY <1>1, <1>2, Bounds DEF Reasons
<1>4. PolicyTyped'
  BY <1>1, <1>2, <1>3 DEF PolicyInv, PolicyTyped
<1>5. \A q \in Policies \ {p} : policy'[q] = policy[q] /\ ready'[q] = ready[q]
  BY <1>1, <1>2
<1>6. WorkerInv'
  BY <1>1, <1>5 DEF PolicyInv, WorkerInv
<1>7. ASSUME NEW q \in Policies, q \notin polQ', ~Working(q)' PROVE Settled(q)'
  <2>1. q # p /\ q \notin polQ /\ ~Working(q)
    BY <1>1, <1>7 DEF Working
  <2> QED
    BY <1>1, <1>5, <2>1 DEF PolicyInv, Settled
<1> QED
  BY <1>4, <1>6, <1>7 DEF PolicyInv

(* The reconcile of a policy removes it everywhere and reads its spec. *)
LEMMA ReconcileKeeps ==
    ASSUME NEW p \in Policies, PolicyInv, ReconcilePolicy(p)
    PROVE  PolicyInv'
<1>1. /\ pw.pc = "idle" /\ polQ' = polQ \ {p} /\ RemoveRecipient(p)
      /\ UNCHANGED <<policy, ready, edits, faults>>
  BY DEF ReconcilePolicy
<1>2. /\ recipients' \in [Names -> [Policies -> Types \cup {None}]]
      /\ gauge' \in [Types \X Names -> Int]
      /\ \A s \in Names : recipients'[s][p] = None
      /\ \A s \in Names, q \in Policies \ {p} : recipients'[s][q] = recipients[s][q]
  BY <1>1, RemoveEffect DEF PolicyInv
<1>3. ASSUME NEW q \in Policies \ {p}, q \notin polQ' PROVE Settled(q)'
  BY <1>1, <1>2, <1>3 DEF PolicyInv, Settled, Working
<1>4. CASE policy[p] = None
  <2>1. pw' \in PWorkers /\ pw'.pc = "idle"
    BY <1>4 DEF ReconcilePolicy, PIdle, PWorkers, Reasons
  <2>2. PolicyTyped'
    BY <1>1, <1>2, <2>1 DEF PolicyInv, PolicyTyped
  <2>3. Settled(p)'
    BY <1>1, <1>2, <1>4 DEF Settled, Given
  <2> QED
    BY <1>3, <2>1, <2>2, <2>3 DEF PolicyInv, WorkerInv
<1>5. CASE policy[p] # None
  <2> DEFINE spec == policy[p]
  <2>1. spec \in Specs
    BY <1>5 DEF PolicyInv, PolicyTyped
  <2>2. spec.schedules \in Seq(Schedules) /\ Verdict(spec) \in Reasons
    BY <2>1, SpecFacts
  <2>3. pw' = [pc |-> IF Verdict(spec) = "Active" THEN "add" ELSE "status",
               id |-> p, spec |-> spec,
               todo |-> IF Verdict(spec) = "Active" THEN spec.schedules ELSE <<>>,
               ready |-> Verdict(spec)]
    BY <1>5 DEF ReconcilePolicy
  <2> HIDE DEF spec
  <2>4. /\ pw'.id = p /\ pw'.spec = spec /\ pw'.ready = Verdict(spec)
        /\ pw'.pc = IF Verdict(spec) = "Active" THEN "add" ELSE "status"
        /\ pw'.todo = IF Verdict(spec) = "Active" THEN spec.schedules ELSE <<>>
    BY <2>3
  <2>5. pw' \in PWorkers
    <3>1. (IF Verdict(spec) = "Active" THEN spec.schedules ELSE <<>>) \in Seq(Schedules)
      BY <2>2
    <3> QED
      BY <2>1, <2>2, <2>3, <3>1 DEF PWorkers
  <2>6. PolicyTyped'
    BY <1>1, <1>2, <2>5 DEF PolicyInv, PolicyTyped
  <2>7. policy'[p] = spec
    BY <1>1 DEF spec
  <2>8. WorkerInv'
    <3>1. Elems(pw'.todo) \subseteq Elems(spec.schedules)
      <4>1. Elems(<<>>) = {}
        BY DEF Elems
      <4> QED
        BY <2>4, <4>1
    <3>2. \A s \in Names \ Elems(pw'.todo) : recipients'[s][p] = Given(spec, s)
      BY <1>2, <2>4 DEF Given
    <3>3. WorkerInv' <=>
             (pw'.pc # "idle" =>
                /\ pw'.id \in Policies /\ pw'.spec \in Specs /\ pw'.ready = Verdict(pw'.spec)
                /\ pw'.id \notin polQ' => policy'[pw'.id] = pw'.spec
                /\ Elems(pw'.todo) \subseteq Elems(pw'.spec.schedules)
                /\ \A s \in Names \ Elems(pw'.todo) : recipients'[s][pw'.id] = Given(pw'.spec, s)
                /\ pw'.pc = "add" => pw'.ready = "Active"
                /\ pw'.pc = "status" => pw'.todo = <<>>)
      BY Zenon DEF WorkerInv, Elems, Given, Verdict
    <3> QED
      BY <2>1, <2>4, <2>7, <3>1, <3>2, <3>3
  <2>9. Working(p)'
    BY <2>4 DEF Working
  <2> QED
    BY <1>3, <2>6, <2>8, <2>9 DEF PolicyInv
<1> QED
  BY <1>4, <1>5

(* A turn of the loop: the schedule it comes to gets the recipient.  A      *)
(* schedule the spec lists twice gets it again, which changes nothing.      *)
LEMMA AddKeeps ==
    ASSUME PolicyInv, AddNext
    PROVE  PolicyInv'
<1>1. /\ pw.pc = "add" /\ UNCHANGED <<policy, ready, polQ, edits, faults>>
      /\ pw \in PWorkers /\ PolicyTyped /\ WorkerInv
  BY DEF AddNext, PolicyInv, PolicyTyped
<1>2. /\ pw.id \in Policies /\ pw.spec \in Specs /\ pw.ready = Verdict(pw.spec)
      /\ pw.id \notin polQ => policy[pw.id] = pw.spec
      /\ Elems(pw.todo) \subseteq Elems(pw.spec.schedules)
      /\ \A s \in Names \ Elems(pw.todo) : recipients[s][pw.id] = Given(pw.spec, s)
      /\ pw.ready = "Active"
  BY <1>1 DEF WorkerInv
<1>3. pw.todo \in Seq(Schedules) /\ pw.spec.type \in Types /\ pw.spec # None
  BY <1>1, <1>2, SpecFacts DEF PWorkers
<1>4. CASE /\ pw.todo # <<>>
           /\ AddRecipientToSchedule(Head(pw.todo), pw.id, pw.spec.type)
           /\ pw' = [pw EXCEPT !.todo = Tail(@)]
  <2> PICK s : s = Head(pw.todo)
    OBVIOUS
  <2>1. /\ s \in Schedules /\ Elems(pw.todo) = {s} \cup Elems(Tail(pw.todo))
        /\ Tail(pw.todo) \in Seq(Schedules)
    BY <1>3, <1>4, ElemsFacts, TailFacts
  <2>2. s \in Names
    BY <2>1 DEF Names
  <2>3. /\ recipients' \in [Names -> [Policies -> Types \cup {None}]]
        /\ gauge' \in [Types \X Names -> Int]
        /\ \A z \in Names, q \in Policies :
              recipients'[z][q] = IF z = s /\ q = pw.id THEN pw.spec.type
                                                       ELSE recipients[z][q]
    <3>1. AddRecipientToSchedule(s, pw.id, pw.spec.type)
      BY <1>4
    <3>2. PICK p \in Policies, type \in Types : p = pw.id /\ type = pw.spec.type
      BY <1>2, <1>3
    <3>3. AddRecipientToSchedule(s, p, type)
      BY <3>1, <3>2
    <3>4. /\ recipients' \in [Names -> [Policies -> Types \cup {None}]]
          /\ gauge' \in [Types \X Names -> Int]
      BY <1>1, <2>2, <3>3, AddTyped
    <3>5. \A z \in Names, q \in Policies :
             recipients'[z][q] = IF z = s /\ q = p THEN type ELSE recipients[z][q]
      BY <1>1, <2>2, <3>3, AddEffect
    <3> QED
      BY <3>2, <3>4, <3>5
  <2>4. /\ pw' \in PWorkers /\ pw'.pc = "add" /\ pw'.id = pw.id /\ pw'.spec = pw.spec
        /\ pw'.ready = pw.ready /\ pw'.todo = Tail(pw.todo)
    BY <1>1, <1>4, <2>1 DEF PWorkers
  <2>5. PolicyTyped'
    BY <1>1, <2>3, <2>4 DEF PolicyTyped
  <2>6. ASSUME NEW z \in Names \ Elems(Tail(pw.todo))
        PROVE  recipients'[z][pw.id] = Given(pw.spec, z)
    <3>1. CASE z = s
      BY <1>2, <1>3, <2>1, <2>3, <3>1 DEF Given
    <3>2. CASE z # s
      BY <1>2, <2>1, <2>3, <3>2
    <3> QED
      BY <3>1, <3>2
  <2>7. WorkerInv'
    <3>1. Elems(Tail(pw.todo)) \subseteq Elems(pw.spec.schedules)
      BY <1>2, <2>1
    <3> QED
      BY <1>1, <1>2, <2>4, <2>6, <3>1 DEF WorkerInv
  <2>8. ASSUME NEW q \in Policies, q \notin polQ', ~Working(q)' PROVE Settled(q)'
    <3>1. q \notin polQ /\ ~Working(q) /\ q # pw.id
      BY <1>1, <2>4, <2>8 DEF Working
    <3> QED
      BY <1>1, <2>3, <3>1 DEF PolicyInv, Settled
  <2> QED
    BY <2>5, <2>7, <2>8 DEF PolicyInv
<1>5. CASE pw.todo = <<>> /\ pw' = [pw EXCEPT !.pc = "status"] /\ UNCHANGED regVars
  <2>1. /\ pw' \in PWorkers /\ pw'.pc = "status" /\ pw'.id = pw.id /\ pw'.spec = pw.spec
        /\ pw'.ready = pw.ready /\ pw'.todo = pw.todo /\ UNCHANGED <<recipients, gauge>>
        /\ pw.todo = <<>>
    BY <1>1, <1>5 DEF PWorkers, regVars
  <2>2. PolicyTyped'
    BY <1>1, <2>1 DEF PolicyTyped
  <2>3. WorkerInv'
    BY <1>1, <1>2, <2>1 DEF WorkerInv
  <2> QED
    BY <1>1, <2>1, <2>2, <2>3 DEF PolicyInv, Working, Settled
<1> QED
  BY <1>4, <1>5 DEF AddNext

(* The reconcile ends with its policy settled, or queued again. *)
LEMMA StatusKeeps ==
    ASSUME PolicyInv, UpdatePolicyStatus
    PROVE  PolicyInv'
<1> PICK id : id = pw.id
  OBVIOUS
<1>1. /\ pw.pc = "status" /\ pw' = PIdle /\ UNCHANGED <<policy, edits, recipients, gauge>>
      /\ PolicyTyped /\ WorkerInv
  BY DEF UpdatePolicyStatus, regVars, PolicyInv
<1>2. /\ id \in Policies /\ pw.ready = Verdict(pw.spec)
      /\ id \notin polQ => policy[id] = pw.spec
      /\ \A s \in Names \ Elems(pw.todo) : recipients[s][id] = Given(pw.spec, s)
      /\ pw.todo = <<>> /\ pw.ready \in Reasons
  BY <1>1 DEF WorkerInv, PolicyTyped, PWorkers
<1>3. \A s \in Names : recipients[s][id] = Given(pw.spec, s)
  <2>1. Elems(<<>>) = {}
    BY DEF Elems
  <2> QED
    BY <1>2, <2>1
<1>4. pw' \in PWorkers /\ pw'.pc = "idle"
  BY <1>1 DEF PIdle, PWorkers, Reasons
<1>5. WorkerInv'
  BY <1>4 DEF WorkerInv
<1>6. CASE id \notin polQ /\ ready' = [ready EXCEPT ![id] = pw.ready] /\ UNCHANGED <<polQ, faults>>
  <2>1. /\ ready' \in [Policies -> Reasons] /\ ready'[id] = pw.ready
        /\ \A q \in Policies \ {id} : ready'[q] = ready[q]
    BY <1>1, <1>2, <1>6 DEF PolicyTyped
  <2>2. PolicyTyped'
    BY <1>1, <1>4, <1>6, <2>1 DEF PolicyTyped
  <2>3. Settled(id)'
    <3>1. policy'[id] = pw.spec
      BY <1>1, <1>2, <1>6
    <3> QED
      BY <1>1, <1>2, <1>3, <2>1, <3>1 DEF Settled
  <2>4. ASSUME NEW q \in Policies \ {id}, q \notin polQ' PROVE Settled(q)'
    <3>1. Settled(q)
      BY <1>6, <2>4 DEF PolicyInv, Working
    <3> QED
      BY <1>1, <2>1, <3>1 DEF Settled
  <2> QED
    BY <1>5, <2>2, <2>3, <2>4 DEF PolicyInv
<1>7. CASE /\ UNCHANGED ready /\ polQ' = polQ \cup {id}
           /\ faults' \in 0..MaxFaults
  <2>1. PolicyTyped'
    BY <1>1, <1>2, <1>4, <1>7 DEF PolicyTyped
  <2>2. ASSUME NEW q \in Policies, q \notin polQ' PROVE Settled(q)'
    <3>1. Settled(q)
      BY <1>7, <2>2 DEF PolicyInv, Working
    <3> QED
      BY <1>1, <1>7, <3>1 DEF Settled
  <2> QED
    BY <1>5, <2>1, <2>2 DEF PolicyInv
<1>8. CASE id \in polQ /\ UNCHANGED <<ready, polQ, faults>>
  <2>1. polQ' = polQ \cup {id} /\ faults' \in 0..MaxFaults
    BY <1>1, <1>8 DEF PolicyTyped
  <2> QED
    BY <1>7, <1>8, <2>1
<1>9. CASE faults < MaxFaults /\ faults' = faults + 1 /\ polQ' = polQ \cup {id} /\ UNCHANGED ready
  <2>1. faults' \in 0..MaxFaults
    BY <1>1, <1>9, Bounds DEF PolicyTyped
  <2> QED
    BY <1>7, <1>9, <2>1
<1> QED
  BY <1>6, <1>8, <1>9 DEF UpdatePolicyStatus

(* The other actions leave policies and recipients alone. *)
LEMMA PolicyStep == PolicyInv /\ [Next]_vars => PolicyInv'
<1> SUFFICES ASSUME PolicyInv, [Next]_vars PROVE PolicyInv'
  OBVIOUS
<1>1. CASE UNCHANGED polSide
  BY <1>1 DEF PolicyInv, PolicyTyped, WorkerInv, Settled, Working, polSide
<1>2. CASE JobReport \/ ExecutionReport
  BY <1>1, <1>2 DEF JobReport, ExecutionReport, Send, polSide, polVars, regVars
<1>3. ASSUME NEW x \in sending, Put(x) PROVE UNCHANGED polSide
  BY <1>3 DEF Put, polSide, polVars, regVars
<1>4. CASE Receive \/ Lookup \/ Notify
  BY <1>1, <1>4 DEF Receive, Lookup, Notify, polSide, polVars, regVars
<1>5. CASE JobStart \/ JobEnd \/ Shutdown \/ Close \/ StopCron
  BY <1>1, <1>5 DEF JobStart, JobEnd, Shutdown, Close, StopCron, polSide, polVars, regVars
<1>6. CASE UNCHANGED vars
  BY <1>1, <1>6 DEF vars, polSide, polVars, regVars
<1> QED
  BY <1>1, <1>2, <1>3, <1>4, <1>5, <1>6, WriteKeeps, ReconcileKeeps, AddKeeps, StatusKeeps,
     RestartKeepsPolicies DEF Next, Controller

(* The cron, the shutdown and the bounds keep their types. *)
LEMMA RestStep == RestTyped /\ [Next]_vars => RestTyped'
<1> SUFFICES ASSUME RestTyped, [Next]_vars PROVE RestTyped'
  OBVIOUS
<1> USE Bounds DEF RestTyped
<1>1. CASE UNCHANGED <<ctxDone, cron, jobs, shutdowns, restarts>>
  BY <1>1
<1>2. CASE JobReport \/ ExecutionReport
  BY <1>2 DEF JobReport, ExecutionReport, Send
<1>3. ASSUME NEW x \in sending, Put(x)
      PROVE  UNCHANGED <<ctxDone, cron, jobs, shutdowns, restarts>>
  BY <1>3 DEF Put, cronVars
<1>4. CASE Receive \/ Lookup \/ Notify \/ Close
  BY <1>1, <1>4 DEF Receive, Lookup, Notify, Close, cronVars
<1>5. CASE JobStart \/ JobEnd
  BY <1>5 DEF JobStart, JobEnd
<1>6. CASE Shutdown
  BY <1>6 DEF Shutdown
<1>12. CASE StopCron
  BY <1>12 DEF StopCron
<1>7. ASSUME NEW p \in Policies, NEW spec \in Specs \cup {None}, WritePolicy(p, spec)
      PROVE  UNCHANGED <<ctxDone, cron, jobs, shutdowns, restarts>>
  BY <1>7 DEF WritePolicy, cronVars
<1>8. ASSUME NEW p \in Policies, ReconcilePolicy(p)
      PROVE  UNCHANGED <<ctxDone, cron, jobs, shutdowns, restarts>>
  BY <1>8 DEF ReconcilePolicy, cronVars
<1>9. CASE Controller
  BY <1>1, <1>9 DEF Controller, AddNext, UpdatePolicyStatus, cronVars
<1>10. CASE Restart
  <2>1. /\ restarts < MaxRestarts /\ restarts' = restarts + 1 /\ ctxDone' = FALSE
        /\ cron' = "running" /\ jobs' = 0 /\ UNCHANGED shutdowns
    BY <1>10 DEF Restart
  <2>2. ctxDone' \in BOOLEAN
    BY <2>1
  <2>3. jobs' \in 0..MaxJobs /\ restarts' \in 0..MaxRestarts /\ shutdowns' \in 0..MaxShutdowns
    BY <2>1
  <2> QED
    BY <2>1, <2>2, <2>3, Zenon
<1>11. CASE UNCHANGED vars
  BY <1>1, <1>11 DEF vars, cronVars
<1> QED
  BY <1>1, <1>2, <1>3, <1>4, <1>5, <1>6, <1>7, <1>8, <1>9, <1>10, <1>11, <1>12 DEF Next

-----------------------------------------------------------------------------
(* The invariant, and what follows from it.                                  *)

NotificationInv == ChannelInv /\ PolicyInv /\ RestTyped

(* Every reachable state has the channel's and the controller's invariant.   *)
THEOREM NotificationInvAlways == Spec => []NotificationInv
<1>1. Init => RestTyped
  <2> SUFFICES ASSUME Init PROVE RestTyped
    OBVIOUS
  <2>1. ctxDone = FALSE /\ cron = "running" /\ jobs = 0 /\ restarts = 0 /\ shutdowns = 0
    BY DEF Init
  <2>2. ctxDone \in BOOLEAN
    BY <2>1
  <2>3. jobs \in 0..MaxJobs /\ restarts \in 0..MaxRestarts /\ shutdowns \in 0..MaxShutdowns
    BY <2>1, Bounds
  <2> QED
    BY <2>1, <2>2, <2>3, Zenon DEF RestTyped
<1>2. Init => NotificationInv
  BY <1>1, ChannelInit, PolicyInit DEF NotificationInv
<1>3. NotificationInv /\ [Next]_vars => NotificationInv'
  BY ChannelStep, PolicyStep, RestStep DEF NotificationInv
<1> QED
  BY <1>2, <1>3, PTL DEF Spec

(* The types of the service's and the controller's state; the channel never  *)
(* holds more than it was made for (service.go:37).                          *)
THEOREM NotificationTypeCorrect == Spec => []TypeOK
<1>1. NotificationInv => TypeOK
  BY TypeParts DEF NotificationInv, ChannelInv, PolicyInv
<1> QED
  BY <1>1, NotificationInvAlways, PTL

(* No Send is on its way to a channel that was closed, however many of them   *)
(* were between their look at closed and their send (service.go:79-93).       *)
THEOREM ClosedIsLeftAlone == Spec => []NeverSendsOnClosed
<1>1. NotificationInv => NeverSendsOnClosed
  BY DEF NotificationInv, ChannelInv
<1> QED
  BY <1>1, NotificationInvAlways, PTL

(* Every recipient gets its bodies in the order they were accepted and none   *)
(* of them twice, over failed calls and restarts (service.go:95-125).         *)
THEOREM BodiesInOrder == Spec => []RecipientsGetBodiesInOrder
<1>1. NotificationInv => RecipientsGetBodiesInOrder
  BY DEF NotificationInv, ChannelInv
<1> QED
  BY <1>1, NotificationInvAlways, PTL

(* A policy that is neither queued nor in work is a recipient of exactly the  *)
(* schedules it lists, and its Ready condition says what became of it         *)
(* (notificationpolicy_controller.go:90-187).                                 *)
THEOREM RecipientsFollowPolicies == Spec => []RecipientsMatchPolicies
<1>1. NotificationInv => RecipientsMatchPolicies
  <2> SUFFICES ASSUME NotificationInv, NEW p \in Policies, Quiet(p)
               PROVE  /\ \A s \in Names :
                            recipients[s][p] = IF Wants(p, s) THEN policy[p].type ELSE None
                      /\ policy[p] # None => ready[p] = Verdict(policy[p])
    BY DEF RecipientsMatchPolicies
  <2>1. Settled(p)
    BY DEF NotificationInv, PolicyInv, Quiet, Working
  <2>2. ASSUME NEW s \in Names
        PROVE  (IF Wants(p, s) THEN policy[p].type ELSE None) = Given(policy[p], s)
    BY DEF Wants, Given, Elems
  <2> QED
    BY <2>1, <2>2 DEF Settled
<1> QED
  BY <1>1, NotificationInvAlways, PTL

-----------------------------------------------------------------------------
(* The gauge.                                                                *)

(* What the loop has added for its policy is of the type of its spec: the    *)
(* recipients of an earlier one were removed before.                         *)
OwnType ==
    pw.pc = "add" => \A s \in Names : recipients[s][pw.id] \in {None, pw.spec.type}

RecipientsOf(s, t) == {p \in Policies : recipients[s][p] = t}

(* What a step does to the gauge, and to OwnType. *)
Drifts ==
    /\ OwnType'
    /\ \A t \in Types, s \in Names :
          Surplus(t, s)' = Surplus(t, s) + IF ListedAgain(t, s) THEN 1 ELSE 0

(* Some of finitely many policies are finitely many. *)
LEMMA RecipientsFinite ==
    ASSUME NEW s, NEW t
    PROVE  IsFiniteSet(RecipientsOf(s, t)) /\ Cardinality(RecipientsOf(s, t)) \in Nat
<1>1. RecipientsOf(s, t) \in SUBSET Policies
  BY DEF RecipientsOf
<1> QED
  BY <1>1, FS_Subset, FS_CardinalityType, NotificationAssumption

(* The surplus in terms of that set. *)
LEMMA SurplusIs ==
    ASSUME PolicyTyped, NEW t \in Types, NEW s \in Names
    PROVE  /\ Surplus(t, s) = gauge[<<t, s>>] - Cardinality(RecipientsOf(s, t))
           /\ gauge[<<t, s>>] \in Int
           /\ Surplus(t, s) \in Int
<1>1. gauge[<<t, s>>] \in Int
  BY DEF PolicyTyped
<1>2. Surplus(t, s) = gauge[<<t, s>>] - Cardinality(RecipientsOf(s, t))
  BY DEF Surplus, RecipientsOf
<1> QED
  BY <1>1, <1>2, RecipientsFinite

(* RemoveRecipient counts a recipient off exactly where it was one. *)
LEMMA ReconcileCounts ==
    ASSUME NEW p \in Policies, PolicyInv, ReconcilePolicy(p)
    PROVE  Drifts
<1>1. PolicyTyped /\ RemoveRecipient(p) /\ pw.pc = "idle"
  BY DEF PolicyInv, ReconcilePolicy
<1>2. /\ \A s \in Names : recipients'[s][p] = None
      /\ \A s \in Names, q \in Policies \ {p} : recipients'[s][q] = recipients[s][q]
      /\ \A t \in Types, s \in Names :
            gauge'[<<t, s>>] = IF recipients[s][p] = t THEN gauge[<<t, s>>] - 1
                                                      ELSE gauge[<<t, s>>]
  BY <1>1, RemoveEffect
<1>3. ASSUME NEW t \in Types, NEW s \in Names
      PROVE  Surplus(t, s)' = Surplus(t, s) + IF ListedAgain(t, s) THEN 1 ELSE 0
  <2>1. RecipientsOf(s, t)' = RecipientsOf(s, t) \ {p}
    BY <1>2, NotificationAssumption DEF RecipientsOf
  <2>2. Cardinality(RecipientsOf(s, t) \ {p}) =
           IF p \in RecipientsOf(s, t) THEN Cardinality(RecipientsOf(s, t)) - 1
                                       ELSE Cardinality(RecipientsOf(s, t))
    BY RecipientsFinite, FS_RemoveElement
  <2>3. p \in RecipientsOf(s, t) <=> recipients[s][p] = t
    BY DEF RecipientsOf
  <2>4. ~ListedAgain(t, s)
    BY <1>1 DEF ListedAgain
  <2>5. Surplus(t, s)' = gauge'[<<t, s>>] - Cardinality(RecipientsOf(s, t) \ {p})
    BY <2>1 DEF Surplus, RecipientsOf
  <2>6. /\ Surplus(t, s) = gauge[<<t, s>>] - Cardinality(RecipientsOf(s, t))
        /\ gauge[<<t, s>>] \in Int /\ Surplus(t, s) \in Int
        /\ Cardinality(RecipientsOf(s, t)) \in Nat
    BY <1>1, SurplusIs, RecipientsFinite
  <2>7. gauge'[<<t, s>>] = IF p \in RecipientsOf(s, t) THEN gauge[<<t, s>>] - 1
                                                     ELSE gauge[<<t, s>>]
    BY <1>2, <2>3
  <2> QED
    BY <2>2, <2>4, <2>5, <2>6, <2>7
<1>4. OwnType'
  <2>1. pw'.pc = "add" => pw'.id = p
    BY DEF ReconcilePolicy, PIdle
  <2> QED
    BY <1>2, <2>1 DEF OwnType
<1> QED
  BY <1>3, <1>4 DEF Drifts

(* AddRecipientToSchedule counts one recipient, there already or not. *)
LEMMA AddCounts ==
    ASSUME PolicyInv, OwnType, AddNext
    PROVE  Drifts
<1>1. /\ pw.pc = "add" /\ pw \in PWorkers /\ PolicyTyped
      /\ pw.id \in Policies /\ pw.spec \in Specs
  BY DEF AddNext, PolicyInv, PolicyTyped, WorkerInv
<1>2. /\ pw.todo \in Seq(Schedules) /\ pw.spec.type \in Types
      /\ \A s \in Names : recipients[s][pw.id] \in {None, pw.spec.type}
  BY <1>1, SpecFacts DEF PWorkers, OwnType
<1>3. CASE /\ pw.todo # <<>>
           /\ AddRecipientToSchedule(Head(pw.todo), pw.id, pw.spec.type)
           /\ pw' = [pw EXCEPT !.todo = Tail(@)]
  <2> PICK s, p, type : s = Head(pw.todo) /\ p = pw.id /\ type = pw.spec.type
    OBVIOUS
  <2>1. /\ s \in Names /\ p \in Policies /\ type \in Types
        /\ AddRecipientToSchedule(s, p, type)
    BY <1>1, <1>2, <1>3, TailFacts DEF Names
  <2>2. pw' # pw /\ pw'.id = p /\ pw'.spec = pw.spec
    <3>1. Tail(pw.todo) # pw.todo
      <4>1. Len(Tail(pw.todo)) = Len(pw.todo) - 1 /\ Len(pw.todo) \in Nat
        BY <1>2, <1>3, TailFacts
      <4>2. Len(Tail(pw.todo)) # Len(pw.todo)
        BY <4>1
      <4> QED
        BY <4>2, Zenon
    <3> QED
      BY <1>1, <1>3, <3>1 DEF PWorkers
  <2>3. \A z \in Names, q \in Policies :
           recipients'[z][q] = IF z = s /\ q = p THEN type ELSE recipients[z][q]
    BY <1>1, <2>1, AddEffect
  <2>4. \A t \in Types, z \in Names :
           gauge'[<<t, z>>] = IF t = type /\ z = s THEN gauge[<<t, z>>] + 1
                                                  ELSE gauge[<<t, z>>]
    BY <1>1, <2>1 DEF PolicyTyped, AddRecipientToSchedule
  <2>5. recipients[s][p] \in {None, type} /\ type # None
    BY <1>2, <2>1, NotificationAssumption
  <2>6. ASSUME NEW t \in Types, NEW z \in Names
        PROVE  Surplus(t, z)' = Surplus(t, z) + IF ListedAgain(t, z) THEN 1 ELSE 0
    <3>0. /\ Surplus(t, z) = gauge[<<t, z>>] - Cardinality(RecipientsOf(z, t))
          /\ gauge[<<t, z>>] \in Int /\ Surplus(t, z) \in Int
          /\ Cardinality(RecipientsOf(z, t)) \in Nat
      BY <1>1, SurplusIs, RecipientsFinite
    <3>1. ListedAgain(t, z) <=> t = type /\ z = s /\ recipients[s][p] # None
      BY <1>1, <1>3, <2>2 DEF ListedAgain
    <3>2. p \in RecipientsOf(s, type) <=> recipients[s][p] # None
      BY <2>1, <2>5 DEF RecipientsOf
    <3>3. CASE t = type /\ z = s
      <4>1. RecipientsOf(z, t)' = RecipientsOf(z, t) \cup {p}
        BY <2>1, <2>3, <3>3 DEF RecipientsOf
      <4>2. Cardinality(RecipientsOf(z, t) \cup {p}) =
               IF p \in RecipientsOf(z, t) THEN Cardinality(RecipientsOf(z, t))
                                           ELSE Cardinality(RecipientsOf(z, t)) + 1
        BY RecipientsFinite, FS_AddElement
      <4>3. gauge'[<<t, z>>] = gauge[<<t, z>>] + 1
        BY <2>4, <3>3
      <4>4. Surplus(t, z)' = gauge'[<<t, z>>] - Cardinality(RecipientsOf(z, t) \cup {p})
        BY <4>1 DEF Surplus, RecipientsOf
      <4>5. ListedAgain(t, z) <=> p \in RecipientsOf(z, t)
        BY <3>1, <3>2, <3>3
      <4> QED
        BY <3>0, <4>2, <4>3, <4>4, <4>5
    <3>4. CASE ~(t = type /\ z = s)
      <4>1. RecipientsOf(z, t)' = RecipientsOf(z, t)
        BY <2>1, <2>3, <2>5, <3>4, NotificationAssumption DEF RecipientsOf
      <4>2. gauge'[<<t, z>>] = gauge[<<t, z>>]
        BY <2>4, <3>4
      <4>3. Surplus(t, z)' = gauge'[<<t, z>>] - Cardinality(RecipientsOf(z, t))
        BY <4>1 DEF Surplus, RecipientsOf
      <4>4. ~ListedAgain(t, z)
        BY <3>1, <3>4
      <4> QED
        BY <3>0, <4>2, <4>3, <4>4
    <3> QED
      BY <3>3, <3>4
  <2>7. OwnType'
    BY <1>2, <2>1, <2>2, <2>3 DEF OwnType
  <2> QED
    BY <2>6, <2>7 DEF Drifts
<1>4. CASE /\ pw.todo = <<>> /\ pw' = [pw EXCEPT !.pc = "status"] /\ UNCHANGED regVars
  <2>1. pw'.pc = "status" /\ UNCHANGED <<recipients, gauge>>
    BY <1>1, <1>4 DEF PWorkers, regVars
  <2>2. ASSUME NEW t \in Types, NEW s \in Names
        PROVE  Surplus(t, s)' = Surplus(t, s) /\ ~ListedAgain(t, s) /\ Surplus(t, s) \in Int
    BY <1>1, <1>4, <2>1, SurplusIs DEF Surplus, ListedAgain
  <2> QED
    BY <2>1, <2>2 DEF Drifts, OwnType
<1> QED
  BY <1>3, <1>4 DEF AddNext

(* The others leave the gauge and the recipients alone, but for a restart. *)
LEMMA GaugeStep ==
    ASSUME PolicyInv, OwnType, [Next]_vars
    PROVE  OwnType' /\ (Drifts \/ Restart)
<1>0. PolicyTyped
  BY DEF PolicyInv
<1>1. CASE UNCHANGED <<pw, recipients, gauge>>
  <2>1. ASSUME NEW t \in Types, NEW s \in Names
        PROVE  Surplus(t, s)' = Surplus(t, s) /\ ~ListedAgain(t, s) /\ Surplus(t, s) \in Int
    BY <1>0, <1>1, SurplusIs DEF Surplus, ListedAgain
  <2> QED
    BY <1>1, <2>1 DEF Drifts, OwnType
<1>2. CASE UpdatePolicyStatus
  <2>1. pw.pc = "status" /\ pw'.pc = "idle" /\ UNCHANGED <<recipients, gauge>>
    BY <1>2 DEF UpdatePolicyStatus, PIdle, regVars
  <2>2. ASSUME NEW t \in Types, NEW s \in Names
        PROVE  Surplus(t, s)' = Surplus(t, s) /\ ~ListedAgain(t, s) /\ Surplus(t, s) \in Int
    BY <1>0, <2>1, SurplusIs DEF Surplus, ListedAgain
  <2> QED
    BY <2>1, <2>2 DEF Drifts, OwnType
<1>3. CASE Restart
  <2>1. pw'.pc = "idle"
    BY <1>3 DEF Restart, PIdle
  <2> QED
    BY <1>3, <2>1 DEF OwnType
<1>4. CASE JobReport \/ ExecutionReport
  BY <1>1, <1>4 DEF JobReport, ExecutionReport, Send, polVars, regVars
<1>5. ASSUME NEW x \in sending, Put(x) PROVE UNCHANGED <<pw, recipients, gauge>>
  BY <1>5 DEF Put, polVars, regVars
<1>6. CASE Receive \/ Lookup \/ Notify
  BY <1>1, <1>6 DEF Receive, Lookup, Notify, polVars, regVars
<1>7. CASE JobStart \/ JobEnd \/ Shutdown \/ Close \/ StopCron
  BY <1>1, <1>7 DEF JobStart, JobEnd, Shutdown, Close, StopCron, polVars, regVars
<1>8. ASSUME NEW p \in Policies, NEW spec \in Specs \cup {None}, WritePolicy(p, spec)
      PROVE  UNCHANGED <<pw, recipients, gauge>>
  BY <1>8 DEF WritePolicy, regVars
<1>9. CASE UNCHANGED vars
  BY <1>1, <1>9 DEF vars, polVars, regVars
<1>10. CASE Drifts
  BY <1>10 DEF Drifts
<1> QED
  BY <1>1, <1>2, <1>3, <1>4, <1>5, <1>6, <1>7, <1>8, <1>9, <1>10, ReconcileCounts, AddCounts
     DEF Next, Controller

(* What the gauge of a type and a schedule has over the number of recipients *)
(* grows by one when a policy is added where it is already, and changes at   *)
(* no other step of a process, whatever the policies list                    *)
(* (service.go:44-77, metrics.go:38).                                        *)
THEOREM GaugeDriftIsExact == Spec => GaugeDriftsByRepeatsOnly
<1>1. Init => OwnType
  BY DEF Init, PIdle, OwnType
<1>2. PolicyInv /\ OwnType /\ [Next]_vars => OwnType'
  BY GaugeStep
<1>3. NotificationInv /\ OwnType /\ [Next]_vars =>
         [restarts' = restarts =>
             \A t \in Types, s \in Names :
                 Surplus(t, s)' = Surplus(t, s) + IF ListedAgain(t, s) THEN 1 ELSE 0]_vars
  <2> SUFFICES ASSUME NotificationInv, OwnType, [Next]_vars, restarts' = restarts
               PROVE  \A t \in Types, s \in Names :
                         Surplus(t, s)' = Surplus(t, s) + IF ListedAgain(t, s) THEN 1 ELSE 0
    OBVIOUS
  <2>1. ~Restart
    BY Bounds DEF Restart, NotificationInv, RestTyped
  <2> QED
    BY <2>1, GaugeStep DEF NotificationInv, Drifts
<1>4. NotificationInv => PolicyInv
  BY DEF NotificationInv
<1> QED
  BY <1>1, <1>2, <1>3, <1>4, NotificationInvAlways, PTL DEF Spec, GaugeDriftsByRepeatsOnly

-----------------------------------------------------------------------------
(* The service is the queue of LossyFifo.                                    *)

(* The numbers last - n + 1 to last. *)
LastOnes(last, n) == [i \in 1..n |-> last - n + i]

HowMany == (IF InHand THEN 1 ELSE 0) + Len(ch)

(* The next number goes to the end of the last ones, *)
LEMMA LastOnesAppend ==
    ASSUME NEW last \in Nat, NEW n \in Nat
    PROVE  Append(LastOnes(last, n), last + 1) = LastOnes(last + 1, n + 1)
<1>1. LastOnes(last, n) \in Seq(Int) /\ Len(LastOnes(last, n)) = n
  BY DEF LastOnes
<1> DEFINE f == Append(LastOnes(last, n), last + 1)
           g == LastOnes(last + 1, n + 1)
<1>2. /\ f \in Seq(Int) /\ DOMAIN f = 1..(n + 1) /\ f[n + 1] = last + 1
      /\ \A i \in 1..n : f[i] = LastOnes(last, n)[i]
  BY <1>1, AppendFacts
<1>3. g \in Seq(Int) /\ DOMAIN g = 1..(n + 1)
  BY DEF LastOnes
<1>4. \A i \in 1..(n + 1) : f[i] = g[i]
  BY <1>2 DEF LastOnes
<1> HIDE DEF f, g
<1>5. f = g
  BY <1>2, <1>3, <1>4
<1> QED
  BY <1>5 DEF f, g

(* and without the first they are one fewer. *)
LEMMA LastOnesTail ==
    ASSUME NEW last \in Nat, NEW n \in Nat \ {0}
    PROVE  /\ Tail(LastOnes(last, n)) = LastOnes(last, n - 1)
           /\ LastOnes(last, n) # <<>>
<1>1. LastOnes(last, n) \in Seq(Int) /\ Len(LastOnes(last, n)) = n
  BY DEF LastOnes
<1>2. LastOnes(last, n) # <<>>
  BY <1>1
<1> DEFINE f == Tail(LastOnes(last, n))
           g == LastOnes(last, n - 1)
<1>3. /\ f \in Seq(Int) /\ DOMAIN f = 1..(n - 1)
      /\ \A i \in 1..(n - 1) : f[i] = LastOnes(last, n)[i + 1]
  BY <1>1, <1>2, TailFacts
<1>4. g \in Seq(Int) /\ DOMAIN g = 1..(n - 1)
  BY DEF LastOnes
<1>5. \A i \in 1..(n - 1) : f[i] = g[i]
  BY <1>3 DEF LastOnes
<1> HIDE DEF f, g
<1>6. f = g
  BY <1>3, <1>4, <1>5
<1> QED
  BY <1>2, <1>6 DEF f, g

PendingIsLast ==
    Pending = LastOnes(accepted, HowMany) /\ HowMany \in Nat /\ accepted \in Nat

(* The bodies taken and not served are the last ones that were accepted. *)
LEMMA PendingNow == ChannelInv => PendingIsLast
<1> SUFFICES ASSUME ChannelInv PROVE PendingIsLast
  OBVIOUS
<1>1. /\ ch \in Seq(Bodies) /\ accepted \in Nat /\ Len(ch) \in Nat
      /\ \A i \in DOMAIN ch : ch[i].n = accepted - Len(ch) + i
      /\ InHand => run.body.n = accepted - Len(ch)
      /\ DOMAIN ch = 1..Len(ch)
  BY Bounds DEF ChannelInv, ChannelTyped, Numbered
<1>2. HowMany \in Nat
  BY <1>1 DEF HowMany
<1> DEFINE waiting == [i \in DOMAIN ch |-> ch[i].n]
<1>3. waiting = LastOnes(accepted, Len(ch))
  BY <1>1 DEF LastOnes
<1>4. LastOnes(accepted, Len(ch)) \in Seq(Int) /\ Len(LastOnes(accepted, Len(ch))) = Len(ch)
  BY <1>1 DEF LastOnes
<1>5. CASE InHand
  <2>1. Pending = <<run.body.n>> \o LastOnes(accepted, Len(ch))
    BY <1>3, <1>5 DEF Pending, InHand
  <2> DEFINE f == <<accepted - Len(ch)>> \o LastOnes(accepted, Len(ch))
             g == LastOnes(accepted, Len(ch) + 1)
  <2>2. /\ f \in Seq(Int) /\ DOMAIN f = 1..(Len(ch) + 1) /\ f[1] = accepted - Len(ch)
        /\ \A i \in 2..(Len(ch) + 1) : f[i] = LastOnes(accepted, Len(ch))[i - 1]
    BY <1>1, <1>4
  <2>3. g \in Seq(Int) /\ DOMAIN g = 1..(Len(ch) + 1)
    BY <1>1 DEF LastOnes
  <2>4. \A i \in 1..(Len(ch) + 1) : f[i] = g[i]
    BY <1>1, <2>2 DEF LastOnes
  <2> HIDE DEF f, g
  <2>5. f = g
    BY <2>2, <2>3, <2>4
  <2> QED
    BY <1>1, <1>2, <1>5, <2>1, <2>5 DEF f, g, HowMany, PendingIsLast
<1>6. CASE ~InHand
  <2>1. Pending = <<>> \o LastOnes(accepted, Len(ch))
    BY <1>3, <1>6 DEF Pending, InHand
  <2>2. <<>> \o LastOnes(accepted, Len(ch)) = LastOnes(accepted, Len(ch))
    BY <1>4
  <2> QED
    BY <1>1, <1>2, <1>6, <2>1, <2>2 DEF HowMany, PendingIsLast
<1> QED
  BY <1>5, <1>6

(* The same after a step. *)
LEMMA PendingNext == ChannelInv' => PendingIsLast'
BY PendingNow, PTL

(* A step that gives no number, leaves closed as it is and takes at most one *)
(* of the bodies away serves the queue, or does nothing to it.               *)
LEMMA ServesOrStutters ==
    ASSUME ChannelInv, ChannelInv', UNCHANGED <<accepted, closed>>,
           HowMany' = HowMany \/ (HowMany # 0 /\ HowMany' = HowMany - 1)
    PROVE  [Fifo!Next]_<<Pending, accepted, ~closed>>
<1>1. /\ Pending = LastOnes(accepted, HowMany) /\ HowMany \in Nat /\ accepted \in Nat
      /\ Pending' = LastOnes(accepted', HowMany')
  BY PendingNow, PendingNext DEF PendingIsLast
<1> QED
  BY <1>1, LastOnesTail DEF Fifo!Next, Fifo!Serve

(* Each step of the service is a step of the queue, or none: Put accepts,    *)
(* the last call of a body serves it, and Receive moves a body from the      *)
(* channel to the thread, which the queue does not see.                      *)
LEMMA FifoStep ==
    ChannelInv /\ ChannelInv' /\ [Next]_vars => [Fifo!Next]_<<Pending, accepted, ~closed>>
<1> SUFFICES ASSUME ChannelInv, ChannelInv', [Next]_vars
             PROVE  [Fifo!Next]_<<Pending, accepted, ~closed>>
  OBVIOUS
<1> DEFINE Queue == [Fifo!Next]_<<Pending, accepted, ~closed>>
<1>1. /\ Pending = LastOnes(accepted, HowMany) /\ HowMany \in Nat /\ accepted \in Nat
      /\ Pending' = LastOnes(accepted', HowMany')
      /\ ch \in Seq(Bodies) /\ run \in Threads /\ Len(ch) \in Nat /\ Len(ch) <= Capacity
  BY PendingNow, PendingNext, Bounds DEF PendingIsLast, ChannelInv, ChannelTyped
<1>2. CASE UNCHANGED chSide
  BY <1>2 DEF chSide, Pending
<1>3. CASE JobReport \/ ExecutionReport
  <2>1. UNCHANGED <<accepted, closed, ch, run>>
    BY <1>3 DEF JobReport, ExecutionReport, Send, runVars
  <2> QED
    BY <2>1 DEF Pending
<1>4. ASSUME NEW x \in sending, Put(x) PROVE Queue
  <2>1. closed = FALSE /\ UNCHANGED <<closed, run>>
    BY <1>4 DEF Put, ChannelInv, NeverSendsOnClosed, ChannelTyped, runVars
  <2>2. CASE UNCHANGED <<ch, accepted>>
    BY <2>1, <2>2 DEF Pending
  <2>3. CASE /\ Len(ch) < Capacity
             /\ ch' = Append(ch, [x[2] EXCEPT !.n = accepted + 1])
             /\ accepted' = accepted + 1
    <3>1. Len(ch') = Len(ch) + 1
      <4>1. [x[2] EXCEPT !.n = accepted + 1] \in Bodies
        <5>1. x[2] \in Bodies
          BY DEF ChannelInv, ChannelTyped
        <5> QED
          BY <1>1, <5>1 DEF Bodies
      <4> QED
        BY <1>1, <2>3, <4>1, AppendFacts
    <3>2. HowMany' = HowMany + 1
      BY <1>1, <2>1, <3>1 DEF HowMany, InHand
    <3>3. Pending' = Append(Pending, accepted + 1)
      BY <1>1, <2>3, <3>2, LastOnesAppend
    <3>4. Len(Pending) = HowMany
      BY <1>1 DEF LastOnes
    <3>5. Len(Pending) < Capacity + 1
      BY <1>1, <2>3, <3>4, Bounds DEF HowMany
    <3>6. Fifo!Accept
      BY <2>1, <2>3, <3>3, <3>5 DEF Fifo!Accept
    <3> QED
      BY <3>6 DEF Fifo!Next
  <2> QED
    BY <1>4, <2>2, <2>3 DEF Put
<1>5. CASE Receive
  <2>1. UNCHANGED <<accepted, closed>> /\ run.pc = "receive"
    BY <1>5 DEF Receive
  <2>2. CASE ch # <<>> /\ run' = [run EXCEPT !.pc = "lookup", !.body = Head(ch)] /\ ch' = Tail(ch)
    <3>1. Len(ch') = Len(ch) - 1 /\ run'.pc = "lookup"
      BY <1>1, <2>2, TailFacts DEF Threads
    <3>2. HowMany' = HowMany
      BY <1>1, <2>1, <3>1 DEF HowMany, InHand
    <3> QED
      BY <2>1, <3>2, ServesOrStutters
  <2>3. CASE run' = [run EXCEPT !.pc = "stopped", !.body = None] /\ UNCHANGED ch
    <3>1. run'.pc = "stopped"
      BY <1>1, <2>3 DEF Threads
    <3>2. HowMany' = HowMany
      BY <2>1, <2>3, <3>1 DEF HowMany, InHand
    <3> QED
      BY <2>1, <3>2, ServesOrStutters
  <2> QED
    BY <1>5, <2>2, <2>3 DEF Receive, Take
<1>6. CASE Lookup
  <2>1. UNCHANGED <<accepted, closed, ch>> /\ run.pc = "lookup" /\ run'.pc = "notify"
    BY <1>1, <1>6 DEF Lookup, chVars, Threads
  <2>2. HowMany' = HowMany
    BY <2>1 DEF HowMany, InHand
  <2> QED
    BY <2>1, <2>2, ServesOrStutters
<1>7. CASE Notify
  <2>1. UNCHANGED <<accepted, closed, ch>> /\ run.pc = "notify"
        /\ (run'.pc = "notify" \/ run'.pc = "receive")
    BY <1>1, <1>7 DEF Notify, chVars, Threads
  <2>2. HowMany' = HowMany \/ (HowMany # 0 /\ HowMany' = HowMany - 1)
    BY <1>1, <2>1 DEF HowMany, InHand
  <2> QED
    BY <2>1, <2>2, ServesOrStutters
<1>8. CASE Close
  <2>1. UNCHANGED <<accepted, ch, run>> /\ closed' = TRUE /\ closed = FALSE
    BY <1>8 DEF Close, runVars, ChannelInv, ChannelTyped
  <2>2. UNCHANGED Pending
    BY <2>1 DEF Pending
  <2>3. Fifo!Shut
    BY <2>1, <2>2 DEF Fifo!Shut
  <2> QED
    BY <2>3 DEF Fifo!Next
<1>9. CASE Restart
  <2>1. ch' = <<>> /\ closed' = FALSE /\ UNCHANGED accepted /\ run'.pc = "receive"
    BY <1>9 DEF Restart, Thread
  <2>2. Pending' = <<>>
    BY <2>1 DEF Pending
  <2>3. Fifo!Crash
    BY <2>1, <2>2 DEF Fifo!Crash
  <2> QED
    BY <2>3 DEF Fifo!Next
<1>10. ASSUME NEW p \in Policies, NEW spec \in Specs \cup {None}, WritePolicy(p, spec)
       PROVE  UNCHANGED chSide
  BY <1>10 DEF WritePolicy, chSide, chVars, runVars
<1>11. ASSUME NEW p \in Policies, ReconcilePolicy(p) PROVE UNCHANGED chSide
  BY <1>11 DEF ReconcilePolicy, chSide, chVars, runVars
<1>12. CASE Controller
  BY <1>2, <1>12 DEF Controller, AddNext, UpdatePolicyStatus, chSide, chVars, runVars
<1>13. CASE JobStart \/ JobEnd \/ Shutdown \/ StopCron
  BY <1>2, <1>13 DEF JobStart, JobEnd, Shutdown, StopCron, chSide, chVars, runVars
<1>14. CASE UNCHANGED vars
  BY <1>2, <1>14 DEF vars, chSide, chVars, runVars
<1> QED
  BY <1>2, <1>3, <1>4, <1>5, <1>6, <1>7, <1>8, <1>9, <1>10, <1>11, <1>12, <1>13, <1>14 DEF Next

(* The service implements the bounded queue of LossyFifo: what it accepted is *)
(* served once and in order, also after the close, and nothing is accepted    *)
(* after it (service.go:79-152).                                              *)
THEOREM ServiceIsFifo == Spec => FifoPromise
<1>1. Init => Fifo!Init
  <2> SUFFICES ASSUME Init PROVE Fifo!Init
    OBVIOUS
  <2>1. ch = <<>> /\ closed = FALSE /\ accepted = 0 /\ run.pc = "receive"
    BY DEF Init, Thread
  <2>2. Pending = <<>>
    BY <2>1 DEF Pending
  <2> QED
    BY <2>1, <2>2 DEF Fifo!Init
<1>2. NotificationInv /\ NotificationInv' /\ [Next]_vars
         => [Fifo!Next]_<<Pending, accepted, ~closed>>
  BY FifoStep DEF NotificationInv
<1> QED
  BY <1>1, <1>2, NotificationInvAlways, PTL DEF Spec, FifoPromise, Fifo!Spec
=============================================================================
