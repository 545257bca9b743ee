---------------------------- MODULE TransportProofs ----------------------------
(***************************************************************************)
(* Theorems about what carries schemas and records: the request loop and   *)
(* the concurrency ceiling of HttpClient (http.rs), days_from_civil on the *)
(* calendar of CivilDate and the sleeps of RetryPolicy (retry.rs), and the *)
(* frames of WireFormat (wire.rs, glue/mod.rs, decoder.rs).  The lemmas on *)
(* induction, recursive functions and powers of two serve all of them.     *)
(***************************************************************************)
EXTENDS HttpClient, RetryPolicy, CivilDate, WireFormat,
        FiniteSetTheorems, SequenceTheorems, WellFoundedInduction, TLAPS

------------------------------------------------------------------------------
(***************************************************************************)
(* The inductive invariant.                                                *)
(***************************************************************************)
Call == [pc      : {"idle", "queued", "send", "sent", "sleep"},
         request : Request \cup {None},
         attempt : Nat,
         sends   : Nat,
         arrived : BOOLEAN,
         answer  : Response \cup Error \cup {None}]

\* The shape of the state; versions are the registry's own business.
TypeInv ==
  /\ permits \in Nat
  /\ queue \in Seq(Caller)
  /\ call \in [Caller -> Call]
  /\ removed \in [Caller -> Nat]
  /\ late \in [Caller -> Nat]

\* The loop's counter says what has been sent: attempts 0 to `attempt`, unless
\* the body is too big to be sent at all.  Of the attempts sent, n have deleted
\* a version, l others may still reach the registry late, and so may the one
\* under way.
Counted(k, n, l) ==
  /\ k.attempt <= MaxRetries /\ k.sends <= MaxRetries + 1
  /\ k.pc = "queued" => k.attempt = 0 /\ k.sends = 0
  /\ n + l <= k.sends
  /\ k.pc # "idle" /\ k.request.kind = "too_big" => k.sends = 0 /\ k.pc # "sent"
  /\ k.pc = "send" /\ k.request.kind # "too_big" => k.sends = k.attempt
  /\ k.pc = "sent" => k.sends = k.attempt + 1
  /\ k.pc = "sent" /\ ~k.arrived => n + l < k.sends
  /\ k.pc = "sleep" => k.attempt < MaxRetries
  /\ k.pc = "sleep" /\ k.request.kind # "too_big" => k.sends = k.attempt + 1

CountInv == \A c \in Caller : Counted(call[c], removed[c], late[c])

\* Whoever waits for a permit is in the queue, once, and nobody else is.
QueueInv ==
  /\ \A i, j \in DOMAIN queue : queue[i] = queue[j] => i = j
  /\ \A c \in Caller : call[c].pc = "queued" <=> \E i \in DOMAIN queue : queue[i] = c

\* Each call past acquire() has its permit, where there is a ceiling.
PermitInv ==
  IF Ceiling > 0 THEN permits + Cardinality(Holders) = Ceiling
                 ELSE queue = <<>> /\ \A c \in Caller : call[c].pc # "queued"

HttpInv == TypeInv /\ CountInv /\ QueueInv /\ PermitInv

------------------------------------------------------------------------------
(***************************************************************************)
(* The ways a step takes a call on, and what becomes of permit and queue.  *)
(***************************************************************************)
Holding == {"send", "sent", "sleep"}

\* queues, starts without a ceiling, is given its permit, goes on, ends, and
\* stops waiting.
Queues(c, k)   == /\ Ceiling > 0 /\ call[c].pc = "idle" /\ k.pc = "queued"
                  /\ queue' = Append(queue, c) /\ UNCHANGED permits
Enters(c, k)   == /\ Ceiling = 0 /\ call[c].pc = "idle" /\ k.pc \in Holding
                  /\ UNCHANGED <<permits, queue>>
IsServed(c, k) == /\ call[c].pc = "queued" /\ k.pc \in Holding
                  /\ permits > 0 /\ Head(queue) = c
                  /\ queue' = Tail(queue) /\ permits' = permits - 1
GoesOn(c, k)   == /\ call[c].pc \in Holding /\ k.pc \in Holding
                  /\ UNCHANGED <<permits, queue>>
Ends(c, k)     == /\ call[c].pc \in Holding /\ k.pc = "idle"
                  /\ Release /\ UNCHANGED queue
Stops(c, k)    == /\ call[c].pc = "queued" /\ k.pc = "idle"
                  /\ LeaveQueue(c) /\ UNCHANGED permits

Moves(c, k, n, l) ==
  /\ k \in Call /\ n \in Nat /\ l \in Nat /\ Counted(k, n, l)
  /\ call' = [call EXCEPT ![c] = k]
  /\ removed' = [removed EXCEPT ![c] = n]
  /\ late' = [late EXCEPT ![c] = l]
  /\ \/ Queues(c, k) \/ Enters(c, k) \/ IsServed(c, k)
     \/ GoesOn(c, k) \/ Ends(c, k) \/ Stops(c, k)

LEMMA Constants ==
  /\ MaxRetries \in Nat /\ Ceiling \in Nat
  /\ IsFiniteSet(Caller)
  /\ None \notin Response \cup Error
  BY HttpAssumption DEF HttpAssumption

\* What the end of an attempt makes of a call: l attempts are late by then.
LEMMA EndAttemptMoves ==
  ASSUME TypeInv, NEW c \in Caller, NEW a \in Response \cup Error, NEW n \in Nat,
         NEW l \in Nat, Counted(call[c], removed[c], late[c]),
         \/ call[c].pc = "sent"
         \/ call[c].pc = "send" /\ call[c].request.kind = "too_big",
         n + l <= call[c].sends,
         EndAttempt(c, a), UNCHANGED queue, removed' = [removed EXCEPT ![c] = n],
         late' = [late EXCEPT ![c] = l]
  PROVE  \E k : Moves(c, k, n, l)
<1>1. call[c] \in Call /\ DOMAIN call = Caller
  BY DEF TypeInv
<1>2. CASE (IsRetryableStatus(a) \/ a \in Error) /\ call[c].attempt < MaxRetries
  <2> DEFINE k == [call[c] EXCEPT !.pc = "sleep", !.answer = a]
  <2>1. call' = [call EXCEPT ![c] = k] /\ UNCHANGED permits
    BY <1>2, <1>1 DEF EndAttempt, TypeInv
  <2>2. /\ k \in Call /\ k.pc = "sleep" /\ k.request = call[c].request
        /\ k.attempt = call[c].attempt /\ k.sends = call[c].sends
    BY <1>1 DEF Call
  <2> HIDE DEF k
  <2>3. Counted(k, n, l)
    BY <2>2, <1>1, <1>2, Constants DEF Counted, Call
  <2>4. GoesOn(c, k)
    BY <2>1, <2>2 DEF GoesOn, Holding
  <2>5. QED
    BY <2>1, <2>2, <2>3, <2>4 DEF Moves
<1>3. CASE ~((IsRetryableStatus(a) \/ a \in Error) /\ call[c].attempt < MaxRetries)
  <2> DEFINE k == [call[c] EXCEPT !.pc = "idle", !.answer = a]
  <2>1. call' = [call EXCEPT ![c] = k] /\ Release
    BY <1>3, <1>1 DEF EndAttempt, TypeInv
  <2>2. /\ k \in Call /\ k.pc = "idle"
        /\ k.attempt = call[c].attempt /\ k.sends = call[c].sends
    BY <1>1 DEF Call
  <2> HIDE DEF k
  <2>3. Counted(k, n, l)
    BY <2>2, <1>1, Constants DEF Counted, Call
  <2>4. Ends(c, k)
    BY <2>1, <2>2 DEF Ends, Holding
  <2>5. QED
    BY <2>1, <2>2, <2>3, <2>4 DEF Moves
<1>4. QED
  BY <1>2, <1>3

\* An attempt given up is one more that may arrive late, if it was under way.
LEMMA GiveUpCounts ==
  ASSUME TypeInv, NEW c \in Caller, Counted(call[c], removed[c], late[c]), GiveUp(c)
  PROVE  \E l \in Nat : /\ late' = [late EXCEPT ![c] = l]
                        /\ removed[c] + l <= call[c].sends
<1>1. call[c] \in Call /\ removed[c] \in Nat /\ late[c] \in Nat
  BY DEF TypeInv
<1>2. CASE UNCHANGED late
  <2>1. late' = [late EXCEPT ![c] = late[c]]
    BY <1>2 DEF TypeInv
  <2>2. QED
    BY <2>1, <1>1 DEF Counted
<1>3. CASE /\ call[c].pc = "sent" /\ ~call[c].arrived
           /\ late' = [late EXCEPT ![c] = @ + 1]
  <2>1. PICK l \in Nat : l = late[c] + 1
    BY <1>1
  <2>2. late' = [late EXCEPT ![c] = l]
    BY <1>3, <2>1 DEF TypeInv
  <2>3. removed[c] + l <= call[c].sends
    BY <1>1, <1>3, <2>1 DEF Counted, Call
  <2>4. QED
    BY <2>2, <2>3
<1>4. QED
  BY <1>2, <1>3 DEF GiveUp

\* Every step of a call is one of these ways, and keeps the counts.
LEMMA StepMoves ==
  ASSUME TypeInv, CountInv, Next
  PROVE  \E c \in Caller : ArriveLate(c) \/ \E k, n, l : Moves(c, k, n, l)
<1>1. ASSUME NEW c \in Caller,
             (\E r \in Request : Begin(c, r)) \/ Progress(c) \/ LoseAnswer(c) \/ Drop(c)
      PROVE  \E k, n, l : Moves(c, k, n, l)
  <2> DEFINE n == removed[c]
             l == late[c]
  <2>1. /\ call[c] \in Call /\ n \in Nat /\ l \in Nat /\ DOMAIN call = Caller
        /\ Counted(call[c], n, l) /\ n + l <= call[c].sends
        /\ UNCHANGED removed => removed' = [removed EXCEPT ![c] = n]
        /\ UNCHANGED late => late' = [late EXCEPT ![c] = l]
    BY DEF TypeInv, CountInv, Counted
  <2>2. ASSUME NEW r \in Request, Begin(c, r)
        PROVE  \E k, m, j : Moves(c, k, m, j)
    <3> DEFINE k == [Idle EXCEPT !.pc = IF Ceiling > 0 THEN "queued" ELSE "send",
                                 !.request = r]
    <3>1. /\ k \in Call /\ k.pc = (IF Ceiling > 0 THEN "queued" ELSE "send")
          /\ k.attempt = 0 /\ k.sends = 0
      BY DEF Idle, Call
    <3>2. /\ call' = [call EXCEPT ![c] = k] /\ removed' = [removed EXCEPT ![c] = 0]
          /\ late' = [late EXCEPT ![c] = 0]
      BY <2>1, <2>2 DEF Begin
    <3> HIDE DEF k
    <3>3. Counted(k, 0, 0)
      BY <3>1, Constants DEF Counted
    <3>4. Queues(c, k) \/ Enters(c, k)
      BY <3>1, <2>2, Constants DEF Begin, Queues, Enters, Holding
    <3>5. QED
      BY <3>1, <3>2, <3>3, <3>4 DEF Moves
  <2>3. CASE Acquire(c)
    <3> DEFINE k == [call[c] EXCEPT !.pc = "send"]
    <3>1. /\ k \in Call /\ k.pc = "send" /\ k.request = call[c].request
          /\ k.attempt = call[c].attempt /\ k.sends = call[c].sends
      BY <2>1 DEF Call
    <3>2. call' = [call EXCEPT ![c] = k] /\ UNCHANGED <<removed, late>>
      BY <2>1, <2>3 DEF Acquire
    <3> HIDE DEF k
    <3>3. Counted(k, n, l)
      BY <3>1, <2>1, <2>3, Constants DEF Counted, Acquire, Call
    <3>4. IsServed(c, k)
      BY <3>1, <2>3 DEF Acquire, IsServed, Holding
    <3>5. QED
      BY <3>1, <3>2, <3>3, <3>4, <2>1 DEF Moves
  <2>4. CASE Send(c)
    <3>0. PICK s \in Nat : s = call[c].sends + 1
      BY <2>1 DEF Call
    <3> DEFINE k == [call[c] EXCEPT !.pc = "sent", !.arrived = FALSE, !.sends = s]
    <3>1. /\ k \in Call /\ k.pc = "sent" /\ k.request = call[c].request
          /\ k.attempt = call[c].attempt /\ k.sends = s
      BY <2>1 DEF Call
    <3>2. call' = [call EXCEPT ![c] = k] /\ UNCHANGED <<removed, late>>
      BY <2>1, <2>4, <3>0 DEF Send
    <3> HIDE DEF k
    <3>3. Counted(k, n, l)
      BY <3>0, <3>1, <2>1, <2>4, Constants DEF Counted, Send, Call
    <3>4. GoesOn(c, k)
      BY <3>1, <2>4 DEF Send, GoesOn, Holding
    <3>5. QED
      BY <3>1, <3>2, <3>3, <3>4, <2>1 DEF Moves
  <2>5. CASE RejectBody(c)
    BY <2>1, <2>5, EndAttemptMoves DEF RejectBody, Error
  <2>6. CASE Wake(c)
    <3>0. PICK m \in Nat : m = call[c].attempt + 1
      BY <2>1 DEF Call
    <3> DEFINE k == [call[c] EXCEPT !.pc = "send", !.attempt = m]
    <3>1. /\ k \in Call /\ k.pc = "send" /\ k.request = call[c].request
          /\ k.attempt = m /\ k.sends = call[c].sends
      BY <2>1 DEF Call
    <3>2. call' = [call EXCEPT ![c] = k] /\ UNCHANGED <<removed, late>>
      BY <2>1, <2>6, <3>0 DEF Wake
    <3> HIDE DEF k
    <3>3. Counted(k, n, l)
      BY <3>0, <3>1, <2>1, <2>6, Constants DEF Counted, Wake, Call
    <3>4. GoesOn(c, k)
      BY <3>1, <2>6 DEF Wake, GoesOn, Holding
    <3>5. QED
      BY <3>1, <3>2, <3>3, <3>4, <2>1 DEF Moves
  <2>7. ASSUME NEW a \in Response \cup Error, Answer(c, a)
        PROVE  \E k, m, j : Moves(c, k, m, j)
    <3> DEFINE m == n + Removes(call[c].request)
    <3>1. Removes(call[c].request) \in {0, 1}
      BY DEF Removes
    <3>2. m \in Nat /\ m + l <= call[c].sends
      BY <2>1, <2>7, <3>1 DEF Counted, Answer, Call
    <3>3. EndAttempt(c, a) /\ removed' = [removed EXCEPT ![c] = m] /\ UNCHANGED late
      BY <2>7 DEF Answer
    <3> HIDE DEF m
    <3>4. QED
      BY <3>2, <3>3, <2>1, <2>7, EndAttemptMoves DEF Answer
  <2>8. ASSUME NEW a \in Response \cup Error, Refuse(c, a)
        PROVE  \E k, m, j : Moves(c, k, m, j)
    BY <2>1, <2>8, EndAttemptMoves DEF Refuse
  <2>9. CASE NetworkError(c)
    <3>1. PICK j \in Nat : late' = [late EXCEPT ![c] = j] /\ n + j <= call[c].sends
      BY <2>1, <2>9, GiveUpCounts DEF NetworkError
    <3>2. QED
      BY <3>1, <2>1, <2>9, EndAttemptMoves DEF NetworkError, Error
  <2>10. CASE LoseAnswer(c)
    <3> DEFINE k == [call[c] EXCEPT !.arrived = TRUE]
               m == n + Removes(call[c].request)
    <3>1. /\ k \in Call /\ k.pc = "sent" /\ k.request = call[c].request
          /\ k.attempt = call[c].attempt /\ k.sends = call[c].sends /\ k.arrived
      BY <2>1, <2>10 DEF Call, LoseAnswer
    <3>2. /\ call' = [call EXCEPT ![c] = k] /\ removed' = [removed EXCEPT ![c] = m]
          /\ UNCHANGED late
      BY <2>1, <2>10 DEF LoseAnswer
    <3>3. Removes(call[c].request) \in {0, 1}
      BY DEF Removes
    <3>4. m \in Nat /\ m + l <= call[c].sends
      BY <2>1, <2>10, <3>3 DEF Counted, LoseAnswer, Call
    <3> HIDE DEF k, m
    <3>5. Counted(k, m, l)
      BY <3>1, <3>4, <2>1, <2>10, Constants DEF Counted, LoseAnswer, Call
    <3>6. GoesOn(c, k)
      BY <3>1, <2>10 DEF LoseAnswer, GoesOn, Holding
    <3>7. QED
      BY <3>1, <3>2, <3>4, <3>5, <3>6, <2>1 DEF Moves
  <2>11. CASE Drop(c)
    <3> DEFINE k == [call[c] EXCEPT !.pc = "idle", !.answer = None]
    <3>1. /\ k \in Call /\ k.pc = "idle"
          /\ k.attempt = call[c].attempt /\ k.sends = call[c].sends
      BY <2>1 DEF Call
    <3>2. call' = [call EXCEPT ![c] = k] /\ UNCHANGED removed
      BY <2>1, <2>11 DEF Drop
    <3>3. PICK j \in Nat : late' = [late EXCEPT ![c] = j] /\ n + j <= call[c].sends
      BY <2>1, <2>11, GiveUpCounts DEF Drop
    <3> HIDE DEF k
    <3>4. Counted(k, n, j)
      BY <3>1, <3>3, <2>1, Constants DEF Counted, Call
    <3>5. Stops(c, k) \/ Ends(c, k)
      BY <3>1, <2>11 DEF Drop, Stops, Ends, Holding
    <3>6. QED
      BY <3>1, <3>2, <3>3, <3>4, <3>5, <2>1 DEF Moves
  <2>12. QED
    BY <1>1, <2>2, <2>3, <2>4, <2>5, <2>6, <2>7, <2>8, <2>9, <2>10, <2>11 DEF Progress
<1>2. QED
  BY <1>1 DEF Next

\* A late arrival moves one of the attempts from those under way to those that
\* have deleted a version, or to neither.
LEMMA ArriveLateCounts ==
  ASSUME TypeInv, CountInv, NEW c \in Caller, ArriveLate(c)
  PROVE  /\ removed' \in [Caller -> Nat] /\ late' \in [Caller -> Nat]
         /\ CountInv'
<1>1. /\ call[c] \in Call /\ removed[c] \in Nat /\ late[c] \in Nat
      /\ Counted(call[c], removed[c], late[c]) /\ late[c] > 0
  BY DEF TypeInv, CountInv, ArriveLate
<1>2. PICK n \in Nat : /\ n = removed[c] + Removes(call[c].request)
                       /\ n <= removed[c] + 1
  BY <1>1 DEF Removes
<1>3. PICK l \in Nat : l = late[c] - 1
  BY <1>1
<1>4. /\ removed' = [removed EXCEPT ![c] = n] /\ late' = [late EXCEPT ![c] = l]
      /\ UNCHANGED call
  BY <1>2, <1>3 DEF ArriveLate, TypeInv
<1>5. removed' \in [Caller -> Nat] /\ late' \in [Caller -> Nat]
  BY <1>4 DEF TypeInv
<1>6. Counted(call[c], n, l)
  BY <1>1, <1>2, <1>3 DEF Counted, Call
<1>7. \A d \in Caller : Counted(call'[d], removed'[d], late'[d])
  BY <1>4, <1>6 DEF CountInv, TypeInv
<1>8. CountInv' <=> \A d \in Caller : Counted(call'[d], removed'[d], late'[d])
  BY DEF CountInv, Counted
<1>9. QED
  BY <1>5, <1>7, <1>8

------------------------------------------------------------------------------
(***************************************************************************)
(* Each part of the invariant is kept by each way.                         *)
(***************************************************************************)
\* The call of c is replaced, and no other.
LEMMA MovesOne ==
  ASSUME TypeInv, NEW c \in Caller, NEW k, NEW n, NEW l, Moves(c, k, n, l)
  PROVE  /\ call' \in [Caller -> Call] /\ removed' \in [Caller -> Nat]
         /\ late' \in [Caller -> Nat]
         /\ call'[c] = k /\ removed'[c] = n /\ late'[c] = l
         /\ \A d \in Caller \ {c} :
              call'[d] = call[d] /\ removed'[d] = removed[d] /\ late'[d] = late[d]
  BY DEF Moves, TypeInv

LEMMA CountStep ==
  ASSUME TypeInv, CountInv, NEW c \in Caller, NEW k, NEW n, NEW l, Moves(c, k, n, l)
  PROVE  CountInv'
<1>1. Counted(call'[c], removed'[c], late'[c])
  BY MovesOne DEF Moves
<1>2. ASSUME NEW d \in Caller \ {c} PROVE Counted(call'[d], removed'[d], late'[d])
  BY MovesOne DEF CountInv
<1>3. CountInv' <=> \A d \in Caller : Counted(call'[d], removed'[d], late'[d])
  BY DEF CountInv, Counted
<1>4. QED
  BY <1>1, <1>2, <1>3

\* A caller joins the queue at its end ...
LEMMA QueuesStep ==
  ASSUME TypeInv, QueueInv, NEW c \in Caller, NEW k, NEW n, NEW l, Moves(c, k, n, l), Queues(c, k)
  PROVE  queue' \in Seq(Caller) /\ QueueInv'
<1>1. /\ queue \in Seq(Caller) /\ Len(queue) \in Nat /\ DOMAIN queue = 1..Len(queue)
      /\ \A i \in DOMAIN queue : queue[i] \in Caller
  BY DEF TypeInv
<1>2. /\ queue' \in Seq(Caller) /\ DOMAIN queue' = 1..(Len(queue) + 1)
      /\ queue'[Len(queue) + 1] = c
      /\ \A i \in 1..Len(queue) : queue'[i] = queue[i]
  BY <1>1, AppendProperties DEF Queues
<1>3. \A i \in DOMAIN queue : queue[i] # c
  BY DEF QueueInv, Queues
<1>4. ASSUME NEW i \in DOMAIN queue', NEW j \in DOMAIN queue', queue'[i] = queue'[j]
      PROVE  i = j
  <2>1. i \in DOMAIN queue \/ i = Len(queue) + 1
    BY <1>1, <1>2
  <2>2. j \in DOMAIN queue \/ j = Len(queue) + 1
    BY <1>1, <1>2
  <2>3. QED
    BY <2>1, <2>2, <1>1, <1>2, <1>3, <1>4 DEF QueueInv
<1>5. ASSUME NEW d \in Caller
      PROVE  call'[d].pc = "queued" <=> \E i \in DOMAIN queue' : queue'[i] = d
  <2>1. CASE d = c
    <3>1. call'[d].pc = "queued"
      BY <2>1, MovesOne DEF Queues
    <3>2. Len(queue) + 1 \in DOMAIN queue'
      BY <1>1, <1>2
    <3>3. QED
      BY <3>1, <3>2, <1>2, <2>1
  <2>2. CASE d # c
    <3>1. call'[d] = call[d]
      BY <2>2, MovesOne
    <3>2. (\E i \in DOMAIN queue' : queue'[i] = d) <=> \E i \in DOMAIN queue : queue[i] = d
      BY <1>1, <1>2, <2>2
    <3>3. QED
      BY <3>1, <3>2 DEF QueueInv
  <2>3. QED
    BY <2>1, <2>2
<1>6. QED
  BY <1>2, <1>4, <1>5 DEF QueueInv

\* ... and a queue that loses position p, the only one of c, still lists each
\* of the others once.
LEMMA LosesPosition ==
  ASSUME TypeInv, QueueInv, NEW c \in Caller, NEW k, NEW n, NEW l, Moves(c, k, n, l),
         call[c].pc = "queued", k.pc # "queued",
         NEW p \in DOMAIN queue, queue[p] = c,
         queue' \in Seq(Caller), Len(queue') = Len(queue) - 1,
         \A i \in 1..Len(queue') : queue'[i] = IF i < p THEN queue[i] ELSE queue[i + 1]
  PROVE  QueueInv'
<1> DEFINE L == Len(queue)
           at(i) == IF i < p THEN i ELSE i + 1
<1>1. /\ L \in Nat /\ DOMAIN queue = 1..L /\ p \in 1..L
      /\ DOMAIN queue' = 1..(L - 1)
      /\ \A i \in DOMAIN queue : queue[i] \in Caller
  BY DEF TypeInv
<1>2. \A i \in DOMAIN queue' : at(i) \in DOMAIN queue /\ at(i) # p /\ queue'[i] = queue[at(i)]
  BY <1>1
<1>3. \A i, j \in DOMAIN queue' : at(i) = at(j) => i = j
  BY <1>1
<1>4. \A q \in DOMAIN queue : q # p => \E i \in DOMAIN queue' : at(i) = q
  <2> SUFFICES ASSUME NEW q \in DOMAIN queue, q # p
               PROVE  \E i \in DOMAIN queue' : at(i) = q
    OBVIOUS
  <2>1. CASE q < p
    <3>1. q \in DOMAIN queue' /\ at(q) = q
      BY <2>1, <1>1
    <3>2. QED
      BY <3>1
  <2>2. CASE q > p
    <3>1. q - 1 \in DOMAIN queue' /\ at(q - 1) = q
      BY <2>2, <1>1
    <3>2. QED
      BY <3>1
  <2>3. QED
    BY <2>1, <2>2, <1>1
<1> HIDE DEF at
<1>5. \A i, j \in DOMAIN queue' : queue'[i] = queue'[j] => i = j
  BY <1>2, <1>3 DEF QueueInv
<1>6. ASSUME NEW d \in Caller
      PROVE  call'[d].pc = "queued" <=> \E i \in DOMAIN queue' : queue'[i] = d
  <2>1. CASE d = c
    <3>1. call'[d].pc # "queued"
      BY <2>1, MovesOne
    <3>2. \A i \in DOMAIN queue' : queue'[i] # c
      BY <1>2 DEF QueueInv
    <3>3. QED
      BY <3>1, <3>2, <2>1
  <2>2. CASE d # c
    <3>1. call'[d] = call[d]
      BY <2>2, MovesOne
    <3>2. (\E i \in DOMAIN queue' : queue'[i] = d) <=> \E i \in DOMAIN queue : queue[i] = d
      <4>1. ASSUME NEW i \in DOMAIN queue', queue'[i] = d
            PROVE  \E j \in DOMAIN queue : queue[j] = d
        BY <1>2, <4>1
      <4>2. ASSUME NEW j \in DOMAIN queue, queue[j] = d
            PROVE  \E i \in DOMAIN queue' : queue'[i] = d
        <5>1. PICK i \in DOMAIN queue' : at(i) = j
          BY <1>4, <2>2, <4>2
        <5>2. QED
          BY <5>1, <1>2, <4>2
      <4>3. QED
        BY <4>1, <4>2
    <3>3. QED
      BY <3>1, <3>2 DEF QueueInv
  <2>3. QED
    BY <2>1, <2>2
<1>7. QED
  BY <1>5, <1>6 DEF QueueInv

LEMMA IsServedStep ==
  ASSUME TypeInv, QueueInv, NEW c \in Caller, NEW k, NEW n, NEW l, Moves(c, k, n, l), IsServed(c, k)
  PROVE  queue' \in Seq(Caller) /\ QueueInv'
<1>1. queue \in Seq(Caller) /\ queue # <<>>
  <2>1. \E i \in DOMAIN queue : queue[i] = c
    BY DEF QueueInv, IsServed
  <2>2. QED
    BY <2>1 DEF TypeInv
<1>2. /\ queue' \in Seq(Caller) /\ Len(queue') = Len(queue) - 1
      /\ \A i \in 1..Len(queue') : queue'[i] = queue[i + 1]
      /\ 1 \in DOMAIN queue /\ queue[1] = c /\ Len(queue) \in Nat
  BY <1>1, HeadTailProperties DEF IsServed
<1>3. \A i \in 1..Len(queue') : queue'[i] = IF i < 1 THEN queue[i] ELSE queue[i + 1]
  BY <1>2
<1>4. QED
  BY <1>2, <1>3, LosesPosition DEF IsServed, Holding

LEMMA StopsStep ==
  ASSUME TypeInv, QueueInv, NEW c \in Caller, NEW k, NEW n, NEW l, Moves(c, k, n, l), Stops(c, k)
  PROVE  queue' \in Seq(Caller) /\ QueueInv'
<1>1. PICK p \in DOMAIN queue :
        /\ queue[p] = c
        /\ queue' = SubSeq(queue, 1, p - 1) \o SubSeq(queue, p + 1, Len(queue))
  BY DEF Stops, LeaveQueue
<1> DEFINE L == Len(queue)
           A == SubSeq(queue, 1, p - 1)
           B == SubSeq(queue, p + 1, L)
<1>2. queue \in Seq(Caller) /\ L \in Nat /\ p \in 1..L
  BY DEF TypeInv
<1>3. A \in Seq(Caller) /\ Len(A) = p - 1 /\ \A i \in 1..(p - 1) : A[i] = queue[i]
  BY <1>2
<1>4. B \in Seq(Caller) /\ Len(B) = L - p /\ \A i \in 1..(L - p) : B[i] = queue[p + i]
  BY <1>2
<1>5. queue' = A \o B
  BY <1>1
<1> HIDE DEF A, B
<1>6. /\ queue' \in Seq(Caller) /\ Len(queue') = L - 1
      /\ \A i \in 1..Len(queue') : queue'[i] = IF i <= Len(A) THEN A[i] ELSE B[i - Len(A)]
  <2>1. Len(A) + Len(B) = L - 1
    BY <1>2, <1>3, <1>4
  <2>2. /\ queue' \in Seq(Caller) /\ Len(queue') = Len(A) + Len(B)
        /\ \A i \in 1..(Len(A) + Len(B)) :
             queue'[i] = IF i <= Len(A) THEN A[i] ELSE B[i - Len(A)]
    <3>1. A \in Seq(Caller) /\ B \in Seq(Caller)
      BY <1>3, <1>4
    <3>2. QED
      BY <3>1, <1>5, ConcatProperties, Zenon
  <2>3. QED
    BY <2>1, <2>2
<1>7. ASSUME NEW i \in 1..Len(queue')
      PROVE  queue'[i] = IF i < p THEN queue[i] ELSE queue[i + 1]
  <2>1. i \in 1..(L - 1) /\ (i <= Len(A) <=> i < p)
    BY <1>2, <1>3, <1>6
  <2>2. CASE i < p
    <3>1. i \in 1..(p - 1)
      BY <2>1, <2>2, <1>2
    <3>2. QED
      BY <3>1, <2>1, <2>2, <1>3, <1>6
  <2>3. CASE ~(i < p)
    <3>1. i - Len(A) \in 1..(L - p) /\ p + (i - Len(A)) = i + 1
      BY <2>1, <2>3, <1>2, <1>3
    <3>2. B[i - Len(A)] = queue[i + 1]
      BY <3>1, <1>4
    <3>3. QED
      BY <3>2, <2>1, <2>3, <1>6
  <2>4. QED
    BY <2>2, <2>3
<1>8. QED
  BY <1>1, <1>6, <1>7, LosesPosition DEF Stops

\* Nothing happens to the queue.
LEMMA QueueUntouched ==
  ASSUME TypeInv, QueueInv, NEW c \in Caller, NEW k, NEW n, NEW l, Moves(c, k, n, l),
         UNCHANGED queue, call[c].pc # "queued", k.pc # "queued"
  PROVE  queue' \in Seq(Caller) /\ QueueInv'
<1>1. \A d \in Caller : call'[d].pc = "queued" <=> call[d].pc = "queued"
  BY MovesOne
<1>2. QED
  BY <1>1 DEF QueueInv, TypeInv

LEMMA QueueStep ==
  ASSUME TypeInv, QueueInv, NEW c \in Caller, NEW k, NEW n, NEW l, Moves(c, k, n, l)
  PROVE  queue' \in Seq(Caller) /\ QueueInv'
<1>1. CASE Enters(c, k) \/ GoesOn(c, k) \/ Ends(c, k)
  BY <1>1, QueueUntouched DEF Enters, GoesOn, Ends, Holding
<1>2. QED
  BY <1>1, QueuesStep, IsServedStep, StopsStep DEF Moves

LEMMA PermitStep ==
  ASSUME TypeInv, PermitInv, NEW c \in Caller, NEW k, NEW n, NEW l, Moves(c, k, n, l)
  PROVE  permits' \in Nat /\ PermitInv'
<1>0. permits \in Nat /\ Ceiling \in Nat
  BY Constants DEF TypeInv
<1>1. Holders \subseteq Caller /\ IsFiniteSet(Holders) /\ Cardinality(Holders) \in Nat
  BY Constants, FS_Subset, FS_CardinalityType DEF Holders
<1>2. \A d \in Caller : d \in Holders <=> call[d].pc \in Holding
  BY DEF Holders, Holding
<1>3. Holders' = {d \in Caller : call'[d].pc \in Holding}
  BY DEF Holders, Holding
<1>4. ASSUME Queues(c, k) \/ GoesOn(c, k) \/ Stops(c, k)
      PROVE  UNCHANGED permits /\ Holders' = Holders
  <2>1. UNCHANGED permits /\ (call[c].pc \in Holding <=> k.pc \in Holding)
    BY <1>4 DEF Queues, GoesOn, Stops, Holding
  <2>2. \A d \in Caller : call'[d].pc \in Holding <=> call[d].pc \in Holding
    BY <2>1, MovesOne
  <2>3. QED
    BY <2>1, <2>2, <1>1, <1>2, <1>3
<1>5. ASSUME IsServed(c, k)
      PROVE  /\ permits' = permits - 1 /\ permits > 0
             /\ Holders' = Holders \cup {c} /\ c \notin Holders
  BY <1>2, <1>3, <1>5, MovesOne DEF IsServed, Holding, Holders
<1>6. ASSUME Ends(c, k)
      PROVE  /\ permits' = IF Ceiling > 0 THEN permits + 1 ELSE permits
             /\ Holders' = Holders \ {c} /\ c \in Holders
  BY <1>2, <1>3, <1>6, MovesOne DEF Ends, Release, Holding, Holders
<1>7. CASE Ceiling > 0
  <2>0. permits + Cardinality(Holders) = Ceiling
    BY <1>7 DEF PermitInv
  <2>1. ASSUME permits' \in Nat, permits' + Cardinality(Holders') = Ceiling
        PROVE  permits' \in Nat /\ PermitInv'
    BY <2>1, <1>7 DEF PermitInv
  <2>2. CASE Queues(c, k) \/ GoesOn(c, k) \/ Stops(c, k)
    BY <2>2, <2>0, <2>1, <1>0, <1>4
  <2>3. CASE IsServed(c, k)
    <3>1. Cardinality(Holders') = Cardinality(Holders) + 1
      BY <1>1, <1>5, <2>3, FS_AddElement
    <3>2. QED
      BY <3>1, <2>0, <2>1, <2>3, <1>0, <1>1, <1>5
  <2>4. CASE Ends(c, k)
    <3>1. Cardinality(Holders') = Cardinality(Holders) - 1
      BY <1>1, <1>6, <2>4, FS_RemoveElement
    <3>2. QED
      BY <3>1, <2>0, <2>1, <2>4, <1>0, <1>1, <1>6, <1>7
  <2>5. ~Enters(c, k)
    BY <1>7 DEF Enters
  <2>6. QED
    BY <2>2, <2>3, <2>4, <2>5 DEF Moves
<1>8. CASE ~(Ceiling > 0)
  <2>1. queue = <<>> /\ \A d \in Caller : call[d].pc # "queued"
    BY <1>8 DEF PermitInv
  <2>2. Enters(c, k) \/ GoesOn(c, k) \/ Ends(c, k)
    BY <2>1, <1>8 DEF Moves, Queues, IsServed, Stops
  <2>3. UNCHANGED <<permits, queue>> /\ k.pc # "queued"
    BY <2>2, <1>8 DEF Enters, GoesOn, Ends, Release, Holding
  <2>4. \A d \in Caller : call'[d].pc # "queued"
    BY <2>1, <2>3, MovesOne
  <2>5. QED
    BY <2>1, <2>3, <2>4, <1>0, <1>8 DEF PermitInv
<1>9. QED
  BY <1>7, <1>8

------------------------------------------------------------------------------
LEMMA HttpInvInit == Init => HttpInv
<1> SUFFICES ASSUME Init PROVE HttpInv
  OBVIOUS
<1>1. /\ Idle \in Call /\ Idle.pc = "idle" /\ Idle.attempt = 0 /\ Idle.sends = 0
  BY DEF Idle, Call
<1>2. Counted(Idle, 0, 0)
  BY <1>1, Constants DEF Counted
<1>3. TypeInv /\ CountInv /\ QueueInv
  BY <1>1, <1>2, Constants DEF Init, TypeInv, CountInv, QueueInv
<1>4. PermitInv
  <2>1. Holders = {}
    BY <1>1 DEF Init, Holders
  <2>2. Cardinality({}) = 0
    BY FS_EmptySet
  <2>3. QED
    BY <1>1, <2>1, <2>2, Constants DEF Init, PermitInv
<1>5. QED
  BY <1>3, <1>4 DEF HttpInv

LEMMA HttpInvStep == HttpInv /\ [Next]_vars => HttpInv'
<1> SUFFICES ASSUME HttpInv, [Next]_vars PROVE HttpInv'
  OBVIOUS
<1> USE DEF HttpInv
<1>1. CASE UNCHANGED vars
  BY <1>1 DEF vars, TypeInv, CountInv, QueueInv, PermitInv, Holders, Counted
<1>2. ASSUME NEW c \in Caller, NEW k, NEW n, NEW l, Moves(c, k, n, l) PROVE HttpInv'
  <2>1. queue' \in Seq(Caller) /\ QueueInv'
    BY <1>2, QueueStep
  <2>2. permits' \in Nat /\ PermitInv'
    BY <1>2, PermitStep
  <2>3. TypeInv'
    BY <1>2, <2>1, <2>2, MovesOne DEF TypeInv
  <2>4. CountInv'
    BY <1>2, CountStep
  <2>5. QED
    BY <2>1, <2>2, <2>3, <2>4
<1>3. ASSUME NEW c \in Caller, ArriveLate(c) PROVE HttpInv'
  <2>1. UNCHANGED <<permits, queue, call>>
    BY <1>3 DEF ArriveLate
  <2>2. /\ removed' \in [Caller -> Nat] /\ late' \in [Caller -> Nat]
        /\ CountInv'
    BY <1>3, ArriveLateCounts
  <2>3. TypeInv' /\ QueueInv' /\ PermitInv'
    BY <2>1, <2>2 DEF TypeInv, QueueInv, PermitInv, Holders
  <2>4. QED
    BY <2>2, <2>3
<1>4. CASE Next
  BY <1>2, <1>3, <1>4, StepMoves
<1>5. QED
  BY <1>1, <1>4

LEMMA HttpInvHolds == Spec => []HttpInv
  BY HttpInvInit, HttpInvStep, PTL DEF Spec

\* The semaphore of HttpClient::request conserves its permits, and its queue
\* lists each waiting caller once, whatever is retried, lost or dropped.
THEOREM PermitsAreConserved == Spec => []PermitsConserved
<1>1. ASSUME HttpInv, Ceiling > 0
      PROVE  permits + Cardinality(Holders) = Ceiling
  BY <1>1 DEF HttpInv, PermitInv
<1>2. ASSUME HttpInv, NEW c \in Caller
      PROVE  Cardinality({i \in DOMAIN queue : queue[i] = c}) =
               IF call[c].pc = "queued" THEN 1 ELSE 0
  <2>1. CASE call[c].pc = "queued"
    <3>1. PICK p \in DOMAIN queue : queue[p] = c
      BY <1>2, <2>1 DEF HttpInv, QueueInv
    <3>2. {i \in DOMAIN queue : queue[i] = c} = {p}
      BY <1>2, <3>1 DEF HttpInv, QueueInv
    <3>3. QED
      BY <3>2, <2>1, FS_Singleton
  <2>2. CASE call[c].pc # "queued"
    <3>1. {i \in DOMAIN queue : queue[i] = c} = {}
      BY <1>2, <2>2 DEF HttpInv, QueueInv
    <3>2. QED
      BY <3>1, <2>2, FS_EmptySet
  <2>3. QED
    BY <2>1, <2>2
<1>3. HttpInv => PermitsConserved
  BY <1>1, <1>2 DEF PermitsConserved
<1>4. QED
  BY <1>3, HttpInvHolds, PTL

\* However often request() retries a deletion of the latest version, each call
\* deletes at most one version for each attempt it has sent, those that arrive
\* late, even after its end, included; and it sends at most max_retries + 1.
THEOREM EffectsAreBounded == Spec => []EffectsBounded
<1>1. HttpInv => EffectsBounded
  <2> SUFFICES ASSUME HttpInv, NEW c \in Caller
               PROVE  removed[c] <= call[c].sends /\ call[c].sends <= MaxRetries + 1
    BY DEF EffectsBounded
  <2>1. /\ call[c] \in Call /\ removed[c] \in Nat /\ late[c] \in Nat
        /\ Counted(call[c], removed[c], late[c])
    BY DEF HttpInv, TypeInv, CountInv
  <2>2. QED
    BY <2>1, Constants DEF Call, Counted
<1>2. QED
  BY <1>1, HttpInvHolds, PTL

\* request() returns a failure that a retry might cure only after max_retries + 1
\* attempts have been sent.
THEOREM FailuresAreSpent == Spec => FailsOnlyWhenSpent
<1> DEFINE A == \A c \in Caller :
       /\ call[c].pc = "sent" /\ call'[c].pc = "idle"
       /\ IsRetryable(call'[c].answer)
       => call[c].sends = MaxRetries + 1
<1>1. HttpInv /\ [Next]_vars => A
  <2> SUFFICES ASSUME HttpInv, [Next]_vars, NEW c \in Caller,
                      call[c].pc = "sent", call'[c].pc = "idle",
                      IsRetryable(call'[c].answer)
               PROVE  call[c].sends = MaxRetries + 1
    OBVIOUS
  <2>1. /\ call \in [Caller -> Call] /\ Counted(call[c], removed[c], late[c])
        /\ call[c].sends = call[c].attempt + 1 /\ call[c].attempt <= MaxRetries
    BY DEF HttpInv, TypeInv, CountInv, Counted
  <2>2. ~IsRetryable(None)
    BY Constants DEF IsRetryable, Response, Error
  <2>3. ASSUME NEW a \in Response \cup Error, NEW d \in Caller, EndAttempt(d, a)
        PROVE  call[c].sends = MaxRetries + 1
    <3>1. d = c
      BY <2>1, <2>3 DEF EndAttempt
    <3>2. call[c].attempt < MaxRetries => ~(IsRetryableStatus(a) \/ a \in Error)
      <4> SUFFICES ASSUME call[c].attempt < MaxRetries,
                          IsRetryableStatus(a) \/ a \in Error
                   PROVE  FALSE
        OBVIOUS
      <4>1. call' = [call EXCEPT ![c] = [call[c] EXCEPT !.pc = "sleep", !.answer = a]]
        BY <2>1, <2>3, <3>1 DEF EndAttempt
      <4>2. call'[c].pc = "sleep"
        BY <2>1, <4>1 DEF Call
      <4>3. QED
        BY <4>2
    <3>3. ~(call[c].attempt < MaxRetries) => call[c].sends = MaxRetries + 1
      BY <2>1, Constants DEF Call
    <3>4. call[c].attempt < MaxRetries
            => call'[c] = [call[c] EXCEPT !.pc = "idle", !.answer = a]
      BY <2>1, <2>3, <3>1, <3>2 DEF EndAttempt
    <3>5. [call[c] EXCEPT !.pc = "idle", !.answer = a].answer = a
      BY <2>1 DEF Call
    <3>6. IsRetryable(a) => IsRetryableStatus(a) \/ a \in Error
      BY DEF IsRetryable, IsRetryableStatus, Error
    <3>7. QED
      BY <3>2, <3>3, <3>4, <3>5, <3>6
  <2>4. ASSUME NEW d \in Caller, (\E r \in Request : Begin(d, r)) \/ Acquire(d) \/ Send(d)
                                   \/ Wake(d) \/ LoseAnswer(d)
        PROVE  FALSE
    <3>1. call[c].pc = call'[c].pc \/ d = c
      BY <2>1, <2>4 DEF Begin, Acquire, Send, Wake, LoseAnswer
    <3>2. d = c
      BY <3>1
    <3>3. LoseAnswer(c)
      BY <2>4, <3>2 DEF Begin, Acquire, Send, Wake
    <3>4. call'[c] = [call[c] EXCEPT !.arrived = TRUE]
      BY <2>1, <3>3 DEF LoseAnswer
    <3>5. QED
      BY <2>1, <3>4 DEF Call
  <2>5. ASSUME NEW d \in Caller, Drop(d) PROVE FALSE
    <3>1. d = c
      BY <2>1, <2>5 DEF Drop
    <3>2. call'[c] = [call[c] EXCEPT !.pc = "idle", !.answer = None]
      BY <2>1, <2>5, <3>1 DEF Drop
    <3>3. call'[c].answer = None
      BY <2>1, <3>2 DEF Call
    <3>4. QED
      BY <3>3, <2>2
  <2>6. ASSUME NEW d \in Caller, ArriveLate(d) PROVE FALSE
    BY <2>6 DEF ArriveLate
  <2>7. CASE UNCHANGED vars
    BY <2>7 DEF vars
  <2>8. ASSUME NEW d \in Caller, Progress(d)
        PROVE  call[c].sends = MaxRetries + 1
    BY <2>3, <2>4, <2>8 DEF Progress, RejectBody, Answer, Refuse, NetworkError, Error
  <2>9. QED
    BY <2>4, <2>5, <2>6, <2>7, <2>8 DEF Next
<1>2. HttpInv /\ [Next]_vars => [A]_vars
  BY <1>1
<1>3. Spec => [][A]_vars
  BY <1>2, HttpInvHolds, PTL DEF Spec
<1>4. QED
  BY <1>3 DEF FailsOnlyWhenSpent

------------------------------------------------------------------------------
(***************************************************************************)
(* days_from_civil is right for every year, not only for those TLC visits. *)
(***************************************************************************)
LEMMA DivMod400 ==
  ASSUME NEW y \in Int
  PROVE  /\ y \div 400 \in Int /\ y % 400 \in 0..399
         /\ y = 400 * (y \div 400) + (y % 400)
<1>1. y \div 400 \in Int /\ y % 400 \in Int
  BY SMT
<1>2. 0 <= y % 400 /\ y % 400 <= 399
  BY SMT
<1>3. y = 400 * (y \div 400) + (y % 400)
  BY SMT
<1>4. QED
  BY SMT, <1>1, <1>2, <1>3

\* The code's truncating division, with its correction for negative years, is
\* division that rounds down.
LEMMA EraRoundsDown ==
  ASSUME NEW y \in Int
  PROVE  Era(y) = y \div 400 /\ YearOfEra(y) = y % 400
<1>1. Era(y) = y \div 400
  <2>1. CASE y >= 0
    BY SMT, <2>1 DEF Era, Quotient
  <2>2. CASE ~(y >= 0)
    <3>1. Quotient(y - 399, 400) = -((399 - y) \div 400)
      BY SMT, <2>2 DEF Quotient
    <3>2. -((399 - y) \div 400) = y \div 400
      BY SMT, <2>2
    <3>3. QED
      BY SMT, <3>1, <3>2, <2>2 DEF Era
  <2>3. QED
    BY SMT, <2>1, <2>2
<1>2. YearOfEra(y) = y % 400
  BY SMT, <1>1, DivMod400 DEF YearOfEra
<1>3. QED
  BY SMT, <1>1, <1>2

\* Days from 0000-03-01 to the first of March of year y.
MarchFirst(y) ==
  (y \div 400) * 146097 + (y % 400) * 365 + (y % 400) \div 4 - (y % 400) \div 100

LEMMA MarchFirstType == \A y \in Int : MarchFirst(y) \in Int
<1> SUFFICES ASSUME NEW y \in Int PROVE MarchFirst(y) \in Int
  BY SMT
<1>1. PICK q \in Int, r \in Int : q = y \div 400 /\ r = y % 400
  BY SMT, DivMod400
<1>2. q * 146097 + r * 365 + r \div 4 - r \div 100 \in Int
  BY SMT
<1>3. QED
  BY SMT, <1>1, <1>2 DEF MarchFirst

LEMMA DaysFromCivilSplit ==
  ASSUME NEW y \in Int, NEW m \in 1..12, NEW d \in Int
  PROVE  /\ DaysFromCivil(y, m, d) =
              MarchFirst(MarchYear(y, m)) + DayOfYear(m, d) - EpochDay
         /\ MarchFirst(MarchYear(y, m)) \in Int /\ DayOfYear(m, d) \in Int
         /\ DaysFromCivil(y, m, d) \in Int
<1>1. PICK z \in Int : z = MarchYear(y, m)
  BY SMT DEF MarchYear
<1>2. DayOfYear(m, d) \in Int
  BY SMT DEF DayOfYear
<1>3. PICK q \in Int, r \in Int : q = z \div 400 /\ r = z % 400
  BY SMT, DivMod400
<1>4. Era(z) = q /\ YearOfEra(z) = r
  BY SMT, <1>3, EraRoundsDown
<1>5. DaysFromCivil(y, m, d) =
        q * 146097 + (r * 365 + r \div 4 - r \div 100 + DayOfYear(m, d)) - EpochDay
  BY SMT, <1>1, <1>4 DEF DaysFromCivil
<1>6. MarchFirst(z) = q * 146097 + r * 365 + r \div 4 - r \div 100
  BY SMT, <1>3 DEF MarchFirst
<1>7. MarchFirst(z) \in Int
  BY SMT, MarchFirstType
<1>8. DaysFromCivil(y, m, d) = MarchFirst(z) + DayOfYear(m, d) - EpochDay
  BY SMT, <1>2, <1>5, <1>6 DEF EpochDay
<1>9. DaysFromCivil(y, m, d) \in Int
  BY SMT, <1>2, <1>7, <1>8 DEF EpochDay
<1>10. QED
  BY SMT, <1>1, <1>2, <1>7, <1>8, <1>9

\* A year from March to March has the days of the February in it.
LEMMA YearLength ==
  ASSUME NEW y \in Int
  PROVE  MarchFirst(y) - MarchFirst(y - 1) = IF LeapYear(y) THEN 366 ELSE 365
<1>1. PICK e \in Int, r \in 0..399 : y = 400 * e + r
  <2>1. y \div 400 \in Int
    BY SMT, DivMod400
  <2>2. y % 400 \in 0..399
    BY SMT, DivMod400
  <2>3. y = 400 * (y \div 400) + (y % 400)
    BY SMT, DivMod400
  <2> WITNESS y \div 400 \in Int, y % 400 \in 0..399
  <2>4. QED
    BY SMT, <2>3
<1>2. y \div 400 = e /\ y % 400 = r
  BY SMT, <1>1
<1>3. LeapYear(y) <=> r % 4 = 0 /\ (r % 100 # 0 \/ r = 0)
  BY SMT, <1>1 DEF LeapYear
<1>4. CASE r = 0
  <2>1. (y - 1) \div 400 = e - 1 /\ (y - 1) % 400 = 399
    BY SMT, <1>1, <1>4
  <2>2. QED
    BY SMT, <1>1, <1>2, <1>3, <1>4, <2>1 DEF MarchFirst
<1>5. CASE r # 0
  <2>1. (y - 1) \div 400 = e /\ (y - 1) % 400 = r - 1
    BY SMT, <1>1, <1>5
  <2>2. r \div 4 - (r - 1) \div 4 = IF r % 4 = 0 THEN 1 ELSE 0
    BY SMT, <1>1, <1>5
  <2>3. r \div 100 - (r - 1) \div 100 = IF r % 100 = 0 THEN 1 ELSE 0
    BY SMT, <1>1, <1>5
  <2>4. r % 100 = 0 => r % 4 = 0
    BY SMT, <1>1
  <2>5. QED
    BY SMT, <1>1, <1>2, <1>3, <1>5, <2>1, <2>2, <2>3, <2>4 DEF MarchFirst
<1>6. QED
  BY SMT, <1>4, <1>5

\* What the calendar needs for its steps: a date that exists.
DateInv ==
  /\ year \in Int /\ month \in 1..12 /\ day \in 1..DaysInMonth(year, month)
  /\ days \in Int
  /\ CountsDays

LEMMA MonthLengths ==
  ASSUME NEW y \in Int, NEW m \in 1..11, m # 2
  PROVE  DayOfYear(m + 1, 1) = DayOfYear(m, DaysInMonth(y, m)) + 1
<1>1. m \in {1, 3, 4, 5, 6, 7, 8, 9, 10, 11}
  BY SMT
<1>2. QED
  BY SMT, <1>1 DEF DayOfYear, DaysInMonth

\* The day after y-m-d has the next number, for every year y.
LEMMA Consecutive ==
  ASSUME NEW y \in Int, NEW m \in 1..12
  PROVE  /\ \A d \in Int : DaysFromCivil(y, m, d + 1) = DaysFromCivil(y, m, d) + 1
         /\ m < 12 => DaysFromCivil(y, m + 1, 1)
                        = DaysFromCivil(y, m, DaysInMonth(y, m)) + 1
         /\ DaysFromCivil(y + 1, 1, 1) = DaysFromCivil(y, 12, 31) + 1
<1>1. \A d \in Int : DaysFromCivil(y, m, d + 1) = DaysFromCivil(y, m, d) + 1
  <2> SUFFICES ASSUME NEW d \in Int
               PROVE  DaysFromCivil(y, m, d + 1) = DaysFromCivil(y, m, d) + 1
    BY SMT
  <2>1. DayOfYear(m, d + 1) = DayOfYear(m, d) + 1
    BY SMT DEF DayOfYear
  <2>2. /\ DaysFromCivil(y, m, d) =
             MarchFirst(MarchYear(y, m)) + DayOfYear(m, d) - EpochDay
        /\ MarchFirst(MarchYear(y, m)) \in Int /\ DayOfYear(m, d) \in Int
    BY Zenon, DaysFromCivilSplit
  <2>3. DaysFromCivil(y, m, d + 1) =
          MarchFirst(MarchYear(y, m)) + DayOfYear(m, d + 1) - EpochDay
    <3>1. d + 1 \in Int
      BY SMT
    <3>2. QED
      BY Zenon, <3>1, DaysFromCivilSplit
  <2>4. QED
    BY SMT, <2>1, <2>2, <2>3 DEF EpochDay
<1>2. ASSUME m < 12, m # 2
      PROVE  DaysFromCivil(y, m + 1, 1) = DaysFromCivil(y, m, DaysInMonth(y, m)) + 1
  <2>1. DaysInMonth(y, m) \in Int
    BY SMT DEF DaysInMonth
  <2>2. DayOfYear(m + 1, 1) = DayOfYear(m, DaysInMonth(y, m)) + 1
    BY SMT, <1>2, MonthLengths
  <2>3. MarchYear(y, m) = MarchYear(y, m + 1)
    BY SMT, <1>2 DEF MarchYear
  <2>4. m + 1 \in 1..12 /\ 1 \in Int
    BY SMT, <1>2
  <2>5. /\ DaysFromCivil(y, m, DaysInMonth(y, m)) =
             MarchFirst(MarchYear(y, m)) + DayOfYear(m, DaysInMonth(y, m)) - EpochDay
        /\ MarchFirst(MarchYear(y, m)) \in Int /\ DayOfYear(m, DaysInMonth(y, m)) \in Int
    BY Zenon, <2>1, DaysFromCivilSplit
  <2>6. DaysFromCivil(y, m + 1, 1) =
          MarchFirst(MarchYear(y, m + 1)) + DayOfYear(m + 1, 1) - EpochDay
    BY Zenon, <2>4, DaysFromCivilSplit
  <2>7. QED
    BY SMT, <2>2, <2>3, <2>5, <2>6 DEF EpochDay
<1>3. DaysFromCivil(y, 3, 1) = DaysFromCivil(y, 2, DaysInMonth(y, 2)) + 1
  <2>1. DaysInMonth(y, 2) = IF LeapYear(y) THEN 29 ELSE 28
    BY SMT DEF DaysInMonth
  <2>2. DayOfYear(3, 1) = 0
    BY SMT DEF DayOfYear
  <2>3. DayOfYear(2, DaysInMonth(y, 2)) = IF LeapYear(y) THEN 365 ELSE 364
    BY SMT, <2>1 DEF DayOfYear
  <2>4. MarchYear(y, 3) = y /\ MarchYear(y, 2) = y - 1
    BY SMT DEF MarchYear
  <2>5. DaysFromCivil(y, 3, 1) = MarchFirst(y) + 0 - EpochDay
    BY SMT, <2>2, <2>4, DaysFromCivilSplit
  <2>6. DaysFromCivil(y, 2, DaysInMonth(y, 2)) =
          MarchFirst(y - 1) + (IF LeapYear(y) THEN 365 ELSE 364) - EpochDay
    <3>1. DaysInMonth(y, 2) \in Int /\ 2 \in 1..12
      BY SMT, <2>1
    <3>2. DaysFromCivil(y, 2, DaysInMonth(y, 2)) =
            MarchFirst(MarchYear(y, 2)) + DayOfYear(2, DaysInMonth(y, 2)) - EpochDay
      BY Zenon, <3>1, DaysFromCivilSplit
    <3>3. QED
      BY SMT, <3>2, <2>3, <2>4
  <2>7. MarchFirst(y) \in Int /\ MarchFirst(y - 1) \in Int
    BY SMT, MarchFirstType
  <2>8. MarchFirst(y) - MarchFirst(y - 1) = IF LeapYear(y) THEN 366 ELSE 365
    BY SMT, YearLength
  <2>9. QED
    BY SMT, <2>5, <2>6, <2>7, <2>8 DEF EpochDay
<1>4. DaysFromCivil(y + 1, 1, 1) = DaysFromCivil(y, 12, 31) + 1
  <2>1. MarchYear(y + 1, 1) = y /\ MarchYear(y, 12) = y
    BY SMT DEF MarchYear
  <2>2. DayOfYear(1, 1) = 306 /\ DayOfYear(12, 31) = 305
    BY SMT DEF DayOfYear
  <2>3. /\ DaysFromCivil(y + 1, 1, 1) = MarchFirst(y) + 306 - EpochDay
        /\ DaysFromCivil(y, 12, 31) = MarchFirst(y) + 305 - EpochDay
        /\ MarchFirst(y) \in Int
    BY SMT, <2>1, <2>2, DaysFromCivilSplit
  <2>4. QED
    BY SMT, <2>3 DEF EpochDay
<1>5. QED
  BY SMT, <1>1, <1>2, <1>3, <1>4

LEMMA DateInvInit == ClockInit => DateInv
BY SMT DEF ClockInit, DateInv, CountsDays, DaysFromCivil, EpochDay, MarchYear, Era, YearOfEra, DayOfYear,
           Quotient, DaysInMonth

LEMMA DateInvStep == DateInv /\ [ClockNext]_clockVars => DateInv'
<1> SUFFICES ASSUME DateInv, [ClockNext]_clockVars PROVE DateInv'
  BY SMT
<1>t. /\ year \in Int /\ month \in 1..12 /\ day \in 1..DaysInMonth(year, month)
      /\ days \in Int /\ days = DaysFromCivil(year, month, day)
  BY SMT DEF DateInv, CountsDays
<1>m. \A y \in Int, m \in 1..12 : DaysInMonth(y, m) \in 28..31
  BY SMT DEF DaysInMonth
<1>1. CASE NextDay
  <2>1. CASE day < DaysInMonth(year, month) /\ day' = day + 1 /\ UNCHANGED <<year, month>>
    <3>1. days' = DaysFromCivil(year, month, day + 1)
      BY SMT, <1>1, <2>1, <1>t, <1>m, Consecutive DEF NextDay
    <3>2. day' \in 1..DaysInMonth(year, month)
      BY SMT, <2>1, <1>t, <1>m
    <3>3. QED
      BY SMT, <2>1, <3>1, <3>2, <1>1, <1>t DEF DateInv, CountsDays, NextDay
  <2>2. CASE /\ day = DaysInMonth(year, month) /\ month < 12
             /\ day' = 1 /\ month' = month + 1 /\ UNCHANGED year
    <3>1. days' = DaysFromCivil(year, month + 1, 1)
      BY SMT, <1>1, <2>2, <1>t, Consecutive DEF NextDay
    <3>2. month' \in 1..12 /\ day' \in 1..DaysInMonth(year', month')
      BY SMT, <2>2, <1>t, <1>m
    <3>3. QED
      BY SMT, <2>2, <3>1, <3>2, <1>1, <1>t DEF DateInv, CountsDays, NextDay
  <2>3. CASE /\ day = DaysInMonth(year, month) /\ month = 12 /\ year < LastYear
             /\ day' = 1 /\ month' = 1 /\ year' = year + 1
    <3>1. day = 31
      BY SMT, <2>3 DEF DaysInMonth
    <3>2. days' = DaysFromCivil(year + 1, 1, 1)
      BY SMT, <1>1, <2>3, <3>1, <1>t, Consecutive DEF NextDay
    <3>3. year' \in Int /\ day' \in 1..DaysInMonth(year', month')
      BY SMT, <2>3, <1>t, <1>m
    <3>4. QED
      BY SMT, <2>3, <3>2, <3>3, <1>1, <1>t DEF DateInv, CountsDays, NextDay
  <2>4. QED
    BY SMT, <1>1, <2>1, <2>2, <2>3 DEF NextDay
<1>2. CASE PreviousDay
  <2>d. days' = days - 1
    BY SMT, <1>2 DEF PreviousDay
  <2>1. CASE day > 1 /\ day' = day - 1 /\ UNCHANGED <<year, month>>
    <3>1. DaysFromCivil(year, month, day) = DaysFromCivil(year, month, day - 1) + 1
      <4>1. day - 1 \in Int /\ (day - 1) + 1 = day
        BY SMT, <1>t, <1>m
      <4>2. DaysFromCivil(year, month, (day - 1) + 1) =
              DaysFromCivil(year, month, day - 1) + 1
        BY SMT, <4>1, <1>t, Consecutive
      <4>3. QED
        BY SMT, <4>1, <4>2
    <3>2. DaysFromCivil(year, month, day - 1) \in Int
      <4>1. day - 1 \in Int
        BY SMT, <1>t, <1>m
      <4>2. QED
        BY Zenon, <4>1, <1>t, DaysFromCivilSplit
    <3>3. days' = DaysFromCivil(year', month', day')
      BY SMT, <2>d, <2>1, <3>1, <3>2, <1>t
    <3>4. day' \in 1..DaysInMonth(year, month)
      BY SMT, <2>1, <1>t, <1>m
    <3>5. QED
      BY SMT, <2>d, <2>1, <3>3, <3>4, <1>t DEF DateInv, CountsDays
  <2>2. CASE /\ day = 1 /\ month > 1 /\ month' = month - 1
             /\ day' = DaysInMonth(year, month') /\ UNCHANGED year
    <3>1. PICK m \in 1..12 : m = month - 1 /\ m < 12 /\ m + 1 = month
      BY SMT, <2>2, <1>t
    <3>2. DaysFromCivil(year, m + 1, 1) = DaysFromCivil(year, m, DaysInMonth(year, m)) + 1
      BY SMT, <3>1, <1>t, Consecutive
    <3>3. DaysFromCivil(year, m, DaysInMonth(year, m)) \in Int
      <4>1. DaysInMonth(year, m) \in Int
        BY SMT, <1>t, <1>m
      <4>2. QED
        BY Zenon, <4>1, <1>t, DaysFromCivilSplit
    <3>4. days' = DaysFromCivil(year', month', day')
      BY SMT, <2>d, <2>2, <3>1, <3>2, <3>3, <1>t
    <3>5. month' \in 1..12 /\ day' \in 1..DaysInMonth(year', month')
      BY SMT, <2>2, <3>1, <1>t, <1>m
    <3>6. QED
      BY SMT, <2>d, <2>2, <3>4, <3>5, <1>t DEF DateInv, CountsDays
  <2>3. CASE /\ day = 1 /\ month = 1 /\ year > FirstYear
             /\ month' = 12 /\ day' = 31 /\ year' = year - 1
    <3>1. PICK y \in Int : y = year - 1 /\ y + 1 = year
      BY SMT, <1>t
    <3>2. DaysFromCivil(y + 1, 1, 1) = DaysFromCivil(y, 12, 31) + 1
      BY SMT, <3>1, Consecutive
    <3>3. DaysFromCivil(y, 12, 31) \in Int
      BY SMT, DaysFromCivilSplit
    <3>4. days' = DaysFromCivil(year', month', day')
      BY SMT, <2>d, <2>3, <3>1, <3>2, <3>3, <1>t
    <3>5. day' \in 1..DaysInMonth(year', month')
      BY SMT, <2>3 DEF DaysInMonth
    <3>6. QED
      BY SMT, <2>d, <2>3, <3>1, <3>4, <3>5, <1>t DEF DateInv, CountsDays
  <2>4. QED
    BY SMT, <1>2, <2>1, <2>2, <2>3 DEF PreviousDay
<1>3. CASE UNCHANGED clockVars
  BY SMT, <1>3 DEF clockVars, DateInv, CountsDays
<1>4. QED
  BY SMT, <1>1, <1>2, <1>3 DEF ClockNext

\* days_from_civil gives the number of days since 1970-01-01 on every date the
\* calendar reaches, however far it is turned in either direction.
THEOREM DaysAreCounted == ClockSpec => []CountsDays
<1>1. DateInv => CountsDays
  BY DEF DateInv
<1>2. QED
  BY <1>1, DateInvInit, DateInvStep, PTL DEF ClockSpec
------------------------------------------------------------------------------
(***************************************************************************)
(* Induction: a set of numbers has a least one.                            *)
(***************************************************************************)
LEMMA Least ==
  ASSUME NEW T \in SUBSET Nat, T # {}
  PROVE  \E x \in T : \A y \in T : x <= y
<1>1. IsWellFoundedOn(OpToRel(<, Nat), Nat)
  BY NatLessThanWellFounded
<1>2. PICK x \in T : \A y \in T : ~(<<y, x>> \in OpToRel(<, Nat))
  BY <1>1, WFMin
<1>3. \A y \in T : ~(y < x)
  BY <1>2 DEF OpToRel
<1>4. QED
  BY <1>3

\* A set that holds 0 and, with a number, its successor, holds all.
LEMMA Induction ==
  ASSUME NEW T \in SUBSET Nat, 0 \in T, \A n \in T : n + 1 \in T
  PROVE  T = Nat
<1> SUFFICES ASSUME Nat \ T # {} PROVE FALSE
  OBVIOUS
<1>1. PICK x \in Nat \ T : \A y \in Nat \ T : x <= y
  <2>1. Nat \ T \in SUBSET Nat
    OBVIOUS
  <2>2. QED
    BY <2>1, Least
<1>2. x # 0 /\ x - 1 \in Nat /\ (x - 1) + 1 = x
  BY <1>1
<1>3. x - 1 \in T
  BY <1>1, <1>2
<1>4. QED
  BY <1>1, <1>2, <1>3

\* The first n steps of a recursion.
Prefix(f, S, s0, g, n) ==
  /\ f \in [0..n -> S] /\ f[0] = s0
  /\ \A i \in 0..(n - 1) : f[i + 1] = g[i][f[i]]

LEMMA PrefixExists ==
  ASSUME NEW S, NEW s0 \in S, NEW g \in [Nat -> [S -> S]]
  PROVE  \A n \in Nat : \E f : Prefix(f, S, s0, g, n)
<1> DEFINE T == {n \in Nat : \E f : Prefix(f, S, s0, g, n)}
<1>1. 0 \in T
  <2>1. Prefix([i \in 0..0 |-> s0], S, s0, g, 0)
    BY DEF Prefix
  <2>2. QED
    BY <2>1
<1>2. ASSUME NEW n \in T PROVE n + 1 \in T
  <2>1. PICK f : Prefix(f, S, s0, g, n)
    BY <1>2
  <2>2. f \in [0..n -> S] /\ f[0] = s0 /\ \A i \in 0..(n - 1) : f[i + 1] = g[i][f[i]]
    BY <2>1 DEF Prefix
  <2> DEFINE h == [i \in 0..(n + 1) |-> IF i = n + 1 THEN g[n][f[n]] ELSE f[i]]
  <2>3. g[n][f[n]] \in S
    BY <1>2, <2>2
  <2>4. h \in [0..(n + 1) -> S] /\ h[0] = s0
    BY <1>2, <2>2, <2>3
  <2>5. ASSUME NEW i \in 0..n PROVE h[i + 1] = g[i][h[i]]
    <3>1. CASE i = n
      BY <1>2, <3>1
    <3>2. CASE i # n
      BY <1>2, <2>2, <3>2
    <3>3. QED
      BY <3>1, <3>2
  <2>6. Prefix(h, S, s0, g, n + 1)
    <3> HIDE DEF h
    <3>1. (n + 1) - 1 = n
      BY <1>2
    <3>2. QED
      BY <2>4, <2>5, <3>1 DEF Prefix
  <2>7. QED
    BY <1>2, <2>6
<1>3. T = Nat
  <2> HIDE DEF T
  <2>1. T \in SUBSET Nat
    BY DEF T
  <2>2. QED
    BY <1>1, <1>2, <2>1, Induction
<1>4. QED
  BY <1>3

LEMMA PrefixUnique ==
  ASSUME NEW S, NEW s0, NEW g, NEW n \in Nat, NEW m \in Nat, NEW f, NEW h,
         Prefix(f, S, s0, g, n), Prefix(h, S, s0, g, m)
  PROVE  \A i \in Nat : i <= n /\ i <= m => f[i] = h[i]
<1> DEFINE T == {i \in Nat : i <= n /\ i <= m => f[i] = h[i]}
<1>1. 0 \in T
  BY DEF Prefix
<1>2. ASSUME NEW i \in T PROVE i + 1 \in T
  BY DEF Prefix
<1>3. T = Nat
  <2> HIDE DEF T
  <2>1. T \in SUBSET Nat
    BY DEF T
  <2>2. QED
    BY <1>1, <1>2, <2>1, Induction
<1>4. QED
  BY <1>3

Solves(f, S, s0, g) ==
  f \in [Nat -> S] /\ f[0] = s0 /\ \A n \in Nat : f[n + 1] = g[n][f[n]]

\* Functions on the numbers may be defined by recursion.
LEMMA Recursion ==
  ASSUME NEW S, NEW s0 \in S, NEW g \in [Nat -> [S -> S]]
  PROVE  \E f : Solves(f, S, s0, g)
<1> DEFINE p(n) == CHOOSE f : Prefix(f, S, s0, g, n)
<1>1. \A n \in Nat : Prefix(p(n), S, s0, g, n)
  BY PrefixExists
<1> HIDE DEF p
<1> DEFINE f == [n \in Nat |-> p(n)[n]]
<1>2. f \in [Nat -> S]
  <2>1. \A n \in Nat : p(n) \in [0..n -> S] /\ n \in 0..n
    BY <1>1 DEF Prefix
  <2>2. QED
    BY <2>1
<1>3. f[0] = s0
  BY <1>1 DEF Prefix
<1>4. ASSUME NEW n \in Nat PROVE f[n + 1] = g[n][f[n]]
  <2>1. n + 1 \in Nat /\ n \in 0..(n + 1 - 1) /\ n <= n + 1
    OBVIOUS
  <2>2. p(n + 1)[n + 1] = g[n][p(n + 1)[n]]
    BY <1>1, <2>1 DEF Prefix
  <2>3. p(n + 1)[n] = p(n)[n]
    BY <1>1, <2>1, PrefixUnique
  <2>4. QED
    BY <2>1, <2>2, <2>3
<1>5. QED
  BY <1>2, <1>3, <1>4 DEF Solves

------------------------------------------------------------------------------
LEMMA Pow2Defined ==
  /\ Pow2 \in [Nat -> Nat] /\ Pow2[0] = 1
  /\ \A n \in Nat : Pow2[n + 1] = 2 * Pow2[n]
<1> DEFINE step == [n \in Nat |-> [x \in Nat |-> 2 * x]]
           def(f) == [n \in Nat |-> IF n = 0 THEN 1 ELSE 2 * f[n - 1]]
<1>1. step \in [Nat -> [Nat -> Nat]]
  OBVIOUS
<1>2. PICK f \in [Nat -> Nat] : f[0] = 1 /\ \A n \in Nat : f[n + 1] = step[n][f[n]]
  <2> HIDE DEF step
  <2>1. 1 \in Nat
    OBVIOUS
  <2>2. \E f : Solves(f, Nat, 1, step)
    BY <1>1, <2>1, Recursion, Zenon
  <2>3. QED
    BY <2>2 DEF Solves
<1>3. \A n \in Nat : f[n] = IF n = 0 THEN 1 ELSE 2 * f[n - 1]
  <2> SUFFICES ASSUME NEW n \in Nat, n # 0 PROVE f[n] = 2 * f[n - 1]
    BY <1>2
  <2>1. n - 1 \in Nat /\ (n - 1) + 1 = n
    OBVIOUS
  <2>2. f[(n - 1) + 1] = step[n - 1][f[n - 1]]
    BY <1>2, <2>1
  <2>3. QED
    BY <1>2, <2>1, <2>2
<1>4. f = def(f)
  BY <1>3
<1>5. Pow2 = def(Pow2)
  <2>1. Pow2 = CHOOSE p : p = def(p)
    BY DEF Pow2
  <2>2. QED
    BY <1>4, <2>1
<1>6. \A n \in Nat : Pow2[n] = IF n = 0 THEN 1 ELSE 2 * Pow2[n - 1]
  BY <1>5
<1>7. Pow2[0] = 1 /\ \A n \in Nat : Pow2[n + 1] = 2 * Pow2[n]
  BY <1>6
<1> HIDE DEF step, def
<1> DEFINE T == {n \in Nat : Pow2[n] \in Nat}
<1>8. 0 \in T
  BY <1>7
<1>9. ASSUME NEW n \in T PROVE n + 1 \in T
  BY <1>7
<1>10. T = Nat
  <2> HIDE DEF T
  <2>1. T \in SUBSET Nat
    BY DEF T
  <2>2. QED
    BY <1>8, <1>9, <2>1, Induction
<1>11. Pow2 = [n \in Nat |-> Pow2[n]]
  BY <1>5 DEF def
<1>12. \A n \in Nat : Pow2[n] \in Nat
  BY <1>10
<1> HIDE DEF T
<1>13. QED
  BY <1>7, <1>11, <1>12

LEMMA Pow2Grows == \A n, k \in Nat : Pow2[n] >= 1 /\ Pow2[n + k] >= Pow2[n]
<1>1. \A n \in Nat : Pow2[n] >= 1
  <2> DEFINE T == {n \in Nat : Pow2[n] >= 1}
  <2>1. 0 \in T
    BY Pow2Defined
  <2>2. ASSUME NEW n \in T PROVE n + 1 \in T
    BY Pow2Defined
  <2>3. T = Nat
    <3> HIDE DEF T
    <3>1. T \in SUBSET Nat
      BY DEF T
    <3>2. QED
      BY <2>1, <2>2, <3>1, Induction
  <2>4. QED
    BY <2>3
<1>2. ASSUME NEW n \in Nat PROVE \A k \in Nat : Pow2[n + k] >= Pow2[n]
  <2> DEFINE T == {k \in Nat : Pow2[n + k] >= Pow2[n]}
  <2>1. 0 \in T
    BY Pow2Defined
  <2>2. ASSUME NEW k \in T PROVE k + 1 \in T
    <3>1. n + k \in Nat /\ n + (k + 1) = (n + k) + 1
      BY <2>2
    <3>2. Pow2[(n + k) + 1] = 2 * Pow2[n + k] /\ Pow2[n + k] \in Nat /\ Pow2[n] \in Nat
      BY <3>1, Pow2Defined
    <3>3. QED
      BY <2>2, <3>1, <3>2
  <2>3. T = Nat
    <3> HIDE DEF T
    <3>1. T \in SUBSET Nat
      BY DEF T
    <3>2. QED
      BY <2>1, <2>2, <3>1, Induction
  <2>4. QED
    BY <2>3
<1>3. QED
  BY <1>1, <1>2

\* What a sum of the numbers a[1], a[2], ... is.
Sums(f, a) == f = [n \in Nat |-> IF n = 0 THEN 0 ELSE f[n - 1] + a[n]]

LEMMA SumExists ==
  ASSUME NEW a \in [Nat -> Nat]
  PROVE  \E f : Sums(f, a)
<1> DEFINE step == [n \in Nat |-> [x \in Nat |-> x + a[n + 1]]]
<1>1. step \in [Nat -> [Nat -> Nat]]
  OBVIOUS
<1>2. PICK f \in [Nat -> Nat] : f[0] = 0 /\ \A n \in Nat : f[n + 1] = step[n][f[n]]
  <2> HIDE DEF step
  <2>1. 0 \in Nat
    OBVIOUS
  <2>2. \E f : Solves(f, Nat, 0, step)
    BY <1>1, <2>1, Recursion, Zenon
  <2>3. QED
    BY <2>2 DEF Solves
<1>3. \A n \in Nat : f[n] = IF n = 0 THEN 0 ELSE f[n - 1] + a[n]
  <2> SUFFICES ASSUME NEW n \in Nat, n # 0 PROVE f[n] = f[n - 1] + a[n]
    BY <1>2
  <2>1. n - 1 \in Nat /\ (n - 1) + 1 = n
    OBVIOUS
  <2>2. f[(n - 1) + 1] = step[n - 1][f[n - 1]]
    BY <1>2, <2>1
  <2>3. QED
    BY <1>2, <2>1, <2>2
<1>4. Sums(f, a)
  BY <1>3 DEF Sums
<1>5. QED
  BY <1>4

LEMMA SumSteps ==
  ASSUME NEW a \in [Nat -> Nat], NEW f, Sums(f, a)
  PROVE  /\ f \in [Nat -> Nat] /\ f[0] = 0
         /\ \A n \in Nat : f[n + 1] = f[n] + a[n + 1]
<1>1. \A n \in Nat : f[n] = IF n = 0 THEN 0 ELSE f[n - 1] + a[n]
  BY DEF Sums
<1>2. f[0] = 0 /\ \A n \in Nat : f[n + 1] = f[n] + a[n + 1]
  BY <1>1
<1> DEFINE T == {n \in Nat : f[n] \in Nat}
<1>3. 0 \in T
  BY <1>2
<1>4. ASSUME NEW n \in T PROVE n + 1 \in T
  BY <1>2
<1>5. T = Nat
  <2> HIDE DEF T
  <2>1. T \in SUBSET Nat
    BY DEF T
  <2>2. QED
    BY <1>3, <1>4, <2>1, Induction
<1>6. f = [n \in Nat |-> f[n]]
  BY DEF Sums
<1>7. \A n \in Nat : f[n] \in Nat
  BY <1>5
<1> HIDE DEF T
<1>8. QED
  BY <1>2, <1>6, <1>7

LEMMA DaysOfMonthsDefined ==
  ASSUME NEW y \in Int
  PROVE  /\ DaysOfMonths(y) \in [Nat -> Nat] /\ DaysOfMonths(y)[0] = 0
         /\ \A m \in Nat : DaysOfMonths(y)[m + 1] = DaysOfMonths(y)[m] + DaysInMonth(y, m + 1)
<1> DEFINE a == [m \in Nat |-> DaysInMonth(y, m)]
           def(f) == [m \in Nat |-> IF m = 0 THEN 0 ELSE f[m - 1] + DaysInMonth(y, m)]
<1>1. a \in [Nat -> Nat]
  BY DEF DaysInMonth
<1>2. ASSUME NEW f PROVE Sums(f, a) <=> f = def(f)
  <2>1. [n \in Nat |-> IF n = 0 THEN 0 ELSE f[n - 1] + a[n]] = def(f)
    OBVIOUS
  <2>2. QED
    BY <2>1 DEF Sums
<1>3. DaysOfMonths(y) = CHOOSE f : f = def(f)
  BY DEF DaysOfMonths
<1>4. \A m \in Nat : m + 1 \in Nat /\ a[m + 1] = DaysInMonth(y, m + 1)
  OBVIOUS
<1> HIDE DEF a, def
<1>5. Sums(DaysOfMonths(y), a)
  BY <1>1, <1>2, <1>3, SumExists
<1>6. QED
  BY <1>1, <1>4, <1>5, SumSteps

LEMMA DaysOfYearsDefined ==
  /\ DaysOfYears \in [Nat -> Nat] /\ DaysOfYears[0] = 0
  /\ \A n \in Nat : DaysOfYears[n + 1] = DaysOfYears[n] + DaysOfMonths(1970 + n)[12]
<1> DEFINE a == [n \in Nat |-> DaysOfMonths(1969 + n)[12]]
           def(f) == [n \in Nat |-> IF n = 0 THEN 0 ELSE f[n - 1] + DaysOfMonths(1969 + n)[12]]
<1>1. a \in [Nat -> Nat]
  BY DaysOfMonthsDefined
<1>2. ASSUME NEW f PROVE Sums(f, a) <=> f = def(f)
  <2>1. [n \in Nat |-> IF n = 0 THEN 0 ELSE f[n - 1] + a[n]] = def(f)
    OBVIOUS
  <2>2. QED
    BY <2>1 DEF Sums
<1>3. DaysOfYears = CHOOSE f : f = def(f)
  BY DEF DaysOfYears
<1>4. \A n \in Nat : n + 1 \in Nat /\ a[n + 1] = DaysOfMonths(1970 + n)[12]
  OBVIOUS
<1> HIDE DEF a, def
<1>5. Sums(DaysOfYears, a)
  BY <1>1, <1>2, <1>3, SumExists
<1>6. QED
  BY <1>1, <1>4, <1>5, SumSteps

------------------------------------------------------------------------------
(***************************************************************************)
(* days_from_civil agrees with a count of the days month by month.         *)
(***************************************************************************)
LEMMA WithinMonth ==
  ASSUME NEW y \in Int, NEW m \in 1..12, NEW d \in Int
  PROVE  /\ DaysFromCivil(y, m, d) = DaysFromCivil(y, m, 1) + d - 1
         /\ DaysFromCivil(y, m, 1) \in Int /\ DaysFromCivil(y, m, d) \in Int
<1>1. 1 \in Int
  OBVIOUS
<1>2. /\ DaysFromCivil(y, m, d) = MarchFirst(MarchYear(y, m)) + DayOfYear(m, d) - EpochDay
      /\ MarchFirst(MarchYear(y, m)) \in Int /\ DayOfYear(m, d) \in Int
      /\ DaysFromCivil(y, m, d) \in Int
  BY DaysFromCivilSplit, Zenon
<1>3. /\ DaysFromCivil(y, m, 1) = MarchFirst(MarchYear(y, m)) + DayOfYear(m, 1) - EpochDay
      /\ DayOfYear(m, 1) \in Int /\ DaysFromCivil(y, m, 1) \in Int
  BY <1>1, DaysFromCivilSplit, Zenon
<1>4. DayOfYear(m, d) = DayOfYear(m, 1) + d - 1
  BY DEF DayOfYear
<1>5. QED
  BY <1>2, <1>3, <1>4 DEF EpochDay

LEMMA NextMonth ==
  ASSUME NEW y \in Int, NEW m \in 1..12
  PROVE  /\ m < 12 => DaysFromCivil(y, m + 1, 1) = DaysFromCivil(y, m, 1) + DaysInMonth(y, m)
         /\ DaysFromCivil(y + 1, 1, 1) = DaysFromCivil(y, 12, 1) + 31
<1>1. DaysInMonth(y, m) \in Int
  BY DEF DaysInMonth
<1>2. /\ DaysFromCivil(y, m, DaysInMonth(y, m)) = DaysFromCivil(y, m, 1) + DaysInMonth(y, m) - 1
      /\ DaysFromCivil(y, m, 1) \in Int
  BY <1>1, WithinMonth, Zenon
<1>3. /\ DaysFromCivil(y, 12, 31) = DaysFromCivil(y, 12, 1) + 31 - 1
      /\ DaysFromCivil(y, 12, 1) \in Int
  <2>1. 12 \in 1..12 /\ 31 \in Int
    OBVIOUS
  <2>2. QED
    BY <2>1, WithinMonth, Zenon
<1>4. /\ m < 12 => DaysFromCivil(y, m + 1, 1) = DaysFromCivil(y, m, DaysInMonth(y, m)) + 1
      /\ DaysFromCivil(y + 1, 1, 1) = DaysFromCivil(y, 12, 31) + 1
  BY Consecutive
<1>5. QED
  BY <1>1, <1>2, <1>3, <1>4

LEMMA MonthsCounted ==
  ASSUME NEW y \in Int
  PROVE  /\ \A m \in 1..12 : DaysFromCivil(y, m, 1) = DaysFromCivil(y, 1, 1) + DaysOfMonths(y)[m - 1]
         /\ DaysFromCivil(y + 1, 1, 1) = DaysFromCivil(y, 1, 1) + DaysOfMonths(y)[12]
<1>t. \A m \in 1..12 : DaysFromCivil(y, m, 1) \in Int
  BY WithinMonth
<1>d. /\ DaysOfMonths(y) \in [Nat -> Int] /\ DaysOfMonths(y)[0] = 0
      /\ \A m \in Nat : DaysOfMonths(y)[m + 1] = DaysOfMonths(y)[m] + DaysInMonth(y, m + 1)
  BY DaysOfMonthsDefined
<1> DEFINE T == {k \in Nat : k < 12 =>
                   DaysFromCivil(y, k + 1, 1) = DaysFromCivil(y, 1, 1) + DaysOfMonths(y)[k]}
<1>1. 0 \in T
  BY <1>t, <1>d
<1>2. ASSUME NEW k \in T PROVE k + 1 \in T
  <2> SUFFICES ASSUME k + 1 < 12
               PROVE  DaysFromCivil(y, (k + 1) + 1, 1)
                        = DaysFromCivil(y, 1, 1) + DaysOfMonths(y)[k + 1]
    BY <1>2
  <2>1. PICK m \in 1..12 : m = k + 1 /\ m < 12
    BY <1>2
  <2>2. DaysFromCivil(y, m + 1, 1) = DaysFromCivil(y, m, 1) + DaysInMonth(y, m)
    BY <2>1, NextMonth
  <2>3. DaysFromCivil(y, m, 1) = DaysFromCivil(y, 1, 1) + DaysOfMonths(y)[k]
    BY <1>2, <2>1
  <2>4. DaysOfMonths(y)[k + 1] = DaysOfMonths(y)[k] + DaysInMonth(y, k + 1) /\ DaysOfMonths(y)[k] \in Int
    BY <1>2, <1>d
  <2>5. DaysInMonth(y, m) \in Int /\ DaysFromCivil(y, 1, 1) \in Int
    BY <1>t DEF DaysInMonth
  <2>6. DaysFromCivil(y, m + 1, 1) = DaysFromCivil(y, 1, 1) + DaysOfMonths(y)[m]
    BY <2>1, <2>2, <2>3, <2>4, <2>5
  <2>7. QED
    BY <2>1, <2>6
<1>3. T = Nat
  <2> HIDE DEF T
  <2>1. T \in SUBSET Nat
    BY DEF T
  <2>2. QED
    BY <1>1, <1>2, <2>1, Induction
<1>4. ASSUME NEW m \in 1..12
      PROVE  DaysFromCivil(y, m, 1) = DaysFromCivil(y, 1, 1) + DaysOfMonths(y)[m - 1]
  <2>1. PICK k \in Nat : k = m - 1 /\ k < 12 /\ k + 1 = m
    OBVIOUS
  <2>2. k \in T
    BY <1>3
  <2>3. QED
    BY <2>1, <2>2
<1>5. DaysFromCivil(y + 1, 1, 1) = DaysFromCivil(y, 1, 1) + DaysOfMonths(y)[12]
  <2>1. DaysFromCivil(y + 1, 1, 1) = DaysFromCivil(y, 12, 1) + 31
    BY NextMonth
  <2>2. DaysFromCivil(y, 12, 1) = DaysFromCivil(y, 1, 1) + DaysOfMonths(y)[11]
    <3>1. PICK m \in 1..12 : m = 12
      OBVIOUS
    <3>2. DaysFromCivil(y, m, 1) = DaysFromCivil(y, 1, 1) + DaysOfMonths(y)[m - 1]
      BY <1>4
    <3>3. QED
      BY <3>1, <3>2
  <2>3. DaysOfMonths(y)[12] = DaysOfMonths(y)[11] + 31 /\ DaysOfMonths(y)[11] \in Int
    <3>1. DaysInMonth(y, 12) = 31
      BY DEF DaysInMonth
    <3>2. DaysOfMonths(y)[11 + 1] = DaysOfMonths(y)[11] + DaysInMonth(y, 11 + 1)
      BY <1>d
    <3>3. QED
      BY <1>d, <3>1, <3>2
  <2>4. QED
    BY <1>t, <2>1, <2>2, <2>3
<1>6. QED
  BY <1>4, <1>5

LEMMA YearsCounted ==
  \A n \in Nat : DaysFromCivil(1970 + n, 1, 1) = DaysOfYears[n]
<1> DEFINE T == {n \in Nat : DaysFromCivil(1970 + n, 1, 1) = DaysOfYears[n]}
<1>1. 0 \in T
  <2>1. DaysFromCivil(1970, 1, 1) = 0
    BY DEF DaysFromCivil, EpochDay, MarchYear, Era, YearOfEra, DayOfYear, Quotient
  <2>2. QED
    BY <2>1, DaysOfYearsDefined
<1>2. ASSUME NEW n \in T PROVE n + 1 \in T
  <2>1. PICK y \in Int : y = 1970 + n
    BY <1>2
  <2>2. DaysFromCivil(y + 1, 1, 1) = DaysFromCivil(y, 1, 1) + DaysOfMonths(y)[12]
    BY MonthsCounted
  <2>3. DaysOfYears[n + 1] = DaysOfYears[n] + DaysOfMonths(1970 + n)[12]
    BY <1>2, DaysOfYearsDefined
  <2>4. DaysFromCivil(y, 1, 1) = DaysOfYears[n]
    BY <1>2, <2>1
  <2>5. DaysFromCivil(y + 1, 1, 1) = DaysOfYears[n + 1]
    BY <2>1, <2>2, <2>3, <2>4
  <2>6. y + 1 = 1970 + (n + 1)
    BY <1>2, <2>1
  <2>7. QED
    BY <1>2, <2>5, <2>6
<1>3. T = Nat
  <2> HIDE DEF T
  <2>1. T \in SUBSET Nat
    BY DEF T
  <2>2. QED
    BY <1>1, <1>2, <2>1, Induction
<1>4. QED
  BY <1>3

LEMMA BeforeEpoch ==
  ASSUME NEW y \in Int, NEW m \in 1..12, NEW d \in Int
  PROVE  0 <= y /\ y < 1970 /\ 1 <= d /\ d <= 31 => DaysFromCivil(y, m, d) <= -1
<1>1. /\ DaysFromCivil(y, m, d) = MarchFirst(MarchYear(y, m)) + DayOfYear(m, d) - EpochDay
      /\ MarchFirst(MarchYear(y, m)) \in Int /\ DayOfYear(m, d) \in Int
  BY DaysFromCivilSplit, Zenon
<1> SUFFICES ASSUME 0 <= y, y < 1970, 1 <= d, d <= 31
             PROVE  MarchFirst(MarchYear(y, m)) + DayOfYear(m, d) <= 719467
  BY <1>1 DEF EpochDay
<1>2. PICK z \in Int : z = MarchYear(y, m) /\ z >= -1 /\ z <= 1969 /\ (m <= 2 => z <= 1968)
  BY DEF MarchYear
<1>3. DayOfYear(m, d) \in 0..367 /\ (m > 2 => DayOfYear(m, d) <= 305)
  <2>1. m \in {1, 2, 3, 4, 5, 6, 7, 8, 9, 10, 11, 12}
    OBVIOUS
  <2>2. QED
    BY <2>1 DEF DayOfYear
<1>4. PICK q \in Int, r \in 0..399 : q = z \div 400 /\ r = z % 400 /\ z = 400 * q + r
  BY DivMod400
<1>5. MarchFirst(z) = q * 146097 + r * 365 + r \div 4 - r \div 100
  BY <1>4 DEF MarchFirst
<1>6. q <= 4 /\ (q = 4 => r <= 369) /\ (q = 4 /\ m <= 2 => r <= 368)
  <2>1. 400 * q + r <= 1969 /\ (m <= 2 => 400 * q + r <= 1968)
    BY <1>2, <1>4
  <2>2. QED
    BY <1>4, <2>1
<1>7. r \div 4 - r \div 100 <= 96
  BY <1>4
<1>8. r <= 369 => r \div 4 - r \div 100 <= 89
  BY <1>4
<1>9. CASE q <= 3
  <2>1. PICK t \in Int : t = r \div 4 - r \div 100 /\ t <= 96
    BY <1>4, <1>7
  <2>2. MarchFirst(z) = q * 146097 + r * 365 + t
    BY <1>5, <2>1
  <2>3. q * 146097 <= 438291 /\ r * 365 <= 145635
    BY <1>4, <1>9
  <2>4. QED
    BY <1>2, <1>3, <2>1, <2>2, <2>3
<1>10. CASE q = 4
  <2>1. r <= 369 /\ (m <= 2 => r <= 368)
    BY <1>6, <1>10
  <2>2. PICK t \in Int : t = r \div 4 - r \div 100 /\ t <= 89
    BY <1>4, <1>8, <2>1
  <2>3. MarchFirst(z) = 584388 + r * 365 + t
    BY <1>5, <1>10, <2>2
  <2>4. QED
    BY <1>2, <1>3, <2>1, <2>2, <2>3
<1>11. QED
  BY <1>4, <1>6, <1>9, <1>10

CountedAs(n, y, m, d) ==
  /\ DaysFromCivil(y, m, d) = DaysOfYears[n] + DaysOfMonths(y)[m - 1] + d - 1
  /\ DaysOfYears[n] \in Nat /\ DaysOfMonths(y)[m - 1] \in Nat

LEMMA CivilCounted ==
  ASSUME NEW n \in Nat, NEW y \in Int, NEW m \in 1..12, NEW d \in Int
  PROVE  y = 1970 + n => CountedAs(n, y, m, d)
<1>1. DaysFromCivil(1970 + n, 1, 1) = DaysOfYears[n]
  BY YearsCounted
<1>2. DaysOfYears[n] \in Nat
  <2>1. DaysOfYears \in [Nat -> Nat]
    BY DaysOfYearsDefined, Zenon
  <2>2. QED
    BY <2>1
<1>3. DaysFromCivil(y, m, 1) = DaysFromCivil(y, 1, 1) + DaysOfMonths(y)[m - 1]
  BY MonthsCounted
<1>4. DaysOfMonths(y)[m - 1] \in Nat
  <2>1. m - 1 \in Nat
    OBVIOUS
  <2>2. QED
    BY <2>1, DaysOfMonthsDefined
<1>5. DaysFromCivil(y, m, d) = DaysFromCivil(y, m, 1) + d - 1
  BY WithinMonth, Zenon
<1>6. QED
  BY <1>1, <1>2, <1>3, <1>4, <1>5 DEF CountedAs

LEMMA FixdateFields ==
  ASSUME NEW h \in Fixdate
  PROVE  /\ h.year \in Nat /\ h.month \in 1..12 /\ h.day \in Nat
         /\ h.hour \in Nat /\ h.min \in Nat /\ h.sec \in Nat
<1>1. TwoDigits \in Nat /\ FourDigits \in Nat
  BY DEF TwoDigits, FourDigits
<1>2. QED
  BY <1>1 DEF Fixdate

LEMMA DateCounted ==
  ASSUME NEW h \in Fixdate
  PROVE  /\ CountedDays(h) \in Nat /\ DaysFromCivil(h.year, h.month, h.day) \in Int
         /\ h.year >= 1970 =>
              /\ DaysFromCivil(h.year, h.month, h.day) = CountedDays(h) - 1
              /\ CountedDays(h) >= h.day
<1>1. PICK y \in Int, m \in 1..12, d \in Int :
        y = h.year /\ m = h.month /\ d = h.day /\ 0 <= y /\ 0 <= d
  BY FixdateFields
<1>2. CountedDays(h) = IF y < 1970 THEN 0 ELSE DaysOfYears[y - 1970] + DaysOfMonths(y)[m - 1] + d
  BY <1>1 DEF CountedDays
<1>3. DaysFromCivil(y, m, d) \in Int
  BY WithinMonth, Zenon
<1>4. CASE y < 1970
  BY <1>1, <1>2, <1>3, <1>4
<1>5. CASE y >= 1970
  <2>1. PICK n \in Nat : n = y - 1970 /\ y = 1970 + n
    BY <1>5
  <2>2. CountedAs(n, y, m, d)
    BY <2>1, CivilCounted
  <2>3. PICK a \in Nat, b \in Nat : a = DaysOfYears[n] /\ b = DaysOfMonths(y)[m - 1]
    BY <2>2 DEF CountedAs
  <2>4. CountedDays(h) = a + b + d /\ DaysFromCivil(y, m, d) = a + b + d - 1
    BY <1>2, <1>5, <2>1, <2>2, <2>3 DEF CountedAs
  <2>5. d \in Nat
    BY <1>1
  <2>6. CountedDays(h) \in Nat /\ DaysFromCivil(y, m, d) = CountedDays(h) - 1 /\ CountedDays(h) >= d
    BY <2>4, <2>5
  <2>7. QED
    BY <1>1, <1>3, <2>6
<1>6. QED
  BY <1>4, <1>5

------------------------------------------------------------------------------
(***************************************************************************)
(* The retries.  A parsed header is nothing or a number, and it was parsed *)
(* from the header received, by the clock remembered with it.              *)
(***************************************************************************)
Parsed ==
  \E h \in Header, now \in Now :
    h # NoHeader /\ asked = <<h, now>> /\ header = ParseRetryAfter(h, now)

PolicyInv ==
  /\ policy \in Policy /\ attempt \in Nat
  /\ header \in Nat \cup {NoHeader}
  /\ asked = <<>> \/ Parsed

LEMMA Products ==
  ASSUME NEW a \in Int, NEW b \in Int
  PROVE  /\ a * b \in Int
         /\ a >= 0 /\ b >= 0 => a * b >= 0
         /\ (a - 1) * b = a * b - b
         /\ \A c \in Int : a <= c /\ b >= 0 => a * b <= c * b
<1>1. a * b \in Int /\ (a >= 0 /\ b >= 0 => a * b >= 0)
  OBVIOUS
<1>2. (a - 1) * b = a * b - b
  OBVIOUS
<1>3. ASSUME NEW c \in Int, a <= c, b >= 0 PROVE a * b <= c * b
  BY <1>3
<1>4. QED
  BY <1>1, <1>2, <1>3

LEMMA DayType ==
  /\ SecsPerDay \in Nat
  /\ \A h \in Fixdate : SecsOfDay(h) \in Nat
  /\ \A h \in Fixdate : UnixSecs(h) \in Int
<1>1. HoursPerDay \in Nat /\ MinsPerHour \in Nat /\ SecsPerMin \in Nat
  BY PolicyAssumption
<1>2. SecsPerDay \in Nat
  <2>1. HoursPerDay * MinsPerHour \in Nat
    BY <1>1, Products
  <2>2. (HoursPerDay * MinsPerHour) * SecsPerMin \in Nat
    BY <1>1, <2>1, Products
  <2>3. QED
    BY <2>2 DEF SecsPerDay
<1>3. ASSUME NEW h \in Fixdate PROVE SecsOfDay(h) \in Nat
  <2>1. h.hour \in Nat /\ h.min \in Nat /\ h.sec \in Nat
    BY FixdateFields
  <2>2. h.hour * MinsPerHour \in Nat
    BY <1>1, <2>1, Products
  <2>3. (h.hour * MinsPerHour + h.min) * SecsPerMin \in Nat
    <3>1. h.hour * MinsPerHour + h.min \in Nat
      BY <2>1, <2>2
    <3>2. QED
      BY <1>1, <3>1, Products
  <2>4. QED
    BY <2>1, <2>3 DEF SecsOfDay
<1>4. ASSUME NEW h \in Fixdate PROVE UnixSecs(h) \in Int
  <2>1. DaysFromCivil(h.year, h.month, h.day) \in Int
    BY DateCounted
  <2>2. DaysFromCivil(h.year, h.month, h.day) * SecsPerDay \in Int
    BY <1>2, <2>1, Products
  <2>3. QED
    BY <1>3, <2>2 DEF UnixSecs
<1>5. QED
  BY <1>2, <1>3, <1>4

\* The second of a day is at most the day, of a leap second too.
LEMMA DayEnds ==
  ASSUME NEW h \in Fixdate, ValidDate(h)
  PROVE  SecsOfDay(h) <= SecsPerDay
<1>1. HoursPerDay \in Nat /\ MinsPerHour \in Nat /\ SecsPerMin \in Nat
  BY PolicyAssumption
<1>2. /\ h.hour \in Nat /\ h.min \in Nat /\ h.sec \in Nat
      /\ h.hour <= HoursPerDay - 1 /\ h.min <= MinsPerHour - 1 /\ h.sec <= SecsPerMin
  BY <1>1, FixdateFields DEF ValidDate
<1>3. PICK x \in Nat, y \in Nat : x = h.hour * MinsPerHour /\ y = HoursPerDay * MinsPerHour
  BY <1>1, <1>2, Products
<1>4. x <= y - MinsPerHour
  <2>1. (HoursPerDay - 1) * MinsPerHour = y - MinsPerHour
    BY <1>1, <1>3, Products
  <2>2. h.hour * MinsPerHour <= (HoursPerDay - 1) * MinsPerHour
    BY <1>1, <1>2, Products
  <2>3. QED
    BY <1>3, <2>1, <2>2
<1>5. PICK u \in Nat, v \in Nat : u = (x + h.min) * SecsPerMin /\ v = y * SecsPerMin
  <2>1. x + h.min \in Nat
    BY <1>2
  <2>2. QED
    BY <1>1, <2>1, Products
<1>6. u <= v - SecsPerMin
  <2>1. (y - 1) * SecsPerMin = v - SecsPerMin
    BY <1>1, <1>5, Products
  <2>2. x + h.min \in Nat /\ y - 1 \in Int /\ x + h.min <= y - 1
    BY <1>1, <1>2, <1>4
  <2>3. (x + h.min) * SecsPerMin <= (y - 1) * SecsPerMin
    BY <1>1, <2>2, Products
  <2>4. QED
    BY <1>5, <2>1, <2>3
<1>7. SecsOfDay(h) = u + h.sec /\ SecsPerDay = v
  BY <1>3, <1>5 DEF SecsOfDay, SecsPerDay
<1>8. QED
  BY <1>1, <1>2, <1>6, <1>7

\* The wait of the code, from UnixSecs, is the wait counted on the calendar.
LEMMA WaitExact ==
  ASSUME NEW h \in Fixdate, NEW now \in Now,
         ValidDate(h), h.day <= DaysInMonth(h.year, h.month)
  PROVE  LET wait == UnixSecs(h) - UnixSecs(now)
             counted == CountedSecs(h) - CountedSecs(now)
         IN  /\ wait \in Int /\ counted \in Int
             /\ wait = counted \/ (wait <= 0 /\ counted <= 0)
<1>n. now \in Fixdate /\ ValidDate(now) /\ now.year >= 1970
  BY PolicyAssumption, ClockAssumption
<1>1. PICK D \in Nat, a \in Nat, b \in Nat :
        D = SecsPerDay /\ a = SecsOfDay(h) /\ b = SecsOfDay(now)
  BY <1>n, DayType
<1>2. PICK ch \in Nat, cn \in Nat : ch = CountedDays(h) /\ cn = CountedDays(now)
  BY <1>n, DateCounted
<1>3. PICK fh \in Int, fn \in Int : /\ fh = DaysFromCivil(h.year, h.month, h.day)
                                    /\ fn = DaysFromCivil(now.year, now.month, now.day)
  BY <1>n, DateCounted
<1>4. fn = cn - 1 /\ cn >= 1
  <2>1. now.day >= 1 /\ now.day \in Nat
    BY <1>n, FixdateFields DEF ValidDate
  <2>2. QED
    BY <1>n, <1>2, <1>3, <2>1, DateCounted
<1>5. UnixSecs(h) = fh * D + a /\ UnixSecs(now) = fn * D + b
  BY <1>1, <1>3 DEF UnixSecs
<1>6. CountedSecs(h) = ch * D + a /\ CountedSecs(now) = cn * D + b
  BY <1>1, <1>2 DEF CountedSecs
<1>7. fh * D \in Int /\ fn * D \in Int /\ ch * D \in Int /\ cn * D \in Int
  BY Products
<1>8. fn * D = cn * D - D
  BY <1>4, Products
<1>9. CASE h.year >= 1970
  <2>1. fh = ch - 1
    BY <1>2, <1>3, <1>9, DateCounted
  <2>2. fh * D = ch * D - D
    BY <2>1, Products
  <2>3. QED
    BY <1>5, <1>6, <1>7, <1>8, <2>2
<1>10. CASE ~(h.year >= 1970)
  <2>1. fh <= -1
    <3>1. PICK y \in Int, m \in 1..12, d \in Int : y = h.year /\ m = h.month /\ d = h.day
      BY FixdateFields
    <3>2. 0 <= y /\ y < 1970 /\ 1 <= d /\ d <= 31
      BY <1>10, <3>1, FixdateFields DEF ValidDate
    <3>3. DaysFromCivil(y, m, d) <= -1
      BY <3>2, BeforeEpoch
    <3>4. QED
      BY <1>3, <3>1, <3>3
  <2>2. fh * D <= -D
    <3>1. fh * D <= (-1) * D
      BY <2>1, Products
    <3>2. QED
      BY <3>1
  <2>3. a <= D
    BY <1>1, DayEnds
  <2>4. ch = 0
    BY <1>2, <1>10, FixdateFields DEF CountedDays
  <2>5. cn * D >= D
    <3>1. 1 * D <= cn * D
      BY <1>4, Products
    <3>2. QED
      BY <1>7, <3>1
  <2>6. UnixSecs(h) <= 0 /\ UnixSecs(now) >= 0
    BY <1>5, <1>7, <1>8, <2>2, <2>3, <2>5
  <2>7. CountedSecs(h) = a /\ CountedSecs(now) >= D
    BY <1>6, <1>7, <2>4, <2>5
  <2>8. QED
    BY <1>5, <1>6, <1>7, <2>3, <2>6, <2>7
<1>11. QED
  BY <1>9, <1>10

LEMMA WordType ==
  /\ MaxWord \in Nat
  /\ \A d \in Nat : AsMillis(d) \in Nat /\ AsMillis(d) <= MaxWord
<1>1. Width \in Nat /\ NanosPerMilli \in Nat /\ NanosPerMilli > 0
  BY PolicyAssumption
<1>2. Pow2[Width] \in Nat
  <2>1. Pow2 \in [Nat -> Nat]
    BY Pow2Defined, Zenon
  <2>2. QED
    BY <1>1, <2>1
<1>3. Pow2[Width] >= 1
  BY <1>1, Pow2Grows
<1>4. MaxWord \in Nat
  BY <1>2, <1>3 DEF MaxWord
<1>5. ASSUME NEW d \in Nat PROVE AsMillis(d) \in Nat /\ AsMillis(d) <= MaxWord
  <2>1. d \div NanosPerMilli \in Nat
    BY <1>1
  <2>2. QED
    BY <1>4, <2>1 DEF AsMillis, AtMost
<1>6. QED
  BY <1>4, <1>5

LEMMA ParseType ==
  ASSUME NEW h \in Header, NEW now \in Now
  PROVE  /\ ParseRetryAfter(h, now) \in Nat \cup {NoHeader}
         /\ h # NoHeader /\ h.form = "date" => h \in Fixdate
         /\ h # NoHeader /\ h.form = "seconds" => h.secs \in Nat
<1>1. MillisPerSec \in Nat /\ NoHeader \notin Nat
  BY PolicyAssumption
<1>2. h = NoHeader \/ h \in Seconds \/ h \in Fixdate
  BY PolicyAssumption
<1>3. CASE h = NoHeader
  BY <1>3 DEF ParseRetryAfter
<1>4. CASE h # NoHeader /\ h \in Seconds
  <2>1. h.form = "seconds" /\ h.secs \in Nat
    BY <1>4 DEF Seconds
  <2>2. h.secs * MillisPerSec \in Nat
    BY <1>1, <2>1, Products
  <2>3. SaturatingMul(h.secs, MillisPerSec) \in Nat
    BY <2>2, WordType DEF SaturatingMul, AtMost
  <2>4. ParseRetryAfter(h, now) \in Nat \cup {NoHeader}
    BY <1>4, <2>1, <2>3 DEF ParseRetryAfter
  <2>5. QED
    BY <2>1, <2>4
<1>5. CASE h # NoHeader /\ h \in Fixdate
  <2>1. h.form = "date"
    BY <1>5 DEF Fixdate
  <2>2. PICK w \in Int : w = UnixSecs(h) - UnixSecs(now)
    <3>1. now \in Fixdate
      BY PolicyAssumption
    <3>2. UnixSecs(h) \in Int /\ UnixSecs(now) \in Int
      BY <1>5, <3>1, DayType
    <3>3. QED
      BY <3>2
  <2>3. PICK v \in Nat : v = IF w > 0 THEN w ELSE 0
    OBVIOUS
  <2>4. v * MillisPerSec \in Nat
    BY <1>1, Products
  <2>5. QED
    BY <1>5, <2>1, <2>2, <2>3, <2>4 DEF ParseRetryAfter
<1>6. QED
  BY <1>2, <1>3, <1>4, <1>5

LEMMA PolicyInvInit == PolicyInit => PolicyInv
BY DEF PolicyInit, PolicyInv

LEMMA PolicyInvStep == PolicyInv /\ [PolicyNext]_policyVars => PolicyInv'
<1> SUFFICES ASSUME PolicyInv, [PolicyNext]_policyVars PROVE PolicyInv'
  OBVIOUS
<1>1. CASE Retry
  <2>1. PICK h \in Header, now \in Now :
          /\ header' = ParseRetryAfter(h, now)
          /\ asked' = IF h # NoHeader THEN <<h, now>> ELSE <<>>
    BY <1>1 DEF Retry
  <2>2. header' \in Nat \cup {NoHeader}
    BY <2>1, ParseType
  <2>3. asked' = <<>> \/ Parsed'
    BY <2>1 DEF Parsed
  <2>4. policy' \in Policy /\ attempt' \in Nat
    BY <1>1 DEF Retry, PolicyInv
  <2>5. QED
    BY <2>2, <2>3, <2>4 DEF PolicyInv
<1>2. CASE Restart
  BY <1>2 DEF Restart, PolicyInv
<1>3. CASE UNCHANGED policyVars
  BY <1>3 DEF policyVars, PolicyInv, Parsed
<1>4. QED
  BY <1>1, <1>2, <1>3 DEF PolicyNext

\* What parse_retry_after_ms makes of a date of the calendar.
LEMMA DateParsed ==
  ASSUME NEW h \in Header, NEW now \in Now, h # NoHeader, CalendarDate(h)
  PROVE  ParseRetryAfter(h, now) = WaitUntil(h, now)
<1>1. h \in Fixdate /\ h.form = "date" /\ ValidDate(h) /\ h.day <= DaysInMonth(h.year, h.month)
  BY ParseType DEF CalendarDate
<1>2. PICK w \in Int, c \in Int :
        /\ w = UnixSecs(h) - UnixSecs(now) /\ c = CountedSecs(h) - CountedSecs(now)
        /\ w = c \/ (w <= 0 /\ c <= 0)
  BY <1>1, WaitExact
<1>3. ParseRetryAfter(h, now) = (IF w > 0 THEN w ELSE 0) * MillisPerSec
  BY <1>1, <1>2 DEF ParseRetryAfter
<1>4. WaitUntil(h, now) = MillisPerSec * (IF c > 0 THEN c ELSE 0)
  BY <1>2 DEF WaitUntil
<1>5. PICK v \in Int : v = (IF w > 0 THEN w ELSE 0) /\ v = (IF c > 0 THEN c ELSE 0)
  BY <1>2
<1>6. v * MillisPerSec = MillisPerSec * v
  BY PolicyAssumption
<1>7. QED
  BY <1>3, <1>4, <1>5, <1>6

\* The wait parsed from a Retry-After date is exact: parse_retry_after_ms computes,
\* for every date of the calendar and every clock from the epoch on, the time
\* from the one to the other, or none when the date is past.
THEOREM DateWaitsAreExact == PolicySpec => []DateWaitIsExact
<1>1. ASSUME PolicyInv PROVE DateWaitIsExact
  <2> SUFFICES ASSUME asked # <<>>, CalendarDate(asked[1])
               PROVE  header = WaitUntil(asked[1], asked[2])
    BY DEF DateWaitIsExact
  <2>1. PICK h \in Header, now \in Now :
          h # NoHeader /\ asked = <<h, now>> /\ header = ParseRetryAfter(h, now)
    BY <1>1 DEF PolicyInv, Parsed
  <2>2. asked[1] = h /\ asked[2] = now
    BY <2>1
  <2>3. QED
    BY <2>1, <2>2, DateParsed
<1>2. QED
  BY <1>1, PolicyInvInit, PolicyInvStep, PTL DEF PolicySpec

\* Saturating in words of Width bits and capping gives what capping the
\* unbounded product gives, also past the width of the word.
LEMMA CappedExact ==
  ASSUME NEW p \in Policy, NEW n \in Nat
  PROVE  /\ Capped(p, n) \in Nat /\ Capped(p, n) <= AsMillis(p.max_backoff)
         /\ Capped(p, n) = AtMost(AsMillis(p.base_backoff) * Pow2[n], AsMillis(p.max_backoff))
<1>1. PICK b \in Nat, c \in Nat, W \in Nat :
        /\ b = AsMillis(p.base_backoff) /\ c = AsMillis(p.max_backoff) /\ W = MaxWord
        /\ c <= W
  <2>1. p.base_backoff \in Nat /\ p.max_backoff \in Nat
    BY PolicyAssumption
  <2>2. QED
    BY <2>1, WordType
<1>2. Width \in Nat
  BY PolicyAssumption
<1>3. PICK q \in Nat, w \in Nat : q = Pow2[n] /\ w = Pow2[Width] /\ q >= 1 /\ W = w - 1
  <2>1. Pow2 \in [Nat -> Nat]
    BY Pow2Defined, Zenon
  <2>2. Pow2[n] \in Nat /\ Pow2[Width] \in Nat
    BY <1>2, <2>1
  <2>3. Pow2[n] >= 1
    BY Pow2Grows
  <2>4. QED
    BY <1>1, <2>2, <2>3 DEF MaxWord
<1>4. Capped(p, n) = AtMost(AtMost(b * CheckedShl(n), W), c)
  BY <1>1 DEF Capped, SaturatingMul
<1>5. b * q \in Nat /\ b * W \in Nat
  BY <1>1, <1>3, Products
<1>6. CASE n < Width
  <2>1. CheckedShl(n) = q
    BY <1>3, <1>6 DEF CheckedShl
  <2>2. QED
    BY <1>1, <1>3, <1>4, <1>5, <2>1 DEF AtMost
<1>7. CASE ~(n < Width)
  <2>1. CheckedShl(n) = W
    BY <1>1, <1>7 DEF CheckedShl
  <2>2. w <= q
    <3>1. PICK k \in Nat : n = Width + k
      BY <1>2, <1>7
    <3>2. Pow2[Width + k] >= Pow2[Width]
      BY <1>2, Pow2Grows
    <3>3. QED
      BY <1>3, <3>1, <3>2
  <2>3. CASE b = 0
    <3>1. b * W = 0 /\ b * q = 0
      BY <2>3
    <3>2. Capped(p, n) = 0 /\ AtMost(b * q, c) = 0
      BY <1>1, <1>4, <2>1, <3>1 DEF AtMost
    <3>3. QED
      BY <1>1, <1>3, <3>2
  <2>4. CASE b >= 1
    <3>1. 1 * W <= b * W /\ 1 * q <= b * q
      BY <2>4, Products
    <3>2. W <= b * W /\ W < b * q
      BY <1>3, <1>5, <2>2, <3>1
    <3>3. Capped(p, n) = c
      BY <1>1, <1>4, <1>5, <2>1, <3>2 DEF AtMost
    <3>4. AtMost(b * q, c) = c
      BY <1>1, <1>5, <3>2 DEF AtMost
    <3>5. QED
      BY <1>1, <1>3, <3>3, <3>4
  <2>5. QED
    BY <2>3, <2>4
<1>8. QED
  BY <1>6, <1>7

LEMMA JitterHalves ==
  ASSUME NEW p, NEW c \in Nat, NEW d \in Jittered(p, c)
  PROVE  d \in Nat /\ c \div 2 <= d /\ d <= c /\ (~p.jitter => d = c)
<1>1. CASE p.jitter /\ c # 0
  <2>1. PICK r \in 0..(c \div 2) : d = c \div 2 + r
    BY <1>1 DEF Jittered
  <2>2. PICK k \in Nat : k = c \div 2 /\ 2 * k <= c
    OBVIOUS
  <2>3. r \in Nat /\ r <= k /\ d = k + r
    BY <2>1, <2>2
  <2>4. d \in Nat /\ k <= d /\ d <= c
    BY <2>2, <2>3
  <2>5. QED
    BY <1>1, <2>2, <2>4
<1>2. CASE ~(p.jitter /\ c # 0)
  <2>1. d = c
    BY <1>2 DEF Jittered
  <2>2. c \div 2 <= c
    OBVIOUS
  <2>3. QED
    BY <2>1, <2>2
<1>3. QED
  BY <1>1, <1>2

\* delay_for never wraps, whatever the policy and the attempt number.
THEOREM BackoffsAreExact == PolicySpec => BackoffIsExact
<1> DEFINE Exact ==
      attempt' = attempt + 1 /\ (header' = NoHeader \/ ~policy.honor_retry_after) =>
        /\ ExactBackoff \div 2 <= delay' /\ delay' <= ExactBackoff
        /\ ~policy.jitter => delay' = ExactBackoff
<1>1. ASSUME PolicyInv, PolicyNext PROVE Exact
  <2> SUFFICES ASSUME attempt' = attempt + 1,
                      header' = NoHeader \/ ~policy.honor_retry_after
               PROVE  /\ ExactBackoff \div 2 <= delay' /\ delay' <= ExactBackoff
                      /\ ~policy.jitter => delay' = ExactBackoff
    OBVIOUS
  <2>1. policy \in Policy /\ attempt \in Nat
    BY <1>1 DEF PolicyInv
  <2>2. Retry
    BY <1>1, <2>1 DEF PolicyNext, Restart
  <2>3. delay' \in Jittered(policy, Capped(policy, attempt))
    BY <2>2 DEF Retry, DelayFor
  <2>4. Capped(policy, attempt) = ExactBackoff /\ ExactBackoff \in Nat
    BY <2>1, CappedExact DEF ExactBackoff
  <2>5. QED
    BY <2>3, <2>4, JitterHalves
<1>2. QED
  <2>1. PolicyInv /\ [PolicyNext]_policyVars => [Exact]_policyVars
    BY <1>1
  <2>2. QED
    BY <2>1, PolicyInvInit, PolicyInvStep, PTL DEF PolicySpec, BackoffIsExact

\* What parse_retry_after_ms makes of a header it understands is a number that
\* caps to what the wait asked for caps to, whatever its product saturates to.
LEMMA AskedParsed ==
  ASSUME NEW h \in Header, NEW now \in Now, h # NoHeader, Understood(h),
         NEW m \in Nat, m <= MaxWord
  PROVE  /\ ParseRetryAfter(h, now) # NoHeader
         /\ AtMost(ParseRetryAfter(h, now), m) = AtMost(WaitAsked(h, now), m)
<1>1. MillisPerSec \in Nat /\ NoHeader \notin Nat /\ MaxWord \in Nat
  BY PolicyAssumption, WordType
<1>2. CASE h.form = "seconds" /\ h.secs <= MaxWord
  <2>1. PICK x \in Nat : x = h.secs * MillisPerSec
    <3>1. h.secs \in Nat
      BY <1>2, ParseType
    <3>2. QED
      BY <1>1, <3>1, Products
  <2>2. ParseRetryAfter(h, now) = AtMost(x, MaxWord) /\ WaitAsked(h, now) = x
    BY <1>2, <2>1 DEF ParseRetryAfter, SaturatingMul, WaitAsked
  <2>3. AtMost(x, MaxWord) \in Nat /\ AtMost(AtMost(x, MaxWord), m) = AtMost(x, m)
    BY <1>1, <2>1 DEF AtMost
  <2>4. QED
    BY <1>1, <2>2, <2>3
<1>3. CASE CalendarDate(h)
  <2>1. h.form = "date" /\ h \in Fixdate /\ ValidDate(h)
    BY <1>3, ParseType DEF CalendarDate
  <2>2. ParseRetryAfter(h, now) = WaitUntil(h, now) /\ WaitAsked(h, now) = WaitUntil(h, now)
    BY <1>3, <2>1, DateParsed DEF WaitAsked
  <2>3. PICK w \in Int : w = UnixSecs(h) - UnixSecs(now)
    <3>1. now \in Fixdate
      BY PolicyAssumption
    <3>2. UnixSecs(h) \in Int /\ UnixSecs(now) \in Int
      BY <2>1, <3>1, DayType
    <3>3. QED
      BY <3>2
  <2>4. PICK v \in Nat : v = IF w > 0 THEN w ELSE 0
    OBVIOUS
  <2>5. ParseRetryAfter(h, now) = v * MillisPerSec /\ v * MillisPerSec \in Nat
    BY <1>1, <2>1, <2>3, <2>4, Products DEF ParseRetryAfter
  <2>6. QED
    BY <1>1, <2>2, <2>5
<1>4. QED
  BY <1>2, <1>3 DEF Understood

\* From the header received to the sleep, the wait a server asks for is kept
\* exactly, up to max_backoff, which bounds every sleep: for every policy,
\* header, clock and width of the word.
THEOREM ServerWaitsAreKept == PolicySpec => ServerWaitKept
<1> DEFINE Kept ==
      attempt' = attempt + 1 =>
        /\ delay' <= AsMillis(policy.max_backoff)
        /\ policy.honor_retry_after /\ asked' # <<>> /\ Understood(asked'[1]) =>
             delay' = AtMost(WaitAsked(asked'[1], asked'[2]), AsMillis(policy.max_backoff))
<1>1. ASSUME PolicyInv, PolicyInv', PolicyNext PROVE Kept
  <2> SUFFICES ASSUME attempt' = attempt + 1
               PROVE  /\ delay' <= AsMillis(policy.max_backoff)
                      /\ policy.honor_retry_after /\ asked' # <<>> /\ Understood(asked'[1]) =>
                           delay' = AtMost(WaitAsked(asked'[1], asked'[2]),
                                           AsMillis(policy.max_backoff))
    OBVIOUS
  <2>1. policy \in Policy /\ attempt \in Nat /\ header' \in Nat \cup {NoHeader}
    BY <1>1 DEF PolicyInv
  <2>2. PICK m \in Nat : m = AsMillis(policy.max_backoff) /\ m <= MaxWord
    <3>1. policy.max_backoff \in Nat
      BY <2>1, PolicyAssumption
    <3>2. QED
      BY <3>1, WordType
  <2>3. Retry
    BY <1>1, <2>1 DEF PolicyNext, Restart
  <2>4. delay' <= m
    <3>1. CASE policy.honor_retry_after /\ header' # NoHeader
      <4>1. delay' = AtMost(header', m) /\ header' \in Nat
        BY <2>1, <2>2, <2>3, <3>1 DEF Retry, DelayFor
      <4>2. QED
        BY <4>1, <2>2 DEF AtMost
    <3>2. CASE ~(policy.honor_retry_after /\ header' # NoHeader)
      <4>1. delay' \in Jittered(policy, Capped(policy, attempt))
        BY <2>3, <3>2 DEF Retry, DelayFor
      <4>2. Capped(policy, attempt) \in Nat /\ Capped(policy, attempt) <= m
        BY <2>1, <2>2, CappedExact
      <4>3. delay' \in Nat /\ delay' <= Capped(policy, attempt)
        BY <4>1, <4>2, JitterHalves
      <4>4. QED
        BY <2>2, <4>2, <4>3
    <3>3. QED
      BY <3>1, <3>2
  <2>5. ASSUME policy.honor_retry_after, asked' # <<>>, Understood(asked'[1])
        PROVE  delay' = AtMost(WaitAsked(asked'[1], asked'[2]), m)
    <3>1. PICK h \in Header, now \in Now :
            h # NoHeader /\ asked' = <<h, now>> /\ header' = ParseRetryAfter(h, now)
      BY <1>1, <2>5 DEF PolicyInv, Parsed
    <3>2. asked'[1] = h /\ asked'[2] = now
      BY <3>1
    <3>3. Understood(h)
      BY <2>5, <3>2
    <3>4. header' # NoHeader /\ AtMost(header', m) = AtMost(WaitAsked(h, now), m)
      BY <2>2, <3>1, <3>3, AskedParsed
    <3>5. delay' = AtMost(header', m)
      BY <2>2, <2>3, <2>5, <3>4 DEF Retry, DelayFor
    <3>6. QED
      BY <3>2, <3>4, <3>5
  <2>6. QED
    BY <2>2, <2>4, <2>5
<1>2. QED
  <2>1. PolicyInv /\ PolicyInv' /\ [PolicyNext]_policyVars => [Kept]_policyVars
    BY <1>1
  <2>2. QED
    BY <2>1, PolicyInvInit, PolicyInvStep, PTL DEF PolicySpec, ServerWaitKept

------------------------------------------------------------------------------
(***************************************************************************)
(* Varints: what the groups of a number are worth.                         *)
(***************************************************************************)
LEMMA DivMod ==
  ASSUME NEW a \in Nat, NEW b \in Nat \ {0}
  PROVE  /\ a \div b \in Nat /\ a % b \in 0..(b - 1)
         /\ a = b * (a \div b) + (a % b)
<1>1. a \div b \in Int /\ a \div b >= 0
  OBVIOUS
<1>2. a % b \in 0..(b - 1)
  OBVIOUS
<1>3. a = b * (a \div b) + (a % b)
  OBVIOUS
<1>4. QED
  BY <1>1, <1>2, <1>3

\* Quotient and remainder are the only numbers with these two properties.
LEMMA DivModUnique ==
  ASSUME NEW b \in Nat \ {0}, NEW q \in Nat, NEW r \in 0..(b - 1)
  PROVE  (b * q + r) \div b = q /\ (b * q + r) % b = r
<1> DEFINE a == b * q + r
<1>1. a \in Nat
  OBVIOUS
<1>2. PICK p \in Nat : p = a \div b
  BY <1>1, DivMod
<1>3. PICK s \in 0..(b - 1) : s = a % b
  BY <1>1, DivMod
<1>4. b * q + r = b * p + s
  BY <1>1, <1>2, <1>3, DivMod
<1>5. p = q
  <2>1. ASSUME NEW x \in Nat, NEW y \in Nat, NEW u \in 0..(b - 1), NEW v \in 0..(b - 1),
               b * x + u = b * y + v
        PROVE  ~(x > y)
    <3> SUFFICES ASSUME x > y PROVE FALSE
      OBVIOUS
    <3>1. PICK k \in Nat : x = y + 1 + k
      <4>1. x - y - 1 \in Nat /\ x = y + 1 + (x - y - 1)
        OBVIOUS
      <4>2. QED
        BY <4>1
    <3>2. b * x = b * y + b + b * k /\ b * k \in Nat
      BY <3>1
    <3>3. QED
      BY <2>1, <3>2
  <2>2. QED
    BY <1>4, <2>1
<1>6. s = r
  BY <1>4, <1>5
<1>7. QED
  BY <1>2, <1>3, <1>5, <1>6

LEMMA Pow2Add == \A a, b \in Nat : Pow2[a + b] = Pow2[a] * Pow2[b]
<1> SUFFICES ASSUME NEW a \in Nat PROVE \A b \in Nat : Pow2[a + b] = Pow2[a] * Pow2[b]
  OBVIOUS
<1> DEFINE T == {b \in Nat : Pow2[a + b] = Pow2[a] * Pow2[b]}
<1>1. 0 \in T
  BY Pow2Defined
<1>2. ASSUME NEW b \in T PROVE b + 1 \in T
  <2>1. a + b \in Nat /\ b \in Nat /\ a + (b + 1) = (a + b) + 1
    BY <1>2
  <2>2. PICK x \in Nat : x = Pow2[a]
    BY Pow2Defined
  <2>3. PICK y \in Nat : y = Pow2[b]
    BY <2>1, Pow2Defined
  <2>4. Pow2[(a + b) + 1] = 2 * (x * y) /\ Pow2[b + 1] = 2 * y
    BY <1>2, <2>1, <2>2, <2>3, Pow2Defined
  <2>5. 2 * (x * y) = x * (2 * y)
    OBVIOUS
  <2>6. QED
    BY <2>1, <2>2, <2>4, <2>5
<1>3. T = Nat
  <2> HIDE DEF T
  <2>1. T \in SUBSET Nat
    BY DEF T
  <2>2. QED
    BY <1>1, <1>2, <2>1, Induction
<1>4. QED
  BY <1>3

LEMMA Widths ==
  /\ GroupBits \in Nat /\ WordBits \in Nat /\ ValueBits \in Nat
  /\ IdLen \in Nat /\ GuidLen \in Nat /\ MaxIndexCount \in Nat /\ MaxDecompressed \in Nat
  /\ ForeignLen \in Nat
  /\ GroupBits >= 2 /\ ValueBits + 1 <= WordBits
  /\ MaxIndexCount >= 1 /\ MaxIndexCount < Pow2[ValueBits]
  /\ More \in Nat /\ More >= 4
  /\ Pow2[WordBits] \in Nat /\ Pow2[ValueBits] \in Nat /\ Pow2[ValueBits] >= 1
  /\ 2 * Pow2[ValueBits] <= Pow2[WordBits]
<1>1. /\ GroupBits \in Nat /\ WordBits \in Nat /\ ValueBits \in Nat
      /\ IdLen \in Nat /\ GuidLen \in Nat /\ MaxIndexCount \in Nat /\ MaxDecompressed \in Nat
      /\ ForeignLen \in Nat
      /\ GroupBits >= 2 /\ ValueBits + 1 <= WordBits
      /\ MaxIndexCount >= 1 /\ MaxIndexCount < Pow2[ValueBits]
  BY WidthsAssumption
<1>2. More \in Nat /\ More >= 4
  <2>1. GroupBits - 2 \in Nat /\ GroupBits = 2 + (GroupBits - 2)
    BY <1>1
  <2>2. Pow2[2 + (GroupBits - 2)] >= Pow2[2]
    BY <2>1, Pow2Grows
  <2>3. Pow2[2] = 4
    <3>1. Pow2[0 + 1] = 2 * Pow2[0] /\ Pow2[1 + 1] = 2 * Pow2[1] /\ Pow2[0] = 1
      BY Pow2Defined
    <3>2. QED
      BY <3>1
  <2>4. QED
    BY <1>1, <2>1, <2>2, <2>3, Pow2Defined DEF More
<1>3. Pow2[WordBits] \in Nat /\ Pow2[ValueBits] \in Nat /\ Pow2[ValueBits] >= 1
  BY <1>1, Pow2Defined, Pow2Grows
<1>4. 2 * Pow2[ValueBits] <= Pow2[WordBits]
  <2>1. PICK k \in Nat : WordBits = (ValueBits + 1) + k
    <3>1. WordBits - (ValueBits + 1) \in Nat
          /\ WordBits = (ValueBits + 1) + (WordBits - (ValueBits + 1))
      BY <1>1
    <3>2. QED
      BY <3>1
  <2>2. Pow2[(ValueBits + 1) + k] >= Pow2[ValueBits + 1] /\ Pow2[ValueBits + 1] = 2 * Pow2[ValueBits]
    <3>1. ValueBits \in Nat /\ ValueBits + 1 \in Nat
      BY <1>1
    <3>2. QED
      BY <3>1, Pow2Defined, Pow2Grows
  <2>3. QED
    BY <1>1, <2>1, <2>2, <1>3
<1>5. QED
  BY <1>1, <1>2, <1>3, <1>4

LEMMA WeightDefined ==
  /\ Weight \in [Nat -> Nat] /\ Weight[0] = 1
  /\ \A n \in Nat : Weight[n + 1] = More * Weight[n]
  /\ \A n \in Nat : Weight[n] >= 1
<1> DEFINE step == [n \in Nat |-> [x \in Nat |-> More * x]]
           def(f) == [n \in Nat |-> IF n = 0 THEN 1 ELSE More * f[n - 1]]
<1>0. More \in Nat /\ More >= 1
  BY Widths
<1>1. step \in [Nat -> [Nat -> Nat]]
  BY <1>0
<1>2. PICK f \in [Nat -> Nat] : f[0] = 1 /\ \A n \in Nat : f[n + 1] = step[n][f[n]]
  <2> HIDE DEF step
  <2>1. 1 \in Nat
    OBVIOUS
  <2>2. \E f : Solves(f, Nat, 1, step)
    BY <1>1, <2>1, Recursion, Zenon
  <2>3. QED
    BY <2>2 DEF Solves
<1>3. \A n \in Nat : f[n] = IF n = 0 THEN 1 ELSE More * f[n - 1]
  <2> SUFFICES ASSUME NEW n \in Nat, n # 0 PROVE f[n] = More * f[n - 1]
    BY <1>2
  <2>1. n - 1 \in Nat /\ (n - 1) + 1 = n
    OBVIOUS
  <2>2. f[(n - 1) + 1] = step[n - 1][f[n - 1]]
    BY <1>2, <2>1
  <2>3. QED
    BY <1>2, <2>1, <2>2
<1>4. f = def(f)
  BY <1>3
<1>5. Weight = def(Weight)
  <2>1. Weight = CHOOSE p : p = def(p)
    BY DEF Weight
  <2>2. QED
    BY <1>4, <2>1
<1>6. \A n \in Nat : Weight[n] = IF n = 0 THEN 1 ELSE More * Weight[n - 1]
  BY <1>5
<1>7. Weight[0] = 1 /\ \A n \in Nat : Weight[n + 1] = More * Weight[n]
  BY <1>6
<1>8. Weight = [n \in Nat |-> Weight[n]]
  BY <1>5 DEF def
<1> HIDE DEF step, def
<1> DEFINE T == {n \in Nat : Weight[n] \in Nat /\ Weight[n] >= 1}
<1>9. 0 \in T
  BY <1>7
<1>10. ASSUME NEW n \in T PROVE n + 1 \in T
  <2>1. PICK w \in Nat : w = Weight[n] /\ w >= 1
    BY <1>10
  <2>2. More * w \in Nat /\ More * w >= 1
    BY <1>0, <2>1
  <2>3. QED
    BY <1>7, <1>10, <2>1, <2>2
<1>11. T = Nat
  <2> HIDE DEF T
  <2>1. T \in SUBSET Nat
    BY DEF T
  <2>2. QED
    BY <1>9, <1>10, <2>1, Induction
<1>12. \A n \in Nat : Weight[n] \in Nat /\ Weight[n] >= 1
  BY <1>11
<1> HIDE DEF T
<1>13. QED
  BY <1>7, <1>8, <1>12

LEMMA WeightIsPower == \A n \in Nat : Weight[n] = Pow2[GroupBits * n]
<1> DEFINE T == {n \in Nat : Weight[n] = Pow2[GroupBits * n]}
<1>1. 0 \in T
  BY WeightDefined, Pow2Defined, Widths
<1>2. ASSUME NEW n \in T PROVE n + 1 \in T
  <2>1. n \in Nat /\ GroupBits * n \in Nat /\ GroupBits * (n + 1) = GroupBits + GroupBits * n
    BY <1>2, Widths
  <2>2. Pow2[GroupBits + GroupBits * n] = Pow2[GroupBits] * Pow2[GroupBits * n]
    BY <2>1, Pow2Add, Widths
  <2>3. Weight[n + 1] = More * Weight[n]
    BY <2>1, WeightDefined
  <2>4. QED
    BY <1>2, <2>1, <2>2, <2>3 DEF More
<1>3. T = Nat
  <2> HIDE DEF T
  <2>1. T \in SUBSET Nat
    BY DEF T
  <2>2. QED
    BY <1>1, <1>2, <2>1, Induction
<1>4. QED
  BY <1>3

\* A word fits MaxGroups groups.
LEMMA WordFits ==
  /\ MaxGroups \in Nat /\ MaxGroups >= 1
  /\ Pow2[WordBits] <= Weight[MaxGroups]
<1>1. PICK g \in Nat : g = GroupBits
  BY Widths
<1>2. PICK w \in Nat : w = WordBits
  BY Widths
<1>4. g >= 2 /\ w >= 1
  BY <1>1, <1>2, Widths
<1>0. PICK a \in Nat : a = w + g - 1
  BY <1>4
<1>3. PICK q \in Nat : q = a \div g
  BY <1>4, DivMod
<1>5. g * q >= w
  <2>1. PICK r \in 0..(g - 1) : r = a % g
    BY <1>4, DivMod
  <2>2. a = g * q + r
    BY <1>3, <1>4, <2>1, DivMod
  <2>3. g * q \in Nat
    OBVIOUS
  <2>4. QED
    BY <1>0, <2>2, <2>3, <1>4
<1>6. q >= 1
  BY <1>4, <1>5
<1>7. MaxGroups = q
  BY <1>0, <1>1, <1>2, <1>3 DEF MaxGroups
<1>8. PICK k \in Nat : g * q = w + k
  <2>1. g * q - w \in Nat /\ g * q = w + (g * q - w)
    BY <1>5
  <2>2. QED
    BY <2>1
<1>9. Pow2[w + k] >= Pow2[w]
  BY Pow2Grows
<1>10. Weight[q] = Pow2[g * q]
  BY <1>1, WeightIsPower
<1>11. QED
  BY <1>2, <1>6, <1>7, <1>8, <1>9, <1>10

LEMMA MinIsLeast ==
  ASSUME NEW S \in SUBSET Nat, S # {}
  PROVE  Min(S) \in S /\ \A y \in S : Min(S) <= y
<1>1. \E x \in S : \A y \in S : x <= y
  BY Least
<1>2. QED
  BY <1>1 DEF Min

LEMMA VarintLenIs ==
  ASSUME NEW v \in Word
  PROVE  /\ VarintLen(v) \in 1..MaxGroups
         /\ v < Weight[VarintLen(v)]
         /\ \A n \in 1..MaxGroups : v < Weight[n] => VarintLen(v) <= n
<1> DEFINE S == {n \in 1..MaxGroups : v < Weight[n]}
<1>1. S \in SUBSET Nat
  BY WordFits
<1>2. MaxGroups \in S
  BY WordFits, WeightDefined, Widths DEF Word
<1>3. VarintLen(v) = Min(S)
  BY DEF VarintLen
<1>4. Min(S) \in S /\ \A y \in S : Min(S) <= y
  <2> HIDE DEF S
  <2>1. QED
    BY <1>1, <1>2, MinIsLeast
<1>5. QED
  BY <1>3, <1>4

LEMMA VarintBytes ==
  ASSUME NEW v \in Word
  PROVE  /\ writeVarint(v) \in Seq(Byte) /\ Len(writeVarint(v)) = VarintLen(v)
         /\ \A i \in 1..VarintLen(v) :
              /\ writeVarint(v)[i] % More = (v \div Weight[i - 1]) % More
              /\ writeVarint(v)[i] >= More <=> i < VarintLen(v)
<1>1. PICK n \in Nat : n = VarintLen(v)
  BY VarintLenIs, WordFits
<1>2. PICK m \in Nat : m = More /\ m >= 4
  BY Widths
<1> DEFINE d(i) == (v \div Weight[i - 1]) % m
           b(i) == d(i) + (IF i < n THEN m ELSE 0)
<1>3. ASSUME NEW i \in 1..n PROVE d(i) \in 0..(m - 1)
  <2>1. PICK w \in Nat \ {0} : w = Weight[i - 1]
    <3>1. i - 1 \in Nat
      OBVIOUS
    <3>2. Weight[i - 1] \in Nat /\ Weight[i - 1] >= 1
      BY <3>1, WeightDefined
    <3>3. QED
      BY <3>2
  <2>2. v \in Nat
    BY Widths DEF Word
  <2>3. PICK q \in Nat : q = v \div w
    BY <2>1, <2>2, DivMod
  <2>4. q % m \in 0..(m - 1)
    BY <1>2, DivMod
  <2>5. QED
    BY <2>1, <2>3, <2>4
<1>4. ASSUME NEW i \in 1..n PROVE b(i) \in 0..(2 * m - 1) /\ b(i) % m = d(i) /\ (b(i) >= m <=> i < n)
  <2>1. PICK x \in 0..(m - 1) : x = d(i)
    BY <1>3
  <2>2. (m * 0 + x) % m = x /\ (m * 1 + x) % m = x
    BY <1>2, DivModUnique
  <2>3. x % m = x /\ (x + m) % m = x
    BY <1>2, <2>2
  <2> HIDE DEF d
  <2>4. QED
    BY <1>2, <2>1, <2>3
<1>5. writeVarint(v) = [i \in 1..n |-> b(i)]
  BY <1>1, <1>2 DEF writeVarint
<1> HIDE DEF b
<1>6. writeVarint(v) \in Seq(Byte) /\ Len(writeVarint(v)) = n
  <2>1. \A i \in 1..n : b(i) \in Byte
    BY <1>2, <1>4 DEF Byte
  <2>2. QED
    BY <1>5, <2>1
<1>7. QED
  BY <1>1, <1>2, <1>4, <1>5, <1>6 DEF d

\* One more group of a number.
LEMMA DigitsSum ==
  ASSUME NEW v \in Nat, NEW n \in Nat
  PROVE  v % Weight[n + 1] = (v % Weight[n]) + ((v \div Weight[n]) % More) * Weight[n]
<1>1. PICK w \in Nat \ {0} : w = Weight[n]
  BY WeightDefined
<1>2. PICK m \in Nat \ {0} : m = More
  BY Widths
<1>3. Weight[n + 1] = m * w
  BY <1>1, <1>2, WeightDefined
<1>4. PICK q \in Nat : q = v \div w
  BY DivMod
<1>5. PICK r \in 0..(w - 1) : r = v % w
  BY DivMod
<1>6. v = w * q + r
  BY <1>4, <1>5, DivMod
<1>7. PICK p \in Nat : p = q \div m
  BY DivMod
<1>8. PICK d \in 0..(m - 1) : d = q % m
  BY DivMod
<1>9. q = m * p + d
  BY <1>7, <1>8, DivMod
<1>10. d * w + r \in 0..(m * w - 1) /\ m * w \in Nat \ {0}
  <2>1. d * w <= (m - 1) * w
    OBVIOUS
  <2>2. (m - 1) * w = m * w - w /\ d * w \in Nat
    OBVIOUS
  <2>3. QED
    BY <2>1, <2>2
<1>11. v = (m * w) * p + (d * w + r)
  <2>1. w * (m * p + d) = (m * w) * p + d * w
    OBVIOUS
  <2>2. QED
    BY <1>6, <1>9, <2>1
<1>12. v % (m * w) = d * w + r
  <2>1. PICK c \in Nat \ {0} : c = m * w
    BY <1>10
  <2>2. PICK e \in 0..(c - 1) : e = d * w + r
    BY <1>10, <2>1
  <2>3. (c * p + e) % c = e
    BY DivModUnique
  <2>4. QED
    BY <1>11, <2>1, <2>2, <2>3
<1>13. QED
  BY <1>1, <1>2, <1>3, <1>4, <1>5, <1>8, <1>12

LEMMA GroupType ==
  ASSUME NEW data \in Seq(Byte), NEW i \in Nat
  PROVE  Group(data, i) \in 0..(More - 1)
<1>1. More \in Nat \ {0}
  BY Widths
<1>2. CASE i \in DOMAIN data
  <2>1. data[i] \in Nat
    BY <1>1, <1>2 DEF Byte
  <2>2. data[i] % More \in 0..(More - 1)
    BY <1>1, <2>1, DivMod
  <2>3. QED
    BY <1>2, <2>2 DEF Group
<1>3. CASE i \notin DOMAIN data
  BY <1>1, <1>3 DEF Group
<1>4. QED
  BY <1>2, <1>3

LEMMA SpelledDefined ==
  ASSUME NEW data \in Seq(Byte), NEW offset \in Nat
  PROVE  /\ Spelled(data, offset) \in [Nat -> Nat] /\ Spelled(data, offset)[0] = 0
         /\ \A n \in Nat : Spelled(data, offset)[n + 1]
                             = Spelled(data, offset)[n] + Group(data, offset + (n + 1)) * Weight[n]
<1> DEFINE a == [n \in Nat |-> IF n = 0 THEN 0 ELSE Group(data, offset + n) * Weight[n - 1]]
           def(f) == [n \in Nat |-> IF n = 0 THEN 0
                                    ELSE f[n - 1] + Group(data, offset + n) * Weight[n - 1]]
<1>1. a \in [Nat -> Nat]
  <2> SUFFICES ASSUME NEW n \in Nat, n # 0 PROVE Group(data, offset + n) * Weight[n - 1] \in Nat
    OBVIOUS
  <2>1. PICK g \in Nat : g = Group(data, offset + n)
    <3>1. offset + n \in Nat
      OBVIOUS
    <3>2. Group(data, offset + n) \in 0..(More - 1)
      BY <3>1, GroupType
    <3>3. QED
      BY <3>2, Widths
  <2>2. PICK w \in Nat : w = Weight[n - 1]
    <3>1. n - 1 \in Nat
      OBVIOUS
    <3>2. QED
      BY <3>1, WeightDefined
  <2>3. QED
    BY <2>1, <2>2
<1>2. ASSUME NEW f PROVE Sums(f, a) <=> f = def(f)
  <2>1. [n \in Nat |-> IF n = 0 THEN 0 ELSE f[n - 1] + a[n]] = def(f)
    OBVIOUS
  <2>2. QED
    BY <2>1 DEF Sums
<1>3. Spelled(data, offset) = CHOOSE f : f = def(f)
  BY DEF Spelled
<1>4. ASSUME NEW n \in Nat
      PROVE  n + 1 \in Nat /\ a[n + 1] = Group(data, offset + (n + 1)) * Weight[n]
  <2>1. n + 1 \in Nat /\ n + 1 # 0 /\ (n + 1) - 1 = n
    OBVIOUS
  <2>2. QED
    BY <2>1
<1> HIDE DEF a, def
<1>5. Sums(Spelled(data, offset), a)
  BY <1>1, <1>2, <1>3, SumExists
<1>6. /\ Spelled(data, offset) \in [Nat -> Nat] /\ Spelled(data, offset)[0] = 0
      /\ \A n \in Nat : Spelled(data, offset)[n + 1] = Spelled(data, offset)[n] + a[n + 1]
  BY <1>1, <1>5, SumSteps
<1>7. QED
  BY <1>4, <1>6

LEMMA SpelledBound ==
  ASSUME NEW data \in Seq(Byte), NEW offset \in Nat
  PROVE  \A n \in Nat : Spelled(data, offset)[n] < Weight[n]
<1> DEFINE T == {n \in Nat : Spelled(data, offset)[n] < Weight[n]}
<1>1. 0 \in T
  <2>1. Spelled(data, offset)[0] = 0
    BY SpelledDefined
  <2>2. Weight[0] = 1
    BY WeightDefined
  <2>3. Spelled(data, offset)[0] < Weight[0]
    BY <2>1, <2>2
  <2>4. QED
    BY <2>3
<1>2. ASSUME NEW n \in T PROVE n + 1 \in T
  <2>1. PICK s \in Nat : s = Spelled(data, offset)[n]
    BY <1>2, SpelledDefined
  <2>2. PICK w \in Nat : w = Weight[n]
    BY <1>2, WeightDefined
  <2>3. PICK m \in Nat \ {0} : m = More
    BY Widths
  <2>4. PICK g \in 0..(m - 1) : g = Group(data, offset + (n + 1))
    BY <1>2, <2>3, GroupType
  <2>5. s < w
    BY <1>2, <2>1, <2>2
  <2>6. s + g * w < m * w
    <3>1. g * w <= (m - 1) * w
      OBVIOUS
    <3>2. (m - 1) * w = m * w - w /\ g * w \in Nat /\ m * w \in Nat
      OBVIOUS
    <3>3. QED
      BY <2>5, <3>1, <3>2
  <2>7. Weight[n + 1] = m * w
    BY <1>2, <2>2, <2>3, WeightDefined
  <2>8. Spelled(data, offset)[n + 1] = s + g * w
    BY <1>2, <2>1, <2>2, <2>4, SpelledDefined
  <2>9. QED
    BY <1>2, <2>6, <2>7, <2>8
<1>3. T = Nat
  <2> HIDE DEF T
  <2>1. T \in SUBSET Nat
    BY DEF T
  <2>2. QED
    BY <1>1, <1>2, <2>1, Induction
<1>4. QED
  BY <1>3

\* The data hold s from the offset on, as far as they go.
Holds(data, offset, s) ==
  \A i \in 1..Len(s) : offset + i <= Len(data) => data[offset + i] = s[i]

\* The number a written varint spells.
LEMMA SpelledIsWritten ==
  ASSUME NEW data \in Seq(Byte), NEW offset \in Nat, NEW v \in Word,
         Holds(data, offset, writeVarint(v)), offset + VarintLen(v) <= Len(data)
  PROVE  Spelled(data, offset)[VarintLen(v)] = v
<1>1. PICK n \in Nat : n = VarintLen(v)
  BY VarintLenIs, WordFits
<1>2. v \in Nat
  BY Widths DEF Word
<1> DEFINE T == {i \in Nat : i <= n => Spelled(data, offset)[i] = v % Weight[i]}
<1>3. 0 \in T
  <2>1. v % 1 = 0
    BY <1>2
  <2>2. QED
    BY <2>1, SpelledDefined, WeightDefined
<1>4. ASSUME NEW i \in T PROVE i + 1 \in T
  <2> SUFFICES ASSUME i + 1 <= n PROVE Spelled(data, offset)[i + 1] = v % Weight[i + 1]
    BY <1>4
  <2>1. i \in Nat /\ i + 1 \in 1..n /\ (i + 1) - 1 = i /\ offset + (i + 1) \in DOMAIN data
    BY <1>1, <1>4
  <2>2. data[offset + (i + 1)] = writeVarint(v)[i + 1]
    BY <1>1, <2>1, VarintBytes DEF Holds
  <2>3. Group(data, offset + (i + 1)) = (v \div Weight[i]) % More
    BY <1>1, <2>1, <2>2, VarintBytes DEF Group
  <2>4. Spelled(data, offset)[i] = v % Weight[i]
    BY <1>4, <2>1
  <2>5. Spelled(data, offset)[i + 1]
          = Spelled(data, offset)[i] + Group(data, offset + (i + 1)) * Weight[i]
    BY <2>1, SpelledDefined
  <2>6. QED
    BY <1>2, <2>1, <2>3, <2>4, <2>5, DigitsSum
<1>5. T = Nat
  <2> HIDE DEF T
  <2>1. T \in SUBSET Nat
    BY DEF T
  <2>2. QED
    BY <1>3, <1>4, <2>1, Induction
<1>6. Spelled(data, offset)[n] = v % Weight[n]
  BY <1>5
<1> HIDE DEF T
<1>7. v % Weight[n] = v
  <2>1. PICK w \in Nat \ {0} : w = Weight[n]
    BY WeightDefined
  <2>2. v \in 0..(w - 1)
    BY <1>1, <1>2, <2>1, VarintLenIs
  <2>3. (w * 0 + v) % w = v
    BY <2>2, DivModUnique
  <2>4. QED
    BY <1>2, <2>1, <2>3
<1>8. QED
  BY <1>1, <1>6, <1>7

\* A written varint is read back where it is whole, and refused where it is cut.
LEMMA VarintIsRead ==
  ASSUME NEW data \in Seq(Byte), NEW offset \in Nat, NEW v \in Word,
         Holds(data, offset, writeVarint(v))
  PROVE  ReadVarint(data, offset) =
           IF offset + VarintLen(v) <= Len(data)
           THEN [ok |-> TRUE, consumed |-> VarintLen(v), value |-> v] ELSE Err
<1>1. PICK n \in Nat : n = VarintLen(v) /\ n >= 1 /\ n <= MaxGroups
  BY VarintLenIs, WordFits
<1> DEFINE ends == {i \in 1..MaxGroups : offset + i <= Len(data) /\ data[offset + i] < More}
<1>2. ASSUME NEW i \in 1..n, offset + i <= Len(data) PROVE data[offset + i] < More <=> i = n
  <2>1. data[offset + i] = writeVarint(v)[i]
    BY <1>1, <1>2, VarintBytes DEF Holds
  <2>2. data[offset + i] \in Nat
    BY <1>2, Widths DEF Byte
  <2>3. writeVarint(v)[i] >= More <=> i < n
    BY <1>1, VarintBytes
  <2>4. QED
    BY <2>1, <2>2, <2>3, Widths
<1>3. ends \in SUBSET Nat
  BY WordFits
<1>4. ASSUME NEW i \in ends PROVE i >= n
  BY <1>1, <1>2, WordFits
<1>5. CASE offset + n <= Len(data)
  <2>1. n \in ends
    BY <1>1, <1>2, <1>5, WordFits
  <2>2. Min(ends) = n
    <3> HIDE DEF ends
    <3>1. Min(ends) \in ends /\ Min(ends) <= n
      BY <1>3, <2>1, MinIsLeast
    <3>2. Min(ends) >= n /\ Min(ends) \in Nat
      BY <1>3, <1>4, <3>1
    <3>3. QED
      BY <3>1, <3>2
  <2>3. Spelled(data, offset)[n] = v
    BY <1>1, <1>5, SpelledIsWritten
  <2>4. v % Pow2[WordBits] = v
    <3>1. PICK w \in Nat : w = Pow2[WordBits]
      BY Widths
    <3>2. v \in 0..(w - 1)
      BY <3>1 DEF Word
    <3>3. w \in Nat \ {0} /\ 0 \in Nat
      BY <3>2
    <3>5. (w * 0 + v) % w = v
      BY <3>2, <3>3, DivModUnique
    <3>4. QED
      BY <3>1, <3>2, <3>5
  <2>5. ReadVarint(data, offset) = [ok |-> TRUE, consumed |-> Min(ends),
                                    value |-> Spelled(data, offset)[Min(ends)] % Pow2[WordBits]]
    BY <2>1 DEF ReadVarint
  <2> HIDE DEF ends
  <2>6. QED
    BY <1>1, <1>5, <2>2, <2>3, <2>4, <2>5
<1>6. CASE ~(offset + n <= Len(data))
  <2>1. ends = {}
    BY <1>4, <1>6
  <2>2. QED
    BY <1>1, <1>6, <2>1 DEF ReadVarint
<1>7. QED
  BY <1>5, <1>6

LEMMA ReadVarintShape ==
  ASSUME NEW data \in Seq(Byte), NEW offset \in Nat
  PROVE  \/ ReadVarint(data, offset) = Err
         \/ \E n \in 1..MaxGroups :
              /\ ReadVarint(data, offset) =
                   [ok |-> TRUE, consumed |-> n,
                    value |-> Spelled(data, offset)[n] % Pow2[WordBits]]
              /\ offset + n <= Len(data) /\ data[offset + n] < More
              /\ \A i \in 1..(n - 1) : data[offset + i] >= More
<1> DEFINE ends == {i \in 1..MaxGroups : offset + i <= Len(data) /\ data[offset + i] < More}
<1>1. ends \in SUBSET Nat
  BY WordFits
<1>2. CASE ends = {}
  BY <1>2 DEF ReadVarint
<1>3. CASE ends # {}
  <2>1. Min(ends) \in ends /\ \A y \in ends : Min(ends) <= y
    <3> HIDE DEF ends
    <3>1. QED
      BY <1>1, <1>3, MinIsLeast
  <2>2. ReadVarint(data, offset) =
          [ok |-> TRUE, consumed |-> Min(ends),
           value |-> Spelled(data, offset)[Min(ends)] % Pow2[WordBits]]
    BY <1>3 DEF ReadVarint
  <2>3. PICK n \in ends : n = Min(ends)
    BY <2>1
  <2>4. ASSUME NEW i \in 1..(n - 1) PROVE data[offset + i] >= More
    <3>1. n \in 1..MaxGroups /\ offset + n <= Len(data) /\ MaxGroups \in Nat
      BY <2>3, WordFits
    <3>2. i \in 1..MaxGroups /\ offset + i <= Len(data) /\ offset + i \in DOMAIN data /\ ~(n <= i)
      BY <3>1
    <3>3. i \notin ends
      BY <2>1, <2>3, <3>2
    <3>4. data[offset + i] \in Nat
      <4>1. data[offset + i] \in Byte
        BY <3>2
      <4>2. QED
        BY <4>1, Widths DEF Byte
    <3>5. QED
      BY <3>2, <3>3, <3>4, Widths
  <2>5. n \in 1..MaxGroups /\ offset + n <= Len(data) /\ data[offset + n] < More
    BY <2>3
  <2> HIDE DEF ends
  <2>6. QED
    BY <2>2, <2>3, <2>4, <2>5
<1>4. QED
  BY <1>2, <1>3

\* The groups after the n-th are worth a multiple of the weight they begin with.
LEMMA SpelledSplit ==
  ASSUME NEW data \in Seq(Byte), NEW offset \in Nat, NEW n \in Nat
  PROVE  \A k \in Nat : \E c \in Nat :
           Spelled(data, offset)[n + k] = Spelled(data, offset)[n] + Weight[n] * c
<1> DEFINE T == {k \in Nat : \E c \in Nat :
                   Spelled(data, offset)[n + k] = Spelled(data, offset)[n] + Weight[n] * c}
<1>0. PICK s \in Nat : s = Spelled(data, offset)[n]
  BY SpelledDefined
<1>00. PICK w \in Nat : w = Weight[n]
  BY WeightDefined
<1>1. 0 \in T
  <2>1. s = s + w * 0 /\ n + 0 = n
    OBVIOUS
  <2>2. QED
    BY <1>0, <1>00, <2>1
<1>2. ASSUME NEW k \in T PROVE k + 1 \in T
  <2>1. PICK c \in Nat : Spelled(data, offset)[n + k] = s + w * c
    BY <1>0, <1>00, <1>2
  <2>2. PICK g \in Nat : g = Group(data, offset + ((n + k) + 1))
    <3>1. offset + ((n + k) + 1) \in Nat
      BY <1>2
    <3>2. Group(data, offset + ((n + k) + 1)) \in 0..(More - 1)
      BY <3>1, GroupType
    <3>3. QED
      BY <3>2, Widths
  <2>3. PICK d \in Nat : Weight[n + k] = w * d
    <3>1. GroupBits * n \in Nat /\ GroupBits * k \in Nat /\ n + k \in Nat
          /\ GroupBits * (n + k) = GroupBits * n + GroupBits * k
      BY <1>2, Widths
    <3>2. Weight[n + k] = Pow2[GroupBits * n] * Pow2[GroupBits * k]
      <4>1. PICK a \in Nat : a = GroupBits * n
        BY <3>1
      <4>2. PICK b \in Nat : b = GroupBits * k
        BY <3>1
      <4>3. Weight[n + k] = Pow2[a + b]
        BY <3>1, <4>1, <4>2, WeightIsPower
      <4>4. Pow2[a + b] = Pow2[a] * Pow2[b]
        BY Pow2Add
      <4>5. QED
        BY <4>1, <4>2, <4>3, <4>4
    <3>3. Pow2[GroupBits * n] = w
      BY <1>00, WeightIsPower
    <3>4. Pow2[GroupBits * k] \in Nat
      BY <3>1, Pow2Defined
    <3>5. QED
      BY <3>2, <3>3, <3>4
  <2>4. Spelled(data, offset)[(n + k) + 1] = (s + w * c) + g * (w * d)
    <3>1. n + k \in Nat
      BY <1>2
    <3>2. QED
      BY <2>1, <2>2, <2>3, <3>1, SpelledDefined
  <2>5. (s + w * c) + g * (w * d) = s + w * (c + g * d) /\ c + g * d \in Nat
    OBVIOUS
  <2>6. n + (k + 1) = (n + k) + 1 /\ k + 1 \in Nat
    BY <1>2
  <2>7. QED
    BY <1>0, <1>00, <2>4, <2>5, <2>6
<1>3. T = Nat
  <2> HIDE DEF T
  <2>1. T \in SUBSET Nat
    BY DEF T
  <2>2. QED
    BY <1>1, <1>2, <2>1, Induction
<1>4. QED
  BY <1>3

LEMMA SpelledDigit ==
  ASSUME NEW data \in Seq(Byte), NEW offset \in Nat, NEW n \in Nat, NEW i \in 1..n
  PROVE  (Spelled(data, offset)[n] \div Weight[i - 1]) % More = Group(data, offset + i)
<1>1. PICK j \in Nat : i = j + 1
  <2>1. i - 1 \in Nat /\ i = (i - 1) + 1
    OBVIOUS
  <2>2. QED
    BY <2>1
<1>2. PICK k \in Nat : n = (j + 1) + k
  <2>1. n - (j + 1) \in Nat /\ n = (j + 1) + (n - (j + 1))
    BY <1>1
  <2>2. QED
    BY <2>1
<1>3. PICK m \in Nat \ {0} : m = More
  BY Widths
<1>4. PICK w \in Nat \ {0} : w = Weight[j]
  BY WeightDefined
<1>5. PICK g \in 0..(m - 1) : g = Group(data, offset + (j + 1))
  BY <1>3, GroupType
<1>6. PICK s \in 0..(w - 1) : s = Spelled(data, offset)[j]
  <2>1. Spelled(data, offset)[j] \in Nat
    BY SpelledDefined
  <2>2. Spelled(data, offset)[j] < Weight[j]
    BY SpelledBound
  <2>3. QED
    BY <1>4, <2>1, <2>2
<1>7. Spelled(data, offset)[j + 1] = s + g * w
  BY <1>4, <1>5, <1>6, SpelledDefined
<1>8. Weight[j + 1] = m * w
  BY <1>3, <1>4, WeightDefined
<1>9. PICK c \in Nat : Spelled(data, offset)[(j + 1) + k] = (s + g * w) + (m * w) * c
  <2>1. j + 1 \in Nat
    OBVIOUS
  <2>2. \E c \in Nat : Spelled(data, offset)[(j + 1) + k]
                         = Spelled(data, offset)[j + 1] + Weight[j + 1] * c
    <3>1. PICK e \in Nat : e = j + 1
      BY <2>1
    <3>2. \E c \in Nat : Spelled(data, offset)[e + k] = Spelled(data, offset)[e] + Weight[e] * c
      <4>1. \A d \in Nat : \E c \in Nat :
              Spelled(data, offset)[e + d] = Spelled(data, offset)[e] + Weight[e] * c
        BY SpelledSplit, Zenon
      <4>2. QED
        BY <4>1
    <3>3. QED
      BY <3>1, <3>2
  <2>3. QED
    BY <1>7, <1>8, <2>2
<1>10. PICK q \in Nat : q = m * c + g
  OBVIOUS
<1>11. (s + g * w) + (m * w) * c = w * q + s
  BY <1>10
<1>12. (w * q + s) \div w = q
  BY DivModUnique
<1>13. q % m = g
  BY <1>10, DivModUnique
<1>14. QED
  <2>1. i - 1 = j
    BY <1>1
  <2>2. QED
    BY <1>1, <1>2, <1>3, <1>4, <1>5, <1>9, <1>11, <1>12, <1>13, <2>1

LEMMA WeightGrows == \A n, k \in Nat : Weight[n + k] >= Weight[n]
<1> SUFFICES ASSUME NEW n \in Nat, NEW k \in Nat PROVE Weight[n + k] >= Weight[n]
  OBVIOUS
<1>1. GroupBits * n \in Nat /\ GroupBits * k \in Nat /\ n + k \in Nat
      /\ GroupBits * (n + k) = GroupBits * n + GroupBits * k
  BY Widths
<1>2. QED
  BY <1>1, WeightIsPower, Pow2Grows

\* What is read writes back, unless it was padded or has lost bits.
LEMMA VarintReadsBack ==
  ASSUME NEW data \in Seq(Byte), NEW n \in 1..MaxGroups, n <= Len(data), data[n] < More,
         \A i \in 1..(n - 1) : data[i] >= More,
         n > 1 => data[n] # 0,
         Spelled(data, 0)[n] < Pow2[WordBits]
  PROVE  writeVarint(Spelled(data, 0)[n]) = SubSeq(data, 1, n)
<1>0. n \in Nat /\ MaxGroups \in Nat
  BY WordFits
<1>1. PICK v \in Nat : v = Spelled(data, 0)[n]
  BY <1>0, SpelledDefined
<1>2. v \in Word
  BY <1>1, Widths DEF Word
<1>3. PICK m \in Nat \ {0} : m = More /\ m >= 4
  BY Widths
<1>4. ASSUME NEW i \in 1..n
      PROVE  data[i] \in 0..(2 * m - 1) /\ Group(data, 0 + i) = data[i] % m
  <2>1. i \in DOMAIN data /\ 0 + i = i
    BY <1>0
  <2>2. QED
    BY <1>3, <2>1 DEF Byte, Group
<1>5. ASSUME NEW i \in 1..n PROVE (v \div Weight[i - 1]) % m = data[i] % m
  <2>1. (Spelled(data, 0)[n] \div Weight[i - 1]) % More = Group(data, 0 + i)
    BY <1>0, SpelledDigit
  <2>2. QED
    BY <1>1, <1>3, <1>4, <2>1
<1>6. ASSUME NEW x \in 0..(2 * m - 1)
      PROVE  x % m = IF x >= m THEN x - m ELSE x
  <2>1. CASE x >= m
    <3>1. PICK y \in 0..(m - 1) : x = m * 1 + y
      <4>1. x - m \in 0..(m - 1) /\ x = m * 1 + (x - m)
        BY <2>1
      <4>2. QED
        BY <4>1
    <3>2. (m * 1 + y) % m = y
      BY DivModUnique
    <3>3. QED
      BY <2>1, <3>1, <3>2
  <2>2. CASE ~(x >= m)
    <3>1. x \in 0..(m - 1) /\ x = m * 0 + x
      BY <2>2
    <3>2. (m * 0 + x) % m = x
      BY <3>1, DivModUnique
    <3>3. QED
      BY <2>2, <3>1, <3>2
  <2>3. QED
    BY <2>1, <2>2
<1>7. VarintLen(v) = n
  <2>1. v < Weight[n]
    BY <1>0, <1>1, SpelledBound
  <2>2. PICK l \in Nat : l = VarintLen(v) /\ l >= 1 /\ l <= n
    BY <1>0, <1>2, <2>1, VarintLenIs
  <2>3. ASSUME l < n PROVE FALSE
    <3>1. PICK k \in Nat : n = (l + k) + 1
      <4>1. n - l - 1 \in Nat /\ n = (l + (n - l - 1)) + 1
        BY <1>0, <2>2, <2>3
      <4>2. QED
        BY <4>1
    <3>2. PICK w \in Nat : w = Weight[l + k]
      <4>1. l + k \in Nat
        OBVIOUS
      <4>2. QED
        BY <4>1, WeightDefined
    <3>3. v < w
      <4>1. Weight[l + k] >= Weight[l] /\ Weight[l] \in Nat
        BY WeightGrows, WeightDefined
      <4>2. v < Weight[l]
        BY <1>2, <2>2, VarintLenIs
      <4>3. QED
        BY <3>2, <4>1, <4>2
    <3>4. PICK g \in Nat : g = Group(data, 0 + n) /\ g >= 1
      <4>1. data[n] \in 0..(2 * m - 1) /\ Group(data, 0 + n) = data[n] % m
        BY <1>0, <1>4
      <4>2. data[n] # 0 /\ data[n] < m
        BY <1>0, <1>3, <2>2, <2>3
      <4>3. data[n] % m = data[n]
        <5>1. PICK x \in 0..(2 * m - 1) : x = data[n]
          BY <4>1
        <5>2. x % m = IF x >= m THEN x - m ELSE x
          BY <1>6
        <5>3. ~(x >= m)
          BY <4>2, <5>1
        <5>4. QED
          BY <5>1, <5>2, <5>3
      <4>4. QED
        BY <4>1, <4>2, <4>3
    <3>5. v = Spelled(data, 0)[l + k] + g * w
      <4>1. l + k \in Nat
        OBVIOUS
      <4>2. QED
        BY <1>1, <3>1, <3>2, <3>4, <4>1, SpelledDefined
    <3>6. Spelled(data, 0)[l + k] \in Nat
      <4>1. l + k \in Nat
        OBVIOUS
      <4>2. QED
        BY <4>1, SpelledDefined
    <3>7. g * w >= w
      BY <3>4
    <3>8. QED
      BY <3>3, <3>5, <3>6, <3>7
  <2>4. QED
    BY <1>0, <2>2, <2>3
<1>8. ASSUME NEW i \in 1..n
      PROVE  ((v \div Weight[i - 1]) % m) + (IF i < n THEN m ELSE 0) = data[i]
  <2>1. PICK x \in 0..(2 * m - 1) : x = data[i]
    BY <1>4
  <2>2. (v \div Weight[i - 1]) % m = IF x >= m THEN x - m ELSE x
    BY <1>5, <1>6, <2>1
  <2>3. x >= m <=> i < n
    BY <1>0, <1>3, <2>1
  <2>4. QED
    BY <2>1, <2>2, <2>3
<1>9. writeVarint(v) = [i \in 1..n |-> data[i]]
  <2>1. writeVarint(v) = [i \in 1..n |-> ((v \div Weight[i - 1]) % m) + (IF i < n THEN m ELSE 0)]
    BY <1>3, <1>7 DEF writeVarint
  <2>2. QED
    BY <1>8, <2>1
<1>10. SubSeq(data, 1, n) = [i \in 1..n |-> data[i]]
  BY <1>0
<1>11. QED
  BY <1>1, <1>9, <1>10

------------------------------------------------------------------------------
(***************************************************************************)
(* Message indexes: written one after the other and read the same way.     *)
(***************************************************************************)
LEMMA HoldsConcat ==
  ASSUME NEW data \in Seq(Byte), NEW offset \in Nat, NEW s \in Seq(Byte), NEW t \in Seq(Byte),
         Holds(data, offset, s \o t)
  PROVE  Holds(data, offset, s) /\ Holds(data, offset + Len(s), t)
<1>1. Len(s \o t) = Len(s) + Len(t)
  OBVIOUS
<1>2. ASSUME NEW i \in 1..Len(s), offset + i <= Len(data) PROVE data[offset + i] = s[i]
  <2>1. (s \o t)[i] = s[i] /\ i \in 1..Len(s \o t)
    BY <1>1
  <2>2. QED
    BY <1>2, <2>1 DEF Holds
<1>3. ASSUME NEW i \in 1..Len(t), (offset + Len(s)) + i <= Len(data)
      PROVE  data[(offset + Len(s)) + i] = t[i]
  <2>1. PICK j \in 1..Len(s \o t) : j = Len(s) + i
    BY <1>1
  <2>2. (s \o t)[j] = t[i]
    BY <1>1, <2>1
  <2>3. (offset + Len(s)) + i = offset + j
    BY <2>1
  <2>4. QED
    BY <1>3, <2>2, <2>3 DEF Holds
<1>4. QED
  BY <1>2, <1>3 DEF Holds

LEMMA ZigzagInverse ==
  ASSUME NEW n \in Index
  PROVE  /\ ZigzagEncode(n) \in Word
         /\ ZigzagDecode(ZigzagEncode(n)) = [ok |-> TRUE, value |-> n]
<1>1. PICK m \in Nat : m = n /\ m < Pow2[ValueBits]
  BY Widths DEF Index
<1>2. 2 * m \in Word
  BY <1>1, Widths DEF Word
<1>3. (2 * m) % 2 = 0 /\ (2 * m) \div 2 = m
  OBVIOUS
<1>4. ~((2 * m) % 2 = 1 \/ (2 * m) \div 2 >= Pow2[ValueBits])
  BY <1>1, <1>3, Widths
<1>5. ZigzagDecode(2 * m) = [ok |-> TRUE, value |-> m]
  BY <1>3, <1>4 DEF ZigzagDecode
<1>6. QED
  BY <1>1, <1>2, <1>5 DEF ZigzagEncode

\* The bytes and the length of one index.
Coded(n) == writeVarint(ZigzagEncode(n))

LEMMA CodedType ==
  ASSUME NEW n \in Index
  PROVE  Coded(n) \in Seq(Byte) /\ Len(Coded(n)) \in Nat \ {0}
         /\ Len(Coded(n)) = VarintLen(ZigzagEncode(n))
<1>1. ZigzagEncode(n) \in Word
  BY ZigzagInverse
<1>2. QED
  BY <1>1, VarintBytes, VarintLenIs, WordFits DEF Coded

LEMMA IndexIsRead ==
  ASSUME NEW data \in Seq(Byte), NEW offset \in Nat, NEW n \in Index,
         Holds(data, offset, Coded(n))
  PROVE  IndexAt(data, offset) =
           IF offset + Len(Coded(n)) <= Len(data)
           THEN [ok |-> TRUE, value |-> n, end |-> offset + Len(Coded(n))] ELSE Err
<1>1. PICK v \in Word : v = ZigzagEncode(n)
  BY ZigzagInverse
<1>2. PICK l \in Nat : l = Len(Coded(n)) /\ l = VarintLen(v)
  BY <1>1, CodedType
<1>3. ReadVarint(data, offset) =
        IF offset + l <= Len(data) THEN [ok |-> TRUE, consumed |-> l, value |-> v] ELSE Err
  BY <1>1, <1>2, VarintIsRead DEF Coded
<1>4. ZigzagDecode(v) = [ok |-> TRUE, value |-> n]
  BY <1>1, ZigzagInverse
<1>5. CASE offset + l <= Len(data)
  <2>1. ReadVarint(data, offset) = [ok |-> TRUE, consumed |-> l, value |-> v]
    BY <1>3, <1>5
  <2>2. IndexAt(data, offset) = [ok |-> TRUE, value |-> n, end |-> offset + l]
    <3>1. /\ ReadVarint(data, offset).ok /\ ReadVarint(data, offset).value = v
          /\ ReadVarint(data, offset).consumed = l
      BY <2>1
    <3>2. ZigzagDecode(v).ok /\ ZigzagDecode(v).value = n
      BY <1>4
    <3>3. QED
      BY <3>1, <3>2 DEF IndexAt
  <2>3. QED
    BY <1>2, <1>5, <2>2
<1>6. CASE ~(offset + l <= Len(data))
  <2>1. ReadVarint(data, offset) = Err
    BY <1>3, <1>6
  <2>2. IndexAt(data, offset) = Err
    BY <2>1 DEF IndexAt, Err
  <2>3. QED
    BY <1>2, <1>6, <2>2
<1>7. QED
  BY <1>5, <1>6

LEMMA IndexAtType ==
  ASSUME NEW data \in Seq(Byte), NEW offset \in Nat
  PROVE  IndexAt(data, offset) \in {Err} \cup [ok : {TRUE}, value : Nat, end : Nat]
<1>1. CASE ReadVarint(data, offset) = Err
  BY <1>1 DEF IndexAt, Err
<1>2. CASE ReadVarint(data, offset) # Err
  <2>1. PICK n \in 1..MaxGroups :
          ReadVarint(data, offset) = [ok |-> TRUE, consumed |-> n,
                                      value |-> Spelled(data, offset)[n] % Pow2[WordBits]]
    BY <1>2, ReadVarintShape
  <2>2. n \in Nat
    BY WordFits
  <2>3. PICK raw \in Nat : raw = Spelled(data, offset)[n] % Pow2[WordBits]
    <3>1. Spelled(data, offset)[n] \in Nat
      BY <2>2, SpelledDefined
    <3>2. Pow2[WordBits] \in Nat \ {0}
      BY Widths
    <3>3. Spelled(data, offset)[n] % Pow2[WordBits] \in 0..(Pow2[WordBits] - 1)
      BY <3>1, <3>2, DivMod
    <3>4. QED
      BY <3>2, <3>3
  <2>4. raw \div 2 \in Nat
    OBVIOUS
  <2>5. ZigzagDecode(raw) = Err \/ ZigzagDecode(raw) = [ok |-> TRUE, value |-> raw \div 2]
    BY DEF ZigzagDecode
  <2>6. QED
    BY <2>1, <2>2, <2>3, <2>4, <2>5 DEF IndexAt, Err
<1>3. QED
  BY <1>1, <1>2

\* One turn of the loop of IndexesFrom.
Turn(rest, r) ==
  LET next == IF r.ok THEN IndexAt(rest, r.end) ELSE Err
  IN  IF next.ok THEN [ok |-> TRUE, path |-> Append(r.path, next.value), end |-> next.end]
      ELSE Err

ReadSoFar == {Err} \cup [ok : {TRUE}, path : Seq(Nat), end : Nat]

LEMMA TurnType ==
  ASSUME NEW data \in Seq(Byte), NEW r \in ReadSoFar
  PROVE  Turn(data, r) \in ReadSoFar
<1>1. CASE r = Err
  BY <1>1 DEF Turn, ReadSoFar, Err
<1>2. CASE r \in [ok : {TRUE}, path : Seq(Nat), end : Nat]
  <2>1. IndexAt(data, r.end) \in {Err} \cup [ok : {TRUE}, value : Nat, end : Nat]
    BY <1>2, IndexAtType
  <2>2. CASE IndexAt(data, r.end) = Err
    BY <1>2, <2>2 DEF Turn, ReadSoFar, Err
  <2>3. CASE IndexAt(data, r.end) \in [ok : {TRUE}, value : Nat, end : Nat]
    <3>1. Append(r.path, IndexAt(data, r.end).value) \in Seq(Nat)
      BY <1>2, <2>3
    <3>2. QED
      BY <1>2, <2>3, <3>1 DEF Turn, ReadSoFar
  <2>4. QED
    BY <2>1, <2>2, <2>3
<1>3. QED
  BY <1>1, <1>2 DEF ReadSoFar

LEMMA IndexesFromDefined ==
  ASSUME NEW data \in Seq(Byte), NEW start \in Nat
  PROVE  /\ IndexesFrom(data, start)[0] = [ok |-> TRUE, path |-> <<>>, end |-> start]
         /\ \A k \in Nat : IndexesFrom(data, start)[k + 1] = Turn(data, IndexesFrom(data, start)[k])
<1> DEFINE s0 == [ok |-> TRUE, path |-> <<>>, end |-> start]
           step == [k \in Nat |-> [r \in ReadSoFar |-> Turn(data, r)]]
           def(f) == [k \in Nat |-> IF k = 0 THEN s0 ELSE Turn(data, f[k - 1])]
<1>1. s0 \in ReadSoFar
  BY DEF ReadSoFar
<1>2. step \in [Nat -> [ReadSoFar -> ReadSoFar]]
  BY TurnType
<1>3. PICK f \in [Nat -> ReadSoFar] : f[0] = s0 /\ \A k \in Nat : f[k + 1] = step[k][f[k]]
  <2> HIDE DEF step, s0
  <2>1. \E f : Solves(f, ReadSoFar, s0, step)
    BY <1>1, <1>2, Recursion, Zenon
  <2>2. QED
    BY <2>1 DEF Solves
<1>4. \A k \in Nat : f[k] = IF k = 0 THEN s0 ELSE Turn(data, f[k - 1])
  <2> HIDE DEF s0
  <2> SUFFICES ASSUME NEW k \in Nat, k # 0 PROVE f[k] = Turn(data, f[k - 1])
    BY <1>3
  <2>1. k - 1 \in Nat /\ (k - 1) + 1 = k
    OBVIOUS
  <2>2. f[(k - 1) + 1] = step[k - 1][f[k - 1]] /\ f[k - 1] \in ReadSoFar
    BY <1>3, <2>1
  <2>3. QED
    BY <2>1, <2>2
<1>5. f = def(f)
  BY <1>3, <1>4
<1>6. IndexesFrom(data, start) = CHOOSE g : g = def(g)
  BY DEF IndexesFrom, Turn
<1>7. IndexesFrom(data, start) = def(IndexesFrom(data, start))
  <2> HIDE DEF def
  <2>1. QED
    BY <1>5, <1>6
<1> HIDE DEF s0
<1>8. \A k \in Nat : IndexesFrom(data, start)[k]
                       = IF k = 0 THEN s0 ELSE Turn(data, IndexesFrom(data, start)[k - 1])
  BY <1>7
<1> HIDE DEF def
<1>9. ASSUME NEW k \in Nat
      PROVE  IndexesFrom(data, start)[k + 1] = Turn(data, IndexesFrom(data, start)[k])
  <2>1. k + 1 \in Nat /\ k + 1 # 0 /\ (k + 1) - 1 = k
    OBVIOUS
  <2>2. QED
    BY <1>8, <2>1
<1>10. QED
  BY <1>8, <1>9 DEF s0

LEMMA WrittenDefined ==
  ASSUME NEW numbers \in Seq(Index)
  PROVE  /\ Written(numbers) \in [0..Len(numbers) -> Seq(Byte)]
         /\ Written(numbers)[0] = <<>>
         /\ \A k \in 0..(Len(numbers) - 1) :
              Written(numbers)[k + 1] = Written(numbers)[k] \o Coded(numbers[k + 1])
<1>0. PICK N \in Nat : N = Len(numbers)
  OBVIOUS
<1>00. \A k \in 1..N : numbers[k] \in Index
  BY <1>0
<1> DEFINE S == Seq(Byte)
           step == [k \in Nat |-> [b \in S |-> IF k + 1 \in 1..N THEN b \o Coded(numbers[k + 1])
                                                                 ELSE b]]
           def(f) == [k \in 0..N |-> IF k = 0 THEN <<>> ELSE f[k - 1] \o Coded(numbers[k])]
<1>1. step \in [Nat -> [S -> S]]
  <2> SUFFICES ASSUME NEW k \in Nat, NEW b \in S, k + 1 \in 1..N
               PROVE  b \o Coded(numbers[k + 1]) \in S
    OBVIOUS
  <2>1. Coded(numbers[k + 1]) \in S
    BY <1>00, CodedType
  <2>2. QED
    BY <2>1
<1>2. PICK f : Prefix(f, S, <<>>, step, N)
  <2>1. <<>> \in S
    OBVIOUS
  <2> HIDE DEF step, S
  <2>2. QED
    BY <1>1, <2>1, PrefixExists, Zenon
<1>3. /\ f \in [0..N -> S] /\ f[0] = <<>>
      /\ \A i \in 0..(N - 1) : f[i + 1] = step[i][f[i]]
  <2> HIDE DEF step, S
  <2>1. QED
    BY <1>2 DEF Prefix
<1>4. ASSUME NEW k \in 0..N PROVE f[k] = IF k = 0 THEN <<>> ELSE f[k - 1] \o Coded(numbers[k])
  <2> SUFFICES ASSUME k # 0 PROVE f[k] = f[k - 1] \o Coded(numbers[k])
    BY <1>3
  <2>1. k - 1 \in 0..(N - 1) /\ k - 1 \in 0..N /\ k - 1 \in Nat /\ (k - 1) + 1 = k /\ k \in 1..N
    OBVIOUS
  <2>2. f[(k - 1) + 1] = step[k - 1][f[k - 1]] /\ f[k - 1] \in S
    <3> HIDE DEF step, S
    <3>1. QED
      BY <1>3, <2>1
  <2>3. step[k - 1][f[k - 1]] = f[k - 1] \o Coded(numbers[k])
    BY <2>1, <2>2
  <2>4. QED
    BY <2>1, <2>2, <2>3
<1>5. f = def(f)
  <2>1. f \in [0..N -> S]
    BY <1>3
  <2> HIDE DEF S
  <2>2. QED
    BY <1>4, <2>1
<1>6. Written(numbers) = CHOOSE g : g = def(g)
  BY <1>0 DEF Written, Coded
<1>7. Written(numbers) = def(Written(numbers))
  <2> HIDE DEF def
  <2>1. QED
    BY <1>5, <1>6
<1>8. PICK w : w = Written(numbers)
  OBVIOUS
<1>9. w = def(w)
  BY <1>7, <1>8
<1>10. \A k \in 0..N : w[k] = IF k = 0 THEN <<>> ELSE w[k - 1] \o Coded(numbers[k])
  BY <1>9
<1>11. w = [k \in 0..N |-> w[k]]
  BY <1>9
<1> HIDE DEF def, step
<1>12. w[0] = <<>>
  <2>1. 0 \in 0..N
    OBVIOUS
  <2>2. QED
    BY <1>10, <2>1
<1>13. ASSUME NEW k \in 0..(N - 1) PROVE w[k + 1] = w[k] \o Coded(numbers[k + 1])
  <2>1. k + 1 \in 0..N /\ k + 1 # 0 /\ (k + 1) - 1 = k
    OBVIOUS
  <2>2. QED
    BY <1>10, <2>1
<1> DEFINE T == {k \in Nat : k <= N => w[k] \in S}
<1>14. 0 \in T
  <2>1. <<>> \in S
    OBVIOUS
  <2> HIDE DEF S
  <2>2. w[0] \in S
    BY <1>12, <2>1
  <2>3. QED
    BY <2>2
<1>15. ASSUME NEW k \in T PROVE k + 1 \in T
  <2> SUFFICES ASSUME k + 1 <= N PROVE w[k + 1] \in S
    BY <1>15
  <2>1. k \in 0..(N - 1) /\ w[k] \in S /\ numbers[k + 1] \in Index
    BY <1>00, <1>15
  <2>2. Coded(numbers[k + 1]) \in S
    BY <2>1, CodedType
  <2>3. ASSUME NEW a \in S, NEW c \in S PROVE a \o c \in S
    OBVIOUS
  <2>4. w[k + 1] = w[k] \o Coded(numbers[k + 1])
    BY <1>13, <2>1
  <2> HIDE DEF S
  <2>5. QED
    BY <2>1, <2>2, <2>3, <2>4
<1>16. T = Nat
  <2> HIDE DEF T
  <2>1. T \in SUBSET Nat
    BY DEF T
  <2>2. QED
    BY <1>14, <1>15, <2>1, Induction
<1>17. \A k \in 0..N : w[k] \in S
  BY <1>16
<1>18. w \in [0..N -> S]
  <2> HIDE DEF S, T
  <2>1. QED
    BY <1>11, <1>17
<1>19. QED
  BY <1>0, <1>8, <1>12, <1>13, <1>18

\* Whoever holds all the numbers holds the first k.
LEMMA HoldsWritten ==
  ASSUME NEW numbers \in Seq(Index), NEW data \in Seq(Byte),
         Holds(data, 0, Written(numbers)[Len(numbers)])
  PROVE  \A k \in 0..Len(numbers) : Holds(data, 0, Written(numbers)[k])
<1>1. PICK N \in Nat : N = Len(numbers)
  OBVIOUS
<1>2. PICK w \in [0..N -> Seq(Byte)] : w = Written(numbers)
  BY <1>1, WrittenDefined
<1>3. \A k \in 0..(N - 1) : w[k + 1] = w[k] \o Coded(numbers[k + 1]) /\ numbers[k + 1] \in Index
  <2> SUFFICES ASSUME NEW k \in 0..(N - 1)
               PROVE  w[k + 1] = w[k] \o Coded(numbers[k + 1]) /\ numbers[k + 1] \in Index
    OBVIOUS
  <2>1. k + 1 \in 1..N
    OBVIOUS
  <2>2. numbers[k + 1] \in Index
    BY <1>1, <2>1
  <2>3. w[k + 1] = w[k] \o Coded(numbers[k + 1])
    BY <1>1, <1>2, WrittenDefined
  <2>4. QED
    BY <2>2, <2>3
<1> DEFINE T == {j \in Nat : j <= N => Holds(data, 0, w[N - j])}
<1>4. 0 \in T
  BY <1>1, <1>2
<1>5. ASSUME NEW j \in T PROVE j + 1 \in T
  <2> SUFFICES ASSUME j + 1 <= N PROVE Holds(data, 0, w[N - (j + 1)])
    BY <1>5
  <2>1. PICK k \in 0..(N - 1) : k = N - (j + 1)
    BY <1>5
  <2>2. k + 1 = N - j /\ j <= N
    BY <1>5, <2>1
  <2>3. Holds(data, 0, w[k + 1])
    BY <1>5, <2>2
  <2>4. PICK a \in Seq(Byte) : a = w[k]
    <3>1. k \in 0..N
      OBVIOUS
    <3>2. QED
      BY <1>2, <3>1
  <2>7. PICK c \in Seq(Byte) : c = Coded(numbers[k + 1])
    <3>1. numbers[k + 1] \in Index
      BY <1>3
    <3>2. QED
      BY <3>1, CodedType
  <2>8. w[k + 1] = a \o c
    BY <1>3, <2>4, <2>7
  <2>9. Holds(data, 0, a \o c)
    BY <2>3, <2>8
  <2>5. Holds(data, 0, w[k])
    BY <2>4, <2>9, HoldsConcat
  <2>6. QED
    BY <2>1, <2>5
<1>6. T = Nat
  <2> HIDE DEF T
  <2>1. T \in SUBSET Nat
    BY DEF T
  <2>2. QED
    BY <1>4, <1>5, <2>1, Induction
<1>7. ASSUME NEW k \in 0..N PROVE Holds(data, 0, w[k])
  <2>1. N - k \in Nat /\ N - k <= N /\ N - (N - k) = k
    OBVIOUS
  <2>2. QED
    BY <1>6, <2>1
<1>8. QED
  BY <1>1, <1>2, <1>7

\* The number after the first k, as the data hold it.
LEMMA WrittenStep ==
  ASSUME NEW numbers \in Seq(Index), NEW data \in Seq(Byte),
         Holds(data, 0, Written(numbers)[Len(numbers)]), NEW k \in 0..(Len(numbers) - 1)
  PROVE  LET l == Len(Written(numbers)[k])
             e == Len(Written(numbers)[k + 1])
         IN  /\ l \in Nat /\ e \in Nat /\ l < e
             /\ IndexAt(data, l) = IF e <= Len(data)
                                   THEN [ok |-> TRUE, value |-> numbers[k + 1], end |-> e]
                                   ELSE Err
<1>1. PICK N \in Nat : N = Len(numbers)
  OBVIOUS
<1>2. k \in 0..N /\ k + 1 \in 0..N /\ k + 1 \in 1..N
  BY <1>1
<1>3. PICK n \in Index : n = numbers[k + 1]
  BY <1>1, <1>2
<1>4. PICK a \in Seq(Byte) : a = Written(numbers)[k]
  BY <1>1, <1>2, WrittenDefined
<1>5. PICK c \in Seq(Byte) : c = Coded(n) /\ Len(c) \in Nat \ {0}
  BY CodedType
<1>6. Written(numbers)[k + 1] = a \o c
  BY <1>1, <1>3, <1>4, <1>5, WrittenDefined
<1>7. Len(a \o c) = Len(a) + Len(c) /\ Len(a) \in Nat
  OBVIOUS
<1>8. Holds(data, 0, a \o c)
  BY <1>1, <1>2, <1>6, HoldsWritten
<1>9. Holds(data, Len(a), c)
  <2>1. Holds(data, 0 + Len(a), c)
    BY <1>8, HoldsConcat
  <2>2. 0 + Len(a) = Len(a)
    BY <1>7
  <2>3. QED
    BY <2>1, <2>2
<1>10. IndexAt(data, Len(a)) = IF Len(a) + Len(c) <= Len(data)
                               THEN [ok |-> TRUE, value |-> n, end |-> Len(a) + Len(c)] ELSE Err
  BY <1>5, <1>7, <1>9, IndexIsRead
<1>11. PICK l \in Nat : l = Len(Written(numbers)[k]) /\ l = Len(a)
  BY <1>4, <1>7
<1>12. PICK e \in Nat : e = Len(Written(numbers)[k + 1]) /\ e = Len(a) + Len(c)
  BY <1>5, <1>6, <1>7
<1>13. IndexAt(data, l) = IF e <= Len(data) THEN [ok |-> TRUE, value |-> n, end |-> e] ELSE Err
  BY <1>10, <1>11, <1>12
<1>14. l < e
  BY <1>5, <1>11, <1>12
<1>15. QED
  BY <1>3, <1>11, <1>12, <1>13, <1>14

\* A path after its own length, as it is written.
Numbers(path) == <<Len(path)>> \o path

LEMMA NumbersAre ==
  ASSUME NEW path \in Seq(Index), Len(path) < Pow2[ValueBits]
  PROVE  /\ Numbers(path) \in Seq(Index) /\ Len(Numbers(path)) = 1 + Len(path)
         /\ Numbers(path)[1] = Len(path)
         /\ \A k \in 1..Len(path) : Numbers(path)[k + 1] = path[k]
<1>1. Len(path) \in Index
  BY Widths DEF Index
<1>2. PICK s \in Seq(Index) : s = <<Len(path)>> /\ Len(s) = 1 /\ s[1] = Len(path)
  <2>1. <<Len(path)>> \in Seq(Index)
    BY <1>1
  <2>2. QED
    BY <2>1
<1>3. Numbers(path) = s \o path
  BY <1>2 DEF Numbers
<1>4. s \o path \in Seq(Index) /\ Len(s \o path) = 1 + Len(path) /\ (s \o path)[1] = Len(path)
  BY <1>2
<1>5. ASSUME NEW k \in 1..Len(path) PROVE (s \o path)[k + 1] = path[k]
  BY <1>2
<1>6. QED
  BY <1>3, <1>4, <1>5

LEMMA AppendsNext ==
  ASSUME NEW path \in Seq(Index), NEW k \in 0..(Len(path) - 1)
  PROVE  Append(SubSeq(path, 1, k), path[k + 1]) = SubSeq(path, 1, k + 1)
<1>1. SubSeq(path, 1, k) = [i \in 1..k |-> path[i]]
  OBVIOUS
<1>2. SubSeq(path, 1, k + 1) = [i \in 1..(k + 1) |-> path[i]]
  OBVIOUS
<1>3. QED
  BY <1>1, <1>2

\* The loop reads the path, as far as the data go.
LEMMA LoopReads ==
  ASSUME NEW path \in Seq(Index), Len(path) < Pow2[ValueBits], NEW data \in Seq(Byte),
         Holds(data, 0, Written(Numbers(path))[1 + Len(path)]),
         NEW start \in Nat, start = Len(Written(Numbers(path))[1]), start <= Len(data)
  PROVE  \A k \in Nat : k <= Len(path) =>
           IndexesFrom(data, start)[k] =
             IF Len(Written(Numbers(path))[k + 1]) <= Len(data)
             THEN [ok |-> TRUE, path |-> SubSeq(path, 1, k),
                   end |-> Len(Written(Numbers(path))[k + 1])]
             ELSE Err
<1>1. PICK L \in Nat : L = Len(path)
  OBVIOUS
<1>2. PICK num \in Seq(Index) : num = Numbers(path) /\ Len(num) = 1 + L
  BY <1>1, NumbersAre
<1>3. PICK w : w = Written(num)
  OBVIOUS
<1>4. PICK R : R = IndexesFrom(data, start)
  OBVIOUS
<1>5. R[0] = [ok |-> TRUE, path |-> <<>>, end |-> start]
  BY <1>4, IndexesFromDefined
<1>6. \A k \in Nat : R[k + 1] = Turn(data, R[k])
  <2>1. \A k \in Nat : IndexesFrom(data, start)[k + 1] = Turn(data, IndexesFrom(data, start)[k])
    BY IndexesFromDefined, Zenon
  <2>2. QED
    BY <1>4, <2>1, Zenon
<1> DEFINE I(k) == R[k] = IF Len(w[k + 1]) <= Len(data)
                          THEN [ok |-> TRUE, path |-> SubSeq(path, 1, k), end |-> Len(w[k + 1])]
                          ELSE Err
           T == {k \in Nat : k <= L => I(k)}
<1>7. 0 \in T
  <2>1. SubSeq(path, 1, 0) = <<>>
    OBVIOUS
  <2>2. start = Len(w[0 + 1])
    BY <1>2, <1>3
  <2>3. I(0)
    BY <1>5, <2>1, <2>2
  <2>4. QED
    BY <2>3
<1>8. ASSUME NEW k \in T PROVE k + 1 \in T
  <2> SUFFICES ASSUME k + 1 <= L PROVE I(k + 1)
    BY <1>8
  <2>1. k \in Nat /\ k <= L /\ I(k) /\ k + 1 \in 0..(Len(num) - 1) /\ k + 1 \in 1..L
    BY <1>2, <1>8
  <2>2. PICK l \in Nat : l = Len(w[k + 1])
    BY <1>1, <1>2, <1>3, <2>1, WrittenStep
  <2>3. PICK e \in Nat : e = Len(w[(k + 1) + 1]) /\ l < e
    BY <1>1, <1>2, <1>3, <2>1, <2>2, WrittenStep
  <2>4. PICK n \in Index : n = path[k + 1] /\ n = num[(k + 1) + 1]
    <3>1. path[k + 1] \in Index
      BY <1>1, <2>1
    <3>2. Numbers(path)[(k + 1) + 1] = path[k + 1]
      BY <1>1, <2>1, NumbersAre
    <3>3. QED
      BY <1>2, <3>1, <3>2
  <2>5. IndexAt(data, l) = IF e <= Len(data) THEN [ok |-> TRUE, value |-> n, end |-> e] ELSE Err
    BY <1>1, <1>2, <1>3, <2>1, <2>2, <2>3, <2>4, WrittenStep
  <2>6. R[k + 1] = Turn(data, R[k])
    BY <1>6, <2>1
  <2>7. CASE l <= Len(data)
    <3>1. R[k] = [ok |-> TRUE, path |-> SubSeq(path, 1, k), end |-> l]
      BY <2>1, <2>2, <2>7
    <3>2. R[k].ok /\ R[k].path = SubSeq(path, 1, k) /\ R[k].end = l
      BY <3>1
    <3>3. CASE e <= Len(data)
      <4>1. IndexAt(data, l).ok /\ IndexAt(data, l).value = n /\ IndexAt(data, l).end = e
        BY <2>5, <3>3
      <4>2. Turn(data, R[k]) = [ok |-> TRUE, path |-> Append(SubSeq(path, 1, k), n), end |-> e]
        BY <3>2, <4>1 DEF Turn
      <4>3. Append(SubSeq(path, 1, k), n) = SubSeq(path, 1, k + 1)
        <5>1. k \in 0..(Len(path) - 1)
          BY <1>1, <2>1
        <5>2. QED
          BY <2>4, <5>1, AppendsNext
      <4>4. QED
        BY <2>3, <2>6, <3>3, <4>2, <4>3
    <3>4. CASE ~(e <= Len(data))
      <4>1. IndexAt(data, l) = Err
        BY <2>5, <3>4
      <4>2. Turn(data, R[k]) = Err
        BY <3>2, <4>1 DEF Turn, Err
      <4>3. QED
        BY <2>3, <2>6, <3>4, <4>2
    <3>5. QED
      BY <3>3, <3>4
  <2>8. CASE ~(l <= Len(data))
    <3>1. R[k] = Err
      BY <2>1, <2>2, <2>8
    <3>2. Turn(data, R[k]) = Err
      BY <3>1 DEF Turn, Err
    <3>3. ~(e <= Len(data))
      BY <2>3, <2>8
    <3>4. QED
      BY <2>3, <2>6, <3>2, <3>3
  <2>9. QED
    BY <2>7, <2>8
<1>9. T = Nat
  <2> HIDE DEF T
  <2>1. T \in SUBSET Nat
    BY DEF T
  <2>2. QED
    BY <1>7, <1>8, <2>1, Induction
<1>10. \A k \in Nat : k <= L => I(k)
  BY <1>9
<1> HIDE DEF T
<1>11. QED
  BY <1>1, <1>2, <1>3, <1>4, <1>10

LEMMA ZeroIsWritten == Coded(0) = <<0>> /\ 0 \in Index
<1>1. 0 \in Index /\ 0 \in Word /\ ZigzagEncode(0) = 0
  BY Widths DEF Index, Word, ZigzagEncode
<1>2. PICK m \in Nat : m = More /\ m >= 4
  BY Widths
<1>3. Weight[0] = 1 /\ Weight[1] = m
  <2>1. Weight[0 + 1] = More * Weight[0] /\ Weight[0] = 1
    BY WeightDefined
  <2>2. QED
    BY <1>2, <2>1
<1>4. VarintLen(0) = 1
  <2>1. 1 \in 1..MaxGroups /\ 0 < Weight[1]
    BY <1>2, <1>3, WordFits
  <2>2. QED
    BY <1>1, <2>1, WordFits, VarintLenIs
<1>5. (0 \div 1) % m = 0
  BY <1>2
<1>6. writeVarint(0) = [i \in 1..1 |-> 0]
  BY <1>2, <1>3, <1>4, <1>5 DEF writeVarint
<1>7. QED
  BY <1>1, <1>6 DEF Coded

LEMMA PutType ==
  ASSUME NEW path \in Seq(Index), Len(path) < Pow2[ValueBits]
  PROVE  PutMessageIndexes(path) \in Seq(Byte) /\ Len(PutMessageIndexes(path)) \in Nat \ {0}
<1>1. CASE IsDefault(path)
  <2>1. PutMessageIndexes(path) = Coded(0)
    BY <1>1, ZeroIsWritten DEF PutMessageIndexes
  <2>2. QED
    BY <2>1, ZeroIsWritten, CodedType
<1>2. CASE ~IsDefault(path)
  <2>1. PICK num \in Seq(Index) : num = Numbers(path) /\ Len(num) = 1 + Len(path)
    BY NumbersAre
  <2>2. PutMessageIndexes(path) = Written(num)[1 + Len(path)]
    BY <1>2, <2>1 DEF PutMessageIndexes, Numbers
  <2>3. PICK k \in Nat : k = Len(path)
    OBVIOUS
  <2>4. k \in 0..(Len(num) - 1) /\ k \in 0..Len(num) /\ k + 1 \in 0..Len(num) /\ k + 1 \in 1..Len(num)
    BY <2>1, <2>3
  <2>5. PICK a \in Seq(Byte) : a = Written(num)[k]
    BY <2>4, WrittenDefined
  <2>6. PICK c \in Seq(Byte) : c = Coded(num[k + 1]) /\ Len(c) \in Nat \ {0}
    <3>1. num[k + 1] \in Index
      BY <2>4
    <3>2. QED
      BY <3>1, CodedType
  <2>7. Written(num)[k + 1] = a \o c
    BY <2>4, <2>5, <2>6, WrittenDefined
  <2>8. a \o c \in Seq(Byte) /\ Len(a \o c) = Len(a) + Len(c)
    OBVIOUS
  <2>9. Len(a \o c) \in Nat \ {0}
    BY <2>6, <2>8
  <2>10. 1 + Len(path) = k + 1
    BY <2>3
  <2>11. QED
    BY <2>2, <2>7, <2>8, <2>9, <2>10
<1>3. QED
  BY <1>1, <1>2

LEMMA WrittenGrows ==
  ASSUME NEW num \in Seq(Index), NEW data \in Seq(Byte),
         Holds(data, 0, Written(num)[Len(num)]), NEW L \in Nat, Len(num) = 1 + L
  PROVE  /\ Len(Written(num)[1 + L]) \in Nat /\ Len(Written(num)[1]) \in Nat
         /\ Len(Written(num)[1]) <= Len(Written(num)[1 + L])
<1>1. PICK w : w = Written(num)
  OBVIOUS
<1>2. ASSUME NEW k \in 0..L
      PROVE  Len(w[k]) \in Nat /\ Len(w[k + 1]) \in Nat /\ Len(w[k]) < Len(w[k + 1])
  <2>1. k \in 0..(Len(num) - 1)
    OBVIOUS
  <2>2. QED
    BY <1>1, <2>1, WrittenStep
<1> DEFINE T == {k \in Nat : k <= L => Len(w[1]) <= Len(w[1 + k])}
<1>3. Len(w[1]) \in Nat
  <2>1. 0 \in 0..L /\ 0 + 1 = 1
    OBVIOUS
  <2>2. QED
    BY <1>2, <2>1
<1>4. 0 \in T
  <2>1. 1 + 0 = 1
    OBVIOUS
  <2>2. Len(w[1]) <= Len(w[1 + 0])
    BY <1>3, <2>1
  <2>3. QED
    BY <2>2
<1>5. ASSUME NEW k \in T PROVE k + 1 \in T
  <2> SUFFICES ASSUME k + 1 <= L PROVE Len(w[1]) <= Len(w[1 + (k + 1)])
    BY <1>5
  <2>1. 1 + k \in 0..L /\ (1 + k) + 1 = 1 + (k + 1) /\ Len(w[1]) <= Len(w[1 + k])
    BY <1>5
  <2>2. /\ Len(w[1 + k]) \in Nat /\ Len(w[1 + (k + 1)]) \in Nat
        /\ Len(w[1 + k]) < Len(w[1 + (k + 1)])
    BY <1>2, <2>1
  <2>3. QED
    BY <1>3, <2>1, <2>2
<1>6. T = Nat
  <2> HIDE DEF T
  <2>1. T \in SUBSET Nat
    BY DEF T
  <2>2. QED
    BY <1>4, <1>5, <2>1, Induction
<1>7. Len(w[1]) <= Len(w[1 + L])
  <2>1. L \in T /\ L <= L
    <3> HIDE DEF T
    <3>1. QED
      BY <1>6
  <2>2. QED
    BY <2>1
<1>8. Len(w[1 + L]) \in Nat
  <2>1. L \in 0..L /\ L + 1 = 1 + L
    OBVIOUS
  <2>2. QED
    BY <1>2, <2>1
<1> HIDE DEF T
<1>9. QED
  BY <1>1, <1>3, <1>7, <1>8

\* Indexes that were written are read back where they are whole and not too many,
\* and refused otherwise.
LEMMA IndexesAreRead ==
  ASSUME NEW path \in Seq(Index), Len(path) < Pow2[ValueBits], NEW data \in Seq(Byte),
         Holds(data, 0, PutMessageIndexes(path))
  PROVE  DecodeMessageIndexes(data) =
           IF Len(path) <= MaxIndexCount /\ Len(PutMessageIndexes(path)) <= Len(data)
           THEN [ok |-> TRUE, path |-> Reported(path), end |-> Len(PutMessageIndexes(path))]
           ELSE Err
<1>1. CASE IsDefault(path)
  <2>1. PutMessageIndexes(path) = Coded(0)
    BY <1>1, ZeroIsWritten DEF PutMessageIndexes
  <2>2. PICK l \in Nat : l = Len(Coded(0))
    BY ZeroIsWritten, CodedType
  <2>3. IndexAt(data, 0) = IF l <= Len(data)
                           THEN [ok |-> TRUE, value |-> 0, end |-> l] ELSE Err
    <3>1. IndexAt(data, 0) = IF 0 + Len(Coded(0)) <= Len(data)
                             THEN [ok |-> TRUE, value |-> 0, end |-> 0 + Len(Coded(0))] ELSE Err
      BY <2>1, ZeroIsWritten, IndexIsRead
    <3>2. 0 + Len(Coded(0)) = l
      BY <2>2
    <3>3. QED
      BY <3>1, <3>2
  <2>4. Reported(path) = <<0>> /\ Len(path) <= MaxIndexCount
    <3>1. CASE path = <<>>
      BY <3>1, Widths DEF Reported
    <3>2. CASE path = <<0>>
      <4>1. Len(path) = 1 /\ path # <<>>
        BY <3>2
      <4>2. QED
        BY <3>2, <4>1, Widths DEF Reported
    <3>3. QED
      BY <1>1, <3>1, <3>2 DEF IsDefault
  <2>5. CASE l <= Len(data)
    <3>1. IndexAt(data, 0).ok /\ IndexAt(data, 0).value = 0 /\ IndexAt(data, 0).end = l
      BY <2>3, <2>5
    <3>2. DecodeMessageIndexes(data) = [ok |-> TRUE, path |-> <<0>>, end |-> l]
      BY <3>1 DEF DecodeMessageIndexes
    <3>3. QED
      BY <2>1, <2>2, <2>4, <2>5, <3>2
  <2>6. CASE ~(l <= Len(data))
    <3>1. IndexAt(data, 0) = Err
      BY <2>3, <2>6
    <3>2. DecodeMessageIndexes(data) = Err
      BY <3>1 DEF DecodeMessageIndexes, Err
    <3>3. QED
      BY <2>1, <2>2, <2>6, <3>2
  <2>7. QED
    BY <2>5, <2>6
<1>2. CASE ~IsDefault(path)
  <2>1. PICK L \in Nat : L = Len(path)
    OBVIOUS
  <2>2. PICK num \in Seq(Index) : num = Numbers(path) /\ Len(num) = 1 + L /\ num[1] = L
    BY <2>1, NumbersAre
  <2>3. PICK w : w = Written(num)
    OBVIOUS
  <2>4. PutMessageIndexes(path) = w[1 + L]
    BY <1>2, <2>1, <2>2, <2>3 DEF PutMessageIndexes, Numbers
  <2>5. Holds(data, 0, Written(num)[Len(num)])
    BY <2>2, <2>3, <2>4
  <2>6. L >= 1
    <3>1. path # <<>>
      BY <1>2 DEF IsDefault
    <3>2. QED
      BY <2>1, <3>1
  <2>7. w[0] = <<>> /\ Len(<<>>) = 0
    BY <2>3, WrittenDefined
  <2>8. PICK l \in Nat : l = Len(w[1])
    <3>1. 0 \in 0..(Len(num) - 1) /\ 0 + 1 = 1
      BY <2>2
    <3>2. Len(Written(num)[0 + 1]) \in Nat
      BY <2>5, <3>1, WrittenStep
    <3>3. QED
      BY <2>3, <3>1, <3>2
  <2>9. IndexAt(data, 0) = IF l <= Len(data) THEN [ok |-> TRUE, value |-> L, end |-> l] ELSE Err
    <3>1. 0 \in 0..(Len(num) - 1) /\ 0 + 1 = 1
      BY <2>2
    <3>2. IndexAt(data, Len(Written(num)[0])) =
            IF Len(Written(num)[0 + 1]) <= Len(data)
            THEN [ok |-> TRUE, value |-> num[0 + 1], end |-> Len(Written(num)[0 + 1])] ELSE Err
      BY <2>5, <3>1, WrittenStep
    <3>3. QED
      BY <2>2, <2>3, <2>7, <2>8, <3>1, <3>2
  <2>10. PICK e \in Nat : e = Len(w[1 + L]) /\ l <= e
    BY <2>2, <2>3, <2>5, <2>8, WrittenGrows
  <2>11. CASE ~(l <= Len(data))
    <3>1. IndexAt(data, 0) = Err
      BY <2>9, <2>11
    <3>2. DecodeMessageIndexes(data) = Err
      BY <3>1 DEF DecodeMessageIndexes, Err
    <3>3. ~(e <= Len(data))
      BY <2>10, <2>11
    <3>4. QED
      BY <2>4, <2>10, <3>2, <3>3
  <2>12. CASE l <= Len(data)
    <3>1. IndexAt(data, 0).ok /\ IndexAt(data, 0).value = L /\ IndexAt(data, 0).end = l
      BY <2>9, <2>12
    <3>2. CASE L > MaxIndexCount
      <4>1. DecodeMessageIndexes(data) = Err
        BY <2>6, <3>1, <3>2 DEF DecodeMessageIndexes
      <4>2. ~(L <= MaxIndexCount)
        BY <3>2, Widths
      <4>3. QED
        BY <2>1, <4>1, <4>2
    <3>3. CASE ~(L > MaxIndexCount)
      <4>1. DecodeMessageIndexes(data) = IndexesFrom(data, l)[L]
        BY <2>6, <3>1, <3>3 DEF DecodeMessageIndexes
      <4>2. IndexesFrom(data, l)[L] =
              IF Len(w[L + 1]) <= Len(data)
              THEN [ok |-> TRUE, path |-> SubSeq(path, 1, L), end |-> Len(w[L + 1])] ELSE Err
        <5>1. L <= Len(path)
          BY <2>1
        <5>2. Holds(data, 0, Written(Numbers(path))[1 + Len(path)])
          BY <2>1, <2>2, <2>3, <2>4
        <5>3. l = Len(Written(Numbers(path))[1])
          BY <2>2, <2>3, <2>8
        <5>4. \A k \in Nat : k <= Len(path) =>
                IndexesFrom(data, l)[k] =
                  IF Len(Written(Numbers(path))[k + 1]) <= Len(data)
                  THEN [ok |-> TRUE, path |-> SubSeq(path, 1, k),
                        end |-> Len(Written(Numbers(path))[k + 1])]
                  ELSE Err
          BY <2>12, <5>2, <5>3, LoopReads, Zenon
        <5>5. QED
          BY <2>2, <2>3, <5>1, <5>4
      <4>3. SubSeq(path, 1, L) = path /\ Reported(path) = path /\ L + 1 = 1 + L
        BY <1>2, <2>1 DEF Reported, IsDefault
      <4>4. L <= MaxIndexCount
        BY <3>3, Widths
      <4>5. QED
        BY <2>1, <2>4, <4>1, <4>2, <4>3, <4>4
    <3>4. QED
      BY <3>2, <3>3
  <2>13. QED
    BY <2>11, <2>12
<1>3. QED
  BY <1>1, <1>2

------------------------------------------------------------------------------
(***************************************************************************)
(* Records that lose their end.                                            *)
(***************************************************************************)
IsCut(data, s) ==
  /\ data \in Seq(Byte) /\ Len(data) <= Len(s)
  /\ \A i \in 1..Len(data) : data[i] = s[i]

LEMMA SmallBytes ==
  /\ 0 \in Byte /\ 1 \in Byte /\ 3 \in Byte /\ 5 \in Byte /\ 7 \in Byte
  /\ Byte \subseteq Nat
  BY Widths DEF Byte

LEMMA CutOf ==
  ASSUME NEW s \in Seq(Byte), NEW n \in 0..Len(s)
  PROVE  IsCut(SubSeq(s, 1, n), s) /\ Len(SubSeq(s, 1, n)) = n
<1>1. SubSeq(s, 1, n) = [i \in 1..n |-> s[i]]
  OBVIOUS
<1>2. \A i \in 1..n : s[i] \in Byte
  OBVIOUS
<1>3. SubSeq(s, 1, n) \in Seq(Byte) /\ Len(SubSeq(s, 1, n)) = n
  BY <1>1, <1>2
<1>4. QED
  BY <1>1, <1>3 DEF IsCut

LEMMA CutHolds ==
  ASSUME NEW s \in Seq(Byte), NEW t \in Seq(Byte), NEW data, IsCut(data, s \o t)
  PROVE  Holds(data, 0, s)
<1>1. data \in Seq(Byte) /\ Holds(data, 0, s \o t)
  <2>1. data \in Seq(Byte) /\ \A i \in 1..Len(data) : data[i] = (s \o t)[i]
    BY DEF IsCut
  <2>2. ASSUME NEW i \in 1..Len(s \o t), 0 + i <= Len(data) PROVE data[0 + i] = (s \o t)[i]
    <3>1. Len(s \o t) \in Nat /\ Len(data) \in Nat
      BY <2>1
    <3>2. 0 + i = i /\ i \in 1..Len(data)
      BY <2>2, <3>1
    <3>3. QED
      BY <2>1, <3>2
  <2>3. QED
    BY <2>1, <2>2 DEF Holds
<1>2. QED
  BY <1>1, HoldsConcat

LEMMA CutAfter ==
  ASSUME NEW s \in Seq(Byte), NEW t \in Seq(Byte), NEW data, IsCut(data, s \o t),
         Len(s) <= Len(data)
  PROVE  /\ IsCut(After(data, Len(s)), t)
         /\ Len(After(data, Len(s))) = Len(data) - Len(s)
<1>1. data \in Seq(Byte) /\ Len(data) <= Len(s) + Len(t)
      /\ \A i \in 1..Len(data) : data[i] = (s \o t)[i]
  BY DEF IsCut
<1>2. PICK l \in Nat : l = Len(s)
  OBVIOUS
<1>3. PICK d \in Nat : d = Len(data) - l
  <2>1. Len(data) \in Nat /\ l <= Len(data)
    BY <1>1, <1>2
  <2>2. Len(data) - l \in Nat
    BY <2>1
  <2>3. QED
    BY <2>2
<1>4. After(data, l) = [i \in 1..d |-> data[l + i]]
  <2>1. After(data, l) = SubSeq(data, l + 1, Len(data))
    BY DEF After
  <2>2. SubSeq(data, l + 1, Len(data)) = [i \in 1..d |-> data[l + i]]
    BY <1>1, <1>3
  <2>3. QED
    BY <2>1, <2>2
<1>5. ASSUME NEW i \in 1..d PROVE data[l + i] \in Byte /\ data[l + i] = t[i] /\ i \in 1..Len(t)
  <2>1. PICK j \in 1..Len(data) : j = l + i
    BY <1>1, <1>3
  <2>2. (s \o t)[j] = t[i] /\ i \in 1..Len(t)
    BY <1>1, <1>2, <1>3, <2>1
  <2>3. QED
    BY <1>1, <2>1, <2>2
<1>6. After(data, l) \in Seq(Byte) /\ Len(After(data, l)) = d
  <2>1. \A i \in 1..d : data[l + i] \in Byte
    BY <1>5
  <2>2. QED
    BY <1>4, <2>1
<1>7. d <= Len(t)
  BY <1>1, <1>2, <1>3
<1>8. IsCut(After(data, l), t)
  BY <1>4, <1>5, <1>6, <1>7 DEF IsCut
<1>9. QED
  BY <1>2, <1>3, <1>6, <1>8

LEMMA CutWhole ==
  ASSUME NEW s \in Seq(Byte), NEW data, IsCut(data, s), Len(data) = Len(s)
  PROVE  data = s
<1>1. data \in Seq(Byte) /\ \A i \in 1..Len(data) : data[i] = s[i]
  BY DEF IsCut
<1>2. QED
  BY <1>1, SeqEqual

LEMMA CutPrefix ==
  ASSUME NEW s \in Seq(Byte), NEW data, IsCut(data, s)
  PROVE  IsPrefix(data, s)
<1>1. PICK n \in Nat : n = Len(data)
  BY DEF IsCut
<1>2. data \in Seq(Byte) /\ n <= Len(s) /\ \A i \in 1..n : data[i] = s[i]
  BY <1>1 DEF IsCut
<1>3. SubSeq(data, 1, n) = [i \in 1..n |-> data[i]]
  BY <1>1, <1>2
<1>4. SubSeq(s, 1, n) = [i \in 1..n |-> s[i]]
  BY <1>2
<1>5. SubSeq(data, 1, n) = SubSeq(s, 1, n)
  BY <1>2, <1>3, <1>4
<1>6. QED
  BY <1>1, <1>2, <1>5 DEF IsPrefix

LEMMA KeyShape ==
  ASSUME NEW k \in Keys
  PROVE  /\ k.kind \in {"Id", "Guid"} /\ k.bytes \in Seq(Byte)
         /\ k = [kind |-> k.kind, bytes |-> k.bytes]
         /\ Len(k.bytes) = IF k.kind = "Id" THEN IdLen ELSE GuidLen
<1>1. k \in [kind : {"Id", "Guid"}, bytes : Seq(Byte)]
  BY ShapesAssumption
<1>2. QED
  BY <1>1, ShapesAssumption

LEMMA PrefixType ==
  ASSUME NEW k \in Keys
  PROVE  /\ PutPrefix(k) \in Seq(Byte) /\ Len(PutPrefix(k)) = EncodedLen(k)
         /\ EncodedLen(k) \in Nat \ {0}
         /\ EncodedLen(k) = 1 + Len(k.bytes)
         /\ PutPrefix(k)[1] = (IF k.kind = "Id" THEN 0 ELSE 1)
         /\ \A i \in 1..Len(k.bytes) : PutPrefix(k)[1 + i] = k.bytes[i]
<1>1. PICK m \in Byte : m = IF k.kind = "Id" THEN MAGIC_BYTE_V0 ELSE MAGIC_BYTE_V1
  BY SmallBytes DEF MAGIC_BYTE_V0, MAGIC_BYTE_V1
<1>2. PICK s \in Seq(Byte) : s = <<m>> /\ Len(s) = 1 /\ s[1] = m
  <2>1. <<m>> \in Seq(Byte)
    OBVIOUS
  <2>2. QED
    BY <2>1
<1>3. PICK b \in Seq(Byte) : b = k.bytes
  BY KeyShape
<1>4. PutPrefix(k) = s \o b
  BY <1>1, <1>2, <1>3 DEF PutPrefix
<1>5. s \o b \in Seq(Byte) /\ Len(s \o b) = 1 + Len(b) /\ (s \o b)[1] = m
  BY <1>2
<1>6. ASSUME NEW i \in 1..Len(b) PROVE (s \o b)[1 + i] = b[i]
  BY <1>2
<1>7. EncodedLen(k) = 1 + Len(b)
  BY <1>3, KeyShape DEF EncodedLen
<1>8. m = IF k.kind = "Id" THEN 0 ELSE 1
  BY <1>1 DEF MAGIC_BYTE_V0, MAGIC_BYTE_V1
<1>9. 1 + Len(b) \in Nat \ {0}
  OBVIOUS
<1>10. QED
  BY <1>3, <1>4, <1>5, <1>6, <1>7, <1>8, <1>9

\* The prefix is read back where it is whole, and refused where it is cut.
LEMMA PrefixIsRead ==
  ASSUME NEW k \in Keys, NEW t \in Seq(Byte), NEW data, IsCut(data, PutPrefix(k) \o t)
  PROVE  /\ Len(data) >= 1 => data[1] = IF k.kind = "Id" THEN 0 ELSE 1
         /\ DecodeWirePrefix(data) =
              IF EncodedLen(k) <= Len(data)
              THEN [ok |-> TRUE, consumed |-> EncodedLen(k), key |-> k] ELSE Err
<1>1. PICK p \in Seq(Byte) : p = PutPrefix(k)
  BY PrefixType
<1>2. data \in Seq(Byte) /\ Holds(data, 0, p)
  BY <1>1, CutHolds DEF IsCut
<1>3. PICK n \in Nat : n = Len(k.bytes) /\ EncodedLen(k) = 1 + n /\ Len(p) = 1 + n
  <2>1. k.bytes \in Seq(Byte)
    BY KeyShape
  <2>2. Len(k.bytes) \in Nat
    BY <2>1
  <2>3. EncodedLen(k) = 1 + Len(k.bytes) /\ Len(p) = EncodedLen(k)
    BY <1>1, PrefixType
  <2>4. QED
    BY <2>2, <2>3
<1>4. \A i \in 1..(1 + n) : i <= Len(data) => data[i] = p[i]
  <2> SUFFICES ASSUME NEW i \in 1..(1 + n), i <= Len(data) PROVE data[i] = p[i]
    OBVIOUS
  <2>1. 0 + i = i /\ i \in 1..Len(p)
    BY <1>3
  <2>2. QED
    BY <1>2, <2>1 DEF Holds
<1>5. Len(data) >= 1 => data[1] = IF k.kind = "Id" THEN 0 ELSE 1
  BY <1>1, <1>3, <1>4, PrefixType
<1>6. n = IF k.kind = "Id" THEN IdLen ELSE GuidLen
  BY <1>3, KeyShape
<1>7. CASE 1 + n <= Len(data)
  <2>1. SubSeq(data, 2, 1 + n) = k.bytes
    <3>1. SubSeq(data, 2, 1 + n) = [i \in 1..n |-> data[1 + i]]
      BY <1>2, <1>7
    <3>2. ASSUME NEW i \in 1..n PROVE data[1 + i] = k.bytes[i]
      <4>1. 1 + i \in 1..(1 + n) /\ 1 + i <= Len(data)
        BY <1>7
      <4>2. p[1 + i] = k.bytes[i]
        BY <1>1, <1>3, PrefixType
      <4>3. QED
        BY <1>4, <4>1, <4>2
    <3>3. k.bytes = [i \in 1..n |-> k.bytes[i]]
      BY <1>3, KeyShape
    <3>4. QED
      BY <3>1, <3>2, <3>3
  <2>2. data # <<>> /\ Len(data) >= 1 /\ ~(Len(data) < 1 + n)
    BY <1>2, <1>7
  <2>3. CASE k.kind = "Id"
    <3>1. data[1] = 0 /\ n = IdLen
      BY <1>5, <1>6, <2>2, <2>3
    <3>2. DecodeWirePrefix(data) = [ok |-> TRUE, consumed |-> 1 + n,
                                    key |-> [kind |-> "Id", bytes |-> SubSeq(data, 2, 1 + n)]]
      BY <2>2, <3>1 DEF DecodeWirePrefix, MAGIC_BYTE_V0, MAGIC_BYTE_V1
    <3>3. QED
      BY <1>3, <1>7, <2>1, <2>3, <3>2, KeyShape, <1>5
  <2>4. CASE k.kind = "Guid"
    <3>1. data[1] = 1 /\ n = GuidLen
      BY <1>5, <1>6, <2>2, <2>4
    <3>2. DecodeWirePrefix(data) = [ok |-> TRUE, consumed |-> 1 + n,
                                    key |-> [kind |-> "Guid", bytes |-> SubSeq(data, 2, 1 + n)]]
      BY <2>2, <3>1 DEF DecodeWirePrefix, MAGIC_BYTE_V0, MAGIC_BYTE_V1
    <3>3. QED
      BY <1>3, <1>7, <2>1, <2>4, <3>2, KeyShape, <1>5
  <2>5. QED
    BY <2>3, <2>4, KeyShape
<1>8. CASE ~(1 + n <= Len(data))
  <2>1. DecodeWirePrefix(data) = Err
    <3>1. CASE data = <<>>
      BY <3>1 DEF DecodeWirePrefix, MAGIC_BYTE_V0, MAGIC_BYTE_V1
    <3>2. CASE data # <<>>
      <4>1. data[1] = (IF k.kind = "Id" THEN 0 ELSE 1) /\ Len(data) < 1 + n
        BY <1>2, <1>5, <1>8, <3>2
      <4>2. QED
        BY <1>6, <3>2, <4>1 DEF DecodeWirePrefix, MAGIC_BYTE_V0, MAGIC_BYTE_V1
    <3>3. QED
      BY <3>1, <3>2
  <2>2. QED
    BY <1>3, <1>5, <1>8, <2>1
<1>9. QED
  BY <1>7, <1>8

LEMMA ConfluentDetected ==
  ASSUME NEW k \in Keys, NEW t \in Seq(Byte), NEW data, IsCut(data, PutPrefix(k) \o t)
  PROVE  IF EncodedLen(k) <= Len(data)
         THEN DetectWireFormat(data) =
                [format |-> "Confluent", key |-> k, offset |-> EncodedLen(k)]
         ELSE DetectWireFormat(data).format \in {"InvalidConfluent", "Unknown"}
<1>1. data \in Seq(Byte)
  BY DEF IsCut
<1>2. CASE data = <<>>
  <2>1. ~(EncodedLen(k) <= Len(data))
    <3>1. Len(data) = 0
      BY <1>2
    <3>2. QED
      BY <3>1, PrefixType
  <2>2. DetectWireFormat(data) = [format |-> "Unknown"]
    BY <1>2 DEF DetectWireFormat, MAGIC_BYTE_V0, MAGIC_BYTE_V1, GLUE_HEADER_VERSION_BYTE
  <2>3. QED
    BY <2>1, <2>2
<1>3. CASE data # <<>>
  <2>1. data[1] \in {0, 1}
    <3>1. Len(data) >= 1
      BY <1>1, <1>3
    <3>2. QED
      BY <3>1, PrefixIsRead
  <2>2. DetectWireFormat(data) =
          IF DecodeWirePrefix(data).ok
          THEN [format |-> "Confluent", key |-> DecodeWirePrefix(data).key,
                offset |-> DecodeWirePrefix(data).consumed]
          ELSE [format |-> "InvalidConfluent"]
    BY <1>3, <2>1 DEF DetectWireFormat, MAGIC_BYTE_V0, MAGIC_BYTE_V1, GLUE_HEADER_VERSION_BYTE
  <2>3. CASE EncodedLen(k) <= Len(data)
    <3>1. DecodeWirePrefix(data) = [ok |-> TRUE, consumed |-> EncodedLen(k), key |-> k]
      BY <2>3, PrefixIsRead
    <3>2. /\ DecodeWirePrefix(data).ok /\ DecodeWirePrefix(data).key = k
          /\ DecodeWirePrefix(data).consumed = EncodedLen(k)
      BY <3>1
    <3>3. QED
      BY <2>2, <2>3, <3>2
  <2>4. CASE ~(EncodedLen(k) <= Len(data))
    <3>1. DecodeWirePrefix(data) = Err
      BY <2>4, PrefixIsRead
    <3>2. DetectWireFormat(data) = [format |-> "InvalidConfluent"]
      BY <2>2, <3>1 DEF Err
    <3>3. QED
      BY <2>4, <3>2
  <2>5. QED
    BY <2>3, <2>4
<1>4. QED
  BY <1>2, <1>3

\* A message's indexes and payload, as a consumer finds them after the prefix.
LEMMA BodyIsRead ==
  ASSUME NEW path \in Seq(Index), Len(path) < Pow2[ValueBits], NEW b \in Seq(Byte),
         NEW rest, IsCut(rest, PutMessageIndexes(path) \o b)
  PROVE  IF Len(path) <= MaxIndexCount /\ Len(PutMessageIndexes(path)) <= Len(rest)
         THEN \E d : /\ DecodeMessageIndexes(rest) =
                          [ok |-> TRUE, path |-> Reported(path),
                           end |-> Len(PutMessageIndexes(path))]
                     /\ d = After(rest, Len(PutMessageIndexes(path)))
                     /\ IsCut(d, b)
                     /\ Len(rest) = Len(PutMessageIndexes(path)) + Len(b) => d = b
         ELSE DecodeMessageIndexes(rest) = Err
<1>1. PICK w \in Seq(Byte) : w = PutMessageIndexes(path)
  BY PutType
<1>2. rest \in Seq(Byte) /\ Holds(rest, 0, w) /\ IsCut(rest, w \o b)
  BY <1>1, CutHolds DEF IsCut
<1>3. DecodeMessageIndexes(rest) =
        IF Len(path) <= MaxIndexCount /\ Len(w) <= Len(rest)
        THEN [ok |-> TRUE, path |-> Reported(path), end |-> Len(w)] ELSE Err
  BY <1>1, <1>2, IndexesAreRead
<1>4. CASE Len(path) <= MaxIndexCount /\ Len(w) <= Len(rest)
  <2>1. PICK d : d = After(rest, Len(w))
    OBVIOUS
  <2>2. IsCut(d, b) /\ Len(d) = Len(rest) - Len(w)
    BY <1>2, <1>4, <2>1, CutAfter
  <2>3. ASSUME Len(rest) = Len(w) + Len(b) PROVE d = b
    <3>1. Len(d) = Len(b)
      BY <2>2, <2>3
    <3>2. QED
      BY <2>2, <3>1, CutWhole
  <2>4. QED
    BY <1>1, <1>3, <1>4, <2>1, <2>2, <2>3
<1>5. CASE ~(Len(path) <= MaxIndexCount /\ Len(w) <= Len(rest))
  BY <1>1, <1>3, <1>5
<1>6. QED
  BY <1>4, <1>5

LEMMA FrameParts ==
  ASSUME NEW k \in Keys, NEW path \in Seq(Index), Len(path) < Pow2[ValueBits], NEW b \in Seq(Byte)
  PROVE  /\ PutMessageIndexes(path) \o b \in Seq(Byte)
         /\ Len(PutMessageIndexes(path) \o b) = Len(PutMessageIndexes(path)) + Len(b)
         /\ EncodeProtobufWireFormat(k, path, b) = PutPrefix(k) \o (PutMessageIndexes(path) \o b)
         /\ Len(EncodeProtobufWireFormat(k, path, b))
              = EncodedLen(k) + Len(PutMessageIndexes(path) \o b)
<1>1. PICK w \in Seq(Byte) : w = PutMessageIndexes(path)
  BY PutType
<1>2. PICK p \in Seq(Byte) : p = PutPrefix(k) /\ Len(p) = EncodedLen(k)
  BY PrefixType
<1>3. (p \o w) \o b = p \o (w \o b)
  BY ConcatAssociative
<1>4. w \o b \in Seq(Byte) /\ Len(w \o b) = Len(w) + Len(b)
  OBVIOUS
<1>5. Len(p \o (w \o b)) = Len(p) + Len(w \o b)
  BY <1>4
<1>6. EncodeProtobufWireFormat(k, path, b) = p \o (w \o b)
  BY <1>1, <1>2, <1>3 DEF EncodeProtobufWireFormat
<1>7. QED
  BY <1>1, <1>2, <1>4, <1>5, <1>6

\* What a consumer may make of a framed message that lost its end, and what it must make
\* of one that did not.
IsFaithful(m, k, path, b) ==
  m.kind = "message" => m.key = k /\ m.path = Reported(path) /\ IsPrefix(m.payload, b)

IsReceived(m, k, path, b) ==
  m = IF Len(path) > MaxIndexCount THEN Failed ELSE Message(k, Reported(path), b)

LEMMA FrameDecoded ==
  ASSUME NEW k \in Keys, TypeOf[k] = "Protobuf", NEW path \in Seq(Index),
         Len(path) < Pow2[ValueBits], NEW b \in Seq(Byte),
         NEW data, IsCut(data, EncodeProtobufWireFormat(k, path, b))
  PROVE  /\ IsFaithful(Decode(data), k, path, b)
         /\ data = EncodeProtobufWireFormat(k, path, b) /\ "Confluent" \in decoder
              => IsReceived(Decode(data), k, path, b)
<1>1. PICK w \in Seq(Byte) : w = PutMessageIndexes(path)
  BY PutType
<1>2. PICK t \in Seq(Byte) : t = w \o b /\ Len(t) = Len(w) + Len(b)
  BY <1>1, FrameParts
<1>3. PICK p \in Seq(Byte) : p = PutPrefix(k) /\ Len(p) = EncodedLen(k)
  BY PrefixType
<1>4. PICK l \in Nat : l = EncodedLen(k)
  BY PrefixType
<1>5. IsCut(data, p \o t) /\ Len(EncodeProtobufWireFormat(k, path, b)) = l + Len(t)
  BY <1>1, <1>2, <1>3, <1>4, FrameParts
<1>6. CASE ~(l <= Len(data))
  <2>1. DetectWireFormat(data).format \in {"InvalidConfluent", "Unknown"}
    BY <1>3, <1>4, <1>5, <1>6, ConfluentDetected
  <2>2. Decode(data) = PassThrough(data)
    BY <2>1 DEF Decode
  <2>3. Decode(data).kind # "message"
    BY <2>2 DEF PassThrough
  <2>4. data # EncodeProtobufWireFormat(k, path, b)
    BY <1>5, <1>6
  <2>5. QED
    BY <2>3, <2>4 DEF IsFaithful
<1>7. CASE l <= Len(data)
  <2>1. DetectWireFormat(data) = [format |-> "Confluent", key |-> k, offset |-> l]
    BY <1>3, <1>4, <1>5, <1>7, ConfluentDetected
  <2>2. PICK rest : rest = After(data, l)
    OBVIOUS
  <2>3. Decode(data) = DecodeConfluent(k, rest)
    BY <2>1, <2>2 DEF Decode
  <2>4. IsCut(rest, w \o b) /\ Len(rest) = Len(data) - l
    BY <1>2, <1>3, <1>4, <1>5, <1>7, <2>2, CutAfter
  <2>5. CASE "Confluent" \notin decoder
    <3>1. Decode(data) = Failed
      BY <2>3, <2>5 DEF DecodeConfluent
    <3>2. QED
      BY <2>5, <3>1 DEF Failed, IsFaithful
  <2>6. CASE "Confluent" \in decoder
    <3>1. Decode(data) = IF DecodeMessageIndexes(rest).ok
                         THEN Message(k, DecodeMessageIndexes(rest).path,
                                      After(rest, DecodeMessageIndexes(rest).end))
                         ELSE Failed
      BY <2>3, <2>6 DEF DecodeConfluent
    <3>2. CASE Len(path) <= MaxIndexCount /\ Len(w) <= Len(rest)
      <4>1. PICK d : /\ DecodeMessageIndexes(rest) =
                          [ok |-> TRUE, path |-> Reported(path), end |-> Len(w)]
                     /\ d = After(rest, Len(w)) /\ IsCut(d, b)
                     /\ Len(rest) = Len(w) + Len(b) => d = b
        BY <1>1, <2>4, <3>2, BodyIsRead
      <4>2. Decode(data) = Message(k, Reported(path), d)
        BY <3>1, <4>1
      <4>3. IsPrefix(d, b)
        BY <4>1, CutPrefix
      <4>4. IsFaithful(Decode(data), k, path, b)
        BY <4>2, <4>3 DEF IsFaithful, Message
      <4>5. ASSUME data = EncodeProtobufWireFormat(k, path, b) PROVE d = b
        <5>1. Len(data) = l + Len(t)
          BY <1>5, <4>5
        <5>2. Len(rest) = Len(w) + Len(b)
          BY <1>2, <2>4, <5>1
        <5>3. QED
          BY <4>1, <5>2
      <4>6. ~(Len(path) > MaxIndexCount)
        BY <3>2, Widths
      <4>7. QED
        BY <4>2, <4>4, <4>5, <4>6 DEF IsReceived
    <3>3. CASE ~(Len(path) <= MaxIndexCount /\ Len(w) <= Len(rest))
      <4>1. DecodeMessageIndexes(rest) = Err
        BY <1>1, <2>4, <3>3, BodyIsRead
      <4>2. Decode(data) = Failed
        BY <3>1, <4>1 DEF Err
      <4>3. ASSUME data = EncodeProtobufWireFormat(k, path, b) PROVE Len(path) > MaxIndexCount
        <5>1. Len(data) = l + Len(t)
          BY <1>5, <4>3
        <5>2. Len(w) <= Len(rest)
          BY <1>2, <2>4, <5>1
        <5>3. QED
          BY <3>3, <5>2, Widths
      <4>4. QED
        BY <4>2, <4>3 DEF IsFaithful, IsReceived, Failed
    <3>4. QED
      BY <3>2, <3>3
  <2>7. QED
    BY <2>5, <2>6
<1>8. QED
  BY <1>6, <1>7

LEMMA FrameUnframed ==
  ASSUME NEW k \in Keys, NEW path \in Seq(Index), Len(path) < Pow2[ValueBits],
         NEW b \in Seq(Byte), NEW wanted,
         NEW data, IsCut(data, EncodeProtobufWireFormat(k, path, b))
  PROVE  /\ IsFaithful(Unframe(data, wanted), k, path, b)
         /\ Unframe(data, wanted).kind = "message" => wanted \in {NoPath, Reported(path)}
         /\ data = EncodeProtobufWireFormat(k, path, b) /\ wanted \in {NoPath, Reported(path)}
              => IsReceived(Unframe(data, wanted), k, path, b)
<1>1. PICK w \in Seq(Byte) : w = PutMessageIndexes(path)
  BY PutType
<1>2. PICK t \in Seq(Byte) : t = w \o b /\ Len(t) = Len(w) + Len(b)
  BY <1>1, FrameParts
<1>3. PICK p \in Seq(Byte) : p = PutPrefix(k) /\ Len(p) = EncodedLen(k)
  BY PrefixType
<1>4. PICK l \in Nat : l = EncodedLen(k)
  BY PrefixType
<1>5. IsCut(data, p \o t) /\ Len(EncodeProtobufWireFormat(k, path, b)) = l + Len(t)
  BY <1>1, <1>2, <1>3, <1>4, FrameParts
<1>6. CASE ~(l <= Len(data))
  <2>1. DecodeWirePrefix(data) = Err
    BY <1>3, <1>4, <1>5, <1>6, PrefixIsRead
  <2>2. Unframe(data, wanted) = Failed
    BY <2>1 DEF Unframe, Err
  <2>3. data # EncodeProtobufWireFormat(k, path, b)
    BY <1>5, <1>6
  <2>4. QED
    BY <2>2, <2>3 DEF IsFaithful, Failed
<1>7. CASE l <= Len(data)
  <2>1. DecodeWirePrefix(data) = [ok |-> TRUE, consumed |-> l, key |-> k]
    BY <1>3, <1>4, <1>5, <1>7, PrefixIsRead
  <2>2. /\ DecodeWirePrefix(data).ok /\ DecodeWirePrefix(data).key = k
        /\ DecodeWirePrefix(data).consumed = l
    BY <2>1
  <2>3. PICK rest : rest = After(data, l)
    OBVIOUS
  <2>4. IsCut(rest, w \o b) /\ Len(rest) = Len(data) - l
    BY <1>2, <1>3, <1>4, <1>5, <1>7, <2>3, CutAfter
  <2>5. Unframe(data, wanted) =
          IF DecodeMessageIndexes(rest).ok /\ wanted \in {NoPath, DecodeMessageIndexes(rest).path}
          THEN Message(k, DecodeMessageIndexes(rest).path,
                       After(rest, DecodeMessageIndexes(rest).end))
          ELSE Failed
    BY <2>2, <2>3 DEF Unframe
  <2>6. CASE Len(path) <= MaxIndexCount /\ Len(w) <= Len(rest)
    <3>1. PICK d : /\ DecodeMessageIndexes(rest) =
                        [ok |-> TRUE, path |-> Reported(path), end |-> Len(w)]
                   /\ d = After(rest, Len(w)) /\ IsCut(d, b)
                   /\ Len(rest) = Len(w) + Len(b) => d = b
      BY <1>1, <2>4, <2>6, BodyIsRead
    <3>2. Unframe(data, wanted) = IF wanted \in {NoPath, Reported(path)}
                                  THEN Message(k, Reported(path), d) ELSE Failed
      BY <2>5, <3>1
    <3>3. IsPrefix(d, b)
      BY <3>1, CutPrefix
    <3>4. ASSUME data = EncodeProtobufWireFormat(k, path, b) PROVE d = b
      <4>1. Len(data) = l + Len(t)
        BY <1>5, <3>4
      <4>2. Len(rest) = Len(w) + Len(b)
        BY <1>2, <2>4, <4>1
      <4>3. QED
        BY <3>1, <4>2
    <3>5. ~(Len(path) > MaxIndexCount)
      BY <2>6, Widths
    <3>6. QED
      BY <3>2, <3>3, <3>4, <3>5 DEF IsFaithful, IsReceived, Message, Failed
  <2>7. CASE ~(Len(path) <= MaxIndexCount /\ Len(w) <= Len(rest))
    <3>1. DecodeMessageIndexes(rest) = Err
      BY <1>1, <2>4, <2>7, BodyIsRead
    <3>2. Unframe(data, wanted) = Failed
      BY <2>5, <3>1 DEF Err
    <3>3. ASSUME data = EncodeProtobufWireFormat(k, path, b) PROVE Len(path) > MaxIndexCount
      <4>1. Len(data) = l + Len(t)
        BY <1>5, <3>3
      <4>2. Len(w) <= Len(rest)
        BY <1>2, <2>4, <4>1
      <4>3. QED
        BY <2>7, <4>2, Widths
    <3>4. QED
      BY <3>2, <3>3 DEF IsFaithful, IsReceived, Failed
  <2>8. QED
    BY <2>6, <2>7
<1>8. QED
  BY <1>6, <1>7

LEMMA PlainDecoded ==
  ASSUME NEW k \in Keys, TypeOf[k] # "Protobuf", NEW b \in Seq(Byte), "Confluent" \in decoder
  PROVE  Decode(EncodeWireFormat(k, b)) = Message(k, NoPath, b)
<1>1. PICK p \in Seq(Byte) : p = PutPrefix(k) /\ Len(p) = EncodedLen(k)
  BY PrefixType
<1>2. PICK data \in Seq(Byte) : data = p \o b /\ Len(data) = Len(p) + Len(b)
  <2>1. p \o b \in Seq(Byte) /\ Len(p \o b) = Len(p) + Len(b)
    OBVIOUS
  <2>2. QED
    BY <2>1
<1>3. EncodeWireFormat(k, b) = data
  BY <1>1, <1>2 DEF EncodeWireFormat
<1>4. IsCut(data, p \o b) /\ EncodedLen(k) <= Len(data)
  BY <1>1, <1>2 DEF IsCut
<1>5. DetectWireFormat(data) = [format |-> "Confluent", key |-> k, offset |-> EncodedLen(k)]
  BY <1>1, <1>4, ConfluentDetected
<1>6. After(data, EncodedLen(k)) = b
  <2>1. IsCut(After(data, Len(p)), b) /\ Len(After(data, Len(p))) = Len(data) - Len(p)
    BY <1>1, <1>4, CutAfter
  <2>2. Len(After(data, Len(p))) = Len(b)
    BY <1>2, <2>1
  <2>3. QED
    BY <1>1, <2>1, <2>2, CutWhole
<1>7. Decode(data) = DecodeConfluent(k, b)
  BY <1>5, <1>6 DEF Decode
<1>8. DecodeConfluent(k, b) = Message(k, NoPath, b)
  BY DEF DecodeConfluent
<1>9. QED
  BY <1>3, <1>7, <1>8

\* What decode_schema_id_header makes of a header.
ReadHeader(value) ==
  LET h == DecodeSchemaIdHeader(value)
  IN  IF h.ok THEN Message(h.key, h.path, <<>>) ELSE Failed

\* A header without a path.
LEMMA PlainHeaderRead ==
  ASSUME NEW k \in Keys, NEW data, IsCut(data, PutPrefix(k))
  PROVE  ReadHeader(data) = IF Len(data) = EncodedLen(k) THEN Message(k, NoPath, <<>>) ELSE Failed
<1>1. PICK p \in Seq(Byte) : p = PutPrefix(k) /\ Len(p) = EncodedLen(k)
  BY PrefixType
<1>2. PICK e \in Seq(Byte) : e = <<>>
  <2>1. <<>> \in Seq(Byte)
    OBVIOUS
  <2>2. QED
    BY <2>1
<1>3. p \o e = p
  BY <1>2
<1>4. IsCut(data, p \o e) /\ Len(data) <= EncodedLen(k) /\ data \in Seq(Byte)
  BY <1>1, <1>3 DEF IsCut
<1>5. DecodeWirePrefix(data) = IF EncodedLen(k) <= Len(data)
                               THEN [ok |-> TRUE, consumed |-> EncodedLen(k), key |-> k] ELSE Err
  BY <1>1, <1>4, PrefixIsRead
<1>6. CASE Len(data) = EncodedLen(k)
  <2>1. EncodedLen(k) <= Len(data)
    BY <1>6, PrefixType
  <2>2. DecodeWirePrefix(data) = [ok |-> TRUE, consumed |-> EncodedLen(k), key |-> k]
    BY <1>5, <2>1
  <2>3. /\ DecodeWirePrefix(data).ok /\ DecodeWirePrefix(data).key = k
        /\ DecodeWirePrefix(data).consumed = EncodedLen(k)
    BY <2>2
  <2>4. After(data, EncodedLen(k)) = <<>>
    BY <1>4, <1>6, PrefixType DEF After
  <2>5. DecodeSchemaIdHeader(data) = [ok |-> TRUE, key |-> k, path |-> NoPath]
    BY <2>3, <2>4 DEF DecodeSchemaIdHeader
  <2>6. ReadHeader(data) = Message(k, NoPath, <<>>)
    BY <2>5 DEF ReadHeader
  <2>7. QED
    BY <1>6, <2>6
<1>7. CASE Len(data) # EncodedLen(k)
  <2>1. ~(EncodedLen(k) <= Len(data))
    BY <1>4, <1>7, PrefixType
  <2>2. DecodeWirePrefix(data) = Err
    BY <1>5, <2>1
  <2>3. DecodeSchemaIdHeader(data) = Err
    BY <2>2 DEF DecodeSchemaIdHeader, Err
  <2>4. ReadHeader(data) = Failed
    BY <2>3 DEF ReadHeader, Err
  <2>5. QED
    BY <1>7, <2>4
<1>8. QED
  BY <1>6, <1>7

LEMMA HeaderRead ==
  ASSUME NEW k \in Keys, NEW path \in Seq(Index), Len(path) < Pow2[ValueBits],
         NEW data, IsCut(data, PutPrefix(k) \o PutMessageIndexes(path))
  PROVE  /\ ReadHeader(data).kind = "message" =>
              /\ ReadHeader(data).key = k /\ ReadHeader(data).payload = <<>>
              /\ \/ ReadHeader(data).path = Reported(path)
                 \/ Len(data) = EncodedLen(k) /\ ReadHeader(data).path = NoPath
         /\ data = PutPrefix(k) \o PutMessageIndexes(path)
              => IsReceived(ReadHeader(data), k, path, <<>>)
<1>1. PICK w \in Seq(Byte) : w = PutMessageIndexes(path) /\ Len(w) \in Nat \ {0}
  BY PutType
<1>2. PICK e \in Seq(Byte) : e = <<>>
  <2>1. <<>> \in Seq(Byte)
    OBVIOUS
  <2>2. QED
    BY <2>1
<1>3. w \o e = w
  BY <1>2
<1>4. PICK p \in Seq(Byte) : p = PutPrefix(k) /\ Len(p) = EncodedLen(k)
  BY PrefixType
<1>5. PICK l \in Nat : l = EncodedLen(k)
  BY PrefixType
<1>6. IsCut(data, p \o w) /\ Len(p \o w) = l + Len(w) /\ data \in Seq(Byte)
  <2>1. IsCut(data, p \o w)
    BY <1>1, <1>4
  <2>2. data \in Seq(Byte)
    BY <2>1 DEF IsCut
  <2>3. Len(p \o w) = Len(p) + Len(w)
    OBVIOUS
  <2>4. QED
    BY <1>4, <1>5, <2>1, <2>2, <2>3
<1>7. DecodeWirePrefix(data) = IF l <= Len(data)
                               THEN [ok |-> TRUE, consumed |-> l, key |-> k] ELSE Err
  BY <1>4, <1>5, <1>6, PrefixIsRead
<1>8. CASE ~(l <= Len(data))
  <2>1. DecodeWirePrefix(data) = Err
    BY <1>7, <1>8
  <2>2. DecodeSchemaIdHeader(data) = Err
    BY <2>1 DEF DecodeSchemaIdHeader, Err
  <2>3. ReadHeader(data) = Failed
    BY <2>2 DEF ReadHeader, Err
  <2>4. data # p \o w
    BY <1>6, <1>8
  <2>5. QED
    BY <1>1, <1>4, <2>3, <2>4 DEF Failed
<1>9. CASE l <= Len(data)
  <2>1. DecodeWirePrefix(data) = [ok |-> TRUE, consumed |-> l, key |-> k]
    BY <1>7, <1>9
  <2>2. /\ DecodeWirePrefix(data).ok /\ DecodeWirePrefix(data).key = k
        /\ DecodeWirePrefix(data).consumed = l
    BY <2>1
  <2>3. PICK rest : rest = After(data, l)
    OBVIOUS
  <2>4. IsCut(rest, w) /\ Len(rest) = Len(data) - l /\ rest \in Seq(Byte)
    <3>1. IsCut(rest, w) /\ Len(rest) = Len(data) - l
      BY <1>4, <1>5, <1>6, <1>9, <2>3, CutAfter
    <3>2. QED
      BY <3>1 DEF IsCut
  <2>5. CASE rest = <<>>
    <3>1. DecodeSchemaIdHeader(data) = [ok |-> TRUE, key |-> k, path |-> NoPath]
      BY <2>2, <2>3, <2>5 DEF DecodeSchemaIdHeader
    <3>2. ReadHeader(data) = Message(k, NoPath, <<>>)
      BY <3>1 DEF ReadHeader
    <3>3. Len(data) = l
      <4>1. Len(rest) = 0
        BY <2>5
      <4>2. QED
        BY <1>6, <2>4, <4>1
    <3>4. data # p \o w
      BY <1>1, <1>6, <3>3
    <3>5. QED
      BY <1>1, <1>4, <1>5, <3>2, <3>3, <3>4 DEF Message
  <2>6. CASE rest # <<>>
    <3>1. DecodeMessageIndexes(rest) =
            IF Len(path) <= MaxIndexCount /\ Len(w) <= Len(rest)
            THEN [ok |-> TRUE, path |-> Reported(path), end |-> Len(w)] ELSE Err
      <4>1. Holds(rest, 0, w)
        BY <1>2, <1>3, <2>4, CutHolds
      <4>2. QED
        BY <1>1, <2>4, <4>1, IndexesAreRead
    <3>2. CASE Len(path) <= MaxIndexCount /\ Len(w) <= Len(rest)
      <4>1. Len(rest) = Len(w)
        <5>1. Len(rest) <= Len(w) /\ Len(rest) \in Nat
          BY <2>4 DEF IsCut
        <5>2. QED
          BY <1>1, <3>2, <5>1
      <4>2. DecodeMessageIndexes(rest) = [ok |-> TRUE, path |-> Reported(path), end |-> Len(w)]
        BY <3>1, <3>2
      <4>3. /\ DecodeMessageIndexes(rest).ok /\ DecodeMessageIndexes(rest).path = Reported(path)
            /\ DecodeMessageIndexes(rest).end = Len(rest)
        BY <4>1, <4>2
      <4>4. DecodeSchemaIdHeader(data) = [ok |-> TRUE, key |-> k, path |-> Reported(path)]
        BY <2>2, <2>3, <2>6, <4>3 DEF DecodeSchemaIdHeader
      <4>5. ReadHeader(data) = Message(k, Reported(path), <<>>)
        BY <4>4 DEF ReadHeader
      <4>6. ~(Len(path) > MaxIndexCount)
        BY <3>2, Widths
      <4>7. QED
        BY <4>5, <4>6 DEF IsReceived, Message
    <3>3. CASE ~(Len(path) <= MaxIndexCount /\ Len(w) <= Len(rest))
      <4>1. DecodeMessageIndexes(rest) = Err
        BY <3>1, <3>3
      <4>2. DecodeSchemaIdHeader(data) = Err
        BY <2>2, <2>3, <2>6, <4>1 DEF DecodeSchemaIdHeader, Err
      <4>3. ReadHeader(data) = Failed
        BY <4>2 DEF ReadHeader, Err
      <4>4. ASSUME data = p \o w PROVE Len(path) > MaxIndexCount
        <5>1. Len(w) <= Len(rest)
          BY <1>1, <1>6, <2>4, <4>4
        <5>2. QED
          BY <3>3, <5>1, Widths
      <4>5. QED
        BY <1>1, <1>4, <4>3, <4>4 DEF IsReceived, Failed
    <3>4. QED
      BY <3>2, <3>3
  <2>7. QED
    BY <2>5, <2>6
<1>10. QED
  BY <1>8, <1>9

------------------------------------------------------------------------------
(***************************************************************************)
(* Glue records.                                                           *)
(***************************************************************************)
Compressed(c) == IF c = "None" THEN 0 ELSE 5

GlueHeader(k, c) == <<3, Compressed(c)>> \o k.bytes

GlueRaw(b, c) == IF c = "None" THEN b ELSE <<7>> \o b

LEMMA GlueParts ==
  ASSUME NEW k \in Keys, k.kind = "Guid", NEW b \in Seq(Byte), NEW c \in {"None", "Zlib"}
  PROVE  /\ GlueHeader(k, c) \in Seq(Byte) /\ Len(GlueHeader(k, c)) = GLUE_HEADER_SIZE
         /\ GLUE_HEADER_SIZE \in Nat /\ GLUE_HEADER_SIZE = 2 + Len(k.bytes)
         /\ GlueHeader(k, c)[1] = 3 /\ GlueHeader(k, c)[2] = Compressed(c)
         /\ \A i \in 1..Len(k.bytes) : GlueHeader(k, c)[2 + i] = k.bytes[i]
         /\ GlueRaw(b, c) \in Seq(Byte)
         /\ EncodeGlue(k.bytes, b, c) = GlueHeader(k, c) \o GlueRaw(b, c)
         /\ Len(EncodeGlue(k.bytes, b, c)) = GLUE_HEADER_SIZE + Len(GlueRaw(b, c))
<1>1. PICK x \in Byte : x = Compressed(c)
  BY SmallBytes DEF Compressed
<1>2. PICK s \in Seq(Byte) : s = <<3, x>> /\ Len(s) = 2 /\ s[1] = 3 /\ s[2] = x
  <2>1. 3 \in Byte
    BY SmallBytes
  <2>2. <<3, x>> \in Seq(Byte)
    BY <2>1
  <2>3. QED
    BY <2>2
<1>3. PICK i \in Seq(Byte) : i = k.bytes /\ Len(i) = GuidLen
  BY KeyShape
<1>4. PICK h \in Seq(Byte) : /\ h = s \o i /\ Len(h) = 2 + Len(i) /\ h[1] = 3 /\ h[2] = x
                             /\ \A j \in 1..Len(i) : h[2 + j] = i[j]
  <2>1. s \o i \in Seq(Byte) /\ Len(s \o i) = 2 + Len(i) /\ (s \o i)[1] = 3 /\ (s \o i)[2] = x
    BY <1>2
  <2>2. \A j \in 1..Len(i) : (s \o i)[2 + j] = i[j]
    BY <1>2
  <2>3. QED
    BY <2>1, <2>2
<1>5. h = GlueHeader(k, c)
  BY <1>1, <1>2, <1>3, <1>4 DEF GlueHeader
<1>6. Len(h) = GLUE_HEADER_SIZE /\ GLUE_HEADER_SIZE \in Nat /\ GLUE_HEADER_SIZE = 2 + Len(k.bytes)
  BY <1>3, <1>4, Widths DEF GLUE_HEADER_SIZE
<1>7. PICK r \in Seq(Byte) : r = GlueRaw(b, c)
  <2>1. <<7>> \in Seq(Byte)
    BY SmallBytes
  <2>2. <<7>> \o b \in Seq(Byte)
    BY <2>1
  <2>3. QED
    BY <2>2 DEF GlueRaw
<1>8. EncodeGlue(k.bytes, b, c) = h \o r
  <2>1. (IF c = "None" THEN b ELSE Compress(b)) = r
    BY <1>7 DEF GlueRaw, Compress, ZlibMark
  <2>2. <<GLUE_HEADER_VERSION_BYTE,
          IF c = "None" THEN GLUE_COMPRESSION_NONE_BYTE ELSE GLUE_COMPRESSION_ZLIB_BYTE>> = s
    BY <1>1, <1>2 DEF Compressed, GLUE_HEADER_VERSION_BYTE, GLUE_COMPRESSION_NONE_BYTE,
                      GLUE_COMPRESSION_ZLIB_BYTE
  <2>3. QED
    BY <1>3, <1>4, <2>1, <2>2 DEF EncodeGlue
<1>9. Len(h \o r) = Len(h) + Len(r)
  OBVIOUS
<1>10. QED
  BY <1>1, <1>3, <1>4, <1>5, <1>6, <1>7, <1>8, <1>9

LEMMA GlueDetected ==
  ASSUME NEW k \in Keys, k.kind = "Guid", NEW b \in Seq(Byte), NEW c \in {"None", "Zlib"},
         NEW data, IsCut(data, EncodeGlue(k.bytes, b, c))
  PROVE  /\ DecodeWirePrefix(data) = Err
         /\ IF GLUE_HEADER_SIZE <= Len(data)
            THEN DetectWireFormat(data) = [format |-> "Glue", id |-> k.bytes, compression |-> c,
                                           offset |-> GLUE_HEADER_SIZE]
            ELSE DetectWireFormat(data).format \in {"InvalidGlue", "Unknown"}
<1>1. PICK h \in Seq(Byte) : h = GlueHeader(k, c)
  BY GlueParts
<1>2. PICK r \in Seq(Byte) : r = GlueRaw(b, c)
  BY GlueParts
<1>3. PICK n \in Nat : n = Len(k.bytes) /\ GLUE_HEADER_SIZE = 2 + n /\ Len(h) = 2 + n
  <2>1. k.bytes \in Seq(Byte)
    BY KeyShape
  <2>2. Len(k.bytes) \in Nat
    BY <2>1
  <2>3. QED
    BY <1>1, <2>2, GlueParts
<1>4. data \in Seq(Byte) /\ Holds(data, 0, h)
  <2>1. IsCut(data, h \o r)
    BY <1>1, <1>2, GlueParts
  <2>2. QED
    BY <2>1, CutHolds DEF IsCut
<1>5. ASSUME NEW i \in 1..(2 + n), i <= Len(data) PROVE data[i] = h[i]
  <2>1. 0 + i = i /\ i \in 1..Len(h)
    BY <1>3
  <2>2. QED
    BY <1>4, <1>5, <2>1 DEF Holds
<1>6. h[1] = 3 /\ h[2] = Compressed(c)
  BY <1>1, GlueParts
<1>7. CASE data = <<>>
  <2>1. Len(data) = 0 /\ ~(GLUE_HEADER_SIZE <= Len(data))
    BY <1>3, <1>7
  <2>2. DecodeWirePrefix(data) = Err
    BY <1>7 DEF DecodeWirePrefix, MAGIC_BYTE_V0, MAGIC_BYTE_V1
  <2>3. DetectWireFormat(data) = [format |-> "Unknown"]
    BY <1>7 DEF DetectWireFormat, MAGIC_BYTE_V0, MAGIC_BYTE_V1, GLUE_HEADER_VERSION_BYTE
  <2>4. QED
    BY <2>1, <2>2, <2>3
<1>8. CASE data # <<>>
  <2>1. data[1] = 3
    <3>1. 1 <= Len(data) /\ 1 \in 1..(2 + n)
      BY <1>4, <1>8
    <3>2. QED
      BY <1>5, <1>6, <3>1
  <2>2. DecodeWirePrefix(data) = Err
    BY <1>8, <2>1 DEF DecodeWirePrefix, MAGIC_BYTE_V0, MAGIC_BYTE_V1
  <2>3. DetectWireFormat(data) =
          IF GLUE_HEADER_SIZE <= Len(data) /\ data[2] \in {0, 5}
          THEN [format |-> "Glue", id |-> SubSeq(data, 3, GLUE_HEADER_SIZE),
                compression |-> IF data[2] = 0 THEN "None" ELSE "Zlib",
                offset |-> GLUE_HEADER_SIZE]
          ELSE [format |-> "InvalidGlue"]
    <3>1. Len(data) >= GLUE_HEADER_SIZE <=> GLUE_HEADER_SIZE <= Len(data)
      BY <1>3, <1>4
    <3>2. QED
      BY <1>8, <2>1, <3>1 DEF DetectWireFormat, MAGIC_BYTE_V0, MAGIC_BYTE_V1,
            GLUE_HEADER_VERSION_BYTE, GLUE_COMPRESSION_NONE_BYTE, GLUE_COMPRESSION_ZLIB_BYTE
  <2>4. CASE GLUE_HEADER_SIZE <= Len(data)
    <3>1. 2 + n <= Len(data)
      BY <1>3, <2>4
    <3>2. data[2] = Compressed(c)
      <4>1. 2 <= Len(data) /\ 2 \in 1..(2 + n)
        BY <1>4, <3>1
      <4>2. QED
        BY <1>5, <1>6, <4>1
    <3>3. data[2] \in {0, 5} /\ (IF data[2] = 0 THEN "None" ELSE "Zlib") = c
      BY <3>2 DEF Compressed
    <3>4. SubSeq(data, 3, 2 + n) = k.bytes
      <4>1. SubSeq(data, 3, 2 + n) = [i \in 1..n |-> data[2 + i]]
        BY <1>4, <3>1
      <4>2. ASSUME NEW i \in 1..n PROVE data[2 + i] = k.bytes[i]
        <5>1. 2 + i \in 1..(2 + n) /\ 2 + i <= Len(data)
          BY <1>4, <3>1
        <5>2. h[2 + i] = k.bytes[i]
          <6>1. \A j \in 1..Len(k.bytes) : GlueHeader(k, c)[2 + j] = k.bytes[j]
            BY GlueParts
          <6>2. QED
            BY <1>1, <1>3, <6>1
        <5>3. QED
          BY <1>5, <5>1, <5>2
      <4>3. k.bytes = [i \in 1..n |-> k.bytes[i]]
        <5>1. PICK e \in Seq(Byte) : e = k.bytes /\ Len(e) = n
          BY <1>3, KeyShape
        <5>2. e = [i \in 1..Len(e) |-> e[i]]
          OBVIOUS
        <5>3. QED
          BY <5>1, <5>2
      <4>4. QED
        BY <4>1, <4>2, <4>3
    <3>5. QED
      BY <1>3, <2>2, <2>3, <2>4, <3>3, <3>4
  <2>5. CASE ~(GLUE_HEADER_SIZE <= Len(data))
    <3>1. DetectWireFormat(data) = [format |-> "InvalidGlue"]
      BY <2>3, <2>5
    <3>2. QED
      BY <2>2, <2>5, <3>1
  <2>6. QED
    BY <2>4, <2>5
<1>9. QED
  BY <1>7, <1>8

\* What comes out of a payload that lost its end, compressed or not.
Opened(raw, c) == IF c = "None" THEN [ok |-> TRUE, bytes |-> raw] ELSE DecompressZlib(raw)

LEMMA PayloadOpened ==
  ASSUME NEW b \in Seq(Byte), NEW c \in {"None", "Zlib"}, NEW raw, IsCut(raw, GlueRaw(b, c))
  PROVE  /\ Opened(raw, c).ok => IsPrefix(Opened(raw, c).bytes, b)
         /\ Len(raw) = Len(GlueRaw(b, c)) =>
              IF c = "Zlib" /\ Len(b) > MaxDecompressed THEN ~Opened(raw, c).ok
              ELSE Opened(raw, c).ok /\ Opened(raw, c).bytes = b
<1>1. raw \in Seq(Byte)
  BY DEF IsCut
<1>2. CASE c = "None"
  <2>1. IsCut(raw, b) /\ GlueRaw(b, c) = b
    BY <1>2 DEF GlueRaw
  <2>2. IsPrefix(raw, b)
    BY <2>1, CutPrefix
  <2>3. Len(raw) = Len(b) => raw = b
    BY <2>1, CutWhole
  <2>4. Opened(raw, c) = [ok |-> TRUE, bytes |-> raw]
    BY <1>2 DEF Opened
  <2>5. QED
    BY <1>2, <2>1, <2>2, <2>3, <2>4
<1>3. CASE c = "Zlib"
  <2>1. PICK s \in Seq(Byte) : s = <<7>> /\ Len(s) = 1 /\ s[1] = 7
    <3>1. <<7>> \in Seq(Byte)
      BY SmallBytes
    <3>2. QED
      BY <3>1
  <2>2. GlueRaw(b, c) = s \o b /\ Len(s \o b) = 1 + Len(b) /\ IsCut(raw, s \o b)
    BY <1>3, <2>1 DEF GlueRaw
  <2>3. Opened(raw, c) = IF Inflate(raw).ok /\ Len(Inflate(raw).bytes) <= MaxDecompressed
                         THEN Inflate(raw) ELSE Err
    BY <1>3 DEF Opened, DecompressZlib
  <2>4. CASE raw = <<>>
    <3>1. Inflate(raw) = [ok |-> TRUE, bytes |-> <<>>]
      BY <2>4 DEF Inflate
    <3>2. Len(raw) = 0
      BY <2>4
    <3>3. Len(raw) # Len(GlueRaw(b, c))
      BY <2>2, <3>2
    <3>4. IsPrefix(<<>>, b)
      <4>1. IsCut(raw, b)
        BY <1>1, <3>2 DEF IsCut
      <4>2. QED
        BY <2>4, <4>1, CutPrefix
    <3>5. QED
      BY <2>3, <3>1, <3>3, <3>4 DEF Err
  <2>5. CASE raw # <<>>
    <3>1. Len(raw) >= 1 /\ Holds(raw, 0, s)
      BY <1>1, <2>2, <2>5, CutHolds
    <3>2. Head(raw) = 7
      <4>1. raw[1] = 7
        <5>1. 0 + 1 = 1 /\ 1 \in 1..Len(s)
          BY <2>1
        <5>2. QED
          BY <2>1, <3>1, <5>1 DEF Holds
      <4>2. QED
        BY <1>1, <2>5, <4>1
    <3>3. PICK t : t = Tail(raw)
      OBVIOUS
    <3>4. Inflate(raw) = [ok |-> TRUE, bytes |-> t]
      BY <2>5, <3>2, <3>3 DEF Inflate, ZlibMark
    <3>5. IsCut(t, b) /\ Len(t) = Len(raw) - 1
      <4>1. t = SubSeq(raw, 2, Len(raw))
        BY <1>1, <2>5, <3>3, TailIsSubSeq
      <4>2. t = After(raw, Len(s))
        BY <2>1, <4>1 DEF After
      <4>3. IsCut(After(raw, Len(s)), b) /\ Len(After(raw, Len(s))) = Len(raw) - Len(s)
        BY <2>1, <2>2, <3>1, CutAfter
      <4>4. QED
        BY <2>1, <4>2, <4>3
    <3>6. IsPrefix(t, b)
      BY <3>5, CutPrefix
    <3>7. ASSUME Len(raw) = Len(GlueRaw(b, c)) PROVE t = b
      <4>1. Len(t) = Len(b)
        BY <2>2, <3>5, <3>7
      <4>2. QED
        BY <3>5, <4>1, CutWhole
    <3>8. Opened(raw, c) = IF Len(t) <= MaxDecompressed THEN [ok |-> TRUE, bytes |-> t] ELSE Err
      BY <2>3, <3>4
    <3>9. Len(b) > MaxDecompressed <=> ~(Len(b) <= MaxDecompressed)
      BY Widths
    <3>10. QED
      BY <1>3, <3>6, <3>7, <3>8, <3>9 DEF Err
  <2>6. QED
    BY <2>4, <2>5
<1>4. QED
  BY <1>2, <1>3

LEMMA GlueDecoded ==
  ASSUME NEW k \in Keys, k.kind = "Guid", NEW b \in Seq(Byte), NEW c \in {"None", "Zlib"},
         NEW data, IsCut(data, EncodeGlue(k.bytes, b, c))
  PROVE  /\ Decode(data).kind = "message" =>
              /\ Decode(data).key = k /\ Decode(data).path = NoPath
              /\ IsPrefix(Decode(data).payload, b)
         /\ data = EncodeGlue(k.bytes, b, c) /\ "Glue" \in decoder =>
              Decode(data) = IF c = "Zlib" /\ Len(b) > MaxDecompressed THEN Failed
                             ELSE Message(k, NoPath, b)
<1>1. PICK h \in Seq(Byte) : h = GlueHeader(k, c) /\ Len(h) = GLUE_HEADER_SIZE
  BY GlueParts
<1>2. PICK r \in Seq(Byte) : r = GlueRaw(b, c)
  BY GlueParts
<1>3. IsCut(data, h \o r) /\ Len(EncodeGlue(k.bytes, b, c)) = Len(h) + Len(r) /\ data \in Seq(Byte)
  BY <1>1, <1>2, GlueParts DEF IsCut
<1>4. CASE ~(Len(h) <= Len(data))
  <2>1. DetectWireFormat(data).format \in {"InvalidGlue", "Unknown"}
    BY <1>1, <1>4, GlueDetected
  <2>2. Decode(data) = PassThrough(data)
    BY <2>1 DEF Decode
  <2>3. data # EncodeGlue(k.bytes, b, c)
    BY <1>3, <1>4
  <2>4. QED
    BY <2>2, <2>3 DEF PassThrough
<1>5. CASE Len(h) <= Len(data)
  <2>1. PICK det : /\ det = DetectWireFormat(data)
                   /\ det = [format |-> "Glue", id |-> k.bytes, compression |-> c,
                             offset |-> Len(h)]
    BY <1>1, <1>5, GlueDetected
  <2>2. PICK raw : raw = After(data, Len(h))
    OBVIOUS
  <2>3. IsCut(raw, r) /\ Len(raw) = Len(data) - Len(h)
    BY <1>3, <1>5, <2>2, CutAfter
  <2>4. Decode(data) = DecodeGlueFrame(det, raw)
    BY <2>1, <2>2 DEF Decode
  <2>5. [kind |-> "Guid", bytes |-> k.bytes] = k
    BY KeyShape
  <2>6. DecodeGlueFrame(det, raw) = IF "Glue" \in decoder /\ Opened(raw, c).ok
                                    THEN Message(k, NoPath, Opened(raw, c).bytes) ELSE Failed
    <3>1. det.id = k.bytes /\ det.compression = c
      BY <2>1
    <3>2. QED
      BY <2>5, <3>1 DEF DecodeGlueFrame, Opened
  <2>7. Opened(raw, c).ok => IsPrefix(Opened(raw, c).bytes, b)
    BY <1>2, <2>3, PayloadOpened
  <2>8. ASSUME data = EncodeGlue(k.bytes, b, c)
        PROVE  IF c = "Zlib" /\ Len(b) > MaxDecompressed THEN ~Opened(raw, c).ok
               ELSE Opened(raw, c).ok /\ Opened(raw, c).bytes = b
    <3>1. Len(raw) = Len(r)
      BY <1>3, <2>3, <2>8
    <3>2. QED
      BY <1>2, <2>3, <3>1, PayloadOpened
  <2>9. QED
    BY <2>4, <2>6, <2>7, <2>8 DEF Message, Failed
<1>6. QED
  BY <1>4, <1>5

------------------------------------------------------------------------------
(***************************************************************************)
(* What is sent, and the inductive invariant.                              *)
(***************************************************************************)
IsPath(p) == p \in Seq(Index) /\ Len(p) < Pow2[ValueBits]

LEMMA DescriptorPathsAre ==
  ASSUME NEW p \in DescriptorPaths
  PROVE  IsPath(p)
<1>1. PICK d \in Descriptors : MessageIndexPath(d).ok /\ p = MessageIndexPath(d).path
  BY DEF DescriptorPaths
<1>2. d \in Seq(Int) /\ Len(d) < Pow2[ValueBits] /\ \A i \in DOMAIN d : d[i] < Pow2[ValueBits]
  BY ShapesAssumption
<1>3. PICK n \in Nat : n = Len(d)
  BY <1>2
<1>4. PICK half \in Nat : half = n \div 2
  OBVIOUS
<1>5. /\ half >= 1 /\ n = 2 * half
      /\ \A level \in 1..half : d[2 * level] >= 0
      /\ p = [level \in 1..half |-> d[2 * level]]
  BY <1>1, <1>3, <1>4 DEF MessageIndexPath, Err
<1>6. ASSUME NEW level \in 1..half PROVE d[2 * level] \in Index
  <2>1. 2 * level \in DOMAIN d
    <3>1. PICK j \in Nat : j = 2 * level
      OBVIOUS
    <3>2. j \in 1..n
      BY <1>3, <1>5, <3>1
    <3>3. QED
      BY <1>2, <1>3, <3>1, <3>2
  <2>2. d[2 * level] \in Int /\ d[2 * level] < Pow2[ValueBits] /\ d[2 * level] >= 0
    BY <1>2, <1>5, <2>1
  <2>3. QED
    BY <2>2, Widths DEF Index
<1>7. p \in Seq(Index) /\ Len(p) = half
  BY <1>5, <1>6
<1>8. half < Pow2[ValueBits]
  BY <1>2, <1>3, <1>5, Widths
<1>9. QED
  BY <1>7, <1>8 DEF IsPath

LEMMA ExplicitPathsAre == \A p \in Explicit : IsPath(p)
  BY ShapesAssumption DEF IsPath

LEMMA NoSuchPath == ~IsPath(NoPath) /\ ~IsPath(Anyone) /\ Anyone # NoPath /\ NoPath # <<>>
<1>1. -1 \notin Index /\ -2 \notin Index
  BY Widths DEF Index
<1>2. ASSUME NEW x \in Int, x \notin Index PROVE <<x>> \notin Seq(Index) /\ <<x>> # <<>>
  <2>1. <<x>>[1] = x /\ 1 \in DOMAIN <<x>>
    OBVIOUS
  <2>2. QED
    BY <1>2, <2>1
<1>3. -1 \in Int /\ -2 \in Int /\ <<-1>>[1] = -1 /\ <<-2>>[1] = -2
  OBVIOUS
<1>4. <<-1>> # <<-2>>
  BY <1>3
<1>5. QED
  BY <1>1, <1>2, <1>3, <1>4 DEF NoPath, Anyone, IsPath

\* The five kinds of record.
IsMessage(r, k, p, b) ==
  TypeOf[k] = "Protobuf" /\ IsPath(p) /\ b \in Seq(Byte) /\ r = Confluent(k, p, b)
IsPlain(r, k, b) ==
  TypeOf[k] # "Protobuf" /\ b \in Seq(Byte) /\ r = Confluent(k, NoPath, b)
IsHeader(r, k, p) == IsPath(p) /\ r = HeaderFramed(k, p)
IsPlainHeader(r, k) == r = HeaderFramed(k, NoPath)
IsGlue(r, k, b, c) ==
  k.kind = "Guid" /\ b \in Seq(Byte) /\ c \in {"None", "Zlib"} /\ r = Glue(k, b, c)

IsRecord(r) ==
  \E k \in Keys : \/ \E p, b : IsMessage(r, k, p, b)
                  \/ \E b : IsPlain(r, k, b)
                  \/ \E p : IsHeader(r, k, p)
                  \/ IsPlainHeader(r, k)
                  \/ \E b, c : IsGlue(r, k, b, c)

LEMMA RecordsAre ==
  ASSUME NEW r \in Records
  PROVE  IsRecord(r)
<1>1. ASSUME NEW k \in Keys, NEW p \in PathsOf(k)
      PROVE  \/ TypeOf[k] = "Protobuf" /\ IsPath(p)
             \/ TypeOf[k] # "Protobuf" /\ p = NoPath
  BY <1>1, DescriptorPathsAre, ExplicitPathsAre DEF PathsOf
<1>2. \A b \in Payloads : b \in Seq(Byte)
  BY ShapesAssumption
<1>3. CASE \E k \in Keys : \E p \in PathsOf(k), b \in Payloads : r = Confluent(k, p, b)
  <2>0. PICK k \in Keys : \E p \in PathsOf(k), b \in Payloads : r = Confluent(k, p, b)
    BY <1>3
  <2>1. PICK p \in PathsOf(k), b \in Payloads : r = Confluent(k, p, b)
    BY <2>0
  <2>2. IsMessage(r, k, p, b) \/ IsPlain(r, k, b)
    BY <1>1, <1>2, <2>1 DEF IsMessage, IsPlain
  <2>3. QED
    BY <2>2 DEF IsRecord
<1>4. CASE \E k \in Keys : \E p \in PathsOf(k) : r = HeaderFramed(k, p)
  <2>0. PICK k \in Keys : \E p \in PathsOf(k) : r = HeaderFramed(k, p)
    BY <1>4
  <2>1. PICK p \in PathsOf(k) : r = HeaderFramed(k, p)
    BY <2>0
  <2>2. IsHeader(r, k, p) \/ IsPlainHeader(r, k)
    BY <1>1, <2>1 DEF IsHeader, IsPlainHeader
  <2>3. QED
    BY <2>2 DEF IsRecord
<1>5. CASE \E k \in Keys, b \in Payloads, c \in {"None", "Zlib"} :
             k.kind = "Guid" /\ r = Glue(k, b, c)
  <2>1. PICK k \in Keys, b \in Payloads, c \in {"None", "Zlib"} :
               k.kind = "Guid" /\ r = Glue(k, b, c)
    BY <1>5
  <2>2. IsGlue(r, k, b, c)
    BY <1>2, <2>1 DEF IsGlue
  <2>3. QED
    BY <2>2 DEF IsRecord
<1>6. \/ \E k \in Keys : \E p \in PathsOf(k), b \in Payloads : r = Confluent(k, p, b)
      \/ \E k \in Keys : \E p \in PathsOf(k) : r = HeaderFramed(k, p)
      \/ \E k \in Keys, b \in Payloads, c \in {"None", "Zlib"} : k.kind = "Guid" /\ r = Glue(k, b, c)
  <2>1. CASE r \in UNION { {Confluent(k, p, b) : p \in PathsOf(k), b \in Payloads}
                           \cup {HeaderFramed(k, p) : p \in PathsOf(k)} : k \in Keys }
    <3>1. PICK k \in Keys : r \in {Confluent(k, p, b) : p \in PathsOf(k), b \in Payloads}
                                  \cup {HeaderFramed(k, p) : p \in PathsOf(k)}
      BY <2>1
    <3>2. CASE r \in {HeaderFramed(k, p) : p \in PathsOf(k)}
      BY <3>2
    <3>3. CASE r \in {Confluent(k, p, b) : p \in PathsOf(k), b \in Payloads}
      BY <3>3
    <3>4. QED
      BY <3>1, <3>2, <3>3
  <2>2. CASE r \in {Glue(k, b, c) : k \in {x \in Keys : x.kind = "Guid"}, b \in Payloads,
                                    c \in {"None", "Zlib"}}
    BY <2>2
  <2>3. QED
    BY <2>1, <2>2 DEF Records
<1>7. QED
  BY <1>3, <1>4, <1>5, <1>6

\* Each kind of record is told by its fields, and its bytes are bytes.
LEMMA RecordFields ==
  ASSUME NEW r, NEW k \in Keys
  PROVE  /\ \A p, b : IsMessage(r, k, p, b) =>
              /\ r.kind = "frame" /\ r.key = k /\ r.path = p /\ r.payload = b
              /\ r.whole = EncodeProtobufWireFormat(k, p, b) /\ r.whole \in Seq(Byte)
         /\ \A b : IsPlain(r, k, b) =>
              /\ r.kind = "frame" /\ r.key = k /\ r.path = NoPath /\ r.payload = b
              /\ r.whole = EncodeWireFormat(k, b) /\ r.whole \in Seq(Byte)
         /\ \A p : IsHeader(r, k, p) =>
              /\ r.kind = "header" /\ r.key = k /\ r.path = p /\ r.payload = <<>>
              /\ r.whole = PutPrefix(k) \o PutMessageIndexes(p) /\ r.whole \in Seq(Byte)
         /\ IsPlainHeader(r, k) =>
              /\ r.kind = "header" /\ r.key = k /\ r.path = NoPath /\ r.payload = <<>>
              /\ r.whole = PutPrefix(k) /\ r.whole \in Seq(Byte)
         /\ \A b, c : IsGlue(r, k, b, c) =>
              /\ r.kind = "glue" /\ r.key = k /\ r.path = NoPath /\ r.payload = b
              /\ r.compression = c
              /\ r.whole = EncodeGlue(k.bytes, b, c) /\ r.whole \in Seq(Byte)
<1>1. ASSUME NEW p, NEW b, IsMessage(r, k, p, b)
      PROVE  /\ r.kind = "frame" /\ r.key = k /\ r.path = p /\ r.payload = b
             /\ r.whole = EncodeProtobufWireFormat(k, p, b) /\ r.whole \in Seq(Byte)
  <2>1. p # NoPath /\ p \in Seq(Index) /\ Len(p) < Pow2[ValueBits] /\ b \in Seq(Byte)
    BY <1>1, NoSuchPath DEF IsMessage, IsPath
  <2>2. /\ r.kind = "frame" /\ r.key = k /\ r.path = p /\ r.payload = b
        /\ r.whole = EncodeProtobufWireFormat(k, p, b)
    BY <1>1, <2>1 DEF IsMessage, Confluent
  <2>3. PICK t \in Seq(Byte) : t = PutMessageIndexes(p) \o b
    BY <2>1, FrameParts
  <2>4. PICK x \in Seq(Byte) : x = PutPrefix(k)
    BY PrefixType
  <2>5. EncodeProtobufWireFormat(k, p, b) = x \o t
    BY <2>1, <2>3, <2>4, FrameParts
  <2>6. x \o t \in Seq(Byte)
    OBVIOUS
  <2>7. QED
    BY <2>2, <2>5, <2>6
<1>2. ASSUME NEW b, IsPlain(r, k, b)
      PROVE  /\ r.kind = "frame" /\ r.key = k /\ r.path = NoPath /\ r.payload = b
             /\ r.whole = EncodeWireFormat(k, b) /\ r.whole \in Seq(Byte)
  <2>1. /\ r.kind = "frame" /\ r.key = k /\ r.path = NoPath /\ r.payload = b
        /\ r.whole = EncodeWireFormat(k, b) /\ b \in Seq(Byte)
    BY <1>2 DEF IsPlain, Confluent
  <2>2. PICK x \in Seq(Byte) : x = PutPrefix(k)
    BY PrefixType
  <2>3. x \o b \in Seq(Byte)
    BY <2>1
  <2>4. QED
    BY <2>1, <2>2, <2>3 DEF EncodeWireFormat
<1>3. ASSUME NEW p, IsHeader(r, k, p)
      PROVE  /\ r.kind = "header" /\ r.key = k /\ r.path = p /\ r.payload = <<>>
             /\ r.whole = PutPrefix(k) \o PutMessageIndexes(p) /\ r.whole \in Seq(Byte)
  <2>1. p # NoPath /\ p \in Seq(Index) /\ Len(p) < Pow2[ValueBits]
    BY <1>3, NoSuchPath DEF IsHeader, IsPath
  <2>2. /\ r.kind = "header" /\ r.key = k /\ r.path = p /\ r.payload = <<>>
        /\ r.whole = PutPrefix(k) \o PutMessageIndexes(p)
    BY <1>3, <2>1 DEF IsHeader, HeaderFramed, EncodeSchemaIdHeader
  <2>3. PICK t \in Seq(Byte) : t = PutMessageIndexes(p)
    BY <2>1, PutType
  <2>4. PICK x \in Seq(Byte) : x = PutPrefix(k)
    BY PrefixType
  <2>5. x \o t \in Seq(Byte)
    OBVIOUS
  <2>6. QED
    BY <2>2, <2>3, <2>4, <2>5
<1>4. ASSUME IsPlainHeader(r, k)
      PROVE  /\ r.kind = "header" /\ r.key = k /\ r.path = NoPath /\ r.payload = <<>>
             /\ r.whole = PutPrefix(k) /\ r.whole \in Seq(Byte)
  <2>1. PICK x \in Seq(Byte) : x = PutPrefix(k)
    BY PrefixType
  <2>2. x \o <<>> = x
    OBVIOUS
  <2>3. QED
    BY <1>4, <2>1, <2>2 DEF IsPlainHeader, HeaderFramed, EncodeSchemaIdHeader
<1>5. ASSUME NEW b, NEW c, IsGlue(r, k, b, c)
      PROVE  /\ r.kind = "glue" /\ r.key = k /\ r.path = NoPath /\ r.payload = b
             /\ r.compression = c
             /\ r.whole = EncodeGlue(k.bytes, b, c) /\ r.whole \in Seq(Byte)
  <2>1. k.kind = "Guid" /\ b \in Seq(Byte) /\ c \in {"None", "Zlib"}
    BY <1>5 DEF IsGlue
  <2>2. /\ r.kind = "glue" /\ r.key = k /\ r.path = NoPath /\ r.payload = b
        /\ r.compression = c /\ r.whole = EncodeGlue(k.bytes, b, c)
    BY <1>5 DEF IsGlue, Glue
  <2>3. PICK h \in Seq(Byte) : h = GlueHeader(k, c)
    BY <2>1, GlueParts
  <2>4. PICK x \in Seq(Byte) : x = GlueRaw(b, c)
    BY <2>1, GlueParts
  <2>5. EncodeGlue(k.bytes, b, c) = h \o x
    BY <2>1, <2>3, <2>4, GlueParts
  <2>6. h \o x \in Seq(Byte)
    OBVIOUS
  <2>7. QED
    BY <2>2, <2>5, <2>6
<1>6. QED
  BY <1>1, <1>2, <1>3, <1>4, <1>5

-----------------------------------------------------------------------------
(***************************************************************************)
(* The invariant: what is under way is a beginning of what was framed, or a *)
(* stranger's bytes, and what a consumer reports is what it makes of them.  *)
(***************************************************************************)
Stranger == [kind |-> "foreign"]

Carried ==
  \/ sent = NoRecord
  \/ sent = Stranger
  \/ sent \in Records /\ \E n \in 0..Len(sent.whole) : frame = SubSeq(sent.whole, 1, n)

Made ==
  IF got = NoRecord THEN expected = Anyone
  ELSE \/ sent.kind = "header" /\ expected = Anyone /\ got = ReadHeader(frame)
       \/ sent.kind # "header" /\ expected = Anyone /\ got = Decode(frame)
       \/ /\ sent.kind # "header" /\ expected \in DescriptorPaths \cup {NoPath}
          /\ got = Unframe(frame, expected)

WireInv ==
  /\ frame \in Seq(Byte)
  /\ sent = NoRecord => got = NoRecord
  /\ Carried
  /\ Made

LEMMA RecordBytes ==
  ASSUME NEW r \in Records
  PROVE  /\ r.whole \in Seq(Byte) /\ r.kind \in {"frame", "header", "glue"}
         /\ r # NoRecord /\ r # Stranger
<1>1. PICK k \in Keys : \/ \E p, b : IsMessage(r, k, p, b)
                        \/ \E b : IsPlain(r, k, b)
                        \/ \E p : IsHeader(r, k, p)
                        \/ IsPlainHeader(r, k)
                        \/ \E b, c : IsGlue(r, k, b, c)
  BY RecordsAre DEF IsRecord
<1>2. r.whole \in Seq(Byte) /\ r.kind \in {"frame", "header", "glue"}
  <2>1. CASE \E p, b : IsMessage(r, k, p, b)
    BY <2>1, RecordFields
  <2>2. CASE \E b : IsPlain(r, k, b)
    BY <2>2, RecordFields
  <2>3. CASE \E p : IsHeader(r, k, p)
    BY <2>3, RecordFields
  <2>4. CASE IsPlainHeader(r, k)
    BY <2>4, RecordFields
  <2>5. CASE \E b, c : IsGlue(r, k, b, c)
    BY <2>5, RecordFields
  <2>6. QED
    BY <1>1, <2>1, <2>2, <2>3, <2>4, <2>5
<1>3. NoRecord.kind = "none" /\ Stranger.kind = "foreign"
  BY DEF NoRecord, Stranger
<1>4. QED
  BY <1>2, <1>3

LEMMA RecordKinds == NoRecord.kind = "none" /\ Stranger.kind = "foreign" /\ NoRecord # Stranger
<1>1. NoRecord.kind = "none" /\ Stranger.kind = "foreign"
  BY DEF NoRecord, Stranger
<1>2. QED
  BY <1>1

LEMMA WireInvInit == WireInit => WireInv
<1> SUFFICES ASSUME WireInit PROVE WireInv
  OBVIOUS
<1>1. frame = <<>> /\ frame \in Seq(Byte)
  BY DEF WireInit
<1>2. QED
  BY <1>1 DEF WireInit, WireInv, Carried, Made

LEMMA WireInvStep == WireInv /\ [WireNext]_wireVars => WireInv'
<1> SUFFICES ASSUME WireInv, [WireNext]_wireVars PROVE WireInv'
  OBVIOUS
<1>1. ASSUME NEW backend \in {"Confluent", "Glue"}, Attach(backend) PROVE WireInv'
  BY <1>1 DEF WireInv, Attach, Carried, Made
<1>2. ASSUME NEW r \in Records, Produce(r) PROVE WireInv'
  <2>1. r.whole \in Seq(Byte) /\ r # NoRecord
    BY RecordBytes
  <2>2. PICK s \in Seq(Byte) : s = r.whole
    BY <2>1
  <2>3. Len(s) \in 0..Len(s) /\ s = SubSeq(s, 1, Len(s))
    OBVIOUS
  <2>4. got = NoRecord /\ expected = Anyone
    BY <1>2 DEF WireInv, Produce, Made
  <2>5. Carried'
    BY <1>2, <2>2, <2>3 DEF Produce, Carried
  <2>6. QED
    BY <1>2, <2>1, <2>4, <2>5 DEF WireInv, Produce, Made
<1>3. ASSUME Foreign PROVE WireInv'
  <2>1. PICK n \in 0..ForeignLen : frame' \in SeqOf(Byte, n)
    BY <1>3 DEF Foreign
  <2>2. PICK m \in 0..n : frame' \in [1..m -> Byte]
    BY <2>1 DEF SeqOf
  <2>3. m \in Nat
    BY <2>1, <2>2, Widths
  <2>4. frame' \in Seq(Byte)
    BY <2>2, <2>3
  <2>5. got = NoRecord /\ sent' = Stranger /\ got' = got /\ expected' = expected
    BY <1>3 DEF WireInv, Foreign, Stranger
  <2>6. QED
    BY <2>4, <2>5, RecordKinds DEF WireInv, Made, Carried
<1>4. ASSUME NEW n \in 0..(Len(frame) - 1), Cut(n) PROVE WireInv'
  <2>1. /\ sent.kind \in {"frame", "header", "glue"} /\ got = NoRecord /\ frame = sent.whole
        /\ frame' = SubSeq(frame, 1, n)
        /\ sent' = sent /\ expected' = expected /\ got' = got
    BY <1>4 DEF Cut
  <2>2. sent \in Records
    BY <2>1, RecordKinds DEF WireInv, Carried
  <2>3. PICK s \in Seq(Byte) : s = frame
    BY DEF WireInv
  <2>4. n \in 0..Len(s) /\ SubSeq(s, 1, n) \in Seq(Byte)
    BY <2>3
  <2>5. Carried'
    BY <2>1, <2>2, <2>3, <2>4 DEF Carried
  <2>6. QED
    BY <2>1, <2>3, <2>4, <2>5 DEF WireInv, Made
<1>5. ASSUME Consume PROVE WireInv'
  <2>1. /\ sent # NoRecord /\ sent.kind # "header" /\ got = NoRecord
        /\ got' = Decode(frame)
        /\ decoder' = decoder /\ sent' = sent /\ frame' = frame /\ expected' = expected
    BY <1>5 DEF Consume
  <2>2. Decode(frame)' = Decode(frame)
    BY <2>1 DEF Decode, DecodeConfluent, DecodeGlueFrame
  <2>3. expected = Anyone
    BY <2>1 DEF WireInv, Made
  <2>4. QED
    BY <2>1, <2>2, <2>3 DEF WireInv, Made, Carried
<1>6. ASSUME ConsumeHeader PROVE WireInv'
  <2>1. /\ sent.kind = "header" /\ got = NoRecord
        /\ got' = ReadHeader(frame)
        /\ decoder' = decoder /\ sent' = sent /\ frame' = frame /\ expected' = expected
    BY <1>6 DEF ConsumeHeader, ReadHeader
  <2>2. expected = Anyone /\ sent # NoRecord
    BY <2>1, RecordKinds DEF WireInv, Made
  <2>3. QED
    BY <2>1, <2>2 DEF WireInv, Made, Carried
<1>7. ASSUME ConsumeProtobuf PROVE WireInv'
  <2>1. /\ sent # NoRecord /\ sent.kind # "header" /\ got = NoRecord
        /\ expected' \in DescriptorPaths \cup {NoPath}
        /\ got' = Unframe(frame, expected')
        /\ sent' = sent /\ frame' = frame
    BY <1>7 DEF ConsumeProtobuf
  <2>2. Unframe(frame, expected)' = Unframe(frame, expected')
    BY <2>1 DEF Unframe
  <2>3. got' # NoRecord
    BY <2>1 DEF Unframe, Message, Failed, NoRecord
  <2>4. QED
    BY <2>1, <2>2, <2>3 DEF WireInv, Made, Carried
<1>8. ASSUME UNCHANGED wireVars PROVE WireInv'
  <2>1. Decode(frame)' = Decode(frame)
    BY <1>8 DEF wireVars, Decode, DecodeConfluent, DecodeGlueFrame
  <2>2. QED
    BY <1>8, <2>1 DEF wireVars, WireInv, Made, Carried
<1>9. QED
  BY <1>1, <1>2, <1>3, <1>4, <1>5, <1>6, <1>7, <1>8 DEF WireNext

LEMMA WireInvHolds == WireSpec => []WireInv
  BY WireInvInit, WireInvStep, PTL DEF WireSpec

-----------------------------------------------------------------------------
(***************************************************************************)
(* What the invariant gives: a record that was framed here arrives as a cut *)
(* of its bytes, and is of one of the five kinds.                           *)
(***************************************************************************)
LEMMA Arrived ==
  ASSUME WireInv, sent # NoRecord, sent # Stranger
  PROVE  /\ sent \in Records /\ IsCut(frame, sent.whole)
         /\ sent.whole \in Seq(Byte)
<1>1. sent \in Records /\ \E n \in 0..Len(sent.whole) : frame = SubSeq(sent.whole, 1, n)
  BY DEF WireInv, Carried
<1>2. PICK s \in Seq(Byte) : s = sent.whole
  BY <1>1, RecordBytes
<1>3. PICK n \in 0..Len(s) : frame = SubSeq(s, 1, n)
  BY <1>1, <1>2
<1>4. QED
  BY <1>1, <1>2, <1>3, CutOf

LEMMA ReportedPath ==
  ASSUME NEW p, IsPath(p)
  PROVE  /\ IsPath(Reported(p)) /\ p # NoPath
         /\ Anyone # Reported(p) /\ Anyone # p /\ Reported(p) # NoPath
<1>1. 0 \in Index /\ 1 < Pow2[ValueBits]
  BY Widths DEF Index
<1>2. <<0>> \in Seq(Index) /\ Len(<<0>>) = 1
  BY <1>1
<1>3. IsPath(<<0>>)
  BY <1>1, <1>2 DEF IsPath
<1>4. IsPath(Reported(p))
  BY <1>3 DEF Reported
<1>5. QED
  BY <1>4, NoSuchPath

\* Who the consumer was: the header's, the WireFormatDecoder or a ProtobufSchemaDecoder.
LEMMA Asked ==
  ASSUME WireInv, got # NoRecord
  PROVE  /\ sent # NoRecord
         /\ expected = Anyone \/ (expected \in DescriptorPaths \cup {NoPath} /\ expected # Anyone)
         /\ sent.kind = "header" => expected = Anyone /\ got = ReadHeader(frame)
         /\ sent.kind # "header" /\ expected = Anyone => got = Decode(frame)
         /\ sent.kind # "header" /\ expected # Anyone => got = Unframe(frame, expected)
<1>1. \A p \in DescriptorPaths \cup {NoPath} : p # Anyone
  BY DescriptorPathsAre, NoSuchPath
<1>2. QED
  BY <1>1 DEF WireInv, Made

LEMMA GlueUnframed ==
  ASSUME NEW k \in Keys, k.kind = "Guid", NEW b \in Seq(Byte), NEW c \in {"None", "Zlib"},
         NEW data, IsCut(data, EncodeGlue(k.bytes, b, c)), NEW wanted
  PROVE  Unframe(data, wanted) = Failed
<1>1. DecodeWirePrefix(data) = Err
  BY GlueDetected
<1>2. ~DecodeWirePrefix(data).ok
  BY <1>1 DEF Err
<1>3. QED
  BY <1>2 DEF Unframe

LEMMA MessageFields ==
  ASSUME NEW k, NEW p, NEW b
  PROVE  /\ Message(k, p, b).kind = "message" /\ Message(k, p, b).key = k
         /\ Message(k, p, b).path = p /\ Message(k, p, b).payload = b
         /\ Failed.kind # "message"
  BY DEF Message, Failed

LEMMA NothingIsPrefix == IsPrefix(<<>>, <<>>)
<1>1. <<>> \in Seq(Byte)
  OBVIOUS
<1>2. IsCut(<<>>, <<>>)
  BY <1>1 DEF IsCut
<1>3. QED
  BY <1>1, <1>2, CutPrefix

LEMMA RoundTripHolds == WireInv => RoundTrip
<1> SUFFICES ASSUME WireInv, got # NoRecord, sent.kind # "foreign", frame = sent.whole,
                    Wanted(sent)
             PROVE  got = IF Unreadable(sent) THEN Failed
                          ELSE Message(sent.key, Reported(sent.path), sent.payload)
  BY DEF RoundTrip
<1>1. sent # NoRecord /\ sent # Stranger
  BY Asked, RecordKinds
<1>2. sent \in Records /\ IsCut(frame, sent.whole)
  BY <1>1, Arrived
<1>3. PICK k \in Keys : \/ \E p, b : IsMessage(sent, k, p, b)
                        \/ \E b : IsPlain(sent, k, b)
                        \/ \E p : IsHeader(sent, k, p)
                        \/ IsPlainHeader(sent, k)
                        \/ \E b, c : IsGlue(sent, k, b, c)
  BY <1>2, RecordsAre DEF IsRecord
<1>4. ASSUME NEW p, NEW b, IsMessage(sent, k, p, b)
      PROVE  got = IF Unreadable(sent) THEN Failed
                   ELSE Message(sent.key, Reported(sent.path), sent.payload)
  <2>1. /\ TypeOf[k] = "Protobuf" /\ IsPath(p) /\ p \in Seq(Index) /\ Len(p) < Pow2[ValueBits]
        /\ b \in Seq(Byte)
    BY <1>4 DEF IsMessage, IsPath
  <2>2. /\ sent.kind = "frame" /\ sent.key = k /\ sent.path = p /\ sent.payload = b
        /\ sent.whole = EncodeProtobufWireFormat(k, p, b)
    BY <1>4, RecordFields
  <2>3. p # NoPath /\ Anyone # Reported(p) /\ Anyone # NoPath
    BY <2>1, ReportedPath, NoSuchPath
  <2>4. Unreadable(sent) <=> Len(p) > MaxIndexCount
    BY <2>2, <2>3 DEF Unreadable
  <2>5. IsReceived(got, k, p, b)
    <3>1. CASE expected = Anyone
      <4>1. "Confluent" \in decoder
        BY <2>2, <2>3, <3>1 DEF Wanted
      <4>2. got = Decode(frame)
        BY <2>2, <3>1, Asked
      <4>3. QED
        BY <1>2, <2>1, <2>2, <4>1, <4>2, FrameDecoded
    <3>2. CASE expected # Anyone
      <4>1. expected \in {NoPath, Reported(p)}
        BY <2>2, <3>2 DEF Wanted
      <4>2. got = Unframe(frame, expected)
        BY <2>2, <3>2, Asked
      <4>3. QED
        BY <1>2, <2>1, <2>2, <4>1, <4>2, FrameUnframed
    <3>3. QED
      BY <3>1, <3>2
  <2>6. QED
    BY <2>2, <2>4, <2>5 DEF IsReceived
<1>5. ASSUME NEW b, IsPlain(sent, k, b)
      PROVE  got = IF Unreadable(sent) THEN Failed
                   ELSE Message(sent.key, Reported(sent.path), sent.payload)
  <2>1. TypeOf[k] # "Protobuf" /\ b \in Seq(Byte)
    BY <1>5 DEF IsPlain
  <2>2. /\ sent.kind = "frame" /\ sent.key = k /\ sent.path = NoPath /\ sent.payload = b
        /\ sent.whole = EncodeWireFormat(k, b)
    BY <1>5, RecordFields
  <2>3. expected = Anyone /\ "Confluent" \in decoder
    BY <2>2 DEF Wanted
  <2>4. got = Decode(frame)
    BY <2>2, <2>3, Asked
  <2>5. got = Message(k, NoPath, b)
    BY <2>1, <2>2, <2>3, <2>4, PlainDecoded
  <2>6. ~Unreadable(sent)
    BY <2>2 DEF Unreadable
  <2>7. Reported(NoPath) = NoPath
    BY NoSuchPath DEF Reported
  <2>8. QED
    BY <2>2, <2>5, <2>6, <2>7
<1>6. ASSUME NEW p, IsHeader(sent, k, p)
      PROVE  got = IF Unreadable(sent) THEN Failed
                   ELSE Message(sent.key, Reported(sent.path), sent.payload)
  <2>1. IsPath(p) /\ p \in Seq(Index) /\ Len(p) < Pow2[ValueBits] /\ p # NoPath
    BY <1>6, ReportedPath DEF IsHeader, IsPath
  <2>2. /\ sent.kind = "header" /\ sent.key = k /\ sent.path = p /\ sent.payload = <<>>
        /\ sent.whole = PutPrefix(k) \o PutMessageIndexes(p)
    BY <1>6, RecordFields
  <2>3. got = ReadHeader(frame)
    BY <2>2, Asked
  <2>4. Unreadable(sent) <=> Len(p) > MaxIndexCount
    BY <2>1, <2>2 DEF Unreadable
  <2>5. IsReceived(got, k, p, <<>>)
    BY <1>2, <2>1, <2>2, <2>3, HeaderRead
  <2>6. QED
    BY <2>2, <2>4, <2>5 DEF IsReceived
<1>7. ASSUME IsPlainHeader(sent, k)
      PROVE  got = IF Unreadable(sent) THEN Failed
                   ELSE Message(sent.key, Reported(sent.path), sent.payload)
  <2>1. /\ sent.kind = "header" /\ sent.key = k /\ sent.path = NoPath /\ sent.payload = <<>>
        /\ sent.whole = PutPrefix(k)
    BY <1>7, RecordFields
  <2>2. got = ReadHeader(frame)
    BY <2>1, Asked
  <2>3. Len(PutPrefix(k)) = EncodedLen(k)
    BY PrefixType
  <2>4. got = Message(k, NoPath, <<>>)
    BY <1>2, <2>1, <2>2, <2>3, PlainHeaderRead
  <2>5. ~Unreadable(sent)
    BY <2>1 DEF Unreadable
  <2>6. Reported(NoPath) = NoPath
    BY NoSuchPath DEF Reported
  <2>7. QED
    BY <2>1, <2>4, <2>5, <2>6
<1>8. ASSUME NEW b, NEW c, IsGlue(sent, k, b, c)
      PROVE  got = IF Unreadable(sent) THEN Failed
                   ELSE Message(sent.key, Reported(sent.path), sent.payload)
  <2>1. k.kind = "Guid" /\ b \in Seq(Byte) /\ c \in {"None", "Zlib"}
    BY <1>8 DEF IsGlue
  <2>2. /\ sent.kind = "glue" /\ sent.key = k /\ sent.path = NoPath /\ sent.payload = b
        /\ sent.compression = c /\ sent.whole = EncodeGlue(k.bytes, b, c)
    BY <1>8, RecordFields
  <2>3. expected = Anyone /\ "Glue" \in decoder
    BY <2>2 DEF Wanted
  <2>4. got = Decode(frame)
    BY <2>2, <2>3, Asked
  <2>5. got = IF c = "Zlib" /\ Len(b) > MaxDecompressed THEN Failed ELSE Message(k, NoPath, b)
    BY <1>2, <2>1, <2>2, <2>3, <2>4, GlueDecoded
  <2>6. Unreadable(sent) <=> c = "Zlib" /\ Len(b) > MaxDecompressed
    BY <2>2 DEF Unreadable
  <2>7. Reported(NoPath) = NoPath
    BY NoSuchPath DEF Reported
  <2>8. QED
    BY <2>2, <2>5, <2>6, <2>7
<1>9. QED
  BY <1>3, <1>4, <1>5, <1>6, <1>7, <1>8

LEMMA NeverAnotherMessageHolds == WireInv => NeverAnotherMessage
<1> DEFINE Goal == /\ got.key = sent.key
                   /\ IsPrefix(got.payload, sent.payload)
                   /\ expected \in {Anyone, NoPath, Reported(sent.path)}
                   /\ \/ got.path = Reported(sent.path)
                      \/ /\ sent.kind = "header" /\ Len(frame) = EncodedLen(sent.key)
                         /\ got.path = NoPath
<1> SUFFICES ASSUME WireInv, got.kind = "message", sent.kind # "foreign",
                    sent.kind = "frame" => sent.path # NoPath
             PROVE  Goal
  BY DEF NeverAnotherMessage
<1>1. got # NoRecord /\ sent # NoRecord /\ sent # Stranger
  BY Asked, RecordKinds
<1>2. sent \in Records /\ IsCut(frame, sent.whole)
  BY <1>1, Arrived
<1>3. PICK k \in Keys : \/ \E p, b : IsMessage(sent, k, p, b)
                        \/ \E b : IsPlain(sent, k, b)
                        \/ \E p : IsHeader(sent, k, p)
                        \/ IsPlainHeader(sent, k)
                        \/ \E b, c : IsGlue(sent, k, b, c)
  BY <1>2, RecordsAre DEF IsRecord
<1>4. ASSUME NEW p, NEW b, IsMessage(sent, k, p, b) PROVE Goal
  <2>1. /\ TypeOf[k] = "Protobuf" /\ p \in Seq(Index) /\ Len(p) < Pow2[ValueBits]
        /\ b \in Seq(Byte)
    BY <1>4 DEF IsMessage, IsPath
  <2>2. /\ sent.kind = "frame" /\ sent.key = k /\ sent.path = p /\ sent.payload = b
        /\ sent.whole = EncodeProtobufWireFormat(k, p, b)
    BY <1>4, RecordFields
  <2>3. CASE expected = Anyone
    <3>1. got = Decode(frame)
      BY <1>1, <2>2, <2>3, Asked
    <3>2. IsFaithful(got, k, p, b)
      BY <1>2, <2>1, <2>2, <3>1, FrameDecoded
    <3>3. QED
      BY <2>2, <2>3, <3>2 DEF IsFaithful
  <2>4. CASE expected # Anyone
    <3>1. got = Unframe(frame, expected)
      BY <1>1, <2>2, <2>4, Asked
    <3>2. IsFaithful(got, k, p, b) /\ expected \in {NoPath, Reported(p)}
      BY <1>2, <2>1, <2>2, <3>1, FrameUnframed
    <3>3. QED
      BY <2>2, <3>2 DEF IsFaithful
  <2>5. QED
    BY <2>3, <2>4
<1>5. ASSUME NEW b, IsPlain(sent, k, b) PROVE FALSE
  BY <1>5, RecordFields
<1>6. ASSUME NEW p, IsHeader(sent, k, p) PROVE Goal
  <2>1. p \in Seq(Index) /\ Len(p) < Pow2[ValueBits]
    BY <1>6 DEF IsHeader, IsPath
  <2>2. /\ sent.kind = "header" /\ sent.key = k /\ sent.path = p /\ sent.payload = <<>>
        /\ sent.whole = PutPrefix(k) \o PutMessageIndexes(p)
    BY <1>6, RecordFields
  <2>3. got = ReadHeader(frame) /\ expected = Anyone
    BY <1>1, <2>2, Asked
  <2>4. /\ got.key = k /\ got.payload = <<>>
        /\ \/ got.path = Reported(p)
           \/ Len(frame) = EncodedLen(k) /\ got.path = NoPath
    BY <1>2, <2>1, <2>2, <2>3, HeaderRead
  <2>5. QED
    BY <2>2, <2>3, <2>4, NothingIsPrefix
<1>7. ASSUME IsPlainHeader(sent, k) PROVE Goal
  <2>1. /\ sent.kind = "header" /\ sent.key = k /\ sent.path = NoPath /\ sent.payload = <<>>
        /\ sent.whole = PutPrefix(k)
    BY <1>7, RecordFields
  <2>2. got = ReadHeader(frame) /\ expected = Anyone
    BY <1>1, <2>1, Asked
  <2>3. got = IF Len(frame) = EncodedLen(k) THEN Message(k, NoPath, <<>>) ELSE Failed
    BY <1>2, <2>1, <2>2, PlainHeaderRead
  <2>4. got.key = k /\ got.path = NoPath /\ got.payload = <<>>
    BY <2>3, MessageFields
  <2>5. Reported(NoPath) = NoPath
    BY NoSuchPath DEF Reported
  <2>6. QED
    BY <2>1, <2>2, <2>4, <2>5, NothingIsPrefix
<1>8. ASSUME NEW b, NEW c, IsGlue(sent, k, b, c) PROVE Goal
  <2>1. k.kind = "Guid" /\ b \in Seq(Byte) /\ c \in {"None", "Zlib"}
    BY <1>8 DEF IsGlue
  <2>2. /\ sent.kind = "glue" /\ sent.key = k /\ sent.path = NoPath /\ sent.payload = b
        /\ sent.whole = EncodeGlue(k.bytes, b, c)
    BY <1>8, RecordFields
  <2>3. Reported(NoPath) = NoPath
    BY NoSuchPath DEF Reported
  <2>4. CASE expected = Anyone
    <3>1. got = Decode(frame)
      BY <1>1, <2>2, <2>4, Asked
    <3>2. got.key = k /\ got.path = NoPath /\ IsPrefix(got.payload, b)
      BY <1>2, <2>1, <2>2, <3>1, GlueDecoded
    <3>3. QED
      BY <2>2, <2>3, <2>4, <3>2
  <2>5. CASE expected # Anyone
    <3>1. got = Failed
      BY <1>1, <1>2, <2>1, <2>2, <2>5, Asked, GlueUnframed
    <3>2. QED
      BY <3>1, MessageFields
  <2>6. QED
    BY <2>4, <2>5
<1>9. QED
  BY <1>3, <1>4, <1>5, <1>6, <1>7, <1>8

\* Detection against the two strict decoders, for any bytes.
LEMMA DetectionIsStrict ==
  ASSUME NEW data \in Seq(Byte)
  PROVE  /\ (DetectWireFormat(data).format = "Confluent") <=> DecodeWirePrefix(data).ok
         /\ (DetectWireFormat(data).format = "Glue") <=> ValidateGlueHeader(data).ok
         /\ DecodeWirePrefix(data).ok =>
              /\ DetectWireFormat(data).key = DecodeWirePrefix(data).key
              /\ DetectWireFormat(data).offset = DecodeWirePrefix(data).consumed
         /\ ValidateGlueHeader(data).ok =>
              /\ DetectWireFormat(data).id = ValidateGlueHeader(data).id
              /\ DetectWireFormat(data).compression = ValidateGlueHeader(data).compression
              /\ DetectWireFormat(data).offset = GLUE_HEADER_SIZE
<1>1. GLUE_HEADER_SIZE \in Nat /\ GLUE_HEADER_SIZE >= 2
  BY Widths DEF GLUE_HEADER_SIZE
<1>2. CASE data = <<>>
  <2>1. Len(data) = 0 /\ Len(data) < GLUE_HEADER_SIZE
    BY <1>1, <1>2
  <2>2. ~DecodeWirePrefix(data).ok
    BY <1>2 DEF DecodeWirePrefix, Err, MAGIC_BYTE_V0, MAGIC_BYTE_V1
  <2>3. ~ValidateGlueHeader(data).ok
    BY <2>1 DEF ValidateGlueHeader, Err
  <2>4. DetectWireFormat(data).format = "Unknown"
    BY <1>2 DEF DetectWireFormat, MAGIC_BYTE_V0, MAGIC_BYTE_V1, GLUE_HEADER_VERSION_BYTE
  <2>5. QED
    BY <2>2, <2>3, <2>4
<1>3. CASE data # <<>>
  <2>1. PICK first \in Nat : first = data[1]
    <3>1. 1 \in DOMAIN data
      BY <1>3
    <3>2. data[1] \in Byte
      BY <3>1
    <3>3. QED
      BY <3>2, SmallBytes
  <2>2. CASE first \in {0, 1}
    <3>1. ~ValidateGlueHeader(data).ok
      BY <2>1, <2>2 DEF ValidateGlueHeader, Err, GLUE_HEADER_VERSION_BYTE
    <3>2. PICK prefix : prefix = DecodeWirePrefix(data)
      OBVIOUS
    <3>3. CASE prefix.ok
      <4>1. DetectWireFormat(data) = [format |-> "Confluent", key |-> prefix.key,
                                      offset |-> prefix.consumed]
        BY <1>3, <2>1, <2>2, <3>2, <3>3 DEF DetectWireFormat, MAGIC_BYTE_V0, MAGIC_BYTE_V1,
             GLUE_HEADER_VERSION_BYTE
      <4>2. QED
        BY <3>1, <3>2, <3>3, <4>1
    <3>4. CASE ~prefix.ok
      <4>1. DetectWireFormat(data) = [format |-> "InvalidConfluent"]
        BY <1>3, <2>1, <2>2, <3>2, <3>4 DEF DetectWireFormat, MAGIC_BYTE_V0, MAGIC_BYTE_V1,
             GLUE_HEADER_VERSION_BYTE
      <4>2. QED
        BY <3>1, <3>2, <3>4, <4>1
    <3>5. QED
      BY <3>3, <3>4
  <2>3. CASE first = 3
    <3>1. ~DecodeWirePrefix(data).ok
      BY <1>3, <2>1, <2>3 DEF DecodeWirePrefix, Err, MAGIC_BYTE_V0, MAGIC_BYTE_V1
    <3>2. CASE Len(data) >= GLUE_HEADER_SIZE /\ data[2] \in {0, 5}
      <4>1. PICK comp : comp = IF data[2] = 0 THEN "None" ELSE "Zlib"
        OBVIOUS
      <4>2. PICK id : id = SubSeq(data, 3, GLUE_HEADER_SIZE)
        OBVIOUS
      <4>3. DetectWireFormat(data) = [format |-> "Glue", id |-> id, compression |-> comp,
                                      offset |-> GLUE_HEADER_SIZE]
        BY <1>3, <2>1, <2>3, <3>2, <4>1, <4>2 DEF DetectWireFormat, MAGIC_BYTE_V0, MAGIC_BYTE_V1,
             GLUE_HEADER_VERSION_BYTE, GLUE_COMPRESSION_NONE_BYTE, GLUE_COMPRESSION_ZLIB_BYTE
      <4>4. ~(Len(data) < GLUE_HEADER_SIZE)
        BY <1>1, <3>2
      <4>5. ValidateGlueHeader(data) = [ok |-> TRUE, id |-> id, compression |-> comp]
        BY <2>1, <2>3, <3>2, <4>1, <4>2, <4>4 DEF ValidateGlueHeader,
             GLUE_HEADER_VERSION_BYTE, GLUE_COMPRESSION_NONE_BYTE, GLUE_COMPRESSION_ZLIB_BYTE
      <4>6. QED
        BY <3>1, <4>3, <4>5
    <3>3. CASE ~(Len(data) >= GLUE_HEADER_SIZE /\ data[2] \in {0, 5})
      <4>1. DetectWireFormat(data) = [format |-> "InvalidGlue"]
        BY <1>3, <2>1, <2>3, <3>3 DEF DetectWireFormat, MAGIC_BYTE_V0, MAGIC_BYTE_V1,
             GLUE_HEADER_VERSION_BYTE, GLUE_COMPRESSION_NONE_BYTE, GLUE_COMPRESSION_ZLIB_BYTE
      <4>2. Len(data) < GLUE_HEADER_SIZE \/ data[2] \notin {0, 5}
        BY <1>1, <3>3
      <4>3. ~ValidateGlueHeader(data).ok
        BY <4>2 DEF ValidateGlueHeader, Err, GLUE_COMPRESSION_NONE_BYTE,
                    GLUE_COMPRESSION_ZLIB_BYTE
      <4>4. QED
        BY <3>1, <4>1, <4>3
    <3>4. QED
      BY <3>2, <3>3
  <2>4. CASE first \notin {0, 1, 3}
    <3>1. ~DecodeWirePrefix(data).ok
      BY <1>3, <2>1, <2>4 DEF DecodeWirePrefix, Err, MAGIC_BYTE_V0, MAGIC_BYTE_V1
    <3>2. ~ValidateGlueHeader(data).ok
      BY <2>1, <2>4 DEF ValidateGlueHeader, Err, GLUE_HEADER_VERSION_BYTE
    <3>3. DetectWireFormat(data).format = "Unknown"
      BY <1>3, <2>1, <2>4 DEF DetectWireFormat, MAGIC_BYTE_V0, MAGIC_BYTE_V1,
                              GLUE_HEADER_VERSION_BYTE
    <3>4. QED
      BY <3>1, <3>2, <3>3
  <2>5. QED
    BY <2>2, <2>3, <2>4
<1>4. QED
  BY <1>2, <1>3

LEMMA DetectionAgreesHolds == WireInv => DetectionAgrees
<1> SUFFICES ASSUME WireInv PROVE DetectionAgrees
  OBVIOUS
<1>1. frame \in Seq(Byte)
  BY DEF WireInv
<1>2. ASSUME got.kind = "message", expected = Anyone, DetectWireFormat(frame).format = "Glue"
      PROVE  DecodeGlue(frame) = [ok |-> TRUE, id |-> got.key.bytes, payload |-> got.payload]
  <2>1. got # NoRecord /\ sent # NoRecord
    BY <1>2, Asked, RecordKinds
  <2>2. ASSUME sent.kind = "header" PROVE FALSE
    <3>1. sent # Stranger
      BY <2>2, RecordKinds
    <3>2. sent \in Records /\ IsCut(frame, sent.whole)
      BY <2>1, <3>1, Arrived
    <3>3. PICK k \in Keys : \/ \E p, b : IsMessage(sent, k, p, b)
                            \/ \E b : IsPlain(sent, k, b)
                            \/ \E p : IsHeader(sent, k, p)
                            \/ IsPlainHeader(sent, k)
                            \/ \E b, c : IsGlue(sent, k, b, c)
      BY <3>2, RecordsAre DEF IsRecord
    <3>4. (\E p : IsHeader(sent, k, p)) \/ IsPlainHeader(sent, k)
      BY <2>2, <3>3, RecordFields
    <3>5. PICK t \in Seq(Byte) : sent.whole = PutPrefix(k) \o t
      <4>1. CASE IsPlainHeader(sent, k)
        <5>1. PICK x \in Seq(Byte) : x = PutPrefix(k)
          BY PrefixType
        <5>2. x \o <<>> = x /\ <<>> \in Seq(Byte)
          OBVIOUS
        <5>3. sent.whole = x
          BY <4>1, <5>1, RecordFields
        <5>4. QED
          BY <5>1, <5>2, <5>3
      <4>2. CASE \E p : IsHeader(sent, k, p)
        <5>1. PICK p : IsHeader(sent, k, p)
          BY <4>2
        <5>2. p \in Seq(Index) /\ Len(p) < Pow2[ValueBits]
          BY <5>1 DEF IsHeader, IsPath
        <5>3. PutMessageIndexes(p) \in Seq(Byte)
          BY <5>2, PutType
        <5>4. QED
          BY <5>1, <5>3, RecordFields
      <4>3. QED
        BY <3>4, <4>1, <4>2
    <3>6. DetectWireFormat(frame).format # "Glue"
      <4>1. IsCut(frame, PutPrefix(k) \o t)
        BY <3>2, <3>5
      <4>2. CASE EncodedLen(k) <= Len(frame)
        <5>1. DetectWireFormat(frame) = [format |-> "Confluent", key |-> k,
                                         offset |-> EncodedLen(k)]
          BY <4>1, <4>2, ConfluentDetected
        <5>2. QED
          BY <5>1
      <4>3. CASE ~(EncodedLen(k) <= Len(frame))
        BY <4>1, <4>3, ConfluentDetected
      <4>4. QED
        BY <4>2, <4>3
    <3>7. QED
      BY <1>2, <3>6
  <2>3. got = Decode(frame)
    BY <1>2, <2>1, <2>2, Asked
  <2>4. PICK d : d = DetectWireFormat(frame)
    OBVIOUS
  <2>5. PICK g : g = ValidateGlueHeader(frame)
    OBVIOUS
  <2>6. /\ d.format = "Glue" /\ g.ok /\ d.id = g.id /\ d.compression = g.compression
        /\ d.offset = GLUE_HEADER_SIZE
    BY <1>1, <1>2, <2>4, <2>5, DetectionIsStrict
  <2>7. PICK raw : raw = After(frame, GLUE_HEADER_SIZE)
    OBVIOUS
  <2>8. PICK o : o = Opened(raw, g.compression)
    OBVIOUS
  <2>9. got = IF "Glue" \in decoder /\ o.ok /\ [kind |-> "Guid", bytes |-> g.id] \in Keys
              THEN Message([kind |-> "Guid", bytes |-> g.id], NoPath, o.bytes) ELSE Failed
    <3>1. got = DecodeGlueFrame(d, raw)
      BY <2>3, <2>4, <2>6, <2>7 DEF Decode
    <3>2. QED
      BY <2>6, <2>8, <3>1 DEF DecodeGlueFrame, Opened
  <2>10. o.ok /\ got = Message([kind |-> "Guid", bytes |-> g.id], NoPath, o.bytes)
    BY <1>2, <2>9, MessageFields
  <2>11. got.key.bytes = g.id /\ got.payload = o.bytes
    BY <2>10, MessageFields
  <2>12. DecodeGlue(frame) = [ok |-> TRUE, id |-> g.id, payload |-> o.bytes]
    BY <2>5, <2>6, <2>7, <2>8, <2>10 DEF DecodeGlue, Opened
  <2>13. QED
    BY <2>11, <2>12
<1>3. QED
  BY <1>1, <1>2, DetectionIsStrict DEF DetectionAgrees

LEMMA ReadUndoesWriteHolds == WireInv => ReadUndoesWrite
<1> SUFFICES ASSUME WireInv PROVE ReadUndoesWrite
  OBVIOUS
<1>1. frame \in Seq(Byte)
  BY DEF WireInv
<1>2. CASE ReadVarint(frame, 0) = Err
  BY <1>2 DEF ReadUndoesWrite, Err
<1>3. CASE ReadVarint(frame, 0) # Err
  <2>1. PICK n \in 1..MaxGroups :
          /\ ReadVarint(frame, 0) = [ok |-> TRUE, consumed |-> n,
                                     value |-> Spelled(frame, 0)[n] % Pow2[WordBits]]
          /\ 0 + n <= Len(frame) /\ frame[0 + n] < More
          /\ \A i \in 1..(n - 1) : frame[0 + i] >= More
    BY <1>1, <1>3, ReadVarintShape
  <2>2. n \in Nat /\ 0 + n = n
    OBVIOUS
  <2>3. \A i \in 1..(n - 1) : 0 + i = i
    OBVIOUS
  <2>4. n <= Len(frame) /\ frame[n] < More /\ \A i \in 1..(n - 1) : frame[i] >= More
    BY <2>1, <2>2, <2>3
  <2>5. PICK v \in Nat : v = Spelled(frame, 0)[n]
    BY <1>1, <2>2, SpelledDefined
  <2>6. CASE \/ n > 1 /\ frame[n] = 0
             \/ v >= Pow2[WordBits]
    BY <2>1, <2>5, <2>6, Widths DEF ReadUndoesWrite
  <2>7. CASE ~(n > 1 /\ frame[n] = 0) /\ ~(v >= Pow2[WordBits])
    <3>1. v < Pow2[WordBits]
      BY <2>7, Widths
    <3>2. v % Pow2[WordBits] = v
      BY <3>1, Widths
    <3>3. writeVarint(v) = SubSeq(frame, 1, n)
      BY <1>1, <2>4, <2>5, <2>7, <3>1, VarintReadsBack
    <3>4. QED
      BY <2>1, <2>5, <3>2, <3>3 DEF ReadUndoesWrite
  <2>8. QED
    BY <2>6, <2>7
<1>4. QED
  BY <1>2, <1>3

-----------------------------------------------------------------------------
\* A record that arrives whole is decoded to the key, path and payload it was framed
\* with, by every consumer set up for it, or refused when it exceeds the limits only
\* the decoders have (encode_wire_format, encode_protobuf_wire_format,
\* encode_schema_id_header and encode_glue_wire_format against WireFormatDecoder::decode,
\* ProtobufSchemaDecoder::unframe and decode_schema_id_header), whatever the widths, the
\* keys, the paths and the payloads.
THEOREM RecordsRoundTrip == WireSpec => []RoundTrip
  BY WireInvHolds, RoundTripHolds, PTL

\* A Protobuf, Glue or header-framed record cut at any byte is never decoded as another
\* message: what is decoded has the key and path that were sent and a payload that is a
\* beginning of the one sent, but for a header cut at the end of its prefix
\* (decode_message_indexes, decode_schema_id_header, unframe).
THEOREM MessagesAreNotConfused == WireSpec => []NeverAnotherMessage
  BY WireInvHolds, NeverAnotherMessageHolds, PTL

\* detect_wire_format claims the records decode_wire_prefix and
\* validate_glue_wire_header accept, and no others, and reads the same header from
\* them, for any bytes a topic holds.
THEOREM DetectionIsExact == WireSpec => []DetectionAgrees
  BY WireInvHolds, DetectionAgreesHolds, PTL

\* A number of the word's width that read_varint accepts, write_varint writes back to the
\* same bytes, unless they were padded, for any width of the groups and the word.
THEOREM VarintsReadBack == WireSpec => []ReadUndoesWrite
  BY WireInvHolds, ReadUndoesWriteHolds, PTL
==============================================================================
