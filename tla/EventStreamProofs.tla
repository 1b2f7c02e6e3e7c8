------------------------- MODULE EventStreamProofs -------------------------
(***************************************************************************)
(* Proofs about EventStream for any appenders, subscribers, kinds, window, *)
(* batch size and number of faults, however the appends interleave.  The   *)
(* numbers of the log are unique as long as no two appends are at the      *)
(* counter at once (LogInv).  The streams need no such condition: between  *)
(* a client and the server's cursor lies exactly what is still to be sent, *)
(* except for what was stored behind them (SendOf), and a poll returns     *)
(* everything up to the last event it sends (BatchDown).                   *)
(***************************************************************************)
EXTENDS EventStream, FiniteSetTheorems, TLAPS

(* What the steps of an appender and of a stream rely on.                  *)
StepInv ==
  /\ \A w \in Writers : wpc[w] # "idle" => taken[w] \in Seqs
  /\ \A s \in Subs : ~Ended(s) => cursor[s] \in Position /\ idle[s] < MaxIdle
  /\ \A s \in Subs : stream[s] = "poll" => limit[s] \in Position

TypeInv == TypeOK /\ StepInv

(* The initial states are well-typed.                                      *)
LEMMA InitTyped == Init => TypeInv
<1>. SUFFICES ASSUME Init PROVE TypeInv
  OBVIOUS
<1>1. raced \in BOOLEAN
  BY Zenon DEF Init
<1>2. late \in [Subs -> SUBSET Event]
  BY DEF Init
<1>. QED
  BY <1>1, <1>2, EventAssumption
  DEF Init, TypeInv, TypeOK, StepInv, Ended, Seqs, Steps, Streams, Position

(* The events a poll returns are stored events the filter lets through.    *)
LEMMA MatchingStored ==
  ASSUME TypeOK, NEW from, NEW to, NEW e \in Matching(from, to)
  PROVE  /\ e \in Event /\ e.seq \in Seqs /\ e.kind \in Wanted
         /\ \E i \in Stored(from, to) : events[i] = e /\ i \in Batch(from, to)
<1>1. PICK i \in Batch(from, to) : events[i] = e /\ events[i].kind \in Wanted
  BY DEF Matching
<1>2. i \in Stored(from, to) /\ events[i] # None /\ i \in Seqs
  BY DEF Batch, Stored
<1>3. e \in Event
  BY <1>1, <1>2 DEF TypeOK
<1>. QED
  BY <1>1, <1>2, <1>3 DEF Event

(* The records that change are new events, and the history holds events.   *)
LEMMA NextHistory ==
  ASSUME TypeInv, Next
  PROVE  raced' \in BOOLEAN /\ late' \in [Subs -> SUBSET Event]
<1>1. Race
  BY DEF Next
<1>2. raced' \in BOOLEAN
  BY <1>1, Zenon DEF Race
<1>3. \A i \in Changed : events'[i] \in Event
  <2>1. CASE \E w \in Writers, k \in Kinds : StoreEvent(w, k)
    <3>1. PICK w \in Writers, k \in Kinds : StoreEvent(w, k)
      BY <2>1
    <3>. DEFINE e == [seq |-> taken[w], kind |-> k, by |-> w]
    <3>2. e \in Event /\ events' = [events EXCEPT ![taken[w]] = e]
      BY <3>1 DEF StoreEvent, Event, TypeInv, StepInv
    <3>3. events \in [Seqs -> Event \cup {None}]
      BY DEF TypeInv, TypeOK
    <3>. HIDE DEF e
    <3>. QED
      BY <3>2, <3>3 DEF Changed
  <2>2. CASE events' = events
    BY <2>2 DEF Changed
  <2>. QED
    BY <2>1, <2>2
    DEF Next, AppendStep, ReadCounter, WriteCounter, AppendFails, Connect, Serve, Subscribe,
        SubscribeExpired, PollCheck, PollExpired, PollEvents, PollNothing, SendFrame, Break, log
<1>4. \A s \in Subs : late[s] \in SUBSET Event
  BY DEF TypeInv, TypeOK
<1>. QED
  BY <1>1, <1>2, <1>3, <1>4 DEF Race

(* Every step keeps the state well-typed, whatever the appends do.         *)
LEMMA NextTyped == TypeInv /\ [Next]_vars => TypeInv'
<1>. SUFFICES ASSUME TypeInv, [Next]_vars PROVE TypeInv'
  OBVIOUS
<1>. USE EventAssumption DEF TypeInv, TypeOK, StepInv, Ended, Seqs, Steps, Streams, Position,
         log, writers, server, clients
<1>13. CASE UNCHANGED vars
  BY <1>13 DEF vars
<1>. SUFFICES ASSUME Next PROVE TypeInv'
  BY <1>13
<1>0. raced' \in BOOLEAN /\ late' \in [Subs -> SUBSET Event]
  BY NextHistory
<1>1. ASSUME NEW w \in Writers, ReadCounter(w) PROVE TypeInv'
  BY <1>0, <1>1 DEF ReadCounter
<1>2. ASSUME NEW w \in Writers, WriteCounter(w) PROVE TypeInv'
  BY <1>0, <1>2 DEF WriteCounter
<1>3. ASSUME NEW w \in Writers, NEW k \in Kinds, StoreEvent(w, k) PROVE TypeInv'
  <2>. DEFINE e == [seq |-> taken[w], kind |-> k, by |-> w]
  <2>1. e \in Event
    BY <1>0, <1>3 DEF StoreEvent, Event
  <2>2. /\ events' = [events EXCEPT ![taken[w]] = e]
        /\ wpc' = [wpc EXCEPT ![w] = "idle"] /\ taken' = [taken EXCEPT ![w] = None]
        /\ UNCHANGED <<nextSeq, server, clients, faults>>
    BY <1>0, <1>3 DEF StoreEvent
  <2>. HIDE DEF e
  <2>. QED
    BY <1>0, <2>1, <2>2
<1>4. ASSUME NEW w \in Writers, AppendFails(w) PROVE TypeInv'
  BY <1>0, <1>4 DEF AppendFails
<1>5. ASSUME NEW s \in Subs, NEW pos \in (0..MaxSeq + 1) \cup {None}, Subscribe(s, pos)
      PROVE  TypeInv'
  <2>1. StartAt(pos) \in Position
    BY DEF StartAt
  <2>. QED
    BY <1>0, <1>5, <2>1 DEF Subscribe
<1>6. ASSUME NEW s \in Subs, SubscribeExpired(s) PROVE TypeInv'
  BY <1>0, <1>6, SMTT(60) DEF SubscribeExpired
<1>7. ASSUME NEW s \in Subs, PollCheck(s) PROVE TypeInv'
  BY <1>0, <1>7 DEF PollCheck
<1>8. ASSUME NEW s \in Subs, PollExpired(s) PROVE TypeInv'
  BY <1>0, <1>8 DEF PollExpired
<1>9. ASSUME NEW s \in Subs, PollEvents(s) PROVE TypeInv'
  <2>1. PICK e \in Matching(cursor[s], limit[s]) : cursor' = [cursor EXCEPT ![s] = e.seq + 1]
    BY <1>0, <1>9 DEF PollEvents
  <2>2. e.seq \in Seqs /\ Matching(cursor[s], limit[s]) \in SUBSET Event
    BY <2>1, MatchingStored
  <2>3. e.seq + 1 \in Position
    BY <2>2
  <2>. QED
    BY <1>0, <1>9, <2>1, <2>2, <2>3, SMTT(60) DEF PollEvents
<1>10. ASSUME NEW s \in Subs, PollNothing(s) PROVE TypeInv'
  <2>. DEFINE n == idle[s]
  <2>1. ~Ended(s)
    BY <1>0, <1>10 DEF PollNothing
  <2>2. cursor[s] \in Position /\ n < MaxIdle /\ n \in 0..MaxIdle
    BY <2>1
  <2>3. n + 1 \in 0..MaxIdle
    <3>. HIDE DEF n
    <3>. QED
      BY <2>2
  <2>4. stream' \in [Subs -> Streams] /\ idle' \in [Subs -> 0..MaxIdle]
    BY <1>0, <1>10, <2>3 DEF PollNothing
  <2>5. resume' \in [Subs -> Position \cup {None}]
    BY <1>0, <1>10, <2>2 DEF PollNothing
  <2>6. \A t \in Subs : ~Ended(t)' => cursor'[t] \in Position /\ idle'[t] < MaxIdle
    BY <1>0, <1>10, <2>2, <2>3 DEF PollNothing
  <2>. QED
    BY <1>0, <1>10, <2>4, <2>5, <2>6 DEF PollNothing
<1>11. ASSUME NEW s \in Subs, SendFrame(s) PROVE TypeInv'
  <2>1. PICK e \in outbox[s] :
          /\ received' = [received EXCEPT ![s] = Append(@, e)]
          /\ resume' = [resume EXCEPT ![s] = e.seq + 1]
          /\ outbox' = [outbox EXCEPT ![s] = @ \ {e}]
          /\ stream' = [stream EXCEPT ![s] = IF outbox[s] = {e} THEN "open" ELSE "send"]
    BY <1>0, <1>11 DEF SendFrame
  <2>2. e \in Event /\ e.seq + 1 \in Position
    BY <2>1 DEF Event
  <2>3. received' \in [Subs -> Seq(Event)]
    BY <2>1, <2>2
  <2>. QED
    BY <1>0, <1>11, <2>1, <2>2, <2>3 DEF SendFrame
<1>12. ASSUME NEW s \in Subs, Break(s) PROVE TypeInv'
  BY <1>0, <1>12 DEF Break
<1>. QED
  BY <1>1, <1>2, <1>3, <1>4, <1>5, <1>6, <1>7, <1>8, <1>9, <1>10, <1>11, <1>12
  DEF Next, AppendStep, Connect, Serve

(* The log, the appenders, the streams and the clients hold values of      *)
(* their types in every reachable state: appends that race on the counter, *)
(* fail between their writes, or streams that break, never leave them.     *)
THEOREM TypeCorrect == Spec => []TypeOK
<1>1. TypeInv => TypeOK
  BY DEF TypeInv
<1>. QED
  BY InitTyped, NextTyped, <1>1, PTL DEF Spec
-----------------------------------------------------------------------------
(* As long as no two appends were at the counter at once, the number of    *)
(* each append is its own: the one at the counter holds the next number,   *)
(* those that are to store hold different numbers below it, and none holds *)
(* the number of a stored event.                                           *)
LogInv ==
  /\ \A v, w \in Writers : wpc[v] = "count" /\ wpc[w] = "count" => v = w
  /\ \A w \in Writers : wpc[w] = "count" => nextSeq = taken[w]
  /\ \A w \in Writers : wpc[w] = "store" => taken[w] < nextSeq
  /\ \A v, w \in Writers : wpc[v] = "store" /\ wpc[w] = "store" /\ taken[v] = taken[w] => v = w
  /\ \A i \in Seqs : events[i] # None =>
       i < nextSeq /\ \A w \in Writers : wpc[w] = "store" => taken[w] # i

Inv == TypeInv /\ (~raced => LogInv)

(* The step of an appender leaves the others alone.                        *)
LEMMA LogStep ==
  ASSUME TypeInv, LogInv, ~raced', Next
  PROVE  LogInv' /\ \A n \in Seqs : events[n] # None => events'[n] = events[n]
<1>. DEFINE Kept == \A n \in Seqs : events[n] # None => events'[n] = events[n]
<1>. SUFFICES LogInv' /\ Kept
  OBVIOUS
<1>0. \A v, w \in Writers : wpc'[v] = "count" /\ wpc'[w] = "count" => v = w
  BY DEF Next, Race
<1>. USE DEF LogInv
<1>1. ASSUME NEW w \in Writers, ReadCounter(w) PROVE LogInv' /\ Kept
  BY <1>0, <1>1 DEF ReadCounter, log, TypeInv, TypeOK
<1>2. ASSUME NEW w \in Writers, WriteCounter(w) PROVE LogInv' /\ Kept
  <2>1. taken[w] \in Seqs /\ nextSeq = taken[w] /\ nextSeq \in Int /\ nextSeq' = nextSeq + 1
    BY <1>2 DEF WriteCounter, TypeInv, StepInv, TypeOK, Seqs
  <2>2. /\ wpc' = [wpc EXCEPT ![w] = "store"] /\ wpc[w] = "count" /\ wpc \in [Writers -> Steps]
        /\ UNCHANGED <<events, taken>>
    BY <1>2 DEF WriteCounter, TypeInv, TypeOK
  <2>3. \A v \in Writers : wpc[v] # "idle" => taken[v] \in Int
    BY DEF TypeInv, StepInv, Seqs
  <2>4. \A i \in Seqs : i \in Int
    BY DEF Seqs
  <2>5. ASSUME NEW v \in Writers, wpc'[v] = "count" PROVE FALSE
    <3>1. v # w /\ wpc[v] = "count"
      BY <2>2, <2>5
    <3>. QED
      BY <2>2, <3>1
  <2>6. \A v \in Writers : wpc'[v] = "store" => v = w \/ (wpc[v] = "store" /\ taken[v] < taken[w])
    BY <2>1, <2>2
  <2>7. \A v \in Writers : wpc'[v] = "store" => taken'[v] < nextSeq'
    BY <2>1, <2>2, <2>3, <2>6
  <2>8. \A v, u \in Writers : wpc'[v] = "store" /\ wpc'[u] = "store" /\ taken'[v] = taken'[u] => v = u
    BY <2>1, <2>2, <2>3, <2>6
  <2>9. ASSUME NEW i \in Seqs, events'[i] # None
        PROVE  i < nextSeq' /\ \A v \in Writers : wpc'[v] = "store" => taken'[v] # i
    <3>1. i < nextSeq /\ \A v \in Writers : wpc[v] = "store" => taken[v] # i
      BY <2>2, <2>9
    <3>. QED
      BY <2>1, <2>2, <2>4, <2>6, <3>1
  <2>. QED
    BY <2>2, <2>5, <2>7, <2>8, <2>9
<1>3. ASSUME NEW w \in Writers, NEW k \in Kinds, StoreEvent(w, k) PROVE LogInv' /\ Kept
  <2>. DEFINE e == [seq |-> taken[w], kind |-> k, by |-> w]
  <2>1. /\ events' = [events EXCEPT ![taken[w]] = e] /\ nextSeq' = nextSeq /\ wpc[w] = "store"
        /\ wpc' = [wpc EXCEPT ![w] = "idle"] /\ taken' = [taken EXCEPT ![w] = None]
    BY <1>3 DEF StoreEvent
  <2>2. taken[w] \in Seqs /\ taken[w] < nextSeq
    BY <2>1 DEF TypeInv, StepInv
  <2>3. /\ events \in [Seqs -> Event \cup {None}] /\ wpc \in [Writers -> Steps]
        /\ taken \in [Writers -> Seqs \cup {None}]
    BY DEF TypeInv, TypeOK
  <2>4. \A v \in Writers : wpc'[v] # "idle" => v # w /\ wpc'[v] = wpc[v] /\ taken'[v] = taken[v]
    BY <2>1, <2>3
  <2>5. events[taken[w]] = None
    BY <2>1, <2>2
  <2>. HIDE DEF e
  <2>6. \A i \in Seqs : i # taken[w] => events'[i] = events[i]
    BY <2>1, <2>3
  <2>7. \A v \in Writers : wpc'[v] = "store" => taken'[v] # taken[w]
    BY <2>1, <2>4
  <2>8. ASSUME NEW i \in Seqs, events'[i] # None
        PROVE  i < nextSeq' /\ \A v \in Writers : wpc'[v] = "store" => taken'[v] # i
    <3>1. CASE i = taken[w]
      BY <2>1, <2>2, <2>7, <3>1
    <3>2. CASE i # taken[w]
      BY <2>1, <2>4, <2>6, <2>8, <3>2
    <3>. QED
      BY <3>1, <3>2
  <2>9. /\ \A v \in Writers : wpc'[v] = "count" => nextSeq' = taken'[v]
        /\ \A v \in Writers : wpc'[v] = "store" => taken'[v] < nextSeq'
        /\ \A v, u \in Writers : wpc'[v] = "store" /\ wpc'[u] = "store" /\ taken'[v] = taken'[u] => v = u
    BY <2>1, <2>4
  <2>. QED
    BY <1>0, <2>5, <2>6, <2>8, <2>9
<1>4. ASSUME NEW w \in Writers, AppendFails(w) PROVE LogInv' /\ Kept
  BY <1>4 DEF AppendFails, log, TypeInv, TypeOK
<1>5. CASE UNCHANGED <<log, writers>>
  BY <1>5 DEF log, writers
<1>. QED
  BY <1>1, <1>2, <1>3, <1>4, <1>5
  DEF Next, AppendStep, Connect, Serve, Subscribe, SubscribeExpired, PollCheck, PollExpired,
      PollEvents, PollNothing, SendFrame, Break

(* Every step keeps the invariant and the events stored before it.         *)
LEMMA InvStep ==
  ASSUME Inv, [Next]_vars
  PROVE  Inv' /\ (~raced' => \A n \in Seqs : events[n] # None => events'[n] = events[n])
<1>1. TypeInv /\ TypeInv'
  BY NextTyped DEF Inv
<1>2. ASSUME ~raced', Next
      PROVE  LogInv' /\ \A n \in Seqs : events[n] # None => events'[n] = events[n]
  <2>1. Race /\ raced \in BOOLEAN
    BY <1>1, <1>2 DEF Next, TypeInv, TypeOK
  <2>2. ~raced
    BY <1>2, <2>1, Zenon DEF Race
  <2>. QED
    BY <1>1, <1>2, <2>2, LogStep DEF Inv
<1>3. CASE UNCHANGED vars
  BY <1>1, <1>3 DEF Inv, LogInv, vars, log, writers
<1>. QED
  BY <1>1, <1>2, <1>3 DEF Inv

(* Until two appends are at the counter at once, append_event never writes *)
(* over an event, in whatever order appends store and wherever they fail.  *)
THEOREM EventsKeptHolds == Spec => EventsKept
<1>. DEFINE Kept == ~raced' => \A n \in Seqs : events[n] # None => events'[n] = events[n]
<1>1. Init => Inv
  BY InitTyped DEF Init, Inv, LogInv
<1>2. Inv /\ [Next]_vars => Inv' /\ [Kept]_vars
  BY InvStep
<1>. QED
  BY <1>1, <1>2, PTL DEF Spec, EventsKept

-----------------------------------------------------------------------------
(* The batch of a poll has no gap: with a stored event it holds every      *)
(* stored event before that one.                                           *)
LEMMA BatchDown ==
  ASSUME NEW from, NEW to, NEW i \in Batch(from, to), NEW j \in Stored(from, to), j <= i
  PROVE  j \in Batch(from, to)
<1>. DEFINE A == Stored(from, i + 1)
            B == Stored(from, j + 1)
<1>1. i \in Seqs /\ j \in Seqs /\ Cardinality(A) <= BatchMax
  BY DEF Batch, Stored
<1>2. B \subseteq A
  BY <1>1 DEF Stored, Seqs
<1>3. IsFiniteSet(A)
  <2>1. IsFiniteSet(Seqs)
    BY EventAssumption, FS_Interval DEF Seqs
  <2>2. A \subseteq Seqs
    BY DEF Stored
  <2>. QED
    BY <2>1, <2>2, FS_Subset
<1>4. Cardinality(B) <= Cardinality(A) /\ Cardinality(A) \in Nat /\ Cardinality(B) \in Nat
  BY <1>2, <1>3, FS_Subset, FS_CardinalityType
<1>5. Cardinality(B) <= BatchMax
  <2>. HIDE DEF A, B
  <2>. QED
    BY <1>1, <1>4, EventAssumption
<1>. QED
  BY <1>5 DEF Batch

-----------------------------------------------------------------------------
(* A record is stored under its own number.                                *)
Numbered == \A i \in Seqs : events[i] # None => events[i].seq = i

(* Where a client and its stream stand, and what lies between the two.     *)
PlaceOf(s) ==
  /\ first[s] = None <=> resume[s] = None
  /\ ~Ended(s) => resume[s] # None
  /\ resume[s] = None => received[s] = <<>>
  /\ resume[s] # None => first[s] <= resume[s]
  /\ stream[s] \in {"open", "poll"} => cursor[s] = resume[s]

(* Record n is one the client asked for and was not stored behind it.      *)
Due(s, n) == events[n] # None /\ events[n].kind \in Wanted /\ events[n] \notin late[s]

SendOf(s) ==
  stream[s] = "send" =>
    /\ \E d \in outbox[s] : d.seq + 1 = cursor[s]
    /\ \A d \in outbox[s] : resume[s] <= d.seq /\ d.seq < cursor[s]
    /\ \A d, e \in outbox[s] : d.seq = e.seq => d = e
    /\ \A n \in Seqs : Due(s, n) /\ resume[s] <= n /\ n < cursor[s] => events[n] \in outbox[s]

ClientOf(s) ==
  /\ \A i \in 1..Len(received[s]) : resume[s] # None /\ received[s][i].seq < resume[s]
  /\ \A n \in Seqs : resume[s] # None /\ first[s] <= n /\ n < resume[s] /\ Due(s, n)
       => \E i \in 1..Len(received[s]) : received[s][i] = events[n]
  /\ \A i, j \in 1..Len(received[s]) : i < j => received[s][i].seq < received[s][j].seq

StreamOf(s) == PlaceOf(s) /\ SendOf(s) /\ ClientOf(s)
StreamInv == \A s \in Subs : StreamOf(s)
FullInv == TypeInv /\ Numbered /\ StreamInv

(* The initial states satisfy the invariant.                               *)
LEMMA FullInit == Init => FullInv
<1>. SUFFICES ASSUME Init PROVE FullInv
  OBVIOUS
<1>1. TypeInv
  BY InitTyped
<1>2. Numbered
  BY DEF Init, Numbered
<1>3. StreamInv
  BY DEF Init, StreamInv, StreamOf, PlaceOf, SendOf, ClientOf, Ended
<1>. QED
  BY <1>1, <1>2, <1>3 DEF FullInv

(* Types of the positions, for the arithmetic of the steps below.          *)
LEMMA Positions ==
  ASSUME TypeInv
  PROVE  /\ \A s \in Subs : resume[s] # None => resume[s] \in Int
         /\ \A s \in Subs : first[s] # None => first[s] \in Int
         /\ \A s \in Subs : cursor[s] # None => cursor[s] \in Int
         /\ \A n \in Seqs : n \in Int
         /\ \A s \in Subs : \A e \in outbox[s] : e.seq \in Int
         /\ \A s \in Subs : \A i \in 1..Len(received[s]) : received[s][i].seq \in Int
<1>1. \A e \in Event : e.seq \in Seqs /\ e.seq \in Int
  BY DEF Event, Seqs
<1>2. \A s \in Subs : \A i \in 1..Len(received[s]) : received[s][i] \in Event
  BY DEF TypeInv, TypeOK
<1>. QED
  BY <1>1, <1>2 DEF TypeInv, TypeOK, Position, Seqs

(* A step that stores nothing leaves the history of a client with a        *)
(* position alone.                                                         *)
LEMMA LateKept ==
  ASSUME Race, events' = events, NEW s \in Subs, resume'[s] # None, late[s] \in SUBSET Event
  PROVE  late'[s] = late[s]
<1>1. Changed = {}
  BY DEF Changed
<1>. QED
  BY <1>1 DEF Race

(* A step of subscriber s has to be looked at for s alone.                 *)
LEMMA OnlyOneSub ==
  ASSUME FullInv, Race, events' = events, NEW s \in Subs, StreamOf(s)',
         \A t \in Subs \ {s} :
           /\ stream'[t] = stream[t] /\ cursor'[t] = cursor[t] /\ outbox'[t] = outbox[t]
           /\ first'[t] = first[t] /\ resume'[t] = resume[t] /\ received'[t] = received[t]
  PROVE  StreamInv'
<1>. SUFFICES ASSUME NEW t \in Subs, t # s PROVE StreamOf(t)'
  BY DEF StreamInv
<1>1. StreamOf(t)
  BY DEF FullInv, StreamInv
<1>2. resume[t] # None => late'[t] = late[t]
  BY LateKept DEF FullInv, TypeInv, TypeOK
<1>. QED
  BY <1>1, <1>2 DEF StreamOf, PlaceOf, SendOf, ClientOf, Due, Ended

(* The appends before their record, and steps of nobody, change no stream. *)
LEMMA StreamUnchanged ==
  ASSUME FullInv, Race, UNCHANGED <<events, server, clients>>
  PROVE  StreamInv'
<1>. SUFFICES ASSUME NEW t \in Subs PROVE StreamOf(t)'
  BY DEF StreamInv
<1>1. StreamOf(t)
  BY DEF FullInv, StreamInv
<1>2. resume[t] # None => late'[t] = late[t]
  BY LateKept DEF FullInv, TypeInv, TypeOK, clients
<1>. QED
  BY <1>1, <1>2 DEF StreamOf, PlaceOf, SendOf, ClientOf, Due, Ended, server, clients

(* A record stored behind a client or behind its batch counts as late.     *)
LEMMA StoreStream ==
  ASSUME FullInv, Race, NEW w \in Writers, NEW k \in Kinds, StoreEvent(w, k)
  PROVE  Numbered' /\ StreamInv'
<1>. DEFINE e == [seq |-> taken[w], kind |-> k, by |-> w]
            m == taken[w]
<1>1. events' = [events EXCEPT ![m] = e] /\ UNCHANGED <<server, clients>> /\ wpc[w] = "store"
  BY DEF StoreEvent
<1>2. m \in Seqs /\ m \in Int /\ e.seq = m /\ events \in [Seqs -> Event \cup {None}]
  BY <1>1 DEF FullInv, TypeInv, TypeOK, StepInv, Seqs
<1>. HIDE DEF e, m
<1>3. events'[m] = e /\ \A n \in Seqs : n # m => events'[n] = events[n]
  BY <1>1, <1>2
<1>4. Numbered'
  BY <1>2, <1>3 DEF FullInv, Numbered
<1>5. ASSUME NEW s \in Subs, resume[s] # None, NEW n \in Seqs, Due(s, n)'
      PROVE  (Due(s, n) /\ events'[n] = events[n]) \/ ~Passed(s, n)
  <2>1. late'[s] = late[s] \cup {events'[i] : i \in {j \in Changed : Passed(s, j)}}
    BY <1>1, <1>5 DEF Race, clients
  <2>2. CASE n \in Changed
    BY <1>5, <2>1, <2>2 DEF Due
  <2>3. CASE n \notin Changed
    BY <1>5, <2>1, <2>3 DEF Due, Changed
  <2>. QED
    BY <2>2, <2>3
<1>6. ASSUME NEW s \in Subs PROVE StreamOf(s)'
  <2>1. StreamOf(s)
    BY DEF FullInv, StreamInv
  <2>2. PlaceOf(s)'
    BY <1>1, <2>1 DEF StreamOf, PlaceOf, Ended, server, clients
  <2>3. SendOf(s)'
    <3>. SUFFICES ASSUME stream[s] = "send", NEW n \in Seqs, Due(s, n)', resume[s] <= n, n < cursor[s]
                  PROVE  events'[n] \in outbox[s]
      BY <1>1, <2>1 DEF StreamOf, SendOf, server, clients
    <3>1. Passed(s, n) /\ resume[s] # None
      BY <2>1 DEF Passed, StreamOf, PlaceOf, Ended
    <3>2. Due(s, n) /\ events'[n] = events[n]
      BY <1>5, <3>1
    <3>. QED
      BY <2>1, <3>2 DEF StreamOf, SendOf
  <2>4. ClientOf(s)'
    <3>. SUFFICES ASSUME NEW n \in Seqs, resume[s] # None, first[s] <= n, n < resume[s], Due(s, n)'
                  PROVE  \E i \in 1..Len(received[s]) : received[s][i] = events'[n]
      BY <1>1, <2>1 DEF StreamOf, ClientOf, clients
    <3>1. Passed(s, n)
      BY DEF Passed
    <3>2. Due(s, n) /\ events'[n] = events[n]
      BY <1>5, <3>1
    <3>. QED
      BY <2>1, <3>2 DEF StreamOf, ClientOf
  <2>. QED
    BY <2>2, <2>3, <2>4 DEF StreamOf
<1>. QED
  BY <1>4, <1>6 DEF StreamInv

(* A client connects at a position it asks for or at its own.              *)
LEMMA SubscribeStream ==
  ASSUME FullInv, Race, NEW s \in Subs, NEW pos \in (0..MaxSeq + 1) \cup {None}, Subscribe(s, pos)
  PROVE  StreamInv'
<1>. USE DEF FullInv, TypeInv, TypeOK
<1>1. StreamOf(s)
  BY DEF StreamInv
<1>2. /\ stream'[s] = "open" /\ cursor'[s] = StartAt(pos) /\ resume'[s] = StartAt(pos)
      /\ first'[s] = IF resume[s] = None THEN StartAt(pos) ELSE first[s]
      /\ received' = received /\ events' = events
  BY DEF Subscribe, log
<1>3. StartAt(pos) \in Int /\ StartAt(pos) # None
  BY EventAssumption DEF StartAt
<1>4. CASE resume[s] = None
  <2>1. first'[s] = StartAt(pos) /\ received'[s] = <<>>
    BY <1>1, <1>2, <1>4 DEF StreamOf, PlaceOf
  <2>2. PlaceOf(s)' /\ SendOf(s)'
    BY <1>2, <1>3, <2>1 DEF PlaceOf, SendOf, Ended
  <2>3. ClientOf(s)'
    <3>1. \A n \in Seqs : n \in Int
      BY Positions
    <3>2. Len(received'[s]) = 0
      BY <2>1
    <3>. QED
      BY <1>2, <1>3, <2>1, <3>1, <3>2 DEF ClientOf
  <2>. QED
    BY <2>2, <2>3, <1>2, OnlyOneSub DEF StreamOf, Subscribe
<1>5. CASE resume[s] # None
  <2>1. StartAt(pos) = resume[s] /\ first'[s] = first[s]
    BY <1>2, <1>5 DEF Subscribe, Asks, StartAt
  <2>2. late'[s] = late[s]
    BY <1>2, <1>3, LateKept
  <2>3. PlaceOf(s)' /\ SendOf(s)'
    BY <1>1, <1>2, <1>5, <2>1 DEF StreamOf, PlaceOf, SendOf, Ended
  <2>4. ClientOf(s)'
    BY <1>1, <1>2, <1>5, <2>1, <2>2 DEF StreamOf, ClientOf, Due
  <2>. QED
    BY <2>3, <2>4, <1>2, OnlyOneSub DEF StreamOf, Subscribe
<1>. QED
  BY <1>4, <1>5

(* The steps of a stream that move nothing: begin, expire, heartbeat.      *)
LEMMA QuietStream ==
  ASSUME FullInv, Race, NEW s \in Subs,
         PollCheck(s) \/ PollExpired(s) \/ PollNothing(s) \/ Break(s)
  PROVE  StreamInv'
<1>. USE DEF FullInv, TypeInv, TypeOK
<1>1. StreamOf(s)
  BY DEF StreamInv
<1>2. /\ resume'[s] = resume[s] /\ cursor' = cursor /\ first' = first /\ received' = received
      /\ events' = events
      /\ stream'[s] \in {"closed", "expired", "open", "poll"}
      /\ (stream'[s] \in {"open", "poll"} => stream[s] \in {"open", "poll"})
  BY <1>1 DEF StreamOf, PlaceOf, PollCheck, PollExpired, PollNothing, Break, log, clients
<1>3. resume[s] # None => late'[s] = late[s]
  BY <1>2, LateKept
<1>4. StreamOf(s)'
  BY <1>1, <1>2, <1>3 DEF StreamOf, PlaceOf, SendOf, ClientOf, Ended, Due
<1>5. CASE PollCheck(s)
  BY <1>2, <1>4, <1>5, OnlyOneSub DEF PollCheck, clients
<1>6. CASE PollExpired(s)
  BY <1>2, <1>4, <1>6, OnlyOneSub DEF PollExpired, clients
<1>7. CASE PollNothing(s)
  BY <1>2, <1>4, <1>7, OnlyOneSub DEF PollNothing
<1>8. CASE Break(s)
  BY <1>2, <1>4, <1>8, OnlyOneSub DEF Break, clients
<1>. QED
  BY <1>5, <1>6, <1>7, <1>8

(* A client whose position expired begins with nothing.                    *)
LEMMA ExpiredStream ==
  ASSUME FullInv, Race, NEW s \in Subs, SubscribeExpired(s)
  PROVE  StreamInv'
<1>. USE DEF FullInv, TypeInv, TypeOK
<1>1. /\ stream'[s] = "closed" /\ first'[s] = None /\ resume'[s] = None /\ received'[s] = <<>>
      /\ events' = events
  BY DEF SubscribeExpired, log
<1>2. StreamOf(s)'
  BY <1>1 DEF StreamOf, PlaceOf, SendOf, ClientOf, Ended
<1>. QED
  BY <1>1, <1>2, OnlyOneSub DEF SubscribeExpired

(* A poll returns everything from the cursor up to the last event it sends. *)
LEMMA PollStream ==
  ASSUME FullInv, Race, NEW s \in Subs, PollEvents(s)
  PROVE  StreamInv'
<1>. DEFINE M == Matching(cursor[s], limit[s])
<1>1. StreamOf(s)
  BY DEF FullInv, StreamInv
<1>2. PICK e \in M : /\ \A d \in M : d.seq <= e.seq
                    /\ cursor' = [cursor EXCEPT ![s] = e.seq + 1]
  BY DEF PollEvents
<1>3. /\ stream'[s] = "send" /\ outbox'[s] = M /\ cursor'[s] = e.seq + 1 /\ stream[s] = "poll"
      /\ events' = events /\ UNCHANGED clients
  BY <1>2 DEF PollEvents, FullInv, TypeInv, TypeOK, log
<1>4. resume[s] = cursor[s] /\ resume[s] # None /\ resume[s] \in Int
  BY <1>1, <1>3, Positions DEF FullInv, StreamOf, PlaceOf, Ended
<1>5. late'[s] = late[s]
  BY <1>3, <1>4, LateKept DEF FullInv, TypeInv, TypeOK, clients
<1>6. PICK n \in Batch(cursor[s], limit[s]) : n \in Stored(cursor[s], limit[s]) /\ events[n] = e
  BY <1>2, MatchingStored DEF FullInv, TypeInv
<1>7. n = e.seq /\ n \in Seqs /\ n \in Int /\ n < limit[s] /\ limit[s] \in Int
  <2>1. n \in Seqs /\ events[n] # None /\ n < limit[s] /\ n \in Int
    BY <1>6 DEF Stored, Seqs
  <2>2. limit[s] \in Int
    BY <1>3 DEF FullInv, TypeInv, StepInv, Position
  <2>. QED
    BY <1>6, <2>1, <2>2 DEF FullInv, Numbered
<1>8. \A d \in M : d.seq \in Seqs /\ events[d.seq] = d /\ resume[s] <= d.seq /\ d.seq < e.seq + 1
  <2>. SUFFICES ASSUME NEW d \in M
                PROVE  d.seq \in Seqs /\ events[d.seq] = d /\ resume[s] <= d.seq /\ d.seq < e.seq + 1
    OBVIOUS
  <2>1. PICK i \in Stored(cursor[s], limit[s]) : events[i] = d
    BY MatchingStored DEF FullInv, TypeInv
  <2>2. i \in Seqs /\ events[i] # None /\ cursor[s] <= i
    BY <2>1 DEF Stored
  <2>3. d.seq = i
    BY <2>1, <2>2 DEF FullInv, Numbered
  <2>4. d.seq <= e.seq /\ d.seq \in Int
    BY <1>2, <2>2, <2>3 DEF Seqs
  <2>. QED
    BY <1>4, <1>7, <2>1, <2>2, <2>3, <2>4
<1>9. ASSUME NEW j \in Seqs, Due(s, j), resume[s] <= j, j < e.seq + 1
      PROVE  events[j] \in M
  <2>1. j \in Int /\ events[j] # None /\ events[j].kind \in Wanted
    BY <1>9 DEF Due, Seqs
  <2>2. j <= n /\ j < limit[s]
    BY <1>7, <1>9, <2>1
  <2>3. j \in Stored(cursor[s], limit[s])
    BY <1>4, <1>9, <2>1, <2>2 DEF Stored
  <2>4. j \in Batch(cursor[s], limit[s])
    BY <1>6, <2>2, <2>3, BatchDown
  <2>. QED
    BY <2>1, <2>4 DEF Matching
<1>10. SendOf(s)'
  <2>1. \A d, f \in M : d.seq = f.seq => d = f
    BY <1>8
  <2>2. \A j \in Seqs : Due(s, j)' => Due(s, j)
    BY <1>3, <1>5 DEF Due
  <2>. HIDE DEF M
  <2>. QED
    BY <1>2, <1>3, <1>8, <1>9, <2>1, <2>2 DEF SendOf, clients
<1>11. PlaceOf(s)' /\ ClientOf(s)'
  BY <1>1, <1>3, <1>4, <1>5 DEF StreamOf, PlaceOf, ClientOf, Ended, Due, clients
<1>. QED
  BY <1>2, <1>3, <1>10, <1>11, OnlyOneSub
  DEF FullInv, TypeInv, TypeOK, StreamOf, PollEvents, clients

(* A frame carries the first of the events still to be sent.               *)
LEMMA SendStream ==
  ASSUME FullInv, Race, NEW s \in Subs, SendFrame(s)
  PROVE  StreamInv'
<1>1. StreamOf(s) /\ stream[s] = "send"
  BY DEF FullInv, StreamInv, SendFrame
<1>2. PICK e \in outbox[s] :
        /\ \A d \in outbox[s] : e.seq <= d.seq
        /\ received' = [received EXCEPT ![s] = Append(@, e)]
        /\ resume' = [resume EXCEPT ![s] = e.seq + 1]
        /\ outbox' = [outbox EXCEPT ![s] = @ \ {e}]
        /\ stream' = [stream EXCEPT ![s] = IF outbox[s] = {e} THEN "open" ELSE "send"]
  BY DEF SendFrame
<1>. DEFINE new == Append(received[s], e)
<1>3. /\ received'[s] = new /\ resume'[s] = e.seq + 1 /\ outbox'[s] = outbox[s] \ {e}
      /\ stream'[s] = IF outbox[s] = {e} THEN "open" ELSE "send"
      /\ UNCHANGED <<events, cursor, first>>
  BY <1>2 DEF SendFrame, FullInv, TypeInv, TypeOK, log
<1>4. /\ received[s] \in Seq(Event) /\ e \in Event /\ e.seq \in Seqs /\ e.seq \in Int
      /\ e.seq + 1 # None
  <2>1. received[s] \in Seq(Event) /\ e \in Event
    BY <1>2 DEF FullInv, TypeInv, TypeOK
  <2>2. e.seq \in Seqs
    BY <2>1 DEF Event
  <2>3. e.seq \in Int /\ e.seq + 1 \in Nat
    BY <2>2, EventAssumption DEF Seqs
  <2>. QED
    BY <2>1, <2>2, <2>3, EventAssumption
<1>5. /\ Len(new) = Len(received[s]) + 1 /\ Len(received[s]) \in Nat
      /\ \A i \in 1..Len(received[s]) : new[i] = received[s][i]
      /\ new[Len(received[s]) + 1] = e
  BY <1>4
<1>6. /\ resume[s] <= e.seq /\ e.seq < cursor[s]
      /\ resume[s] # None /\ resume[s] \in Int /\ first[s] \in Int
      /\ first[s] <= resume[s]
  BY <1>1, <1>2, Positions DEF StreamOf, SendOf, PlaceOf, Ended, FullInv
<1>7. late'[s] = late[s]
  BY <1>3, <1>4, LateKept DEF FullInv, TypeInv, TypeOK
<1>8. \A d \in outbox[s] \ {e} : d.seq \in Int /\ e.seq + 1 <= d.seq
  <2>. SUFFICES ASSUME NEW d \in outbox[s], d # e
                PROVE  d.seq \in Int /\ e.seq + 1 <= d.seq
    OBVIOUS
  <2>1. d.seq \in Int
    BY Positions DEF FullInv
  <2>2. e.seq <= d.seq /\ d.seq # e.seq
    BY <1>1, <1>2 DEF StreamOf, SendOf
  <2>. QED
    BY <1>4, <2>1, <2>2
<1>9. PICK last \in outbox[s] : last.seq + 1 = cursor[s] /\ last.seq \in Int
  BY <1>1, Positions DEF StreamOf, SendOf, FullInv
<1>10. PlaceOf(s)'
  <2>1. stream'[s] = "open" => cursor[s] = e.seq + 1
    BY <1>3, <1>9
  <2>2. first[s] <= e.seq + 1 /\ first[s] # None
    BY <1>1, <1>4, <1>6 DEF StreamOf, PlaceOf
  <2>3. stream'[s] # "poll"
    BY <1>3
  <2>. QED
    BY <1>3, <1>4, <2>1, <2>2, <2>3 DEF PlaceOf
<1>11. \A n \in Seqs : Due(s, n)' => Due(s, n) /\ n \in Int
  BY <1>3, <1>7 DEF Due, Seqs
<1>12. SendOf(s)'
  <2>. SUFFICES ASSUME outbox[s] # {e}
                PROVE  /\ \E d \in outbox[s] \ {e} : d.seq + 1 = cursor[s]
                       /\ \A d \in outbox[s] \ {e} : e.seq + 1 <= d.seq /\ d.seq < cursor[s]
                       /\ \A d, f \in outbox[s] \ {e} : d.seq = f.seq => d = f
                       /\ \A n \in Seqs : Due(s, n) /\ e.seq + 1 <= n /\ n < cursor[s]
                              => events[n] \in outbox[s] \ {e}
    BY <1>3, <1>11 DEF SendOf
  <2>1. last # e
    <3>1. PICK d \in outbox[s] : d # e
      BY <1>2
    <3>2. d.seq < cursor[s] /\ e.seq + 1 <= d.seq /\ d.seq \in Int
      BY <1>1, <1>8, <3>1 DEF StreamOf, SendOf
    <3>. QED
      BY <1>4, <1>9, <3>2
  <2>2. ASSUME NEW n \in Seqs, Due(s, n), e.seq + 1 <= n, n < cursor[s]
        PROVE  events[n] \in outbox[s] \ {e}
    <3>1. n \in Int /\ resume[s] <= n /\ events[n].seq = n
      BY <1>4, <1>6, <2>2, Positions DEF FullInv, Numbered, Due
    <3>2. events[n] # e
      BY <1>4, <2>2, <3>1
    <3>. QED
      BY <1>1, <2>2, <3>1, <3>2 DEF StreamOf, SendOf
  <2>. QED
    BY <1>1, <1>8, <1>9, <2>1, <2>2 DEF StreamOf, SendOf
<1>13. ClientOf(s)'
  <2>1. \A i \in 1..Len(received[s]) : received[s][i].seq < e.seq /\ received[s][i].seq \in Int
    BY <1>1, <1>4, <1>6, Positions DEF StreamOf, ClientOf, FullInv
  <2>2. \A i \in 1..Len(new) : i \in 1..Len(received[s]) \/ i = Len(received[s]) + 1
    BY <1>5
  <2>3. \A i \in 1..Len(new) : new[i].seq < e.seq + 1
    BY <1>4, <1>5, <2>1, <2>2
  <2>4. \A i, j \in 1..Len(new) : i < j => new[i].seq < new[j].seq
    <3>. SUFFICES ASSUME NEW i \in 1..Len(new), NEW j \in 1..Len(new), i < j
                  PROVE  new[i].seq < new[j].seq
      OBVIOUS
    <3>1. i \in 1..Len(received[s])
      BY <1>5, <2>2
    <3>. QED
      BY <1>1, <1>5, <2>1, <2>2, <3>1 DEF StreamOf, ClientOf
  <2>5. ASSUME NEW n \in Seqs, Due(s, n), first[s] <= n, n < e.seq + 1
        PROVE  \E i \in 1..Len(new) : new[i] = events[n]
    <3>1. n \in Int
      BY Positions DEF FullInv
    <3>2. CASE n < resume[s]
      <4>1. PICK i \in 1..Len(received[s]) : received[s][i] = events[n]
        BY <1>1, <1>6, <2>5, <3>2 DEF StreamOf, ClientOf
      <4>2. i \in 1..Len(new) /\ new[i] = events[n]
        BY <1>5, <4>1
      <4>. QED
        BY <4>2
    <3>3. CASE resume[s] <= n
      <4>1. events[n] \in outbox[s] /\ events[n].seq = n
        <5>1. cursor[s] \in Int
          BY <1>9
        <5>2. n < cursor[s]
          BY <1>4, <1>6, <2>5, <3>1, <5>1
        <5>. QED
          BY <1>1, <2>5, <3>3, <5>2 DEF StreamOf, SendOf, FullInv, Numbered, Due
      <4>2. events[n] = e
        BY <1>4, <1>8, <2>5, <3>1, <4>1
      <4>3. Len(received[s]) + 1 \in 1..Len(new)
        BY <1>5
      <4>. QED
        BY <1>5, <4>2, <4>3
    <3>. QED
      BY <1>6, <3>1, <3>2, <3>3
  <2>. HIDE DEF new
  <2>. QED
    BY <1>3, <1>4, <1>11, <2>3, <2>4, <2>5 DEF ClientOf
<1>. QED
  BY <1>2, <1>3, <1>10, <1>12, <1>13, OnlyOneSub DEF FullInv, TypeInv, TypeOK, StreamOf

(* Every step keeps the invariant, whatever the appends do.                *)
LEMMA FullNext == FullInv /\ [Next]_vars => FullInv'
<1>. SUFFICES ASSUME FullInv, [Next]_vars PROVE Numbered' /\ StreamInv'
  BY NextTyped DEF FullInv
<1>3. CASE UNCHANGED vars
  BY <1>3 DEF FullInv, Numbered, StreamInv, StreamOf, PlaceOf, SendOf, ClientOf, Due, Ended, vars, log,
              server, clients
<1>. SUFFICES ASSUME Next PROVE Numbered' /\ StreamInv'
  BY <1>3
<1>0. Race
  BY DEF Next
<1>1. ASSUME NEW w \in Writers, AppendStep(w) \/ AppendFails(w) PROVE Numbered' /\ StreamInv'
  <2>1. CASE \E k \in Kinds : StoreEvent(w, k)
    BY <1>0, <2>1, StoreStream
  <2>2. CASE ReadCounter(w) \/ WriteCounter(w) \/ AppendFails(w)
    BY <1>0, <2>2, StreamUnchanged DEF FullInv, Numbered, ReadCounter, WriteCounter, AppendFails, log
  <2>. QED
    BY <1>1, <2>1, <2>2 DEF AppendStep
<1>2. ASSUME NEW s \in Subs, Connect(s) \/ Serve(s) \/ Break(s) PROVE Numbered' /\ StreamInv'
  <2>1. events' = events
    BY <1>2 DEF Connect, Serve, Subscribe, SubscribeExpired, PollCheck, PollExpired, PollEvents,
                PollNothing, SendFrame, Break, log
  <2>2. Numbered'
    BY <2>1 DEF FullInv, Numbered
  <2>. QED
    BY <1>0, <1>2, <2>2, SubscribeStream, ExpiredStream, QuietStream, PollStream, SendStream
    DEF Connect, Serve
<1>. QED
  BY <1>1, <1>2 DEF Next

(* SUBSCRIBE delivers at least once what is stored ahead of the client: no *)
(* wanted event between a client's first position and the one it resumes   *)
(* from is missing, over broken streams, partly sent batches, failing and  *)
(* racing appends, unless it was stored behind the client.                 *)
THEOREM AtLeastOnceHolds == Spec => []AtLeastOnce
<1>1. FullInv => AtLeastOnce
  BY DEF FullInv, StreamInv, StreamOf, ClientOf, Due, AtLeastOnce
<1>. QED
  BY FullInit, FullNext, <1>1, PTL DEF Spec

(* A client receives events in the order of their numbers, each once, also *)
(* after it reconnects in the middle of a batch and when appends race for  *)
(* a number.                                                               *)
THEOREM InOrderHolds == Spec => []InOrder
<1>1. FullInv => InOrder
  BY DEF FullInv, StreamInv, StreamOf, ClientOf, InOrder
<1>. QED
  BY FullInit, FullNext, <1>1, PTL DEF Spec
=============================================================================
