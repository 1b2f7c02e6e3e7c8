----------------------------- MODULE EventStream -----------------------------
(***************************************************************************)
(* The event log of one tenant and the streams SUBSCRIBE serves from it    *)
(* (hsp-service append_event, subscribe_start and subscribe_poll; the poll *)
(* loops of hspd and hsp-gw).                                              *)
(*                                                                         *)
(* An append reads the sequence counter, writes it back incremented and    *)
(* then writes the event under the number it took; a handler may die or    *)
(* fail at each of these accesses.  Nothing in the code keeps two          *)
(* appenders apart: two of them can take one number, set the counter back, *)
(* or store a number after a higher one.  A poll validates the ORIGINAL    *)
(* request against the replay window, reads a batch of events from the     *)
(* stream's cursor, filters it, and moves the cursor past the last event   *)
(* it sends.                                                               *)
(*                                                                         *)
(* Abstracted: the fields of an event are one kind; a filter is the set of *)
(* kinds it lets through; a poll reads its batch in one step.  The client, *)
(* which is not part of the code, reconnects where its stream broke off.   *)
(***************************************************************************)
EXTENDS Naturals, Sequences, FiniteSets

CONSTANTS Writers,    \* concurrent request handlers that append
          Subs,       \* subscribers
          Kinds,      \* kinds of events
          Wanted,     \* the kinds the filters let through
          None,       \* nothing stored, no position
          Window,     \* event_replay_window_sec, which the code counts in events
          BatchMax,   \* batch_max of the requests
          MaxIdle,    \* heartbeats before the server ends a stream (20)
          MaxSeq,     \* bound on the sequence numbers
          MaxFaults   \* bound on failed appends and on broken streams

Seqs == 1..MaxSeq
Event == [seq : Seqs, kind : Kinds, by : Writers]

ASSUME EventAssumption ==
  /\ MaxSeq \in Nat /\ Window \in Nat /\ MaxFaults \in Nat
  /\ BatchMax \in Nat \ {0} /\ MaxIdle \in Nat \ {0}
  /\ Wanted \subseteq Kinds
  /\ None \notin Nat \cup Event

VARIABLES
  nextSeq,    \* events/sequence: the next number to hand out
  events,     \* events/event-<seq>
  wpc,        \* wpc[w]: the next step of appender w
  taken,      \* taken[w]: the number w read
  stream,     \* stream[s]: the state of s's stream on the server
  request,    \* request[s]: the position the stream was asked for
  cursor,     \* cursor[s]: the server's cursor of the stream
  limit,      \* limit[s]: the counter as the poll read it
  outbox,     \* outbox[s]: events the poll returned, still to be sent
  idle,       \* idle[s]: heartbeats since the last event
  first,      \* first[s]: the position s subscribed at
  resume,     \* resume[s]: the position s would continue from
  received,   \* received[s]: the events s received, in order
  faults,
  raced,      \* history: two appends were at the counter at once
  late        \* late[s]: history, what was stored behind s's position

log == <<nextSeq, events>>
writers == <<wpc, taken>>
server == <<stream, request, cursor, limit, outbox, idle>>
clients == <<first, resume, received>>
vars == <<log, writers, server, clients, faults, raced, late>>

Init ==
  /\ nextSeq = 1
  /\ events = [i \in Seqs |-> None]
  /\ wpc = [w \in Writers |-> "idle"]
  /\ taken = [w \in Writers |-> None]
  /\ stream = [s \in Subs |-> "closed"]
  /\ request = [s \in Subs |-> None]
  /\ cursor = [s \in Subs |-> None]
  /\ limit = [s \in Subs |-> None]
  /\ outbox = [s \in Subs |-> {}]
  /\ idle = [s \in Subs |-> 0]
  /\ first = [s \in Subs |-> None]
  /\ resume = [s \in Subs |-> None]
  /\ received = [s \in Subs |-> <<>>]
  /\ faults = 0
  /\ raced = FALSE
  /\ late = [s \in Subs |-> {}]

-----------------------------------------------------------------------------
(***************************************************************************)
(* append_event, called by every mutation and by every denied request.     *)
(***************************************************************************)
ReadCounter(w) ==
  /\ wpc[w] = "idle"
  /\ nextSeq <= MaxSeq
  /\ taken' = [taken EXCEPT ![w] = nextSeq]
  /\ wpc' = [wpc EXCEPT ![w] = "count"]
  /\ UNCHANGED <<log, server, clients, faults>>

(* Mutant: the counter is written back as it was read.                     *)
WriteCounterStays(w) ==
  /\ wpc[w] = "count"
  /\ nextSeq' = taken[w]
  /\ wpc' = [wpc EXCEPT ![w] = "store"]
  /\ UNCHANGED <<events, taken, server, clients, faults>>

WriteCounter(w) ==
  /\ wpc[w] = "count"
  /\ nextSeq' = taken[w] + 1
  /\ wpc' = [wpc EXCEPT ![w] = "store"]
  /\ UNCHANGED <<events, taken, server, clients, faults>>

StoreEvent(w, k) ==
  /\ wpc[w] = "store"
  /\ events' = [events EXCEPT ![taken[w]] = [seq |-> taken[w], kind |-> k, by |-> w]]
  /\ wpc' = [wpc EXCEPT ![w] = "idle"]
  /\ taken' = [taken EXCEPT ![w] = None]
  /\ UNCHANGED <<nextSeq, server, clients, faults>>

(* The handler dies, or the store reports an error for its access.         *)
AppendFails(w) ==
  /\ wpc[w] # "idle"
  /\ faults < MaxFaults
  /\ faults' = faults + 1
  /\ wpc' = [wpc EXCEPT ![w] = "idle"]
  /\ taken' = [taken EXCEPT ![w] = None]
  /\ UNCHANGED <<log, server, clients>>

-----------------------------------------------------------------------------
(* ensure_event_cursor_within_window, with a saturating subtraction.       *)
Oldest == IF nextSeq > Window THEN nextSeq - Window ELSE 0
InWindow(pos) == pos # None => pos >= Oldest

(* subscribe_start: a cursor or from_seq names the position, otherwise the *)
(* stream starts at the end of the log.                                    *)
StartAt(pos) == IF pos = None THEN nextSeq ELSE pos

Ended(s) == stream[s] \in {"closed", "expired"}

(* A client that has a position asks for it, a new one for any.            *)
Asks(s, pos) == resume[s] # None => pos = resume[s]

Subscribe(s, pos) ==
  /\ Ended(s)
  /\ Asks(s, pos)
  /\ InWindow(pos)
  /\ stream' = [stream EXCEPT ![s] = "open"]
  /\ request' = [request EXCEPT ![s] = pos]
  /\ cursor' = [cursor EXCEPT ![s] = StartAt(pos)]
  /\ idle' = [idle EXCEPT ![s] = 0]
  /\ first' = [first EXCEPT ![s] = IF resume[s] = None THEN StartAt(pos) ELSE @]
  /\ resume' = [resume EXCEPT ![s] = StartAt(pos)]
  /\ UNCHANGED <<log, writers, limit, outbox, received, faults>>

(* cursor_expired: the client has to begin anew.                           *)
SubscribeExpired(s) ==
  /\ Ended(s)
  /\ resume[s] # None
  /\ ~InWindow(resume[s])
  /\ stream' = [stream EXCEPT ![s] = "closed"]
  /\ first' = [first EXCEPT ![s] = None]
  /\ resume' = [resume EXCEPT ![s] = None]
  /\ received' = [received EXCEPT ![s] = <<>>]
  /\ UNCHANGED <<log, writers, request, cursor, limit, outbox, idle, faults>>

(* subscribe_poll begins with subscribe_start on the original request.     *)
PollCheck(s) ==
  /\ stream[s] = "open"
  /\ InWindow(request[s])
  /\ limit' = [limit EXCEPT ![s] = nextSeq]
  /\ stream' = [stream EXCEPT ![s] = "poll"]
  /\ UNCHANGED <<log, writers, request, cursor, outbox, idle, clients, faults>>

PollExpired(s) ==
  /\ stream[s] = "open"
  /\ ~InWindow(request[s])
  /\ stream' = [stream EXCEPT ![s] = "expired"]
  /\ UNCHANGED <<log, writers, request, cursor, limit, outbox, idle, clients, faults>>

Stored(from, to) == {i \in Seqs : from <= i /\ i < to /\ events[i] # None}

(* read_event_records_after: the first BatchMax events from the cursor on; *)
(* a number without an event is passed over.                               *)
Batch(from, to) == {i \in Stored(from, to) : Cardinality(Stored(from, i + 1)) <= BatchMax}

Matching(from, to) == {events[i] : i \in {j \in Batch(from, to) : events[j].kind \in Wanted}}

(* Mutant: the cursor stays on the last event sent.                        *)
PollEventsStays(s) ==
  /\ stream[s] = "poll"
  /\ Matching(cursor[s], limit[s]) # {}
  /\ outbox' = [outbox EXCEPT ![s] = Matching(cursor[s], limit[s])]
  /\ \E e \in Matching(cursor[s], limit[s]) :
       /\ \A d \in Matching(cursor[s], limit[s]) : d.seq <= e.seq
       /\ cursor' = [cursor EXCEPT ![s] = e.seq]
  /\ stream' = [stream EXCEPT ![s] = "send"]
  /\ idle' = [idle EXCEPT ![s] = 0]
  /\ limit' = [limit EXCEPT ![s] = None]
  /\ UNCHANGED <<log, writers, request, clients, faults>>

PollEvents(s) ==
  /\ stream[s] = "poll"
  /\ Matching(cursor[s], limit[s]) # {}
  /\ outbox' = [outbox EXCEPT ![s] = Matching(cursor[s], limit[s])]
  /\ \E e \in Matching(cursor[s], limit[s]) :
       /\ \A d \in Matching(cursor[s], limit[s]) : d.seq <= e.seq
       /\ cursor' = [cursor EXCEPT ![s] = e.seq + 1]
  /\ stream' = [stream EXCEPT ![s] = "send"]
  /\ idle' = [idle EXCEPT ![s] = 0]
  /\ limit' = [limit EXCEPT ![s] = None]
  /\ UNCHANGED <<log, writers, request, clients, faults>>

(* Mutant: the stream ends one heartbeat late.                             *)
PollNothingLate(s) ==
  /\ stream[s] = "poll"
  /\ Matching(cursor[s], limit[s]) = {}
  /\ idle' = [idle EXCEPT ![s] = @ + 1]
  /\ stream' = [stream EXCEPT ![s] = IF idle[s] >= MaxIdle THEN "closed" ELSE "open"]
  /\ resume' = [resume EXCEPT ![s] = cursor[s]]
  /\ limit' = [limit EXCEPT ![s] = None]
  /\ UNCHANGED <<log, writers, request, cursor, outbox, first, received, faults>>

(* Mutant: a batch without a match moves the cursor to the end of the log. *)
PollNothingSkips(s) ==
  /\ stream[s] = "poll"
  /\ Matching(cursor[s], limit[s]) = {}
  /\ idle' = [idle EXCEPT ![s] = @ + 1]
  /\ stream' = [stream EXCEPT ![s] = IF idle[s] + 1 >= MaxIdle THEN "closed" ELSE "open"]
  /\ cursor' = [cursor EXCEPT ![s] = limit[s]]
  /\ resume' = [resume EXCEPT ![s] = limit[s]]
  /\ limit' = [limit EXCEPT ![s] = None]
  /\ UNCHANGED <<log, writers, request, outbox, first, received, faults>>

(* Nothing to send: a heartbeat that repeats the cursor, and after MaxIdle *)
(* of them GOAWAY.                                                         *)
PollNothing(s) ==
  /\ stream[s] = "poll"
  /\ Matching(cursor[s], limit[s]) = {}
  /\ idle' = [idle EXCEPT ![s] = @ + 1]
  /\ stream' = [stream EXCEPT ![s] = IF idle[s] + 1 >= MaxIdle THEN "closed" ELSE "open"]
  /\ resume' = [resume EXCEPT ![s] = cursor[s]]
  /\ limit' = [limit EXCEPT ![s] = None]
  /\ UNCHANGED <<log, writers, request, cursor, outbox, first, received, faults>>

(* One EVENT frame.                                                        *)
SendFrame(s) ==
  /\ stream[s] = "send"
  /\ \E e \in outbox[s] :
       /\ \A d \in outbox[s] : e.seq <= d.seq
       /\ received' = [received EXCEPT ![s] = Append(@, e)]
       /\ resume' = [resume EXCEPT ![s] = e.seq + 1]
       /\ outbox' = [outbox EXCEPT ![s] = @ \ {e}]
       /\ stream' = [stream EXCEPT ![s] = IF outbox[s] = {e} THEN "open" ELSE "send"]
  /\ UNCHANGED <<log, writers, request, cursor, limit, idle, first, faults>>

(* The connection breaks: frames that were not written are lost.           *)
Break(s) ==
  /\ ~Ended(s)
  /\ faults < MaxFaults
  /\ faults' = faults + 1
  /\ stream' = [stream EXCEPT ![s] = "closed"]
  /\ outbox' = [outbox EXCEPT ![s] = {}]
  /\ limit' = [limit EXCEPT ![s] = None]
  /\ UNCHANGED <<log, writers, request, cursor, idle, clients>>

AppendStep(w) == ReadCounter(w) \/ WriteCounter(w) \/ (\E k \in Kinds : StoreEvent(w, k))
Serve(s) == PollCheck(s) \/ PollExpired(s) \/ PollEvents(s) \/ PollNothing(s) \/ SendFrame(s)
Connect(s) == (\E pos \in (0..MaxSeq + 1) \cup {None} : Subscribe(s, pos)) \/ SubscribeExpired(s)

(* Number n is behind what s received or its batch was made from.          *)
Passed(s, n) ==
  resume[s] # None /\ (n < resume[s] \/ (stream[s] = "send" /\ n < cursor[s]))

(* History.                                                                *)
Changed == {i \in Seqs : events'[i] # events[i]}

Race ==
  /\ raced' = (raced \/ \E v, w \in Writers : v # w /\ wpc'[v] = "count" /\ wpc'[w] = "count")
  /\ late' = [s \in Subs |-> IF resume'[s] = None THEN {}
                            ELSE late[s] \cup {events'[i] : i \in {j \in Changed : Passed(s, j)}}]

Next ==
  /\ \/ \E w \in Writers : AppendStep(w) \/ AppendFails(w)
     \/ \E s \in Subs : Connect(s) \/ Serve(s) \/ Break(s)
  /\ Race

Spec == Init /\ [][Next]_vars

-----------------------------------------------------------------------------
Steps == {"idle", "count", "store"}
Streams == {"closed", "expired", "open", "poll", "send"}
Position == 0..MaxSeq + 1

(* The values the log, the appenders, the streams and the clients hold.    *)
TypeOK ==
  /\ nextSeq \in 1..MaxSeq + 1
  /\ events \in [Seqs -> Event \cup {None}]
  /\ wpc \in [Writers -> Steps]
  /\ taken \in [Writers -> Seqs \cup {None}]
  /\ stream \in [Subs -> Streams]
  /\ request \in [Subs -> Position \cup {None}]
  /\ cursor \in [Subs -> Position \cup {None}]
  /\ limit \in [Subs -> Position \cup {None}]
  /\ outbox \in [Subs -> SUBSET Event]
  /\ idle \in [Subs -> 0..MaxIdle]
  /\ first \in [Subs -> Position \cup {None}]
  /\ resume \in [Subs -> Position \cup {None}]
  /\ received \in [Subs -> Seq(Event)]
  /\ faults \in 0..MaxFaults
  /\ raced \in BOOLEAN
  /\ late \in [Subs -> SUBSET Event]

(* hsp_tz_ru.md 18.11: every event has a sequence number of its own.       *)
(* Until two appends are between reading and writing the counter at once,  *)
(* what one stored stays readable under its number, whatever appends fail  *)
(* on the way and in whatever order they store.                            *)
EventsKept ==
  [][~raced' => \A n \in Seqs : events[n] # None => events'[n] = events[n]]_vars

(* hsp_tz_ru.md 18.11: at-least-once delivery, as far as it goes.  A       *)
(* stored event that a client asked for and passed was received, over      *)
(* broken streams, partly sent batches and racing appends: only what was   *)
(* stored behind the client's position is missing (read_event_records_after *)
(* takes a number without a record for one that will never have one).      *)
AtLeastOnce ==
  \A s \in Subs : \A n \in Seqs :
    (/\ resume[s] # None /\ first[s] <= n /\ n < resume[s]
     /\ events[n] # None /\ events[n].kind \in Wanted /\ events[n] \notin late[s])
      => \E i \in 1..Len(received[s]) : received[s][i] = events[n]

(* hsp_tz_ru.md 18.11: the order is kept; no reconnect and no append that  *)
(* takes a number again makes a client receive a number twice.             *)
InOrder ==
  \A s \in Subs : \A i, j \in 1..Len(received[s]) :
    i < j => received[s][i].seq < received[s][j].seq
=============================================================================
