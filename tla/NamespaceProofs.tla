--------------------------- MODULE NamespaceProofs ---------------------------
(***************************************************************************)
(* Proofs about Namespace and Listing for any paths, targets, requests,    *)
(* handlers, revisions, faults and page sizes.  Type correctness holds of  *)
(* every state; the other properties of every state before two mutations   *)
(* overlapped, with any number of handlers about to begin or to answer.    *)
(* The argument: while one handler is at the records nobody else writes,   *)
(* so what it read is what is stored (Fresh), its revision is above        *)
(* everything recorded before it (Ahead), what it has written is still     *)
(* there (Written), and what it leaves behind stays (DoneVisible), also    *)
(* when it dies on the way.                                                *)
(***************************************************************************)
EXTENDS Listing, SequenceTheorems, WellFoundedInduction, TLAPS

Prepared == {"rev_read", "rev_write", "cur_write"}
Numbered == {"rev_write", "cur_write", "jrn_read", "jrn_write", "respond"}
MidWrite == {"jrn_read", "jrn_write"}

(* What a handler holds at each of its steps.                              *)
JobInv ==
  \A w \in Workers :
    /\ pc[w] # "idle" => job[w] \in Mutation
    /\ pc[w] \in Prepared \cup MidWrite => copy[w] \in State
    /\ pc[w] \in Numbered => rev[w] \in Nat
    /\ pc[w] = "jrn_write" => jcopy[w] \in Seq(Entry)

Typed == TypeOK /\ JobInv

Alone ==
  \A v, w \in Workers : pc[v] \in Prepared \cup MidWrite /\ pc[w] \in Prepared \cup MidWrite => v = w

(* A handler's copies are what the store holds.                            *)
Fresh ==
  \A w \in Workers :
    /\ pc[w] \in Prepared => copy[w] = current
    /\ pc[w] = "rev_write" => rev[w] = nextRev
    /\ pc[w] = "jrn_write" => jcopy[w] = journal

(* A handler's revision is above what was recorded before it.              *)
Ahead ==
  \A w \in Workers :
    pc[w] \in {"cur_write"} \cup MidWrite =>
      /\ rev[w] < nextRev
      /\ pc[w] = "cur_write" => current.rev < rev[w]
      /\ \A i \in 1..Len(journal) : journal[i].rev < rev[w]

(* What a handler has written is still there.                              *)
Written ==
  \A w \in Workers :
    pc[w] \in MidWrite =>
      /\ current.rev = rev[w]
      /\ current.bind[job[w].path] # None => current.bind[job[w].path].rev = rev[w]

Bounds ==
  /\ current.rev < nextRev
  /\ \A p \in Paths : current.bind[p] # None => current.bind[p].rev <= current.rev

(* Mutations that are acknowledged or about to be are behind the current   *)
(* state and visible.                                                      *)
Seen(a, cur, jrn) ==
  /\ a.rev <= cur.rev
  /\ \E i \in 1..Len(jrn) : jrn[i].rev = a.rev /\ jrn[i].path = a.path /\ jrn[i].kind = a.kind
  /\ cur.bind[a.path] # None => cur.bind[a.path].rev >= a.rev

DoneVisible ==
  /\ \A a \in acked : Seen(a, current, journal)
  /\ \A w \in Workers : pc[w] = "respond" => Seen(Receipt(w), current, journal)

SerialInv == Alone /\ Fresh /\ Ahead /\ Written /\ Bounds /\ Ordered /\ DoneVisible

Inv == Typed /\ (~overlapped => SerialInv)

-----------------------------------------------------------------------------
(* What appending an entry does to a journal.                              *)
LEMMA AppendEntry ==
  ASSUME NEW s \in Seq(Entry), NEW e \in Entry
  PROVE  /\ Append(s, e) \in Seq(Entry)
         /\ Len(Append(s, e)) = Len(s) + 1
         /\ \A i \in 1..Len(s) : Append(s, e)[i] = s[i]
         /\ Append(s, e)[Len(s) + 1] = e
  OBVIOUS

(* Journal revisions are naturals.                                         *)
LEMMA JournalRevs ==
  ASSUME NEW s \in Seq(Entry)
  PROVE  \A i \in 1..Len(s) : s[i].rev \in Nat
<1>1. \A i \in 1..Len(s) : s[i] \in Entry
  OBVIOUS
<1>. QED
  BY <1>1 DEF Entry

(* A handler of a well-typed state builds well-typed records.              *)
LEMMA NewRecords ==
  ASSUME NEW w \in Workers, job[w] \in Mutation, rev[w] \in Nat
  PROVE  NewBinding(w) \in Binding \cup {None} /\ NewEntry(w) \in Entry /\ Receipt(w) \in Acked
  BY DEF NewBinding, NewEntry, Receipt, Binding, Entry, Acked, Mutation, Kinds

(* The initial states satisfy the inductive invariant.                     *)
LEMMA InitInv == Init => Inv
<1>. SUFFICES ASSUME Init PROVE Inv
  OBVIOUS
<1>1. current \in State /\ Len(journal) = 0 /\ current.rev = 0 /\ nextRev = 1
  BY DEF Init, State
<1>2. TypeOK
  <2>1. journal \in Seq(Entry) /\ acked \in SUBSET Acked
    BY DEF Init
  <2>2. overlapped \in BOOLEAN
    BY Zenon DEF Init
  <2>3. /\ job \in [Workers -> Mutation \cup {None}] /\ copy \in [Workers -> State \cup {None}]
        /\ rev \in [Workers -> Nat \cup {None}] /\ jcopy \in [Workers -> Seq(Entry) \cup {None}]
        /\ pc \in [Workers -> Steps \cup {"idle"}] /\ faults \in Nat
    BY DEF Init, Steps
  <2>. QED
    BY <1>1, <2>1, <2>2, <2>3 DEF TypeOK
<1>3. \A w \in Workers : pc[w] = "idle"
  BY DEF Init
<1>4. JobInv /\ Alone /\ Fresh /\ Ahead /\ Written
  BY <1>3 DEF JobInv, Alone, Fresh, Ahead, Written, Prepared, Numbered, MidWrite
<1>5. Bounds /\ Ordered
  BY <1>1 DEF Init, Bounds, Ordered
<1>6. DoneVisible
  BY <1>3 DEF Init, DoneVisible
<1>. QED
  BY <1>2, <1>4, <1>5, <1>6 DEF Inv, Typed, SerialInv

(* The state stays well-typed and each handler holds what its step needs.  *)
LEMMA NextTyped == Typed /\ [Next]_vars => Typed'
<1>. SUFFICES ASSUME Typed, [Next]_vars PROVE Typed'
  OBVIOUS
<1>. USE NamespaceAssumption DEF Typed, TypeOK, JobInv, Steps, Prepared, Numbered, MidWrite, Goto, Return, locals
<1>0. CASE UNCHANGED vars
  BY <1>0 DEF vars
<1>. SUFFICES ASSUME Next PROVE Typed'
  BY <1>0
<1>11. overlapped' \in BOOLEAN
  <2>1. Overlap
    BY DEF Next
  <2>. QED
    BY <2>1 DEF Overlap
<1>1. ASSUME NEW w \in Workers, NEW m \in Requests, Start(w, m) PROVE Typed'
  BY <1>1, <1>11 DEF Start
<1>2. ASSUME NEW w \in Workers, ReadCurrent(w) PROVE Typed'
  BY <1>2, <1>11 DEF ReadCurrent
<1>3. ASSUME NEW w \in Workers, Reject(w) \/ Fault(w) PROVE Typed'
  <2>1. Return(w) /\ UNCHANGED <<nextRev, current, journal, acked>> /\ faults' \in Nat
    BY <1>3 DEF Reject, Fault
  <2>. QED
    BY <2>1, <1>11
<1>4. ASSUME NEW w \in Workers, ReadRevision(w) PROVE Typed'
  BY <1>4, <1>11 DEF ReadRevision
<1>5. ASSUME NEW w \in Workers, WriteRevision(w) PROVE Typed'
  BY <1>5, <1>11 DEF WriteRevision
<1>6. ASSUME NEW w \in Workers, WriteCurrent(w) PROVE Typed'
  <2>1. job[w] \in Mutation /\ rev[w] \in Nat /\ copy[w] \in State
    BY <1>6 DEF WriteCurrent
  <2>2. current' \in State
    BY <1>6, <2>1, NewRecords DEF WriteCurrent, State
  <2>. QED
    BY <1>6, <1>11, <2>2 DEF WriteCurrent
<1>7. ASSUME NEW w \in Workers, ReadJournal(w) PROVE Typed'
  BY <1>7, <1>11 DEF ReadJournal
<1>8. ASSUME NEW w \in Workers, WriteJournal(w) PROVE Typed'
  <2>1. job[w] \in Mutation /\ rev[w] \in Nat /\ jcopy[w] \in Seq(Entry)
    BY <1>8 DEF WriteJournal
  <2>2. journal' \in Seq(Entry)
    BY <1>8, <2>1, NewRecords, AppendEntry DEF WriteJournal
  <2>. QED
    BY <1>8, <1>11, <2>2 DEF WriteJournal
<1>9. ASSUME NEW w \in Workers, Respond(w) PROVE Typed'
  <2>1. Receipt(w) \in Acked
    BY <1>9, NewRecords DEF Respond
  <2>. QED
    BY <1>9, <1>11, <2>1 DEF Respond
<1>. QED
  BY <1>1, <1>2, <1>3, <1>4, <1>5, <1>6, <1>7, <1>8, <1>9 DEF Next, Step

-----------------------------------------------------------------------------
(* The step is w's: nothing of the other handlers changes.                 *)
Unmoved(w) ==
  \A v \in Workers \ {w} :
    /\ pc'[v] = pc[v] /\ job'[v] = job[v] /\ rev'[v] = rev[v]
    /\ copy'[v] = copy[v] /\ jcopy'[v] = jcopy[v]

(* No handler but w is at the records.                                     *)
Others(w) == \A v \in Workers \ {w} : pc[v] \notin Prepared \cup MidWrite

(* Every action is a step of one handler.                                  *)
LEMMA StepUnmoved ==
  ASSUME Typed, NEW w \in Workers, (\E m \in Requests : Start(w, m)) \/ Step(w) \/ Fault(w)
  PROVE  Unmoved(w)
  BY DEF Step, Start, ReadCurrent, Reject, ReadRevision, WriteRevision, WriteCurrent, ReadJournal,
         WriteJournal, Respond, Fault, Goto, Return, locals, Typed, TypeOK, Unmoved

(* Before two mutations overlap, at most one is at the records.            *)
LEMMA NextAlone ==
  ASSUME Typed, Overlap, ~overlapped'
  PROVE  ~overlapped /\ Alone'
  BY DEF Overlap, Inside, Between, Alone, Prepared, MidWrite, Typed, TypeOK

(* The others are away from the records when a handler is there.           *)
LEMMA OthersAway ==
  ASSUME NEW w \in Workers, Unmoved(w),
         \/ Alone /\ pc[w] \in Prepared \cup MidWrite
         \/ Alone' /\ pc'[w] \in Prepared \cup MidWrite
  PROVE  Others(w)
  BY DEF Others, Unmoved, Alone

(* What is done stays visible if the records keep showing what they show.  *)
LEMMA DoneStep ==
  ASSUME Typed, DoneVisible, NEW w \in Workers, Unmoved(w),
         \A a \in Acked : Seen(a, current, journal) => Seen(a, current', journal'),
         pc'[w] = "respond" => Seen(Receipt(w)', current', journal'),
         acked' = acked \/ (pc[w] = "respond" /\ acked' = acked \cup {Receipt(w)})
  PROVE  DoneVisible'
<1>1. ASSUME NEW v \in Workers, pc[v] = "respond" PROVE Seen(Receipt(v), current', journal')
  <2>1. Receipt(v) \in Acked
    BY <1>1, NewRecords DEF Typed, JobInv, Numbered
  <2>2. Seen(Receipt(v), current, journal)
    BY <1>1 DEF DoneVisible
  <2>. QED
    BY <2>1, <2>2
<1>2. \A a \in acked : Seen(a, current', journal')
  BY DEF DoneVisible, Typed, TypeOK
<1>3. \A a \in acked' : Seen(a, current', journal')
  BY <1>1, <1>2
<1>4. ASSUME NEW v \in Workers \ {w}, pc'[v] = "respond" PROVE Seen(Receipt(v)', current', journal')
  <2>1. pc[v] = "respond" /\ Receipt(v)' = Receipt(v)
    BY <1>4 DEF Unmoved, Receipt
  <2>. QED
    BY <1>1, <2>1
<1>. QED
  BY <1>3, <1>4 DEF DoneVisible

(* Steps that leave the records alone, and their handler away from them.   *)
LEMMA SerialQuiet ==
  ASSUME Typed, SerialInv, Alone', NEW w \in Workers,
         (\E m \in Requests : Start(w, m)) \/ Reject(w) \/ Fault(w) \/ Respond(w)
  PROVE  SerialInv'
<1>1. UNCHANGED <<nextRev, current, journal>> /\ pc'[w] \in {"idle", "read"}
  BY DEF Start, Reject, Fault, Respond, Return, Goto, Typed, TypeOK
<1>2. Unmoved(w)
  BY StepUnmoved DEF Step
<1>3. Fresh' /\ Ahead' /\ Written'
  BY <1>1, <1>2 DEF SerialInv, Fresh, Ahead, Written, Unmoved, Prepared, MidWrite
<1>4. Bounds' /\ Ordered'
  BY <1>1 DEF SerialInv, Bounds, Ordered
<1>5. acked' = acked \/ (pc[w] = "respond" /\ acked' = acked \cup {Receipt(w)})
  BY DEF Start, Reject, Fault, Respond
<1>6. DoneVisible'
  BY <1>1, <1>2, <1>5, DoneStep DEF SerialInv
<1>. QED
  BY <1>3, <1>4, <1>6 DEF SerialInv

(* Reading the current state, or the journal.                              *)
LEMMA SerialRead ==
  ASSUME Typed, SerialInv, Alone', NEW w \in Workers, ReadCurrent(w) \/ ReadJournal(w)
  PROVE  SerialInv'
<1>1. /\ UNCHANGED <<nextRev, current, journal, acked, job, rev>>
      /\ \/ pc[w] = "read" /\ pc'[w] = "rev_read" /\ copy'[w] = current
         \/ pc[w] = "jrn_read" /\ pc'[w] = "jrn_write" /\ jcopy'[w] = journal
  BY DEF ReadCurrent, ReadJournal, Goto, Typed, TypeOK
<1>2. Unmoved(w)
  BY StepUnmoved DEF Step
<1>3. Others(w)
  BY <1>1, <1>2, OthersAway DEF Prepared, MidWrite
<1>4. Fresh' /\ Ahead' /\ Written'
  BY <1>1, <1>2, <1>3 DEF SerialInv, Others, Fresh, Ahead, Written, Unmoved, Prepared, MidWrite
<1>5. Bounds' /\ Ordered'
  BY <1>1 DEF SerialInv, Bounds, Ordered
<1>6. DoneVisible'
  BY <1>1, <1>2, DoneStep DEF SerialInv
<1>. QED
  BY <1>4, <1>5, <1>6 DEF SerialInv

(* Taking a revision: it is above everything recorded.                     *)
LEMMA SerialRevision ==
  ASSUME Typed, SerialInv, Alone', NEW w \in Workers, ReadRevision(w) \/ WriteRevision(w)
  PROVE  SerialInv'
<1>. USE NamespaceAssumption DEF Typed, TypeOK, JobInv, Goto, locals
<1>1. /\ UNCHANGED <<current, journal, acked, job, copy, jcopy>>
      /\ pc[w] \in Prepared /\ pc'[w] \in {"rev_write", "cur_write"}
  BY DEF ReadRevision, WriteRevision, Prepared
<1>2. nextRev' \in Nat /\ nextRev <= nextRev'
  BY DEF ReadRevision, WriteRevision, SerialInv, Fresh
<1>3. Unmoved(w)
  BY StepUnmoved DEF Step
<1>4. Others(w)
  BY <1>1, <1>3, OthersAway DEF SerialInv
<1>5. Fresh'
  <2>1. copy'[w] = current'
    BY <1>1 DEF SerialInv, Fresh
  <2>2. pc'[w] = "rev_write" => rev'[w] = nextRev'
    BY DEF ReadRevision, WriteRevision
  <2>. QED
    BY <1>1, <1>3, <1>4, <2>1, <2>2 DEF Others, Unmoved, Fresh, Prepared, MidWrite
<1>6. Ahead'
  <2>. SUFFICES ASSUME pc'[w] = "cur_write"
       PROVE  /\ rev'[w] < nextRev' /\ current'.rev < rev'[w]
              /\ \A i \in 1..Len(journal') : journal'[i].rev < rev'[w]
    BY <1>1, <1>3, <1>4 DEF Others, Unmoved, Ahead, Prepared, MidWrite
  <2>1. WriteRevision(w) /\ rev[w] = nextRev /\ rev' = rev /\ nextRev' = nextRev + 1
    BY <1>1 DEF ReadRevision, WriteRevision, SerialInv, Fresh
  <2>2. current.rev < nextRev /\ \A i \in 1..Len(journal) : journal[i].rev < nextRev
    BY DEF SerialInv, Bounds, Ordered
  <2>. QED
    BY <1>1, <2>1, <2>2
<1>7. Written'
  BY <1>1, <1>3, <1>4 DEF Others, Unmoved, Written, Prepared, MidWrite
<1>8. Bounds'
  <2>1. current.rev \in Nat /\ current.rev < nextRev
    BY DEF SerialInv, Bounds, State
  <2>. QED
    BY <1>1, <1>2, <2>1 DEF SerialInv, Bounds
<1>9. Ordered'
  <2>1. \A i \in 1..Len(journal) : journal[i].rev \in Nat /\ journal[i].rev < nextRev
    BY JournalRevs DEF SerialInv, Ordered
  <2>. QED
    BY <1>1, <1>2, <2>1 DEF SerialInv, Ordered
<1>10. DoneVisible'
  BY <1>1, <1>3, DoneStep DEF SerialInv
<1>. QED
  BY <1>5, <1>6, <1>7, <1>8, <1>9, <1>10 DEF SerialInv

(* Writing the current state: as the copy is current, only the path of the *)
(* mutation changes, and it changes to the newest revision.                *)
LEMMA SerialWriteCurrent ==
  ASSUME Typed, SerialInv, Alone', NEW w \in Workers, WriteCurrent(w)
  PROVE  SerialInv'
<1>. USE NamespaceAssumption DEF Typed, TypeOK, JobInv, WriteCurrent, Goto, locals
<1>. DEFINE p == job[w].path
<1>1. /\ UNCHANGED <<nextRev, journal, acked, job, copy, rev, jcopy>>
      /\ pc[w] = "cur_write" /\ pc'[w] = "jrn_read"
  OBVIOUS
<1>2. job[w] \in Mutation /\ p \in Paths /\ rev[w] \in Nat /\ current \in State /\ current.rev \in Nat
  BY DEF Mutation, State, Prepared, Numbered
<1>3. /\ current.rev < rev[w] /\ rev[w] < nextRev
      /\ \A i \in 1..Len(journal) : journal[i].rev < rev[w]
  BY DEF SerialInv, Ahead
<1>4. /\ current'.rev = rev[w] /\ current'.bind[p] = NewBinding(w)
      /\ \A q \in Paths \ {p} : current'.bind[q] = current.bind[q]
  BY <1>2 DEF SerialInv, Fresh, Prepared, State
<1>5. NewBinding(w) # None => NewBinding(w).rev = rev[w]
  BY <1>2 DEF NewBinding
<1>6. Unmoved(w)
  BY StepUnmoved DEF Step
<1>7. Others(w)
  BY <1>1, <1>6, OthersAway DEF SerialInv, Prepared
<1>8. Fresh' /\ Ahead' /\ Written'
  BY <1>1, <1>3, <1>4, <1>5, <1>6, <1>7 DEF Others, Unmoved, Fresh, Ahead, Written, Prepared, MidWrite
<1>9. Bounds'
  <2>. SUFFICES ASSUME NEW q \in Paths, current'.bind[q] # None
       PROVE  current'.bind[q].rev <= current'.rev
    BY <1>1, <1>3, <1>4 DEF Bounds
  <2>1. CASE q = p
    BY <1>2, <1>4, <1>5, <2>1
  <2>2. CASE q # p
    <3>1. current.bind[q].rev <= current.rev /\ current.bind[q].rev \in Nat
      BY <1>2, <1>4, <2>2 DEF SerialInv, Bounds, State, Binding
    <3>. QED
      BY <1>2, <1>3, <1>4, <2>2, <3>1
  <2>. QED
    BY <2>1, <2>2
<1>10. Ordered'
  BY <1>1 DEF SerialInv, Ordered
<1>11. ASSUME NEW a \in Acked, Seen(a, current, journal) PROVE Seen(a, current', journal')
  <2>1. a.rev \in Nat /\ a.path \in Paths /\ a.rev <= current.rev /\ a.rev <= rev[w]
    BY <1>2, <1>3, <1>11 DEF Acked, Seen
  <2>2. current'.bind[a.path] # None => current'.bind[a.path].rev >= a.rev
    <3>1. CASE a.path = p
      BY <1>2, <1>4, <1>5, <2>1, <3>1
    <3>2. CASE a.path # p
      BY <1>4, <1>11, <2>1, <3>2 DEF Seen
    <3>. QED
      BY <3>1, <3>2
  <2>3. journal' = journal /\ a.rev <= current'.rev
    BY <1>1, <1>4, <2>1
  <2>. QED
    BY <1>11, <2>2, <2>3 DEF Seen
<1>12. DoneVisible'
  BY <1>1, <1>6, <1>11, DoneStep DEF SerialInv
<1>. QED
  BY <1>8, <1>9, <1>10, <1>12 DEF SerialInv

(* Writing the journal: it grows by the handler's entry, whose revision is *)
(* the highest.                                                            *)
LEMMA SerialWriteJournal ==
  ASSUME Typed, SerialInv, Alone', NEW w \in Workers, WriteJournal(w)
  PROVE  SerialInv'
<1>. USE NamespaceAssumption DEF Typed, TypeOK, JobInv, WriteJournal, Goto, locals
<1>. DEFINE e == NewEntry(w)
<1>1. /\ UNCHANGED <<nextRev, current, acked, job, copy, rev, jcopy>>
      /\ pc[w] = "jrn_write" /\ pc'[w] = "respond" /\ journal' = Append(journal, e)
  BY DEF SerialInv, Fresh
<1>2. e \in Entry /\ e.rev = rev[w] /\ rev[w] \in Nat /\ job[w] \in Mutation
  BY NewRecords DEF NewEntry, Numbered
<1>3. /\ Len(journal) \in Nat /\ Len(journal') = Len(journal) + 1
      /\ \A i \in 1..Len(journal) : journal'[i] = journal[i]
      /\ journal'[Len(journal) + 1] = e
  BY <1>1, <1>2, AppendEntry
<1>4. rev[w] < nextRev /\ \A i \in 1..Len(journal) : journal[i].rev < rev[w]
  BY DEF SerialInv, Ahead, MidWrite
<1>5. Unmoved(w)
  BY StepUnmoved DEF Step
<1>6. Others(w)
  BY <1>1, <1>5, OthersAway DEF SerialInv, MidWrite
<1>7. Fresh' /\ Ahead' /\ Written'
  BY <1>1, <1>5, <1>6 DEF SerialInv, Others, Unmoved, Fresh, Ahead, Written, Prepared, MidWrite
<1>8. Ordered'
  <2>1. \A i \in 1..Len(journal) : journal[i].rev \in Nat
    BY JournalRevs
  <2>2. \A i, j \in 1..Len(journal) : i < j => journal[i].rev < journal[j].rev
    BY DEF SerialInv, Ordered
  <2>3. \A i \in 1..Len(journal') : i \in 1..Len(journal) \/ i = Len(journal) + 1
    BY <1>3
  <2>4. \A i \in 1..Len(journal') : journal'[i].rev < nextRev
    BY <1>2, <1>3, <1>4, <2>1, <2>3 DEF SerialInv, Ordered
  <2>5. ASSUME NEW i \in 1..Len(journal'), NEW j \in 1..Len(journal'), i < j
        PROVE  journal'[i].rev < journal'[j].rev
    <3>1. i \in 1..Len(journal)
      BY <1>3, <2>5
    <3>. QED
      BY <1>2, <1>3, <1>4, <2>2, <2>3, <2>5, <3>1
  <2>. QED
    BY <1>1, <2>4, <2>5 DEF Ordered
<1>9. Bounds'
  BY <1>1 DEF SerialInv, Bounds
<1>10. ASSUME NEW a \in Acked, Seen(a, current, journal) PROVE Seen(a, current', journal')
  <2>1. \A i \in 1..Len(journal) : i \in 1..Len(journal') /\ journal'[i] = journal[i]
    BY <1>3
  <2>. QED
    BY <1>1, <1>10, <2>1 DEF Seen
<1>11. Seen(Receipt(w)', current', journal')
  <2>1. /\ Receipt(w)'.rev = rev[w] /\ Receipt(w)'.path = job[w].path
        /\ Receipt(w)'.kind = job[w].kind
    BY <1>1 DEF Receipt
  <2>2. Len(journal) + 1 \in 1..Len(journal') /\ e.path = job[w].path /\ e.kind = job[w].kind
    BY <1>3 DEF NewEntry
  <2>3. current.rev = rev[w] /\ (current.bind[job[w].path] # None => current.bind[job[w].path].rev = rev[w])
    BY <1>1 DEF SerialInv, Written, MidWrite
  <2>. DEFINE a == Receipt(w)'
              j == journal'
              n == Len(journal) + 1
  <2>4. j[n].rev = a.rev /\ j[n].path = a.path /\ j[n].kind = a.kind
    BY <1>2, <1>3, <2>1, <2>2
  <2>5. current' = current /\ n \in 1..Len(j)
    BY <1>1, <2>2
  <2>6. a.rev <= current'.rev /\ (current'.bind[a.path] # None => current'.bind[a.path].rev >= a.rev)
    BY <1>2, <2>1, <2>3, <2>5
  <2>. HIDE DEF e, a, j, n
  <2>7. Seen(a, current', j)
    BY <2>4, <2>5, <2>6 DEF Seen
  <2>. QED
    BY <2>7 DEF a, j
<1>12. DoneVisible'
  BY <1>1, <1>5, <1>10, <1>11, DoneStep DEF SerialInv
<1>. QED
  BY <1>7, <1>8, <1>9, <1>12 DEF SerialInv

-----------------------------------------------------------------------------
(* Inv is inductive: every reachable state satisfies it.                   *)
THEOREM Invariant == Spec => []Inv
<1>1. Inv /\ [Next]_vars => Inv'
  <2>. SUFFICES ASSUME Inv, [Next]_vars PROVE Inv'
    OBVIOUS
  <2>1. Typed /\ Typed'
    BY NextTyped DEF Inv
  <2>2. ASSUME ~overlapped', Next PROVE SerialInv'
    <3>1. SerialInv /\ Alone'
      BY <2>1, <2>2, NextAlone DEF Inv, Next
    <3>2. ASSUME NEW w \in Workers, (\E m \in Requests : Start(w, m)) \/ Step(w) \/ Fault(w)
          PROVE  SerialInv'
      BY <2>1, <3>1, <3>2, SerialQuiet, SerialRead, SerialRevision, SerialWriteCurrent,
         SerialWriteJournal DEF Step
    <3>. QED
      BY <2>2, <3>2 DEF Next
  <2>3. ASSUME ~overlapped', UNCHANGED vars PROVE SerialInv'
    BY <2>3 DEF Inv, vars, locals, SerialInv, Alone, Fresh, Ahead, Written, Bounds,
       Ordered, DoneVisible, Receipt
  <2>. QED
    BY <2>1, <2>2, <2>3 DEF Inv
<1>. QED
  BY InitInv, <1>1, PTL DEF Spec

(* The records and the handlers of bind_internal and unbind_internal are   *)
(* well-typed, however many mutations overlap.                             *)
THEOREM TypeCorrect == Spec => []TypeOK
  BY Invariant, PTL DEF Inv, Typed

(* Until two mutations overlap, and whatever dies on the way, the          *)
(* journal's revisions increase strictly and stay below the counter.       *)
THEOREM JournalOrderedHolds == Spec => []JournalOrdered
<1>1. Inv => JournalOrdered
  BY DEF Inv, SerialInv, JournalOrdered
<1>. QED
  BY Invariant, <1>1, PTL

(* Until two mutations overlap, an acknowledged mutation is in the journal *)
(* and the path's binding is its own or a later one.                       *)
THEOREM AckedVisibleHolds == Spec => []AckedVisible
<1>1. Inv => AckedVisible
  BY DEF Inv, SerialInv, DoneVisible, Seen, Visible, AckedVisible
<1>. QED
  BY Invariant, <1>1, PTL

(* A bounded non-empty set of naturals has a greatest element.             *)
LEMMA LastIndex ==
  ASSUME NEW n \in Nat, NEW I, I # {}, \A i \in I : i \in Nat /\ i <= n
  PROVE  \E i \in I : \A j \in I : j <= i
<1>. DEFINE R == OpToRel(<, Nat)
            T == {n - i : i \in I}
<1>1. T \subseteq Nat /\ T # {}
  OBVIOUS
<1>2. IsWellFoundedOn(R, Nat)
  BY NatLessThanWellFounded
<1>. HIDE DEF R
<1>3. PICK x \in T : \A y \in T : ~(<<y, x>> \in R)
  BY <1>1, <1>2, WFMin
<1>4. \A y \in T : ~(y < x)
  BY <1>1, <1>3 DEF R, OpToRel
<1>5. PICK i \in I : x = n - i
  OBVIOUS
<1>6. \A j \in I : n - j \in T /\ ~(n - j < n - i)
  BY <1>4, <1>5
<1>. QED
  BY <1>6

(* Entries past a revision do not change the snapshot at that revision.    *)
LEMMA SnapshotAppend ==
  ASSUME NEW s \in Seq(Entry), NEW e \in Entry, NEW r \in Nat, r < e.rev
  PROVE  SnapshotAt(Append(s, e), r) = SnapshotAt(s, r)
<1>. DEFINE t == Append(s, e)
<1>1. /\ Len(s) \in Nat /\ Len(t) = Len(s) + 1 /\ t[Len(s) + 1] = e
      /\ \A i \in 1..Len(s) : t[i] = s[i]
  BY AppendEntry
<1>2. e.rev \in Nat
  BY DEF Entry
<1>. HIDE DEF t
<1>3. Replayed(t, r) = Replayed(s, r)
  <2>1. ASSUME NEW i \in Replayed(t, r) PROVE i \in Replayed(s, r)
    <3>1. i \in 1..Len(t) /\ \A j \in 1..i : t[j].rev <= r
      BY DEF Replayed
    <3>2. i # Len(s) + 1
      BY <1>1, <1>2, <3>1
    <3>3. i \in 1..Len(s) /\ \A j \in 1..i : j \in 1..Len(s)
      BY <1>1, <3>1, <3>2
    <3>. QED
      BY <1>1, <3>1, <3>3 DEF Replayed
  <2>2. ASSUME NEW i \in Replayed(s, r) PROVE i \in Replayed(t, r)
    <3>1. i \in 1..Len(s) /\ \A j \in 1..i : j \in 1..Len(s) /\ s[j].rev <= r
      BY <1>1 DEF Replayed
    <3>. QED
      BY <1>1, <3>1 DEF Replayed
  <2>. QED
    BY <2>1, <2>2
<1>4. \A i \in Replayed(s, r) : t[i] = s[i]
  BY <1>1 DEF Replayed
<1>5. ASSUME NEW p \in Paths PROVE SnapshotAt(t, r)[p] = SnapshotAt(s, r)[p]
  <2>1. EntriesOf(t, r, p) = EntriesOf(s, r, p)
    BY <1>3, <1>4 DEF EntriesOf
  <2>2. CASE EntriesOf(s, r, p) = {}
    BY <2>1, <2>2 DEF SnapshotAt
  <2>3. CASE EntriesOf(s, r, p) # {}
    <3>1. \A i \in EntriesOf(s, r, p) : i \in Nat /\ i <= Len(s)
      BY <1>1 DEF EntriesOf, Replayed
    <3>2. LastOf(EntriesOf(s, r, p)) \in EntriesOf(s, r, p)
      BY <1>1, <2>3, <3>1, LastIndex DEF LastOf
    <3>3. t[LastOf(EntriesOf(s, r, p))] = s[LastOf(EntriesOf(s, r, p))]
      BY <1>4, <3>2 DEF EntriesOf
    <3>. QED
      BY <2>1, <2>3, <3>3 DEF SnapshotAt
  <2>. QED
    BY <2>2, <2>3
<1>6. SnapshotAt(t, r) = SnapshotAt(s, r)
  BY <1>5 DEF SnapshotAt
<1>. QED
  BY <1>6 DEF t

(* A step after which no two mutations have overlapped begins so.          *)
LEMMA Before ==
  ASSUME Inv, [Next]_vars, ~overlapped'
  PROVE  ~overlapped /\ Typed /\ SerialInv
<1>1. ~overlapped
  BY NextAlone DEF Inv, Next, vars
<1>. QED
  BY <1>1 DEF Inv

(* A handler that writes the records is alone there.                       *)
LEMMA WriterAlone ==
  ASSUME Typed, SerialInv, NEW w \in Workers, WriteCurrent(w) \/ ReadJournal(w) \/ WriteJournal(w)
  PROVE  Others(w) /\ Unmoved(w)
<1>1. Unmoved(w)
  BY StepUnmoved DEF Step
<1>2. pc[w] \in Prepared \cup MidWrite
  BY DEF WriteCurrent, ReadJournal, WriteJournal, Prepared, MidWrite
<1>. QED
  BY <1>1, <1>2, OthersAway DEF SerialInv

(* No step changes the snapshot at a revision before the current one.      *)
LEMMA StepPages ==
  ASSUME Inv, [Next]_vars, ~overlapped', NEW r \in Nat, r < current.rev
  PROVE  SnapshotAt(journal', r) = SnapshotAt(journal, r)
<1>0. Typed /\ SerialInv
  BY Before
<1>1. CASE UNCHANGED journal
  BY <1>1
<1>2. CASE ~UNCHANGED journal
  <2>1. PICK w \in Workers : WriteJournal(w)
    BY <1>2 DEF Next, Step, Start, ReadCurrent, Reject, ReadRevision, WriteRevision, WriteCurrent, ReadJournal,
                Respond, Fault, vars
  <2>2. job[w] \in Mutation /\ rev[w] \in Nat /\ journal \in Seq(Entry) /\ rev[w] = current.rev
    BY <1>0, <2>1 DEF WriteJournal, Typed, TypeOK, JobInv, SerialInv, Written, Numbered, MidWrite
  <2>3. journal' = Append(journal, NewEntry(w))
    BY <1>0, <2>1 DEF WriteJournal, SerialInv, Fresh
  <2>4. NewEntry(w) \in Entry /\ NewEntry(w).rev = rev[w]
    BY <2>2, NewRecords DEF NewEntry
  <2>. QED
    BY <2>2, <2>3, <2>4, SnapshotAppend
<1>. QED
  BY <1>1, <1>2

(* Until two mutations overlap, the pages of a LIST, served at one         *)
(* revision, agree with each other.                                        *)
THEOREM PagesAgreeHolds == Spec => PagesAgree
<1>. DEFINE Agree == ~overlapped' => \A r \in 0..MaxRev :
                       r < current.rev => SnapshotAt(journal', r) = SnapshotAt(journal, r)
<1>1. Inv /\ [Next]_vars => [Agree]_vars
  BY StepPages, NamespaceAssumption
<1>. QED
  BY Invariant, <1>1, PTL DEF Spec, PagesAgree

-----------------------------------------------------------------------------
(***************************************************************************)
(* LIST against RESOLVE.  Between writing the current state and writing    *)
(* the journal a handler is mid-write, and the current state is one        *)
(* binding ahead of the journal; at all other times the two agree, unless  *)
(* a handler died in between.                                              *)
(***************************************************************************)
(* The journal does not reach past the current state.                      *)
JournalBelow == \A i \in 1..Len(journal) : journal[i].rev <= current.rev

Agreed ==
  (\A w \in Workers : pc[w] \notin MidWrite) => SnapshotAt(journal, current.rev) = current.bind

OneAhead ==
  \A w \in Workers : pc[w] \in MidWrite =>
    current.bind = [SnapshotAt(journal, current.rev) EXCEPT ![job[w].path] = NewBinding(w)]

Match == JournalBelow /\ (faults = 0 => Agreed /\ OneAhead)

MatchInv == ~overlapped => Match

(* A limit no entry is past replays the whole journal.                     *)
LEMMA ReplayedAll ==
  ASSUME NEW s \in Seq(Entry), NEW q \in Nat, \A i \in 1..Len(s) : s[i].rev <= q
  PROVE  Replayed(s, q) = 1..Len(s)
<1>1. Len(s) \in Nat
  OBVIOUS
<1>2. ASSUME NEW i \in 1..Len(s) PROVE \A j \in 1..i : s[j].rev <= q
  BY <1>1
<1>. QED
  BY <1>2 DEF Replayed

(* Two such limits give the same snapshot.                                 *)
LEMMA SnapshotLimits ==
  ASSUME NEW s \in Seq(Entry), NEW q \in Nat, NEW r \in Nat,
         \A i \in 1..Len(s) : s[i].rev <= q, \A i \in 1..Len(s) : s[i].rev <= r
  PROVE  SnapshotAt(s, q) = SnapshotAt(s, r)
<1>1. Replayed(s, q) = Replayed(s, r)
  BY ReplayedAll
<1>2. \A p \in Paths : EntriesOf(s, q, p) = EntriesOf(s, r, p)
  BY <1>1 DEF EntriesOf
<1>. QED
  BY <1>2 DEF SnapshotAt

(* An entry within the limit decides its path and no other.                *)
LEMMA SnapshotGrow ==
  ASSUME NEW s \in Seq(Entry), NEW e \in Entry, NEW r \in Nat, e.rev <= r,
         \A i \in 1..Len(s) : s[i].rev <= r
  PROVE  SnapshotAt(Append(s, e), r) = [SnapshotAt(s, r) EXCEPT ![e.path] = BindingOf(e)]
<1>. DEFINE t == Append(s, e)
            n == Len(s) + 1
<1>1. /\ t \in Seq(Entry) /\ Len(s) \in Nat /\ Len(t) = n /\ t[n] = e
      /\ \A i \in 1..Len(s) : t[i] = s[i]
  BY AppendEntry
<1>2. e.path \in Paths /\ n \in Nat /\ 1..n = (1..Len(s)) \cup {n} /\ n \notin 1..Len(s)
  BY <1>1 DEF Entry
<1>. HIDE DEF t, n
<1>3. \A i \in 1..Len(t) : t[i].rev <= r
  BY <1>1, <1>2
<1>4. Replayed(t, r) = (1..Len(s)) \cup {n} /\ Replayed(s, r) = 1..Len(s)
  BY <1>1, <1>2, <1>3, ReplayedAll
<1>5. ASSUME NEW p \in Paths, p # e.path PROVE SnapshotAt(t, r)[p] = SnapshotAt(s, r)[p]
  <2>1. EntriesOf(t, r, p) = EntriesOf(s, r, p)
    BY <1>1, <1>4, <1>5 DEF EntriesOf
  <2>2. CASE EntriesOf(s, r, p) = {}
    BY <2>1, <2>2 DEF SnapshotAt
  <2>3. CASE EntriesOf(s, r, p) # {}
    <3>1. \A i \in EntriesOf(s, r, p) : i \in Nat /\ i <= Len(s) /\ t[i] = s[i]
      BY <1>1, <1>4 DEF EntriesOf
    <3>2. LastOf(EntriesOf(s, r, p)) \in EntriesOf(s, r, p)
      BY <1>1, <2>3, <3>1, LastIndex DEF LastOf
    <3>. QED
      BY <2>1, <2>3, <3>1, <3>2 DEF SnapshotAt
  <2>. QED
    BY <2>2, <2>3
<1>6. SnapshotAt(t, r)[e.path] = BindingOf(e)
  <2>. DEFINE I == EntriesOf(t, r, e.path)
  <2>1. n \in I /\ \A i \in I : i \in Nat /\ i <= n
    BY <1>1, <1>2, <1>4 DEF EntriesOf, n
  <2>. HIDE DEF I
  <2>2. \A i \in I : (\A j \in I : j <= i) => i = n
    BY <1>2, <2>1
  <2>3. LastOf(I) = n
    BY <2>1, <2>2 DEF LastOf
  <2>4. I # {}
    BY <2>1
  <2>5. SnapshotAt(t, r)[e.path] = BindingOf(t[LastOf(I)])
    BY <1>2, <2>4 DEF SnapshotAt, I
  <2>. QED
    BY <1>1, <2>3, <2>5
<1>7. SnapshotAt(t, r) = [SnapshotAt(s, r) EXCEPT ![e.path] = BindingOf(e)]
  <2>. DEFINE f == SnapshotAt(t, r)
              g == SnapshotAt(s, r)
  <2>1. f = [p \in Paths |-> f[p]] /\ g = [p \in Paths |-> g[p]]
    BY DEF SnapshotAt
  <2>2. \A p \in Paths : f[p] = IF p = e.path THEN BindingOf(e) ELSE g[p]
    BY <1>5, <1>6
  <2>. HIDE DEF f, g
  <2>3. f = [g EXCEPT ![e.path] = BindingOf(e)]
    BY <1>2, <2>1, <2>2
  <2>. QED
    BY <2>3 DEF f, g
<1>. QED
  BY <1>7 DEF t

(* The journal replays a mutation to the binding the current state got.    *)
LEMMA SameBinding ==
  ASSUME NEW w \in Workers, job[w] \in Mutation
  PROVE  BindingOf(NewEntry(w)) = NewBinding(w)
<1>1. CASE job[w].kind = "bind"
  BY <1>1 DEF BindingOf, NewEntry, NewBinding
<1>2. CASE job[w].kind = "tombstone"
  BY <1>2 DEF BindingOf, NewEntry, NewBinding
<1>3. CASE job[w].kind = "hard"
  BY <1>3 DEF BindingOf, NewEntry, NewBinding
<1>. QED
  BY <1>1, <1>2, <1>3 DEF Mutation, Kinds

(* Every step before two mutations overlap keeps the match.                *)
LEMMA NextMatch ==
  ASSUME Inv, MatchInv, [Next]_vars
  PROVE  MatchInv'
<1>. SUFFICES ASSUME ~overlapped' PROVE Match'
  BY DEF MatchInv
<1>0. Typed /\ SerialInv /\ Match
  BY Before DEF MatchInv
<1>. DEFINE Goal == Match'
<1>. HIDE DEF Goal
<1>. SUFFICES Goal
  BY DEF Goal
<1>1. CASE UNCHANGED vars
  BY <1>0, <1>1 DEF vars, locals, Match, JournalBelow, Agreed, OneAhead, NewBinding, Goal
<1>3. ASSUME NEW w \in Workers,
             \/ \E m \in Requests : Start(w, m)
             \/ Reject(w) \/ ReadCurrent(w) \/ ReadRevision(w) \/ WriteRevision(w) \/ Respond(w)
      PROVE  Goal
  <2>1. Unmoved(w)
    BY <1>0, <1>3, StepUnmoved DEF Step
  <2>2. UNCHANGED <<current, journal, faults>> /\ pc[w] \notin MidWrite /\ pc'[w] \notin MidWrite
    BY <1>0, <1>3 DEF Start, Reject, ReadCurrent, ReadRevision, WriteRevision, Respond, Goto, Return,
                      Typed, TypeOK, MidWrite
  <2>3. ASSUME NEW v \in Workers \ {w} PROVE NewBinding(v)' = NewBinding(v)
    BY <2>1 DEF Unmoved, NewBinding
  <2>4. Agreed => Agreed'
    BY <2>1, <2>2 DEF Unmoved, Agreed
  <2>5. OneAhead => OneAhead'
    BY <2>1, <2>2, <2>3 DEF Unmoved, OneAhead
  <2>. QED
    BY <1>0, <2>2, <2>4, <2>5 DEF Match, JournalBelow, Goal
<1>4. ASSUME NEW w \in Workers, Fault(w) PROVE Goal
  <2>1. UNCHANGED <<current, journal>> /\ faults' # 0
    BY <1>0, <1>4 DEF Fault, Typed, TypeOK
  <2>. QED
    BY <1>0, <2>1 DEF Match, JournalBelow, Goal
<1>5. ASSUME NEW w \in Workers, WriteCurrent(w) PROVE Goal
  <2>1. Others(w) /\ Unmoved(w)
    BY <1>0, <1>5, WriterAlone
  <2>2. /\ UNCHANGED <<journal, job, rev, faults>> /\ pc[w] = "cur_write" /\ pc'[w] = "jrn_read"
        /\ copy[w] = current /\ current \in State /\ journal \in Seq(Entry)
        /\ job[w] \in Mutation /\ rev[w] \in Nat
    BY <1>0, <1>5 DEF WriteCurrent, Goto, locals, Typed, TypeOK, JobInv, SerialInv, Fresh, Prepared, Numbered
  <2>3. current'.rev = rev[w] /\ current'.bind = [current.bind EXCEPT ![job[w].path] = NewBinding(w)]
    BY <1>5, <2>2 DEF WriteCurrent
  <2>4. current.rev \in Nat /\ \A i \in 1..Len(journal) : journal[i].rev < rev[w] /\ journal[i].rev \in Nat
    BY <1>0, <2>2, JournalRevs DEF SerialInv, Ahead, State
  <2>5. JournalBelow'
    BY <2>2, <2>3, <2>4 DEF JournalBelow
  <2>6. ASSUME faults = 0 PROVE OneAhead'
    <3>1. current.bind = SnapshotAt(journal, current.rev)
      BY <1>0, <2>1, <2>2, <2>6 DEF Match, Agreed, Others, Unmoved, MidWrite
    <3>2. SnapshotAt(journal, current.rev) = SnapshotAt(journal, rev[w])
      <4>1. \A i \in 1..Len(journal) : journal[i].rev <= rev[w]
        BY <2>2, <2>4
      <4>2. \A i \in 1..Len(journal) : journal[i].rev <= current.rev
        BY <1>0 DEF Match, JournalBelow
      <4>. QED
        BY <2>2, <2>4, <4>1, <4>2, SnapshotLimits, Zenon
    <3>3. NewBinding(w)' = NewBinding(w)
      BY <2>2 DEF NewBinding
    <3>. QED
      BY <2>1, <2>2, <2>3, <3>1, <3>2, <3>3 DEF OneAhead, Others, Unmoved, MidWrite
  <2>7. ~(\A v \in Workers : pc'[v] \notin MidWrite)
    BY <2>2 DEF MidWrite
  <2>. QED
    BY <1>0, <2>2, <2>5, <2>6, <2>7 DEF Match, Agreed, Goal
<1>6. ASSUME NEW w \in Workers, ReadJournal(w) PROVE Goal
  <2>1. Others(w) /\ Unmoved(w)
    BY <1>0, <1>6, WriterAlone
  <2>2. /\ UNCHANGED <<current, journal, job, rev, faults>>
        /\ pc[w] \in MidWrite /\ pc'[w] \in MidWrite /\ NewBinding(w)' = NewBinding(w)
    BY <1>0, <1>6 DEF ReadJournal, Goto, Typed, TypeOK, MidWrite, NewBinding
  <2>. QED
    BY <1>0, <2>1, <2>2 DEF Others, Unmoved, Match, JournalBelow, Agreed, OneAhead, MidWrite, Goal
<1>7. ASSUME NEW w \in Workers, WriteJournal(w) PROVE Goal
  <2>. DEFINE e == NewEntry(w)
  <2>1. Others(w) /\ Unmoved(w)
    BY <1>0, <1>7, WriterAlone
  <2>2. /\ UNCHANGED <<current, faults>> /\ pc[w] = "jrn_write" /\ pc'[w] = "respond"
        /\ job[w] \in Mutation /\ rev[w] \in Nat /\ journal \in Seq(Entry)
        /\ journal' = Append(journal, e) /\ current.rev = rev[w]
    BY <1>0, <1>7 DEF WriteJournal, Goto, locals, Typed, TypeOK, JobInv, SerialInv, Fresh, Written, MidWrite, Numbered
  <2>3. e \in Entry /\ e.rev = rev[w] /\ e.path = job[w].path
    BY <2>2, NewRecords DEF NewEntry
  <2>. HIDE DEF e
  <2>4. JournalBelow'
    <3>1. \A i \in 1..Len(journal') : i = Len(journal) + 1 \/ (i \in 1..Len(journal) /\ journal'[i] = journal[i])
      BY <2>2, <2>3, AppendEntry
    <3>2. journal'[Len(journal) + 1] = e
      BY <2>2, <2>3, AppendEntry
    <3>. QED
      BY <1>0, <2>2, <2>3, <3>1, <3>2 DEF Match, JournalBelow
  <2>5. ASSUME faults = 0 PROVE SnapshotAt(journal', current.rev) = current.bind
    <3>1. current.bind = [SnapshotAt(journal, current.rev) EXCEPT ![job[w].path] = NewBinding(w)]
      BY <1>0, <2>2, <2>5 DEF Match, OneAhead, MidWrite
    <3>2. SnapshotAt(journal', current.rev)
            = [SnapshotAt(journal, current.rev) EXCEPT ![e.path] = BindingOf(e)]
      <4>1. current.rev \in Nat /\ e.rev <= current.rev
        BY <2>2, <2>3
      <4>2. \A i \in 1..Len(journal) : journal[i].rev <= current.rev
        BY <1>0 DEF Match, JournalBelow
      <4>. QED
        BY <2>2, <2>3, <4>1, <4>2, SnapshotGrow, Zenon
    <3>3. BindingOf(e) = NewBinding(w)
      BY <2>2, SameBinding DEF e
    <3>. QED
      BY <2>3, <3>1, <3>2, <3>3
  <2>6. \A v \in Workers : pc'[v] \notin MidWrite
    BY <2>1, <2>2 DEF Others, Unmoved, MidWrite
  <2>. QED
    BY <1>0, <2>2, <2>4, <2>5, <2>6 DEF Match, Agreed, OneAhead, Goal
<1>. QED
  BY <1>1, <1>3, <1>4, <1>5, <1>6, <1>7 DEF Next, Step

(* As long as no handler died and no two mutations overlapped, the listing *)
(* taken from the journal shows the bindings RESOLVE answers from, whenever*)
(* no mutation is between writing the two.                                 *)
THEOREM ListMatchesResolveHolds == Spec => []ListMatchesResolve
<1>1. Init => MatchInv
  <2>. SUFFICES ASSUME Init PROVE MatchInv
    OBVIOUS
  <2>1. journal = <<>> /\ Len(journal) = 0 /\ current.rev = 0 /\ current.bind = [p \in Paths |-> None]
    BY DEF Init
  <2>2. \A p \in Paths : EntriesOf(journal, 0, p) = {}
    <3>1. 1..Len(journal) = {}
      BY <2>1
    <3>. QED
      BY <3>1 DEF EntriesOf, Replayed
  <2>3. SnapshotAt(journal, 0) = [p \in Paths |-> None]
    BY <2>2 DEF SnapshotAt
  <2>. QED
    BY <2>1, <2>3 DEF Init, MatchInv, Match, JournalBelow, Agreed, OneAhead, MidWrite
<1>2. MatchInv => ListMatchesResolve
  BY DEF MatchInv, Match, Agreed, ListMatchesResolve, Between, MidWrite
<1>3. Inv /\ MatchInv /\ [Next]_vars => MatchInv'
  BY NextMatch
<1>. QED
  BY Invariant, <1>1, <1>2, <1>3, PTL DEF Spec

-----------------------------------------------------------------------------
(***************************************************************************)
(* A list of several pages (module Listing).  What Items selects is shown  *)
(* by induction over the order of the paths: FoldLeft is the last value of *)
(* a recursive function, which has to be shown to exist first.  A list in  *)
(* progress then relates to the mutations through its snapshot: only the   *)
(* mutation it began within can still change it, and only once (Still), so *)
(* the cursor's path separates what the pages hold from what is to come    *)
(* (PageInv).                                                              *)
(***************************************************************************)
(* Where a path stands in the order of the paths.                          *)
Place(p) == CHOOSE i \in DOMAIN Order : Order[i] = p

(* What the list does with one path.                                       *)
Collect(binds, include, items, p) ==
  IF Shown(binds[p], include) THEN Append(items, p) ELSE items

(* The items with places up to k: those shown, in order.                   *)
UpTo(items, binds, include, k) ==
  /\ items \in Seq(Paths)
  /\ \A i \in 1..Len(items) : Place(items[i]) <= k /\ Shown(binds[items[i]], include)
  /\ \A i, j \in 1..Len(items) : i < j => Place(items[i]) < Place(items[j])
  /\ \A p \in Paths : Shown(binds[p], include) /\ Place(p) <= k => \E i \in 1..Len(items) : items[i] = p

(* Induction over the naturals, as a statement about sets.                 *)
LEMMA SetInduction ==
  ASSUME NEW T, 0 \in T, \A n \in Nat : n \in T => n + 1 \in T
  PROVE  Nat \subseteq T
<1>. DEFINE R == OpToRel(<, Nat)
            U == Nat \ T
<1>. SUFFICES ASSUME U # {} PROVE FALSE
  OBVIOUS
<1>1. IsWellFoundedOn(R, Nat)
  BY NatLessThanWellFounded, Zenon
<1>. HIDE DEF R
<1>2. PICK x \in U : \A y \in U : ~(<<y, x>> \in R)
  BY <1>1, WFMin, Zenon
<1>3. x \in Nat /\ x # 0
  OBVIOUS
<1>4. x - 1 \in Nat /\ x - 1 < x /\ (x - 1) + 1 = x
  BY <1>3
<1>5. x - 1 \in U
  BY <1>4
<1>. QED
  BY <1>2, <1>3, <1>4, <1>5 DEF R, OpToRel

(* The greatest of a set of numbers up to n + 1; without it, the set is    *)
(* one of numbers up to n.                                                 *)
LEMMA Greatest ==
  ASSUME NEW n \in Nat, NEW S \in SUBSET (1..(n + 1)), S # {}
  PROVE  Max(S) \in S /\ (\A y \in S : Max(S) >= y) /\ S \ {Max(S)} \in SUBSET (1..n)
<1>1. \A i \in S : i \in Nat /\ i <= n + 1
  OBVIOUS
<1>2. n + 1 \in Nat
  OBVIOUS
<1>3. \E i \in S : \A j \in S : j <= i
  BY <1>1, <1>2, LastIndex, Zenon
<1>4. \E x \in S : \A y \in S : x >= y
  BY <1>1, <1>3
<1>5. Max(S) \in S /\ \A y \in S : Max(S) >= y
  BY <1>4, Zenon DEF Max
<1>. DEFINE x == Max(S)
<1>6. x \in S /\ \A y \in S : x >= y
  BY <1>5
<1>. HIDE DEF x
<1>7. ASSUME NEW y \in S, y # x PROVE y \in 1..n
  BY <1>6, <1>7
<1>. QED
  BY <1>5, <1>7 DEF x

(* The recursive function inside Items.                                    *)
Folds(f, binds, include, n) ==
  f = [s \in SUBSET (1..n) |->
         IF s = {} THEN <<>> ELSE Collect(binds, include, f[s \ {Max(s)}], Order[Max(s)])]

(* That function exists, so Items has a value.                             *)
LEMMA FoldsExist ==
  ASSUME NEW binds, NEW include, NEW m \in Nat
  PROVE  \E f : Folds(f, binds, include, m)
<1>. DEFINE T == {n \in Nat : \E f : Folds(f, binds, include, n)}
<1>1. 0 \in T
  <2>1. Folds([s \in SUBSET (1..0) |-> <<>>], binds, include, 0)
    BY DEF Folds
  <2>. QED
    BY <2>1
<1>2. ASSUME NEW n \in Nat, n \in T PROVE n + 1 \in T
  <2>1. PICK f : Folds(f, binds, include, n)
    BY <1>2
  <2>. DEFINE g == [s \in SUBSET (1..(n + 1)) |->
                     IF s = {} THEN <<>> ELSE Collect(binds, include, f[s \ {Max(s)}], Order[Max(s)])]
  <2>2. ASSUME NEW s \in SUBSET (1..(n + 1)), s # {} PROVE g[s \ {Max(s)}] = f[s \ {Max(s)}]
    <3>1. s \ {Max(s)} \in SUBSET (1..n)
      BY <2>2, Greatest, Zenon
    <3>2. s \ {Max(s)} \in SUBSET (1..(n + 1))
      OBVIOUS
    <3>. QED
      BY <2>1, <3>1, <3>2 DEF Folds
  <2>3. Folds(g, binds, include, n + 1)
    BY <2>2 DEF Folds
  <2>. QED
    BY <2>3
<1>. HIDE DEF T
<1>3. m \in T
  BY <1>1, <1>2, SetInduction
<1>. QED
  BY <1>3 DEF T

(* Its values on the first k places, step by step.                         *)
LEMMA FoldSteps ==
  ASSUME NEW binds, NEW include, NEW f, NEW m \in Nat, Folds(f, binds, include, m)
  PROVE  /\ f[1..0] = <<>>
         /\ \A k \in 1..m : f[1..k] = Collect(binds, include, f[1..(k - 1)], Order[k])
<1>1. f[1..0] = <<>>
  <2>1. 1..0 = {} /\ {} \in SUBSET (1..m)
    OBVIOUS
  <2>. QED
    BY <2>1 DEF Folds
<1>2. ASSUME NEW k \in 1..m PROVE f[1..k] = Collect(binds, include, f[1..(k - 1)], Order[k])
  <2>. DEFINE n == k - 1
  <2>1. n \in Nat /\ n + 1 = k /\ k \in 1..k /\ \A i \in 1..k : i \in 1..m
    OBVIOUS
  <2>. HIDE DEF n
  <2>2. 1..k \in SUBSET (1..m) /\ 1..k # {} /\ 1..k \in SUBSET (1..(n + 1))
    BY <2>1, Zenon
  <2>3. Max(1..k) \in 1..k /\ \A y \in 1..k : Max(1..k) >= y
    BY <2>1, <2>2, Greatest, Zenon
  <2>4. Max(1..k) = k /\ (1..k) \ {k} = 1..n
    BY <2>1, <2>3
  <2>5. f[1..k] = Collect(binds, include, f[(1..k) \ {Max(1..k)}], Order[Max(1..k)])
    BY <2>2 DEF Folds
  <2>. QED
    BY <2>4, <2>5 DEF n
<1>. QED
  BY <1>1, <1>2

(* Items is the last value of such a function.                             *)
LEMMA ItemsFold ==
  ASSUME NEW binds, NEW include
  PROVE  \E f : Folds(f, binds, include, Len(Order)) /\ Items(binds, include) = f[1..Len(Order)]
<1>. DEFINE m == Len(Order)
            g == CHOOSE f : Folds(f, binds, include, m)
<1>1. m \in Nat /\ DOMAIN Order = 1..m
  BY ListingAssumption
<1>. HIDE DEF m
<1>2. Folds(g, binds, include, m)
  BY <1>1, FoldsExist
<1>3. Items(binds, include) = g[1..m]
  BY <1>1 DEF Items, FoldLeft, MapThenFoldSet, Folds, Collect
<1>. QED
  BY <1>2, <1>3 DEF m

(* The place of the k-th path is k.                                        *)
LEMMA Places ==
  /\ Len(Order) \in Nat
  /\ \A k \in 1..Len(Order) : Order[k] \in Paths /\ Place(Order[k]) = k
  /\ \A p \in Paths : Place(p) \in 1..Len(Order) /\ Order[Place(p)] = p
<1>1. Len(Order) \in Nat /\ DOMAIN Order = 1..Len(Order) /\ \A k \in 1..Len(Order) : Order[k] \in Paths
  BY ListingAssumption
<1>2. \A p \in Paths : \E k \in 1..Len(Order) : Order[k] = p
  BY <1>1, ListingAssumption DEF ToSet
<1>3. \A j, k \in 1..Len(Order) : Order[j] = Order[k] => j = k
  BY <1>1, ListingAssumption DEF IsInjective
<1>4. \A p \in Paths : Place(p) \in 1..Len(Order) /\ Order[Place(p)] = p
  BY <1>1, <1>2 DEF Place
<1>. QED
  BY <1>1, <1>3, <1>4

(* One more path keeps the items ordered and complete.                     *)
LEMMA CollectUpTo ==
  ASSUME NEW binds, NEW include, NEW items, NEW k \in Nat, k + 1 <= Len(Order), UpTo(items, binds, include, k)
  PROVE  UpTo(Collect(binds, include, items, Order[k + 1]), binds, include, k + 1)
<1>. DEFINE q == Order[k + 1]
<1>1. q \in Paths /\ Place(q) = k + 1 /\ \A p \in Paths : Place(p) \in Nat /\ (Place(p) = k + 1 => p = q)
  BY Places
<1>. HIDE DEF q
<1>2. /\ items \in Seq(Paths) /\ Len(items) \in Nat
      /\ \A i \in 1..Len(items) : items[i] \in Paths
  BY DEF UpTo
<1>3. CASE Shown(binds[q], include)
  <2>. DEFINE t == Append(items, q)
              n == Len(items)
  <2>1. /\ t \in Seq(Paths) /\ Len(t) = n + 1 /\ t[n + 1] = q /\ n \in Nat
        /\ \A i \in 1..n : t[i] = items[i]
    BY <1>1, <1>2
  <2>. HIDE DEF t
  <2>2. \A i \in 1..Len(t) : i \in 1..n \/ i = n + 1
    BY <2>1
  <2>3. ASSUME NEW i \in 1..Len(t) PROVE Place(t[i]) <= k + 1 /\ Shown(binds[t[i]], include)
    <3>1. CASE i \in 1..n
      <4>1. t[i] = items[i] /\ Place(items[i]) <= k /\ Shown(binds[items[i]], include) /\ Place(items[i]) \in Nat
        BY <1>1, <1>2, <2>1, <3>1 DEF UpTo
      <4>. QED
        BY <4>1
    <3>2. CASE i = n + 1
      BY <1>1, <1>3, <2>1, <3>2
    <3>. QED
      BY <2>2, <3>1, <3>2
  <2>4. \A i, j \in 1..Len(t) : i < j => Place(t[i]) < Place(t[j])
    <3>. SUFFICES ASSUME NEW i \in 1..Len(t), NEW j \in 1..Len(t), i < j PROVE Place(t[i]) < Place(t[j])
      OBVIOUS
    <3>1. i \in 1..n /\ t[i] = items[i] /\ Place(t[i]) <= k
      BY <2>1, <2>2 DEF UpTo
    <3>2. CASE j \in 1..n
      BY <2>1, <3>1, <3>2 DEF UpTo
    <3>3. CASE j = n + 1
      BY <1>1, <1>2, <2>1, <3>1, <3>3
    <3>. QED
      BY <2>2, <3>2, <3>3
  <2>5. ASSUME NEW p \in Paths, Shown(binds[p], include), Place(p) <= k + 1
        PROVE  \E i \in 1..Len(t) : t[i] = p
    <3>1. CASE p = q
      BY <2>1, <3>1
    <3>2. CASE p # q
      <4>1. Place(p) <= k
        BY <1>1, <2>5, <3>2
      <4>2. PICK i \in 1..n : items[i] = p
        BY <2>5, <4>1 DEF UpTo
      <4>. QED
        BY <2>1, <4>2
    <3>. QED
      BY <3>1, <3>2
  <2>6. UpTo(t, binds, include, k + 1)
    BY <2>1, <2>3, <2>4, <2>5 DEF UpTo
  <2>. QED
    BY <1>3, <2>6 DEF Collect, t, q
<1>4. CASE ~Shown(binds[q], include)
  <2>1. \A p \in Paths : Shown(binds[p], include) /\ Place(p) <= k + 1 => Place(p) <= k
    BY <1>1, <1>4
  <2>2. UpTo(items, binds, include, k + 1)
    BY <1>1, <1>2, <2>1 DEF UpTo
  <2>. QED
    BY <1>4, <2>2 DEF Collect, q
<1>. QED
  BY <1>3, <1>4

(* The items of a list are the paths shown, each once and in order.        *)
LEMMA ItemsUpTo ==
  ASSUME NEW binds, NEW include
  PROVE  UpTo(Items(binds, include), binds, include, Len(Order))
<1>. DEFINE m == Len(Order)
<1>1. m \in Nat
  BY Places
<1>2. PICK f : Folds(f, binds, include, m) /\ Items(binds, include) = f[1..m]
  BY ItemsFold
<1>. DEFINE T == {k \in Nat : k <= m => UpTo(f[1..k], binds, include, k)}
<1>. HIDE DEF m
<1>3. f[1..0] = <<>> /\ \A k \in 1..m : f[1..k] = Collect(binds, include, f[1..(k - 1)], Order[k])
  <2>1. Folds(f, binds, include, m)
    BY <1>2
  <2>. QED
    BY <1>1, <2>1, FoldSteps
<1>4. 0 \in T
  <2>1. ASSUME NEW p \in Paths PROVE ~(Place(p) <= 0)
    <3>1. Place(p) \in 1..Len(Order) /\ Len(Order) \in Nat
      BY Places
    <3>. QED
      BY <3>1
  <2>2. UpTo(<<>>, binds, include, 0)
    BY <2>1 DEF UpTo
  <2>. QED
    BY <1>3, <2>2
<1>5. ASSUME NEW k \in Nat, k \in T PROVE k + 1 \in T
  <2>. SUFFICES ASSUME k + 1 <= m PROVE UpTo(f[1..(k + 1)], binds, include, k + 1)
    OBVIOUS
  <2>1. k + 1 \in 1..m /\ (k + 1) - 1 = k /\ k <= m
    BY <1>1
  <2>2. UpTo(f[1..k], binds, include, k)
    BY <1>5, <2>1
  <2>3. f[1..(k + 1)] = Collect(binds, include, f[1..k], Order[k + 1])
    BY <1>3, <2>1
  <2>4. k + 1 <= Len(Order)
    BY DEF m
  <2>5. UpTo(Collect(binds, include, f[1..k], Order[k + 1]), binds, include, k + 1)
    BY <2>2, <2>4, CollectUpTo, Zenon
  <2>. QED
    BY <2>3, <2>5
<1>. HIDE DEF T
<1>6. m \in T
  BY <1>1, <1>4, <1>5, SetInduction
<1>7. UpTo(f[1..m], binds, include, m)
  BY <1>1, <1>6 DEF T
<1>. QED
  BY <1>2, <1>7 DEF m

(* The path of an earlier page's end is found where it stands.             *)
LEMMA StartFound ==
  ASSUME NEW binds, NEW include, NEW k \in 1..Len(Items(binds, include))
  PROVE  StartIndex(Items(binds, include), Items(binds, include)[k]) = k
<1>. DEFINE items == Items(binds, include)
            I == {i \in 1..Len(items) : items[i] = items[k]}
<1>1. UpTo(items, binds, include, Len(Order))
  BY ItemsUpTo
<1>. HIDE DEF items
<1>2. Len(items) \in Nat /\ k \in 1..Len(items) /\ \A i \in 1..Len(items) : Place(items[i]) \in Nat
  BY <1>1, Places DEF UpTo, items
<1>3. ASSUME NEW i \in 1..Len(items), items[i] = items[k] PROVE i = k
  <2>1. i < k => Place(items[i]) < Place(items[k])
    BY <1>1, <1>2 DEF UpTo
  <2>2. k < i => Place(items[k]) < Place(items[i])
    BY <1>1, <1>2 DEF UpTo
  <2>. QED
    BY <1>2, <1>3, <2>1, <2>2
<1>4. I = {k}
  BY <1>2, <1>3
<1>5. Min({k}) = k
  BY <1>2 DEF Min
<1>6. StartIndex(items, items[k]) = IF I # {} THEN Min(I) ELSE 0
  BY DEF StartIndex, SelectInSeq
<1>. HIDE DEF I
<1>7. StartIndex(items, items[k]) = k
  BY <1>4, <1>5, <1>6
<1>. QED
  BY <1>7 DEF items

(* A path that is not listed starts the list over.                         *)
LEMMA StartOver ==
  ASSUME NEW items \in Seq(Paths), NEW p, \A i \in 1..Len(items) : items[i] # p
  PROVE  StartIndex(items, p) = 0
<1>. DEFINE I == {i \in 1..Len(items) : items[i] = p}
<1>1. I = {}
  OBVIOUS
<1>2. StartIndex(items, p) = IF I # {} THEN Min(I) ELSE 0
  BY DEF StartIndex, SelectInSeq
<1>. HIDE DEF I
<1>. QED
  BY <1>1, <1>2

(* The page ListPage answers with.                                         *)
Page(items, start, limit) == SubSeq(items, start + 1, Min({start + limit, Len(items)}))

(* A page holds the items from start to e; one that ends before the items  *)
(* do is not empty.                                                        *)
Cut(page, items, start, e) ==
  /\ page = SubSeq(items, start + 1, e) /\ page \in Seq(Paths)
  /\ Len(page) = e - start
  /\ \A i \in 1..(e - start) : page[i] = items[start + i]
  /\ e < Len(items) => start < e /\ Last(page) = items[e]

(* Every page is such a cut.                                               *)
LEMMA PageCut ==
  ASSUME NEW items \in Seq(Paths), NEW start \in 0..Len(items), NEW limit \in Nat \ {0}
  PROVE  \E e \in start..Len(items) : Cut(Page(items, start, limit), items, start, e)
<1>. DEFINE n == Len(items)
            e == Min({start + limit, n})
<1>1. n \in Nat /\ start \in Nat /\ start <= n
  OBVIOUS
<1>2. \E x \in {start + limit, n} : \A y \in {start + limit, n} : x <= y
  BY <1>1
<1>3. e \in {start + limit, n} /\ \A y \in {start + limit, n} : e <= y
  BY <1>2, Zenon DEF Min
<1>4. Page(items, start, limit) = SubSeq(items, start + 1, e)
  BY DEF Page
<1>. HIDE DEF n, e
<1>5. e \in Nat /\ start <= e /\ e <= n /\ (e < n => start < e)
  BY <1>1, <1>3
<1>. DEFINE page == SubSeq(items, start + 1, e)
<1>6. /\ page \in Seq(Paths) /\ Len(page) = e - start
      /\ \A i \in 1..(e - start) : page[i] = items[start + i]
  <2>1. \A i \in (start + 1)..e : items[i] \in Paths
    BY <1>1, <1>5 DEF n
  <2>2. Len(page) = IF start + 1 <= e THEN (e - (start + 1)) + 1 ELSE 0
    BY <1>1, <1>5
  <2>. QED
    BY <1>1, <1>5, <2>1, <2>2 DEF n
<1>. HIDE DEF page
<1>7. e < n => Last(page) = items[e]
  BY <1>1, <1>5, <1>6 DEF Last
<1>8. Cut(page, items, start, e)
  BY <1>5, <1>6, <1>7 DEF Cut, page, n
<1>9. e \in start..Len(items)
  BY <1>1, <1>5 DEF n
<1>. QED
  BY <1>4, <1>8, <1>9 DEF page

(* A page after the items before it gives the items up to its end.         *)
LEMMA CutJoins ==
  ASSUME NEW items \in Seq(Paths), NEW start \in 0..Len(items), NEW e \in start..Len(items), NEW page,
         Cut(page, items, start, e)
  PROVE  SubSeq(items, 1, start) \o page = SubSeq(items, 1, e)
<1>1. Len(items) \in Nat /\ start \in Nat /\ e \in Nat /\ start <= e /\ e <= Len(items)
  OBVIOUS
<1>. DEFINE a == SubSeq(items, 1, start)
            b == SubSeq(items, 1, e)
<1>2. a \in Seq(Paths) /\ Len(a) = start /\ \A i \in 1..start : a[i] = items[i]
  BY <1>1
<1>3. b \in Seq(Paths) /\ Len(b) = e /\ \A i \in 1..e : b[i] = items[i]
  BY <1>1
<1>4. page \in Seq(Paths) /\ Len(page) = e - start /\ \A i \in 1..(e - start) : page[i] = items[start + i]
  BY DEF Cut
<1>. HIDE DEF a, b
<1>. DEFINE c == a \o page
<1>5. c \in Seq(Paths) /\ Len(c) = e /\ \A i \in 1..e : c[i] = IF i <= start THEN a[i] ELSE page[i - start]
  BY <1>1, <1>2, <1>4
<1>. HIDE DEF c
<1>6. ASSUME NEW i \in 1..e PROVE c[i] = b[i]
  <2>1. CASE i <= start
    BY <1>1, <1>2, <1>3, <1>5, <2>1, SMTT(60)
  <2>2. CASE ~(i <= start)
    <3>1. i - start \in 1..(e - start) /\ start + (i - start) = i
      BY <1>1, <2>2
    <3>. QED
      BY <1>3, <1>4, <1>5, <2>2, <3>1
  <2>. QED
    BY <2>1, <2>2
<1>7. c = b
  BY <1>3, <1>5, <1>6
<1>. QED
  BY <1>7 DEF a, b, c

-----------------------------------------------------------------------------
(* What further pages of the list are taken from.                          *)
Now == SnapshotAt(journal, snapshot)

(* The paths shown when the list began and shown now.                      *)
Both == {p \in Paths : Shown(begun[p], tombs) /\ Shown(Now[p], tombs)}

(* A mutation between its two writes is past the snapshot.                 *)
Past == \A w \in Workers : Between(w) => rev[w] > snapshot

ListTyped ==
  /\ lpc \in {"idle", "page", "done"} /\ settled \in BOOLEAN
  /\ last \in Paths \cup {None} /\ listed \in Seq(Paths)
  /\ lpc = "idle" => listed = <<>>
  /\ lpc # "page" => last = None
  /\ lpc # "idle" => snapshot \in Nat /\ snapshot <= current.rev

(* The snapshot is what it was, or the mutation the list began within has  *)
(* been written.                                                           *)
Still ==
  lpc # "idle" =>
    /\ settled => Now = begun /\ Past
    /\ Now = begun \/ Past

(* The pages so far miss nothing that comes before their end, and those of *)
(* a settled list are the first items.                                     *)
PrefixTo(items) == \E k \in 1..Len(items) : last = items[k] /\ listed = SubSeq(items, 1, k)

PageInv ==
  lpc = "page" =>
    /\ last # None => \A p \in Both : Place(p) <= Place(last) => p \in ToSet(listed)
    /\ settled => IF last = None THEN listed = <<>> ELSE PrefixTo(Items(begun, tombs))

DoneInv ==
  lpc = "done" => Both \subseteq ToSet(listed) /\ (settled => listed = Items(begun, tombs))

ListInv == ListTyped /\ Still /\ PageInv /\ DoneInv

(* A step of a mutation leaves the list's snapshot as it is, unless it is  *)
(* the one the list began within.                                          *)
LEMMA StepSnapshot ==
  ASSUME Inv, [Next]_vars, ~overlapped', snapshot' = snapshot, snapshot \in Nat, snapshot <= current.rev
  PROVE  /\ snapshot <= current'.rev
         /\ Past => Past' /\ Now' = Now
         /\ Now' = Now \/ (~Past /\ Past')
<1>0. Typed /\ SerialInv /\ current.rev \in Nat
  BY Before DEF Typed, TypeOK, State
<1>1. ASSUME UNCHANGED <<current, journal>>,
             \A w \in Workers : Between(w)' => Between(w) /\ rev'[w] = rev[w]
      PROVE  snapshot <= current'.rev /\ (Past => Past') /\ Now' = Now
  BY <1>1 DEF Past, Now, SnapshotAt, Replayed, EntriesOf
<1>2. CASE UNCHANGED vars
  BY <1>1, <1>2 DEF vars, locals, Between
<1>3. ASSUME NEW w \in Workers, NEW m \in Requests, Start(w, m)
      PROVE  /\ UNCHANGED <<current, journal>>
             /\ \A v \in Workers : Between(v)' => Between(v) /\ rev'[v] = rev[v]
  BY <1>0, <1>3 DEF Start, Goto, Between, Typed, TypeOK
<1>4. ASSUME NEW w \in Workers,
             Reject(w) \/ ReadCurrent(w) \/ ReadRevision(w) \/ WriteRevision(w) \/ Respond(w) \/ Fault(w) \/ ReadJournal(w)
      PROVE  /\ UNCHANGED <<current, journal>>
             /\ \A v \in Workers : Between(v)' => Between(v) /\ rev'[v] = rev[v]
  BY <1>0, <1>4 DEF Reject, ReadCurrent, ReadRevision, WriteRevision, Respond, Fault, ReadJournal, Goto, Return,
                    Between, Typed, TypeOK, locals
<1>5. ASSUME NEW w \in Workers, WriteCurrent(w)
      PROVE  snapshot <= current'.rev /\ (Past => Past') /\ Now' = Now
  <2>1. /\ journal' = journal /\ rev' = rev /\ current'.rev = rev[w] /\ current.rev < rev[w] /\ rev[w] \in Nat
        /\ \A v \in Workers : v # w => pc'[v] = pc[v]
    BY <1>0, <1>5 DEF WriteCurrent, Goto, locals, Typed, TypeOK, JobInv, SerialInv, Ahead, Numbered
  <2>2. rev[w] > snapshot
    BY <1>0, <2>1
  <2>3. Past => Past'
    BY <2>1, <2>2 DEF Past, Between
  <2>4. Now' = Now
    BY <2>1 DEF Now, SnapshotAt, Replayed, EntriesOf
  <2>. QED
    BY <1>0, <2>1, <2>3, <2>4
<1>6. ASSUME NEW w \in Workers, WriteJournal(w)
      PROVE  /\ snapshot <= current'.rev
             /\ Past => Past' /\ Now' = Now
             /\ Now' = Now \/ (~Past /\ Past')
  <2>1. Others(w) /\ Unmoved(w)
    BY <1>0, <1>6, WriterAlone
  <2>2. /\ current' = current /\ pc[w] = "jrn_write" /\ pc'[w] = "respond"
        /\ job[w] \in Mutation /\ rev[w] \in Nat /\ journal \in Seq(Entry)
        /\ journal' = Append(journal, NewEntry(w)) /\ current.rev = rev[w]
    BY <1>0, <1>6 DEF WriteJournal, Goto, locals, Typed, TypeOK, JobInv, SerialInv, Fresh, Written, MidWrite, Numbered
  <2>3. NewEntry(w) \in Entry /\ NewEntry(w).rev = rev[w]
    BY <2>2, NewRecords DEF NewEntry
  <2>4. Past'
    BY <2>1, <2>2 DEF Past, Between, Others, Unmoved, MidWrite
  <2>5. CASE rev[w] > snapshot
    <3>1. SnapshotAt(Append(journal, NewEntry(w)), snapshot) = SnapshotAt(journal, snapshot)
      BY <2>2, <2>3, <2>5, SnapshotAppend
    <3>2. Now' = SnapshotAt(journal', snapshot)
      BY DEF Now, SnapshotAt, Replayed, EntriesOf
    <3>3. Now' = Now
      BY <2>2, <3>1, <3>2 DEF Now
    <3>. QED
      BY <2>2, <2>4, <3>3
  <2>6. CASE ~(rev[w] > snapshot)
    <3>1. ~Past
      BY <2>2, <2>6 DEF Past, Between
    <3>. QED
      BY <2>2, <2>4, <3>1
  <2>. QED
    BY <2>5, <2>6
<1>7. CASE Next
  <2>1. PICK w \in Workers : (\E m \in Requests : Start(w, m)) \/ Step(w) \/ Fault(w)
    BY <1>7 DEF Next
  <2>2. CASE WriteCurrent(w)
    BY <1>5, <2>2
  <2>3. CASE WriteJournal(w)
    BY <1>6, <2>3
  <2>4. CASE ~WriteCurrent(w) /\ ~WriteJournal(w)
    <3>1. /\ UNCHANGED <<current, journal>>
          /\ \A v \in Workers : Between(v)' => Between(v) /\ rev'[v] = rev[v]
      BY <1>3, <1>4, <2>1, <2>4 DEF Step
    <3>. QED
      BY <1>1, <3>1
  <2>. QED
    BY <2>2, <2>3, <2>4
<1>. QED
  BY <1>2, <1>1, <1>7

(* Mutations of the namespace keep the list's invariant.                   *)
LEMMA NextListInv ==
  ASSUME Inv, ListInv, [Next]_vars, ~overlapped', UNCHANGED lvars
  PROVE  ListInv'
<1>1. UNCHANGED <<lpc, snapshot, last, tombs, listed, begun, settled>>
  BY DEF lvars
<1>2. CASE lpc = "idle"
  BY <1>1, <1>2 DEF ListInv, ListTyped, Still, PageInv, DoneInv
<1>3. CASE lpc # "idle"
  <2>1. snapshot \in Nat /\ snapshot <= current.rev
    BY <1>3 DEF ListInv, ListTyped
  <2>2. /\ snapshot <= current'.rev
        /\ Past => Past' /\ Now' = Now
        /\ Now' = Now \/ (~Past /\ Past')
    BY <1>1, <2>1, StepSnapshot
  <2>3. Now = begun \/ Past
    BY <1>3 DEF ListInv, Still
  <2>4. Now' = Now \/ (Now = begun /\ ~settled)
    BY <1>3, <2>2, <2>3 DEF ListInv, Still
  <2>5. Both' \subseteq Both
    <3>1. Both' = {p \in Paths : Shown(begun[p], tombs) /\ Shown(Now'[p], tombs)}
      BY <1>1 DEF Both, Shown
    <3>. QED
      BY <2>4, <3>1 DEF Both
  <2>6. ListTyped'
    BY <1>1, <2>1, <2>2 DEF ListInv, ListTyped
  <2>7. Still'
    BY <1>1, <1>3, <2>2, <2>3, <2>4 DEF ListInv, Still
  <2>8. Items(begun, tombs)' = Items(begun, tombs) /\ PrefixTo(Items(begun, tombs))' = PrefixTo(Items(begun, tombs))
    BY <1>1, Zenon DEF PrefixTo
  <2>9. PageInv'
    BY <1>1, <2>5, <2>8 DEF ListInv, PageInv
  <2>10. DoneInv'
    BY <1>1, <2>5, <2>8 DEF ListInv, DoneInv
  <2>. QED
    BY <2>6, <2>7, <2>9, <2>10 DEF ListInv
<1>. QED
  BY <1>2, <1>3

(* A list that begins has its snapshot and no page yet.                    *)
LEMMA BeginListInv ==
  ASSUME Inv, ListInv, NEW include \in BOOLEAN, ListBegin(include)
  PROVE  ListInv'
<1>1. /\ lpc' = "page" /\ snapshot' = current.rev /\ begun' = SnapshotAt(journal, current.rev)
      /\ last' = None /\ listed' = <<>> /\ settled' = (\A w \in Workers : ~Between(w))
      /\ UNCHANGED <<current, journal, pc, rev>>
  BY DEF ListBegin, ListInv, ListTyped, vars, locals
<1>2. current.rev \in Nat
  BY DEF Inv, Typed, TypeOK, State
<1>3. ListTyped'
  BY <1>1, <1>2 DEF ListTyped
<1>4. Now' = SnapshotAt(journal', snapshot')
  BY DEF Now, SnapshotAt, Replayed, EntriesOf
<1>5. Now' = begun'
  BY <1>1, <1>4
<1>6. settled' => Past'
  BY <1>1 DEF Past, Between
<1>7. Still'
  BY <1>5, <1>6 DEF Still
<1>8. PageInv' /\ DoneInv'
  BY <1>1 DEF PageInv, DoneInv
<1>. QED
  BY <1>3, <1>7, <1>8 DEF ListInv

(* A page misses nothing before its end.                                   *)
LEMMA PageCovers ==
  ASSUME NEW binds, NEW include, NEW at, NEW seen \in Seq(Paths), NEW S, NEW page,
         NEW start \in 0..Len(Items(binds, include)), NEW e \in start..Len(Items(binds, include)),
         Cut(page, Items(binds, include), start, e),
         \A p \in S : p \in Paths /\ Shown(binds[p], include),
         start # 0 => at = Items(binds, include)[start] /\ \A p \in S : Place(p) <= Place(at) => p \in ToSet(seen)
  PROVE  \A p \in S : (e = Len(Items(binds, include)) \/ Place(p) <= Place(Items(binds, include)[e])) =>
                        p \in ToSet(seen \o page)
<1>. DEFINE items == Items(binds, include)
<1>1. UpTo(items, binds, include, Len(Order))
  BY ItemsUpTo
<1>. HIDE DEF items
<1>. SUFFICES ASSUME NEW p \in S, e = Len(items) \/ Place(p) <= Place(items[e])
     PROVE  p \in ToSet(seen \o page)
  BY DEF items
<1>2. p \in Paths /\ Shown(binds[p], include) /\ Place(p) \in Nat /\ Place(p) <= Len(Order)
  BY Places
<1>3. PICK i \in 1..Len(items) : items[i] = p
  BY <1>1, <1>2 DEF UpTo
<1>4. /\ start \in 0..Len(items) /\ e \in start..Len(items) /\ Cut(page, items, start, e)
      /\ Len(items) \in Nat /\ \A j \in 1..Len(items) : items[j] \in Paths /\ Place(items[j]) \in Nat
  BY <1>1, Places, SMTT(60) DEF items, UpTo
<1>5. i <= e
  <2>1. CASE e = Len(items)
    BY <1>4, <2>1
  <2>2. CASE e # Len(items)
    <3>1. e \in 1..Len(items) /\ Place(items[i]) <= Place(items[e])
      BY <1>3, <1>4, <2>2 DEF Cut
    <3>2. e < i => Place(items[e]) < Place(items[i])
      BY <1>1, <3>1 DEF UpTo
    <3>. QED
      BY <1>4, <3>1, <3>2
  <2>. QED
    BY <2>1, <2>2
<1>6. page \in Seq(Paths) /\ Len(page) = e - start /\ \A j \in 1..(e - start) : page[j] = items[start + j]
  BY <1>4 DEF Cut
<1>7. DOMAIN (seen \o page) = 1..(Len(seen) + Len(page)) /\ Len(seen) \in Nat /\ DOMAIN seen = 1..Len(seen)
  BY <1>6, SMTT(60)
<1>8. CASE i <= start
  <2>1. start # 0 /\ start \in 1..Len(items) /\ at = items[start]
    BY <1>4, <1>8 DEF items
  <2>2. Place(p) <= Place(at)
    <3>1. i = start \/ Place(items[i]) < Place(items[start])
      BY <1>1, <1>4, <1>8, <2>1 DEF UpTo
    <3>. QED
      BY <1>3, <1>4, <2>1, <3>1
  <2>3. p \in ToSet(seen)
    BY <2>1, <2>2
  <2>4. PICK j \in 1..Len(seen) : seen[j] = p
    BY <1>7, <2>3 DEF ToSet
  <2>5. j \in DOMAIN (seen \o page) /\ (seen \o page)[j] = p
    BY <1>6, <1>7, <2>4
  <2>. QED
    BY <2>5 DEF ToSet
<1>9. CASE ~(i <= start)
  <2>. DEFINE j == i - start
  <2>1. j \in 1..(e - start) /\ start + j = i
    BY <1>4, <1>5, <1>9
  <2>2. page[j] = p
    BY <1>3, <1>6, <2>1
  <2>3. Len(seen) + j \in DOMAIN (seen \o page) /\ (seen \o page)[Len(seen) + j] = p
    BY <1>6, <1>7, <2>1, <2>2, SMTT(60)
  <2>. QED
    BY <2>3 DEF ToSet
<1>. QED
  BY <1>8, <1>9

(* A page goes on where the last one ended.                                *)
LEMMA PageListInv ==
  ASSUME Inv, ListInv, NEW limit \in Limits, ListPage(limit)
  PROVE  ListInv'
<1>. DEFINE items == Items(Now, tombs)
            start == StartIndex(items, last)
            page == Page(items, start, limit)
            truncated == start + Len(page) < Len(items)
<1>1. /\ lpc = "page"
      /\ listed' = listed \o page
      /\ last' = (IF truncated THEN Last(page) ELSE None)
      /\ lpc' = (IF truncated THEN "page" ELSE "done")
      /\ UNCHANGED <<snapshot, tombs, begun, settled, current, journal, pc, rev>>
  BY DEF ListPage, Page, Now, vars, locals
<1>2. UpTo(items, Now, tombs, Len(Order))
  BY ItemsUpTo
<1>3. items \in Seq(Paths) /\ Len(items) \in Nat /\ \A i \in 1..Len(items) : items[i] \in Paths
  BY <1>2 DEF UpTo
<1>4. start \in 0..Len(items) /\ (start # 0 => last = items[start])
  <2>1. CASE \E k \in 1..Len(items) : items[k] = last
    <3>1. PICK k \in 1..Len(items) : items[k] = last
      BY <2>1
    <3>2. StartIndex(items, items[k]) = k
      BY StartFound
    <3>. QED
      BY <1>3, <3>1, <3>2
  <2>2. CASE ~\E k \in 1..Len(items) : items[k] = last
    <3>1. start = 0
      BY <1>3, <2>2, StartOver
    <3>. QED
      BY <1>3, <3>1
  <2>. QED
    BY <2>1, <2>2
<1>5. ASSUME NEW k \in 1..Len(items), last = items[k] PROVE start = k
  <2>1. StartIndex(items, items[k]) = k
    BY StartFound
  <2>. QED
    BY <1>5, <2>1
<1>6. last = None => start = 0
  BY <1>3, <1>4, ListingAssumption
<1>7. limit \in Nat \ {0}
  BY ListingAssumption
<1>8. \E e \in start..Len(items) : Cut(page, items, start, e)
  <2>. HIDE DEF items, start
  <2>. QED
    BY <1>3, <1>4, <1>7, PageCut
<1>9. PICK e \in start..Len(items) : Cut(page, items, start, e)
  BY <1>8
<1>10. listed \in Seq(Paths) /\ settled \in BOOLEAN
  BY DEF ListInv, ListTyped
<1>11. Now' = Now
  BY <1>1 DEF Now, SnapshotAt, Replayed, EntriesOf
<1>12. Both' = Both
  BY <1>1, <1>11 DEF Both, Shown
<1>13. \A p \in Both : (e = Len(items) \/ Place(p) <= Place(items[e])) => p \in ToSet(listed \o page)
  <2>1. \A p \in Both : p \in Paths /\ Shown(Now[p], tombs)
    BY DEF Both
  <2>2. start # 0 => last = items[start] /\ \A p \in Both : Place(p) <= Place(last) => p \in ToSet(listed)
    BY <1>1, <1>4, <1>6 DEF ListInv, PageInv
  <2>. HIDE DEF start, page
  <2>. QED
    BY <1>4, <1>9, <1>10, <2>1, <2>2, PageCovers
<1>14. Items(begun, tombs)' = Items(begun, tombs)
  BY <1>1, Zenon
<1>. DEFINE first == Items(begun, tombs)
<1>15. settled => first = items /\ listed \o page = SubSeq(items, 1, e)
  <2>. SUFFICES ASSUME settled PROVE first = items /\ listed \o page = SubSeq(items, 1, e)
    OBVIOUS
  <2>1. Now = begun
    BY <1>1 DEF ListInv, Still
  <2>2. listed = SubSeq(items, 1, start)
    <3>1. CASE last = None
      <4>1. listed = <<>> /\ start = 0
        BY <1>1, <1>6, <3>1 DEF ListInv, PageInv
      <4>. HIDE DEF items
      <4>2. SubSeq(items, 1, 0) = <<>>
        BY <1>3
      <4>. QED
        BY <4>1, <4>2
    <3>2. CASE last # None
      <4>1. PrefixTo(items)
        BY <1>1, <2>1, <3>2 DEF ListInv, PageInv
      <4>. HIDE DEF items
      <4>2. PICK k \in 1..Len(items) : last = items[k] /\ listed = SubSeq(items, 1, k)
        BY <4>1 DEF PrefixTo
      <4>3. start = k
        BY <1>5, <4>2
      <4>. QED
        BY <4>2, <4>3
    <3>. QED
      BY <3>1, <3>2
  <2>3. SubSeq(items, 1, start) \o page = SubSeq(items, 1, e)
    <3>. HIDE DEF items, start, page
    <3>. QED
      BY <1>3, <1>4, <1>9, CutJoins
  <2>. QED
    BY <2>1, <2>2, <2>3
<1>. HIDE DEF items, start, page, first
<1>16. truncated <=> e < Len(items)
  BY <1>3, <1>4, <1>9 DEF Cut
<1>17. page \in Seq(Paths) /\ listed \o page \in Seq(Paths)
  BY <1>9, <1>10 DEF Cut
<1>18. CASE truncated
  <2>1. e \in 1..Len(items) /\ last' = items[e] /\ lpc' = "page"
    BY <1>1, <1>3, <1>4, <1>9, <1>16, <1>18 DEF Cut
  <2>2. last' \in Paths /\ last' # None
    BY <1>3, <2>1, ListingAssumption
  <2>3. ListTyped'
    BY <1>1, <1>17, <2>1, <2>2 DEF ListInv, ListTyped
  <2>4. Still'
    BY <1>1, <1>11, <2>1 DEF ListInv, Still, Past, Between
  <2>5. settled => PrefixTo(first)'
    <3>1. settled => last' = first[e] /\ listed' = SubSeq(first, 1, e) /\ e \in 1..Len(first)
      BY <1>1, <1>15, <2>1
    <3>2. first' = first
      BY <1>14 DEF first
    <3>. QED
      BY <3>1, <3>2 DEF PrefixTo
  <2>6. PageInv'
    <3>1. \A p \in Both : Place(p) <= Place(items[e]) => p \in ToSet(listed \o page)
      BY <1>13
    <3>2. \A p \in Both' : Place(p) <= Place(last') => p \in ToSet(listed')
      BY <1>1, <1>12, <2>1, <3>1
    <3>. QED
      BY <1>1, <2>1, <2>2, <2>5, <3>2 DEF PageInv, first
  <2>7. DoneInv'
    BY <2>1 DEF DoneInv
  <2>. QED
    BY <2>3, <2>4, <2>6, <2>7 DEF ListInv
<1>19. CASE ~truncated
  <2>1. e = Len(items) /\ last' = None /\ lpc' = "done"
    BY <1>1, <1>3, <1>4, <1>9, <1>16, <1>19
  <2>2. ListTyped'
    BY <1>1, <1>17, <2>1 DEF ListInv, ListTyped
  <2>3. Still'
    BY <1>1, <1>11, <2>1 DEF ListInv, Still, Past, Between
  <2>4. Both' \subseteq ToSet(listed')
    BY <1>1, <1>12, <1>13, <2>1
  <2>5. SubSeq(items, 1, Len(items)) = items
    BY <1>3
  <2>6. settled' => listed' = first
    BY <1>1, <1>15, <2>1, <2>5
  <2>7. DoneInv'
    BY <1>14, <2>4, <2>6 DEF DoneInv, first
  <2>8. PageInv'
    BY <2>1 DEF PageInv
  <2>. QED
    BY <2>2, <2>3, <2>7, <2>8 DEF ListInv
<1>. QED
  BY <1>18, <1>19

(* The client's last step forgets the list.                                *)
LEMMA EndListInv ==
  ASSUME ListInv, ListEnd
  PROVE  ListInv'
<1>1. lpc' = "idle" /\ listed' = <<>> /\ last' = None /\ settled' \in BOOLEAN
  BY DEF ListInv, ListTyped, ListEnd
<1>2. ListTyped'
  BY <1>1 DEF ListTyped
<1>3. Still' /\ PageInv' /\ DoneInv'
  BY <1>1 DEF Still, PageInv, DoneInv
<1>. QED
  BY <1>2, <1>3 DEF ListInv

(* A complete list is what the property asks for.                          *)
LEMMA ListInvComplete == ListInv => ListComplete
<1>. SUFFICES ASSUME ListInv, lpc = "done" PROVE ListComplete
  BY DEF ListComplete
<1>1. Both \subseteq ToSet(listed) /\ (settled => listed = Items(begun, tombs))
  BY DEF ListInv, DoneInv
<1>2. ASSUME NEW binds, NEW p, p \in ToSet(Items(binds, tombs)) PROVE p \in Paths /\ Shown(binds[p], tombs)
  <2>1. UpTo(Items(binds, tombs), binds, tombs, Len(Order))
    BY ItemsUpTo
  <2>. DEFINE items == Items(binds, tombs)
  <2>. HIDE DEF items
  <2>2. UpTo(items, binds, tombs, Len(Order)) /\ p \in ToSet(items)
    BY <1>2, <2>1 DEF items
  <2>3. items \in Seq(Paths) /\ DOMAIN items = 1..Len(items)
    BY <2>2 DEF UpTo
  <2>4. PICK i \in 1..Len(items) : items[i] = p
    BY <2>2, <2>3 DEF ToSet
  <2>. QED
    BY <2>2, <2>3, <2>4 DEF UpTo
<1>3. ToSet(Items(begun, tombs)) \cap ToSet(Items(Now, tombs)) \subseteq Both
  BY <1>2, Zenon DEF Both
<1>4. ToSet(Items(begun, tombs)) \cap ToSet(Items(SnapshotAt(journal, snapshot), tombs)) \subseteq ToSet(listed)
  BY <1>1, <1>3, Zenon DEF Now
<1>. QED
  BY <1>1, <1>4, Zenon DEF ListComplete

(* Until two mutations overlap: the pages of a list that began between     *)
(* mutations are the bindings of that moment, in order, and one that began *)
(* within a mutation misses no path that was bound throughout.             *)
THEOREM ListCompleteHolds == ListingSpec => []ListComplete
<1>. DEFINE L == ~overlapped => ListInv
<1>1. ListingInit => Init /\ L
  <2>. SUFFICES ASSUME ListingInit PROVE Init /\ ListInv
    OBVIOUS
  <2>1. Init /\ lpc = "idle" /\ listed = <<>> /\ last = None /\ settled \in BOOLEAN
    BY DEF ListingInit
  <2>2. ListTyped
    BY <2>1 DEF ListTyped
  <2>3. Still /\ PageInv /\ DoneInv
    BY <2>1 DEF Still, PageInv, DoneInv
  <2>. QED
    BY <2>1, <2>2, <2>3 DEF ListInv
<1>2. [ListingNext]_<<vars, lvars>> => [Next]_vars
  BY DEF ListingNext, ListBegin, ListPage, ListEnd
<1>3. Inv /\ L /\ [ListingNext]_<<vars, lvars>> => L'
  <2>. SUFFICES ASSUME Inv, L, [ListingNext]_<<vars, lvars>>, ~overlapped' PROVE ListInv'
    OBVIOUS
  <2>0. ListInv
    BY <1>2, Before
  <2>1. CASE [Next]_vars /\ UNCHANGED lvars
    BY <2>0, <2>1, NextListInv
  <2>2. ASSUME NEW include \in BOOLEAN, ListBegin(include) PROVE ListInv'
    BY <2>0, <2>2, BeginListInv
  <2>3. ASSUME NEW limit \in Limits, ListPage(limit) PROVE ListInv'
    BY <2>0, <2>3, PageListInv
  <2>4. CASE ListEnd
    BY <2>0, <2>4, EndListInv
  <2>. QED
    BY <2>1, <2>2, <2>3, <2>4 DEF ListingNext
<1>4. ListingSpec => Spec
  BY <1>1, <1>2, PTL DEF ListingSpec, Spec
<1>5. L => ListComplete
  BY ListInvComplete DEF ListComplete
<1>. QED
  BY Invariant, <1>1, <1>3, <1>4, <1>5, PTL DEF ListingSpec
=============================================================================
