------------------------------ MODULE Namespace ------------------------------
(***************************************************************************)
(* One namespace of one tenant: BIND and UNBIND, and the two places reads  *)
(* are answered from (hsp-service, bind_internal and unbind_internal).     *)
(*                                                                         *)
(* A mutation touches three records of the store, each read whole and      *)
(* written whole: the revision counter, the current state (RESOLVE and the *)
(* preconditions read it) and the journal (LIST and RESOLVE at a revision  *)
(* read it).  A step is one of these accesses; a handler may die or fail   *)
(* at any of them.  Nothing in the code keeps two handlers apart, and one  *)
(* overlap is enough to set the counter back for good: what holds until    *)
(* the first one, however many handlers wait to begin or to answer, is     *)
(* stated with the history variable overlapped.                            *)
(*                                                                         *)
(* Abstracted: the signed record, metadata and record CIDs; authorization  *)
(* and idempotency (module ReplayGuard); the check that the target's       *)
(* manifest exists (module UploadCommit); the event (module EventStream).  *)
(***************************************************************************)
EXTENDS Naturals, Sequences

CONSTANTS Paths,      \* canonical paths of the namespace
          Targets,    \* object CIDs
          Workers,    \* concurrent request handlers
          None,       \* nothing stored, no if_revision
          Requests,   \* the mutations clients ask for
          MaxRev,     \* bound on the revision counter
          MaxLate,    \* the same once two mutations have overlapped
          MaxFaults   \* bound on crashes and store errors

VARIABLES
  nextRev,   \* namespace-revisions: the next revision to hand out
  current,   \* namespace-current: latest revision, binding of each path
  journal,   \* namespace-journal: every mutation
  acked,     \* mutations that were answered with success
  pc,        \* pc[w]: the next step of handler w
  job,       \* job[w]: the mutation w was asked for
  copy,      \* copy[w]: the current state as w read it
  rev,       \* rev[w]: the revision w took
  jcopy,     \* jcopy[w]: the journal as w read it
  faults,    \* crashes and store errors so far
  overlapped \* history: two mutations were at their records at once

locals == <<job, copy, rev, jcopy>>
vars == <<nextRev, current, journal, acked, pc, locals, faults, overlapped>>

Kinds == {"bind", "tombstone", "hard"}
Binding == [target : Targets \cup {None}, rev : Nat, tomb : BOOLEAN]
State == [rev : Nat, bind : [Paths -> Binding \cup {None}]]
Mutation == [path : Paths, kind : Kinds, target : Targets \cup {None},
             if_absent : BOOLEAN, if_rev : Nat \cup {None}]
Entry == [rev : Nat, path : Paths, kind : Kinds, target : Targets \cup {None}]
Acked == [path : Paths, kind : Kinds, if_rev : Nat \cup {None}, rev : Nat]

(* A BIND names a target and a precondition (precondition_required         *)
(* otherwise); an UNBIND, soft or hard, names the revision it removes.     *)
WellFormed(m) ==
  IF m.kind = "bind"
  THEN m.target # None /\ (m.if_absent \/ m.if_rev # None)
  ELSE m.target = None /\ ~m.if_absent /\ m.if_rev # None

ASSUME NamespaceAssumption ==
  /\ None \notin Nat \cup Targets \cup Binding \cup Mutation \cup State
  /\ None \notin Seq(Entry)
  /\ Requests \subseteq Mutation /\ \A m \in Requests : WellFormed(m)
  /\ MaxRev \in Nat /\ MaxLate \in Nat
  /\ MaxFaults \in Nat

Steps == {"read", "rev_read", "rev_write", "cur_write", "jrn_read", "jrn_write", "respond"}

Init ==
  /\ nextRev = 1
  /\ current = [rev |-> 0, bind |-> [p \in Paths |-> None]]
  /\ journal = <<>>
  /\ acked = {}
  /\ pc = [w \in Workers |-> "idle"]
  /\ job = [w \in Workers |-> None]
  /\ copy = [w \in Workers |-> None]
  /\ rev = [w \in Workers |-> None]
  /\ jcopy = [w \in Workers |-> None]
  /\ faults = 0
  /\ overlapped = FALSE

-----------------------------------------------------------------------------
Return(w) ==
  /\ pc' = [pc EXCEPT ![w] = "idle"]
  /\ job' = [job EXCEPT ![w] = None]
  /\ copy' = [copy EXCEPT ![w] = None]
  /\ rev' = [rev EXCEPT ![w] = None]
  /\ jcopy' = [jcopy EXCEPT ![w] = None]

Goto(w, step) == pc' = [pc EXCEPT ![w] = step]

Start(w, m) ==
  /\ pc[w] = "idle"
  /\ nextRev <= (IF overlapped THEN MaxLate ELSE MaxRev)
  /\ job' = [job EXCEPT ![w] = m]
  /\ Goto(w, "read")
  /\ UNCHANGED <<nextRev, current, journal, acked, copy, rev, jcopy, faults>>

Live(b) == b # None /\ ~b.tomb
RevisionOf(b) == IF b = None THEN 0 ELSE b.rev

(* The precondition of mutation m against the binding b of its path.       *)
Allowed(m, b) ==
  /\ m.kind # "bind" => b # None
  /\ m.if_absent => ~Live(b)
  /\ m.if_rev # None => RevisionOf(b) = m.if_rev

ReadCurrent(w) ==
  /\ pc[w] = "read"
  /\ Allowed(job[w], current.bind[job[w].path])
  /\ copy' = [copy EXCEPT ![w] = current]
  /\ Goto(w, "rev_read")
  /\ UNCHANGED <<nextRev, current, journal, acked, job, rev, jcopy, faults>>

Reject(w) ==
  /\ pc[w] = "read"
  /\ ~Allowed(job[w], current.bind[job[w].path])
  /\ Return(w)
  /\ UNCHANGED <<nextRev, current, journal, acked, faults>>

(* next_namespace_revision: read the counter, write it incremented.        *)
ReadRevision(w) ==
  /\ pc[w] = "rev_read"
  /\ rev' = [rev EXCEPT ![w] = nextRev]
  /\ Goto(w, "rev_write")
  /\ UNCHANGED <<nextRev, current, journal, acked, job, copy, jcopy, faults>>

(* Mutant: the counter is written back as it was read.                     *)
WriteRevisionStays(w) ==
  /\ pc[w] = "rev_write"
  /\ nextRev' = rev[w]
  /\ Goto(w, "cur_write")
  /\ UNCHANGED <<current, journal, acked, locals, faults>>

WriteRevision(w) ==
  /\ pc[w] = "rev_write"
  /\ nextRev' = rev[w] + 1
  /\ Goto(w, "cur_write")
  /\ UNCHANGED <<current, journal, acked, locals, faults>>

(* Mutant: the binding gets the expected revision, not the new one.        *)
NewBindingExpected(w) ==
  [target |-> job[w].target, rev |-> job[w].if_rev, tomb |-> job[w].kind # "bind"]

NewBinding(w) ==
  CASE job[w].kind = "bind" -> [target |-> job[w].target, rev |-> rev[w], tomb |-> FALSE]
    [] job[w].kind = "tombstone" -> [target |-> None, rev |-> rev[w], tomb |-> TRUE]
    [] OTHER -> None

WriteCurrent(w) ==
  /\ pc[w] = "cur_write"
  /\ current' = [rev |-> rev[w], bind |-> [copy[w].bind EXCEPT ![job[w].path] = NewBinding(w)]]
  /\ Goto(w, "jrn_read")
  /\ UNCHANGED <<nextRev, journal, acked, locals, faults>>

(* append_namespace_journal: read the journal, write it with one more      *)
(* entry.                                                                  *)
ReadJournal(w) ==
  /\ pc[w] = "jrn_read"
  /\ jcopy' = [jcopy EXCEPT ![w] = journal]
  /\ Goto(w, "jrn_write")
  /\ UNCHANGED <<nextRev, current, journal, acked, job, copy, rev, faults>>

(* Mutant: the entry carries the revision of the state that was read.      *)
NewEntryStale(w) ==
  [rev |-> copy[w].rev, path |-> job[w].path, kind |-> job[w].kind, target |-> job[w].target]

NewEntry(w) == [rev |-> rev[w], path |-> job[w].path, kind |-> job[w].kind, target |-> job[w].target]

(* Mutant: the journal is replaced by the new entry.                       *)
WriteJournalReplaces(w) ==
  /\ pc[w] = "jrn_write"
  /\ journal' = <<NewEntry(w)>>
  /\ Goto(w, "respond")
  /\ UNCHANGED <<nextRev, current, acked, locals, faults>>

WriteJournal(w) ==
  /\ pc[w] = "jrn_write"
  /\ journal' = Append(jcopy[w], NewEntry(w))
  /\ Goto(w, "respond")
  /\ UNCHANGED <<nextRev, current, acked, locals, faults>>

Receipt(w) ==
  [path |-> job[w].path, kind |-> job[w].kind, if_rev |-> job[w].if_rev, rev |-> rev[w]]

(* Event, audit and idempotency records, then the answer.                  *)
Respond(w) ==
  /\ pc[w] = "respond"
  /\ acked' = acked \cup {Receipt(w)}
  /\ Return(w)
  /\ UNCHANGED <<nextRev, current, journal, faults>>

(* The handler dies, or a store access fails and it returns the error.     *)
Fault(w) ==
  /\ pc[w] # "idle"
  /\ faults < MaxFaults
  /\ faults' = faults + 1
  /\ Return(w)
  /\ UNCHANGED <<nextRev, current, journal, acked>>

Step(w) ==
  \/ ReadCurrent(w) \/ Reject(w) \/ ReadRevision(w) \/ WriteRevision(w)
  \/ WriteCurrent(w) \/ ReadJournal(w) \/ WriteJournal(w) \/ Respond(w)

(* A handler is at the records from the read that its precondition is      *)
(* checked against to the write of the journal, and has written the        *)
(* current state and not the journal in the last part of that.             *)
Between(w) == pc[w] \in {"jrn_read", "jrn_write"}
Inside(w) == pc[w] \in {"rev_read", "rev_write", "cur_write"} \/ Between(w)

(* History.                                                                *)
Overlap ==
  overlapped' = (overlapped \/ \E v, w \in Workers : v # w /\ Inside(v)' /\ Inside(w)')

Next ==
  /\ \E w \in Workers : (\E m \in Requests : Start(w, m)) \/ Step(w) \/ Fault(w)
  /\ Overlap

Spec == Init /\ [][Next]_vars

-----------------------------------------------------------------------------
(***************************************************************************)
(* namespace_snapshot_at: the journal is replayed up to the first entry    *)
(* past the limit, and the last entry of a path decides.                   *)
(***************************************************************************)
Replayed(jrn, limit) ==
  {i \in 1..Len(jrn) : \A j \in 1..i : jrn[j].rev <= limit}

(* Mutant: a hard delete replays as a tombstone.                           *)
BindingOfSoft(e) ==
  [target |-> e.target, rev |-> e.rev, tomb |-> e.kind # "bind"]

BindingOf(e) ==
  CASE e.kind = "hard" -> None
    [] e.kind = "tombstone" -> [target |-> None, rev |-> e.rev, tomb |-> TRUE]
    [] OTHER -> [target |-> e.target, rev |-> e.rev, tomb |-> FALSE]

EntriesOf(jrn, limit, p) == {i \in Replayed(jrn, limit) : jrn[i].path = p}

LastOf(I) == CHOOSE i \in I : \A j \in I : j <= i

SnapshotAt(jrn, limit) ==
  [p \in Paths |->
     IF EntriesOf(jrn, limit, p) = {} THEN None
     ELSE BindingOf(jrn[LastOf(EntriesOf(jrn, limit, p))])]

-----------------------------------------------------------------------------
(* The values the records and the handlers hold.                           *)
TypeOK ==
  /\ nextRev \in Nat
  /\ current \in State
  /\ journal \in Seq(Entry)
  /\ acked \in SUBSET Acked
  /\ pc \in [Workers -> Steps \cup {"idle"}]
  /\ job \in [Workers -> Mutation \cup {None}]
  /\ copy \in [Workers -> State \cup {None}]
  /\ rev \in [Workers -> Nat \cup {None}]
  /\ jcopy \in [Workers -> Seq(Entry) \cup {None}]
  /\ faults \in Nat
  /\ overlapped \in BOOLEAN

Ordered ==
  /\ \A i, j \in 1..Len(journal) : i < j => journal[i].rev < journal[j].rev
  /\ \A i \in 1..Len(journal) : journal[i].rev < nextRev

(* Until two mutations overlap, journal revisions increase strictly and    *)
(* the counter is ahead of them: replaying up to a revision never stops    *)
(* before an earlier entry, and no revision is handed out twice, with      *)
(* crashes between the three writes, and mutations that begin and answer   *)
(* while another one is at the records.                                    *)
JournalOrdered == ~overlapped => Ordered

(* hsp_tz_ru.md 13.2: if_revision gives optimistic concurrency.  Of the    *)
(* mutations that expect the same revision of a path one succeeds.         *)
CasExclusive ==
  \A a, b \in acked :
    (/\ a.path = b.path /\ a.if_rev = b.if_rev
     /\ a.if_rev \notin {None, 0}) => a = b

(* What an authoritative read finds of a mutation: the journal has it, and *)
(* the current binding of the path is that mutation's or a later one's.    *)
Visible(a) ==
  /\ \E i \in 1..Len(journal) :
       /\ journal[i].rev = a.rev /\ journal[i].path = a.path
       /\ journal[i].kind = a.kind
  /\ current.bind[a.path] # None => current.bind[a.path].rev >= a.rev

(* hsp_tz_ru.md 13.2: an acknowledged mutation is visible to authoritative *)
(* reads, until two mutations overlap: also while later ones are at the    *)
(* records or died there.                                                  *)
AckedVisible == ~overlapped => \A a \in acked : Visible(a)

(* The pages of a LIST agree: the snapshot at a revision before the        *)
(* current one does not change any more, until two mutations overlap.      *)
PagesAgree ==
  [][~overlapped' => \A r \in 0..MaxRev :
       r < current.rev => SnapshotAt(journal', r) = SnapshotAt(journal, r)]_vars

(* hsp_tz_ru.md 13.2: the authoritative source is consistent.  As long as  *)
(* no handler crashed and no two mutations overlapped, LIST (from the      *)
(* journal) and RESOLVE (from the current state) show the same bindings    *)
(* whenever no handler is between the writes of the two.                   *)
ListMatchesResolve ==
  (faults = 0 /\ ~overlapped /\ \A w \in Workers : ~Between(w))
    => SnapshotAt(journal, current.rev) = current.bind
=============================================================================
