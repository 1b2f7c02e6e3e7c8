------------------------------- MODULE Listing -------------------------------
(***************************************************************************)
(* A client that lists a namespace page by page (hsp-service, list) while  *)
(* module Namespace mutates it.  The first page reads the revision of the  *)
(* current state and then the journal; the cursor it returns carries that  *)
(* revision and the last path, and each further page replays the journal   *)
(* up to that revision and goes on behind that path.                       *)
(*                                                                         *)
(* The client repeats its request with every cursor.  Abstracted: prefixes *)
(* and the encoding of the cursor.                                         *)
(***************************************************************************)
EXTENDS Namespace, SequencesExt

CONSTANTS Order,  \* the paths in the order of their bytes
          Limits  \* page sizes a client asks for

ASSUME ListingAssumption ==
  /\ Order \in Seq(Paths) /\ ToSet(Order) = Paths /\ IsInjective(Order)
  /\ Limits \subseteq Nat \ {0}
  /\ None \notin Paths

VARIABLES
  lpc,       \* "idle", "page" while pages are outstanding, "done"
  snapshot,  \* the cursor's snapshot_revision
  last,      \* the cursor's last_path, None for the first page
  tombs,     \* include_tombstones
  listed,    \* the paths of all pages so far
  begun,     \* the bindings at the snapshot's revision when the list began
  settled    \* no mutation was between its two writes then

lvars == <<lpc, snapshot, last, tombs, listed, begun, settled>>

ListingInit ==
  /\ Init
  /\ lpc = "idle" /\ snapshot = None /\ last = None /\ tombs = FALSE
  /\ listed = <<>> /\ begun = None /\ settled = FALSE

ListBegin(include) ==
  /\ lpc = "idle"
  /\ lpc' = "page" /\ snapshot' = current.rev /\ tombs' = include
  /\ begun' = SnapshotAt(journal, current.rev)
  /\ settled' = \A w \in Workers : ~Between(w)
  /\ UNCHANGED <<last, listed, vars>>

Shown(binding, include) == binding # None /\ (include \/ ~binding.tomb)

Items(binds, include) ==
  FoldLeft(LAMBDA items, p : IF Shown(binds[p], include) THEN Append(items, p) ELSE items,
           <<>>, Order)

(* Mutant: an item between two pages is passed over.                       *)
StartIndexSkips(items, path) ==
  LET i == SelectInSeq(items, LAMBDA p : p = path) IN IF i = 0 THEN 0 ELSE i + 1

(* How many items the earlier pages held: none if the path is not listed.  *)
StartIndex(items, path) == SelectInSeq(items, LAMBDA p : p = path)

ListPage(limit) ==
  LET items == Items(SnapshotAt(journal, snapshot), tombs)
      start == StartIndex(items, last)
      page == SubSeq(items, start + 1, Min({start + limit, Len(items)}))
      truncated == start + Len(page) < Len(items)
  IN /\ lpc = "page"
     /\ listed' = listed \o page
     /\ last' = IF truncated THEN Last(page) ELSE None
     /\ lpc' = IF truncated THEN "page" ELSE "done"
     /\ UNCHANGED <<snapshot, tombs, begun, settled, vars>>

(* The client has its list; it may begin another one.                      *)
ListEnd ==
  /\ lpc = "done"
  /\ lpc' = "idle" /\ snapshot' = None /\ tombs' = FALSE /\ listed' = <<>>
  /\ begun' = None /\ settled' = FALSE
  /\ UNCHANGED <<last, vars>>

ListingNext ==
  \/ Next /\ UNCHANGED lvars
  \/ \E include \in BOOLEAN : ListBegin(include)
  \/ \E limit \in Limits : ListPage(limit)
  \/ ListEnd

ListingSpec == ListingInit /\ [][ListingNext]_<<vars, lvars>>

-----------------------------------------------------------------------------
(* A list that began between mutations returns the bindings of that moment *)
(* in order, each once, whatever is bound and unbound before its last page *)
(* and whatever the page sizes; one that began within a mutation may       *)
(* repeat a path, but misses none that was bound throughout (list,         *)
(* namespace_snapshot_at).  Until two mutations overlap.                   *)
ListComplete ==
  lpc = "done" /\ ~overlapped =>
    /\ settled => listed = Items(begun, tombs)
    /\ LET now == Items(SnapshotAt(journal, snapshot), tombs)
       IN ToSet(Items(begun, tombs)) \cap ToSet(now) \subseteq ToSet(listed)
=============================================================================
