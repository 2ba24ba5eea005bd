------------------------------ MODULE MrswMap ------------------------------
(***************************************************************************)
(* The multi-reader / single-writer double-buffered map of                 *)
(* a19_concurrent/src/map/mrsw_map.rs.                                     *)
(*                                                                         *)
(* Two MapContainers (1 = map1, 2 = map2) each hold a HashMap, a reader    *)
(* count, a READER/WRITER tag and a pending event stream.  The HashMap is  *)
(* abstracted to the sequence of events applied to it: the caller's       *)
(* ApplyChanges is deterministic, so two maps with the same applied       *)
(* sequence are equal, and event k is the writer's k-th add_event.        *)
(*                                                                         *)
(* The writer thread calls add_event and commit; commit is four steps:    *)
(* swap the tags and publish current_reader, spin until the reader count  *)
(* of the published container is zero, apply its pending events one at a *)
(* time, return.  A reader's get is: load current_reader, fetch_add the   *)
(* count and look the key up (the lookup and the caller's closure run     *)
(* while the reader is "reading"), then the second fetch_add.             *)
(*                                                                         *)
(* MrswMap::new stores into current_reader the address of the local       *)
(* `reader`, which is then moved into the Arc: until the first commit the *)
(* pointer dangles.  A get through it is undefined behaviour; the model   *)
(* lets such a get read the initial (empty) content it was created with   *)
(* and its count updates land in memory that is no container.             *)
(***************************************************************************)
EXTENDS Naturals, Sequences, SequencesExt

CONSTANTS
  Readers,     \* reader threads sharing the MrswMapReader
  MaxEvents,   \* add_event calls of the writer (bounds the model)
  MaxCommits,  \* commit calls of the writer (bounds the model)
  MaxReads,    \* get calls of each reader (bounds the model)
  Dangling     \* the address of the moved-from local `reader`

Containers == {1, 2}

READER == 1
WRITER == 2

VARIABLES
  current,     \* current_reader
  state,       \* container -> READER | WRITER
  map,         \* container -> events applied to its HashMap, in order
  eventStream, \* container -> pending events (VecDeque)
  readerCount, \* container -> reader_count
  wpc,         \* writer program counter
  target,      \* commit's local `reader`: the container it publishes
  added,       \* events passed to add_event so far
  commits,     \* commits that have returned
  committed,   \* `added` when the last commit returned
  rpc,         \* reader program counter
  ptr,         \* the container pointer a reader loaded
  snapshot,    \* what the reader's lookup sees
  seenCommitted, \* `committed` when the reader loaded the pointer
  reads        \* gets each reader has completed

vars == <<current, state, map, eventStream, readerCount, wpc, target, added,
          commits, committed, rpc, ptr, snapshot, seenCommitted, reads>>

WriterVars == <<current, state, map, eventStream, wpc, target, added, commits, committed>>
ReaderVars == <<rpc, ptr, snapshot, seenCommitted, reads>>

\* Every event passed to add_event so far, in order.
History == [k \in 1..added |-> k]

Other(c) == IF c = 1 THEN 2 ELSE 1

\* if map1.state == WRITER { (map1, map2) } else { (map2, map1) }
WriterOf == IF state[1] = WRITER THEN 1 ELSE 2

-----------------------------------------------------------------------------
(* MrswMap::new with two equal (empty) maps: map1 READER, map2 WRITER.     *)
Init ==
  /\ current = Dangling
  /\ state = [c \in Containers |-> IF c = 1 THEN READER ELSE WRITER]
  /\ map = [c \in Containers |-> <<>>]
  /\ eventStream = [c \in Containers |-> <<>>]
  /\ readerCount = [c \in Containers |-> 0]
  /\ wpc = "idle"
  /\ target = 1
  /\ added = 0
  /\ commits = 0
  /\ committed = 0
  /\ rpc = [r \in Readers |-> "idle"]
  /\ ptr = [r \in Readers |-> Dangling]
  /\ snapshot = [r \in Readers |-> <<>>]
  /\ seenCommitted = [r \in Readers |-> 0]
  /\ reads = [r \in Readers |-> 0]

-----------------------------------------------------------------------------
(* Writer                                                                  *)

\* Mutant of AddEvent: the event is queued on the container it was applied to.
AddEventSameStream ==
  LET w == WriterOf
      e == added + 1
  IN /\ wpc = "idle"
     /\ added < MaxEvents
     /\ map' = [map EXCEPT ![w] = Append(@, e)]
     /\ eventStream' = [eventStream EXCEPT ![w] = Append(@, e)]
     /\ added' = e
     /\ UNCHANGED <<current, state, readerCount, wpc, target, commits, committed>>
     /\ UNCHANGED ReaderVars

\* add_event: apply to the WRITER container, queue for the other one.
AddEvent ==
  LET w == WriterOf
      e == added + 1
  IN /\ wpc = "idle"
     /\ added < MaxEvents
     /\ map' = [map EXCEPT ![w] = Append(@, e)]
     /\ eventStream' = [eventStream EXCEPT ![Other(w)] = Append(@, e)]
     /\ added' = e
     /\ UNCHANGED <<current, state, readerCount, wpc, target, commits, committed>>
     /\ UNCHANGED ReaderVars

\* commit: writer.state = READER; reader.state = WRITER;
\* current_reader.store(reader, SeqCst)
CommitPublish ==
  LET w == WriterOf
      r == Other(WriterOf)
  IN /\ wpc = "idle"
     /\ commits < MaxCommits
     /\ state' = [c \in Containers |-> IF c = w THEN READER ELSE WRITER]
     /\ current' = r
     /\ target' = r
     /\ wpc' = "wait"
     /\ UNCHANGED <<map, eventStream, readerCount, added, commits, committed>>
     /\ UNCHANGED ReaderVars

\* reader.reader_count.load() == 0: leave the spin loop.
CommitWait ==
  /\ wpc = "wait"
  /\ readerCount[target] = 0
  /\ wpc' = "apply"
  /\ UNCHANGED <<current, state, map, eventStream, readerCount, target, added, commits, committed>>
  /\ UNCHANGED ReaderVars

\* The count is not zero: thread::yield_now() and load it again.
CommitSpin ==
  /\ wpc = "wait"
  /\ readerCount[target] /= 0
  /\ UNCHANGED vars

\* Mutant of CommitApply: the event is applied but never popped.
CommitApplyNoPop ==
  /\ wpc = "apply"
  /\ eventStream[target] /= <<>>
  /\ map' = [map EXCEPT ![target] = Append(@, Head(eventStream[target]))]
  /\ UNCHANGED <<current, state, eventStream, readerCount, wpc, target, added, commits, committed>>
  /\ UNCHANGED ReaderVars

\* event_stream.pop_front() is Some(e): apply e to the published container.
CommitApply ==
  /\ wpc = "apply"
  /\ eventStream[target] /= <<>>
  /\ map' = [map EXCEPT ![target] = Append(@, Head(eventStream[target]))]
  /\ eventStream' = [eventStream EXCEPT ![target] = Tail(@)]
  /\ UNCHANGED <<current, state, readerCount, wpc, target, added, commits, committed>>
  /\ UNCHANGED ReaderVars

\* Mutant of CommitDone: commit returns without draining the event stream.
CommitDoneEarly ==
  /\ wpc = "apply"
  /\ wpc' = "idle"
  /\ commits' = commits + 1
  /\ committed' = added
  /\ UNCHANGED <<current, state, map, eventStream, readerCount, target, added>>
  /\ UNCHANGED ReaderVars

\* pop_front() is None: commit returns.
CommitDone ==
  /\ wpc = "apply"
  /\ eventStream[target] = <<>>
  /\ wpc' = "idle"
  /\ commits' = commits + 1
  /\ committed' = added
  /\ UNCHANGED <<current, state, map, eventStream, readerCount, target, added>>
  /\ UNCHANGED ReaderVars

-----------------------------------------------------------------------------
(* Reader: get(key, act)                                                   *)

\* let reader = self.current_reader.load(SeqCst)
LoadPointer(r) ==
  /\ rpc[r] = "idle"
  /\ reads[r] < MaxReads
  /\ ptr' = [ptr EXCEPT ![r] = current]
  /\ seenCommitted' = [seenCommitted EXCEPT ![r] = committed]
  /\ rpc' = [rpc EXCEPT ![r] = "loaded"]
  /\ UNCHANGED <<snapshot, reads>> /\ UNCHANGED WriterVars /\ UNCHANGED readerCount

\* (*reader).reader_count.fetch_add(1); then map.get(&key) and act(elem).
Enter(r) ==
  /\ rpc[r] = "loaded"
  /\ IF ptr[r] \in Containers
       THEN /\ readerCount' = [readerCount EXCEPT ![ptr[r]] = @ + 1]
            /\ snapshot' = [snapshot EXCEPT ![r] = map[ptr[r]]]
       ELSE /\ UNCHANGED readerCount
            /\ snapshot' = [snapshot EXCEPT ![r] = <<>>]
  /\ rpc' = [rpc EXCEPT ![r] = "reading"]
  /\ UNCHANGED <<ptr, seenCommitted, reads>> /\ UNCHANGED WriterVars

\* (*reader).reader_count.fetch_add(1) a second time; get returns.
Exit(r) ==
  /\ rpc[r] = "reading"
  /\ IF ptr[r] \in Containers
       THEN readerCount' = [readerCount EXCEPT ![ptr[r]] = @ + 1]
       ELSE UNCHANGED readerCount
  /\ reads' = [reads EXCEPT ![r] = @ + 1]
  /\ rpc' = [rpc EXCEPT ![r] = "idle"]
  /\ UNCHANGED <<ptr, snapshot, seenCommitted>> /\ UNCHANGED WriterVars

-----------------------------------------------------------------------------
Writer == AddEvent \/ CommitPublish \/ CommitWait \/ CommitSpin \/ CommitApply \/ CommitDone

Reader(r) == LoadPointer(r) \/ Enter(r) \/ Exit(r)

Next == Writer \/ \E r \in Readers : Reader(r)

(* Writer and readers are OS threads; commit's spin yields the processor. *)
Fairness == WF_vars(Writer) /\ \A r \in Readers : WF_vars(Reader(r))

Spec == Init /\ [][Next]_vars /\ Fairness

-----------------------------------------------------------------------------
\* Every get adds two to one count.
MaxCount == 2 * MaxReads * Cardinality(Readers)

TypeOK ==
  /\ current \in Containers \cup {Dangling}
  /\ state \in [Containers -> {READER, WRITER}]
  /\ map \in [Containers -> BoundedSeq(1..MaxEvents, MaxEvents)]
  /\ eventStream \in [Containers -> BoundedSeq(1..MaxEvents, MaxEvents)]
  /\ readerCount \in [Containers -> 0..MaxCount]
  /\ wpc \in {"idle", "wait", "apply"}
  /\ target \in Containers
  /\ rpc \in [Readers -> {"idle", "loaded", "reading"}]
  /\ ptr \in [Readers -> Containers \cup {Dangling}]
  /\ reads \in [Readers -> 0..MaxReads]

(* Each container has applied a prefix of the writer's events and holds   *)
(* the rest, in order, in its pending stream: add_event applies to one and *)
(* queues for the other, commit drains the stream of the one it           *)
(* publishes, whatever the interleaving of adds, commits and tag swaps.    *)
ReplicasConverge == \A c \in Containers : map[c] \o eventStream[c] = History

(* A get that starts after commit returns sees every event added before   *)
(* that commit (spec: "after commit() returns, get() reflects every event  *)
(* added via add_event() before that commit() call").                      *)
CommittedVisible ==
  \A r \in Readers : rpc[r] = "reading" => Len(snapshot[r]) >= seenCommitted[r]

(* While a get is looking a key up, nobody mutates the HashMap it reads:  *)
(* neither add_event nor commit's replay touches the container a reader   *)
(* has entered (spec: readers never observe a container mid-mutation).    *)
NoTornRead ==
  \A r \in Readers :
    rpc[r] = "reading" /\ ptr[r] \in Containers => map[ptr[r]] = snapshot[r]

(* A get only dereferences one of the map's two containers.                *)
NoDanglingDeref == \A r \in Readers : rpc[r] = "reading" => ptr[r] \in Containers

(* Every commit that starts waiting for readers eventually returns.        *)
CommitReturns == (wpc = "wait") ~> (wpc = "idle")

=============================================================================
