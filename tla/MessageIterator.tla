--------------------------- MODULE MessageIterator ---------------------------
(***************************************************************************)
(* MessageIterator of a19_data_persist/src/raft/mod.rs: new (with         *)
(* find_starting_file) and next, over the message_files vector of a       *)
(* FileCollection.                                                         *)
(*                                                                         *)
(* Files is that vector: MessageFileInfo records sorted by file_id, as     *)
(* add_message_file and process_files leave it.  Contents[id] is the       *)
(* sequence of message ids written in the file of that id by the message  *)
(* store (crate::file, not in this repository); a reader's position is an *)
(* index into it, and read_new past the last message is Err(NoMessage).   *)
(* One caller creates an iterator and then calls next; each call is one   *)
(* step.                                                                   *)
(***************************************************************************)
EXTENDS Integers, Sequences, SequencesExt

CONSTANTS
  Files,         \* message_files: Seq of [file_id, message_id_start]
  Contents,      \* file_id -> Seq of the message ids in that file
  Numbers,       \* `number` arguments of new
  StartIds,      \* `start_message_id` arguments of new
  MaxCommitIds   \* `max_commit_id` arguments of new

VARIABLES
  it,       \* the iterator: [file_id, pos, number, start, max_commit]; NoIterator before new
  out,      \* message ids next has returned as NextResult::Some, in order
  result    \* the last outcome: "none", "some", "more", "end", "nextFile", "error", "panic"

vars == <<it, out, result>>

(* No iterator yet: file ids start at 1. *)
NoIterator == [file_id |-> 0, pos |-> 0, number |-> 0, start |-> 0, max_commit |-> 0]

(* find_starting_file: the last file, in vector order, before the first   *)
(* whose message_id_start exceeds the target; index 0 when there is none, *)
(* and get(0).unwrap() panics on an empty vector (0 here).                *)
find_starting_file(start) ==
  LET RECURSIVE Scan(_, _)
      Scan(x, last) ==
        IF x > Len(Files) \/ Files[x].message_id_start > start THEN last
        ELSE Scan(x + 1, x)
  IN IF Files = <<>> THEN 0 ELSE Scan(1, 1)

(* The loop of new: from position 1, skip messages whose id is below the  *)
(* start; past the end read_new's Err(NoMessage) is returned by `?` (0).  *)
RECURSIVE SkipTo(_, _, _)
SkipTo(msgs, pos, start) ==
  IF pos > Len(msgs) THEN 0
  ELSE IF msgs[pos] >= start THEN pos
  ELSE SkipTo(msgs, pos + 1, start)

(* The backwards scan of next on Err(NoMessage): for m in 0..len,         *)
(* i = m - length with length = len - 1, both usize.  A negative i is the *)
(* subtraction overflowing: a panic in a debug build, and in a release     *)
(* build a wrapped index whose get(i).unwrap() panics.  Returns "panic",   *)
(* "found" (the next file id is listed) or "notFound".                     *)
NextFileScan(current) ==
  LET length == Len(Files) - 1
      RECURSIVE Loop(_)
      Loop(m) ==
        IF m >= Len(Files) THEN "notFound"
        ELSE LET i == m - length
             IN IF i < 0 THEN "panic"
                ELSE IF Files[i + 1].file_id = current + 1 THEN "found"
                ELSE IF Files[i + 1].file_id = current THEN "notFound"
                ELSE Loop(m + 1)
  IN IF length < 0 THEN "panic" ELSE Loop(0)

-----------------------------------------------------------------------------
Init ==
  /\ it = NoIterator
  /\ out = <<>>
  /\ result = "none"

(* MessageIterator::new: open the starting file read-only and skip to the *)
(* first message at or after start_message_id.                            *)
New(number, start, maxCommit) ==
  LET x == find_starting_file(start)
      file == Files[x]
      pos == SkipTo(Contents[file.file_id], 1, start)
  IN /\ it = NoIterator /\ result = "none"
     /\ CASE x = 0   -> result' = "panic" /\ UNCHANGED it
          [] pos = 0 -> result' = "error" /\ UNCHANGED it
          [] OTHER   -> /\ it' = [file_id |-> file.file_id, pos |-> pos, number |-> number,
                                  start |-> start, max_commit |-> maxCommit]
                        /\ result' = "none"
     /\ UNCHANGED out

MayNext == it /= NoIterator /\ result \notin {"panic", "error"}

(* next with number = 0: NextResult::More. *)
NextMore ==
  /\ MayNext
  /\ it.number = 0
  /\ result' = "more"
  /\ UNCHANGED <<it, out>>

(* next reads the message at pos: Some while its id is committed, else End. *)
NextRead ==
  LET msgs == Contents[it.file_id]
  IN /\ MayNext
     /\ it.number /= 0
     /\ it.pos <= Len(msgs)
     /\ IF msgs[it.pos] <= it.max_commit
          THEN /\ it' = [it EXCEPT !.pos = @ + 1, !.number = @ - 1]
               /\ out' = Append(out, msgs[it.pos])
               /\ result' = "some"
          ELSE /\ result' = "end"
               /\ UNCHANGED <<it, out>>

(* next past the last message of the current file: scan message_files.   *)
NextNoMessage ==
  LET scan == NextFileScan(it.file_id)
  IN /\ MayNext
     /\ it.number /= 0
     /\ it.pos > Len(Contents[it.file_id])
     /\ result' = CASE scan = "panic" -> "panic"
                    [] scan = "found" -> "nextFile"
                    [] OTHER          -> "end"
     /\ UNCHANGED <<it, out>>

Next ==
  \/ \E n \in Numbers, s \in StartIds, c \in MaxCommitIds : New(n, s, c)
  \/ NextMore \/ NextRead \/ NextNoMessage

Spec == Init /\ [][Next]_vars

-----------------------------------------------------------------------------
(* The log the files hold, in file order. *)
Log == FlattenSeq([k \in 1..Len(Files) |-> Contents[Files[k].file_id]])

(* The messages an iterator from start up to max_commit should return. *)
Expected(start, maxCommit) == SelectSeq(Log, LAMBDA id : start <= id /\ id <= maxCommit)

(* The iterator reads the committed log from start_message_id on (the     *)
(* doc comments of new: "The starting message id", "The maximum id that   *)
(* has been commited"): what next has returned is a prefix of the log's   *)
(* messages from the start to the commit point, and next never panics.    *)
(* Broken when find_starting_file, given the message_id_start of 0 that   *)
(* add_message_file records, opens the last file instead of the one that  *)
(* holds the start, and by the index underflow of the scan in next.       *)
IteratorReadsLog ==
  /\ it /= NoIterator => IsPrefix(out, Expected(it.start, it.max_commit))
  /\ result /= "panic"

=============================================================================
