---------------------------- MODULE MessageFiles ----------------------------
(***************************************************************************)
(* The file collection of a19_data_persist/src/raft/mod.rs:                *)
(* load_current_files, process_files and the FileCollection methods they  *)
(* call, across restarts of the process that owns the collection.         *)
(*                                                                         *)
(* The directory outlives the process; the collection (two vectors behind *)
(* mutexes) does not.  A file name is abstracted to its prefix kind       *)
(* ("events" for <prefix>.events.<x>, "commit" for <prefix>.commit.<x>)  *)
(* and the last dot-separated component, which is the decimal text of an  *)
(* id or text that is no u32 (NoId).  Names without either prefix are        *)
(* skipped by load_current_files and left out.                            *)
(*                                                                         *)
(* MessageFileStore (crate::file) and MemoryMappedInt (mmap_buffer) are   *)
(* not in this repository.  What opening a file through them yields is    *)
(* therefore a nondeterministic outcome: "ok", "skip" (an error or value *)
(* the caller ignores) or "error" (an error the caller returns).          *)
(***************************************************************************)
EXTENDS Naturals, Sequences, SequencesExt, TLC

CONSTANTS
  Ids,         \* file ids written as the last component of a name
  NoId,        \* a last component that read_file_id cannot parse
  StartFiles   \* files that may be in the directory before the first load

Kinds == {"events", "commit"}

Names == [kind : Kinds, id : Ids \cup {NoId}]

ASSUME StartFiles \subseteq Names

Outcomes == {"ok", "skip", "error"}

VARIABLES
  dir,           \* names of the files in file_storage_directory
  messageFiles,  \* FileCollection.message_files: Seq of MessageFileInfo
  commitFiles,   \* FileCollection.commit_files: Seq of CommitFileInfo
  phase          \* "down": no collection; "loaded": load_current_files returned it

vars == <<dir, messageFiles, commitFiles, phase>>

(* read_file_id: the id in the last dot-separated component, if it parses. *)
read_file_id(name) == name.id

(* create_event_name / create_commit_name for file id 1. *)
create_event_name(id) == [kind |-> "events", id |-> id]
create_commit_name(id) == [kind |-> "commit", id |-> id]

(* Ord for MessageFileInfo compares file_id only. *)
MessageFileLess(a, b) == a.file_id < b.file_id

(* FileCollection::new *)
EmptyCollection == [message_files |-> <<>>, commit_files |-> <<>>]

(* FileCollection::add_message_file.  The first message id is read into a *)
(* copy of msg_id captured by a `move` closure, so message_id_start stays  *)
(* 0.  An "error" result of open or read is returned before the sort.      *)
add_message_file(coll, name, outcome) ==
  IF read_file_id(name) = NoId THEN [ok |-> TRUE, coll |-> coll]
  ELSE CASE outcome = "error" -> [ok |-> FALSE, coll |-> coll]
         [] outcome = "ok" ->
              [ok |-> TRUE,
               coll |-> [coll EXCEPT !.message_files =
                          SortSeq(Append(@, [name |-> name, file_id |-> read_file_id(name),
                                             message_id_start |-> 0]),
                                  MessageFileLess)]]
         [] outcome = "skip" ->
              [ok |-> TRUE,
               coll |-> [coll EXCEPT !.message_files = SortSeq(@, MessageFileLess)]]

(* FileCollection::add_commit_file: open, map, read the start time at     *)
(* offset 0; push only when it is above 0 ("ok"), in directory order.     *)
add_commit_file(coll, name, outcome) ==
  IF read_file_id(name) = NoId THEN [ok |-> TRUE, coll |-> coll]
  ELSE CASE outcome = "error" -> [ok |-> FALSE, coll |-> coll]
         [] outcome = "ok" ->
              [ok |-> TRUE,
               coll |-> [coll EXCEPT !.commit_files =
                          Append(@, [name |-> name, file_id |-> read_file_id(name)])]]
         [] outcome = "skip" -> [ok |-> TRUE, coll |-> coll]

(* The loop of load_current_files over the directory entries in `order`. *)
(* A name with the commit prefix goes to add_message_file, one with the   *)
(* events prefix to add_commit_file; the first error is returned.          *)
RECURSIVE LoadEntries(_, _, _)
LoadEntries(order, outcome, coll) ==
  IF order = <<>> THEN [ok |-> TRUE, coll |-> coll]
  ELSE LET name == Head(order)
           r == IF name.kind = "commit"
                  THEN add_message_file(coll, name, outcome[name])
                  ELSE add_commit_file(coll, name, outcome[name])
       IN IF r.ok THEN LoadEntries(Tail(order), outcome, r.coll) ELSE r

-----------------------------------------------------------------------------
Init ==
  /\ dir \in SUBSET StartFiles
  /\ messageFiles = <<>>
  /\ commitFiles = <<>>
  /\ phase = "down"

(* load_current_files: read_dir yields the entries in an order the file   *)
(* system chooses; Err from any add is returned and no collection exists. *)
load_current_files ==
  /\ phase = "down"
  /\ \E order \in SetToSeqs(dir), outcome \in [dir -> Outcomes] :
       LET r == LoadEntries(order, outcome, EmptyCollection)
       IN /\ phase' = IF r.ok THEN "loaded" ELSE "down"
          /\ messageFiles' = r.coll.message_files
          /\ commitFiles' = r.coll.commit_files
  /\ UNCHANGED dir

(* process_files with both lists empty: MessageFileStore::new creates the *)
(* message file under the events name for id 1, MemoryMappedInt::new the *)
(* commit file under the commit name; both infos are pushed.  An error of *)
(* either constructor is returned (the caller unwraps it and dies); the   *)
(* message file may already exist by then.                                 *)
process_files ==
  LET events == create_event_name(1)
      commit == create_commit_name(1)
  IN /\ phase = "loaded"
     /\ messageFiles = <<>> /\ commitFiles = <<>>
     /\ \/ /\ dir' = dir \cup {events, commit}
           /\ messageFiles' = <<[name |-> events, file_id |-> 1, message_id_start |-> 0]>>
           /\ commitFiles' = <<[name |-> commit, file_id |-> 1]>>
           /\ UNCHANGED phase
        \/ /\ dir' \in {dir \cup {events}, dir}
           /\ phase' = "down"
           /\ messageFiles' = <<>> /\ commitFiles' = <<>>

(* process_files with a list that is not empty: nothing to create. *)
ProcessFilesExisting ==
  /\ phase = "loaded"
  /\ messageFiles /= <<>> \/ commitFiles /= <<>>
  /\ UNCHANGED vars

(* The owning process stops: the collection is gone, the files remain. *)
Restart ==
  /\ phase = "loaded"
  /\ phase' = "down"
  /\ messageFiles' = <<>> /\ commitFiles' = <<>>
  /\ UNCHANGED dir

Next == load_current_files \/ process_files \/ ProcessFilesExisting \/ Restart

Spec == Init /\ [][Next]_vars

-----------------------------------------------------------------------------
TypeOK ==
  /\ dir \subseteq Names
  /\ phase \in {"down", "loaded"}

=============================================================================
