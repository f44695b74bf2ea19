------------------------------ MODULE StateDir ------------------------------
(***************************************************************************)
(* The state directory of src/src/store/state_dir.rs and the process that  *)
(* writes it.  A command of the program decides what to write from what it *)
(* has read and then performs one file operation after the other; todo is  *)
(* what it has still to perform.  fs::write truncates the file and then    *)
(* fills it, so a process that stops in between leaves it torn.  A line is *)
(* appended in one step.                                                   *)
(***************************************************************************)
EXTENDS Naturals, Sequences, FiniteSets

CONSTANT Torn   \* the content of a file truncated and not yet filled

VARIABLES
  disk,   \* a function from the paths of the files there are to their contents
  todo    \* the file operations the running command has still to perform

Write(path, content)   == [op |-> "write", path |-> path, content |-> content]
AppendLine(path, line) == [op |-> "append", path |-> path, content |-> line]
RemoveFile(path)       == [op |-> "remove", path |-> path]
MakeDir(path)          == [op |-> "mkdir", path |-> path]

Exists(path)   == path \in DOMAIN disk
Readable(path) == Exists(path) /\ disk[path] # Torn
Clear(path)    == IF Exists(path) THEN <<RemoveFile(path)>> ELSE <<>>

Put(path, content) ==
  disk' = [q \in DOMAIN disk \cup {path} |-> IF q = path THEN content ELSE disk[q]]

Pending(op) == todo # <<>> /\ Head(todo).op = op

Truncate ==
  /\ Pending("write")
  /\ Put(Head(todo).path, Torn)
  /\ todo' = [todo EXCEPT ![1].op = "fill"]

Fill ==
  /\ Pending("fill")
  /\ Put(Head(todo).path, Head(todo).content)
  /\ todo' = Tail(todo)

AppendToFile ==
  /\ Pending("append")
  /\ LET path == Head(todo).path
     IN Put(path, IF Exists(path) THEN Append(disk[path], Head(todo).content)
                  ELSE <<Head(todo).content>>)
  /\ todo' = Tail(todo)

Remove ==
  /\ Pending("remove")
  /\ disk' = [q \in DOMAIN disk \ {Head(todo).path} |-> disk[q]]
  /\ todo' = Tail(todo)

MakeDirectory ==
  /\ Pending("mkdir")
  /\ Put(Head(todo).path, "directory")
  /\ todo' = Tail(todo)

FileStep == Truncate \/ Fill \/ AppendToFile \/ Remove \/ MakeDirectory
=============================================================================
