-------------------------- MODULE BufferedStorage ---------------------------
(***************************************************************************)
(* helpers/TinyDBBufferedStorage.py: a TinyDB storage that keeps the data  *)
(* of a database file in memory and writes it from a thread of its own, in *)
(* the background.  Each table of the file has a lock of its own           *)
(* (TinyDBBinding.py): a thread that writes to a table holds it.  The      *)
(* identifiers file has three tables; closeDB() holds the lock of one of   *)
(* them, so that the others may be written while the file is closed, and   *)
(* afterwards.  The file writer takes no lock of a table.                  *)
(*                                                                         *)
(* The data is the number of changes it contains: all tables of the file   *)
(* are parts of one object, which is changed in place.                     *)
(***************************************************************************)
EXTENDS Naturals

CONSTANTS
  Table,     \* the tables of the file
  Locked,    \* the table whose lock closeDB() holds
  MaxWrite,  \* bound on the number of write() calls
  Overlap    \* the values of overlap

StorageAssumption == Locked \in Table /\ MaxWrite \in Nat /\ Overlap \subseteq BOOLEAN

VARIABLES
  data,          \* _data
  file,          \* what the database file contains
  changed,       \* _changed
  writeEvent,    \* _writeEvent
  running,       \* _running
  shuttingDown,  \* _shutting_down
  dumped,        \* the data that super().write is writing
  writing,       \* where the thread with the lock of a table is in write()
  client,        \* where close() is
  writer,        \* where the file writer is
  due,           \* history: the data that was announced by changed before close() left its loop
  overlap        \* whether write() is called while the file is written; never changes

flags == <<changed, writeEvent, running, shuttingDown>>
storage == <<data, file, flags, dumped, writing, client, writer, due>>
vars == <<storage, overlap>>

Count == 0..MaxWrite

TypeOK ==
  /\ data \in Count /\ file \in Count /\ dumped \in Count /\ due \in Count
  /\ changed \in BOOLEAN /\ writeEvent \in BOOLEAN
  /\ running \in BOOLEAN /\ shuttingDown \in BOOLEAN
  /\ writing \in [Table -> {"idle", "setChanged", "setEvent"}]
  /\ client \in {"open", "waitChange", "stopRunning", "sendEvent", "waitLoop", "closed"}
  /\ writer \in {"start", "loop", "wait", "delay", "reset", "dump", "write", "clear", "ended"}

Init ==
  /\ data = 0 /\ file = 0 /\ dumped = 0 /\ due = 0
  /\ changed = FALSE /\ writeEvent = FALSE /\ running = TRUE /\ shuttingDown = FALSE
  /\ writing = [t \in Table |-> "idle"] /\ client = "open" /\ writer = "start"
  /\ overlap \in Overlap
-----------------------------------------------------------------------------
Writing(t, from, to) == writing[t] = from /\ writing' = [writing EXCEPT ![t] = to]

\* The file is being written, or its writer has not come to wait for an event.
Busy == writer \in {"start", "reset", "dump", "write", "clear"}

\* A table is changed, and the change announced. Nobody prevents it when the file is closed.
write(t) ==
  \/ /\ Writing(t, "idle", "setChanged")
     /\ t = Locked => client \in {"open", "closed"}
     /\ data < MaxWrite
     /\ overlap \/ ~Busy
     /\ data' = data + 1
     /\ UNCHANGED <<file, flags, dumped, client, writer, due>>
  \/ /\ Writing(t, "setChanged", "setEvent")
     /\ changed' = TRUE
     /\ due' = IF client \in {"open", "waitChange"} THEN data ELSE due
     /\ UNCHANGED <<data, file, writeEvent, running, shuttingDown, dumped, client, writer>>
  \/ /\ Writing(t, "setEvent", "idle")
     /\ writeEvent' = TRUE
     /\ UNCHANGED <<data, file, changed, running, shuttingDown, dumped, client, writer, due>>

Client(from, to) == client = from /\ client' = to

close ==
  /\ Client("open", "waitChange")
  /\ writing[Locked] = "idle"
  /\ shuttingDown' = TRUE
  /\ UNCHANGED <<data, file, changed, writeEvent, running, dumped, writing, writer, due>>

\* Mutant: close() does not wait for the last change.
closeStepHasty ==
  \/ /\ Client("waitChange", "stopRunning")
     /\ UNCHANGED <<data, file, flags, dumped, writing, writer, due>>
  \/ /\ Client("stopRunning", "sendEvent")
     /\ running' = FALSE
     /\ UNCHANGED <<data, file, changed, writeEvent, shuttingDown, dumped, writing, writer, due>>
  \/ /\ Client("sendEvent", "waitLoop")
     /\ writeEvent' = TRUE
     /\ UNCHANGED <<data, file, changed, running, shuttingDown, dumped, writing, writer, due>>
  \/ /\ Client("waitLoop", "closed")
     /\ writer \in {"start", "ended"}
     /\ UNCHANGED <<data, file, flags, dumped, writing, writer, due>>

\* The lock the last part waits for is held by the file writer from its start
\* to its end.
closeStep ==
  \/ /\ Client("waitChange", "stopRunning")
     /\ ~changed
     /\ UNCHANGED <<data, file, flags, dumped, writing, writer, due>>
  \/ /\ Client("stopRunning", "sendEvent")
     /\ running' = FALSE
     /\ UNCHANGED <<data, file, changed, writeEvent, shuttingDown, dumped, writing, writer, due>>
  \/ /\ Client("sendEvent", "waitLoop")
     /\ writeEvent' = TRUE
     /\ UNCHANGED <<data, file, changed, running, shuttingDown, dumped, writing, writer, due>>
  \/ /\ Client("waitLoop", "closed")
     /\ writer \in {"start", "ended"}
     /\ UNCHANGED <<data, file, flags, dumped, writing, writer, due>>
-----------------------------------------------------------------------------
Writer(from, to) == writer = from /\ writer' = to /\ UNCHANGED <<writing, client, due>>

\* _shutdownLock is not free any more once close() has it.
_fileWriterStart ==
  /\ client # "closed"
  /\ Writer("start", "loop")
  /\ writeEvent' = FALSE
  /\ UNCHANGED <<data, file, changed, running, shuttingDown, dumped>>

_fileWriterLoop ==
  /\ Writer("loop", IF running THEN "wait" ELSE "ended")
  /\ UNCHANGED <<data, file, flags, dumped>>

_fileWriterWait ==
  /\ writeEvent
  /\ Writer("wait", IF changed THEN "delay" ELSE "loop")
  /\ UNCHANGED <<data, file, flags, dumped>>

\* The write delay is over, or cut short by close().
_fileWriterDelay ==
  /\ overlap \/ \A t \in Table : writing[t] = "idle"
  /\ Writer("delay", "reset")
  /\ UNCHANGED <<data, file, flags, dumped>>

_fileWriterReset ==
  /\ Writer("reset", "dump")
  /\ changed' = FALSE
  /\ UNCHANGED <<data, file, writeEvent, running, shuttingDown, dumped>>

\* super().write: the data is serialised, and then written.
_fileWriterWrite ==
  \/ /\ Writer("dump", "write")
     /\ dumped' = data
     /\ UNCHANGED <<data, file, flags>>
  \/ /\ Writer("write", "clear")
     /\ file' = dumped
     /\ UNCHANGED <<data, flags, dumped>>

\* Mutant: the writer leaves its loop when it should only wait again.
_fileWriterClearEnd ==
  /\ Writer("clear", IF shuttingDown THEN "loop" ELSE "ended")
  /\ writeEvent' = FALSE
  /\ UNCHANGED <<data, file, changed, running, shuttingDown, dumped>>

_fileWriterClear ==
  /\ Writer("clear", "loop")
  /\ writeEvent' = FALSE
  /\ UNCHANGED <<data, file, changed, running, shuttingDown, dumped>>

_fileWriter ==
  \/ _fileWriterStart \/ _fileWriterLoop \/ _fileWriterWait \/ _fileWriterDelay
  \/ _fileWriterReset \/ _fileWriterWrite \/ _fileWriterClear
-----------------------------------------------------------------------------
Next == ((\E t \in Table : write(t)) \/ close \/ closeStep \/ _fileWriter) /\ UNCHANGED overlap

Spec == Init /\ [][Next]_vars

\* The threads run; what was begun by write() or close() goes on.
FairSpec ==
  /\ Spec
  /\ WF_storage(_fileWriter)
  /\ WF_storage(closeStep)
  /\ \A t \in Table : WF_storage(writing[t] # "idle" /\ write(t))
-----------------------------------------------------------------------------
\* When close() returns, the file contains every change that was announced before close() left its loop, of
\* whatever table; and as long as the file is open, every change of a write() that has got that far is
\* announced. A file with one table loses nothing: closeDB() holds its lock, so that no write() is under way.
\* In the identifiers file a write() to another table that announces its change later may be lost.
CloseSavesAll ==
  /\ client = "closed" => file >= due
  /\ client = "open" /\ (\A t \in Table : writing[t] # "setChanged") => due = data

\* The file never goes back to an older state of the database.
FileAdvances == [][file' >= file]_vars

\* A change that was announced before close() gave up waiting gets to the file, unless a write() met the file
\* writer at work.
EventuallyWritten == \A n \in 1..MaxWrite : (due = n /\ ~overlap) ~> file >= n

\* close() returns.
CloseEnds == client = "waitChange" ~> client = "closed"
=============================================================================
