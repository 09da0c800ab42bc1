------------------------------ MODULE FrameLog ------------------------------
(***************************************************************************)
(* The packet log (transport/framelog.py): captures record lines on the    *)
(* event loop, which must not block, into one bounded queue that drops its *)
(* oldest item when it is full; a daemon thread takes whole batches of it, *)
(* checks the directory of a new capture and writes the lines.  flush()    *)
(* looks at the queue's count of unfinished tasks.                         *)
(*                                                                         *)
(* The two threads interleave at every call on the queue and at every file *)
(* operation.  Text and file modes are left out: a line is its capture and *)
(* its number, a file the lines appended to it.                            *)
(***************************************************************************)
EXTENDS Integers, SequencesExt

CONSTANTS
    Captures,   \* the FrameLog objects
    PathOf,     \* the file each of them writes
    QueueMax,   \* QUEUE_MAX
    MaxLines,   \* bound: lines a capture records
    MaxDeaths   \* bound: times the writer thread dies

ASSUME FrameLogAssumption ==
    /\ QueueMax \in Nat \ {0} /\ MaxLines \in Nat /\ MaxDeaths \in Nat
    /\ DOMAIN PathOf = Captures /\ "none" \notin Captures

VARIABLES
    queue,      \* _QUEUE
    unfinished, \* its unfinished_tasks
    putting,    \* the item _enqueue has in hand, None between calls
    full,       \* it found the queue full: "no", "full", "dropped" (task_done to come)
    enabled,    \* _enabled of each capture
    recorded,   \* lines each capture recorded, -1 before it is built
    writer,     \* the thread: "none", "get", "more", "check" and write, "dead"
    batch,      \* what it took and has not called task_done for
    todo,       \* ... and has not looked at
    grouped,    \* the lines of the batch to write, by path
    file,       \* the lines in each file
    deaths,
    checked,    \* history: the captures whose check passed
    lost        \* history: the items that reach no file, by one of the steps named below

loopVars == <<putting, full, recorded>>
threadVars == <<batch, todo, grouped, file, deaths>>
vars == <<queue, unfinished, enabled, writer, loopVars, threadVars, checked, lost>>

Paths == Range(PathOf)
None == [capture |-> "none", line |-> 0]
\* Line 0 asks for the check of the capture's directory.
Item(c, n) == [capture |-> c, line |-> n]
Nothing == [p \in Paths |-> <<>>]

Init ==
    /\ queue = <<>> /\ unfinished = 0 /\ putting = None /\ full = "no"
    /\ enabled = [c \in Captures |-> TRUE] /\ recorded = [c \in Captures |-> -1]
    /\ writer = "none" /\ batch = <<>> /\ todo = <<>> /\ grouped = Nothing /\ file = Nothing /\ deaths = 0
    /\ checked = {} /\ lost = {}

-----------------------------------------------------------------------------
(* The event loop.                                                         *)

Alive == writer \notin {"none", "dead"}
EnsureWriter == writer' = IF Alive THEN writer ELSE "get"

\* FrameLog(): the check of its directory is queued, not run.
Build(c) ==
    /\ putting = None /\ recorded[c] = -1
    /\ putting' = Item(c, 0) /\ recorded' = [recorded EXCEPT ![c] = 0]
    /\ EnsureWriter
    /\ UNCHANGED <<queue, unfinished, full, enabled, threadVars, checked, lost>>

Record(c) ==
    /\ putting = None /\ recorded[c] \in 0 .. MaxLines - 1 /\ enabled[c]
    /\ recorded' = [recorded EXCEPT ![c] = @ + 1] /\ putting' = Item(c, recorded[c] + 1)
    /\ EnsureWriter
    /\ UNCHANGED <<queue, unfinished, full, enabled, threadVars, checked, lost>>

\* put_nowait
Put ==
    /\ putting # None /\ full = "no"
    /\ IF Len(queue) < QueueMax
       THEN /\ queue' = Append(queue, putting) /\ unfinished' = unfinished + 1
            /\ putting' = None /\ UNCHANGED full
       ELSE full' = "full" /\ UNCHANGED <<queue, unfinished, putting>>
    /\ UNCHANGED <<enabled, recorded, writer, threadVars, checked, lost>>

\* get_nowait of the oldest; the writer may have emptied the queue meanwhile.
DropOldest ==
    /\ full = "full"
    /\ IF queue = <<>> THEN full' = "no" /\ UNCHANGED <<queue, lost>>
       ELSE full' = "dropped" /\ queue' = Tail(queue) /\ lost' = lost \cup {Head(queue)}
    /\ UNCHANGED <<unfinished, enabled, putting, recorded, writer, threadVars, checked>>

\* Fault: the dropped item stays counted.
DroppedForgotten ==
    /\ full = "dropped" /\ full' = "no"
    /\ UNCHANGED <<queue, unfinished, enabled, putting, recorded, writer, threadVars, checked, lost>>

\* task_done for the item dropped.
Dropped ==
    /\ full = "dropped" /\ full' = "no" /\ unfinished' = unfinished - 1
    /\ UNCHANGED <<queue, enabled, putting, recorded, writer, threadVars, checked, lost>>

-----------------------------------------------------------------------------
(* The writer thread.                                                      *)

\* Fault: the batch is reported done as it is taken.
TakeAsDone ==
    /\ writer \in {"get", "more"} /\ queue # <<>>
    /\ batch' = Append(batch, Head(queue)) /\ queue' = Tail(queue) /\ writer' = "more"
    /\ unfinished' = unfinished - 1
    /\ UNCHANGED <<enabled, loopVars, todo, grouped, file, deaths, checked, lost>>

\* get() of the first item, then get_nowait() as long as there is one.
Take ==
    /\ writer \in {"get", "more"} /\ queue # <<>>
    /\ batch' = Append(batch, Head(queue)) /\ queue' = Tail(queue) /\ writer' = "more"
    /\ UNCHANGED <<unfinished, enabled, loopVars, todo, grouped, file, deaths, checked, lost>>

TakeEnds ==
    /\ writer = "more" /\ queue = <<>>
    /\ writer' = "check" /\ todo' = batch
    /\ UNCHANGED <<queue, unfinished, enabled, loopVars, batch, grouped, file, deaths, checked, lost>>

\* _validate_dir: what the file system answers of the directory.
Validations == BOOLEAN

\* _check_dir: the directory is usable, or the capture is disabled.
CheckDir ==
    /\ writer = "check" /\ todo # <<>> /\ Head(todo).line = 0
    /\ \E ok \in Validations :
          /\ enabled' = [enabled EXCEPT ![Head(todo).capture] = ok]
          /\ checked' = IF ok THEN checked \cup {Head(todo).capture} ELSE checked
    /\ todo' = Tail(todo)
    /\ UNCHANGED <<queue, unfinished, writer, loopVars, batch, grouped, file, deaths, lost>>

\* Fault: a line is written whatever its capture's check said.
KeepsLine(c) == TRUE
\* A line of a disabled capture is left out.
Kept(c) == enabled[c]

Group ==
    /\ writer = "check" /\ todo # <<>> /\ Head(todo).line > 0
    /\ IF Kept(Head(todo).capture)
       THEN /\ grouped' = [grouped EXCEPT ![PathOf[Head(todo).capture]] = Append(@, Head(todo))]
            /\ UNCHANGED lost
       ELSE lost' = lost \cup {Head(todo)} /\ UNCHANGED grouped
    /\ todo' = Tail(todo)
    /\ UNCHANGED <<queue, unfinished, enabled, writer, loopVars, batch, file, deaths, checked>>

\* _write_batch: the lines are appended; an error loses them all, or those past a full disk.
WriteFile(p) ==
    /\ writer = "check" /\ todo = <<>> /\ grouped[p] # <<>>
    /\ \E n \in 0 .. Len(grouped[p]) :
          /\ file' = [file EXCEPT ![p] = @ \o SubSeq(grouped[p], 1, n)]
          /\ lost' = lost \cup {grouped[p][i] : i \in n + 1 .. Len(grouped[p])}
    /\ grouped' = [grouped EXCEPT ![p] = <<>>]
    /\ UNCHANGED <<queue, unfinished, enabled, writer, loopVars, batch, todo, deaths, checked>>

BatchDone(next) ==
    /\ unfinished' = unfinished - Len(batch)
    /\ batch' = <<>> /\ todo' = <<>> /\ grouped' = Nothing /\ writer' = next
    /\ UNCHANGED <<queue, enabled, loopVars, file, checked>>

Processed ==
    /\ writer = "check" /\ todo = <<>> /\ grouped = Nothing
    /\ BatchDone("get") /\ UNCHANGED <<deaths, lost>>

\* What none of its handlers catches ends the thread; the finally still counts the batch.
WriterDies ==
    /\ writer = "check" /\ deaths < MaxDeaths
    /\ BatchDone("dead") /\ deaths' = deaths + 1
    /\ lost' = lost \cup Range(todo) \cup UNION {Range(grouped[p]) : p \in Paths}

EventLoop == (\E c \in Captures : Build(c) \/ Record(c)) \/ Put \/ DropOldest \/ Dropped
WriterThread ==
    Take \/ TakeEnds \/ CheckDir \/ Group \/ (\E p \in Paths : WriteFile(p)) \/ Processed

Next == EventLoop \/ WriterThread \/ WriterDies

\* Neither thread stops in the middle of a call.
Fairness == WF_vars(Put \/ DropOldest \/ Dropped) /\ WF_vars(WriterThread)

Spec == Init /\ [][Next]_vars /\ Fairness

-----------------------------------------------------------------------------
\* When flush() says the log is drained (unfinished_tasks is 0), nothing waits in the queue, the
\* writer holds nothing, and every line recorded is in its file, unless a record() on another thread
\* has it in hand or it was lost in one of four ways, none of which flush() tells of: it was the
\* oldest of a full queue, its capture was disabled when the writer came to it, its write failed,
\* or the writer died with it.
FlushMeansDone ==
    unfinished = 0 =>
        /\ queue = <<>> /\ batch = <<>>
        /\ \A c \in Captures : \A n \in 1 .. recorded[c] :
              Item(c, n) \in Range(file[PathOf[c]]) \cup lost \cup {putting}

\* A capture's lines stand in its file in the order they were recorded and none of them twice,
\* whatever the overflow drops, a dying writer loses or another capture appends in between; and
\* they stand there only when the check of the directory passed or was itself lost: the lines
\* recorded before a check that fails are dropped (_process_batch).
FilesInOrder ==
    \A p \in Paths : \A i, j \in DOMAIN file[p] :
        /\ file[p][i].capture \in checked \/ Item(file[p][i].capture, 0) \in lost
        /\ i < j /\ file[p][i].capture = file[p][j].capture => file[p][i].line < file[p][j].line

\* Once nothing is recorded any more, flush() comes to return True, or the writer is dead: every
\* item is counted done once, dropped or not, so that the count comes back to 0.
CountReturns ==
    <>[](unfinished = 0 \/ ~Alive)
=============================================================================
