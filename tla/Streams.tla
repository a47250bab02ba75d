-------------------------------- MODULE Streams --------------------------------
(***************************************************************************)
(* The log of one task and the panel that follows it: the bounded log in   *)
(* memory (LineLog, src/infra/develop-core.ts), the log file behind its    *)
(* queues (src/infra/task-log-store.ts, src/agent/task-supervisor.ts), the *)
(* history route and the event stream (src/workflow/task-api.ts), and the  *)
(* client that loads the first and goes on with the second                 *)
(* (src/client/dev-stream.ts).                                             *)
(*                                                                         *)
(* A line is its sequence number.  Each append is scheduled behind those   *)
(* of its task, and enters the queue of the file only when the one before  *)
(* it has ended; a read of the file enters that queue at once.             *)
(***************************************************************************)
EXTENDS Integers, Sequences, FiniteSets, FiniteSetsExt, Functions, NoValue

CONSTANTS
    LogLines,       \* TASK_LOG_LINES
    MaxLines,       \* bound: lines of the task
    MaxOpens,       \* bound: times the view opens the task
    MaxFaults       \* bound: lost answers and connections, failed appends, restarts

ASSUME LogAssumption ==
    /\ LogLines \in Nat \ {0} /\ MaxLines \in Nat \ {0}
    /\ None \notin Nat \cup {"done"}

VARIABLES
    task,       \* the live task: lines so far, closed, kept in liveTasks, final line
    scheduled,  \* appends that wait for the append before them
    queue,      \* the queue of the log file
    disk,       \* the lines in the log file
    lostLines,  \* lines whose append failed, or that a restart left unwritten
    conn,       \* the cursor of the open response of /stream, or None
    wire,       \* what that response sent and the client did not yet receive
    fetches,    \* requests of /history
    view,       \* the development view
    faults

svars == <<task, scheduled, queue, disk, lostLines, conn, wire, fetches, view, faults>>

Line(k)         == [kind |-> "line", id |-> k]
Done            == [kind |-> "done", id |-> 0]
HistoryRequired == [kind |-> "history required", id |-> 0]

Lines == 1..MaxLines

StreamsTypeOK ==
    /\ task \in [lines : Lines, closed : BOOLEAN, kept : BOOLEAN, final : Lines \cup {None}]
    /\ Range(scheduled) \subseteq Lines /\ disk \subseteq Lines /\ lostLines \subseteq Lines
    /\ conn \in (0..task.lines) \cup {None}
    /\ \A f \in fetches : /\ f.use \in {"open", "check"}
                          /\ f.step \in {"asked", "reading", "answered", "lost"}
    /\ view.phase \in {"idle", "history", "connecting", "streaming", "retrying", "ended"}
    /\ view.source \in {"none", "connecting", "open", "refused"}

StreamsInit ==
    /\ task = [lines |-> 1, closed |-> FALSE, kept |-> TRUE, final |-> None]
    /\ scheduled = <<1>>
    /\ queue = <<[op |-> "create"]>>
    /\ disk = {} /\ lostLines = {}
    /\ conn = None /\ wire = <<>> /\ fetches = {}
    /\ view = [phase |-> "idle", opens |-> 0, shown |-> <<>>, fence |-> 0, lastId |-> 0,
               source |-> "none", checking |-> FALSE, end |-> None, excused |-> {}]
    /\ faults = 0

Fault == faults < MaxFaults /\ faults' = faults + 1

(***************************************************************************)
(* The log in memory, and what a response sends from its cursor on.        *)
(***************************************************************************)
Oldest(total) == Max({1, total - LogLines + 1})

Truncated(cursor, total) == cursor < Oldest(total) - 1

EntriesAfter(cursor, total) ==
    LET first == Max({cursor + 1, Oldest(total)})
    IN  [i \in 1..(total - first + 1) |-> Line(first + i - 1)]

Flushed(cursor, total, closed) ==
    IF Truncated(cursor, total)
    THEN [sent |-> <<HistoryRequired>>, conn |-> None]
    ELSE [sent |-> EntriesAfter(cursor, total) \o IF closed THEN <<Done>> ELSE <<>>,
          conn |-> IF closed THEN None ELSE total]

Notified(total, closed) ==
    IF conn = None THEN UNCHANGED <<conn, wire>>
    ELSE LET r == Flushed(conn, total, closed)
         IN  conn' = r.conn /\ wire' = wire \o r.sent

(***************************************************************************)
(* The task: a line, the last line, and one more when its end failed.      *)
(***************************************************************************)
Writing == \E i \in DOMAIN queue : queue[i].op \in {"create", "append"}

Persisted(k) ==
    IF Writing THEN scheduled' = Append(scheduled, k) /\ UNCHANGED queue
               ELSE queue' = Append(queue, [op |-> "append", line |-> k]) /\ UNCHANGED scheduled

Pushed(k, closes) ==
    /\ task.kept /\ k <= MaxLines
    /\ task' = [task EXCEPT !.lines = k, !.closed = @ \/ closes,
                            !.final = IF closes THEN k ELSE @]
    /\ Persisted(k)
    /\ UNCHANGED <<disk, lostLines, fetches, view, faults>>

PushTaskLine ==
    /\ ~task.closed /\ task.lines + 1 < MaxLines
    /\ Pushed(task.lines + 1, FALSE) /\ Notified(task.lines + 1, FALSE)

\* The last line first, then the flag: a response sends that line before "done".
FinishTask ==
    /\ ~task.closed
    /\ Pushed(task.lines + 1, TRUE) /\ Notified(task.lines + 1, TRUE)

\* The note that the settlement failed comes after the end of the task.
SettleFails ==
    /\ task.closed /\ task.lines = task.final
    /\ Pushed(task.lines + 1, FALSE) /\ Notified(task.lines + 1, TRUE)

\* Five minutes after the end, or when the map is full.
ForgetTask ==
    /\ task.closed /\ task.kept
    /\ task' = [task EXCEPT !.kept = FALSE]
    /\ UNCHANGED <<scheduled, queue, disk, lostLines, conn, wire, fetches, view, faults>>

(***************************************************************************)
(* The queue of the file runs one operation at a time.  When an append has *)
(* ended the next one of the task enters, behind whatever waits already.   *)
(***************************************************************************)
WriteEnds ==
    /\ queue # <<>> /\ Head(queue).op \in {"create", "append"}
    /\ \/ /\ disk' = disk \cup IF Head(queue).op = "append" THEN {Head(queue).line} ELSE {}
          /\ UNCHANGED <<lostLines, faults>>
       \/ /\ Head(queue).op = "append" /\ Fault
          /\ lostLines' = lostLines \cup {Head(queue).line} /\ UNCHANGED disk
    /\ IF scheduled = <<>> THEN queue' = Tail(queue) /\ UNCHANGED scheduled
       ELSE /\ queue' = Append(Tail(queue), [op |-> "append", line |-> Head(scheduled)])
            /\ scheduled' = Tail(scheduled)
    /\ UNCHANGED <<task, conn, wire, fetches, view>>

Replaced(f, g) == fetches' = (fetches \ {f}) \cup {g}

\* The lines in the file, sorted by their numbers: there is one such sequence.
InOrder(lines) ==
    {events \in [1..Cardinality(lines) -> lines] :
        /\ Range(events) = lines
        /\ \A i \in 1..(Cardinality(lines) - 1) : events[i] < events[i + 1]}

HistoryAnswers(f) ==
    {[f EXCEPT !.step = "answered", !.events = events, !.active = f.live /\ ~task.closed] :
        events \in InOrder(disk)}

ReadEndsThenCursor ==
    /\ queue # <<>> /\ Head(queue).op = "read"
    /\ LET f == Head(queue).fetch
       IN  \E g \in HistoryAnswers(f) :
               Replaced(f, [g EXCEPT !.cursor = IF f.live THEN task.lines ELSE 0])
    /\ queue' = Tail(queue)
    /\ UNCHANGED <<task, scheduled, disk, lostLines, conn, wire, view, faults>>

ReadEnds ==
    /\ queue # <<>> /\ Head(queue).op = "read"
    /\ \E g \in HistoryAnswers(Head(queue).fetch) : Replaced(Head(queue).fetch, g)
    /\ queue' = Tail(queue)
    /\ UNCHANGED <<task, scheduled, disk, lostLines, conn, wire, view, faults>>

(***************************************************************************)
(* The history route: the cursor of the live log, and the read behind it   *)
(* in the queue, in one step.                                              *)
(***************************************************************************)
HistoryRequest(use, open) ==
    [use |-> use, open |-> open, step |-> "asked", live |-> FALSE, cursor |-> 0,
     events |-> <<>>, active |-> FALSE, excused |-> {}]

FenceOf(f) ==
    [f EXCEPT !.step = "reading", !.live = task.kept,
              !.cursor = IF task.kept THEN task.lines ELSE 0,
              !.excused = Range(scheduled)]

GetTaskHistory ==
    \E f \in fetches :
        /\ f.step = "asked"
        /\ Replaced(f, FenceOf(f))
        /\ queue' = Append(queue, [op |-> "read", fetch |-> FenceOf(f)])
        /\ UNCHANGED <<task, scheduled, disk, lostLines, conn, wire, view, faults>>

(***************************************************************************)
(* The view.  Each opening has a number; what belongs to an earlier one is *)
(* dropped.                                                                *)
(***************************************************************************)
Opened ==
    /\ view.opens < MaxOpens
    /\ view' = [view EXCEPT !.phase = "history", !.opens = @ + 1, !.shown = <<>>,
                            !.fence = 0, !.lastId = 0, !.source = "none",
                            !.end = None, !.excused = {}]
    /\ fetches' = fetches \cup {HistoryRequest("open", view.opens + 1)}
    /\ conn' = None /\ wire' = <<>>

\* By the user, when the task or its stage changes, or 1.5 s after a failed load.
OpenStream == Opened /\ UNCHANGED <<task, scheduled, queue, disk, lostLines, faults>>

\* A request or its answer is lost.
FetchLost ==
    \E f \in fetches :
        /\ f.step # "reading"
        /\ IF f.step = "lost" THEN UNCHANGED faults ELSE Fault
        /\ fetches' = fetches \ {f}
        /\ view' = IF f.use = "check" THEN [view EXCEPT !.checking = FALSE]
                   ELSE IF f.open = view.opens THEN [view EXCEPT !.phase = "retrying"]
                   ELSE view
        /\ UNCHANGED <<task, scheduled, queue, disk, lostLines, conn, wire>>

Ended(v, end) == [v EXCEPT !.phase = "ended", !.source = "none", !.end = end]

HistoryShown(f) ==
    LET v == [view EXCEPT !.shown = f.events, !.fence = f.cursor,
                          !.excused = f.excused \cup lostLines]
    IN  IF f.active THEN [v EXCEPT !.phase = "connecting", !.source = "connecting"]
                    ELSE Ended(v, "history")

HistoryArrives ==
    \E f \in fetches :
        /\ f.step = "answered" /\ f.use = "open"
        /\ fetches' = fetches \ {f}
        /\ view' = IF f.open = view.opens THEN HistoryShown(f) ELSE view
        /\ UNCHANGED <<task, scheduled, queue, disk, lostLines, conn, wire, faults>>

\* EventSource hides the status: a task that is over ends the stream.
CheckArrives ==
    \E f \in fetches :
        /\ f.step = "answered" /\ f.use = "check"
        /\ fetches' = fetches \ {f}
        /\ LET v == [view EXCEPT !.checking = FALSE]
               over == f.open = view.opens /\ ~f.active
           IN  /\ view' = IF over THEN Ended(v, "checked") ELSE v
               /\ IF over THEN conn' = None /\ wire' = <<>> ELSE UNCHANGED <<conn, wire>>
        /\ UNCHANGED <<task, scheduled, queue, disk, lostLines, faults>>

OnError(source) ==
    IF view.checking
    THEN view' = [view EXCEPT !.source = source] /\ UNCHANGED fetches
    ELSE /\ view' = [view EXCEPT !.source = source, !.phase = "retrying", !.checking = TRUE]
         /\ fetches' = fetches \cup {HistoryRequest("check", view.opens)}

\* The first connection, and each that EventSource repeats by itself.
Cursor == Max({view.fence, view.lastId})

HandleStream ==
    /\ view.source = "connecting"
    /\ IF task.kept
       THEN LET r == Flushed(Cursor, task.lines, task.closed)
            IN  /\ conn' = r.conn /\ wire' = r.sent
                /\ view' = [view EXCEPT !.source = "open", !.phase = "streaming"]
                /\ UNCHANGED fetches
       ELSE OnError("refused") /\ UNCHANGED <<conn, wire>>
    /\ UNCHANGED <<task, scheduled, queue, disk, lostLines, faults>>

ConnectionLost ==
    /\ view.source = "open"
    /\ IF conn = None /\ wire = <<>> THEN UNCHANGED faults ELSE Fault
    /\ conn' = None /\ wire' = <<>>
    /\ OnError("connecting")
    /\ UNCHANGED <<task, scheduled, queue, disk, lostLines>>

OnMessage ==
    /\ view.source = "open" /\ wire # <<>>
    /\ CASE Head(wire).kind = "line" ->
              /\ view' = [view EXCEPT !.shown = Append(@, Head(wire).id),
                                      !.lastId = Head(wire).id]
              /\ wire' = Tail(wire) /\ UNCHANGED <<conn, fetches>>
         [] Head(wire).kind = "done" ->
              /\ view' = Ended(view, "done")
              /\ conn' = None /\ wire' = <<>> /\ UNCHANGED fetches
         [] Head(wire).kind = "history required" -> Opened
    /\ UNCHANGED <<task, scheduled, queue, disk, lostLines, faults>>

\* The log in memory and whatever was not yet written are gone with the host.
HostRestarts ==
    /\ task.kept /\ Fault
    /\ task' = [task EXCEPT !.kept = FALSE, !.closed = TRUE]
    /\ lostLines' = Lines \ disk
    /\ scheduled' = <<>> /\ queue' = <<>> /\ conn' = None /\ wire' = <<>>
    /\ fetches' = {[f EXCEPT !.step = IF @ = "answered" THEN @ ELSE "lost"] : f \in fetches}
    /\ UNCHANGED <<disk, view>>

StreamsNext ==
    \/ PushTaskLine \/ FinishTask \/ SettleFails \/ ForgetTask
    \/ WriteEnds \/ ReadEnds \/ GetTaskHistory
    \/ OpenStream \/ FetchLost \/ HistoryArrives \/ CheckArrives
    \/ HandleStream \/ ConnectionLost \/ OnMessage
    \/ HostRestarts

StreamsSpec == StreamsInit /\ [][StreamsNext]_svars

-----------------------------------------------------------------------------
(***************************************************************************)
(* Properties.                                                             *)
(***************************************************************************)

\* No line is shown twice or out of order, whatever was reloaded, reconnected or
\* replayed from a cursor (getTaskHistory, handleStream, openStream).
ShownInOrder ==
    \A i \in 1..(Len(view.shown) - 1) : view.shown[i] < view.shown[i + 1]

\* After the cursor of the history no line is skipped: a reader that fell behind
\* the bounded log is sent back to the history (readDetailed, __historyRequired).
StreamedWithoutGap ==
    view.fence > 0 =>
        \A k \in Range(view.shown) : (view.fence + 1)..k \subseteq Range(view.shown)

\* Before the cursor, only lines can miss whose append was still scheduled behind
\* another one when the history was asked, or was lost.
OnlyBacklogMissing ==
    (1..view.fence) \ Range(view.shown) \subseteq view.excused

\* "done" comes after the last line of the task (finishTask, flush).
DoneAfterFinalLine ==
    view.end = "done" /\ view.fence < task.final => task.final \in Range(view.shown)

\* src/workflow/task-api.ts:91 calls the history complete up to the exact cursor
\* where the stream goes on.
HistoryComplete ==
    view.fence > 0 => 1..view.fence \subseteq Range(view.shown) \cup lostLines

\* What the view shows is a piece of the log: in order, without a gap of the stream's
\* own making, and up to the last line when it says that the task is over.
StreamIsTrue ==
    /\ StreamsTypeOK /\ ShownInOrder /\ StreamedWithoutGap
    /\ OnlyBacklogMissing /\ DoneAfterFinalLine
=============================================================================
