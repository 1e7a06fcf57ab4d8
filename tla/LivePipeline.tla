---------------------------- MODULE LivePipeline ----------------------------
(***************************************************************************)
(* The path of a live frame through the backend: the reader's callback     *)
(* creates an asyncio task per frame (main.py), the task broadcasts the    *)
(* frame to the WebSocket clients (ws/manager.py) and only then hands it   *)
(* to the LiveRecorder (recording/live_recorder.py), while clients come    *)
(* and go and the API starts and stops recordings.                         *)
(*                                                                         *)
(* The event loop is explicit: one task runs at a time, until it ends or a *)
(* send suspends it, and tasks are resumed in the order they became ready. *)
(* Whether a client is sent a message (subscription, rate limit) and       *)
(* whether a send suspends or fails is nondeterministic.  A recording is   *)
(* known by its number, which stands for its file name: names are taken to *)
(* be distinct.  Connections have fresh ids.  The dict of clients is the   *)
(* table of entries that CPython keeps for it, since what an iteration     *)
(* does when the dict has changed meanwhile depends on where in it the     *)
(* iterator is.                                                            *)
(***************************************************************************)
EXTENDS Integers, Sequences, SequencesExt, Selection

CONSTANTS
    Clients,       \* ids of WebSocket connections
    MaxFrames,     \* bound: frames the reader delivers
    MaxRecordings, \* bound: recordings started
    MaxLap,        \* bound: laps driven
    Idle,          \* no task is running
    Gone           \* what is left of an entry that was removed from the dict

ASSUME PipelineAssumption ==
    /\ MaxFrames \in Nat /\ MaxRecordings \in Nat /\ MaxLap \in Nat \ {0}
    /\ Idle \notin 1..MaxFrames /\ Gone \notin Clients

Frames == 1..MaxFrames
Recordings == 1..MaxRecordings
Open == -1
NoLap == 0

VARIABLES
    table,      \* the manager's dict: its entries in insertion order
    joined,     \* history: connections there have been
    failed,     \* history: connections a send to which has raised
    ready, running, task,  \* the event loop and the frame tasks
    lap,        \* the lap the car is on
    active,     \* _active of the recorder
    current,    \* the number of the latest recording
    lists,      \* the frame list each recording was given
    markers, curLap, \* _lap_markers and _current_lap_num
    saving,     \* recordings whose file a worker thread is to write
    disk,       \* the files
    atStop      \* history: the frames a recording had when it was stopped

loopVars == <<table, joined, failed, ready, running, task>>
recorderVars == <<active, current, lists, markers, curLap, saving, disk, atStop>>
vars == <<loopVars, lap, recorderVars>>

(* Of a task that iterates over the dict: the size it had, how many clients *)
(* are due, the entries passed; and, a history, the clients there were.    *)
NoTask == [pc |-> "none", lap |-> NoLap, left |-> 0, size |-> 0, due |-> 0,
           pos |-> 0, began |-> {}, dead |-> {}, to |-> Idle]
NoFile == [frames |-> <<>>, laps |-> <<>>]

Init ==
    /\ table = <<>> /\ joined = {} /\ failed = {}
    /\ ready = <<>> /\ running = Idle /\ task = [f \in Frames |-> NoTask]
    /\ lap = 1
    /\ active = FALSE /\ current = 0
    /\ lists = [r \in Recordings |-> <<>>]
    /\ markers = <<>> /\ curLap = NoLap
    /\ saving = {} /\ disk = [r \in Recordings |-> NoFile]
    /\ atStop = [r \in Recordings |-> <<>>]

-----------------------------------------------------------------------------
(* The reader's callback: _schedule_broadcast.                             *)

Polled == {f \in Frames : task[f].pc # "none"}

Poll ==
    /\ running = Idle
    /\ \E f \in Frames \ Polled, l \in {lap, lap + 1}, names \in BOOLEAN :
        /\ \A g \in Frames \ Polled : f <= g
        /\ l <= MaxLap /\ lap' = l
        /\ task' = [task EXCEPT ![f] =
                        [NoTask EXCEPT !.pc = "between",
                                       !.lap = IF names THEN l ELSE NoLap,
                                       !.left = IF names THEN 3 ELSE 2]]
        /\ ready' = Append(ready, f)
    /\ UNCHANGED <<table, joined, failed, running, recorderVars>>

-----------------------------------------------------------------------------
(* WebSocket clients: connect() and disconnect() run between the tasks'    *)
(* steps, whatever broadcast is suspended.                                 *)

clients == Keep(table, Clients)

Erased(S) == [i \in DOMAIN table |-> IF table[i] \in S THEN Gone ELSE table[i]]

(* A table that is full is packed first; when it is, is left open.         *)
Connect(c) ==
    /\ running = Idle /\ c \notin joined
    /\ \E entries \in {table, clients} : table' = Append(entries, c)
    /\ joined' = joined \cup {c}
    /\ UNCHANGED <<failed, ready, running, task, lap, recorderVars>>

Disconnect(c) ==
    /\ running = Idle /\ c \in ToSet(clients)
    /\ table' = Erased({c})
    /\ UNCHANGED <<joined, failed, ready, running, task, lap, recorderVars>>

-----------------------------------------------------------------------------
(* The frame tasks.                                                        *)

Resume ==
    /\ running = Idle /\ ready # <<>>
    /\ running' = Head(ready) /\ ready' = Tail(ready)
    /\ UNCHANGED <<table, joined, failed, task, lap, recorderVars>>

Becomes(t, new) == task' = [task EXCEPT ![t] = new]

(* The task enters broadcast(): with no client it returns at once, else it *)
(* starts to iterate over the dict.                                        *)
BeginBroadcast(t) ==
    /\ running = t /\ task[t].pc = "between" /\ task[t].left > 0
    /\ Becomes(t, IF clients = <<>> THEN [task[t] EXCEPT !.left = @ - 1]
                  ELSE [task[t] EXCEPT !.pc = "iterating", !.size = Len(clients),
                                       !.due = Len(clients), !.pos = 0,
                                       !.began = ToSet(clients), !.dead = {}])
    /\ UNCHANGED <<table, joined, failed, ready, running, lap, recorderVars>>

(* The entries the iterator has yet to pass.                               *)
Ahead(t) == {i \in DOMAIN table : i > task[t].pos /\ table[i] # Gone}

(* "dictionary changed size during iteration", or, when as many came as    *)
(* went, "dictionary keys changed during iteration": a RuntimeError, which *)
(* nothing catches, so the task ends before the recorder is called.        *)
IterationBroken(t) ==
    /\ running = t /\ task[t].pc = "iterating"
    /\ Len(clients) # task[t].size \/ (Ahead(t) # {} /\ task[t].due = 0)
    /\ Becomes(t, [NoTask EXCEPT !.pc = "raised"])
    /\ running' = Idle
    /\ UNCHANGED <<table, joined, failed, ready, lap, recorderVars>>

(* The iterator finds its next client, at entry i.                         *)
Finds(t, i) ==
    /\ running = t /\ task[t].pc = "iterating"
    /\ Len(clients) = task[t].size /\ task[t].due > 0
    /\ i \in Ahead(t) /\ \A j \in Ahead(t) : i <= j

Went(t, i) == [task[t] EXCEPT !.pos = i, !.due = @ - 1]

Visit_LimitedIsDead(t) ==  \* mutant: a client that is not due is taken for dead
    /\ \E i \in DOMAIN table : Finds(t, i) /\
          \/ /\ Becomes(t, [Went(t, i) EXCEPT !.dead = @ \cup {table[i]}])
             /\ UNCHANGED <<failed, running>>
          \/ /\ Becomes(t, [Went(t, i) EXCEPT !.pc = "sending", !.to = table[i]])
             /\ running' = Idle /\ failed' = failed
    /\ UNCHANGED <<table, joined, ready, lap, recorderVars>>

(* The next client: nothing is due or the send completes; or it raises and *)
(* the client is noted as dead; or it suspends the task.                   *)
Visit(t) ==
    /\ \E i \in DOMAIN table : Finds(t, i) /\
          \/ Becomes(t, Went(t, i)) /\ UNCHANGED <<failed, running>>
          \/ /\ Becomes(t, [Went(t, i) EXCEPT !.dead = @ \cup {table[i]}])
             /\ failed' = failed \cup {table[i]} /\ running' = running
          \/ /\ Becomes(t, [Went(t, i) EXCEPT !.pc = "sending", !.to = table[i]])
             /\ running' = Idle /\ failed' = failed
    /\ UNCHANGED <<table, joined, ready, lap, recorderVars>>

SendEnds_Retries(t) ==  \* mutant: a client the send to which failed is sent it again
    /\ running = Idle /\ task[t].pc = "sending"
    /\ ready' = Append(ready, t)
    /\ \/ Becomes(t, [task[t] EXCEPT !.pc = "iterating"]) /\ failed' = failed
       \/ /\ Becomes(t, [task[t] EXCEPT !.pc = "iterating", !.pos = @ - 1, !.due = @ + 1])
          /\ failed' = failed \cup {task[t].to}
    /\ UNCHANGED <<table, joined, running, lap, recorderVars>>

SendEnds(t) ==
    /\ running = Idle /\ task[t].pc = "sending"
    /\ ready' = Append(ready, t)
    /\ \/ Becomes(t, [task[t] EXCEPT !.pc = "iterating"]) /\ failed' = failed
       \/ /\ Becomes(t, [task[t] EXCEPT !.pc = "iterating", !.dead = @ \cup {task[t].to}])
          /\ failed' = failed \cup {task[t].to}
    /\ UNCHANGED <<table, joined, running, lap, recorderVars>>

EndBroadcast(t) ==
    /\ running = t /\ task[t].pc = "iterating" /\ Len(clients) = task[t].size
    /\ Ahead(t) = {}
    /\ table' = Erased(task[t].dead)
    /\ Becomes(t, [task[t] EXCEPT !.pc = "between", !.left = @ - 1, !.size = 0,
                                  !.due = 0, !.pos = 0, !.began = {}, !.dead = {}])
    /\ UNCHANGED <<joined, failed, ready, running, lap, recorderVars>>

-----------------------------------------------------------------------------
(* LiveRecorder.                                                           *)

Index == Len(lists[current])

(* _lap_markers with the last one closed at frame end, if it is open.      *)
Closed(end) ==
    IF markers = <<>> THEN <<>> ELSE [markers EXCEPT ![Len(markers)].end = end]

OnFrame_Inactive(f, l) ==  \* mutant: _active is not looked at
    IF current = 0
    THEN UNCHANGED <<lists, markers, curLap>>
    ELSE /\ markers' = IF l # NoLap /\ l # curLap
                       THEN Append(Closed(Index - 1),
                                   [lap |-> l, start |-> Index, end |-> Open])
                       ELSE markers
         /\ curLap' = IF l # NoLap THEN l ELSE curLap
         /\ lists' = [lists EXCEPT ![current] = Append(@, f)]

OnFrame_FromPrevious(f, l) ==  \* mutant: a lap starts at the frame before
    IF ~active
    THEN UNCHANGED <<lists, markers, curLap>>
    ELSE /\ markers' = IF l # NoLap /\ l # curLap
                       THEN Append(Closed(Index - 1),
                                   [lap |-> l, start |-> Index - 1, end |-> Open])
                       ELSE markers
         /\ curLap' = IF l # NoLap THEN l ELSE curLap
         /\ lists' = [lists EXCEPT ![current] = Append(@, f)]

(* on_frame: f is the frame, l the lap its lap_info names.                 *)
OnFrame(f, l) ==
    IF ~active
    THEN UNCHANGED <<lists, markers, curLap>>
    ELSE /\ markers' = IF l # NoLap /\ l # curLap
                       THEN Append(Closed(Index - 1),
                                   [lap |-> l, start |-> Index, end |-> Open])
                       ELSE markers
         /\ curLap' = IF l # NoLap THEN l ELSE curLap
         /\ lists' = [lists EXCEPT ![current] = Append(@, f)]

(* The last step of a frame task.                                          *)
Record(t) ==
    /\ running = t /\ task[t].pc = "between" /\ task[t].left = 0
    /\ OnFrame(t, task[t].lap)
    /\ Becomes(t, [NoTask EXCEPT !.pc = "done"])
    /\ running' = Idle
    /\ UNCHANGED <<table, joined, failed, ready, lap, active, current, saving,
                   disk, atStop>>

(* start() under the lock; an active recording refuses it.                 *)
Start ==
    /\ running = Idle /\ ~active /\ current < MaxRecordings
    /\ active' = TRUE /\ current' = current + 1
    /\ lists' = [lists EXCEPT ![current + 1] = <<>>]
    /\ markers' = <<>> /\ curLap' = NoLap
    /\ UNCHANGED <<loopVars, lap, saving, disk, atStop>>

Stop_NotFinal ==  \* mutant: the last lap is left open
    /\ running = Idle /\ active
    /\ active' = FALSE
    /\ saving' = saving \cup {[rec |-> current, laps |-> markers]}
    /\ atStop' = [atStop EXCEPT ![current] = lists[current]]
    /\ UNCHANGED <<loopVars, lap, current, lists, markers, curLap, disk>>

(* stop() up to the end of the lock: the last lap is closed and the frame  *)
(* list, still the recorder's own, is handed to a worker thread.           *)
Stop ==
    /\ running = Idle /\ active
    /\ active' = FALSE
    /\ markers' = IF markers # <<>> /\ Last(markers).end = Open
                  THEN Closed(IF Index = 0 THEN 0 ELSE Index - 1)
                  ELSE markers
    /\ saving' = saving \cup {[rec |-> current, laps |-> markers']}
    /\ atStop' = [atStop EXCEPT ![current] = lists[current]]
    /\ UNCHANGED <<loopVars, lap, current, lists, curLap, disk>>

(* _write_tmu in the worker thread reads the list when it gets to it.      *)
Save ==
    \E s \in saving :
        /\ disk' = [disk EXCEPT ![s.rec] = [frames |-> lists[s.rec], laps |-> s.laps]]
        /\ saving' = saving \ {s}
        /\ UNCHANGED <<loopVars, lap, active, current, lists, markers, curLap,
                       atStop>>

-----------------------------------------------------------------------------
Step(t) ==
    \/ BeginBroadcast(t) \/ IterationBroken(t) \/ Visit(t) \/ EndBroadcast(t)
    \/ Record(t)

Next ==
    \/ Poll
    \/ \E c \in Clients : Connect(c) \/ Disconnect(c)
    \/ Resume
    \/ \E t \in Frames :
        \/ BeginBroadcast(t) \/ IterationBroken(t) \/ Visit(t) \/ SendEnds(t)
        \/ EndBroadcast(t) \/ Record(t)
    \/ Start \/ Stop \/ Save

(* The loop runs what is ready, a suspended send completes or fails, and   *)
(* a worker thread gets to run.  Nothing makes anyone connect or record.   *)
Spec ==
    /\ Init /\ [][Next]_vars
    /\ WF_vars(Resume) /\ WF_vars(Save)
    /\ \A t \in Frames : WF_vars(Step(t)) /\ WF_vars(SendEnds(t))

-----------------------------------------------------------------------------
(* Properties.                                                             *)

TaskRecord == [pc: {"none", "between", "iterating", "sending", "done", "raised"},
               lap: 0..MaxLap, left: 0..3, size: Nat, due: Nat, pos: Nat,
               began: SUBSET Clients, dead: SUBSET Clients, to: Clients \cup {Idle}]
Marker == [lap: 1..MaxLap, start: Nat, end: Nat \cup {Open}]
File == [frames: Seq(Frames), laps: Seq(Marker)]

TypeOK ==
    /\ table \in Seq(Clients \cup {Gone}) /\ joined \subseteq Clients /\ failed \subseteq Clients
    /\ ready \in Seq(Frames) /\ running \in Frames \cup {Idle}
    /\ task \in [Frames -> TaskRecord]
    /\ active \in BOOLEAN /\ current \in 0..MaxRecordings
    /\ markers \in Seq(Marker) /\ curLap \in 0..MaxLap /\ lap \in 1..MaxLap
    /\ saving \subseteq [rec: Recordings, laps: Seq(Marker)]
    /\ disk \in [Recordings -> File]
    /\ {lists, atStop} \subseteq [Recordings -> Seq(Frames)]

(* A saved file is cut by its markers into consecutive, non-empty laps up  *)
(* to its last frame.                                                      *)
SavedLapsContiguous ==
    \A r \in Recordings :
        LET laps == disk[r].laps IN
        \A i \in DOMAIN laps :
            /\ laps[i].start <= laps[i].end
            /\ laps[i].end = (IF i < Len(laps) THEN laps[i + 1].start
                              ELSE Len(disk[r].frames)) - 1

(* What the worker thread writes outside the lock is what had been         *)
(* recorded when stop() was called, whatever arrives or starts meanwhile.  *)
SavedAsStopped ==
    \A r \in Recordings : disk[r] # NoFile => disk[r].frames = atStop[r]

(* A connection leaves the manager only because its own endpoint ended or  *)
(* because a send to it has raised, never for another connection's sake.   *)
HealthyClientsStay ==
    [][ \A c \in ToSet(clients) \ ToSet(clients') :
            c \in failed \/ (running = Idle /\ ToSet(clients') = ToSet(clients) \ {c}) ]_vars

(* Every frame task comes to an end, and to that of having called the      *)
(* recorder, unless clients came or went during one of its broadcasts: an  *)
(* iteration that raises has another dict before it than it began with.    *)
TasksEnd ==
    /\ \A t \in Frames : task[t].pc # "none" ~> task[t].pc \in {"done", "raised"}
    /\ [][ \A t \in Frames : task[t].pc # "raised" /\ task'[t].pc = "raised"
              => ToSet(clients) # task[t].began ]_vars

(* A recording is a stretch of what the reader delivered, no frame missing *)
(* and in order: what subscribing on_frame to the reader would give.       *)
RecorderSeesReader ==
    \A r \in Recordings : \A i \in 1..(Len(lists[r]) - 1) :
        lists[r][i + 1] = lists[r][i] + 1
=============================================================================
