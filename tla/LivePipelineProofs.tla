-------------------------- MODULE LivePipelineProofs --------------------------
(***************************************************************************)
(* Proofs about the path of a live frame through the backend, for any      *)
(* number of clients, frames, recordings and laps.                         *)
(***************************************************************************)
EXTENDS LivePipeline, SeqFacts

(* A task that is within a broadcast has broadcasts left; those it takes   *)
(* for dead have failed.                                                   *)
Sends(t) ==
    /\ task[t].pc \in {"iterating", "sending"} => task[t].left > 0
    /\ task[t].pc = "sending" => task[t].to \in Clients
    /\ task[t].dead \subseteq failed

TaskInv == TypeOK /\ \A t \in Frames : Sends(t)

(* The laps cut n frames into consecutive, non-empty stretches.            *)
Cut(laps, n) ==
    \A i \in DOMAIN laps :
        /\ laps[i].start <= laps[i].end
        /\ laps[i].end = (IF i < Len(laps) THEN laps[i + 1].start ELSE n) - 1

(* So they do while a recording runs, but for the last one, which is open  *)
(* and has a frame already.                                                *)
Growing(laps, n) ==
    \A i \in DOMAIN laps :
        IF i < Len(laps)
        THEN laps[i].start <= laps[i].end /\ laps[i].end = laps[i + 1].start - 1
        ELSE laps[i].start < n /\ laps[i].end = Open

(* No frame is added to a recording any more.                              *)
Stopped(r) == r < current \/ (r = current /\ ~active)

RecordingInv ==
    /\ active => current > 0 /\ Growing(markers, Index)
    /\ \A r \in Recordings : Stopped(r) => atStop[r] = lists[r]
    /\ \A s \in saving : Stopped(s.rec) /\ Cut(s.laps, Len(lists[s.rec]))
    /\ \A r \in Recordings :
         \/ disk[r] = NoFile
         \/ /\ Stopped(r) /\ disk[r].frames = lists[r]
            /\ Cut(disk[r].laps, Len(lists[r]))

IInv == TaskInv /\ RecordingInv

-----------------------------------------------------------------------------
(* Types.                                                                  *)

(* A step changes at most the task of one frame.                           *)
LEMMA OneTask ==
  ASSUME TaskInv, NEW t \in Frames, NEW new \in TaskRecord,
         task' = [task EXCEPT ![t] = new],
         failed \subseteq failed', failed' \subseteq Clients,
         new.pc \in {"iterating", "sending"} => new.left > 0,
         new.pc = "sending" => new.to \in Clients,
         new.dead \subseteq failed'
  PROVE  task' \in [Frames -> TaskRecord] /\ \A u \in Frames : Sends(u)'
<1>1. task \in [Frames -> TaskRecord] /\ \A u \in Frames : Sends(u)
  BY DEF TaskInv, TypeOK
<1>2. task' \in [Frames -> TaskRecord] /\ task'[t] = new
      /\ \A u \in Frames : u # t => task'[u] = task[u]
  BY <1>1
<1>3. ASSUME NEW u \in Frames PROVE Sends(u)'
  <2>1. CASE u = t
    BY <1>2, <2>1 DEF Sends
  <2>2. CASE u # t
    <3>1. task'[u] = task[u]
      BY <1>2, <2>2
    <3>2. QED
      BY <1>1, <3>1 DEF Sends
  <2>3. QED
    BY <2>1, <2>2
<1>4. QED
  BY <1>2, <1>3

LEMMA TaskFacts ==
  ASSUME TaskInv, NEW t \in Frames
  PROVE  /\ task[t] \in TaskRecord /\ Sends(t)
         /\ task[t].left \in 0 .. 3 /\ task[t].lap \in 0 .. MaxLap
         /\ task[t].dead \subseteq Clients /\ task[t].dead \subseteq failed
         /\ task[t].pos \in Nat /\ task[t].due \in Nat
         /\ task[t].to \in Clients \cup {Idle}
BY DEF TaskInv, TypeOK, TaskRecord, Sends

(* The clients of a table, and those of one that has lost some.            *)
Entries == Seq(Clients \cup {Gone})

LEMMA ClientsOf ==
  ASSUME NEW q \in Entries
  PROVE  /\ Keep(q, Clients) \in Entries
         /\ \A c : c \in ToSet(Keep(q, Clients)) <=> c \in ToSet(q) /\ c \in Clients
BY KeepFacts, Zenon DEF Entries

LEMMA ErasedFacts ==
  ASSUME TypeOK, NEW S
  PROVE  /\ Erased(S) \in Entries
         /\ \A c : c \in ToSet(Keep(Erased(S), Clients)) <=> c \in ToSet(clients) /\ c \notin S
<1>1. table \in Entries
  BY DEF TypeOK, Entries
<1>2. DOMAIN table = 1 .. Len(table) /\ Len(table) \in Nat
      /\ \A i \in DOMAIN table : table[i] \in Clients \cup {Gone}
  BY <1>1 DEF Entries
<1>3. Erased(S) \in Entries /\ DOMAIN Erased(S) = DOMAIN table
  BY <1>2 DEF Erased, Entries
<1>4. \A c \in Clients : c \in ToSet(Erased(S)) <=> c \in ToSet(table) /\ c \notin S
  BY <1>2, <1>3, PipelineAssumption DEF Erased, ToSet
<1>5. \A c : c \in ToSet(clients) <=> c \in ToSet(table) /\ c \in Clients
  BY <1>1, ClientsOf, Zenon DEF clients
<1>6. \A c : c \in ToSet(Keep(Erased(S), Clients)) <=> c \in ToSet(Erased(S)) /\ c \in Clients
  BY <1>3, ClientsOf, Zenon
<1>7. QED
  BY <1>3, <1>4, <1>5, <1>6

LEMMA ConnectFacts ==
  ASSUME TypeOK, NEW c \in Clients, Connect(c)
  PROVE  table' \in Entries /\ \A x \in ToSet(clients) : x \in ToSet(clients')
<1>1. PICK q \in {table, clients} : table' = Append(q, c)
  BY DEF Connect
<1>2. table \in Entries /\ clients \in Entries
  BY ClientsOf, Zenon DEF TypeOK, Entries, clients
<1>3. q \in Entries /\ \A x \in ToSet(clients) : x \in ToSet(q) /\ x \in Clients
  BY <1>1, <1>2, ClientsOf DEF clients
<1>4. /\ table' \in Entries /\ Len(table') = Len(q) + 1 /\ Len(q) \in Nat
      /\ \A i \in 1 .. Len(q) : table'[i] = q[i]
  BY <1>1, <1>3, AppendFacts DEF Entries
<1>5. DOMAIN q = 1 .. Len(q) /\ DOMAIN table' = 1 .. Len(q) + 1
  BY <1>3, <1>4 DEF Entries
<1>6. \A x \in ToSet(q) : x \in ToSet(table')
  BY <1>4, <1>5 DEF ToSet
<1>7. \A x : x \in ToSet(Keep(table', Clients)) <=> x \in ToSet(table') /\ x \in Clients
  BY <1>4, ClientsOf, Zenon
<1>8. QED
  BY <1>3, <1>4, <1>6, <1>7 DEF clients

LEMMA HeadIn ==
  ASSUME NEW S, NEW q \in Seq(S), q # <<>>
  PROVE  Head(q) \in S /\ Tail(q) \in Seq(S)
BY TailFacts

LEMMA BroadcastTypes ==
  ASSUME TaskInv, NEW t \in Frames,
         BeginBroadcast(t) \/ IterationBroken(t) \/ Visit(t) \/ SendEnds(t) \/ EndBroadcast(t)
  PROVE  TaskInv'
<1>1. UNCHANGED <<joined, lap, recorderVars>>
  BY DEF BeginBroadcast, IterationBroken, Visit, SendEnds, EndBroadcast
<1>2. TypeOK /\ task[t] \in TaskRecord /\ Sends(t)
  BY TaskFacts DEF TaskInv
<1>3. SUFFICES /\ table' \in Entries /\ failed' \subseteq Clients
               /\ ready' \in Seq(Frames) /\ running' \in Frames \cup {Idle}
               /\ task' \in [Frames -> TaskRecord]
               /\ \A u \in Frames : Sends(u)'
  BY <1>1, <1>2 DEF TaskInv, TypeOK, recorderVars, Marker, File, TaskRecord, Entries
<1>4. CASE BeginBroadcast(t)
  <2> DEFINE fewer == task[t].left - 1
             all == Len(clients)
             none == {}
             there == ToSet(clients)
             idle == [task[t] EXCEPT !.left = fewer]
             begun == [task[t] EXCEPT !.pc = "iterating", !.size = all, !.due = all, !.pos = 0,
                                      !.began = there, !.dead = none]
  <2>1. task[t].left > 0 /\ task[t].left \in 0 .. 3 /\ task[t].pc = "between"
        /\ UNCHANGED <<table, failed, ready, running>>
    BY <1>4, TaskFacts DEF BeginBroadcast, Becomes
  <2>2. all \in Nat /\ none \in SUBSET Clients /\ fewer \in 0 .. 3 /\ there \in SUBSET Clients
    <3>1. table \in Entries
      BY <1>2 DEF TypeOK, Entries
    <3>2. clients \in Entries /\ \A c : c \in ToSet(clients) => c \in Clients
      BY <3>1, ClientsOf, Zenon DEF clients
    <3>3. all \in Nat
      BY <3>2 DEF Entries
    <3>4. QED
      BY <2>1, <3>2, <3>3
  <2> HIDE DEF all, none, fewer, there
  <2>3. /\ idle \in TaskRecord /\ idle.pc = "between" /\ idle.dead = task[t].dead
        /\ begun \in TaskRecord /\ begun.pc = "iterating" /\ begun.left = task[t].left
        /\ begun.dead = none
    BY <1>2, <2>1, <2>2 DEF TaskRecord
  <2>4. task' = [task EXCEPT ![t] = idle] \/ task' = [task EXCEPT ![t] = begun]
    BY <1>4 DEF BeginBroadcast, Becomes, fewer, all, none, there
  <2> HIDE DEF idle, begun
  <2>5. PICK new \in TaskRecord :
          /\ task' = [task EXCEPT ![t] = new] /\ new.dead \subseteq failed'
          /\ new.pc \in {"iterating", "sending"} => new.left > 0
          /\ new.pc # "sending"
    BY <1>2, <2>1, <2>3, <2>4 DEF Sends, none
  <2>6. task' \in [Frames -> TaskRecord] /\ \A u \in Frames : Sends(u)'
    BY <1>2, <2>1, <2>5, OneTask DEF TypeOK
  <2>7. QED
    BY <1>2, <2>1, <2>6 DEF TypeOK, Entries
<1>5. CASE IterationBroken(t)
  <2> DEFINE new == [NoTask EXCEPT !.pc = "raised"]
  <2>1. /\ new \in TaskRecord /\ new.pc = "raised" /\ new.dead = {}
    BY PipelineAssumption DEF TaskRecord, NoTask, NoLap
  <2>2. /\ task' = [task EXCEPT ![t] = new] /\ running' = Idle
        /\ UNCHANGED <<table, failed, ready>>
    BY <1>5 DEF IterationBroken, Becomes
  <2> HIDE DEF new
  <2>3. task' \in [Frames -> TaskRecord] /\ \A u \in Frames : Sends(u)'
    BY <1>2, <2>1, <2>2, OneTask DEF TypeOK
  <2>4. QED
    BY <1>2, <2>2, <2>3 DEF TypeOK, Entries
<1>6. CASE Visit(t)
  <2>0. PICK i \in DOMAIN table :
          /\ Finds(t, i)
          /\ \/ Becomes(t, Went(t, i)) /\ UNCHANGED <<failed, running>>
             \/ /\ Becomes(t, [Went(t, i) EXCEPT !.dead = @ \cup {table[i]}])
                /\ failed' = failed \cup {table[i]} /\ running' = running
             \/ /\ Becomes(t, [Went(t, i) EXCEPT !.pc = "sending", !.to = table[i]])
                /\ running' = Idle /\ failed' = failed
    BY <1>6 DEF Visit
  <2> DEFINE c == table[i]
             went == Went(t, i)
             dead == [went EXCEPT !.dead = task[t].dead \cup {c}]
             sent == [went EXCEPT !.pc = "sending", !.to = c]
  <2>1. c \in Clients /\ i \in Nat
    <3>1. table \in Seq(Clients \cup {Gone})
      BY <1>2 DEF TypeOK
    <3>2. i \in Nat /\ table[i] \in Clients \cup {Gone}
      BY <3>1
    <3>3. QED
      BY <2>0, <3>2 DEF Finds, Ahead
  <2>2. /\ task[t].pc = "iterating" /\ task[t].left > 0 /\ task[t].dead \subseteq failed
        /\ task[t].due > 0
    BY <1>2, <2>0 DEF Finds, Sends
  <2>3. went = [task[t] EXCEPT !.pos = i, !.due = task[t].due - 1]
    BY <1>2 DEF Went, TaskRecord
  <2>4. dead = [went EXCEPT !.dead = @ \cup {c}]
    BY <1>2, <2>3 DEF TaskRecord
  <2>5. /\ table' = table /\ ready' = ready
        /\ \/ task' = [task EXCEPT ![t] = went] /\ failed' = failed /\ running' = running
           \/ task' = [task EXCEPT ![t] = dead] /\ failed' = failed \cup {c} /\ running' = running
           \/ task' = [task EXCEPT ![t] = sent] /\ failed' = failed /\ running' = Idle
    BY <1>6, <2>0, <2>4 DEF Visit, Becomes
  <2> HIDE DEF c
  <2>6. /\ went \in TaskRecord /\ went.pc = "iterating" /\ went.left = task[t].left
        /\ went.dead = task[t].dead
    <3>1. task[t].due - 1 \in Nat
      BY <2>2, TaskFacts
    <3>2. QED
      BY <1>2, <2>1, <2>2, <2>3, <3>1 DEF TaskRecord
  <2> HIDE DEF went
  <2>7. /\ dead \in TaskRecord /\ dead.pc = "iterating" /\ dead.left = task[t].left
        /\ dead.dead = task[t].dead \cup {c}
        /\ sent \in TaskRecord /\ sent.pc = "sending" /\ sent.left = task[t].left
        /\ sent.dead = task[t].dead /\ sent.to = c
    BY <1>2, <2>1, <2>6 DEF TaskRecord
  <2> HIDE DEF dead, sent
  <2>8. PICK new \in TaskRecord :
          /\ task' = [task EXCEPT ![t] = new] /\ new.dead \subseteq failed'
          /\ new.left > 0 /\ (new.pc = "sending" => new.to \in Clients)
    BY <2>1, <2>2, <2>5, <2>6, <2>7
  <2>9. failed \subseteq failed' /\ failed' \subseteq Clients
    BY <1>2, <2>1, <2>5 DEF TypeOK
  <2>10. task' \in [Frames -> TaskRecord] /\ \A u \in Frames : Sends(u)'
    BY <2>8, <2>9, OneTask
  <2>11. QED
    BY <1>2, <2>5, <2>9, <2>10 DEF TypeOK, Entries
<1>7. CASE SendEnds(t)
  <2> DEFINE c == task[t].to
             well == [task[t] EXCEPT !.pc = "iterating"]
             dead == [task[t] EXCEPT !.pc = "iterating", !.dead = task[t].dead \cup {c}]
  <2>1. c \in Clients /\ task[t].left > 0 /\ task[t].dead \subseteq failed
    BY <1>2, <1>7 DEF SendEnds, Sends
  <2>2. /\ table' = table /\ running' = running /\ ready' = Append(ready, t)
        /\ \/ task' = [task EXCEPT ![t] = well] /\ failed' = failed
           \/ task' = [task EXCEPT ![t] = dead] /\ failed' = failed \cup {c}
    BY <1>7 DEF SendEnds, Becomes
  <2>3. /\ well \in TaskRecord /\ well.left = task[t].left /\ well.dead = task[t].dead
        /\ well.pc = "iterating"
        /\ dead \in TaskRecord /\ dead.left = task[t].left /\ dead.dead = task[t].dead \cup {c}
        /\ dead.pc = "iterating"
    BY <1>2, <2>1 DEF TaskRecord
  <2> HIDE DEF well, dead, c
  <2>4. PICK new \in TaskRecord :
          /\ task' = [task EXCEPT ![t] = new] /\ new.dead \subseteq failed'
          /\ new.left > 0 /\ new.pc = "iterating"
    BY <2>1, <2>2, <2>3
  <2>5. failed \subseteq failed' /\ failed' \subseteq Clients
    BY <1>2, <2>1, <2>2 DEF TypeOK
  <2>6. task' \in [Frames -> TaskRecord] /\ \A u \in Frames : Sends(u)'
    BY <2>4, <2>5, OneTask
  <2>7. ready' \in Seq(Frames)
    BY <1>2, <2>2, AppendFacts DEF TypeOK
  <2>8. QED
    BY <1>2, <2>2, <2>5, <2>6, <2>7 DEF TypeOK, Entries
<1>8. CASE EndBroadcast(t)
  <2> DEFINE fewer == task[t].left - 1
             none == {}
             new == [task[t] EXCEPT !.pc = "between", !.left = fewer, !.size = 0, !.due = 0,
                                    !.pos = 0, !.began = none, !.dead = none]
  <2>1. fewer \in 0 .. 3 /\ none \in SUBSET Clients
    <3>1. task[t].left > 0 /\ task[t].left \in 0 .. 3
      BY <1>2, <1>8, TaskFacts DEF EndBroadcast, Sends
    <3>2. QED
      BY <3>1
  <2> HIDE DEF fewer, none
  <2>2. new \in TaskRecord /\ new.pc = "between" /\ new.dead = none
    BY <1>2, <2>1 DEF TaskRecord
  <2>3. /\ task' = [task EXCEPT ![t] = new] /\ table' = Erased(task[t].dead)
        /\ UNCHANGED <<failed, ready, running>>
    BY <1>8 DEF EndBroadcast, Becomes, fewer, none
  <2> HIDE DEF new
  <2>4. task' \in [Frames -> TaskRecord] /\ \A u \in Frames : Sends(u)'
    BY <1>2, <2>2, <2>3, OneTask DEF TypeOK, none
  <2>5. QED
    BY <1>2, <2>3, <2>4, ErasedFacts DEF TypeOK
<1>9. QED
  BY <1>4, <1>5, <1>6, <1>7, <1>8

LEMMA RecorderFacts ==
  ASSUME TypeOK
  PROVE  /\ current \in 0 .. MaxRecordings /\ MaxRecordings \in Nat /\ MaxLap \in Nat \ {0}
         /\ active \in BOOLEAN /\ markers \in Seq(Marker)
         /\ lists \in [Recordings -> Seq(Frames)] /\ atStop \in [Recordings -> Seq(Frames)]
         /\ current > 0 => current \in Recordings
         /\ \A r \in Recordings : lists[r] \in Seq(Frames) /\ Len(lists[r]) \in Nat /\ r \in Nat
         /\ current > 0 => Index \in Nat
<1>1. /\ current \in 0 .. MaxRecordings /\ MaxRecordings \in Nat /\ MaxLap \in Nat \ {0}
      /\ active \in BOOLEAN /\ markers \in Seq(Marker)
      /\ lists \in [Recordings -> Seq(Frames)] /\ atStop \in [Recordings -> Seq(Frames)]
  BY PipelineAssumption DEF TypeOK
<1>2. current > 0 => current \in Recordings
  BY <1>1 DEF Recordings
<1>3. \A r \in Recordings : lists[r] \in Seq(Frames) /\ r \in Nat
  BY <1>1 DEF Recordings
<1>4. \A r \in Recordings : Len(lists[r]) \in Nat
  BY <1>3
<1>5. QED
  BY <1>1, <1>2, <1>3, <1>4 DEF Index

(* Closing changes the end of the last marker only.                        *)
LEMMA ClosedFacts ==
  ASSUME markers \in Seq(Marker), markers # <<>>, NEW end \in Nat
  PROVE  /\ Closed(end) \in Seq(Marker) /\ Len(Closed(end)) = Len(markers)
         /\ \A i \in 1 .. Len(markers) - 1 : Closed(end)[i] = markers[i]
         /\ Closed(end)[Len(markers)].start = markers[Len(markers)].start
         /\ Closed(end)[Len(markers)].end = end
<1> DEFINE n == Len(markers)
           last == [markers[n] EXCEPT !.end = end]
<1>1. n \in Nat \ {0} /\ n \in 1 .. n
  BY LenZero
<1>2. markers[n] \in Marker
  BY <1>1
<1>3. last \in Marker /\ last.start = markers[n].start /\ last.end = end
  BY <1>2 DEF Marker
<1>4. Closed(end) = [markers EXCEPT ![n] = last]
  BY DEF Closed
<1> HIDE DEF last
<1>5. Closed(end) \in Seq(Marker) /\ Len(Closed(end)) = n
      /\ (\A i \in 1 .. n - 1 : Closed(end)[i] = markers[i]) /\ Closed(end)[n] = last
  BY <1>1, <1>3, <1>4
<1>6. QED
  BY <1>3, <1>5

(* A new marker is put after the others.                                   *)
LEMMA MarkerFacts ==
  ASSUME NEW n \in Nat, NEW laps \in Seq(Marker), NEW l \in 1 .. MaxLap, MaxLap \in Nat,
         \A i \in DOMAIN laps :
           /\ laps[i].start <= laps[i].end
           /\ laps[i].end = (IF i < Len(laps) THEN laps[i + 1].start ELSE n) - 1
  PROVE  /\ Append(laps, [lap |-> l, start |-> n, end |-> Open]) \in Seq(Marker)
         /\ Growing(Append(laps, [lap |-> l, start |-> n, end |-> Open]), n + 1)
<1> DEFINE m == [lap |-> l, start |-> n, end |-> Open]
           new == Append(laps, m)
<1>1. m \in Marker /\ m.start = n /\ m.end = Open
  BY DEF Marker
<1> HIDE DEF m
<1>2. /\ new \in Seq(Marker) /\ Len(new) = Len(laps) + 1
      /\ \A i \in 1 .. Len(laps) : new[i] = laps[i]
      /\ new[Len(laps) + 1] = m
  BY <1>1, AppendFacts
<1> HIDE DEF new
<1>3. Len(laps) \in Nat
  OBVIOUS
<1>4. ASSUME NEW i \in 1 .. Len(laps)
      PROVE  new[i].start <= new[i].end /\ new[i].end = new[i + 1].start - 1
  <2>1. new[i] = laps[i] /\ i \in DOMAIN laps
    BY <1>2
  <2>2. CASE i < Len(laps)
    <3>1. i + 1 \in 1 .. Len(laps)
      BY <1>3, <2>2
    <3>2. new[i + 1] = laps[i + 1]
      BY <1>2, <3>1
    <3>3. QED
      BY <2>1, <2>2, <3>2
  <2>3. CASE i = Len(laps)
    <3>1. new[i + 1].start = n
      BY <1>1, <1>2, <2>3
    <3>2. QED
      BY <2>1, <2>3, <3>1
  <2>4. QED
    BY <1>3, <2>2, <2>3
<1>5. ASSUME NEW i \in DOMAIN new
      PROVE  IF i < Len(new)
             THEN new[i].start <= new[i].end /\ new[i].end = new[i + 1].start - 1
             ELSE new[i].start < n + 1 /\ new[i].end = Open
  <2>1. i \in 1 .. Len(laps) + 1
    BY <1>2
  <2>2. CASE i \in 1 .. Len(laps)
    BY <1>2, <1>3, <1>4, <2>2
  <2>3. CASE i = Len(laps) + 1
    BY <1>1, <1>2, <1>3, <2>3
  <2>4. QED
    BY <1>3, <2>1, <2>2, <2>3
<1>6. QED
  BY <1>2, <1>5 DEF Growing, new, m

(* What grows, closed at its last frame, is cut.                           *)
LEMMA CutByClosing ==
  ASSUME markers \in Seq(Marker), markers # <<>>, NEW n \in Nat, Growing(markers, n)
  PROVE  /\ n - 1 \in Nat /\ Closed(n - 1) \in Seq(Marker) /\ Cut(Closed(n - 1), n)
         /\ Closed(n - 1) # <<>>
<1>1. Len(markers) \in Nat \ {0} /\ \A i \in 1 .. Len(markers) : markers[i] \in Marker
  BY LenZero
<1>2. \A i \in 1 .. Len(markers) :
        markers[i].start \in Nat
  BY <1>1 DEF Marker
<1>3. markers[Len(markers)].start < n /\ Len(markers) \in 1 .. Len(markers)
  BY <1>1 DEF Growing
<1>4. n - 1 \in Nat
  BY <1>2, <1>3
<1> DEFINE laps == Closed(n - 1)
<1>5. /\ laps \in Seq(Marker) /\ Len(laps) = Len(markers)
      /\ \A i \in 1 .. Len(markers) - 1 : laps[i] = markers[i]
      /\ laps[Len(markers)].start = markers[Len(markers)].start
      /\ laps[Len(markers)].end = n - 1
  BY <1>4, ClosedFacts
<1> HIDE DEF laps
<1>6. ASSUME NEW i \in 1 .. Len(markers)
      PROVE  /\ laps[i].start <= laps[i].end
             /\ laps[i].end = (IF i < Len(laps) THEN laps[i + 1].start ELSE n) - 1
  <2>1. CASE i < Len(markers)
    <3>1. i \in 1 .. Len(markers) - 1 /\ i \in DOMAIN markers /\ i + 1 \in 1 .. Len(markers)
      BY <1>1, <2>1
    <3>2. laps[i] = markers[i] /\ laps[i + 1].start = markers[i + 1].start
      <4>1. CASE i + 1 = Len(markers)
        BY <1>5, <3>1, <4>1
      <4>2. CASE i + 1 # Len(markers)
        <5>1. i + 1 \in 1 .. Len(markers) - 1
          BY <1>1, <3>1, <4>2
        <5>2. QED
          BY <1>5, <3>1, <5>1
      <4>3. QED
        BY <4>1, <4>2
    <3>3. QED
      BY <1>5, <2>1, <3>1, <3>2 DEF Growing
  <2>2. CASE i = Len(markers)
    <3>1. laps[i].start < n /\ laps[i].start \in Nat
      BY <1>2, <1>3, <1>5, <2>2
    <3>2. QED
      BY <1>5, <2>2, <3>1
  <2>3. QED
    BY <1>1, <2>1, <2>2
<1>7. DOMAIN laps = 1 .. Len(markers) /\ laps # <<>>
  BY <1>1, <1>5
<1>8. QED
  BY <1>4, <1>5, <1>6, <1>7 DEF laps, Cut

-----------------------------------------------------------------------------
(* The recorder.                                                           *)

LEMMA RecorderSame ==
  ASSUME RecordingInv, UNCHANGED recorderVars PROVE RecordingInv'
BY DEF RecordingInv, recorderVars, Index, Stopped, Growing, Cut

LEMMA RecordStep ==
  ASSUME TaskInv, RecordingInv, NEW t \in Frames, Record(t)
  PROVE  TaskInv' /\ RecordingInv'
<1> DEFINE new == [NoTask EXCEPT !.pc = "done"]
           l == task[t].lap
           n == Len(lists[current])
<1>1. TypeOK /\ task[t] \in TaskRecord /\ l \in 0 .. MaxLap
  BY TaskFacts DEF TaskInv
<1>2. /\ new \in TaskRecord /\ new.pc = "done" /\ new.dead = {}
  BY PipelineAssumption DEF TaskRecord, NoTask, NoLap
<1>3. /\ task' = [task EXCEPT ![t] = new] /\ running' = Idle /\ OnFrame(t, l)
      /\ UNCHANGED <<table, joined, failed, ready, lap, active, current, saving, disk, atStop>>
  BY DEF Record, Becomes
<1> HIDE DEF new, l
<1>4. task' \in [Frames -> TaskRecord] /\ \A u \in Frames : Sends(u)'
  BY <1>1, <1>2, <1>3, OneTask DEF TypeOK
<1>5. SUFFICES /\ {lists', atStop'} \subseteq [Recordings -> Seq(Frames)]
               /\ markers' \in Seq(Marker) /\ curLap' \in 0 .. MaxLap
               /\ RecordingInv'
  BY <1>1, <1>3, <1>4 DEF TaskInv, TypeOK
<1>6. CASE ~active
  <2>1. UNCHANGED <<lists, markers, curLap>>
    BY <1>3, <1>6 DEF OnFrame
  <2>2. RecordingInv'
    BY <1>3, <2>1, RecorderSame DEF recorderVars
  <2>3. QED
    BY <1>1, <1>3, <2>1, <2>2 DEF TypeOK
<1>7. CASE active
  <2>1. /\ markers' = IF l # NoLap /\ l # curLap
                      THEN Append(Closed(n - 1), [lap |-> l, start |-> n, end |-> Open])
                      ELSE markers
        /\ curLap' = IF l # NoLap THEN l ELSE curLap
        /\ lists' = [lists EXCEPT ![current] = Append(lists[current], t)]
    BY <1>3, <1>7 DEF OnFrame, Index
  <2>2. /\ current \in Recordings /\ lists \in [Recordings -> Seq(Frames)]
        /\ lists[current] \in Seq(Frames) /\ n \in Nat /\ markers \in Seq(Marker)
        /\ MaxLap \in Nat /\ current \in Nat /\ Growing(markers, n)
    BY <1>1, <1>7, RecorderFacts DEF RecordingInv, Index
  <2>3. Append(lists[current], t) \in Seq(Frames) /\ Len(Append(lists[current], t)) = n + 1
    BY <2>2, AppendFacts
  <2>4. /\ lists' \in [Recordings -> Seq(Frames)] /\ Len(lists'[current]) = n + 1
        /\ \A r \in Recordings : r # current => lists'[r] = lists[r]
    BY <2>1, <2>2, <2>3
  <2>5. markers' \in Seq(Marker) /\ Growing(markers', n + 1)
    <3>1. CASE ~(l # NoLap /\ l # curLap)
      <4>1. markers' = markers
        BY <2>1, <3>1
      <4>2. \A i \in DOMAIN markers : markers[i].start \in Nat
        <5>1. \A i \in DOMAIN markers : markers[i] \in Marker
          BY <2>2
        <5>2. QED
          BY <5>1 DEF Marker
      <4>3. Growing(markers, n + 1)
        BY <2>2, <4>2 DEF Growing
      <4>4. QED
        BY <2>2, <4>1, <4>3
    <3>2. CASE (l # NoLap /\ l # curLap) /\ markers = <<>>
      <4>1. l \in 1 .. MaxLap
        BY <1>1, <2>2, <3>2 DEF NoLap
      <4>2. Closed(n - 1) = <<>>
        BY <3>2 DEF Closed
      <4>3. markers' = Append(<<>>, [lap |-> l, start |-> n, end |-> Open])
        BY <2>1, <3>2, <4>2
      <4>4. <<>> \in Seq(Marker) /\ DOMAIN <<>> = {}
        OBVIOUS
      <4>5. QED
        BY <2>2, <4>1, <4>3, <4>4, MarkerFacts
    <3>3. CASE (l # NoLap /\ l # curLap) /\ markers # <<>>
      <4>1. l \in 1 .. MaxLap
        BY <1>1, <2>2, <3>3 DEF NoLap
      <4>2. Closed(n - 1) \in Seq(Marker) /\ Cut(Closed(n - 1), n)
        BY <2>2, <3>3, CutByClosing
      <4>3. markers' = Append(Closed(n - 1), [lap |-> l, start |-> n, end |-> Open])
        BY <2>1, <3>3
      <4>4. QED
        BY <2>2, <4>1, <4>2, <4>3, MarkerFacts DEF Cut
    <3>4. QED
      BY <3>1, <3>2, <3>3
  <2>6. curLap' \in 0 .. MaxLap
    BY <1>1, <2>1 DEF TypeOK
  <2>7. \A r \in Recordings : Stopped(r) => r # current
    BY <1>7, <2>2 DEF Stopped, Recordings
  <2>8. \A s \in saving : s.rec \in Recordings
    BY <1>1 DEF TypeOK
  <2>9. RecordingInv'
    <3>1. active' = active /\ current' = current /\ Index' = n + 1
      BY <1>3, <2>4 DEF Index
    <3>2. \A r : Stopped(r)' <=> Stopped(r)
      BY <3>1 DEF Stopped
    <3>3. \A r \in Recordings : Stopped(r) => atStop'[r] = lists'[r]
      BY <1>3, <2>4, <2>7 DEF RecordingInv
    <3>4. \A s \in saving' : Stopped(s.rec) /\ Cut(s.laps, Len(lists'[s.rec]))
      BY <1>3, <2>4, <2>7, <2>8 DEF RecordingInv
    <3>5. \A r \in Recordings : \/ disk'[r] = NoFile
                                \/ /\ Stopped(r) /\ disk'[r].frames = lists'[r]
                                   /\ Cut(disk'[r].laps, Len(lists'[r]))
      BY <1>3, <2>4, <2>7 DEF RecordingInv
    <3>6. active' => current' > 0 /\ Growing(markers', Index')
      BY <1>7, <2>2, <2>5, <3>1 DEF Recordings
    <3>7. QED
      BY <3>2, <3>3, <3>4, <3>5, <3>6 DEF RecordingInv, Cut, Growing, NoFile
  <2>10. QED
    BY <1>1, <1>3, <2>4, <2>5, <2>6, <2>9 DEF TypeOK
<1>8. QED
  BY <1>1, <1>6, <1>7 DEF TypeOK

LEMMA StartStep ==
  ASSUME TaskInv, RecordingInv, Start
  PROVE  TaskInv' /\ RecordingInv'
<1>1. /\ ~active /\ current < MaxRecordings /\ active' = TRUE /\ current' = current + 1
      /\ lists' = [lists EXCEPT ![current + 1] = <<>>] /\ markers' = <<>> /\ curLap' = NoLap
      /\ UNCHANGED <<loopVars, lap, saving, disk, atStop>>
  BY DEF Start
<1>2. /\ TypeOK /\ current \in Nat /\ current + 1 \in Recordings /\ MaxLap \in Nat
      /\ current + 1 \in 0 .. MaxRecordings
      /\ lists \in [Recordings -> Seq(Frames)]
  BY <1>1, RecorderFacts DEF TaskInv, Recordings
<1>3. <<>> \in Seq(Frames) /\ <<>> \in Seq(Marker)
  OBVIOUS
<1>4. /\ lists' \in [Recordings -> Seq(Frames)] /\ lists'[current + 1] = <<>>
      /\ \A r \in Recordings : r # current + 1 => lists'[r] = lists[r]
  BY <1>1, <1>2, <1>3
<1>5. TypeOK'
  BY <1>1, <1>2, <1>3, <1>4 DEF TypeOK, loopVars, NoLap
<1>6. \A t \in Frames : Sends(t)'
  BY <1>1 DEF TaskInv, Sends, loopVars
<1>7. \A r \in Recordings : /\ Stopped(r)' <=> Stopped(r)
                            /\ Stopped(r) => r # current + 1
  BY <1>1, <1>2 DEF Stopped, Recordings
<1>8. \A s \in saving : s.rec \in Recordings
  BY <1>2 DEF TypeOK
<1>9. RecordingInv'
  <2>1. \A r \in Recordings : Stopped(r)' => atStop'[r] = lists'[r]
    BY <1>1, <1>4, <1>7 DEF RecordingInv
  <2>2. \A s \in saving' : Stopped(s.rec)' /\ Cut(s.laps, Len(lists'[s.rec]))
    BY <1>1, <1>4, <1>7, <1>8 DEF RecordingInv
  <2>3. \A r \in Recordings : \/ disk'[r] = NoFile
                              \/ /\ Stopped(r)' /\ disk'[r].frames = lists'[r]
                                 /\ Cut(disk'[r].laps, Len(lists'[r]))
    BY <1>1, <1>4, <1>7 DEF RecordingInv
  <2>4. current' > 0 /\ Growing(markers', Index')
    <3>1. DOMAIN <<>> = {}
      OBVIOUS
    <3>2. Growing(markers', Index')
      BY <1>1, <3>1 DEF Growing
    <3>3. QED
      BY <1>1, <1>2, <3>2
  <2>5. QED
    BY <2>1, <2>2, <2>3, <2>4 DEF RecordingInv, Cut, Growing, NoFile
<1>10. QED
  BY <1>5, <1>6, <1>9 DEF TaskInv

LEMMA StopStep ==
  ASSUME TaskInv, RecordingInv, Stop
  PROVE  TaskInv' /\ RecordingInv'
<1> DEFINE n == Len(lists[current])
           s == [rec |-> current, laps |-> markers']
<1>1. /\ active /\ active' = FALSE
      /\ markers' = IF markers # <<>> /\ Last(markers).end = Open
                    THEN Closed(IF n = 0 THEN 0 ELSE n - 1) ELSE markers
      /\ saving' = saving \cup {s} /\ atStop' = [atStop EXCEPT ![current] = lists[current]]
      /\ UNCHANGED <<loopVars, lap, current, lists, curLap, disk>>
  BY DEF Stop, Index
<1>2. /\ TypeOK /\ current \in Recordings /\ lists \in [Recordings -> Seq(Frames)]
      /\ lists[current] \in Seq(Frames) /\ n \in Nat /\ markers \in Seq(Marker)
      /\ atStop \in [Recordings -> Seq(Frames)] /\ Growing(markers, n)
  BY <1>1, RecorderFacts DEF RecordingInv, TaskInv, Index
<1>3. markers' \in Seq(Marker) /\ Cut(markers', n)
  <2>1. CASE markers = <<>>
    <3>1. markers' = <<>> /\ DOMAIN <<>> = {}
      BY <1>1, <2>1
    <3>2. QED
      BY <1>2, <2>1, <3>1 DEF Cut
  <2>2. CASE markers # <<>>
    <3>1. Len(markers) \in 1 .. Len(markers) /\ Len(markers) \in Nat \ {0}
      BY <1>2, <2>2, LenZero
    <3>2. Last(markers).end = Open
      BY <1>2, <3>1 DEF Last, Growing
    <3>3. n - 1 \in Nat /\ Closed(n - 1) \in Seq(Marker) /\ Cut(Closed(n - 1), n)
      BY <1>2, <2>2, CutByClosing
    <3>4. markers' = Closed(n - 1)
      BY <1>1, <1>2, <2>2, <3>2, <3>3
    <3>5. QED
      BY <3>3, <3>4
  <2>3. QED
    BY <2>1, <2>2
<1>4. atStop' \in [Recordings -> Seq(Frames)] /\ atStop'[current] = lists[current]
      /\ \A r \in Recordings : r # current => atStop'[r] = atStop[r]
  BY <1>1, <1>2
<1>5. s \in [rec: Recordings, laps: Seq(Marker)] /\ s.rec = current /\ s.laps = markers'
  BY <1>2, <1>3
<1> HIDE DEF s
<1>6. TypeOK'
  BY <1>1, <1>2, <1>3, <1>4, <1>5 DEF TypeOK, loopVars
<1>7. \A t \in Frames : Sends(t)'
  BY <1>1 DEF TaskInv, Sends, loopVars
<1>8. \A r \in Recordings : Stopped(r)' <=> Stopped(r) \/ r = current
  BY <1>1, <1>2 DEF Stopped
<1>9. \A z \in saving : z.rec \in Recordings
  BY <1>2 DEF TypeOK
<1>10. RecordingInv'
  <2>1. \A r \in Recordings : Stopped(r)' => atStop'[r] = lists'[r]
    BY <1>1, <1>4, <1>8 DEF RecordingInv, loopVars
  <2>2. \A z \in saving' : Stopped(z.rec)' /\ Cut(z.laps, Len(lists'[z.rec]))
    BY <1>1, <1>2, <1>3, <1>5, <1>8, <1>9 DEF RecordingInv
  <2>3. \A r \in Recordings : \/ disk'[r] = NoFile
                              \/ /\ Stopped(r)' /\ disk'[r].frames = lists'[r]
                                 /\ Cut(disk'[r].laps, Len(lists'[r]))
    BY <1>1, <1>8 DEF RecordingInv
  <2>4. ~active'
    BY <1>1
  <2>5. QED
    BY <2>1, <2>2, <2>3, <2>4 DEF RecordingInv, Cut, NoFile
<1>11. QED
  BY <1>6, <1>7, <1>10 DEF TaskInv

LEMMA SaveStep ==
  ASSUME TaskInv, RecordingInv, Save
  PROVE  TaskInv' /\ RecordingInv'
<1>1. PICK s \in saving :
        /\ disk' = [disk EXCEPT ![s.rec] = [frames |-> lists[s.rec], laps |-> s.laps]]
        /\ saving' = saving \ {s}
        /\ UNCHANGED <<loopVars, lap, active, current, lists, markers, curLap, atStop>>
  BY DEF Save
<1> DEFINE new == [frames |-> lists[s.rec], laps |-> s.laps]
<1>2. /\ TypeOK /\ s.rec \in Recordings /\ s.laps \in Seq(Marker)
      /\ lists[s.rec] \in Seq(Frames) /\ disk \in [Recordings -> File]
      /\ Stopped(s.rec) /\ Cut(s.laps, Len(lists[s.rec]))
  BY RecorderFacts DEF TaskInv, TypeOK, RecordingInv
<1>3. new \in File /\ new.frames = lists[s.rec] /\ new.laps = s.laps
  BY <1>2 DEF File
<1> HIDE DEF new
<1>4. /\ disk' \in [Recordings -> File] /\ disk'[s.rec] = new
      /\ \A r \in Recordings : r # s.rec => disk'[r] = disk[r]
  BY <1>1, <1>2, <1>3 DEF new
<1>5. TypeOK'
  BY <1>1, <1>2, <1>4 DEF TypeOK, loopVars
<1>6. \A t \in Frames : Sends(t)'
  BY <1>1 DEF TaskInv, Sends, loopVars
<1>7. \A r : Stopped(r)' <=> Stopped(r)
  BY <1>1 DEF Stopped
<1>8. RecordingInv'
  <2>1. \A r \in Recordings : Stopped(r)' => atStop'[r] = lists'[r]
    BY <1>1, <1>7 DEF RecordingInv
  <2>2. \A z \in saving' : Stopped(z.rec)' /\ Cut(z.laps, Len(lists'[z.rec]))
    BY <1>1, <1>7 DEF RecordingInv
  <2>3. \A r \in Recordings : \/ disk'[r] = NoFile
                              \/ /\ Stopped(r)' /\ disk'[r].frames = lists'[r]
                                 /\ Cut(disk'[r].laps, Len(lists'[r]))
    BY <1>1, <1>2, <1>3, <1>4, <1>7 DEF RecordingInv
  <2>4. active' => current' > 0 /\ Growing(markers', Index')
    BY <1>1 DEF RecordingInv, Index
  <2>5. QED
    BY <2>1, <2>2, <2>3, <2>4 DEF RecordingInv, Cut, NoFile, Growing
<1>9. QED
  BY <1>5, <1>6, <1>8 DEF TaskInv

-----------------------------------------------------------------------------
(* All steps.                                                              *)

LEMMA PollTypes ==
  ASSUME TaskInv, Poll
  PROVE  TaskInv'
<1>1. PICK f \in Frames \ Polled, l \in {lap, lap + 1}, names \in BOOLEAN :
        /\ l <= MaxLap /\ lap' = l
        /\ task' = [task EXCEPT ![f] = [NoTask EXCEPT !.pc = "between",
                                                      !.lap = IF names THEN l ELSE NoLap,
                                                      !.left = IF names THEN 3 ELSE 2]]
        /\ ready' = Append(ready, f)
  BY DEF Poll
<1> DEFINE named == IF names THEN l ELSE NoLap
           left == IF names THEN 3 ELSE 2
           new == [NoTask EXCEPT !.pc = "between", !.lap = named, !.left = left]
<1>2. UNCHANGED <<table, joined, failed, running, recorderVars>> /\ TypeOK
  BY DEF Poll, TaskInv
<1>3. l \in 1 .. MaxLap /\ named \in 0 .. MaxLap /\ left \in 0 .. 3
  BY <1>1, <1>2, PipelineAssumption DEF TypeOK, NoLap
<1>4. task' = [task EXCEPT ![f] = new]
  BY <1>1
<1> HIDE DEF named, left
<1>5. new \in TaskRecord /\ new.pc = "between" /\ new.dead = {}
  BY <1>3 DEF TaskRecord, NoTask
<1> HIDE DEF new
<1>6. task' \in [Frames -> TaskRecord] /\ \A u \in Frames : Sends(u)'
  BY <1>2, <1>4, <1>5, OneTask DEF TypeOK
<1>7. ready' \in Seq(Frames)
  BY <1>1, <1>2, AppendFacts DEF TypeOK
<1>8. QED
  BY <1>1, <1>2, <1>3, <1>6, <1>7 DEF TaskInv, TypeOK, recorderVars

LEMMA ClientTypes ==
  ASSUME TaskInv, NEW c \in Clients, Connect(c) \/ Disconnect(c)
  PROVE  TaskInv'
<1>1. UNCHANGED <<failed, ready, running, task, lap, recorderVars>> /\ TypeOK
      /\ joined' \subseteq Clients
  BY DEF Connect, Disconnect, TaskInv, TypeOK
<1>2. table' \in Entries
  <2>1. CASE Connect(c)
    BY <1>1, <2>1, ConnectFacts
  <2>2. CASE Disconnect(c)
    BY <1>1, <2>2, ErasedFacts DEF Disconnect
  <2>3. QED
    BY <2>1, <2>2
<1>3. QED
  BY <1>1, <1>2 DEF TaskInv, TypeOK, Sends, recorderVars, Entries

LEMMA IInvInit == Init => IInv
<1> SUFFICES ASSUME Init PROVE IInv
  OBVIOUS
<1>1. NoTask \in TaskRecord /\ NoTask.pc = "none" /\ NoTask.dead = {}
  BY PipelineAssumption DEF TaskRecord, NoTask, NoLap
<1>2. /\ <<>> \in Entries /\ <<>> \in Seq(Frames) /\ <<>> \in Seq(Marker)
  BY DEF Entries
<1>3. NoFile \in File
  BY <1>2 DEF NoFile, File
<1>4. TypeOK
  <2>1. /\ task \in [Frames -> TaskRecord] /\ disk \in [Recordings -> File]
        /\ lists \in [Recordings -> Seq(Frames)] /\ atStop \in [Recordings -> Seq(Frames)]
    BY <1>1, <1>2, <1>3 DEF Init
  <2>2. /\ table \in Entries /\ ready \in Seq(Frames) /\ markers \in Seq(Marker)
    BY <1>2 DEF Init
  <2>3. /\ lap \in 1 .. MaxLap /\ curLap \in 0 .. MaxLap /\ current \in 0 .. MaxRecordings
    BY PipelineAssumption DEF Init, NoLap
  <2>4. QED
    BY <2>1, <2>2, <2>3 DEF Init, TypeOK, Entries
<1>5. \A t \in Frames : Sends(t)
  BY <1>1 DEF Init, Sends
<1>6. RecordingInv
  <2>1. \A r \in Recordings : r \in Nat /\ r > 0
    BY DEF Recordings
  <2>2. QED
    BY <2>1 DEF Init, RecordingInv, Stopped
<1>7. QED
  BY <1>4, <1>5, <1>6 DEF IInv, TaskInv

LEMMA IInvStep == ASSUME IInv, [Next]_vars PROVE IInv'
<1>1. TaskInv /\ RecordingInv
  BY DEF IInv
<1>2. CASE Poll
  <2>1. UNCHANGED recorderVars
    BY <1>2 DEF Poll
  <2>2. QED
    BY <1>1, <1>2, <2>1, PollTypes, RecorderSame DEF IInv
<1>3. ASSUME NEW c \in Clients, Connect(c) \/ Disconnect(c) PROVE IInv'
  <2>1. UNCHANGED recorderVars
    BY <1>3 DEF Connect, Disconnect
  <2>2. QED
    BY <1>1, <1>3, <2>1, ClientTypes, RecorderSame DEF IInv
<1>4. CASE Resume
  <2>1. /\ UNCHANGED <<table, joined, failed, task, lap>> /\ UNCHANGED recorderVars
        /\ ready # <<>> /\ running' = Head(ready) /\ ready' = Tail(ready)
    BY <1>4 DEF Resume
  <2>2. ready \in Seq(Frames)
    BY <1>1 DEF TaskInv, TypeOK
  <2>3. running' \in Frames /\ ready' \in Seq(Frames)
    BY <2>1, <2>2, HeadIn
  <2>4. TaskInv'
    BY <1>1, <2>1, <2>3 DEF TaskInv, TypeOK, Sends, recorderVars
  <2>5. QED
    BY <1>1, <2>1, <2>4, RecorderSame DEF IInv
<1>5. ASSUME NEW t \in Frames,
             BeginBroadcast(t) \/ IterationBroken(t) \/ Visit(t) \/ SendEnds(t) \/ EndBroadcast(t)
      PROVE  IInv'
  <2>1. UNCHANGED recorderVars
    BY <1>5 DEF BeginBroadcast, IterationBroken, Visit, SendEnds, EndBroadcast
  <2>2. QED
    BY <1>1, <1>5, <2>1, BroadcastTypes, RecorderSame DEF IInv
<1>6. ASSUME NEW t \in Frames, Record(t) PROVE IInv'
  BY <1>1, <1>6, RecordStep DEF IInv
<1>7. CASE Start \/ Stop \/ Save
  BY <1>1, <1>7, StartStep, StopStep, SaveStep DEF IInv
<1>8. CASE UNCHANGED vars
  <2>1. UNCHANGED recorderVars /\ UNCHANGED <<loopVars, lap>>
    BY <1>8 DEF vars
  <2>2. TaskInv'
    BY <1>1, <2>1 DEF TaskInv, TypeOK, Sends, recorderVars, loopVars
  <2>3. QED
    BY <1>1, <2>1, <2>2, RecorderSame DEF IInv
<1>9. QED
  BY <1>2, <1>3, <1>4, <1>5, <1>6, <1>7, <1>8 DEF Next

(* The variables have their types, whatever the tasks, the clients and the *)
(* API do in between.                                                      *)
THEOREM PipelineTyped == Spec => []TypeOK
<1>1. IInv => TypeOK
  BY DEF IInv, TaskInv
<1>2. QED
  BY IInvInit, IInvStep, <1>1, PTL DEF Spec

(* The worker thread that saves a recording outside the lock writes what   *)
(* had been recorded when stop() was called: it shares the frame list with *)
(* the recorder, but nobody adds to it any more.                           *)
THEOREM SavesWhatWasStopped == Spec => []SavedAsStopped
<1>1. IInv => SavedAsStopped
  BY DEF IInv, RecordingInv, SavedAsStopped
<1>2. QED
  BY IInvInit, IInvStep, <1>1, PTL DEF Spec

(* The laps of a saved file follow each other without a gap, none empty,   *)
(* up to the last frame, in whatever order the tasks handed the frames in. *)
THEOREM SavesContiguousLaps == Spec => []SavedLapsContiguous
<1>1. ASSUME IInv PROVE SavedLapsContiguous
  <2>1. SUFFICES ASSUME NEW r \in Recordings PROVE Cut(disk[r].laps, Len(disk[r].frames))
    BY DEF SavedLapsContiguous, Cut
  <2>2. CASE disk[r] = NoFile
    <3>1. disk[r].laps = <<>> /\ DOMAIN <<>> = {}
      BY <2>2 DEF NoFile
    <3>2. QED
      BY <3>1 DEF Cut
  <2>3. CASE disk[r] # NoFile
    BY <1>1, <2>3 DEF IInv, RecordingInv
  <2>4. QED
    BY <2>2, <2>3
<1>2. QED
  BY IInvInit, IInvStep, <1>1, PTL DEF Spec

(* However broadcasts, connections and disconnections interleave, a client *)
(* is dropped only by its own endpoint or after a send to it has raised.   *)
THEOREM ClientsKept == Spec => HealthyClientsStay
<1> DEFINE Kept == \A c \in ToSet(clients) \ ToSet(clients') :
                     c \in failed \/ (running = Idle /\ ToSet(clients') = ToSet(clients) \ {c})
<1>1. ASSUME IInv, Next PROVE Kept
  <2>1. TaskInv /\ TypeOK
    BY <1>1 DEF IInv, TaskInv
  <2>2. CASE table' = table
    BY <2>2 DEF clients
  <2>3. ASSUME NEW c \in Clients, Connect(c) PROVE Kept
    BY <2>1, <2>3, ConnectFacts
  <2>4. ASSUME NEW d \in Clients, Disconnect(d) PROVE Kept
    <3>1. running = Idle /\ table' = Erased({d})
      BY <2>4 DEF Disconnect
    <3>2. ToSet(clients') = ToSet(clients) \ {d}
      BY <2>1, <3>1, ErasedFacts DEF clients
    <3>3. QED
      BY <3>1, <3>2
  <2>5. ASSUME NEW t \in Frames, EndBroadcast(t) PROVE Kept
    <3>1. table' = Erased(task[t].dead) /\ task[t].dead \subseteq failed
      BY <2>1, <2>5, TaskFacts DEF EndBroadcast
    <3>2. \A c \in ToSet(clients) \ ToSet(clients') : c \in task[t].dead
      BY <2>1, <3>1, ErasedFacts DEF clients
    <3>3. QED
      BY <3>1, <3>2
  <2>6. \/ table' = table
        \/ \E c \in Clients : Connect(c) \/ Disconnect(c)
        \/ \E t \in Frames : EndBroadcast(t)
    BY <1>1 DEF Next, Poll, Resume, BeginBroadcast, IterationBroken, Visit, SendEnds, Record,
                Start, Stop, Save, loopVars
  <2>7. QED
    BY <2>2, <2>3, <2>4, <2>5, <2>6
<1>2. IInv /\ [Next]_vars => [Kept]_vars
  BY <1>1
<1>3. QED
  BY IInvInit, IInvStep, <1>2, PTL DEF Spec, HealthyClientsStay
=============================================================================
