------------------------------- MODULE Backup --------------------------------
(***************************************************************************)
(* The run store on disk (internal/state/store.go) with the worker that    *)
(* saves runs to it, and backup and restore of runs and events             *)
(* (internal/server/backup.go).                                            *)
(*                                                                         *)
(* A run is a file: absent, torn or whole.  os.WriteFile truncates and     *)
(* then writes, so a reader or a crash in between meets a torn file, which *)
(* ListRuns refuses.  Requests run concurrently with the worker and with   *)
(* one another.  The process may crash; the event log is in memory.        *)
(* An event is the end of a run, recorded after the run is saved.          *)
(***************************************************************************)
EXTENDS Integers, FiniteSets

CONSTANTS
  Runs,         \* runs that jobs save
  Requests,     \* concurrent backup or restore requests
  MaxSnapshots, \* bound on the snapshots
  MaxCrashes    \* bound on the crashes

VARIABLES
  file,       \* per run: absent, torn or whole
  worker,     \* per run: new, writing, saved, ended or, after a crash, lost
  events,     \* runs whose end is in the event log
  snapshots,  \* the object store: sets of runs and events, and which of the two were asked for
  request,    \* per request: idle, reading (a backup), removing or saving (a restore), and,
              \* as history, whether no other restore has been under way during this one
  short,      \* history: such a restore has returned without all the runs of its snapshot on disk
  crashes

vars == <<file, worker, events, snapshots, request, short, crashes>>

Parts == {{"runs"}, {"events"}, {"runs", "events"}}
NoSnapshot == [parts |-> {}, runs |-> {}, events |-> {}]
Idle == [at |-> "idle", snap |-> NoSnapshot, left |-> {}, half |-> {}, alone |-> FALSE]

Init ==
  /\ file = [r \in Runs |-> "absent"]
  /\ worker = [r \in Runs |-> "new"]
  /\ events = {} /\ snapshots = {}
  /\ request = [q \in Requests |-> Idle]
  /\ short = FALSE
  /\ crashes = 0

-----------------------------------------------------------------------------
(* The worker *)

\* SaveRun up to the truncation of the file...
OpenRun(r) ==
  /\ worker[r] = "new" /\ \A o \in Runs : worker[o] # "writing"
  /\ worker' = [worker EXCEPT ![r] = "writing"]
  /\ file' = [file EXCEPT ![r] = "torn"]
  /\ UNCHANGED <<events, snapshots, request, short, crashes>>

\* ...and the write, which a restore may have taken the file away from.
WriteRun(r) ==
  /\ worker[r] = "writing"
  /\ worker' = [worker EXCEPT ![r] = "saved"]
  /\ file' = [file EXCEPT ![r] = IF @ = "absent" THEN "absent" ELSE "whole"]
  /\ UNCHANGED <<events, snapshots, request, short, crashes>>

\* The job's end is recorded by a subscriber of the queue.
RecordEnd(r) ==
  /\ worker[r] = "saved"
  /\ worker' = [worker EXCEPT ![r] = "ended"]
  /\ events' = events \cup {r}
  /\ UNCHANGED <<file, snapshots, request, short, crashes>>

-----------------------------------------------------------------------------
(* Backup *)

Moves(q, record) == request' = [request EXCEPT ![q] = record]

OnDisk == {r \in Runs : file[r] # "absent"}
ListRunsFails == \E r \in Runs : file[r] = "torn"

\* Mutant: the state of a file is not looked at.
ReadRunsBlind(q, parts) ==
  /\ request[q].at = "idle"
  /\ Moves(q, [Idle EXCEPT !.at = "reading", !.snap = [NoSnapshot EXCEPT !.parts = parts, !.runs = IF "runs" \in parts THEN OnDisk ELSE {}]])
  /\ UNCHANGED <<file, worker, events, snapshots, short, crashes>>

\* buildBackupSnapshot reads the runs, if asked to, and fails with ListRuns...
ReadRuns(q, parts) ==
  /\ request[q].at = "idle"
  /\ "runs" \in parts => ~ListRunsFails
  /\ Moves(q, [Idle EXCEPT !.at = "reading", !.snap = [NoSnapshot EXCEPT !.parts = parts, !.runs = IF "runs" \in parts THEN OnDisk ELSE {}]])
  /\ UNCHANGED <<file, worker, events, snapshots, short, crashes>>

\* ...and then the events, and the snapshot is put into the object store.
PutSnapshot(q) ==
  /\ request[q].at = "reading" /\ Cardinality(snapshots) < MaxSnapshots
  /\ LET snap == request[q].snap
     IN snapshots' = snapshots \cup {[snap EXCEPT !.events = IF "events" \in snap.parts THEN events ELSE {}]}
  /\ Moves(q, Idle)
  /\ UNCHANGED <<file, worker, events, short, crashes>>

-----------------------------------------------------------------------------
(* Restore *)

Restoring(q) == request[q].at \in {"removing", "saving"}

\* handleRestore fetches a snapshot: by its key, or the last before a time.
Fetch(q, snap) ==
  /\ request[q].at = "idle"
  /\ request' = [p \in Requests |->
       IF p = q THEN [Idle EXCEPT !.at = "removing", !.snap = snap, !.left = snap.runs,
                                  !.alone = \A o \in Requests : ~Restoring(o)]
       ELSE [request[p] EXCEPT !.alone = FALSE]]
  /\ UNCHANGED <<file, worker, events, snapshots, short, crashes>>

\* ReplaceRuns removes the directory...
RemoveRuns(q) ==
  /\ request[q].at = "removing"
  /\ file' = [r \in Runs |-> "absent"]
  /\ Moves(q, [request[q] EXCEPT !.at = "saving"])
  /\ UNCHANGED <<worker, events, snapshots, short, crashes>>

\* ...and saves run after run,
OpenRestored(q, r) ==
  /\ request[q].at = "saving" /\ request[q].half = {} /\ r \in request[q].left
  /\ file' = [file EXCEPT ![r] = "torn"]
  /\ Moves(q, [request[q] EXCEPT !.half = {r}])
  /\ UNCHANGED <<worker, events, snapshots, short, crashes>>

WriteRestored(q) ==
  /\ request[q].half # {}
  /\ file' = [r \in Runs |-> IF r \in request[q].half /\ file[r] # "absent" THEN "whole" ELSE file[r]]
  /\ Moves(q, [request[q] EXCEPT !.half = {}, !.left = request[q].left \ request[q].half])
  /\ UNCHANGED <<worker, events, snapshots, short, crashes>>

\* ...and then replaces the events, with none if the snapshot has none.
ReplaceEvents(q) ==
  /\ request[q].at = "saving" /\ request[q].left = {}
  /\ events' = request[q].snap.events
  /\ short' = (short \/ (request[q].alone /\ \E r \in request[q].snap.runs : file[r] # "whole"))
  /\ Moves(q, Idle)
  /\ UNCHANGED <<file, worker, snapshots, crashes>>

\* The process stops where it is; files stay, memory goes.
Crash ==
  /\ crashes < MaxCrashes
  /\ crashes' = crashes + 1
  /\ events' = {}
  /\ worker' = [r \in Runs |-> CASE worker[r] = "writing" -> "lost" [] worker[r] = "saved" -> "ended" [] OTHER -> worker[r]]
  /\ request' = [q \in Requests |-> Idle]
  /\ UNCHANGED <<file, snapshots, short>>

Next ==
  \/ \E r \in Runs : OpenRun(r) \/ WriteRun(r) \/ RecordEnd(r)
  \/ \E q \in Requests :
       \/ \E parts \in Parts : ReadRuns(q, parts)
       \/ PutSnapshot(q)
       \/ \E snap \in snapshots : Fetch(q, snap)
       \/ RemoveRuns(q) \/ WriteRestored(q) \/ ReplaceEvents(q)
       \/ \E r \in Runs : OpenRestored(q, r)
  \/ Crash

Spec == Init /\ [][Next]_vars

-----------------------------------------------------------------------------
(* Properties *)

\* The type of every variable.
TypeOK ==
  /\ file \in [Runs -> {"absent", "torn", "whole"}]
  /\ worker \in [Runs -> {"new", "writing", "saved", "ended", "lost"}]
  /\ events \subseteq Runs /\ crashes \in 0 .. MaxCrashes /\ short \in BOOLEAN
  /\ \A s \in snapshots : s.runs \subseteq Runs /\ s.events \subseteq Runs
  /\ \A q \in Requests : request[q].left \subseteq Runs /\ Cardinality(request[q].half) <= 1

\* No snapshot holds a run before its record has been written in full, also
\* when a save, a restore or a crash is under way while the runs are listed.
SnapshotWhole ==
  \A s \in snapshots : \A r \in s.runs : worker[r] \in {"saved", "ended"}

\* When a restore returns and no other was under way during it, every run of
\* its snapshot is on disk in full.
RestoredComplete == ~short

=============================================================================
