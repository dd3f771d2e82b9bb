------------------------------ MODULE EventLog -------------------------------
(***************************************************************************)
(* The event log (internal/control/events.go) and the activity streams     *)
(* that follow it (internal/server/activity_stream.go).                    *)
(*                                                                         *)
(* The log is a ring of sealed events, each with an index and the hash of  *)
(* its predecessor.  Append seals under the lock and sends to the          *)
(* subscribers it found after unlocking, one by one, without waiting for a *)
(* full channel.  A stream replays the log, subscribes, and unsubscribes   *)
(* when its client leaves.                                                 *)
(***************************************************************************)
EXTENDS Integers, Sequences, FiniteSets

CONSTANTS
  Appenders,   \* goroutines that record events
  Streams,     \* requests for the activity stream
  Limit,       \* events the log retains
  Buffer,      \* capacity of a subscriber's channel
  ReplayLimit, \* events a stream replays
  MaxEvents,   \* bound on the events appended
  Restores     \* whether backups of the log are restored

ASSUME LogAssumption ==
  /\ Limit \in Nat \ {0} /\ {Buffer, ReplayLimit, MaxEvents} \subseteq Nat /\ Restores \in BOOLEAN

VARIABLES
  events, nextIndex, lastHash,
  subscribers,   \* the streams in the subscribers map
  channel,       \* per stream, the events in its channel
  closed,        \* streams whose channel is closed
  sending,       \* per appender, the sealed event and whom it is still sent to
  stream,        \* per stream: off, replayed, live, leaving or gone
  received,      \* per stream, the bodies of the events written to the client
  appended,      \* number of events appended; also the body of the last
  backup,        \* the events of a snapshot
  panicked       \* a send on a closed channel

logVars == <<events, nextIndex, lastHash, subscribers, channel, closed, sending, stream, received, appended, backup, panicked>>
chainVars == <<events, nextIndex, lastHash>>
streamVars == <<subscribers, channel, closed, stream, received>>

NoEvent == [index |-> 0, body |-> 0, prev |-> << >>, hash |-> << >>]
Idle == [event |-> NoEvent, to |-> {}]

LogInit ==
  /\ events = << >> /\ nextIndex = 0 /\ lastHash = << >>
  /\ subscribers = {} /\ closed = {} /\ panicked = FALSE
  /\ channel = [s \in Streams |-> << >>]
  /\ sending = [a \in Appenders |-> Idle]
  /\ stream = [s \in Streams |-> "off"]
  /\ received = [s \in Streams |-> << >>]
  /\ appended = 0 /\ backup = << >>

-----------------------------------------------------------------------------
(* Sealing *)

\* computeEventHash: no two inputs have the same hash, and no hash is empty.
ComputeEventHash(index, body, prev) == Append(prev, <<index, body>>)

\* sealEventLocked, from the last index and hash.
Seal(body, index, last) ==
  [index |-> index + 1, body |-> body, prev |-> last, hash |-> ComputeEventHash(index + 1, body, last)]

\* Mutant: the ring keeps its newest event in the first place.
RetainAtFront(log, e) == IF Len(log) >= Limit THEN <<e>> \o Tail(log) ELSE Append(log, e)

\* The oldest event makes room for a new one.
Retain(log, e) == IF Len(log) >= Limit THEN Append(Tail(log), e) ELSE Append(log, e)

Bodies(log) == [i \in DOMAIN log |-> log[i].body]
Least(m, n) == IF m < n THEN m ELSE n

\* Query in ascending order: the oldest events up to the limit (the filters of
\* time, type and text are left out).
Query(log, limit) == SubSeq(Bodies(log), 1, Least(limit, Len(log)))

\* Replace seals the items again, one after the other, from an empty log: the
\* hash after i of them, and the log that results.
HashAfter(items, i) == [k \in 1 .. i |-> <<k, items[k].body>>]
Resealed(items) == [i \in 1 .. Len(items) |-> Seal(items[i].body, i - 1, HashAfter(items, i - 1))]

-----------------------------------------------------------------------------
(* Appending *)

\* Append up to the unlock.
AppendEvent(a) ==
  /\ sending[a].to = {} /\ appended < MaxEvents /\ ~panicked
  /\ LET sealed == Seal(appended + 1, nextIndex, lastHash)
     IN /\ events' = Retain(events, sealed)
        /\ nextIndex' = sealed.index /\ lastHash' = sealed.hash
        /\ sending' = [sending EXCEPT ![a] = [event |-> sealed, to |-> subscribers]]
  /\ appended' = appended + 1
  /\ UNCHANGED <<subscribers, channel, closed, stream, received, backup, panicked>>

\* Mutant: a full channel is not passed over.
SendOverfull(a, s) ==
  /\ s \in sending[a].to /\ ~panicked
  /\ panicked' = (s \in closed)
  /\ channel' = [channel EXCEPT ![s] = Append(@, sending[a].event)]
  /\ sending' = [sending EXCEPT ![a].to = @ \ {s}]
  /\ UNCHANGED <<chainVars, subscribers, closed, stream, received, appended, backup>>

\* One turn of the loop over the subscribers; a full channel is passed over,
\* a closed one ends in a panic.
Send(a, s) ==
  /\ s \in sending[a].to /\ ~panicked
  /\ panicked' = (s \in closed)
  /\ channel' = IF s \notin closed /\ Len(channel[s]) < Buffer
                THEN [channel EXCEPT ![s] = Append(@, sending[a].event)] ELSE channel
  /\ sending' = [sending EXCEPT ![a].to = @ \ {s}]
  /\ UNCHANGED <<chainVars, subscribers, closed, stream, received, appended, backup>>

-----------------------------------------------------------------------------
(* Streams *)

\* handleActivityStream replays the oldest events of the log.
Replay(s) ==
  /\ stream[s] = "off" /\ ~panicked
  /\ received' = [received EXCEPT ![s] = Query(events, ReplayLimit)]
  /\ stream' = [stream EXCEPT ![s] = "replayed"]
  /\ UNCHANGED <<chainVars, subscribers, channel, closed, sending, appended, backup, panicked>>

Subscribe(s) ==
  /\ stream[s] = "replayed" /\ ~panicked
  /\ subscribers' = subscribers \cup {s}
  /\ stream' = [stream EXCEPT ![s] = "live"]
  /\ UNCHANGED <<chainVars, channel, closed, sending, received, appended, backup, panicked>>

Receive(s) ==
  /\ stream[s] = "live" /\ channel[s] # << >> /\ ~panicked
  /\ received' = [received EXCEPT ![s] = Append(@, Head(channel[s]).body)]
  /\ channel' = [channel EXCEPT ![s] = Tail(@)]
  /\ UNCHANGED <<chainVars, subscribers, closed, sending, stream, appended, backup, panicked>>

\* Unsubscribe removes the stream from the map under the lock...
Unsubscribe(s) ==
  /\ stream[s] = "live" /\ ~panicked
  /\ subscribers' = subscribers \ {s}
  /\ stream' = [stream EXCEPT ![s] = "leaving"]
  /\ UNCHANGED <<chainVars, channel, closed, sending, received, appended, backup, panicked>>

\* ...and closes its channel after it.
Close(s) ==
  /\ stream[s] = "leaving" /\ ~panicked
  /\ closed' = closed \cup {s}
  /\ stream' = [stream EXCEPT ![s] = "gone"]
  /\ UNCHANGED <<chainVars, subscribers, channel, sending, received, appended, backup, panicked>>

-----------------------------------------------------------------------------
(* Backup and restore *)

\* A snapshot lists the events.
TakeBackup ==
  /\ Restores /\ backup # events /\ ~panicked
  /\ backup' = events
  /\ UNCHANGED <<chainVars, streamVars, sending, appended, panicked>>

Replace ==
  /\ Restores /\ ~panicked
  /\ events' = Resealed(backup)
  /\ nextIndex' = Len(backup)
  /\ lastHash' = IF backup = << >> THEN << >> ELSE Resealed(backup)[Len(backup)].hash
  /\ UNCHANGED <<streamVars, sending, appended, backup, panicked>>

LogNext ==
  \/ \E a \in Appenders : AppendEvent(a) \/ \E s \in Streams : Send(a, s)
  \/ \E s \in Streams : Replay(s) \/ Subscribe(s) \/ Receive(s) \/ Unsubscribe(s) \/ Close(s)
  \/ TakeBackup \/ Replace

LogSpec == LogInit /\ [][LogNext]_logVars

-----------------------------------------------------------------------------
(* Properties *)

\* VerifyIntegrity's verdict: indices from one, and every hash as expected
\* from the one before, the first from an empty one.
VerifyIntegrity ==
  \A i \in 1 .. Len(events) :
    LET prev == IF i = 1 THEN << >> ELSE events[i - 1].hash
    IN /\ events[i].index = i
       /\ events[i].prev = prev
       /\ events[i].hash = ComputeEventHash(events[i].index, events[i].body, prev)

\* The type of every variable.
LogTypeOK ==
  /\ Len(events) <= Limit /\ nextIndex \in 0 .. MaxEvents /\ appended \in 0 .. MaxEvents
  /\ subscribers \subseteq Streams /\ closed \subseteq Streams /\ panicked \in BOOLEAN
  /\ \A s \in Streams : Len(channel[s]) <= Buffer /\ stream[s] \in {"off", "replayed", "live", "leaving", "gone"}
  /\ \A a \in Appenders : sending[a].to \subseteq Streams

\* The retained events form one chain that ends in the state the next event
\* is sealed from, whatever was dropped or restored.
ChainLinked ==
  /\ \A i \in 1 .. Len(events) - 1 :
       events[i + 1].index = events[i].index + 1 /\ events[i + 1].prev = events[i].hash
  /\ events # << >> => events[Len(events)].index = nextIndex /\ events[Len(events)].hash = lastHash

\* Until the ring has dropped an event, the log verifies, restored or not.
VerifiesUntilFull == nextIndex <= Limit => VerifyIntegrity

\* The log of a server that nobody tampered with verifies.
LogVerifies == VerifyIntegrity

\* No client is sent an event twice: replay and live events do not overlap.
NoDuplicates ==
  \A s \in Streams : \A i, j \in 1 .. Len(received[s]) : received[s][i] = received[s][j] => i = j

=============================================================================
