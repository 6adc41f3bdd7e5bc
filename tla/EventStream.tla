----------------------------- MODULE EventStream -----------------------------
(***************************************************************************)
(* The progress of one job as its page sees it.  Transactions commit the   *)
(* row and their threads publish a signal afterwards, each in its own time *)
(* (AnalysisEventStreamService, RedisAnalysisEventStore); the page follows *)
(* the events, loads the row again on every event, and polls (CopilotApp,  *)
(* watchJobEvents).                                                        *)
(*                                                                         *)
(* The row is the number of its status, 0 to Final, the terminal one.  An  *)
(* event is [id, n, status]: n numbers what was appended to the stream in  *)
(* Redis (0: it was not; Snapshot: a JOB_SNAPSHOT); id is n, or 0 for an   *)
(* id the stream does not hold, that of a transient event or a snapshot.   *)
(***************************************************************************)
EXTENDS Integers, Sequences, FiniteSets

CONSTANTS
  Final,        \* the terminal status
  MaxLength,    \* event-max-length of the stream
  Reloads,      \* bound: calls of reloadJob that may be under way
  MaxSignals,   \* bound: signals of one job
  MaxFaults     \* bound: faults of any kind

ASSUME StreamAssumption ==
  /\ Final \in Nat \ {0} /\ MaxLength \in Nat \ {0}
  /\ MaxSignals \in Nat /\ MaxFaults \in Nat

VARIABLES
  row,          \* status in PostgreSQL
  pending,      \* statuses whose threads have not published them yet
  stream,       \* the Redis stream
  appended,     \* how many events were ever appended
  conn,         \* the connection: [at, snap]
  wire,         \* events sent on it and not yet handled
  cursor,       \* Last-Event-ID of the page
  view,         \* what the page shows: [status, row]
  watched,      \* the status its effect was run for
  reload,       \* calls of reloadJob: [at, row]
  heard,        \* history: number of the last event handled, 0 after a snapshot
  faults, lost  \* history: number of faults, a call of reloadJob failed

platform == <<row, pending, stream, appended>>
page == <<cursor, view, watched, reload, heard>>
vars == <<platform, conn, wire, page, faults, lost>>

NoCursor == -1
Snapshot == -1
NoConnection == [at |-> "none", snap |-> 0]
NoReload == [at |-> "idle", row |-> 0]

\* The page has just created the job.
Init ==
  /\ row = 0 /\ pending = {} /\ stream = <<>> /\ appended = 0
  /\ conn = NoConnection /\ wire = <<>>
  /\ cursor = NoCursor /\ view = [status |-> 0, row |-> 0] /\ watched = 0
  /\ reload = [r \in Reloads |-> NoReload]
  /\ heard = 0 /\ faults = 0 /\ lost = FALSE

Fault == faults < MaxFaults /\ faults' = faults + 1
NoFault == UNCHANGED <<faults, lost>>

----------------------------------------------------------------------------
(* The platform *)

\* A transaction of the worker or of an approval changes the status; its thread will
\* publish it.  The next transaction may be another thread's, and not wait for that.
Commit ==
  /\ row < Final
  /\ row' = row + 1 /\ pending' = pending \cup {row + 1}
  /\ UNCHANGED <<stream, appended, conn, wire, page>> /\ NoFault

\* A thread that leaves the status alone, the dispatcher's or one that records a step of
\* the agent, reads it for its signal.
Observe ==
  /\ appended + Cardinality(pending) + (Final - row) < MaxSignals
  /\ pending' = pending \cup {row}
  /\ UNCHANGED <<row, stream, appended, conn, wire, page>> /\ NoFault

\* The script: XADD with MAXLEN.
Added(event) ==
  LET longer == Append(stream, event)
  IN SubSeq(longer, IF Len(longer) > MaxLength THEN 2 ELSE 1, Len(longer))

\* broadcast: a terminal event completes the emitter.
Broadcast(event) ==
  IF conn.at = "open"
  THEN /\ wire' = Append(wire, event)
       /\ conn' = IF event.status = Final THEN [conn EXCEPT !.at = "completed"] ELSE conn
  ELSE UNCHANGED <<conn, wire>>

\* publish, under the lock of the job.  When the append fails, before or after Redis has
\* executed the script, a transient event is sent instead.
Publish(status) ==
  LET n == appended + 1
      stored == [id |-> n, n |-> n, status |-> status]
  IN /\ status \in pending
     /\ pending' = pending \ {status}
     /\ \/ stream' = Added(stored) /\ appended' = n /\ Broadcast(stored) /\ UNCHANGED faults
        \/ stream' = Added(stored) /\ appended' = n /\ Broadcast([stored EXCEPT !.id = 0]) /\ Fault
        \/ UNCHANGED <<stream, appended>> /\ Broadcast([id |-> 0, n |-> 0, status |-> status]) /\ Fault
     /\ UNCHANGED <<row, page, lost>>

\* Redis loses its data, or the retention ends.
Flush ==
  /\ stream # <<>> /\ stream' = <<>>
  /\ Fault
  /\ UNCHANGED <<row, pending, appended, conn, wire, page, lost>>

\* The handler of events reads the job before subscribe takes the lock.
ReadSnapshot ==
  /\ conn.at = "none" /\ watched # Final
  /\ conn' = [at |-> "asked", snap |-> row]
  /\ UNCHANGED <<platform, wire, page>> /\ NoFault

Holds(events, id) == \E i \in DOMAIN events : events[i].id = id

\* after: the events behind the one with the id.
After(events, id) ==
  LET index == CHOOSE i \in DOMAIN events : events[i].id = id
  IN CASE id = NoCursor     -> events
       [] Holds(events, id) -> SubSeq(events, index + 1, Len(events))
       [] OTHER             -> <<>>

\* Mutant: an id the stream does not hold is taken for the last one.
MutNeedsSnapshot(events) == events = <<>>

NeedsSnapshot(events) == events = <<>> \/ (cursor # NoCursor /\ ~Holds(events, cursor))

\* subscribe, under the lock; the stream may be unreadable.
Subscribe ==
  /\ conn.at = "asked"
  /\ \E events \in {stream, <<>>} :
       /\ IF events = stream THEN UNCHANGED faults ELSE Fault
       /\ wire' = IF NeedsSnapshot(events) THEN <<[id |-> 0, n |-> Snapshot, status |-> conn.snap]>>
                  ELSE After(events, cursor)
  /\ conn' = [at |-> IF conn.snap = Final THEN "completed" ELSE "open", snap |-> 0]
  /\ UNCHANGED <<platform, page, lost>>

\* The connection breaks, or the emitter times out.
Drop ==
  /\ conn.at # "none"
  /\ conn' = NoConnection /\ wire' = <<>>
  /\ Fault
  /\ UNCHANGED <<platform, page, lost>>

\* The process ends: signals, emitters and requests are gone.
Crash ==
  /\ pending' = {} /\ conn' = NoConnection /\ wire' = <<>>
  /\ reload' = [r \in Reloads |-> NoReload]
  /\ lost' = (lost \/ reload' # reload)
  /\ Fault
  /\ UNCHANGED <<row, stream, appended, cursor, view, watched, heard>>

----------------------------------------------------------------------------
(* The page *)

\* reloadJob begins.
Reload == \E r \in Reloads : reload[r].at = "idle" /\ reload' = [reload EXCEPT ![r].at = "sent"]

\* The handler of an event: the cursor, the status shown, and reloadJob.
OnEvent ==
  /\ wire # <<>>
  /\ LET event == Head(wire) IN
     /\ cursor' = event.id
     /\ view' = [view EXCEPT !.status = event.status]
     /\ heard' = CASE event.n = Snapshot -> 0 [] event.n = 0 -> heard [] OTHER -> event.n
  /\ wire' = Tail(wire)
  /\ Reload
  /\ UNCHANGED <<platform, conn, watched>> /\ NoFault

\* The stream ends; watchJobEvents connects again after a while.
StreamEnds ==
  /\ conn.at = "completed" /\ wire = <<>>
  /\ conn' = NoConnection
  /\ UNCHANGED <<platform, wire, page>> /\ NoFault

\* The effect depends on the status: it is cleaned up and, unless the status is
\* terminal, run again with the cursor of the last event.
Effect ==
  /\ watched # view.status
  /\ watched' = view.status
  /\ conn' = NoConnection /\ wire' = <<>>
  /\ UNCHANGED <<platform, cursor, view, reload, heard>> /\ NoFault

\* Mutant: the page polls only while it has no connection.
MutPolling == watched # Final /\ conn.at = "none"

\* The interval lives as long as the effect that was run for a status that is not terminal.
Polling == watched # Final

Poll ==
  /\ Polling
  /\ Reload
  /\ UNCHANGED <<platform, conn, wire, cursor, view, watched, heard>> /\ NoFault

\* GET of the job is answered with the row of this moment ...
ReadRow(r) ==
  /\ reload[r].at = "sent"
  /\ reload' = [reload EXCEPT ![r] = [at |-> "read", row |-> row]]
  /\ UNCHANGED <<platform, conn, wire, cursor, view, watched, heard>> /\ NoFault

\* ... and shown at another; answers may overtake each other.
Reloaded(r) ==
  /\ reload[r].at = "read"
  /\ view' = [status |-> reload[r].row, row |-> reload[r].row]
  /\ reload' = [reload EXCEPT ![r] = NoReload]
  /\ UNCHANGED <<platform, conn, wire, cursor, watched, heard>> /\ NoFault

\* The error of a call that fails is dropped.
ReloadFails(r) ==
  /\ reload[r].at # "idle"
  /\ reload' = [reload EXCEPT ![r] = NoReload]
  /\ lost' = TRUE
  /\ Fault
  /\ UNCHANGED <<platform, conn, wire, cursor, view, watched, heard>>

----------------------------------------------------------------------------

Next ==
  \/ Commit \/ Observe \/ (\E s \in pending : Publish(s)) \/ Flush
  \/ ReadSnapshot \/ Subscribe \/ Drop \/ Crash
  \/ OnEvent \/ StreamEnds \/ Effect \/ Poll
  \/ \E r \in Reloads : ReadRow(r) \/ Reloaded(r) \/ ReloadFails(r)

\* The interval fires, requests are answered or fail, and React runs the effect.  Nothing
\* is assumed of threads that publish, nor of the stream: the page has no need of them.
Fairness ==
  /\ WF_vars(Poll) /\ WF_vars(Effect)
  /\ \A r \in Reloads : WF_vars(ReadRow(r)) /\ WF_vars(Reloaded(r))

Spec == Init /\ [][Next]_vars /\ Fairness

----------------------------------------------------------------------------
(* Properties *)

\* A page that comes back with the id of an event receives the events behind it: until it
\* is sent a snapshot, the next appended event it handles is the successor of the last
\* one, over any number of connections, publishes that race a subscription, a stream cut
\* to its length, and appends that Redis executed without answering.  (publish and
\* subscribe under one lock, after, contains)
NoSilentGap == wire # <<>> /\ heard # 0 /\ Head(wire).n > 0 => Head(wire).n = heard + 1

\* The page ends with the status of the row whatever is lost or late: a terminal event that
\* is missed behind a snapshot read before it, signals that overtake each other, an answer
\* that was overtaken and sets the page back from the terminal status, at which it had
\* stopped to poll; and it ends with the rest of the row, its answer, unless a call of
\* reloadJob has failed.
ClientShowsResult ==
  <>[](row = Final => view.status = Final /\ (view.row = Final \/ lost))
=============================================================================
