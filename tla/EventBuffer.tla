---------------------------- MODULE EventBuffer ----------------------------
(***************************************************************************)
(* The way of a meeting event to meetings.jsonl: BufferedWriter            *)
(* (io/buffered_writer.py), filled by the pipeline thread of a run and     *)
(* flushed by it and by the thread of a FlushManager (io/flush_manager.py).*)
(* Each run has a writer of its own; runs of one session share the file.   *)
(*                                                                         *)
(* A flush reaches the file in chunks, which need not end where a line     *)
(* ends.  A line is therefore two pieces, and a reader finds an event only *)
(* where its two pieces stand on a line of their own.                      *)
(***************************************************************************)
EXTENDS Integers, Sequences, Functions

CONSTANTS
  Writers,     (* the runs of the session, one BufferedWriter each          *)
  Threshold,   (* flush_threshold                                           *)
  MaxEvents,   (* bound: events the runs emit                               *)
  MaxFaults    (* bound: flushes that fail, and crashes of the bridge       *)

ASSUME ThresholdAssumption == Threshold \in Nat \ {0}
ASSUME MaxEventsAssumption == MaxEvents \in Nat
ASSUME MaxFaultsAssumption == MaxFaults \in Nat

FirstPart == "first"
LastPart == "last"

VARIABLES
  run,       (* the pipeline thread of each run                             *)
  flusher,   (* the thread of its FlushManager                              *)
  stopping,  (* _stop_event of the FlushManager                             *)
  emitted,   (* events the run has emitted; event i is the i-th             *)
  buffer,    (* _buffer                                                     *)
  pending,   (* _pending                                                    *)
  lock,      (* _lock: free, or the thread that flushes                     *)
  done,      (* pieces of the buffer the flush in progress has written      *)
  file,      (* meetings.jsonl, as pieces                                   *)
  faults,    (* faults so far                                               *)
  crashed,   (* history: runs that died with the bridge                     *)
  cut        (* history: a line was left half written or two flushes met    *)

threadVars == <<run, flusher, stopping>>
bufferVars == <<emitted, buffer, pending>>
vars == <<threadVars, bufferVars, lock, done, file, faults, crashed, cut>>

(* idle: not started.  running: the pipeline runs.  appending, flushing,   *)
(* finishing: in a flush called by append, by the end of a phase, by       *)
(* FlushManager.stop.  joining: waits for the flusher.  last: about to     *)
(* make the final flush.                                                   *)
RunStates == {"idle", "running", "appending", "flushing", "joining", "last", "finishing",
              "done"}
FlusherStates == {"absent", "waiting", "flushing", "exited", "dead"}

Events == Nat \ {0}
Piece(w, i, part) == [writer |-> w, event |-> i, part |-> part]
Pieces == [writer : Writers, event : Events, part : {FirstPart, LastPart}]

(* The k-th piece of a flush of the buffer b of writer w, whose lines are  *)
(* written from the first to the last.                                     *)
PieceOfBug(w, b, k) ==
  Piece(w, b[Len(b) + 1 - ((k + 1) \div 2)], IF k % 2 = 1 THEN FirstPart ELSE LastPart)
PieceOf(w, b, k) == Piece(w, b[(k + 1) \div 2], IF k % 2 = 1 THEN FirstPart ELSE LastPart)

(* The event stands on line k, k + 1 of the file f, alone.                 *)
StandsAt(f, w, i, k) ==
  /\ k + 1 \in DOMAIN f
  /\ f[k] = Piece(w, i, FirstPart) /\ f[k + 1] = Piece(w, i, LastPart)
  /\ k = 1 \/ f[k - 1].part = LastPart

Stands(w, i) == \E k \in DOMAIN file : StandsAt(file, w, i, k)
Buffered(w, i) == \E k \in DOMAIN buffer[w] : buffer[w][k] = i

Init ==
  /\ run = [w \in Writers |-> "idle"]
  /\ flusher = [w \in Writers |-> "absent"]
  /\ stopping = [w \in Writers |-> FALSE]
  /\ emitted = [w \in Writers |-> 0]
  /\ buffer = [w \in Writers |-> <<>>]
  /\ pending = [w \in Writers |-> FALSE]
  /\ lock = [w \in Writers |-> "free"]
  /\ done = [w \in Writers |-> 0]
  /\ file = <<>>
  /\ faults = 0
  /\ crashed = {}
  /\ cut = FALSE

-----------------------------------------------------------------------------
(* What the steps compute.  A definition named ...Bug is the code with a   *)
(* plausible fault; the mutation runs put it in the place of the operator  *)
(* that follows it.                                                        *)

(* The number of the next event of the run.                                *)
NextEventBug(w) == emitted[w]
NextEvent(w) == emitted[w] + 1

(* append: the buffer is full and is flushed at once.                      *)
Full(b) == Len(b) >= Threshold

(* _flush_locked clears the buffer when the lines have been written, not   *)
(* when writing them failed.                                               *)
AfterFlushBug(b) == b
AfterFlush(b) == <<>>
AfterFailureBug(b) == <<>>
AfterFailure(b) == b

(* maybe_flush has nothing to do.                                          *)
NothingPendingBug(w) == ~pending[w] \/ Len(buffer[w]) < Threshold
NothingPending(w) == ~pending[w]

(* Which thread may enter a "with self._lock" block.                       *)
MayLockBug(w) == lock[w] # "pipeline"
MayLock(w) == lock[w] = "free"

(* FlushManager.stop flushes what the background thread has left.          *)
LastFlushNeededBug(w) == FALSE
LastFlushNeeded(w) == buffer[w] # <<>>

(* The events of all runs.                                                 *)
Total == FoldFunction(LAMBDA n, m : n + m, 0, emitted)

StartFlush(w, thread) ==
  /\ lock' = [lock EXCEPT ![w] = thread]
  /\ done' = [done EXCEPT ![w] = 0]

-----------------------------------------------------------------------------
(* The pipeline thread.                                                    *)

(* flush_mgr.start() and the first statements of the run.                  *)
Start(w) ==
  /\ run[w] = "idle"
  /\ run' = [run EXCEPT ![w] = "running"]
  /\ flusher' = [flusher EXCEPT ![w] = "waiting"]
  /\ UNCHANGED <<stopping, bufferVars, lock, done, file, faults, crashed, cut>>

(* append, with the flush it starts when the buffer is full.               *)
AppendEvent(w) ==
  /\ run[w] = "running" /\ MayLock(w)
  /\ Total < MaxEvents
  /\ emitted' = [emitted EXCEPT ![w] = @ + 1]
  /\ buffer' = [buffer EXCEPT ![w] = Append(@, NextEvent(w))]
  /\ pending' = [pending EXCEPT ![w] = TRUE]
  /\ IF Full(buffer'[w])
     THEN run' = [run EXCEPT ![w] = "appending"] /\ StartFlush(w, "pipeline")
     ELSE UNCHANGED <<run, lock, done>>
  /\ UNCHANGED <<flusher, stopping, file, faults, crashed, cut>>

(* flush, at the end of a phase.                                           *)
FlushPhase(w) ==
  /\ run[w] = "running" /\ MayLock(w)
  /\ buffer[w] # <<>>
  /\ run' = [run EXCEPT ![w] = "flushing"]
  /\ StartFlush(w, "pipeline")
  /\ UNCHANGED <<flusher, stopping, bufferVars, file, faults, crashed, cut>>

(* The run is over: FlushManager.stop sets the event ...                   *)
Stop(w) ==
  /\ run[w] = "running"
  /\ run' = [run EXCEPT ![w] = "joining"]
  /\ stopping' = [stopping EXCEPT ![w] = TRUE]
  /\ UNCHANGED <<flusher, bufferVars, lock, done, file, faults, crashed, cut>>

(* ... waits for the thread, which a slow flush may outlast ...            *)
Join(w) ==
  /\ run[w] = "joining"
  /\ run' = [run EXCEPT ![w] = "last"]
  /\ UNCHANGED <<flusher, stopping, bufferVars, lock, done, file, faults, crashed, cut>>

(* ... and flushes what is left.                                           *)
FlushLast(w) ==
  /\ run[w] = "last" /\ MayLock(w)
  /\ IF LastFlushNeeded(w)
     THEN run' = [run EXCEPT ![w] = "finishing"] /\ StartFlush(w, "pipeline")
     ELSE run' = [run EXCEPT ![w] = "done"] /\ UNCHANGED <<lock, done>>
  /\ UNCHANGED <<flusher, stopping, bufferVars, file, faults, crashed, cut>>

-----------------------------------------------------------------------------
(* The thread of the FlushManager.                                         *)

(* The interval has passed: maybe_flush.                                   *)
Tick(w) ==
  /\ flusher[w] = "waiting" /\ MayLock(w)
  /\ ~NothingPending(w) /\ buffer[w] # <<>>
  /\ flusher' = [flusher EXCEPT ![w] = "flushing"]
  /\ StartFlush(w, "flusher")
  /\ UNCHANGED <<run, stopping, bufferVars, file, faults, crashed, cut>>

(* The loop sees the event.                                                *)
Exit(w) ==
  /\ flusher[w] = "waiting" /\ stopping[w]
  /\ flusher' = [flusher EXCEPT ![w] = "exited"]
  /\ UNCHANGED <<run, stopping, bufferVars, lock, done, file, faults, crashed, cut>>

-----------------------------------------------------------------------------
(* _flush_locked, by the thread that holds the lock.                       *)

Flushing(w) == lock[w] # "free"

(* Another writer has written a part of its buffer and will write more.    *)
Overlaps(w) == \E v \in Writers \ {w} : Flushing(v) /\ done[v] > 0

WritePiece(w) ==
  /\ Flushing(w) /\ done[w] < 2 * Len(buffer[w])
  /\ file' = Append(file, PieceOf(w, buffer[w], done[w] + 1))
  /\ done' = [done EXCEPT ![w] = @ + 1]
  /\ cut' = (cut \/ Overlaps(w))
  /\ UNCHANGED <<threadVars, bufferVars, lock, faults, crashed>>

(* The thread leaves the lock and goes on where it came from.              *)
Release(w, runNext, flusherNext) ==
  /\ lock' = [lock EXCEPT ![w] = "free"]
  /\ done' = [done EXCEPT ![w] = 0]
  /\ run' = [run EXCEPT ![w] = IF lock[w] = "pipeline" THEN runNext ELSE @]
  /\ flusher' = [flusher EXCEPT ![w] = IF lock[w] = "flusher" THEN flusherNext ELSE @]

FlushDone(w) ==
  /\ Flushing(w) /\ done[w] = 2 * Len(buffer[w])
  /\ buffer' = [buffer EXCEPT ![w] = AfterFlush(@)]
  /\ pending' = [pending EXCEPT ![w] = FALSE]
  /\ Release(w, IF run[w] = "finishing" THEN "done" ELSE "running", "waiting")
  /\ UNCHANGED <<stopping, emitted, file, faults, crashed, cut>>

(* mkdir, open or write raises; what was written stays.  An exception in   *)
(* append fails the phase, one at the end of a phase the run, which then   *)
(* stops; it ends the thread of the FlushManager for good.                 *)
FlushFails(w) ==
  /\ Flushing(w) /\ faults < MaxFaults
  /\ faults' = faults + 1
  /\ buffer' = [buffer EXCEPT ![w] = AfterFailure(@)]
  /\ Release(w, CASE run[w] = "appending" -> "running"
                  [] run[w] = "flushing" -> "joining"
                  [] OTHER -> "done", "dead")
  /\ stopping' = [stopping EXCEPT ![w] = @ \/ run'[w] = "joining"]
  /\ cut' = (cut \/ done[w] % 2 = 1)
  /\ UNCHANGED <<emitted, pending, file, crashed>>

(* The bridge dies: the threads of the runs it had, and their buffers, are *)
(* gone.  Runs that have not started yet are those of the next bridge.     *)
Crash ==
  LET alive == {w \in Writers : run[w] \notin {"idle", "done"}
                                \/ flusher[w] \in {"waiting", "flushing"}}
  IN
  /\ faults < MaxFaults /\ alive # {}
  /\ faults' = faults + 1
  /\ crashed' = crashed \cup alive
  /\ run' = [w \in Writers |-> IF w \in alive THEN "done" ELSE run[w]]
  /\ flusher' = [w \in Writers |-> IF w \in alive THEN "exited" ELSE flusher[w]]
  /\ buffer' = [w \in Writers |-> IF w \in alive THEN <<>> ELSE buffer[w]]
  /\ pending' = [w \in Writers |-> IF w \in alive THEN FALSE ELSE pending[w]]
  /\ lock' = [w \in Writers |-> "free"]
  /\ done' = [w \in Writers |-> 0]
  /\ cut' = (cut \/ \E w \in Writers : Flushing(w) /\ done[w] % 2 = 1)
  /\ UNCHANGED <<stopping, emitted, file>>

(* A thread that is not waiting for a user goes on.                        *)
Advance(w) ==
  \/ Join(w) \/ FlushLast(w) \/ Exit(w) \/ WritePiece(w) \/ FlushDone(w)

Next ==
  \/ \E w \in Writers :
       \/ Start(w) \/ AppendEvent(w) \/ FlushPhase(w) \/ Stop(w) \/ Tick(w)
       \/ FlushFails(w) \/ Advance(w)
  \/ Crash

(* Threads are scheduled and the flusher wakes up.  Nothing is assumed of  *)
(* the pipeline: it may emit no more, and need not end.                    *)
Fairness ==
  \A w \in Writers :
    /\ WF_vars(Advance(w))
    /\ WF_vars(Tick(w))

Spec == Init /\ [][Next]_vars
FairSpec == Spec /\ Fairness

-----------------------------------------------------------------------------
(* The type invariant. *)
TypeOK ==
  /\ run \in [Writers -> RunStates]
  /\ flusher \in [Writers -> FlusherStates]
  /\ stopping \in [Writers -> BOOLEAN]
  /\ emitted \in [Writers -> Nat]
  /\ buffer \in [Writers -> Seq(Events)]
  /\ pending \in [Writers -> BOOLEAN]
  /\ lock \in [Writers -> {"free", "pipeline", "flusher"}]
  /\ done \in [Writers -> Nat]
  /\ file \in Seq(Pieces)
  /\ faults \in 0 .. MaxFaults
  /\ crashed \subseteq Writers
  /\ cut \in BOOLEAN

(* No event is lost between memory and disk: what a run has emitted stands *)
(* in the file or is still in the buffer, through failed flushes too, as   *)
(* long as none was cut inside a line and the bridge lives.                *)
NoEventLost ==
  ~cut =>
    \A w \in Writers \ crashed : \A i \in 1 .. emitted[w] : Buffered(w, i) \/ Stands(w, i)

(* The file has the events of a run in the order of their emission: before *)
(* the first copy of an event stand copies of all earlier ones.            *)
EventsInOrder ==
  ~cut =>
    \A w \in Writers : \A i \in 1 .. emitted[w] : \A k \in DOMAIN file :
      StandsAt(file, w, i, k) =>
        \A j \in 1 .. i - 1 : \E m \in 1 .. k - 1 : StandsAt(file, w, j, m)

(* An event is written twice only because a flush failed: the flushes of   *)
(* the two threads of a run never write the same lines.                    *)
OnceWithoutFault ==
  faults = 0 =>
    \A j, k \in DOMAIN file : file[j] = file[k] => j = k

(* When the run has ended without a fault, all of its events are in the    *)
(* file; nobody is left who would write them.                              *)
EndedRunIsOnDisk ==
  \A w \in Writers :
    run[w] = "done" /\ faults = 0 =>
      /\ buffer[w] = <<>>
      /\ cut \/ \A i \in 1 .. emitted[w] : Stands(w, i)

(* No event stays in memory: while the flusher lives, the buffer of a run  *)
(* is emptied again and again, also when the run emits less than a         *)
(* threshold of events.                                                    *)
BufferDrains ==
  \A w \in Writers :
    buffer[w] # <<>> ~> (buffer[w] = <<>> \/ faults > 0)

=============================================================================
