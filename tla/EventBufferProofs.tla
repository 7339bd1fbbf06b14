------------------------- MODULE EventBufferProofs -------------------------
(***************************************************************************)
(* Proofs about EventBuffer: its type, and what the meeting file holds of  *)
(* the events that were emitted.                                           *)
(***************************************************************************)
EXTENDS EventBuffer, TLAPS

(* The events of run w that have left the buffer for the file.             *)
Written(w) == emitted[w] - Len(buffer[w])

(* A buffer holds the last events of its run, in order.                    *)
Consecutive ==
  \A w \in Writers :
    /\ Len(buffer[w]) <= emitted[w]
    /\ \A k \in 1 .. Len(buffer[w]) : buffer[w][k] = Written(w) + k

(* Only the thread that holds the lock has begun to write, and it writes   *)
(* no more than the buffer.                                                *)
Holding ==
  \A w \in Writers :
    /\ done[w] > 0 => lock[w] # "free"
    /\ done[w] <= 2 * Len(buffer[w])

(* A run that died with the bridge has no thread left.                     *)
DeadStaysDead ==
  /\ \A w \in crashed : run[w] = "done" /\ flusher[w] = "exited" /\ lock[w] = "free"
  /\ faults = 0 => crashed = {}

(* As long as no line was cut, the file consists of whole lines but for the*)
(* one being written,                                                      *)
Lines ==
  ~cut =>
    \A k \in 1 .. Len(file) :
      /\ k % 2 = 1 => file[k].part = FirstPart
      /\ k % 2 = 0 => file[k] = Piece(file[k - 1].writer, file[k - 1].event, LastPart)

(* and it ends with what the flush in progress has written.                *)
Tails ==
  ~cut =>
    /\ (\A w \in Writers : done[w] = 0) => Len(file) % 2 = 0
    /\ \A w \in Writers : done[w] > 0 =>
         /\ done[w] <= Len(file)
         /\ (Len(file) - done[w]) % 2 = 0
         /\ \A k \in 1 .. done[w] : file[Len(file) - done[w] + k] = PieceOf(w, buffer[w], k)

(* What has left the buffer stands in the file.                            *)
OnDisk == ~cut => \A w \in Writers \ crashed : \A i \in 1 .. Written(w) : Stands(w, i)

(* Without a fault, the pieces of a run in the file are those its flushes  *)
(* have come to so far.                                                    *)
Rank(p) == 2 * p.event - (IF p.part = FirstPart THEN 1 ELSE 0)
Bounded ==
  faults = 0 =>
    \A k \in 1 .. Len(file) :
      Rank(file[k]) <= 2 * Written(file[k].writer) + done[file[k].writer]

(* A run that has ended without a fault has an empty buffer.               *)
EndsEmpty == faults = 0 => \A w \in Writers : run[w] = "done" => buffer[w] = <<>>

(* Whatever stands in the file, all earlier events stand before it.        *)
InOrder ==
  ~cut =>
    \A w \in Writers : \A i \in Events : \A k \in DOMAIN file :
      StandsAt(file, w, i, k) =>
        \A j \in 1 .. i - 1 : \E m \in 1 .. k - 1 : StandsAt(file, w, j, m)

BufferInv ==
  /\ TypeOK /\ Consecutive /\ Holding /\ DeadStaysDead
  /\ Lines /\ Tails /\ OnDisk /\ InOrder
  /\ Bounded /\ OnceWithoutFault /\ EndsEmpty

-----------------------------------------------------------------------------
(* What the steps do to the events.                                        *)

Quiet == UNCHANGED <<emitted, buffer, done, file, faults, crashed, cut>>

Appends(w) ==
  /\ run[w] = "running" /\ lock[w] = "free"
  /\ emitted' = [emitted EXCEPT ![w] = @ + 1]
  /\ buffer' = [buffer EXCEPT ![w] = Append(@, emitted[w] + 1)]
  /\ run'[w] # "done"
  /\ UNCHANGED <<done, file, faults, crashed, cut>>

Writes(w) ==
  /\ lock[w] # "free" /\ done[w] < 2 * Len(buffer[w])
  /\ file' = Append(file, PieceOf(w, buffer[w], done[w] + 1))
  /\ done' = [done EXCEPT ![w] = @ + 1]
  /\ cut' = (cut \/ Overlaps(w))
  /\ UNCHANGED <<emitted, buffer, lock, run, faults, crashed>>

Empties(w) ==
  /\ lock[w] # "free" /\ done[w] = 2 * Len(buffer[w])
  /\ buffer' = [buffer EXCEPT ![w] = <<>>]
  /\ done' = [done EXCEPT ![w] = 0]
  /\ UNCHANGED <<emitted, file, faults, crashed, cut>>

GivesUp(w) ==
  /\ faults' = faults + 1
  /\ done' = [done EXCEPT ![w] = 0]
  /\ cut' = (cut \/ done[w] % 2 = 1)
  /\ UNCHANGED <<emitted, buffer, file, crashed>>

LEMMA StepKinds ==
  ASSUME TypeOK, Holding, [Next]_vars
  PROVE  \/ Quiet \/ Crash
         \/ \E w \in Writers : Appends(w) \/ Writes(w) \/ Empties(w) \/ GivesUp(w)
<1>1. \A w \in Writers : lock[w] = "free" => [done EXCEPT ![w] = 0] = done
  <2> SUFFICES ASSUME NEW w \in Writers, lock[w] = "free" PROVE [done EXCEPT ![w] = 0] = done
    OBVIOUS
  <2>1. done \in [Writers -> Nat] /\ done[w] = 0
    BY DEF TypeOK, Holding
  <2> QED
    BY <2>1
<1>2. CASE UNCHANGED vars
  BY <1>2 DEF vars, bufferVars, Quiet
<1>3. ASSUME NEW w \in Writers, Start(w) \/ Stop(w) \/ Join(w) \/ Exit(w) PROVE Quiet
  BY <1>3 DEF Start, Stop, Join, Exit, bufferVars, Quiet
<1>4. ASSUME NEW w \in Writers, FlushPhase(w) \/ FlushLast(w) \/ Tick(w) PROVE Quiet
  BY <1>1, <1>4 DEF FlushPhase, FlushLast, Tick, StartFlush, MayLock, bufferVars, Quiet
<1>5. ASSUME NEW w \in Writers, AppendEvent(w) PROVE Appends(w)
  <2>1. run \in [Writers -> RunStates]
    BY DEF TypeOK
  <2>2. run'[w] # "done"
    BY <1>5, <2>1 DEF AppendEvent
  <2> QED
    BY <1>1, <1>5, <2>2 DEF AppendEvent, StartFlush, MayLock, NextEvent, Appends
<1>6. ASSUME NEW w \in Writers, WritePiece(w) PROVE Writes(w)
  BY <1>6 DEF WritePiece, Flushing, threadVars, bufferVars, Writes
<1>7. ASSUME NEW w \in Writers, FlushDone(w) PROVE Empties(w)
  BY <1>7 DEF FlushDone, Flushing, AfterFlush, Release, Empties
<1>8. ASSUME NEW w \in Writers, FlushFails(w) PROVE GivesUp(w)
  <2>1. [buffer EXCEPT ![w] = buffer[w]] = buffer
    BY DEF TypeOK
  <2> QED
    BY <1>8, <2>1 DEF FlushFails, AfterFailure, Release, GivesUp
<1> QED
  BY <1>2, <1>3, <1>4, <1>5, <1>6, <1>7, <1>8 DEF Next, Advance

LEMMA Halves ==
  ASSUME NEW n \in Nat, NEW k \in 1 .. 2 * n
  PROVE  /\ (k + 1) \div 2 \in 1 .. n
         /\ k % 2 = 1 => k = 2 * ((k + 1) \div 2) - 1
         /\ k % 2 = 0 => k = 2 * ((k + 1) \div 2)
         /\ k % 2 \in {0, 1}
  OBVIOUS

LEMMA Parity ==
  ASSUME NEW L \in Nat, NEW d \in Nat, (L - d) % 2 = 0
  PROVE  /\ d % 2 = 0 \/ d % 2 = 1
         /\ d % 2 = 0 => L % 2 = 0 /\ (L + 1) % 2 = 1 /\ (d + 1) % 2 = 1
         /\ d % 2 = 1 =>
              /\ (L + 1) % 2 = 0 /\ (d + 1) % 2 = 0 /\ d > 0
              /\ (d + 1 + 1) \div 2 = (d + 1) \div 2
  OBVIOUS

LEMMA DoubleIsEven == ASSUME NEW n \in Nat PROVE (2 * n) % 2 = 0
  OBVIOUS

LEMMA PieceTyped ==
  ASSUME TypeOK, NEW w \in Writers, NEW k \in 1 .. 2 * Len(buffer[w])
  PROVE  PieceOf(w, buffer[w], k) \in Pieces
<1>1. buffer[w] \in Seq(Events) /\ Len(buffer[w]) \in Nat
  BY DEF TypeOK
<1>2. buffer[w][(k + 1) \div 2] \in Events
  <2>1. (k + 1) \div 2 \in 1 .. Len(buffer[w])
    BY <1>1, Halves
  <2> QED
    BY <1>1, <2>1
<1> QED
  BY <1>2 DEF PieceOf, Piece, Pieces

LEMMA StartFlushTyped ==
  ASSUME TypeOK, NEW w \in Writers, NEW t \in {"pipeline", "flusher"},
         StartFlush(w, t) \/ UNCHANGED <<lock, done>>
  PROVE  lock' \in [Writers -> {"free", "pipeline", "flusher"}] /\ done' \in [Writers -> Nat]
<1>1. lock \in [Writers -> {"free", "pipeline", "flusher"}] /\ done \in [Writers -> Nat]
  BY DEF TypeOK
<1>2. CASE StartFlush(w, t)
  <2>1. lock' = [lock EXCEPT ![w] = t] /\ done' = [done EXCEPT ![w] = 0]
    BY <1>2 DEF StartFlush
  <2> QED
    BY <1>1, <2>1
<1> QED
  BY <1>1, <1>2

LEMMA TypeStep == TypeOK /\ [Next]_vars => TypeOK'
<1> SUFFICES ASSUME TypeOK, [Next]_vars PROVE TypeOK'
  OBVIOUS
<1> USE DEF TypeOK, threadVars, bufferVars, RunStates, FlusherStates
<1>1. CASE UNCHANGED vars
  BY <1>1 DEF vars
<1>2. ASSUME NEW w \in Writers, Start(w) \/ Stop(w) \/ Join(w) \/ Exit(w) PROVE TypeOK'
  BY <1>2 DEF Start, Stop, Join, Exit
<1>3. ASSUME NEW w \in Writers, FlushPhase(w) \/ FlushLast(w) \/ Tick(w) PROVE TypeOK'
  <2>1. lock' \in [Writers -> {"free", "pipeline", "flusher"}] /\ done' \in [Writers -> Nat]
    BY <1>3, StartFlushTyped DEF FlushPhase, FlushLast, Tick
  <2>2. run' \in [Writers -> RunStates] /\ flusher' \in [Writers -> FlusherStates]
    BY <1>3 DEF FlushPhase, FlushLast, Tick
  <2> QED
    BY <1>3, <2>1, <2>2 DEF FlushPhase, FlushLast, Tick
<1>4. ASSUME NEW w \in Writers, AppendEvent(w) PROVE TypeOK'
  <2>1. NextEvent(w) \in Events
    BY DEF NextEvent, Events
  <2>2. buffer' \in [Writers -> Seq(Events)]
    BY <1>4, <2>1 DEF AppendEvent
  <2>3. emitted' \in [Writers -> Nat] /\ pending' \in [Writers -> BOOLEAN]
    BY <1>4 DEF AppendEvent
  <2>4. lock' \in [Writers -> {"free", "pipeline", "flusher"}] /\ done' \in [Writers -> Nat]
    BY <1>4, StartFlushTyped DEF AppendEvent
  <2>5. run' \in [Writers -> RunStates]
    BY <1>4 DEF AppendEvent
  <2> QED
    BY <1>4, <2>2, <2>3, <2>4, <2>5 DEF AppendEvent
<1>5. ASSUME NEW w \in Writers, WritePiece(w) PROVE TypeOK'
  <2>1. done[w] + 1 \in 1 .. 2 * Len(buffer[w])
    BY <1>5 DEF WritePiece
  <2>2. PieceOf(w, buffer[w], done[w] + 1) \in Pieces
    BY <2>1, PieceTyped
  <2>3. file' \in Seq(Pieces)
    BY <1>5, <2>2 DEF WritePiece
  <2>4. cut' \in BOOLEAN
    BY <1>5 DEF WritePiece, Overlaps
  <2> QED
    BY <1>5, <2>3, <2>4 DEF WritePiece
<1>6. ASSUME NEW w \in Writers, FlushDone(w) PROVE TypeOK'
  <2>1. <<>> \in Seq(Events)
    OBVIOUS
  <2> QED
    BY <1>6, <2>1 DEF FlushDone, AfterFlush, Release
<1>7. ASSUME NEW w \in Writers, FlushFails(w) PROVE TypeOK'
  <2>1. run' \in [Writers -> RunStates] /\ flusher' \in [Writers -> FlusherStates]
    BY <1>7 DEF FlushFails, Release
  <2>2. faults' \in 0 .. MaxFaults
    BY <1>7, MaxFaultsAssumption DEF FlushFails
  <2> QED
    BY <1>7, <2>1, <2>2 DEF FlushFails, AfterFailure, Release
<1>8. CASE Crash
  <2>1. <<>> \in Seq(Events)
    OBVIOUS
  <2>2. faults' \in 0 .. MaxFaults
    BY <1>8, MaxFaultsAssumption DEF Crash
  <2>3. cut' \in BOOLEAN
    BY <1>8 DEF Crash
  <2>4. /\ run' \in [Writers -> RunStates] /\ flusher' \in [Writers -> FlusherStates]
        /\ buffer' \in [Writers -> Seq(Events)] /\ pending' \in [Writers -> BOOLEAN]
        /\ crashed' \subseteq Writers
    BY <1>8, <2>1 DEF Crash
  <2> QED
    BY <1>8, <2>2, <2>3, <2>4 DEF Crash
<1> HIDE DEF TypeOK
<1> QED
  BY <1>1, <1>2, <1>3, <1>4, <1>5, <1>6, <1>7, <1>8 DEF Next, Advance

LEMMA HoldingStep == TypeOK /\ Holding /\ [Next]_vars => Holding'
<1> SUFFICES ASSUME TypeOK, Holding, [Next]_vars PROVE Holding'
  OBVIOUS
<1> USE DEF TypeOK, Holding, threadVars, bufferVars
<1>1. CASE UNCHANGED vars
  BY <1>1 DEF vars
<1>2. ASSUME NEW w \in Writers, Start(w) \/ Stop(w) \/ Join(w) \/ Exit(w) PROVE Holding'
  BY <1>2 DEF Start, Stop, Join, Exit
<1>3. ASSUME NEW w \in Writers, FlushPhase(w) \/ FlushLast(w) \/ Tick(w) PROVE Holding'
  BY <1>3 DEF FlushPhase, FlushLast, Tick, StartFlush
<1>4. ASSUME NEW w \in Writers, AppendEvent(w) PROVE Holding'
  <2>1. buffer' = [buffer EXCEPT ![w] = Append(@, NextEvent(w))] /\ lock[w] = "free" /\ done[w] = 0
    BY <1>4 DEF AppendEvent, MayLock
  <2>2. \A v \in Writers : Len(buffer'[v]) \in Nat /\ (v # w => buffer'[v] = buffer[v])
    BY <2>1
  <2>3. \A v \in Writers : v # w => lock'[v] = lock[v] /\ done'[v] = done[v]
    BY <1>4 DEF AppendEvent, StartFlush
  <2>4. done'[w] = 0
    BY <1>4, <2>1 DEF AppendEvent, StartFlush
  <2> SUFFICES ASSUME NEW v \in Writers
               PROVE  (done'[v] > 0 => lock'[v] # "free") /\ done'[v] <= 2 * Len(buffer'[v])
    OBVIOUS
  <2>5. CASE v = w
    BY <2>2, <2>4, <2>5
  <2>6. CASE v # w
    BY <2>2, <2>3, <2>6
  <2> QED
    BY <2>5, <2>6
<1>5. ASSUME NEW w \in Writers, WritePiece(w) PROVE Holding'
  BY <1>5 DEF WritePiece, Flushing
<1>6. ASSUME NEW w \in Writers, FlushDone(w) PROVE Holding'
  BY <1>6 DEF FlushDone, AfterFlush, Release
<1>7. ASSUME NEW w \in Writers, FlushFails(w) PROVE Holding'
  BY <1>7 DEF FlushFails, AfterFailure, Release
<1>8. CASE Crash
  <2>1. buffer' \in [Writers -> Seq(Events)]
    BY <1>8 DEF Crash
  <2> QED
    BY <1>8, <2>1 DEF Crash
<1> HIDE DEF Holding
<1> QED
  BY <1>1, <1>2, <1>3, <1>4, <1>5, <1>6, <1>7, <1>8 DEF Next, Advance

LEMMA ConsecutiveStep == TypeOK /\ Holding /\ Consecutive /\ [Next]_vars => Consecutive'
<1> SUFFICES ASSUME TypeOK, Holding, Consecutive, [Next]_vars, NEW v \in Writers
             PROVE  /\ Len(buffer'[v]) <= emitted'[v]
                    /\ \A k \in 1 .. Len(buffer'[v]) :
                         buffer'[v][k] = emitted'[v] - Len(buffer'[v]) + k
  BY DEF Consecutive, Written
<1>1. /\ buffer[v] \in Seq(Events) /\ Len(buffer[v]) \in Nat /\ emitted[v] \in Nat
      /\ Len(buffer[v]) <= emitted[v]
      /\ \A k \in 1 .. Len(buffer[v]) : buffer[v][k] = emitted[v] - Len(buffer[v]) + k
  BY DEF TypeOK, Consecutive, Written
<1>2. CASE buffer'[v] = buffer[v] /\ emitted'[v] = emitted[v]
  BY <1>1, <1>2
<1>3. CASE buffer'[v] = <<>> /\ emitted'[v] = emitted[v]
  BY <1>1, <1>3
<1>4. CASE buffer'[v] = Append(buffer[v], emitted[v] + 1) /\ emitted'[v] = emitted[v] + 1
  <2>1. /\ Len(buffer'[v]) = Len(buffer[v]) + 1
        /\ \A k \in 1 .. Len(buffer[v]) : buffer'[v][k] = buffer[v][k]
        /\ buffer'[v][Len(buffer[v]) + 1] = emitted[v] + 1
    BY <1>1, <1>4
  <2>2. emitted'[v] - Len(buffer'[v]) = emitted[v] - Len(buffer[v])
    BY <1>1, <1>4, <2>1
  <2>3. \A k \in 1 .. Len(buffer'[v]) : k \in 1 .. Len(buffer[v]) \/ k = Len(buffer[v]) + 1
    BY <1>1, <2>1
  <2>4. Len(buffer'[v]) <= emitted'[v]
    BY <1>1, <1>4, <2>1
  <2>5. ASSUME NEW k \in 1 .. Len(buffer'[v])
        PROVE  buffer'[v][k] = emitted[v] - Len(buffer[v]) + k
    <3>1. CASE k \in 1 .. Len(buffer[v])
      BY <1>1, <2>1, <3>1
    <3>2. CASE k = Len(buffer[v]) + 1
      <4>1. emitted[v] + 1 = emitted[v] - Len(buffer[v]) + (Len(buffer[v]) + 1)
        BY <1>1
      <4> QED
        BY <2>1, <3>2, <4>1
    <3> QED
      BY <2>3, <3>1, <3>2
  <2> QED
    BY <2>2, <2>4, <2>5
<1>5. CASE Quiet
  BY <1>2, <1>5 DEF Quiet
<1>6. CASE Crash
  BY <1>2, <1>3, <1>6 DEF Crash
<1>7. ASSUME NEW w \in Writers, Appends(w)
      PROVE  \/ buffer'[v] = buffer[v] /\ emitted'[v] = emitted[v]
             \/ buffer'[v] = Append(buffer[v], emitted[v] + 1) /\ emitted'[v] = emitted[v] + 1
  BY <1>7 DEF Appends, TypeOK
<1>8. ASSUME NEW w \in Writers, Writes(w) \/ GivesUp(w)
      PROVE  buffer'[v] = buffer[v] /\ emitted'[v] = emitted[v]
  BY <1>8 DEF Writes, GivesUp
<1>9. ASSUME NEW w \in Writers, Empties(w)
      PROVE  buffer'[v] \in {buffer[v], <<>>} /\ emitted'[v] = emitted[v]
  BY <1>9 DEF Empties, TypeOK
<1> QED
  BY <1>2, <1>3, <1>4, <1>5, <1>6, <1>7, <1>8, <1>9, StepKinds

LEMMA DeadStep == TypeOK /\ DeadStaysDead /\ [Next]_vars => DeadStaysDead'
<1> SUFFICES ASSUME TypeOK, DeadStaysDead, [Next]_vars PROVE DeadStaysDead'
  OBVIOUS
<1> USE DEF TypeOK, DeadStaysDead, threadVars, bufferVars
<1>1. CASE UNCHANGED vars
  BY <1>1 DEF vars
<1>2. ASSUME NEW w \in Writers, Start(w) \/ Stop(w) \/ Join(w) \/ Exit(w) PROVE DeadStaysDead'
  BY <1>2 DEF Start, Stop, Join, Exit
<1>3. ASSUME NEW w \in Writers, FlushPhase(w) \/ FlushLast(w) \/ Tick(w) PROVE DeadStaysDead'
  <2>1. w \notin crashed
    BY <1>3 DEF FlushPhase, FlushLast, Tick
  <2>2. \A v \in crashed : run'[v] = run[v] /\ flusher'[v] = flusher[v] /\ lock'[v] = lock[v]
    BY <1>3, <2>1 DEF FlushPhase, FlushLast, Tick, StartFlush
  <2>3. crashed' = crashed /\ faults' = faults
    BY <1>3 DEF FlushPhase, FlushLast, Tick
  <2> QED
    BY <2>2, <2>3
<1>4. ASSUME NEW w \in Writers, AppendEvent(w) PROVE DeadStaysDead'
  <2>1. w \notin crashed
    BY <1>4 DEF AppendEvent
  <2>2. \A v \in crashed : run'[v] = run[v] /\ flusher'[v] = flusher[v] /\ lock'[v] = lock[v]
    BY <1>4, <2>1 DEF AppendEvent, StartFlush
  <2>3. crashed' = crashed /\ faults' = faults
    BY <1>4 DEF AppendEvent
  <2> QED
    BY <2>2, <2>3
<1>5. ASSUME NEW w \in Writers, WritePiece(w) PROVE DeadStaysDead'
  BY <1>5 DEF WritePiece
<1>6. ASSUME NEW w \in Writers, FlushDone(w) PROVE DeadStaysDead'
  BY <1>6 DEF FlushDone, Flushing, Release
<1>7. ASSUME NEW w \in Writers, FlushFails(w) PROVE DeadStaysDead'
  <2>1. w \notin crashed /\ crashed' = crashed /\ faults' # 0
    BY <1>7 DEF FlushFails, Flushing
  <2>2. \A v \in crashed : run'[v] = run[v] /\ flusher'[v] = flusher[v] /\ lock'[v] = lock[v]
    BY <1>7, <2>1 DEF FlushFails, Release
  <2> QED
    BY <2>1, <2>2
<1>8. CASE Crash
  <2> DEFINE alive == {w \in Writers : run[w] \notin {"idle", "done"}
                                        \/ flusher[w] \in {"waiting", "flushing"}}
  <2>1. /\ faults' # 0 /\ crashed' = crashed \cup alive
        /\ \A w \in Writers : lock'[w] = "free"
        /\ \A w \in alive : run'[w] = "done" /\ flusher'[w] = "exited"
        /\ \A w \in Writers \ alive : run'[w] = run[w] /\ flusher'[w] = flusher[w]
    BY <1>8 DEF Crash
  <2> QED
    BY <2>1
<1> HIDE DEF DeadStaysDead
<1> QED
  BY <1>1, <1>2, <1>3, <1>4, <1>5, <1>6, <1>7, <1>8 DEF Next, Advance

(* The writer that continues is the only one inside its writes.            *)
LEMMA OthersWait ==
  ASSUME TypeOK, Holding, NEW w \in Writers, ~Overlaps(w), NEW v \in Writers \ {w}
  PROVE  done[v] = 0
<1>1. done[v] \in Nat /\ (done[v] > 0 => lock[v] # "free")
  BY DEF TypeOK, Holding
<1>2. ~(lock[v] # "free" /\ done[v] > 0)
  BY DEF Overlaps, Flushing
<1> QED
  BY <1>1, <1>2

LEMMA PieceParts ==
  ASSUME NEW w \in Writers, NEW b, NEW k \in Nat
  PROVE  /\ PieceOf(w, b, k).writer = w
         /\ PieceOf(w, b, k).event = b[(k + 1) \div 2]
         /\ k % 2 = 1 => PieceOf(w, b, k) = Piece(w, b[(k + 1) \div 2], FirstPart)
         /\ k % 2 = 0 => PieceOf(w, b, k) = Piece(w, b[(k + 1) \div 2], LastPart)
  BY DEF PieceOf, Piece

(* A full pair of pieces that the flush in progress has written is a line. *)
LEMMA TailStands ==
  ASSUME TypeOK, Holding, Lines, Tails, ~cut, NEW w \in Writers,
         NEW q \in Nat \ {0}, 2 * q <= done[w]
  PROVE  StandsAt(file, w, buffer[w][q], Len(file) - done[w] + 2 * q - 1)
<1> DEFINE d == done[w]  L == Len(file)  k == L - d + 2 * q - 1
<1>1. /\ d \in Nat /\ d > 0 /\ L \in Nat /\ DOMAIN file = 1 .. L
      /\ d <= L /\ (L - d) % 2 = 0
      /\ \A j \in 1 .. d : file[L - d + j] = PieceOf(w, buffer[w], j)
  BY DEF TypeOK, Tails
<1>2. k \in Nat /\ k >= 1 /\ k + 1 <= L /\ (k - 1) % 2 = 0
  BY <1>1
<1>3. file[k] = PieceOf(w, buffer[w], 2 * q - 1)
  <2>1. 2 * q - 1 \in 1 .. d /\ k = L - d + (2 * q - 1)
    BY <1>1
  <2> QED
    BY <1>1, <2>1
<1>4. file[k + 1] = PieceOf(w, buffer[w], 2 * q)
  <2>1. 2 * q \in 1 .. d /\ k + 1 = L - d + 2 * q
    BY <1>1
  <2> QED
    BY <1>1, <2>1
<1>5. file[k] = Piece(w, buffer[w][q], FirstPart)
  <2>1. (2 * q - 1) % 2 = 1 /\ (2 * q - 1 + 1) \div 2 = q /\ 2 * q - 1 \in Nat
    OBVIOUS
  <2> QED
    BY <1>3, <2>1, PieceParts
<1>6. file[k + 1] = Piece(w, buffer[w][q], LastPart)
  <2>1. (2 * q) % 2 = 0 /\ (2 * q + 1) \div 2 = q /\ 2 * q \in Nat
    OBVIOUS
  <2> QED
    BY <1>4, <2>1, PieceParts
<1>7. k = 1 \/ file[k - 1].part = LastPart
  <2>1. CASE k # 1
    <3>1. k - 1 \in 1 .. L
      BY <1>1, <1>2, <2>1
    <3>2. file[k - 1] = Piece(file[k - 1 - 1].writer, file[k - 1 - 1].event, LastPart)
      BY <1>2, <3>1 DEF Lines
    <3> QED
      BY <3>2 DEF Piece
  <2> QED
    BY <2>1
<1> HIDE DEF d, L, k
<1>8. k + 1 \in DOMAIN file
  BY <1>1, <1>2
<1>9. StandsAt(file, w, buffer[w][q], k)
  BY <1>5, <1>6, <1>7, <1>8 DEF StandsAt
<1> QED
  BY <1>9 DEF d, L, k

(* Lines stay where they are when the file grows, and only the last two    *)
(* pieces can be a new one.                                                *)
LEMMA Grown ==
  ASSUME NEW f, f \in Seq(Pieces), NEW p \in Pieces, NEW v, NEW i, NEW k \in Nat \ {0}
  PROVE  /\ StandsAt(f, v, i, k) => StandsAt(Append(f, p), v, i, k)
         /\ StandsAt(Append(f, p), v, i, k) =>
              \/ StandsAt(f, v, i, k)
              \/ k = Len(f) /\ p = Piece(v, i, LastPart)
<1> DEFINE g == Append(f, p)
<1>1. /\ Len(f) \in Nat /\ DOMAIN f = 1 .. Len(f) /\ DOMAIN g = 1 .. Len(f) + 1
      /\ \A j \in 1 .. Len(f) : g[j] = f[j]
      /\ g[Len(f) + 1] = p
  OBVIOUS
<1> HIDE DEF g
<1>2. ASSUME StandsAt(f, v, i, k) PROVE StandsAt(g, v, i, k)
  <2>1. k + 1 \in DOMAIN f
    BY <1>2 DEF StandsAt
  <2>2. k + 1 \in DOMAIN g /\ g[k] = f[k] /\ g[k + 1] = f[k + 1] /\ (k # 1 => g[k - 1] = f[k - 1])
    BY <1>1, <2>1
  <2> QED
    BY <1>2, <2>2 DEF StandsAt
<1>3. ASSUME StandsAt(g, v, i, k), k + 1 <= Len(f) PROVE StandsAt(f, v, i, k)
  <2>1. k + 1 \in DOMAIN f /\ g[k] = f[k] /\ g[k + 1] = f[k + 1] /\ (k # 1 => g[k - 1] = f[k - 1])
    BY <1>1, <1>3
  <2> QED
    BY <1>3, <2>1 DEF StandsAt
<1>4. ASSUME StandsAt(g, v, i, k), ~(k + 1 <= Len(f)) PROVE k = Len(f) /\ p = Piece(v, i, LastPart)
  <2>1. k + 1 \in DOMAIN g /\ g[k + 1] = Piece(v, i, LastPart)
    BY <1>4 DEF StandsAt
  <2>2. k + 1 \in 1 .. Len(f) + 1 /\ k \in Nat /\ Len(f) \in Nat
    BY <1>1, <2>1
  <2>3. k = Len(f)
    BY <1>4, <2>2
  <2> QED
    BY <1>1, <2>1, <2>3
<1>5. /\ StandsAt(f, v, i, k) => StandsAt(g, v, i, k)
      /\ StandsAt(g, v, i, k) => StandsAt(f, v, i, k) \/ (k = Len(f) /\ p = Piece(v, i, LastPart))
  BY <1>2, <1>3, <1>4
<1> QED
  BY <1>5 DEF g

(* The parity of the file tells whether a line is open.                    *)
LEMMA EvenOrOpen ==
  ASSUME TypeOK, Holding, Tails, ~cut
  PROVE  /\ Len(file) \in Nat
         /\ \A w \in Writers : done[w] > 0 => (Len(file) - done[w]) % 2 = 0
         /\ (\A w \in Writers : done[w] % 2 = 0) => Len(file) % 2 = 0
<1>1. Len(file) \in Nat /\ \A w \in Writers : done[w] \in Nat
  BY DEF TypeOK
<1>2. \A w \in Writers : done[w] > 0 => (Len(file) - done[w]) % 2 = 0
  BY DEF Tails
<1>3. ASSUME \A w \in Writers : done[w] % 2 = 0 PROVE Len(file) % 2 = 0
  <2>1. CASE \A w \in Writers : done[w] = 0
    BY <2>1 DEF Tails
  <2>2. CASE \E w \in Writers : done[w] # 0
    <3>1. PICK w \in Writers : done[w] # 0
      BY <2>2
    <3>2. done[w] \in Nat /\ done[w] % 2 = 0 /\ (Len(file) - done[w]) % 2 = 0
      BY <1>1, <1>2, <1>3, <3>1
    <3> QED
      BY <1>1, <3>2
  <2> QED
    BY <2>1, <2>2
<1> QED
  BY <1>1, <1>2, <1>3

(* What a step does to a file without a cut: nothing, or it appends one    *)
(* piece while every other flush waits.                                    *)
AppendsPiece(w) ==
  /\ ~cut /\ lock[w] # "free" /\ done[w] < 2 * Len(buffer[w])
  /\ \A v \in Writers \ {w} : done[v] = 0 /\ done'[v] = 0
  /\ done'[w] = done[w] + 1
  /\ file' = Append(file, PieceOf(w, buffer[w], done[w] + 1))
  /\ UNCHANGED <<emitted, buffer, lock, run, faults, crashed, cut>>

LEMMA WritesAppends ==
  ASSUME TypeOK, Holding, ~cut', NEW w \in Writers, Writes(w)
  PROVE  AppendsPiece(w)
<1>1. ~cut /\ ~Overlaps(w) /\ cut' = cut
  BY DEF Writes, TypeOK
<1>2. done \in [Writers -> Nat] /\ done' = [done EXCEPT ![w] = @ + 1]
  BY DEF Writes, TypeOK
<1>3. \A v \in Writers \ {w} : done[v] = 0
  BY <1>1, OthersWait
<1>4. done'[w] = done[w] + 1 /\ \A v \in Writers \ {w} : done'[v] = 0
  BY <1>2, <1>3
<1> QED
  BY <1>1, <1>3, <1>4 DEF Writes, AppendsPiece

LEMMA FileSteps ==
  ASSUME TypeOK, Holding, [Next]_vars, ~cut'
  PROVE  ~cut /\ (file' = file \/ \E w \in Writers : AppendsPiece(w))
<1> USE DEF TypeOK
<1>1. ASSUME NEW w \in Writers, Writes(w) PROVE AppendsPiece(w)
  BY <1>1, WritesAppends
<1>2. ASSUME NEW w \in Writers, Appends(w) \/ Empties(w) \/ GivesUp(w) PROVE ~cut /\ file' = file
  <2>1. CASE Appends(w) \/ Empties(w)
    BY <2>1 DEF Appends, Empties
  <2>2. CASE GivesUp(w)
    <3>1. cut' = (cut \/ done[w] % 2 = 1) /\ file' = file
      BY <2>2 DEF GivesUp
    <3> QED
      BY <3>1
  <2> QED
    BY <1>2, <2>1, <2>2
<1>3. Quiet \/ Crash => ~cut /\ file' = file
  <2>1. Crash => cut' = (cut \/ \E w \in Writers : Flushing(w) /\ done[w] % 2 = 1) /\ file' = file
    BY DEF Crash
  <2>2. Quiet => cut' = cut /\ file' = file
    BY DEF Quiet
  <2> QED
    BY <2>1, <2>2
<1>4. \A w \in Writers : AppendsPiece(w) => ~cut
  BY DEF AppendsPiece
<1> QED
  BY <1>1, <1>2, <1>3, <1>4, StepKinds

(* The piece that is appended continues the open line or opens one.        *)
LEMMA NewPiece ==
  ASSUME TypeOK, Holding, Tails, NEW w \in Writers, AppendsPiece(w)
  PROVE  LET L == Len(file)
             d == done[w]
             p == PieceOf(w, buffer[w], d + 1)
         IN  /\ p \in Pieces /\ L \in Nat /\ d \in Nat
             /\ DOMAIN file = 1 .. L /\ DOMAIN file' = 1 .. L + 1 /\ Len(file') = L + 1
             /\ \A k \in 1 .. L : file'[k] = file[k]
             /\ file'[L + 1] = p
             /\ (L - d) % 2 = 0 /\ d <= L
<1> DEFINE L == Len(file)  d == done[w]  p == PieceOf(w, buffer[w], d + 1)
<1>1. ~cut /\ d \in Nat /\ d < 2 * Len(buffer[w]) /\ file' = Append(file, p) /\ file \in Seq(Pieces)
      /\ Len(buffer[w]) \in Nat
  BY DEF AppendsPiece, TypeOK
<1>2. p \in Pieces
  <2>1. d + 1 \in 1 .. 2 * Len(buffer[w])
    BY <1>1
  <2> QED
    BY <2>1, PieceTyped
<1>3. /\ L \in Nat /\ DOMAIN file = 1 .. L /\ DOMAIN file' = 1 .. L + 1 /\ Len(file') = L + 1
      /\ \A k \in 1 .. L : file'[k] = file[k]
      /\ file'[L + 1] = p
  BY <1>1, <1>2
<1>4. (L - d) % 2 = 0 /\ d <= L
  <2>1. CASE d = 0
    <3>1. \A v \in Writers : done[v] = 0
      BY <2>1 DEF AppendsPiece
    <3>2. L % 2 = 0
      BY <1>1, <3>1 DEF Tails
    <3> QED
      BY <1>3, <2>1, <3>2
  <2>2. CASE d > 0
    BY <1>1, <2>2 DEF Tails
  <2> QED
    BY <1>1, <2>1, <2>2
<1> QED
  BY <1>1, <1>2, <1>3, <1>4

LEMMA LinesStep == TypeOK /\ Holding /\ Tails /\ Lines /\ [Next]_vars => Lines'
<1> SUFFICES ASSUME TypeOK, Holding, Tails, Lines, [Next]_vars, ~cut',
                    NEW k \in 1 .. Len(file')
             PROVE  /\ k % 2 = 1 => file'[k].part = FirstPart
                    /\ k % 2 = 0 => file'[k] = Piece(file'[k - 1].writer, file'[k - 1].event, LastPart)
  BY DEF Lines
<1>1. CASE file' = file
  BY <1>1, FileSteps DEF Lines
<1>2. ASSUME NEW w \in Writers, AppendsPiece(w)
      PROVE  /\ k % 2 = 1 => file'[k].part = FirstPart
             /\ k % 2 = 0 => file'[k] = Piece(file'[k - 1].writer, file'[k - 1].event, LastPart)
  <2> DEFINE L == Len(file)  d == done[w]  p == PieceOf(w, buffer[w], d + 1)
  <2>1. /\ L \in Nat /\ d \in Nat /\ Len(file') = L + 1
        /\ \A j \in 1 .. L : file'[j] = file[j]
        /\ file'[L + 1] = p /\ (L - d) % 2 = 0 /\ d <= L
    BY <1>2, NewPiece
  <2>2. ~cut
    BY <1>2 DEF AppendsPiece
  <2>3. CASE k <= L
    <3>1. k \in 1 .. L /\ file'[k] = file[k]
      BY <2>1, <2>3
    <3>2. k % 2 = 0 => k - 1 \in 1 .. L
      BY <2>1, <3>1
    <3> QED
      BY <2>1, <2>2, <3>1, <3>2 DEF Lines
  <2>4. CASE k = L + 1 /\ d % 2 = 0
    <3>1. (d + 1) % 2 = 1 /\ k % 2 = 1 /\ d + 1 \in Nat
      BY <2>1, <2>4, Parity
    <3>2. p.part = FirstPart
      BY <3>1 DEF PieceOf, Piece
    <3> QED
      BY <2>1, <2>4, <3>1, <3>2
  <2>5. CASE k = L + 1 /\ d % 2 = 1
    <3>0. /\ (d + 1) % 2 = 0 /\ (L + 1) % 2 = 0 /\ d > 0
          /\ (d + 1 + 1) \div 2 = (d + 1) \div 2
      BY <2>1, <2>5, Parity
    <3>1. /\ (d + 1) % 2 = 0 /\ k % 2 = 0 /\ d + 1 \in Nat /\ d > 0 /\ L \in 1 .. L
          /\ (d + 1 + 1) \div 2 = (d + 1) \div 2 /\ d \in 1 .. d /\ L - d + d = L
      <4> HIDE DEF d, L
      <4> QED
        BY <2>1, <2>5, <3>0
    <3>2. p = Piece(w, buffer[w][(d + 1) \div 2], LastPart)
      BY <3>1, PieceParts
    <3>3. file[L] = PieceOf(w, buffer[w], d)
      BY <2>2, <3>1 DEF Tails
    <3>4. file'[k - 1] = file[L]
      BY <2>1, <2>5, <3>1
    <3>5. file[L].writer = w /\ file[L].event = buffer[w][(d + 1) \div 2]
      BY <2>1, <3>3, PieceParts
    <3> QED
      BY <2>1, <2>5, <3>1, <3>2, <3>4, <3>5
  <2>6. d % 2 = 0 \/ d % 2 = 1
    BY <2>1, Parity
  <2>7. k <= L \/ k = L + 1
    BY <2>1
  <2> QED
    BY <2>3, <2>4, <2>5, <2>6, <2>7
<1> QED
  BY <1>1, <1>2, FileSteps

LEMMA TailsStep == TypeOK /\ Holding /\ Tails /\ [Next]_vars => Tails'
<1> SUFFICES ASSUME TypeOK, Holding, Tails, [Next]_vars, ~cut' PROVE Tails'
  BY DEF Tails
<1>1. done \in [Writers -> Nat] /\ Len(file) \in Nat
  BY DEF TypeOK
<1>2. ~cut
  BY FileSteps
<1>3. (\A w \in Writers : done[w] % 2 = 0) => Len(file) % 2 = 0
  BY <1>2, EvenOrOpen
<1>4. CASE Quiet
  BY <1>2, <1>4 DEF Quiet, Tails
<1>5. CASE Crash
  <2>1. file' = file /\ \A w \in Writers : done'[w] = 0 /\ ~(lock[w] # "free" /\ done[w] % 2 = 1)
    BY <1>5 DEF Crash, Flushing
  <2>2. \A w \in Writers : done[w] % 2 = 0
    <3> SUFFICES ASSUME NEW w \in Writers PROVE done[w] % 2 = 0
      OBVIOUS
    <3>1. done[w] \in Nat /\ (done[w] > 0 => lock[w] # "free")
      BY <1>1 DEF Holding
    <3> QED
      BY <2>1, <3>1
  <2> QED
    BY <1>3, <2>1, <2>2 DEF Tails
<1>6. ASSUME NEW w \in Writers, Appends(w) PROVE Tails'
  <2>1. done' = done /\ file' = file /\ done[w] = 0
    BY <1>1, <1>6 DEF Appends, Holding
  <2>2. \A v \in Writers : done[v] > 0 => buffer'[v] = buffer[v]
    BY <1>6, <2>1 DEF Appends, TypeOK
  <2> QED
    BY <1>2, <2>1, <2>2 DEF Tails
<1>7. ASSUME NEW w \in Writers, Empties(w) \/ GivesUp(w) PROVE Tails'
  <2>1. done' = [done EXCEPT ![w] = 0] /\ file' = file
    BY <1>7 DEF Empties, GivesUp
  <2>2. done[w] % 2 = 0
    <3>1. CASE Empties(w)
      <4>1. Len(buffer[w]) \in Nat
        BY DEF TypeOK
      <4>2. (2 * Len(buffer[w])) % 2 = 0
        BY <4>1, DoubleIsEven
      <4> QED
        BY <3>1, <4>2 DEF Empties
    <3>2. CASE GivesUp(w)
      <4>1. cut' = (cut \/ done[w] % 2 = 1) /\ done[w] \in Nat
        BY <1>1, <3>2 DEF GivesUp
      <4>2. done[w] % 2 # 1
        BY <4>1
      <4> QED
        BY <4>1, <4>2
    <3> QED
      BY <1>7, <3>1, <3>2
  <2>3. \A v \in Writers \ {w} : done'[v] = done[v] /\ buffer'[v] = buffer[v]
    BY <1>7, <1>1 DEF Empties, GivesUp, TypeOK
  <2>4. done'[w] = 0
    BY <1>1, <2>1
  <2>5. ASSUME \A v \in Writers : done'[v] = 0 PROVE Len(file') % 2 = 0
    <3>1. \A v \in Writers : done[v] % 2 = 0
      BY <2>2, <2>3, <2>5
    <3> QED
      BY <1>3, <2>1, <3>1
  <2>6. ASSUME NEW v \in Writers, done'[v] > 0 PROVE v # w
    BY <2>4, <2>6
  <2> QED
    BY <1>2, <2>1, <2>3, <2>5, <2>6 DEF Tails
<1>8. ASSUME NEW w \in Writers, AppendsPiece(w) PROVE Tails'
  <2> DEFINE L == Len(file)  d == done[w]  p == PieceOf(w, buffer[w], d + 1)
  <2>1. /\ L \in Nat /\ d \in Nat /\ Len(file') = L + 1
        /\ \A j \in 1 .. L : file'[j] = file[j]
        /\ file'[L + 1] = p /\ (L - d) % 2 = 0 /\ d <= L
    BY <1>8, NewPiece
  <2>2. done'[w] = d + 1 /\ buffer' = buffer /\ \A v \in Writers \ {w} : done'[v] = 0
    BY <1>8 DEF AppendsPiece
  <2>3. ASSUME NEW k \in 1 .. d + 1
        PROVE  file'[L + 1 - (d + 1) + k] = PieceOf(w, buffer[w], k)
    <3>1. CASE k = d + 1
      <4>1. L + 1 - (d + 1) + k = L + 1
        BY <2>1, <3>1
      <4> QED
        BY <2>1, <3>1, <4>1
    <3>2. CASE k # d + 1
      <4>1. k \in 1 .. d /\ d > 0 /\ L + 1 - (d + 1) + k = L - d + k /\ L - d + k \in 1 .. L
        BY <2>1, <3>2
      <4>2. file[L - d + k] = PieceOf(w, buffer[w], k)
        BY <1>2, <4>1 DEF Tails
      <4> QED
        BY <2>1, <4>1, <4>2
    <3> QED
      BY <3>1, <3>2
  <2>4. d + 1 > 0 /\ d + 1 <= L + 1 /\ (L + 1 - (d + 1)) % 2 = 0
    BY <2>1
  <2>5. ~(\A v \in Writers : done'[v] = 0)
    BY <2>1, <2>2
  <2>6. ASSUME NEW v \in Writers, done'[v] > 0 PROVE v = w
    BY <2>2, <2>6
  <2>7. Len(file') = L + 1 /\ done'[w] = d + 1
    BY <2>1, <2>2
  <2>8. ASSUME NEW v \in Writers, done'[v] > 0
        PROVE  /\ done'[v] <= Len(file')
               /\ (Len(file') - done'[v]) % 2 = 0
               /\ \A k \in 1 .. done'[v] :
                    file'[Len(file') - done'[v] + k] = PieceOf(v, buffer'[v], k)
    <3>1. v = w
      BY <2>6, <2>8
    <3>2. done'[v] = d + 1 /\ Len(file') = L + 1
      BY <2>7, <3>1
    <3>3. buffer'[v] = buffer[w]
      BY <2>2, <3>1
    <3>4. \A k \in 1 .. d + 1 : file'[L + 1 - (d + 1) + k] = PieceOf(w, buffer[w], k)
      BY <2>3
    <3>5. done'[v] <= Len(file')
      BY <2>4, <3>2
    <3>6. (Len(file') - done'[v]) % 2 = 0
      <4>1. Len(file') - done'[v] = L - d
        BY <2>1, <3>2
      <4> QED
        BY <2>1, <4>1
    <3>7. ASSUME NEW k \in 1 .. done'[v]
          PROVE  file'[Len(file') - done'[v] + k] = PieceOf(v, buffer'[v], k)
      <4>1. k \in 1 .. d + 1
        BY <3>2
      <4>2. file'[L + 1 - (d + 1) + k] = PieceOf(w, buffer[w], k)
        BY <3>4, <4>1
      <4> QED
        BY <2>1, <3>1, <3>2, <3>3, <4>2
    <3> QED
      BY <3>5, <3>6, <3>7
  <2> QED
    BY <2>5, <2>8 DEF Tails
<1>9. ASSUME NEW w \in Writers, Writes(w) PROVE AppendsPiece(w)
  BY <1>9, WritesAppends
<1> QED
  BY <1>4, <1>5, <1>6, <1>7, <1>8, <1>9, StepKinds

LEMMA StandsGrows ==
  ASSUME TypeOK, Holding, Tails, NEW w \in Writers, AppendsPiece(w),
         NEW v, NEW i, Stands(v, i)
  PROVE  Stands(v, i)'
<1> DEFINE p == PieceOf(w, buffer[w], done[w] + 1)
<1>1. /\ p \in Pieces /\ Len(file) \in Nat /\ file \in Seq(Pieces)
      /\ DOMAIN file = 1 .. Len(file) /\ DOMAIN file' = 1 .. Len(file) + 1
  BY NewPiece DEF TypeOK
<1>2. file' = Append(file, p)
  BY DEF AppendsPiece
<1>3. PICK k \in DOMAIN file : StandsAt(file, v, i, k)
  BY DEF Stands
<1>4. k \in Nat \ {0} /\ k \in DOMAIN file'
  BY <1>1
<1>5. StandsAt(Append(file, p), v, i, k)
  BY <1>1, <1>3, <1>4, Grown
<1> QED
  BY <1>2, <1>4, <1>5 DEF Stands

LEMMA OnDiskStep ==
  TypeOK /\ Holding /\ Consecutive /\ DeadStaysDead /\ Lines /\ Tails /\ OnDisk
    /\ [Next]_vars => OnDisk'
<1> SUFFICES ASSUME TypeOK, Holding, Consecutive, DeadStaysDead, Lines, Tails, OnDisk,
                    [Next]_vars, ~cut', NEW v \in Writers \ crashed',
                    NEW i \in 1 .. emitted'[v] - Len(buffer'[v])
             PROVE  Stands(v, i)'
  BY DEF OnDisk, Written
<1>1. ~cut
  BY FileSteps
<1>2. file' = file => (Stands(v, i)' <=> Stands(v, i))
  BY DEF Stands
<1>3. /\ emitted[v] \in Nat /\ Len(buffer[v]) \in Nat /\ Len(buffer[v]) <= emitted[v]
      /\ \A k \in 1 .. Len(buffer[v]) : buffer[v][k] = emitted[v] - Len(buffer[v]) + k
  BY DEF TypeOK, Consecutive, Written
<1>4. v \notin crashed => \A j \in 1 .. emitted[v] - Len(buffer[v]) : Stands(v, j)
  BY <1>1 DEF OnDisk, Written
<1>5. CASE Quiet
  BY <1>2, <1>4, <1>5 DEF Quiet
<1>6. CASE Crash
  <2> DEFINE alive == {w \in Writers : run[w] \notin {"idle", "done"}
                                        \/ flusher[w] \in {"waiting", "flushing"}}
  <2>1. /\ crashed' = crashed \cup alive /\ emitted' = emitted /\ file' = file
        /\ \A w \in Writers \ alive : buffer'[w] = buffer[w]
    BY <1>6 DEF Crash
  <2>2. v \notin crashed /\ v \notin alive
    BY <2>1
  <2> QED
    BY <1>2, <1>4, <2>1, <2>2
<1>7. ASSUME NEW w \in Writers, Appends(w) PROVE Stands(v, i)'
  <2>1. crashed' = crashed /\ file' = file
    BY <1>7 DEF Appends
  <2>2. emitted'[v] - Len(buffer'[v]) = emitted[v] - Len(buffer[v])
    <3>1. CASE v = w
      <4>1. buffer[v] \in Seq(Events)
        BY DEF TypeOK
      <4>2. emitted'[v] = emitted[v] + 1 /\ buffer'[v] = Append(buffer[v], emitted[v] + 1)
        BY <1>7, <3>1 DEF Appends, TypeOK
      <4>3. Len(buffer'[v]) = Len(buffer[v]) + 1
        BY <4>1, <4>2
      <4> QED
        BY <1>3, <4>2, <4>3
    <3>2. CASE v # w
      BY <1>7, <3>2 DEF Appends, TypeOK
    <3> QED
      BY <3>1, <3>2
  <2> QED
    BY <1>2, <1>4, <2>1, <2>2
<1>8. ASSUME NEW w \in Writers, AppendsPiece(w) PROVE Stands(v, i)'
  <2>1. emitted' = emitted /\ buffer' = buffer /\ crashed' = crashed
    BY <1>8 DEF AppendsPiece
  <2> QED
    BY <1>4, <1>8, <2>1, StandsGrows
<1>9. ASSUME NEW w \in Writers, Empties(w) PROVE Stands(v, i)'
  <2>1. /\ emitted' = emitted /\ crashed' = crashed /\ file' = file
        /\ done[w] = 2 * Len(buffer[w])
        /\ v # w => buffer'[v] = buffer[v]
        /\ v = w => buffer'[v] = <<>>
    BY <1>9 DEF Empties, TypeOK
  <2>2. CASE i \in 1 .. emitted[v] - Len(buffer[v])
    BY <1>2, <1>4, <2>1, <2>2
  <2>3. CASE i \notin 1 .. emitted[v] - Len(buffer[v])
    <3>1. v = w
      BY <2>1, <2>3
    <3>2. i \in 1 .. emitted[v]
      <4>1. Len(buffer'[v]) = 0
        BY <2>1, <3>1
      <4> QED
        BY <1>3, <2>1, <4>1
    <3> DEFINE q == i - (emitted[v] - Len(buffer[v]))
    <3>3. q \in 1 .. Len(buffer[v]) /\ emitted[v] - Len(buffer[v]) + q = i
      BY <1>3, <2>3, <3>2
    <3>4. buffer[v][q] = i
      BY <1>3, <3>3
    <3>5. q \in Nat \ {0} /\ 2 * q <= done[v]
      BY <1>3, <2>1, <3>1, <3>3
    <3> HIDE DEF q
    <3>6. StandsAt(file, v, i, Len(file) - done[v] + 2 * q - 1)
      BY <1>1, <3>4, <3>5, TailStands
    <3>7. Len(file) - done[v] + 2 * q - 1 \in DOMAIN file
      <4>1. Len(file) \in Nat /\ done[v] \in Nat /\ DOMAIN file = 1 .. Len(file)
        BY DEF TypeOK
      <4>2. done[v] <= Len(file)
        BY <1>1, <3>5, <4>1 DEF Tails
      <4> QED
        BY <3>5, <4>1, <4>2
    <3>8. Stands(v, i)
      BY <3>6, <3>7 DEF Stands
    <3> QED
      BY <1>2, <2>1, <3>8
  <2> QED
    BY <2>2, <2>3
<1>10. ASSUME NEW w \in Writers, GivesUp(w) PROVE Stands(v, i)'
  BY <1>2, <1>4, <1>10 DEF GivesUp
<1>11. ASSUME NEW w \in Writers, Writes(w) PROVE AppendsPiece(w)
  BY <1>11, WritesAppends
<1> QED
  BY <1>5, <1>6, <1>7, <1>8, <1>9, <1>10, <1>11, StepKinds

(* All events before the one whose line is being closed stand above it.    *)
LEMMA EarlierStand ==
  ASSUME TypeOK, Holding, Consecutive, DeadStaysDead, Lines, Tails, OnDisk,
         NEW w \in Writers, AppendsPiece(w), NEW i \in Events,
         PieceOf(w, buffer[w], done[w] + 1) = Piece(w, i, LastPart),
         NEW j \in 1 .. i - 1
  PROVE  \E m \in 1 .. Len(file) - 1 : StandsAt(file, w, j, m)
<1> DEFINE d == done[w]  b == buffer[w]  n == Len(b)  L == Len(file)  e == emitted[w] - n
<1>1. /\ ~cut /\ w \notin crashed /\ d \in Nat /\ n \in Nat /\ d < 2 * n
      /\ L \in Nat /\ DOMAIN file = 1 .. L /\ i \in Nat
  BY DEF AppendsPiece, DeadStaysDead, TypeOK, Events
<1>2. e \in Nat /\ \A k \in 1 .. n : b[k] = e + k
  BY DEF TypeOK, Consecutive, Written
<1>3. (d + 1) % 2 = 0 /\ b[(d + 1 + 1) \div 2] = i
  <2>1. d + 1 \in Nat
    BY <1>1
  <2>2. PieceOf(w, b, d + 1).part = LastPart /\ PieceOf(w, b, d + 1).event = i
    BY DEF Piece
  <2>3. ~((d + 1) % 2 = 1)
    BY <2>2 DEF PieceOf, Piece, FirstPart, LastPart
  <2>4. (d + 1) % 2 = 0 \/ (d + 1) % 2 = 1
    BY <2>1
  <2> QED
    BY <2>1, <2>2, <2>3, <2>4, PieceParts
<1> DEFINE q == (d + 1 + 1) \div 2
<1>4. q \in 1 .. n /\ d + 1 = 2 * q
  <2>1. d + 1 \in 1 .. 2 * n
    BY <1>1
  <2> QED
    BY <1>1, <1>3, <2>1, Halves
<1>5. i = e + q
  BY <1>2, <1>3, <1>4
<1> HIDE DEF q
<1>6. CASE j <= e
  <2>1. j \in 1 .. e
    BY <1>2, <1>6
  <2>2. Stands(w, j)
    BY <1>1, <2>1 DEF OnDisk, Written
  <2>3. PICK m \in 1 .. L : StandsAt(file, w, j, m)
    BY <1>1, <2>2 DEF Stands
  <2>4. m + 1 \in 1 .. L
    BY <1>1, <2>3 DEF StandsAt
  <2>5. m \in 1 .. L - 1
    BY <1>1, <2>4
  <2> QED
    BY <2>3, <2>5
<1>7. CASE j > e
  <2> DEFINE r == j - e
  <2>1. r \in 1 .. q - 1 /\ e + r = j
    BY <1>1, <1>2, <1>4, <1>5, <1>7
  <2>2. r \in Nat \ {0} /\ 2 * r <= d - 1 /\ r \in 1 .. n
    BY <1>1, <1>4, <2>1
  <2>3. b[r] = j
    BY <1>2, <2>1, <2>2
  <2> HIDE DEF r
  <2>4. StandsAt(file, w, j, L - d + 2 * r - 1)
    <3>1. 2 * r <= done[w]
      BY <1>1, <2>2
    <3> QED
      BY <1>1, <2>2, <2>3, <3>1, TailStands
  <2>5. d <= L
    BY <1>1, <2>2 DEF Tails
  <2>6. L - d + 2 * r - 1 \in 1 .. L - 1
    BY <1>1, <2>2, <2>5
  <2> QED
    BY <2>4, <2>6
<1> QED
  BY <1>2, <1>6, <1>7

LEMMA InOrderStep ==
  TypeOK /\ Holding /\ Consecutive /\ DeadStaysDead /\ Lines /\ Tails /\ OnDisk
    /\ InOrder /\ [Next]_vars => InOrder'
<1> SUFFICES ASSUME TypeOK, Holding, Consecutive, DeadStaysDead, Lines, Tails, OnDisk,
                    InOrder, [Next]_vars, ~cut', NEW v \in Writers, NEW i \in Events,
                    NEW k \in DOMAIN file', StandsAt(file', v, i, k), NEW j \in 1 .. i - 1
             PROVE  \E m \in 1 .. k - 1 : StandsAt(file', v, j, m)
  BY DEF InOrder
<1>1. CASE file' = file
  BY <1>1, FileSteps DEF InOrder
<1>2. ASSUME NEW w \in Writers, AppendsPiece(w)
      PROVE  \E m \in 1 .. k - 1 : StandsAt(file', v, j, m)
  <2> DEFINE p == PieceOf(w, buffer[w], done[w] + 1)
  <2>1. /\ p \in Pieces /\ Len(file) \in Nat /\ file \in Seq(Pieces) /\ ~cut
        /\ DOMAIN file = 1 .. Len(file) /\ DOMAIN file' = 1 .. Len(file) + 1
        /\ file' = Append(file, p)
    BY <1>2, NewPiece DEF TypeOK, AppendsPiece
  <2>2. k \in Nat \ {0}
    BY <2>1
  <2>3. StandsAt(file, v, i, k) \/ (k = Len(file) /\ p = Piece(v, i, LastPart))
    BY <2>1, <2>2, Grown
  <2>4. \E m \in 1 .. k - 1 : StandsAt(file, v, j, m)
    <3>1. CASE StandsAt(file, v, i, k)
      <4>1. k \in DOMAIN file
        <5>1. k + 1 \in DOMAIN file
          BY <3>1 DEF StandsAt
        <5> QED
          BY <2>1, <2>2, <5>1
      <4> QED
        BY <2>1, <3>1, <4>1 DEF InOrder
    <3>2. CASE k = Len(file) /\ p = Piece(v, i, LastPart)
      <4>1. p.writer = w
        BY DEF PieceOf, Piece
      <4>2. v = w
        BY <3>2, <4>1 DEF Piece
      <4> QED
        BY <1>2, <3>2, <4>2, EarlierStand
    <3> QED
      BY <2>3, <3>1, <3>2
  <2>5. PICK m \in 1 .. k - 1 : StandsAt(file, v, j, m)
    BY <2>4
  <2>6. m \in Nat \ {0}
    BY <2>2
  <2>7. StandsAt(file', v, j, m)
    BY <2>1, <2>5, <2>6, Grown
  <2> QED
    BY <2>7
<1> QED
  BY <1>1, <1>2, FileSteps

-----------------------------------------------------------------------------
(* The pieces a flush writes rank one above another.                       *)
LEMMA NewRank ==
  ASSUME TypeOK, Consecutive, NEW w \in Writers, done[w] < 2 * Len(buffer[w])
  PROVE  /\ PieceOf(w, buffer[w], done[w] + 1).writer = w
         /\ Rank(PieceOf(w, buffer[w], done[w] + 1)) = 2 * Written(w) + done[w] + 1
<1> DEFINE d == done[w]  b == buffer[w]  n == Len(b)  e == emitted[w] - n
           q == (d + 1 + 1) \div 2  p == PieceOf(w, b, d + 1)
<1>1. d \in Nat /\ n \in Nat /\ d + 1 \in 1 .. 2 * n /\ e \in Nat /\ \A k \in 1 .. n : b[k] = e + k
  BY DEF TypeOK, Consecutive, Written
<1>2. /\ q \in 1 .. n
      /\ (d + 1) % 2 = 1 => d + 1 = 2 * q - 1
      /\ (d + 1) % 2 = 0 => d + 1 = 2 * q
      /\ (d + 1) % 2 \in {0, 1}
  BY <1>1, Halves
<1>3. /\ (d + 1) % 2 = 1 => p = Piece(w, b[q], FirstPart)
      /\ (d + 1) % 2 = 0 => p = Piece(w, b[q], LastPart)
  <2>1. d + 1 \in Nat
    BY <1>1
  <2> QED
    BY <2>1, PieceParts
<1>4. Written(w) = e
  BY DEF Written
<1> HIDE DEF q, p, d, b, n, e
<1>5. b[q] = e + q /\ q \in Nat
  <2>1. q \in 1 .. n /\ n \in Nat
    BY <1>1, <1>2
  <2>2. \A k \in 1 .. n : b[k] = e + k
    BY <1>1
  <2> QED
    BY <2>1, <2>2
<1>6. CASE (d + 1) % 2 = 1
  <2>1. p.event = e + q /\ p.part = FirstPart /\ p.writer = w
    BY <1>3, <1>5, <1>6 DEF Piece
  <2>2. Rank(p) = 2 * (e + q) - 1
    BY <2>1 DEF Rank
  <2>3. d + 1 = 2 * q - 1
    BY <1>2, <1>6
  <2>4. Rank(p) = 2 * e + d + 1
    BY <1>1, <1>5, <2>2, <2>3
  <2> QED
    BY <1>4, <2>1, <2>4 DEF p, d, b
<1>7. CASE (d + 1) % 2 = 0
  <2>1. p.event = e + q /\ p.part = LastPart /\ p.writer = w
    BY <1>3, <1>5, <1>7 DEF Piece
  <2>2. Rank(p) = 2 * (e + q) - 0
    BY <2>1 DEF Rank, FirstPart, LastPart
  <2>3. d + 1 = 2 * q
    BY <1>2, <1>7
  <2>4. Rank(p) = 2 * e + d + 1
    BY <1>1, <1>5, <2>2, <2>3
  <2> QED
    BY <1>4, <2>1, <2>4 DEF p, d, b
<1> QED
  BY <1>2, <1>6, <1>7

(* Appending to a buffer and emptying it leave no piece above the rank its *)
(* run has come to.                                                        *)
LEMMA RankGrows ==
  ASSUME TypeOK, Holding, Consecutive, [Next]_vars, faults' = 0, NEW v \in Writers
  PROVE  /\ 2 * Written(v) + done[v] \in Nat
         /\ 2 * Written(v)' + done'[v] \in Nat
         /\ 2 * Written(v) + done[v] <= 2 * Written(v)' + done'[v]
<1>1. /\ emitted[v] \in Nat /\ done[v] \in Nat /\ buffer[v] \in Seq(Events)
      /\ Len(buffer[v]) \in Nat /\ Len(buffer[v]) <= emitted[v]
  BY DEF TypeOK, Consecutive
<1>2. CASE buffer'[v] = buffer[v] /\ emitted'[v] = emitted[v] /\ done'[v] \in {done[v], done[v] + 1}
  <2>1. Written(v)' = Written(v) /\ Written(v) \in Nat
    BY <1>1, <1>2 DEF Written
  <2> HIDE DEF Written
  <2> QED
    BY <1>1, <1>2, <2>1
<1>3. CASE Quiet
  BY <1>2, <1>3 DEF Quiet
<1>4. ASSUME Crash PROVE FALSE
  BY <1>4 DEF Crash, TypeOK
<1>5. ASSUME NEW w \in Writers, GivesUp(w) PROVE FALSE
  BY <1>5 DEF GivesUp, TypeOK
<1>6. ASSUME NEW w \in Writers, Writes(w)
      PROVE  buffer'[v] = buffer[v] /\ emitted'[v] = emitted[v] /\ done'[v] \in {done[v], done[v] + 1}
  BY <1>6 DEF Writes, TypeOK
<1>7. ASSUME NEW w \in Writers, Appends(w), v # w
      PROVE  buffer'[v] = buffer[v] /\ emitted'[v] = emitted[v] /\ done'[v] = done[v]
  BY <1>7 DEF Appends, TypeOK
<1>8. CASE Appends(v)
  <2>1. /\ emitted'[v] = emitted[v] + 1 /\ buffer'[v] = Append(buffer[v], emitted[v] + 1)
        /\ done'[v] = done[v]
    BY <1>8 DEF Appends, TypeOK
  <2>2. Len(buffer'[v]) = Len(buffer[v]) + 1
    BY <1>1, <2>1
  <2>3. Written(v)' = Written(v) /\ Written(v) \in Nat
    BY <1>1, <2>1, <2>2 DEF Written
  <2> QED
    BY <1>1, <2>1, <2>3
<1>9. ASSUME NEW w \in Writers, Empties(w), v # w
      PROVE  buffer'[v] = buffer[v] /\ emitted'[v] = emitted[v] /\ done'[v] = done[v]
  BY <1>9 DEF Empties, TypeOK
<1>10. CASE Empties(v)
  <2>1. emitted'[v] = emitted[v] /\ done'[v] = 0 /\ buffer'[v] = <<>> /\ done[v] = 2 * Len(buffer[v])
    BY <1>10 DEF Empties, TypeOK
  <2>2. Len(buffer'[v]) = 0
    BY <2>1
  <2> QED
    BY <1>1, <2>1, <2>2 DEF Written
<1> QED
  BY <1>2, <1>3, <1>4, <1>5, <1>6, <1>7, <1>8, <1>9, <1>10, StepKinds

(* Without a fault only a flush changes the file.                          *)
LEMMA FaultlessSteps ==
  ASSUME TypeOK, Holding, [Next]_vars, faults' = 0
  PROVE  faults = 0 /\ (file' = file \/ \E w \in Writers : Writes(w))
<1> USE DEF TypeOK
<1>1. ASSUME NEW w \in Writers, Appends(w) \/ Empties(w) PROVE faults = 0 /\ file' = file
  BY <1>1 DEF Appends, Empties
<1>2. ASSUME NEW w \in Writers, GivesUp(w) PROVE FALSE
  BY <1>2 DEF GivesUp
<1>3. ASSUME Crash PROVE FALSE
  BY <1>3 DEF Crash
<1>4. CASE Quiet
  BY <1>4 DEF Quiet
<1>5. ASSUME NEW w \in Writers, Writes(w) PROVE faults = 0
  BY <1>5 DEF Writes
<1> QED
  BY <1>1, <1>2, <1>3, <1>4, <1>5, StepKinds

LEMMA BoundedStep == TypeOK /\ Holding /\ Consecutive /\ Bounded /\ [Next]_vars => Bounded'
<1> SUFFICES ASSUME TypeOK, Holding, Consecutive, Bounded, [Next]_vars, faults' = 0,
                    NEW k \in 1 .. Len(file'), NEW v, v = file'[k].writer
             PROVE  Rank(file'[k]) <= 2 * Written(v)' + done'[v]
  BY DEF Bounded, Rank, Written
<1>1. /\ faults = 0 /\ file \in Seq(Pieces) /\ Len(file) \in Nat
      /\ \A j \in 1 .. Len(file) : file[j] \in Pieces
  BY FaultlessSteps DEF TypeOK
<1>2. ASSUME NEW j \in 1 .. Len(file), file'[k] = file[j]
      PROVE  Rank(file'[k]) <= 2 * Written(v)' + done'[v]
  <2>1. v \in Writers /\ Rank(file[j]) \in Int
    BY <1>1, <1>2 DEF Pieces, Rank, Events
  <2>2. Rank(file[j]) <= 2 * Written(v) + done[v]
    BY <1>1, <1>2 DEF Bounded
  <2>3. /\ 2 * Written(v) + done[v] \in Nat /\ 2 * Written(v)' + done'[v] \in Nat
        /\ 2 * Written(v) + done[v] <= 2 * Written(v)' + done'[v]
    BY <2>1, RankGrows
  <2>4. Rank(file'[k]) = Rank(file[j])
    BY <1>2
  <2> HIDE DEF Rank, Written
  <2> QED
    BY <2>1, <2>2, <2>3, <2>4
<1>3. CASE file' = file
  BY <1>2, <1>3
<1>4. ASSUME NEW w \in Writers, Writes(w)
      PROVE  Rank(file'[k]) <= 2 * Written(v)' + done'[v]
  <2> DEFINE p == PieceOf(w, buffer[w], done[w] + 1)
  <2>1. file' = Append(file, p) /\ done[w] < 2 * Len(buffer[w])
    BY <1>4 DEF Writes
  <2>2. p \in Pieces
    <3>1. done[w] + 1 \in 1 .. 2 * Len(buffer[w])
      BY <2>1 DEF TypeOK
    <3> QED
      BY <3>1, PieceTyped
  <2>3. Len(file') = Len(file) + 1 /\ file'[Len(file) + 1] = p
        /\ \A j \in 1 .. Len(file) : file'[j] = file[j]
    BY <1>1, <2>1, <2>2
  <2>4. CASE k \in 1 .. Len(file)
    <3>1. file'[k] = file[k]
      BY <2>3, <2>4
    <3> QED
      BY <1>2, <2>4, <3>1
  <2>5. CASE k = Len(file) + 1
    <3>1. p.writer = w /\ Rank(p) = 2 * Written(w) + done[w] + 1
      BY <2>1, NewRank
    <3>2. done'[w] = done[w] + 1 /\ Written(w)' = Written(w)
      BY <1>4 DEF Writes, Written, TypeOK
    <3>3. Written(w) \in Int /\ done[w] \in Nat
      BY DEF Written, TypeOK
    <3>4. file'[k] = p /\ v = w
      BY <2>3, <2>5, <3>1
    <3>5. Rank(file'[k]) = Rank(p)
      BY <3>4
    <3>6. Rank(p) <= 2 * Written(w)' + done'[w]
      <4> HIDE DEF p, Rank, Written
      <4> QED
        BY <3>1, <3>2, <3>3
    <3> QED
      BY <3>4, <3>5, <3>6
  <2>6. k \in 1 .. Len(file) \/ k = Len(file) + 1
    BY <1>1, <2>3
  <2> QED
    BY <2>4, <2>5, <2>6
<1> QED
  BY <1>3, <1>4, FaultlessSteps

LEMMA OnceStep ==
  TypeOK /\ Holding /\ Consecutive /\ Bounded /\ OnceWithoutFault /\ [Next]_vars
    => OnceWithoutFault'
<1> SUFFICES ASSUME TypeOK, Holding, Consecutive, Bounded, OnceWithoutFault, [Next]_vars, faults' = 0,
                    NEW j \in DOMAIN file', NEW k \in DOMAIN file', file'[j] = file'[k]
             PROVE  j = k
  BY DEF OnceWithoutFault
<1>1. faults = 0 /\ file \in Seq(Pieces) /\ Len(file) \in Nat /\ DOMAIN file = 1 .. Len(file)
  BY FaultlessSteps DEF TypeOK
<1>2. CASE file' = file
  BY <1>1, <1>2 DEF OnceWithoutFault
<1>3. ASSUME NEW w \in Writers, Writes(w) PROVE j = k
  <2> DEFINE p == PieceOf(w, buffer[w], done[w] + 1)
  <2>1. file' = Append(file, p) /\ done[w] < 2 * Len(buffer[w])
    BY <1>3 DEF Writes
  <2>2. p \in Pieces
    <3>1. done[w] + 1 \in 1 .. 2 * Len(buffer[w])
      BY <2>1 DEF TypeOK
    <3> QED
      BY <3>1, PieceTyped
  <2>3. /\ DOMAIN file' = 1 .. Len(file) + 1 /\ file'[Len(file) + 1] = p
        /\ \A i \in 1 .. Len(file) : file'[i] = file[i]
    BY <1>1, <2>1, <2>2
  <2>4. ASSUME NEW i \in 1 .. Len(file) PROVE file[i] # p
    <3>1. Rank(file[i]) <= 2 * Written(file[i].writer) + done[file[i].writer]
      BY <1>1 DEF Bounded
    <3>2. p.writer = w /\ Rank(p) = 2 * Written(w) + done[w] + 1
      BY <2>1, NewRank
    <3>3. Written(w) \in Int /\ done[w] \in Nat
      BY DEF Written, TypeOK
    <3> HIDE DEF p
    <3>4. SUFFICES ASSUME file[i] = p PROVE FALSE
      OBVIOUS
    <3>5. Rank(p) <= 2 * Written(w) + done[w]
      BY <3>1, <3>2, <3>4
    <3> QED
      BY <3>2, <3>3, <3>5
  <2>5. \A i \in DOMAIN file' : i \in 1 .. Len(file) \/ i = Len(file) + 1
    BY <1>1, <2>3
  <2> HIDE DEF p
  <2>6. j \in 1 .. Len(file) /\ k \in 1 .. Len(file) => j = k
    BY <1>1, <2>3 DEF OnceWithoutFault
  <2> QED
    BY <2>3, <2>4, <2>5, <2>6
<1> QED
  BY <1>2, <1>3, FaultlessSteps

LEMMA EndsEmptyStep == TypeOK /\ EndsEmpty /\ [Next]_vars => EndsEmpty'
<1> SUFFICES ASSUME TypeOK, EndsEmpty, [Next]_vars, faults' = 0 PROVE EndsEmpty'
  BY DEF EndsEmpty
<1> USE DEF TypeOK, EndsEmpty, threadVars, bufferVars
<1>1. CASE UNCHANGED vars
  BY <1>1 DEF vars
<1>2. ASSUME NEW w \in Writers, Start(w) \/ Stop(w) \/ Join(w) \/ Exit(w) PROVE EndsEmpty'
  BY <1>2 DEF Start, Stop, Join, Exit
<1>3. ASSUME NEW w \in Writers, FlushPhase(w) \/ FlushLast(w) \/ Tick(w) PROVE EndsEmpty'
  BY <1>3 DEF FlushPhase, FlushLast, LastFlushNeeded, Tick
<1>4. ASSUME NEW w \in Writers, AppendEvent(w) PROVE EndsEmpty'
  <2>1. run'[w] # "done"
    BY <1>4 DEF AppendEvent
  <2>2. /\ faults' = faults
        /\ \A v \in Writers : v # w => run'[v] = run[v] /\ buffer'[v] = buffer[v]
    BY <1>4 DEF AppendEvent
  <2> QED
    BY <2>1, <2>2
<1>5. ASSUME NEW w \in Writers, WritePiece(w) PROVE EndsEmpty'
  BY <1>5 DEF WritePiece
<1>6. ASSUME NEW w \in Writers, FlushDone(w) PROVE EndsEmpty'
  BY <1>6 DEF FlushDone, AfterFlush, Release
<1>7. ASSUME NEW w \in Writers, FlushFails(w) PROVE FALSE
  BY <1>7 DEF FlushFails
<1>8. ASSUME Crash PROVE FALSE
  BY <1>8 DEF Crash
<1> HIDE DEF EndsEmpty
<1> QED
  BY <1>1, <1>2, <1>3, <1>4, <1>5, <1>6, <1>7, <1>8 DEF Next, Advance

-----------------------------------------------------------------------------
LEMMA InvInit == Init => BufferInv
<1> SUFFICES ASSUME Init PROVE BufferInv
  OBVIOUS
<1>1. /\ faults = 0 /\ crashed = {} /\ file = <<>> /\ Len(file) = 0 /\ DOMAIN file = 1 .. 0
      /\ \A w \in Writers : /\ run[w] = "idle" /\ buffer[w] = <<>> /\ Len(buffer[w]) = 0
                            /\ emitted[w] = 0 /\ done[w] = 0
  BY DEF Init
<1>2. TypeOK
  <2>1. <<>> \in Seq(Events) /\ <<>> \in Seq(Pieces)
    OBVIOUS
  <2>2. faults \in 0 .. MaxFaults
    BY <1>1, MaxFaultsAssumption
  <2>3. buffer \in [Writers -> Seq(Events)] /\ file \in Seq(Pieces)
    BY <2>1 DEF Init
  <2>4. /\ run \in [Writers -> RunStates] /\ flusher \in [Writers -> FlusherStates]
        /\ lock \in [Writers -> {"free", "pipeline", "flusher"}]
    BY DEF Init, RunStates, FlusherStates
  <2> QED
    BY <2>2, <2>3, <2>4 DEF Init, TypeOK
<1>3. Consecutive /\ Holding /\ DeadStaysDead
  BY <1>1 DEF Consecutive, Holding, DeadStaysDead
<1>4. Lines /\ Tails
  BY <1>1 DEF Lines, Tails
<1>5. OnDisk /\ InOrder
  BY <1>1 DEF OnDisk, Written, InOrder
<1>6. Bounded /\ OnceWithoutFault /\ EndsEmpty
  BY <1>1 DEF Bounded, OnceWithoutFault, EndsEmpty
<1> QED
  BY <1>2, <1>3, <1>4, <1>5, <1>6 DEF BufferInv

LEMMA InvStep == BufferInv /\ [Next]_vars => BufferInv'
  BY TypeStep, ConsecutiveStep, HoldingStep, DeadStep, LinesStep, TailsStep,
     OnDiskStep, InOrderStep, BoundedStep, OnceStep, EndsEmptyStep
     DEF BufferInv

LEMMA Invariance == Spec => []BufferInv
  BY InvInit, InvStep, PTL DEF Spec

(* Every reachable state is of the declared types, whatever the number of  *)
(* runs, their events and the threshold.                                   *)
THEOREM TypeCorrect == Spec => []TypeOK
<1>1. BufferInv => TypeOK
  BY DEF BufferInv
<1> QED
  BY Invariance, <1>1, PTL

(* No event is lost between memory and disk, through failed flushes too,   *)
(* unless a line was cut or two flushes met.                               *)
THEOREM NothingIsLost == Spec => []NoEventLost
<1>1. BufferInv => NoEventLost
  <2> SUFFICES ASSUME BufferInv, ~cut, NEW w \in Writers \ crashed, NEW i \in 1 .. emitted[w]
               PROVE  Buffered(w, i) \/ Stands(w, i)
    BY DEF NoEventLost
  <2> DEFINE n == Len(buffer[w])  e == emitted[w] - n
  <2>1. /\ e \in Nat /\ n \in Nat /\ emitted[w] = e + n /\ DOMAIN buffer[w] = 1 .. n
        /\ \A k \in 1 .. n : buffer[w][k] = e + k
    BY DEF BufferInv, TypeOK, Consecutive, Written
  <2>2. CASE i \in 1 .. e
    BY <2>2 DEF BufferInv, OnDisk, Written
  <2>3. CASE i \notin 1 .. e
    <3>1. i - e \in 1 .. n /\ e + (i - e) = i
      BY <2>1, <2>3
    <3> QED
      BY <2>1, <3>1 DEF Buffered
  <2> QED
    BY <2>2, <2>3
<1> QED
  BY Invariance, <1>1, PTL

(* The file tells the events of a run in the order of their emission.      *)
THEOREM FileIsInOrder == Spec => []EventsInOrder
<1>1. BufferInv => EventsInOrder
  BY DEF BufferInv, InOrder, EventsInOrder, TypeOK, Events
<1> QED
  BY Invariance, <1>1, PTL

(* The two threads of a run never write the same lines.                    *)
THEOREM WrittenOnce == Spec => []OnceWithoutFault
<1>1. BufferInv => OnceWithoutFault
  BY DEF BufferInv
<1> QED
  BY Invariance, <1>1, PTL

(* A run that ends without a fault leaves nothing in memory, although the  *)
(* wait for its flusher may end early.                                     *)
THEOREM NothingIsLeft == Spec => []EndedRunIsOnDisk
<1>1. BufferInv => EndedRunIsOnDisk
  <2> SUFFICES ASSUME BufferInv, NEW w \in Writers, run[w] = "done", faults = 0
               PROVE  buffer[w] = <<>> /\ (cut \/ \A i \in 1 .. emitted[w] : Stands(w, i))
    BY DEF EndedRunIsOnDisk
  <2>1. buffer[w] = <<>> /\ w \in Writers \ crashed
    BY DEF BufferInv, EndsEmpty, DeadStaysDead
  <2>2. Written(w) = emitted[w]
    BY <2>1 DEF BufferInv, TypeOK, Written
  <2> QED
    BY <2>1, <2>2 DEF BufferInv, OnDisk
<1> QED
  BY Invariance, <1>1, PTL
=============================================================================
