----------------------------- MODULE AuditProofs -----------------------------
(***************************************************************************)
(* Theorems about AuditLog for every number of processes, every number of     *)
(* pieces to a line and every set of faults.                                  *)
(***************************************************************************)
EXTENDS AuditLog, SequenceTheorems, WellFoundedInduction, TLAPS

\* Where a process is past the lock and has not given it back.
Inside == {"measure", "write", "rollback", "unlock"}

\* The process is writing its line, or taking it back.
Writing(w) == pc[w] \in {"write", "rollback"}

\* Who is inside has the lock.
Locked == \A w \in Writers : pc[w] \in Inside => holder = w

\* The next piece is the first until the process writes, and there is one to
\* write as long as it does.
Counted ==
    \A w \in Writers :
        /\ pc[w] \in {"open", "lock", "measure"} => next[w] = 1
        /\ Writing(w) => next[w] \in 1 .. Parts

\* The end of the log, from the length that was measured on, is the line so far of
\* the process that writes.
Written ==
    \A w \in Writers : Writing(w) =>
        /\ Len(file) = base[w] + next[w] - 1
        /\ \A k \in 1 .. next[w] - 1 : file[base[w] + k] = [by |-> w, part |-> k]

Shape == TypeOK /\ Locked /\ Counted /\ Written

LEMMA InitShape == Init => Shape
    BY AuditAssumption DEF Init, Shape, TypeOK, Locked, Counted, Written, Writing, Inside, Piece

\* What a step does to the log: nothing, one piece more, or back to the length
\* that was measured.
Untouched == file' = file

Longer(w) ==
    /\ pc[w] = "write" /\ file' = Append(file, [by |-> w, part |-> next[w]])

Shorter(w) ==
    /\ pc[w] = "rollback" /\ file' = SubSeq(file, 1, base[w])

LEMMA LongerLog ==
    ASSUME Shape, NEW w \in Writers, Longer(w)
    PROVE  /\ file' \in Seq(Piece)
           /\ Len(file') = Len(file) + 1
           /\ \A i \in 1 .. Len(file) : file'[i] = file[i]
           /\ file'[Len(file) + 1] = [by |-> w, part |-> next[w]]
<1>1. [by |-> w, part |-> next[w]] \in Piece
    BY DEF Shape, Counted, Longer, Writing, Piece
<1>2. file \in Seq(Piece)
    BY DEF Shape, TypeOK
<1> QED
    BY <1>1, <1>2, AppendProperties DEF Longer

LEMMA ShorterLog ==
    ASSUME Shape, NEW w \in Writers, Shorter(w)
    PROVE  /\ file' \in Seq(Piece)
           /\ base[w] \in 0 .. Len(file)
           /\ Len(file') = base[w]
           /\ \A i \in 1 .. base[w] : file'[i] = file[i]
<1>1. base[w] \in 0 .. Len(file)
    BY LenProperties DEF Shape, TypeOK, Counted, Written, Shorter, Writing
<1>2. file \in Seq(Piece)
    BY DEF Shape, TypeOK
<1>3. \A i \in 1 .. base[w] : file[i] \in Piece
    BY <1>1, <1>2, ElementOfSeq, LenProperties
<1> QED
    BY <1>1, <1>2, <1>3, SubSeqProperties DEF Shorter

LEMMA NextShape == Shape /\ [Next]_vars => Shape'
<1> SUFFICES ASSUME Shape, [Next]_vars PROVE Shape'
    OBVIOUS
<1> USE AuditAssumption
<1>1. ASSUME NEW w \in Writers, OpenLog(w) PROVE Shape'
    BY <1>1 DEF OpenLog, Goto, Shape, TypeOK, Locked, Counted, Written, Writing, Inside, Final
<1>2. ASSUME NEW w \in Writers, LockLog(w) PROVE Shape'
    BY <1>2 DEF LockLog, Goto, Shape, TypeOK, Locked, Counted, Written, Writing, Inside, Final
<1>3. ASSUME NEW w \in Writers, Measure(w) PROVE Shape'
  <2>1. Len(file) \in Nat
    BY LenProperties DEF Shape, TypeOK
  <2>2. TypeOK' /\ Locked' /\ Counted'
    BY <1>3, <2>1 DEF Measure, Goto, Shape, TypeOK, Locked, Counted, Writing, Inside, Final
  <2>3. Written'
    BY <1>3, <2>1 DEF Measure, Goto, Shape, TypeOK, Counted, Written, Writing
  <2> QED
    BY <2>2, <2>3 DEF Shape
<1>4. ASSUME NEW w \in Writers, WritePiece(w) PROVE Shape'
  <2>1. Longer(w)
    BY <1>4 DEF WritePiece, Longer
  <2>2. /\ file' \in Seq(Piece)
        /\ Len(file') = Len(file) + 1
        /\ \A i \in 1 .. Len(file) : file'[i] = file[i]
        /\ file'[Len(file) + 1] = [by |-> w, part |-> next[w]]
    BY <2>1, LongerLog
  <2>3. /\ next[w] \in 1 .. Parts
        /\ base[w] \in Nat
        /\ Len(file) = base[w] + next[w] - 1
        /\ \A k \in 1 .. next[w] - 1 : file[base[w] + k] = [by |-> w, part |-> k]
    BY <1>4 DEF WritePiece, Shape, TypeOK, Counted, Written, Writing
  <2>4. \A v \in Writers : Writing(v)' => v = w
    BY <1>4 DEF WritePiece, Goto, Shape, TypeOK, Locked, Writing, Inside
  <2>5. TypeOK'
    <3>1. next' \in [Writers -> 1 .. Parts + 1]
        BY <1>4, <2>3 DEF WritePiece, Shape, TypeOK
    <3>2. saved' \in [Writers -> BOOLEAN]
        BY <1>4 DEF WritePiece, Shape, TypeOK
    <3>3. pc' = pc \/ pc' = [pc EXCEPT ![w] = "unlock"]
        BY <1>4 DEF WritePiece, Goto
    <3> QED
        BY <1>4, <2>2, <3>1, <3>2, <3>3 DEF WritePiece, Shape, TypeOK
  <2>6. Locked' /\ Counted'
    BY <1>4, <2>3, <2>4 DEF WritePiece, Goto, Shape, TypeOK, Locked, Counted, Writing, Inside
  <2>7. Written'
    <3> SUFFICES ASSUME Writing(w)'
                 PROVE  /\ Len(file') = base[w] + next'[w] - 1
                        /\ \A k \in 1 .. next'[w] - 1 : file'[base[w] + k] = [by |-> w, part |-> k]
        BY <1>4, <2>4 DEF WritePiece, Written
    <3>1. next'[w] = next[w] + 1
        BY <1>4 DEF WritePiece, Shape, TypeOK
    <3>2. \A k \in 1 .. next[w] - 1 : file'[base[w] + k] = [by |-> w, part |-> k]
        BY <2>2, <2>3
    <3>3. file'[base[w] + next[w]] = [by |-> w, part |-> next[w]]
        BY <2>2, <2>3
    <3>4. Len(file') = base[w] + next'[w] - 1
        BY <2>2, <2>3, <3>1
    <3>5. ASSUME NEW k \in 1 .. next'[w] - 1 PROVE file'[base[w] + k] = [by |-> w, part |-> k]
        <4>1. CASE k = next[w]
            BY <4>1, <3>3
        <4>2. CASE k # next[w]
            BY <4>2, <3>1, <3>2, <2>3
        <4> QED
            BY <4>1, <4>2
    <3> QED
        BY <3>4, <3>5
  <2> QED
    BY <2>5, <2>6, <2>7 DEF Shape
<1>5. ASSUME NEW w \in Writers, Rollback(w) PROVE Shape'
  <2>1. \A v \in Writers : ~Writing(v)'
    BY <1>5 DEF Rollback, Goto, Shape, TypeOK, Locked, Writing, Inside
  <2>2. file' \in Seq(Piece)
    <3>1. CASE Shorter(w)
        BY <3>1, ShorterLog
    <3>2. CASE Untouched
        BY <3>2 DEF Untouched, Shape, TypeOK
    <3> QED
        BY <1>5, <3>1, <3>2 DEF Rollback, Shorter, Untouched
  <2>3. TypeOK'
    BY <1>5, <2>2 DEF Rollback, Goto, Shape, TypeOK, Final
  <2>4. Locked' /\ Counted' /\ Written'
    BY <1>5, <2>1 DEF Rollback, Goto, Shape, TypeOK, Locked, Counted, Written, Writing, Inside
  <2> QED
    BY <2>3, <2>4 DEF Shape
<1>6. ASSUME NEW w \in Writers, Unlock(w) PROVE Shape'
    BY <1>6 DEF Unlock, Goto, Shape, TypeOK, Locked, Counted, Written, Writing, Inside, Final
<1>7. ASSUME NEW w \in Writers, Answer(w) PROVE Shape'
  <2>1. \E said \in {"audit_failed", "output_lost"} \cup Outcomes : shown' = [shown EXCEPT ![w] = said]
    BY <1>7 DEF Answer, Shape, TypeOK
  <2>2. TypeOK'
    BY <1>7, <2>1 DEF Answer, Goto, Shape, TypeOK, Final
  <2>3. Locked' /\ Counted' /\ Written'
    BY <1>7 DEF Answer, Goto, Shape, TypeOK, Locked, Counted, Written, Writing, Inside
  <2> QED
    BY <2>2, <2>3 DEF Shape
<1>8. ASSUME NEW w \in Writers, Denied(w) \/ MeasureFails(w) PROVE Shape'
  <2>1. \E at \in {"answer", "unlock"} : Goto(w, at)
    BY <1>8 DEF Denied, MeasureFails
  <2>2. UNCHANGED <<outcome, base, next, saved, shown, file, holder, torn>>
    BY <1>8 DEF Denied, MeasureFails
  <2>3. TypeOK'
    BY <2>1, <2>2 DEF Goto, Shape, TypeOK, Final
  <2>4. Locked'
    BY <1>8, <2>1, <2>2 DEF Denied, MeasureFails, Goto, Shape, TypeOK, Locked, Inside
  <2>5. Counted' /\ Written'
    BY <2>1, <2>2 DEF Goto, Shape, TypeOK, Counted, Written, Writing
  <2> QED
    BY <2>3, <2>4, <2>5 DEF Shape
<1>9. ASSUME NEW w \in Writers, WriteError(w) PROVE Shape'
    BY <1>9 DEF WriteError, Goto, Shape, TypeOK, Locked, Counted, Written, Writing, Inside, Final
<1>10. ASSUME NEW w \in Writers, Kill(w) PROVE Shape'
    BY <1>10 DEF Kill, Goto, Shape, TypeOK, Locked, Counted, Written, Writing, Inside, Final
<1>11. CASE UNCHANGED vars
    BY <1>11 DEF vars, Shape, TypeOK, Locked, Counted, Written, Writing
<1> QED
    BY <1>1, <1>2, <1>3, <1>4, <1>5, <1>6, <1>7, <1>8, <1>9, <1>10, <1>11
    DEF Next, Step, Fault, Finished

\* Every reachable state of the log and its writers is well typed.
THEOREM TypeCorrect == Spec => []TypeOK
<1>1. Shape => TypeOK
    BY DEF Shape
<1> QED
    BY InitShape, NextShape, <1>1, PTL DEF Spec

LEMMA ShapeAlways == Spec => []Shape
    BY InitShape, NextShape, PTL DEF Spec

-----------------------------------------------------------------------------
(* Whole lines.                                                               *)

LEMMA LogSteps ==
    ASSUME [Next]_vars
    PROVE  Untouched \/ \E w \in Writers : WritePiece(w) \/ Rollback(w)
<1>1. ASSUME NEW w \in Writers, Step(w) \/ Fault(w) PROVE Untouched \/ WritePiece(w) \/ Rollback(w)
    BY <1>1 DEF Step, Fault, OpenLog, LockLog, Measure, Unlock, Answer, Denied, MeasureFails,
                WriteError, Kill, Untouched
<1>2. CASE UNCHANGED vars
    BY <1>2 DEF vars, Untouched
<1> QED
    BY <1>1, <1>2 DEF Next, Finished

LEMMA NextNeverMixed == Shape /\ NeverMixed /\ [Next]_vars => NeverMixed'
<1> SUFFICES ASSUME Shape, NeverMixed, [Next]_vars,
                    NEW i \in 1 .. Len(file'), file'[i].part > 1
             PROVE  i > 1 /\ file'[i-1] = [by |-> file'[i].by, part |-> file'[i].part - 1]
    BY DEF NeverMixed
<1>0. file \in Seq(Piece) /\ Len(file) \in Nat
    BY LenProperties DEF Shape, TypeOK
<1>1. CASE Untouched
    BY <1>1 DEF Untouched, NeverMixed
<1>2. ASSUME NEW w \in Writers, WritePiece(w)
      PROVE  i > 1 /\ file'[i-1] = [by |-> file'[i].by, part |-> file'[i].part - 1]
  <2>1. /\ Len(file') = Len(file) + 1
        /\ \A j \in 1 .. Len(file) : file'[j] = file[j]
        /\ file'[Len(file) + 1] = [by |-> w, part |-> next[w]]
    BY <1>2, LongerLog DEF WritePiece, Longer
  <2>2. CASE i \in 1 .. Len(file)
    BY <1>0, <2>1, <2>2 DEF NeverMixed
  <2>3. CASE i = Len(file) + 1
    <3>1. next[w] > 1
        BY <2>1, <2>3
    <3>2. /\ next[w] \in 1 .. Parts
          /\ base[w] \in Nat
          /\ Len(file) = base[w] + next[w] - 1
          /\ \A k \in 1 .. next[w] - 1 : file[base[w] + k] = [by |-> w, part |-> k]
        BY <1>2 DEF WritePiece, Shape, TypeOK, Counted, Written, Writing
    <3>3. file[Len(file)] = [by |-> w, part |-> next[w] - 1] /\ Len(file) >= 1
        BY <3>1, <3>2, AuditAssumption
    <3> QED
        BY <1>0, <2>1, <2>3, <3>3
  <2> QED
    BY <1>0, <2>1, <2>2, <2>3
<1>3. ASSUME NEW w \in Writers, Rollback(w), ~Untouched
      PROVE  i > 1 /\ file'[i-1] = [by |-> file'[i].by, part |-> file'[i].part - 1]
  <2>1. /\ base[w] \in 0 .. Len(file)
        /\ Len(file') = base[w]
        /\ \A j \in 1 .. base[w] : file'[j] = file[j]
    BY <1>3, ShorterLog DEF Rollback, Shorter, Untouched
  <2> QED
    BY <1>0, <2>1 DEF NeverMixed
<1> QED
    BY <1>1, <1>2, <1>3, LogSteps

\* Lines of concurrent writers never mix, whatever is killed, full or stuck:
\* the lock covers every piece of a line (append).
THEOREM LinesNeverMix == Spec => []NeverMixed
<1>1. Init => NeverMixed
    BY DEF Init, NeverMixed
<1> QED
    BY <1>1, NextNeverMixed, ShapeAlways, PTL DEF Spec

-----------------------------------------------------------------------------
(* Nothing shown that is not recorded.                                        *)

\* A line that was saved is in the log, its process is past the writing, and no
\* result is shown without it.
Remembered ==
    \A w \in Writers :
        /\ saved[w] => Recorded(w) /\ pc[w] \in {"unlock", "answer", "done", "killed"}
        /\ shown[w] \in {"ok", "failure", "output_lost"} => saved[w]

\* What a line of somebody else, and its own last piece, leave of a record.
LEMMA LongerKeeps ==
    ASSUME Shape, NEW w \in Writers, WritePiece(w), NEW v \in Writers, Recorded(v)
    PROVE  Recorded(v)'
<1>1. /\ Len(file') = Len(file) + 1 /\ Len(file) \in Nat
      /\ \A j \in 1 .. Len(file) : file'[j] = file[j]
    BY LongerLog, LenProperties DEF WritePiece, Longer, Shape, TypeOK
<1>2. PICK i \in 1 .. Len(file) :
          i >= Parts /\ \A k \in 1 .. Parts : file[i - Parts + k] = [by |-> v, part |-> k]
    BY DEF Recorded
<1>3. \A k \in 1 .. Parts : i - Parts + k \in 1 .. Len(file)
    BY <1>1, <1>2, AuditAssumption
<1>4. i \in 1 .. Len(file') /\ \A k \in 1 .. Parts : file'[i - Parts + k] = [by |-> v, part |-> k]
    BY <1>1, <1>2, <1>3
<1> QED
    BY <1>2, <1>4 DEF Recorded

LEMMA LastPieceRecords ==
    ASSUME Shape, NEW w \in Writers, WritePiece(w), next[w] = Parts
    PROVE  Recorded(w)'
<1>1. /\ Len(file') = Len(file) + 1
      /\ \A j \in 1 .. Len(file) : file'[j] = file[j]
      /\ file'[Len(file) + 1] = [by |-> w, part |-> next[w]]
    BY LongerLog DEF WritePiece, Longer
<1>2. /\ base[w] \in Nat
      /\ Len(file) = base[w] + Parts - 1
      /\ \A k \in 1 .. Parts - 1 : file[base[w] + k] = [by |-> w, part |-> k]
    BY DEF WritePiece, Shape, TypeOK, Written, Writing
<1>3. ASSUME NEW k \in 1 .. Parts
      PROVE  file'[Len(file') - Parts + k] = [by |-> w, part |-> k]
  <2>1. Len(file') - Parts + k = base[w] + k
    BY <1>1, <1>2, AuditAssumption
  <2>2. CASE k = Parts
    BY <1>1, <1>2, <2>1, <2>2, AuditAssumption
  <2>3. CASE k # Parts
    <3>1. k \in 1 .. Parts - 1 /\ base[w] + k \in 1 .. Len(file)
        BY <1>2, <2>3, AuditAssumption
    <3> QED
        BY <1>1, <1>2, <2>1, <3>1
  <2> QED
    BY <2>2, <2>3
<1>4. Len(file') \in 1 .. Len(file') /\ Len(file') >= Parts
    BY <1>1, <1>2, AuditAssumption
<1> QED
    BY <1>3, <1>4 DEF Recorded

LEMMA ShorterKeeps ==
    ASSUME Shape, NEW w \in Writers, Shorter(w), NEW v \in Writers, v # w, Recorded(v)
    PROVE  Recorded(v)'
<1>1. /\ base[w] \in 0 .. Len(file) /\ Len(file) \in Nat
      /\ Len(file') = base[w]
      /\ \A j \in 1 .. base[w] : file'[j] = file[j]
    BY ShorterLog, LenProperties DEF Shape, TypeOK
<1>2. PICK i \in 1 .. Len(file) :
          i >= Parts /\ \A k \in 1 .. Parts : file[i - Parts + k] = [by |-> v, part |-> k]
    BY DEF Recorded
<1>3. file[i].by = v
  <2>1. file[i - Parts + Parts] = [by |-> v, part |-> Parts]
    BY <1>2, AuditAssumption
  <2>2. i - Parts + Parts = i
    BY AuditAssumption
  <2> QED
    BY <2>1, <2>2
<1>4. i <= base[w]
  <2> SUFFICES ASSUME i > base[w] PROVE FALSE
    BY <1>1
  <2>1. /\ next[w] \in 1 .. Parts /\ Len(file) = base[w] + next[w] - 1
        /\ \A k \in 1 .. next[w] - 1 : file[base[w] + k] = [by |-> w, part |-> k]
    BY DEF Shape, Counted, Written, Writing, Shorter
  <2>2. i - base[w] \in 1 .. next[w] - 1 /\ base[w] + (i - base[w]) = i
    BY <1>1, <2>1, AuditAssumption
  <2>3. file[i].by = w
    <3>1. file[base[w] + (i - base[w])] = [by |-> w, part |-> i - base[w]]
        BY <2>1, <2>2
    <3> QED
        BY <2>2, <3>1
  <2> QED
    BY <1>3, <2>3
<1>5. \A k \in 1 .. Parts : i - Parts + k \in 1 .. base[w]
    BY <1>1, <1>2, <1>4, AuditAssumption
<1>6. i \in 1 .. Len(file') /\ \A k \in 1 .. Parts : file'[i - Parts + k] = [by |-> v, part |-> k]
    BY <1>1, <1>2, <1>4, <1>5
<1> QED
    BY <1>2, <1>6 DEF Recorded

LEMMA NextRemembered == Shape /\ Remembered /\ [Next]_vars => Remembered'
<1> SUFFICES ASSUME Shape, Remembered, [Next]_vars PROVE Remembered'
    OBVIOUS
<1>1. Untouched => \A v \in Writers : Recorded(v) => Recorded(v)'
    BY DEF Untouched, Recorded
<1>2. ASSUME NEW w \in Writers, OpenLog(w) \/ LockLog(w) \/ Measure(w) \/ Unlock(w)
                                \/ Denied(w) \/ MeasureFails(w) \/ WriteError(w)
      PROVE  Remembered'
  <2>1. /\ Untouched /\ UNCHANGED <<saved, shown>>
        /\ \A v \in Writers \ {w} : pc'[v] = pc[v]
        /\ pc'[w] \in {"unlock", "answer"} \/ pc[w] \in {"open", "lock", "measure", "write"}
    BY <1>2 DEF OpenLog, LockLog, Measure, Unlock, Denied, MeasureFails, WriteError, Untouched,
                Goto, Shape, TypeOK
  <2> QED
    BY <1>1, <2>1 DEF Remembered
<1>3. ASSUME NEW w \in Writers, WritePiece(w) PROVE Remembered'
  <2>1. \A v \in Writers : Recorded(v) => Recorded(v)'
    BY <1>3, LongerKeeps
  <2>2. next[w] = Parts => Recorded(w)'
    BY <1>3, LastPieceRecords
  <2>3. saved'[w] => next[w] = Parts /\ pc'[w] = "unlock"
    BY <1>3 DEF WritePiece, Goto, Remembered, Shape, TypeOK
  <2>4. \A v \in Writers \ {w} : saved'[v] = saved[v] /\ pc'[v] = pc[v]
    BY <1>3 DEF WritePiece, Goto, Shape, TypeOK
  <2>5. shown' = shown /\ ~saved[w]
    BY <1>3 DEF WritePiece, Remembered
  <2> QED
    BY <2>1, <2>2, <2>3, <2>4, <2>5 DEF Remembered
<1>4. ASSUME NEW w \in Writers, Rollback(w) PROVE Remembered'
  <2>1. ~saved[w] /\ UNCHANGED <<saved, shown>> /\ \A v \in Writers \ {w} : pc'[v] = pc[v]
    BY <1>4 DEF Rollback, Goto, Remembered, Shape, TypeOK
  <2>2. \A v \in Writers : v # w /\ Recorded(v) => Recorded(v)'
    BY <1>1, <1>4, ShorterKeeps DEF Rollback, Shorter, Untouched
  <2> QED
    BY <2>1, <2>2 DEF Remembered
<1>5. ASSUME NEW w \in Writers, Answer(w) PROVE Remembered'
  <2>1. /\ Untouched /\ saved' = saved
        /\ \A v \in Writers \ {w} : pc'[v] = pc[v] /\ shown'[v] = shown[v]
        /\ pc'[w] = "done"
        /\ shown'[w] \in {"ok", "failure", "output_lost"} => saved[w]
    BY <1>5 DEF Answer, Goto, Shape, TypeOK, Untouched
  <2> QED
    BY <1>1, <2>1 DEF Remembered
<1>6. ASSUME NEW w \in Writers, Kill(w) PROVE Remembered'
  <2>1. /\ Untouched /\ UNCHANGED <<saved, shown>>
        /\ \A v \in Writers \ {w} : pc'[v] = pc[v]
        /\ pc'[w] = "killed"
    BY <1>6 DEF Kill, Goto, Shape, TypeOK, Untouched
  <2> QED
    BY <1>1, <2>1 DEF Remembered
<1>7. CASE UNCHANGED vars
    BY <1>1, <1>7 DEF vars, Untouched, Remembered
<1> QED
    BY <1>2, <1>3, <1>4, <1>5, <1>6, <1>7 DEF Next, Step, Fault, Finished

\* What the agent was shown is in the log, whole, whatever happens to other
\* writers afterwards (audit_finish, write_flush).
THEOREM ShownIsLogged == Spec => []ShownIsRecorded
<1>1. Init => Remembered
    BY DEF Init, Remembered
<1>2. Remembered => ShownIsRecorded
    BY DEF Remembered, ShownIsRecorded
<1> QED
    BY <1>1, NextRemembered, ShapeAlways, <1>2, PTL DEF Spec

-----------------------------------------------------------------------------
(* Fragments.                                                                 *)

\* The piece at i ends a line, is the work of somebody known to have torn one, or
\* is continued.
Explained(i) ==
    \/ file[i].part = Parts
    \/ file[i].by \in torn
    \/ i < Len(file) /\ file[i+1] = [file[i] EXCEPT !.part = @ + 1]

\* Whatever is not explained is of the line that is being written.
Accounted ==
    \A i \in 1 .. Len(file) : Explained(i) \/ \E w \in Writers : Writing(w) /\ i > base[w]

\* What a writer has written beyond the length it measured is its own.
LEMMA OwnTail ==
    ASSUME Shape, NEW w \in Writers, Writing(w), NEW i \in 1 .. Len(file), i > base[w]
    PROVE  file[i] = [by |-> w, part |-> i - base[w]] /\ i - base[w] \in 1 .. next[w] - 1
<1>1. /\ next[w] \in 1 .. Parts /\ base[w] \in Nat /\ Len(file) = base[w] + next[w] - 1
      /\ \A k \in 1 .. next[w] - 1 : file[base[w] + k] = [by |-> w, part |-> k]
    BY DEF Shape, TypeOK, Counted, Written
<1>2. i - base[w] \in 1 .. next[w] - 1 /\ base[w] + (i - base[w]) = i
    BY <1>1, AuditAssumption
<1>3. file[base[w] + (i - base[w])] = [by |-> w, part |-> i - base[w]]
    BY <1>1, <1>2
<1> QED
    BY <1>2, <1>3

\* Two processes do not write at once.
LEMMA OneWrites ==
    ASSUME Shape, NEW v \in Writers, NEW w \in Writers, Writing(v), pc[w] \in Inside
    PROVE  v = w
    BY DEF Shape, Locked, Writing, Inside

\* What was there before the line of the one that writes is explained.
LEMMA BeforeTheLine ==
    ASSUME Shape, Accounted, NEW w \in Writers, pc[w] \in Inside,
           NEW i \in 1 .. Len(file), i <= base[w]
    PROVE  Explained(i)
<1>1. \A v \in Writers : Writing(v) => v = w
    BY OneWrites
<1>2. i \in Nat /\ base[w] \in Nat
    BY DEF Shape, TypeOK
<1>3. ~\E v \in Writers : Writing(v) /\ i > base[v]
    BY <1>1, <1>2
<1> QED
    BY <1>3 DEF Accounted

LEMMA NextAccounted == Shape /\ Accounted /\ [Next]_vars => Accounted'
<1> SUFFICES ASSUME Shape, Accounted, [Next]_vars PROVE Accounted'
    OBVIOUS
<1>0. Len(file) \in Nat /\ file \in Seq(Piece)
    BY LenProperties DEF Shape, TypeOK
<1>1. ASSUME NEW w \in Writers, OpenLog(w) \/ LockLog(w) \/ Unlock(w) \/ Denied(w)
                                \/ MeasureFails(w) \/ WriteError(w) \/ Answer(w)
      PROVE  Accounted'
  <2>1. /\ UNCHANGED <<file, torn, base>>
        /\ \A v \in Writers : Writing(v) => Writing(v)'
    BY <1>1 DEF OpenLog, LockLog, Unlock, Denied, MeasureFails, WriteError, Answer, Goto, Writing,
                Shape, TypeOK
  <2> QED
    BY <2>1 DEF Accounted, Explained
<1>2. ASSUME NEW w \in Writers, Measure(w) PROVE Accounted'
  <2>1. UNCHANGED <<file, torn>>
    BY <1>2 DEF Measure
  <2>2. \A v \in Writers : ~Writing(v)
    BY <1>2, OneWrites DEF Measure, Inside, Writing
  <2>3. \A i \in 1 .. Len(file) : Explained(i)
    BY <2>2 DEF Accounted
  <2> QED
    BY <2>1, <2>3 DEF Accounted, Explained
<1>3. ASSUME NEW w \in Writers, WritePiece(w), NEW i \in 1 .. Len(file')
      PROVE  (Explained(i) \/ \E v \in Writers : Writing(v) /\ i > base[v])'
  <2>1. /\ Len(file') = Len(file) + 1
        /\ \A j \in 1 .. Len(file) : file'[j] = file[j]
        /\ file'[Len(file) + 1] = [by |-> w, part |-> next[w]]
    BY <1>3, LongerLog DEF WritePiece, Longer
  <2>2. Writing(w) /\ base' = base /\ torn' = torn
    BY <1>3 DEF WritePiece, Writing
  <2>3. /\ next[w] \in 1 .. Parts /\ base[w] \in Nat /\ Len(file) = base[w] + next[w] - 1
    BY <2>2 DEF Shape, TypeOK, Counted, Written
  <2>4. CASE i <= base[w]
    <3>1. i \in 1 .. Len(file)
        BY <2>1, <2>3, <2>4, AuditAssumption
    <3>2. Explained(i)
        BY <2>2, <2>4, <3>1, BeforeTheLine DEF Writing, Inside
    <3>3. file'[i] = file[i] /\ torn' = torn
        BY <2>1, <2>2, <3>1
    <3>4. CASE i < Len(file) /\ file[i + 1] = [file[i] EXCEPT !.part = @ + 1]
        <4>1. i + 1 \in 1 .. Len(file)
            BY <1>0, <3>1, <3>4
        <4>2. file'[i + 1] = [file'[i] EXCEPT !.part = @ + 1] /\ i < Len(file')
            BY <1>0, <2>1, <3>3, <3>4, <4>1
        <4> QED
            BY <4>2 DEF Explained
    <3> QED
        BY <3>2, <3>3, <3>4 DEF Explained
  <2>5. CASE i > base[w] /\ next[w] # Parts
    <3>1. Writing(w)'
        BY <1>3, <2>5 DEF WritePiece, Writing
    <3> QED
        BY <2>2, <2>5, <3>1
  <2>6. CASE i > base[w] /\ next[w] = Parts
    <3>1. CASE i = Len(file) + 1
        BY <2>1, <2>6, <3>1 DEF Explained
    <3>2. CASE i \in 1 .. Len(file)
        <4>1. file[i] = [by |-> w, part |-> i - base[w]]
            BY <2>2, <2>6, <3>2, OwnTail
        <4>2. CASE i = Len(file)
            BY <1>0, <2>1, <2>3, <2>6, <4>1, <4>2, AuditAssumption DEF Explained
        <4>3. CASE i < Len(file)
            <5>1. i + 1 \in 1 .. Len(file) /\ i + 1 > base[w]
                BY <1>0, <2>3, <2>6, <4>3
            <5>2. file[i + 1] = [by |-> w, part |-> (i + 1) - base[w]]
                BY <2>2, <5>1, OwnTail
            <5>0. i \in Nat /\ base[w] \in Nat
                BY <2>3, <3>2
            <5>3. (i + 1) - base[w] = (i - base[w]) + 1
                BY <5>0
            <5>4. [file[i] EXCEPT !.part = @ + 1] = [by |-> w, part |-> (i - base[w]) + 1]
                BY <4>1
            <5>5. file[i + 1] = [file[i] EXCEPT !.part = @ + 1]
                BY <5>2, <5>3, <5>4
            <5>6. file'[i + 1] = [file'[i] EXCEPT !.part = @ + 1]
                BY <2>1, <3>2, <5>1, <5>5
            <5> QED
                BY <1>0, <2>1, <4>3, <5>1, <5>6 DEF Explained
        <4> QED
            BY <1>0, <3>2, <4>2, <4>3
    <3> QED
        BY <1>0, <2>1, <3>1, <3>2
  <2> QED
    BY <2>3, <2>4, <2>5, <2>6, <2>1, <1>0
<1>4. ASSUME NEW w \in Writers, Rollback(w), Shorter(w) PROVE Accounted'
  <2>1. /\ base[w] \in 0 .. Len(file)
        /\ Len(file') = base[w]
        /\ \A j \in 1 .. base[w] : file'[j] = file[j]
    BY <1>4, ShorterLog
  <2>2. torn \subseteq torn' /\ Writing(w)
    BY <1>4 DEF Rollback, Writing
  <2>3. ASSUME NEW i \in 1 .. base[w] PROVE Explained(i)'
    <3>1. i \in 1 .. Len(file)
        BY <1>0, <2>1
    <3>2. Explained(i)
        BY <2>1, <2>2, <3>1, BeforeTheLine DEF Writing, Inside
    <3>3. file[i] \in Piece
        BY <1>0, <3>1
    <3>4. CASE i = base[w] /\ i < Len(file)
        <4>1. file[i + 1] = [by |-> w, part |-> 1]
            <5>1. i + 1 \in 1 .. Len(file) /\ i + 1 > base[w] /\ (i + 1) - base[w] = 1
                BY <1>0, <2>1, <3>4
            <5>2. file[i + 1] = [by |-> w, part |-> (i + 1) - base[w]]
                BY <2>2, <5>1, OwnTail
            <5> QED
                BY <5>1, <5>2
        <4>2. file[i + 1] # [file[i] EXCEPT !.part = @ + 1]
            BY <3>3, <4>1, AuditAssumption DEF Piece
        <4> QED
            BY <2>1, <2>2, <3>2, <4>2 DEF Explained
    <3>5. CASE i < base[w]
        <4>1. file'[i] = file[i] /\ file'[i + 1] = file[i + 1] /\ i < Len(file')
            BY <1>0, <2>1, <3>5
        <4> QED
            BY <2>2, <3>2, <4>1 DEF Explained
    <3>6. CASE i = Len(file)
        BY <1>0, <2>1, <2>2, <3>2, <3>6 DEF Explained
    <3> QED
        BY <1>0, <2>1, <3>4, <3>5, <3>6
  <2> QED
    BY <2>1, <2>3 DEF Accounted
<1>5. ASSUME NEW w \in Writers, Writing(w), Untouched, torn' = torn \cup {w} PROVE Accounted'
  <2>1. ASSUME NEW i \in 1 .. Len(file) PROVE Explained(i) \/ file[i].by = w
    <3>1. pc[w] \in Inside
        BY <1>5 DEF Writing, Inside
    <3>2. CASE i <= base[w]
        BY <3>1, <3>2, BeforeTheLine
    <3>3. CASE i > base[w]
        <4>1. file[i] = [by |-> w, part |-> i - base[w]]
            BY <1>5, <3>3, OwnTail
        <4> QED
            BY <4>1
    <3>4. base[w] \in Nat
        BY DEF Shape, TypeOK
    <3> QED
        BY <3>2, <3>3, <3>4
  <2> QED
    BY <1>5, <2>1 DEF Accounted, Explained, Untouched
<1>6. ASSUME NEW w \in Writers, Rollback(w) PROVE Accounted'
    BY <1>4, <1>5, <1>6 DEF Rollback, Shorter, Untouched, Writing
<1>7. ASSUME NEW w \in Writers, Kill(w) PROVE Accounted'
  <2>1. CASE Writing(w)
    BY <1>5, <1>7, <2>1 DEF Kill, Untouched, Writing
  <2>2. CASE ~Writing(w)
    <3>1. /\ UNCHANGED <<file, torn, base>>
          /\ \A v \in Writers : Writing(v) => Writing(v)'
        BY <1>7, <2>2 DEF Kill, Goto, Writing, Shape, TypeOK
    <3> QED
        BY <3>1 DEF Accounted, Explained
  <2> QED
    BY <2>1, <2>2
<1>8. CASE UNCHANGED vars
    BY <1>8 DEF vars, Accounted, Explained, Writing
<1>9. \A w \in Writers : WritePiece(w) => Accounted'
    BY <1>3 DEF Accounted
<1> QED
    BY <1>1, <1>2, <1>6, <1>7, <1>8, <1>9 DEF Next, Step, Fault, Finished

\* Where nobody holds the lock, a line without its end is the work of a killed
\* process or of a rollback that failed (write_flush).
THEOREM FragmentsHaveACause == Spec => []FragmentsExplained
<1>1. Init => Accounted
    BY DEF Init, Accounted
<1>2. Shape /\ Accounted => FragmentsExplained
  <2> SUFFICES ASSUME Shape, Accounted, holder = NoWriter, NEW i \in 1 .. Len(file)
               PROVE  Explained(i)
    BY DEF FragmentsExplained, Explained
  <2>1. \A w \in Writers : ~Writing(w)
    BY AuditAssumption DEF Shape, Locked, Writing, Inside
  <2> QED
    BY <2>1 DEF Accounted
<1> QED
    BY <1>1, NextAccounted, ShapeAlways, <1>2, PTL DEF Spec

-----------------------------------------------------------------------------
(* The log as its reader sees it.                                             *)

\* A set of natural numbers has a least one: what an induction starts from.
LEMMA LeastNatural ==
    ASSUME NEW T \in SUBSET Nat, T # {}
    PROVE  \E m \in T : \A k \in T : m <= k
<1> DEFINE Less == {pair \in Nat \X Nat : pair[1] < pair[2]}
<1>1. IsWellFoundedOn(Less, Nat)
    BY NatLessThanWellFounded DEF OpToRel
<1>2. \E m \in T : \A k \in T : <<k, m>> \notin Less
  <2> HIDE DEF Less
  <2> QED
    BY <1>1, WFMin
<1>3. PICK m \in T : \A k \in T : <<k, m>> \notin Less
    BY <1>2
<1>4. \A k \in T : ~(k < m)
    BY <1>3
<1> QED
    BY <1>4

\* The lines among the first n pieces, from those among the pieces before the n-th.
OneMore(log, n, lines) ==
    IF n = 0 THEN << >>
    ELSE IF log[n].part = Parts THEN Append(lines[n - 1], log[n].by) ELSE lines[n - 1]

LEMMA LinesUnfold ==
    ASSUME NEW log, Len(log) \in Nat
    PROVE  /\ LinesOf(log)[0] = << >>
           /\ \A n \in 1 .. Len(log) : LinesOf(log)[n] = OneMore(log, n, LinesOf(log))
<1> DEFINE Reads(f, k) == f = [n \in 0 .. k |-> OneMore(log, n, f)]
           bad == {k \in 0 .. Len(log) : ~\E f : Reads(f, k)}
<1>1. \E f : Reads(f, Len(log))
  <2> SUFFICES ASSUME Len(log) \in bad PROVE FALSE
    OBVIOUS
  <2>1. PICK m \in bad : \A k \in bad : m <= k
    <3> HIDE DEF Reads
    <3>1. bad \subseteq Nat /\ bad # {}
        OBVIOUS
    <3> HIDE DEF bad
    <3> QED
        BY <3>1, LeastNatural
  <2>2. m # 0
    <3>1. Reads([n \in 0 .. 0 |-> << >>], 0)
        BY DEF OneMore
    <3> HIDE DEF Reads
    <3> QED
        BY <3>1
  <2>3. m \in 1 .. Len(log) /\ m - 1 \in 0 .. Len(log) /\ m - 1 \notin bad
    <3>1. m \in 0 .. Len(log)
        OBVIOUS
    <3> HIDE DEF bad
    <3>2. m - 1 \notin bad
        BY <2>1, <3>1
    <3> QED
        BY <2>2, <3>1, <3>2
  <2>4. PICK f : Reads(f, m - 1)
    BY <2>3
  <2> DEFINE more == [n \in 0 .. m |-> IF n = m THEN OneMore(log, m, f) ELSE f[n]]
  <2>5. ASSUME NEW n \in 0 .. m PROVE more[n] = OneMore(log, n, more)
    <3>1. n # 0 => n - 1 \in 0 .. (m - 1) /\ more[n - 1] = f[n - 1]
        BY <2>3
    <3>2. OneMore(log, n, more) = OneMore(log, n, f)
      <4> HIDE DEF more
      <4> QED
        BY <3>1 DEF OneMore
    <3>3. n # m => n \in 0 .. (m - 1) /\ f[n] = OneMore(log, n, f)
        BY <2>3, <2>4
    <3> QED
        BY <3>2, <3>3
  <2>6. Reads(more, m)
    <3>1. DOMAIN more = 0 .. m /\ more = [n \in 0 .. m |-> more[n]]
        OBVIOUS
    <3> HIDE DEF more
    <3> QED
        BY <2>5, <3>1
  <2> HIDE DEF Reads, more
  <2> QED
    BY <2>1, <2>6
<1>2. LinesOf(log) = CHOOSE f : Reads(f, Len(log))
    BY DEF LinesOf, OneMore
<1>3. Reads(LinesOf(log), Len(log))
  <2> HIDE DEF Reads
  <2> QED
    BY <1>1, <1>2
<1>4. \A n \in 0 .. Len(log) : LinesOf(log)[n] = OneMore(log, n, LinesOf(log))
    BY <1>3
<1> QED
    BY <1>4 DEF OneMore

\* Two logs that agree on their first n pieces have the same lines there.
LEMMA LinesAgree ==
    ASSUME NEW log, NEW other, Len(log) \in Nat, Len(other) \in Nat,
           NEW n \in Nat, n <= Len(log), n <= Len(other),
           \A i \in 1 .. n : log[i] = other[i]
    PROVE  LinesOf(log)[n] = LinesOf(other)[n]
<1> DEFINE bad == {k \in 0 .. n : LinesOf(log)[k] # LinesOf(other)[k]}
<1> SUFFICES ASSUME bad # {} PROVE FALSE
    OBVIOUS
<1>1. PICK m \in bad : \A k \in bad : m <= k
  <2>1. bad \subseteq Nat
    OBVIOUS
  <2> HIDE DEF bad
  <2> QED
    BY <2>1, LeastNatural
<1>2. m \in 0 .. n /\ LinesOf(log)[m] # LinesOf(other)[m]
    OBVIOUS
<1>3. m # 0
    BY <1>2, LinesUnfold
<1>4. m - 1 \in 0 .. n /\ m - 1 \notin bad
  <2> HIDE DEF bad
  <2> QED
    BY <1>1, <1>2, <1>3
<1>5. LinesOf(log)[m - 1] = LinesOf(other)[m - 1]
    BY <1>4
<1>6. LinesOf(log)[m] = OneMore(log, m, LinesOf(log)) /\ LinesOf(other)[m] = OneMore(other, m, LinesOf(other))
    BY <1>2, <1>3, LinesUnfold
<1>7. OneMore(log, m, LinesOf(log)) = OneMore(other, m, LinesOf(other))
    BY <1>2, <1>3, <1>5 DEF OneMore
<1> QED
    BY <1>2, <1>6, <1>7

\* Pieces that end no line add none.
LEMMA NoLineEnds ==
    ASSUME NEW log, Len(log) \in Nat, NEW n \in 0 .. Len(log),
           \A i \in (n + 1) .. Len(log) : log[i].part # Parts
    PROVE  LinesOf(log)[Len(log)] = LinesOf(log)[n]
<1> DEFINE bad == {k \in n .. Len(log) : LinesOf(log)[k] # LinesOf(log)[n]}
<1> SUFFICES ASSUME bad # {} PROVE FALSE
    OBVIOUS
<1>1. PICK m \in bad : \A k \in bad : m <= k
  <2>1. bad \subseteq Nat
    OBVIOUS
  <2> HIDE DEF bad
  <2> QED
    BY <2>1, LeastNatural
<1>2. m \in n .. Len(log) /\ LinesOf(log)[m] # LinesOf(log)[n] /\ m # n
    OBVIOUS
<1>3. m - 1 \in n .. Len(log) /\ m - 1 \notin bad
  <2> HIDE DEF bad
  <2> QED
    BY <1>1, <1>2
<1>4. LinesOf(log)[m - 1] = LinesOf(log)[n]
    BY <1>3
<1>5. m \in 1 .. Len(log) /\ m # 0 /\ log[m].part # Parts
    BY <1>2
<1>6. LinesOf(log)[m] = LinesOf(log)[m - 1]
    BY <1>5, LinesUnfold DEF OneMore
<1> QED
    BY <1>2, <1>4, <1>6

-----------------------------------------------------------------------------
(* The log implements the trail.                                              *)

\* A piece that ends a line commits it, any other leaves the reader's view as it
\* is, and so does a rollback.
LEMMA WriteCommits ==
    ASSUME Shape, NEW w \in Writers, WritePiece(w)
    PROVE  CommittedBy' = IF next[w] = Parts THEN Append(CommittedBy, w) ELSE CommittedBy
<1>1. /\ Len(file) \in Nat /\ Len(file') = Len(file) + 1
      /\ \A i \in 1 .. Len(file) : file'[i] = file[i]
      /\ file'[Len(file) + 1] = [by |-> w, part |-> next[w]]
    BY LongerLog, LenProperties DEF WritePiece, Longer, Shape, TypeOK
<1> DEFINE n == Len(file)
           log == file'
<1>2. LinesOf(log)[n] = LinesOf(file)[n]
  <2>1. Len(log) \in Nat /\ n \in Nat /\ n <= Len(log) /\ n <= Len(file) /\ \A i \in 1 .. n : log[i] = file[i]
    BY <1>1
  <2> HIDE DEF log, n
  <2> QED
    BY <1>1, <2>1, LinesAgree
<1>3. LinesOf(log)[n + 1] = OneMore(log, n + 1, LinesOf(log))
  <2>1. Len(log) \in Nat /\ n + 1 \in 1 .. Len(log)
    BY <1>1
  <2> HIDE DEF log, n
  <2> QED
    BY <2>1, LinesUnfold
<1>4. OneMore(log, n + 1, LinesOf(log)) =
        IF next[w] = Parts THEN Append(LinesOf(file)[n], w) ELSE LinesOf(file)[n]
  <2>1. n + 1 # 0 /\ (n + 1) - 1 = n /\ log[n + 1].part = next[w] /\ log[n + 1].by = w
    BY <1>1
  <2> HIDE DEF log, n
  <2> QED
    BY <1>2, <2>1 DEF OneMore
<1>5. CommittedBy' = LinesOf(log)[n + 1]
    BY <1>1 DEF CommittedBy
<1> QED
    BY <1>3, <1>4, <1>5 DEF CommittedBy

LEMMA RollbackKeepsLines ==
    ASSUME Shape, NEW w \in Writers, Rollback(w)
    PROVE  CommittedBy' = CommittedBy
<1>1. CASE file' = file
    BY <1>1 DEF CommittedBy
<1>2. CASE Shorter(w)
  <2>1. /\ base[w] \in 0 .. Len(file) /\ Len(file') = base[w] /\ Len(file) \in Nat
        /\ \A i \in 1 .. base[w] : file'[i] = file[i]
    BY <1>2, ShorterLog, LenProperties DEF Shape, TypeOK
  <2> DEFINE n == base[w]
             log == file'
  <2>2. LinesOf(log)[n] = LinesOf(file)[n]
    <3>1. Len(log) = n /\ n \in Nat /\ n <= Len(log) /\ n <= Len(file) /\ \A i \in 1 .. n : log[i] = file[i]
        BY <2>1
    <3> HIDE DEF log, n
    <3> QED
        BY <2>1, <3>1, LinesAgree
  <2>3. \A i \in (n + 1) .. Len(file) : file[i].part # Parts
    <3>1. Writing(w) /\ next[w] \in 1 .. Parts
        BY <1>2 DEF Shorter, Writing, Shape, Counted
    <3> SUFFICES ASSUME NEW i \in (n + 1) .. Len(file) PROVE file[i].part # Parts
        OBVIOUS
    <3>2. i \in 1 .. Len(file) /\ i > base[w]
        BY <2>1
    <3>3. file[i] = [by |-> w, part |-> i - base[w]] /\ i - base[w] \in 1 .. next[w] - 1
      <4> HIDE DEF n, log
      <4> QED
        BY <3>1, <3>2, OwnTail
    <3>4. file[i].part = i - base[w]
        BY <3>3
    <3> QED
        BY <3>1, <3>3, <3>4, AuditAssumption
  <2>4. LinesOf(file)[Len(file)] = LinesOf(file)[n]
    <3> HIDE DEF log
    <3> QED
        BY <2>1, <2>3, NoLineEnds
  <2> QED
    BY <2>1, <2>2, <2>4 DEF CommittedBy
<1> QED
    BY <1>1, <1>2 DEF Rollback, Shorter

Phase == [w \in Writers |-> PhaseOf(w)]

\* Where the step of one writer leaves the phase of the others.
LEMMA OneMoves ==
    ASSUME NEW w \in Writers,
           \A v \in Writers \ {w} : pc'[v] = pc[v] /\ saved'[v] = saved[v] /\ shown'[v] = shown[v]
    PROVE  Phase' = [Phase EXCEPT ![w] = PhaseOf(w)']
<1>1. \A v \in Writers \ {w} : PhaseOf(v)' = PhaseOf(v)
    BY DEF PhaseOf
<1> QED
    BY <1>1 DEF Phase

LEMMA SamePhase ==
    ASSUME NEW w \in Writers, CommittedBy' = CommittedBy, PhaseOf(w)' = PhaseOf(w),
           \A v \in Writers \ {w} : pc'[v] = pc[v] /\ saved'[v] = saved[v] /\ shown'[v] = shown[v]
    PROVE  UNCHANGED Trail!trailVars
<1>1. Phase' = Phase
  <2>1. \A v \in Writers : PhaseOf(v)' = PhaseOf(v)
    BY DEF PhaseOf
  <2> QED
    BY <2>1 DEF Phase
<1> QED
    BY <1>1 DEF Trail!trailVars, Phase

\* Every step of a writer is one of the trail's, or none.
LEMMA NextTrail == Shape /\ Remembered /\ [Next]_vars => [Trail!Next]_Trail!trailVars
<1> SUFFICES ASSUME Shape, Remembered, [Next]_vars PROVE [Trail!Next]_Trail!trailVars
    OBVIOUS
<1>1. ASSUME NEW w \in Writers, OpenLog(w) \/ LockLog(w) \/ Measure(w) \/ Unlock(w)
                                \/ Denied(w) \/ MeasureFails(w) \/ WriteError(w)
      PROVE  UNCHANGED Trail!trailVars
  <2>1. /\ file' = file /\ saved' = saved /\ shown' = shown
        /\ \A v \in Writers \ {w} : pc'[v] = pc[v]
        /\ pc'[w] \notin Final /\ pc[w] \notin Final
    BY <1>1 DEF OpenLog, LockLog, Measure, Unlock, Denied, MeasureFails, WriteError, Goto, Shape, TypeOK, Final
  <2>2. PhaseOf(w)' = PhaseOf(w) /\ CommittedBy' = CommittedBy
    BY <2>1 DEF PhaseOf, CommittedBy, Final
  <2> QED
    BY <2>1, <2>2, SamePhase
<1>2. ASSUME NEW w \in Writers, Rollback(w) PROVE UNCHANGED Trail!trailVars
  <2>1. /\ saved' = saved /\ shown' = shown
        /\ \A v \in Writers \ {w} : pc'[v] = pc[v]
        /\ pc'[w] = "unlock" /\ pc[w] = "rollback"
    BY <1>2 DEF Rollback, Goto, Shape, TypeOK
  <2>2. PhaseOf(w)' = PhaseOf(w)
    BY <2>1 DEF PhaseOf
  <2> QED
    BY <1>2, <2>1, <2>2, RollbackKeepsLines, SamePhase
<1>3. ASSUME NEW w \in Writers, WritePiece(w) PROVE [Trail!Next]_Trail!trailVars
  <2>1. /\ shown' = shown /\ ~saved[w] /\ pc[w] = "write"
        /\ \A v \in Writers \ {w} : pc'[v] = pc[v] /\ saved'[v] = saved[v]
    BY <1>3 DEF WritePiece, Goto, Remembered, Shape, TypeOK
  <2>2. PhaseOf(w) = "busy"
    BY <2>1 DEF PhaseOf
  <2>3. CASE next[w] = Parts
    <3>1. CommittedBy' = Append(CommittedBy, w)
        BY <1>3, <2>3, WriteCommits
    <3>2. pc'[w] = "unlock" /\ saved'[w]
        BY <1>3, <2>3 DEF WritePiece, Goto, Shape, TypeOK
    <3>3. PhaseOf(w)' = "logged"
        BY <3>2 DEF PhaseOf
    <3>4. Phase' = [Phase EXCEPT ![w] = "logged"]
        BY <2>1, <3>3, OneMoves
    <3>5. Trail!Commit(w)
        BY <2>2, <3>1, <3>4 DEF Trail!Commit, Phase
    <3> QED
        BY <3>5 DEF Trail!Next
  <2>4. CASE next[w] # Parts
    <3>1. CommittedBy' = CommittedBy
        BY <1>3, <2>4, WriteCommits
    <3>2. PhaseOf(w)' = PhaseOf(w)
        BY <1>3, <2>1, <2>4 DEF WritePiece, PhaseOf
    <3> QED
        BY <2>1, <3>1, <3>2, SamePhase
  <2> QED
    BY <2>3, <2>4
<1>4. ASSUME NEW w \in Writers, Answer(w) PROVE [Trail!Next]_Trail!trailVars
  <2>1. /\ CommittedBy' = CommittedBy /\ saved' = saved /\ pc[w] = "answer" /\ pc'[w] = "done"
        /\ \A v \in Writers \ {w} : pc'[v] = pc[v] /\ shown'[v] = shown[v]
    BY <1>4 DEF Answer, Goto, Shape, TypeOK, CommittedBy
  <2>2. CASE saved[w]
    <3>1. shown'[w] # "audit_failed"
        BY <1>4, <2>2 DEF Answer, Shape, TypeOK, Outcomes
    <3>2. PhaseOf(w) = "logged" /\ PhaseOf(w)' = "shown"
        BY <2>1, <2>2, <3>1 DEF PhaseOf
    <3>3. Phase' = [Phase EXCEPT ![w] = "shown"]
        BY <2>1, <3>2, OneMoves
    <3>4. Trail!Show(w)
        BY <2>1, <3>2, <3>3 DEF Trail!Show, Phase
    <3> QED
        BY <3>4 DEF Trail!Next
  <2>3. CASE ~saved[w]
    <3>1. shown'[w] = "audit_failed"
        BY <1>4, <2>3 DEF Answer, Shape, TypeOK
    <3>2. PhaseOf(w) = "busy" /\ PhaseOf(w)' = "withheld"
        BY <2>1, <2>3, <3>1 DEF PhaseOf
    <3>3. Phase' = [Phase EXCEPT ![w] = "withheld"]
        BY <2>1, <3>2, OneMoves
    <3>4. Trail!Withhold(w)
        BY <2>1, <3>2, <3>3 DEF Trail!Withhold, Phase
    <3> QED
        BY <3>4 DEF Trail!Next
  <2> QED
    BY <2>2, <2>3
<1>5. ASSUME NEW w \in Writers, Kill(w) PROVE [Trail!Next]_Trail!trailVars
  <2>1. /\ CommittedBy' = CommittedBy /\ saved' = saved /\ shown' = shown
        /\ pc[w] \notin Final /\ pc'[w] = "killed"
        /\ \A v \in Writers \ {w} : pc'[v] = pc[v]
    BY <1>5 DEF Kill, Goto, Shape, TypeOK, CommittedBy
  <2>2. PhaseOf(w) \in {"busy", "logged"} /\ PhaseOf(w)' = "gone"
    BY <2>1 DEF PhaseOf, Final
  <2>3. Phase' = [Phase EXCEPT ![w] = "gone"]
    BY <2>1, <2>2, OneMoves
  <2>4. Trail!Vanish(w)
    BY <2>1, <2>2, <2>3 DEF Trail!Vanish, Phase
  <2> QED
    BY <2>4 DEF Trail!Next
<1>6. CASE UNCHANGED vars
    BY <1>6 DEF vars, Trail!trailVars, CommittedBy, PhaseOf
<1> QED
    BY <1>1, <1>2, <1>3, <1>4, <1>5, <1>6 DEF Next, Step, Fault, Finished

LEMMA InitTrail == Init => Trail!Init
<1> SUFFICES ASSUME Init PROVE Trail!Init
    OBVIOUS
<1>1. CommittedBy = << >>
  <2>1. Len(file) = 0
    BY DEF Init
  <2> QED
    BY <2>1, LinesUnfold DEF CommittedBy
<1>2. Phase = [w \in Writers |-> "busy"]
    BY DEF Init, Phase, PhaseOf
<1> QED
    BY <1>1, <1>2 DEF Trail!Init, Phase

\* The appending processes implement the trail, whatever is killed, full or
\* stuck: what AuditTrail promises of a record holds of the log's whole lines
\* (audit_finish, write_flush).
THEOREM AppendingImplementsTrail == Spec => ImplementsTrail
<1>1. Init => Remembered
    BY DEF Init, Remembered
<1> QED
    BY InitTrail, NextTrail, NextRemembered, ShapeAlways, <1>1, PTL DEF Spec, ImplementsTrail, Trail!Spec

=============================================================================
