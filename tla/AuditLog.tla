------------------------------ MODULE AuditLog ------------------------------
(***************************************************************************)
(* Concurrent nyet processes append one record each to the shared audit log *)
(* (append and write_flush, src/audit.rs) and release their result after it *)
(* (audit_finish and main, src/main.rs).                                    *)
(*                                                                          *)
(* A record is a line of Parts pieces, the last one with the newline: what  *)
(* write_all hands to the kernel in one or more writes, each of which lands *)
(* at the end of the file (O_APPEND).                                       *)
(***************************************************************************)
EXTENDS Naturals, Sequences

CONSTANTS
    Writers,    \* nyet processes, each auditing one command
    Parts,      \* pieces a line is written in (bound)
    Faults,     \* which of FaultKinds may happen
    NoWriter

FaultKinds ==
    { "denied",     \* the directory, the open, the file type check, the lock or the
                    \* length fails
      "disk_full",  \* write_all returns Err after a prefix
      "stuck",      \* truncate after that returns Err too, and is ignored
      "stdout",     \* the result cannot be written to stdout
      "kill" }      \* the process is killed

ASSUME AuditAssumption ==
    /\ Parts \in Nat \ {0}
    /\ Faults \subseteq FaultKinds
    /\ NoWriter \notin Writers

\* What the command itself came to: a result or a failure of its own.
Outcomes == {"ok", "failure"}

VARIABLES
    outcome,    \* per process: the outcome handed to audit_finish
    pc,         \* per process: where it is
    base,       \* per process: original_len of write_flush
    next,       \* per process: the piece it writes next
    saved,      \* per process: write_flush returned Ok
    shown,      \* per process: what reached the agent
    file,       \* the log: the pieces in it
    holder,     \* who has the advisory lock
    torn        \* history: who left a fragment behind

vars == <<outcome, pc, base, next, saved, shown, file, holder, torn>>

Final == {"done", "killed"}

Piece == [by : Writers, part : 1..Parts]

Init ==
    /\ outcome \in [Writers -> Outcomes]
    /\ pc = [w \in Writers |-> "open"]
    /\ base = [w \in Writers |-> 0]
    /\ next = [w \in Writers |-> 1]
    /\ saved = [w \in Writers |-> FALSE]
    /\ shown = [w \in Writers |-> "nothing"]
    /\ file = << >>
    /\ holder = NoWriter
    /\ torn = {}

Goto(w, label) == pc' = [pc EXCEPT ![w] = label]

-----------------------------------------------------------------------------
(* append and write_flush.                                                  *)

OpenLog(w) ==
    /\ pc[w] = "open"
    /\ Goto(w, "lock")
    /\ UNCHANGED <<outcome, base, next, saved, shown, file, holder, torn>>

\* create_dir_all, open, the regular-file check or lock returns Err.
Denied(w) ==
    /\ "denied" \in Faults
    /\ pc[w] \in {"open", "lock"}
    /\ Goto(w, "answer")
    /\ UNCHANGED <<outcome, base, next, saved, shown, file, holder, torn>>

\* A bug: O_APPEND alone is trusted to keep lines whole.
LockLog_None(w) ==
    /\ pc[w] = "lock"
    /\ Goto(w, "measure")
    /\ UNCHANGED <<outcome, base, next, saved, shown, file, holder, torn>>

\* file.lock() blocks, without a deadline, until the lock is free.
LockLog(w) ==
    /\ pc[w] = "lock"
    /\ holder = NoWriter
    /\ holder' = w
    /\ Goto(w, "measure")
    /\ UNCHANGED <<outcome, base, next, saved, shown, file, torn>>

Measure(w) ==
    /\ pc[w] = "measure"
    /\ base' = [base EXCEPT ![w] = Len(file)]
    /\ Goto(w, "write")
    /\ UNCHANGED <<outcome, next, saved, shown, file, holder, torn>>

\* The length cannot be read: nothing is written.
MeasureFails(w) ==
    /\ "denied" \in Faults
    /\ pc[w] = "measure"
    /\ Goto(w, "unlock")
    /\ UNCHANGED <<outcome, base, next, saved, shown, file, holder, torn>>

WritePiece(w) ==
    /\ pc[w] = "write"
    /\ file' = Append(file, [by |-> w, part |-> next[w]])
    /\ next' = [next EXCEPT ![w] = @ + 1]
    /\ IF next[w] = Parts
         THEN saved' = [saved EXCEPT ![w] = TRUE] /\ Goto(w, "unlock")
         ELSE UNCHANGED <<saved, pc>>
    /\ UNCHANGED <<outcome, base, shown, holder, torn>>

\* A bug: an error of write_all is dropped.
WriteError_Ignored(w) ==
    /\ "disk_full" \in Faults
    /\ pc[w] = "write"
    /\ saved' = [saved EXCEPT ![w] = TRUE]
    /\ Goto(w, "unlock")
    /\ UNCHANGED <<outcome, base, next, shown, file, holder, torn>>

WriteError(w) ==
    /\ "disk_full" \in Faults
    /\ pc[w] = "write"
    /\ Goto(w, "rollback")
    /\ UNCHANGED <<outcome, base, next, saved, shown, file, holder, torn>>

\* A bug: a partial write is not rolled back.
Rollback_Missing(w) ==
    /\ pc[w] = "rollback"
    /\ Goto(w, "unlock")
    /\ UNCHANGED <<outcome, base, next, saved, shown, file, holder, torn>>

\* A bug: the rollback takes one piece too many.
Rollback_OffByOne(w) ==
    /\ pc[w] = "rollback"
    /\ Goto(w, "unlock")
    /\ file' = SubSeq(file, 1, IF base[w] = 0 THEN 0 ELSE base[w] - 1)
    /\ UNCHANGED <<outcome, base, next, saved, shown, holder, torn>>

\* Back to the length before the write; if that fails too, the error is ignored.
Rollback(w) ==
    /\ pc[w] = "rollback"
    /\ Goto(w, "unlock")
    /\ \/ /\ file' = SubSeq(file, 1, base[w])
          /\ UNCHANGED torn
       \/ /\ "stuck" \in Faults
          /\ torn' = torn \cup {w}
          /\ UNCHANGED file
    /\ UNCHANGED <<outcome, base, next, saved, shown, holder>>

\* A bug: the lock is not given back while the process lives.
Unlock_Forgotten(w) ==
    /\ pc[w] = "unlock"
    /\ Goto(w, "answer")
    /\ UNCHANGED <<outcome, base, next, saved, shown, file, holder, torn>>

Unlock(w) ==
    /\ pc[w] = "unlock"
    /\ holder' = NoWriter
    /\ Goto(w, "answer")
    /\ UNCHANGED <<outcome, base, next, saved, shown, file, torn>>

-----------------------------------------------------------------------------
(* The end of audit_finish, and main.                                       *)

\* A bug: a failure of the command is reported even if its record was lost.
Answer_FailuresAnyway(w) ==
    /\ pc[w] = "answer"
    /\ \/ /\ ~saved[w]
          /\ shown' = [shown EXCEPT ![w] =
                         IF outcome[w] = "ok" THEN "audit_failed" ELSE "failure"]
       \/ /\ saved[w]
          /\ shown' = [shown EXCEPT ![w] = outcome[w]]
    /\ Goto(w, "done")
    /\ UNCHANGED <<outcome, base, next, saved, file, holder, torn>>

\* The result, or the command's own failure, is shown only after the record; if
\* stdout fails, main shows that instead of the result.
Answer(w) ==
    /\ pc[w] = "answer"
    /\ \/ /\ ~saved[w]
          /\ shown' = [shown EXCEPT ![w] = "audit_failed"]
       \/ /\ saved[w]
          /\ shown' = [shown EXCEPT ![w] = outcome[w]]
       \/ /\ saved[w] /\ outcome[w] = "ok" /\ "stdout" \in Faults
          /\ shown' = [shown EXCEPT ![w] = "output_lost"]
    /\ Goto(w, "done")
    /\ UNCHANGED <<outcome, base, next, saved, file, holder, torn>>

\* The kernel releases the lock of a killed process; what it wrote stays.
Kill(w) ==
    /\ "kill" \in Faults
    /\ pc[w] \notin Final
    /\ Goto(w, "killed")
    /\ holder' = IF holder = w THEN NoWriter ELSE holder
    /\ torn' = IF pc[w] \in {"write", "rollback"} THEN torn \cup {w} ELSE torn
    /\ UNCHANGED <<outcome, base, next, saved, shown, file>>

Finished ==
    /\ \A w \in Writers : pc[w] \in Final
    /\ UNCHANGED vars

Step(w) ==
    \/ OpenLog(w) \/ LockLog(w) \/ Measure(w) \/ WritePiece(w) \/ Rollback(w)
    \/ Unlock(w) \/ Answer(w)

Fault(w) == Denied(w) \/ MeasureFails(w) \/ WriteError(w) \/ Kill(w)

Next == (\E w \in Writers : Step(w) \/ Fault(w)) \/ Finished

Spec == Init /\ [][Next]_vars

\* No step of a process waits for anything but the lock; no fault is counted on.
FairSpec == Spec /\ \A w \in Writers : WF_vars(Step(w))

-----------------------------------------------------------------------------
(* Properties.                                                              *)

TypeOK ==
    /\ outcome \in [Writers -> Outcomes]
    /\ pc \in [Writers -> {"open", "lock", "measure", "write", "rollback", "unlock",
                           "answer"} \cup Final]
    /\ base \in [Writers -> Nat]
    /\ next \in [Writers -> 1 .. Parts + 1]
    /\ saved \in [Writers -> BOOLEAN]
    /\ shown \in [Writers -> {"nothing", "audit_failed", "output_lost"} \cup Outcomes]
    /\ file \in Seq(Piece)
    /\ holder \in Writers \cup {NoWriter}
    /\ torn \subseteq Writers

\* append's promise to concurrent writers: they "cannot mix their bytes".  Every
\* piece but a first one follows the piece before it of the same line, whatever
\* is killed, full or stuck.
NeverMixed ==
    \A i \in 1..Len(file) :
        file[i].part > 1 =>
            /\ i > 1
            /\ file[i-1] = [by |-> file[i].by, part |-> file[i].part - 1]

\* write_flush's promise: a partial write is rolled back.  When nobody holds the
\* lock, a line without its end is the work of a killed process or of a
\* rollback that failed, and of nothing else.
FragmentsExplained ==
    holder = NoWriter =>
        \A i \in 1..Len(file) :
            \/ file[i].part = Parts
            \/ file[i].by \in torn
            \/ i < Len(file) /\ file[i+1] = [file[i] EXCEPT !.part = @ + 1]

\* The whole line of w is in the log, in one piece.
Recorded(w) ==
    \E i \in 1..Len(file) :
        /\ i >= Parts
        /\ \A k \in 1..Parts : file[i - Parts + k] = [by |-> w, part |-> k]

\* The order audit_finish enforces: a result or a refusal the agent sees is in
\* the log, whole, then and ever after.
ShownIsRecorded ==
    \A w \in Writers :
        shown[w] \in {"ok", "failure", "output_lost"} => Recorded(w)

\* The log as its reader sees it: the writers of the complete lines among the
\* first n pieces, in order.
LinesOf(log) ==
    LET lines[n \in 0 .. Len(log)] ==
            IF n = 0 THEN << >>
            ELSE IF log[n].part = Parts THEN Append(lines[n - 1], log[n].by) ELSE lines[n - 1]
    IN  lines

CommittedBy == LinesOf(file)[Len(file)]

PhaseOf(w) ==
    CASE pc[w] = "killed" -> "gone"
      [] pc[w] = "done" /\ shown[w] = "audit_failed" -> "withheld"
      [] pc[w] = "done" /\ shown[w] # "audit_failed" -> "shown"
      [] OTHER -> IF saved[w] THEN "logged" ELSE "busy"

Trail == INSTANCE AuditTrail
           WITH trail <- CommittedBy, phase <- [w \in Writers |-> PhaseOf(w)]

\* The appending processes implement the trail.
ImplementsTrail == Trail!Spec

\* The claim of the user's manual (docs/SECURITY-MODEL.md:253-255): each line is
\* written whole under a lock, so the log stays valid jsonl.  The record of
\* every result the agent saw is a line of its own: nothing stands before it on
\* its line.
ShownIsReadable ==
    \A w \in Writers :
        shown[w] \in {"ok", "failure", "output_lost"} =>
            \E i \in 1..Len(file) :
                /\ file[i] = [by |-> w, part |-> 1]
                /\ i > 1 => file[i-1].part = Parts

\* The lock is always given back, so every command ends.
EveryCommandEnds == \A w \in Writers : <>(pc[w] \in Final)

=============================================================================
