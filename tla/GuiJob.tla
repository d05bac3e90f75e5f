-------------------------------- MODULE GuiJob --------------------------------
(***************************************************************************)
(* Background jobs of the GUI: run_job and the worker it starts, the stop  *)
(* button, the History rows, and the handover of the result (a History row *)
(* to show and a folder to open) from the worker to the UI thread.         *)
(* app/main_window_extract_jobs.cpp, app/main_window_commands.cpp,         *)
(* app/operation_summary.hpp, app/operation_destination.hpp                *)
(*                                                                         *)
(* Each locked region of mutex_ and each access to an atomic is one        *)
(* action. Progress samples and the timer that clears them are left out.   *)
(***************************************************************************)
EXTENDS Naturals, Sequences, FiniteSetsExt

CONSTANTS
  MaxJobs,  \* bound: jobs started
  MaxRows   \* bound: rows of the History page before the next failure row

ASSUME GuiJobAssumption == MaxJobs \in Nat /\ MaxRows \in Nat

VARIABLES
  running,    \* worker_running_
  cancel,     \* operation_cancel_requested_
  active,     \* state_.active_operation is not Idle
  job,        \* number of the last job (history)
  asked,      \* whether and when the user stopped the last job (history)
  operation,  \* failure_operation, captured by the job
  history,    \* state_.history: the operation, and the job whose row it is (history)
  first, summary,     \* OperationSummarySelection: first_ and pending_
  requested, folder,  \* OperationDestination: requested_ and pending_
  shows,      \* show_summary, captured by the job
  worker,     \* step of the worker thread
  result,     \* completed, cancelled or neither
  ui,         \* step of the UI thread
  repaint,    \* repaint_queued_
  posted      \* WM_APP + 1 is in the message queue

flags == <<running, cancel, active>>
handover == <<first, summary, requested, folder>>
thread == <<worker, result>>
paint == <<repaint, posted>>
vars == <<flags, job, asked, operation, history, handover, shows, thread, ui, paint>>

None == 0  \* no row, no folder

\* operation_for_job_label, for the labels jobs have.
Operations == {"Compress", "Extract", "Security"}
Rows == [job : 0 .. MaxJobs, operation : Operations \cup {"Settings"}]

TypeOK ==
  /\ running \in BOOLEAN /\ cancel \in BOOLEAN /\ active \in BOOLEAN
  /\ shows \in BOOLEAN /\ repaint \in BOOLEAN /\ posted \in BOOLEAN
  /\ job \in 0 .. MaxJobs /\ asked \in {"no", "working", "late"}
  /\ operation \in Operations /\ history \in Seq(Rows)
  /\ first \in Nat /\ summary \in Nat
  /\ requested \in 0 .. MaxJobs /\ folder \in 0 .. MaxJobs
  /\ worker \in {"ended", "job", "check", "catch", "finish", "reset", "release",
                 "complete", "repaint"}
  /\ result \in {"unknown", "completed", "cancelled", "failed"}
  /\ ui \in {"idle", "join", "begin", "repaint", "open", "show"}

Init ==
  /\ running = FALSE /\ cancel = FALSE /\ active = FALSE
  /\ job = 0 /\ asked = "no" /\ operation = "Compress" /\ history = <<>>
  /\ first = 0 /\ summary = None /\ requested = None /\ folder = None
  /\ shows = FALSE /\ worker = "ended" /\ result = "unknown"
  /\ ui = "idle" /\ repaint = FALSE /\ posted = FALSE

\* request_repaint
RequestRepaint == repaint' = TRUE /\ posted' = (posted \/ ~repaint)

AddRow(row) == history' = Append(history, row)

-----------------------------------------------------------------------------
(* UI thread: starting and stopping jobs *)

\* run_job returns at once while a worker runs.
RunJob ==
  /\ ui = "idle" /\ ~running /\ job < MaxJobs
  /\ running' = TRUE /\ ui' = "join"
  /\ UNCHANGED <<cancel, active, job, asked, operation, history, handover, shows, thread, paint>>

\* worker_.join(): the old worker may still have its result to hand over.
JoinOld ==
  /\ ui = "join" /\ worker = "ended"
  /\ cancel' = FALSE /\ ui' = "begin"
  /\ UNCHANGED <<running, active, job, asked, operation, history, handover, shows, thread, paint>>

\* Faulty variant: a folder that was not opened yet stays pending.
BeginKeepingFolder ==
  /\ ui = "begin"
  /\ job' = job + 1 /\ asked' = "no" /\ active' = TRUE
  /\ operation' \in Operations
  /\ first' = Len(history) /\ summary' = None
  /\ requested' \in {None, job + 1} /\ UNCHANGED folder
  /\ shows' \in BOOLEAN
  /\ worker' = "job" /\ result' = "unknown" /\ ui' = "repaint"
  /\ UNCHANGED <<running, cancel, history, paint>>

\* The locked region of run_job, and the new thread.
Begin ==
  /\ ui = "begin"
  /\ job' = job + 1 /\ asked' = "no" /\ active' = TRUE
  /\ operation' \in Operations
  /\ first' = Len(history) /\ summary' = None
  /\ requested' \in {None, job + 1} /\ folder' = None
  /\ shows' \in BOOLEAN
  /\ worker' = "job" /\ result' = "unknown" /\ ui' = "repaint"
  /\ UNCHANGED <<running, cancel, history, paint>>

\* request_stop_operation
RequestStop ==
  /\ ui = "idle" /\ active /\ running
  /\ cancel' = TRUE /\ ui' = "repaint"
  /\ asked' = IF worker = "job" \/ asked = "working" THEN "working" ELSE "late"
  /\ UNCHANGED <<running, active, job, operation, history, handover, shows, thread, paint>>

\* Faulty variant: the start of the job's rows survives the rows.
ClearKeepingStart ==
  /\ ui = "idle"
  /\ history' = <<>> /\ UNCHANGED first /\ summary' = None
  /\ ui' = "repaint"
  /\ UNCHANGED <<flags, job, asked, operation, requested, folder, shows, thread, paint>>

\* clear_history
ClearHistory ==
  /\ ui = "idle"
  /\ history' = <<>> /\ first' = 0 /\ summary' = None
  /\ ui' = "repaint"
  /\ UNCHANGED <<flags, job, asked, operation, requested, folder, shows, thread, paint>>

\* Saving the settings adds a row of no job.
SettingsSaved ==
  /\ ui = "idle" /\ Len(history) < MaxRows
  /\ AddRow([job |-> 0, operation |-> "Settings"])
  /\ ui' = "repaint"
  /\ UNCHANGED <<flags, job, asked, operation, handover, shows, thread, paint>>

UiRepaints ==
  /\ ui = "repaint"
  /\ ui' = "idle" /\ RequestRepaint
  /\ UNCHANGED <<flags, job, asked, operation, history, handover, shows, thread>>

-----------------------------------------------------------------------------
(* UI thread: messages *)

\* WM_APP + 1
HandleRepaint ==
  /\ ui = "idle" /\ posted
  /\ posted' = FALSE /\ repaint' = FALSE
  /\ ui' = "open"
  /\ UNCHANGED <<flags, job, asked, operation, history, handover, shows, thread>>

\* open_pending_operation_destination: one attempt, whether it succeeds or not.
OpenFolder ==
  /\ ui = "open"
  /\ folder' = IF active \/ running THEN folder ELSE None
  /\ ui' = "show"
  /\ UNCHANGED <<flags, job, asked, operation, history, first, summary, requested, shows, thread, paint>>

\* show_pending_operation_summary
ShowSummary ==
  /\ ui = "show"
  /\ summary' = IF active THEN summary ELSE None
  /\ ui' = "idle"
  /\ UNCHANGED <<flags, job, asked, operation, history, first, requested, folder, shows, thread, paint>>

\* WM_SIZE clears the flag while the message stays in the queue; restoring the
\* window then requests another repaint.
Resize ==
  /\ ui = "idle"
  /\ repaint' = FALSE /\ ui' \in {"idle", "repaint"}
  /\ UNCHANGED <<flags, job, asked, operation, history, handover, shows, thread, posted>>

-----------------------------------------------------------------------------
(* Worker thread *)

Work(from, to) == worker = from /\ worker' = to

\* append_history_entry: a row of the operation itself, or of a check beside it.
\* That a job may return without a row of its operation is more than jobs do;
\* operation_summary_index provides for it.
JobAddsRow ==
  /\ worker = "job" /\ Len(history) < MaxRows
  /\ \E o \in {operation, "Security"} : AddRow([job |-> job, operation |-> o])
  /\ UNCHANGED <<flags, job, asked, operation, handover, shows, thread, ui, paint>>

\* publish_progress_snapshot
JobReportsProgress ==
  /\ worker = "job"
  /\ active' = TRUE /\ RequestRepaint
  /\ UNCHANGED <<running, cancel, job, asked, operation, history, handover, shows, thread, ui>>

\* A checkpoint throws, or the job fails.
JobThrows ==
  /\ Work("job", "catch")
  /\ UNCHANGED <<flags, job, asked, operation, history, handover, shows, result, ui, paint>>

JobReturns ==
  /\ Work("job", "check")
  /\ UNCHANGED <<flags, job, asked, operation, history, handover, shows, result, ui, paint>>

\* Faulty variant: a job that returns has completed.
CheckNothing ==
  /\ Work("check", "finish")
  /\ result' = "completed"
  /\ UNCHANGED <<flags, job, asked, operation, history, handover, shows, ui, paint>>

\* The last checkpoint.
Check ==
  /\ Work("check", IF cancel THEN "catch" ELSE "finish")
  /\ result' = IF cancel THEN result ELSE "completed"
  /\ UNCHANGED <<flags, job, asked, operation, history, handover, shows, ui, paint>>

Catch ==
  /\ Work("catch", "finish")
  /\ result' = IF cancel THEN "cancelled" ELSE "failed"
  /\ UNCHANGED <<flags, job, asked, operation, history, handover, shows, ui, paint>>

\* The locked region after the job.
Finish ==
  /\ Work("finish", "reset")
  /\ active' = FALSE
  /\ IF result = "completed" THEN UNCHANGED history ELSE AddRow([job |-> job, operation |-> operation])
  /\ UNCHANGED <<running, cancel, job, asked, operation, handover, shows, result, ui, paint>>

ResetCancel ==
  /\ Work("reset", "release")
  /\ cancel' = FALSE
  /\ UNCHANGED <<running, active, job, asked, operation, history, handover, shows, result, ui, paint>>

\* worker_running_.store(false): from here the user can start the next job.
Release ==
  /\ Work("release", "complete")
  /\ running' = FALSE
  /\ UNCHANGED <<cancel, active, job, asked, operation, history, handover, shows, result, ui, paint>>

\* operation_summary_index: the last row of this operation from first_ on, if
\* there is one.  The list does not tell which job a row belongs to.
PrimaryRows == {k \in first + 1 .. Len(history) : history[k].operation = operation}
SummaryRow == IF shows /\ PrimaryRows # {} THEN Max(PrimaryRows) ELSE None

\* Faulty variant: nobody is told that the result is there.
CompleteQuietly ==
  /\ Work("complete", "ended")
  /\ summary' = SummaryRow
  /\ folder' = IF result = "completed" THEN requested ELSE None
  /\ requested' = None
  /\ UNCHANGED <<flags, job, asked, operation, history, first, shows, result, ui, paint>>

Complete ==
  /\ Work("complete", "repaint")
  /\ summary' = SummaryRow
  /\ folder' = IF result = "completed" THEN requested ELSE None
  /\ requested' = None
  /\ UNCHANGED <<flags, job, asked, operation, history, first, shows, result, ui, paint>>

WorkerRepaints ==
  /\ Work("repaint", "ended")
  /\ RequestRepaint
  /\ UNCHANGED <<flags, job, asked, operation, history, handover, shows, result, ui>>

-----------------------------------------------------------------------------
Messages == HandleRepaint \/ OpenFolder \/ ShowSummary
Starting == JoinOld \/ Begin
Ui == Messages \/ Starting \/ UiRepaints

User == RunJob \/ RequestStop \/ ClearHistory \/ SettingsSaved \/ Resize

JobEnds == JobThrows \/ JobReturns
AfterJob ==
  \/ Check \/ Catch \/ Finish \/ ResetCancel \/ Release \/ Complete \/ WorkerRepaints
Worker == JobEnds \/ AfterJob

Next == Ui \/ User \/ Worker \/ JobAddsRow \/ JobReportsProgress

Spec == Init /\ [][Next]_vars

\* Threads are scheduled and jobs end.  GetMessage returns posted messages before
\* input, so the user cannot keep the UI thread from HandleRepaint; he is not
\* obliged to anything.
FairSpec == Spec /\ WF_vars(Ui) /\ SF_vars(HandleRepaint) /\ WF_vars(Worker)

-----------------------------------------------------------------------------
(* Properties *)

\* A job is reported as stopped only if the user stopped it, and never as
\* completed if he did so before its last checkpoint: the request neither gets
\* lost nor reaches the next job.
StopIsHonoured ==
  /\ asked = "working" => result # "completed"
  /\ result = "cancelled" => asked # "no"

\* The rows of the last job about its own operation.
OwnRows == {k \in DOMAIN history : history[k] = [job |-> job, operation |-> operation]}

\* operation_summary.hpp: "Track job-local summary selection across History
\* clears", "without selecting an older job or an auxiliary check": the row that
\* waits to be shown is the last one of the last job about its operation, and a
\* job that has such a row when it hands over its result does not miss it,
\* whatever was cleared or added since it began.  The code knows the operation
\* of a row and where the rows of the job begin, not the job.
SummaryIsOwnRow ==
  /\ summary # None => summary \in OwnRows /\ \A k \in OwnRows : k <= summary
  /\ worker = "complete" =>
       SummaryRow = IF shows /\ OwnRows # {} THEN Max(OwnRows) ELSE None

\* operation_destination.hpp: "Failed, cancelled, disabled, or superseded jobs
\* never leave a consumable destination."
OnlySuccessOpens == folder # None => folder = job /\ result = "completed" /\ ~active

\* A result that waits to be presented has somebody to present it: a repaint
\* message is posted or about to be requested, the UI thread is about to look, or
\* the next job discards it.  Repaint requests are coalesced under a flag that
\* WM_SIZE also clears, and the look at the folder and at the row are two steps.
NoResultIsStranded ==
  LET announced == posted \/ worker = "repaint" \/ ui \in {"open", "join", "begin"}
  IN /\ folder # None => announced
     /\ summary # None => announced \/ ui = "show"

\* A result that was handed over is presented by the UI thread, or superseded
\* by the next job, also when the worker's repaint request is coalesced with
\* others.
ResultsArePresented == (folder # None ~> folder = None) /\ (summary # None ~> summary = None)
===============================================================================
