----------------------------- MODULE GuiJobProofs -----------------------------
(***************************************************************************)
(* Proofs about GuiJob for every number of jobs and History rows.  The     *)
(* inductive invariant ties the atomic flags to the step of the worker,    *)
(* and says which job the summary and the folder belong to at each step.   *)
(* With it, a result that waits has a repaint that will find it.           *)
(***************************************************************************)
EXTENDS GuiJob, WellFoundedInduction, TLAPS

Working == {"job", "check", "catch", "finish"}
Cleaning == {"reset", "release", "complete"}

\* The thread is joined before the next job begins; the operation is active as
\* long as its job works, and the flag is raised only in that time.
ThreadAndFlags ==
  /\ ui = "begin" => worker = "ended" /\ ~cancel
  /\ ui \in {"join", "begin"} => job < MaxJobs
  /\ active <=> worker \in Working
  /\ cancel => asked # "no" /\ worker \in Working \cup {"reset"}
  /\ worker \in {"job", "check", "catch"} => result = "unknown"
  /\ worker # "ended" => job > 0
  /\ result # "unknown" => job > 0

\* A request made while the job works is seen by its last checkpoint.
StopKnown ==
  /\ asked = "working" /\ worker \in {"job", "check", "catch"} => cancel
  /\ asked = "working" => result # "completed"
  /\ result = "cancelled" => asked # "no"

\* The folder that is requested or pending is that of the last job.
FolderKnown ==
  /\ requested # None => requested = job
  /\ folder # None => folder = job /\ result = "completed"
  /\ worker \in Working \cup Cleaning => folder = None

\* The rows from first_ on are those of the last job, except what saving the
\* settings adds; the rows before are those of earlier jobs.
RowsKnown ==
  /\ first <= Len(history)
  /\ \A k \in DOMAIN history :
       /\ history[k].job <= job
       /\ k <= first => history[k].job < job
       /\ k > first => history[k].job = job \/ history[k].operation = "Settings"

\* The row that is pending is the last of the last job about its operation, and
\* no row is pending before that job has completed.
SummaryKnown ==
  /\ summary # None => summary \in OwnRows /\ \A k \in OwnRows : k <= summary
  /\ summary # None => job > 0
  /\ worker \in Working \cup Cleaning => summary = None

Core == TypeOK /\ ThreadAndFlags /\ StopKnown /\ FolderKnown /\ SummaryKnown
Inv == Core /\ RowsKnown

\* The least-number principle for sets of natural numbers.
LEMMA LeastNumber ==
  ASSUME NEW S \in SUBSET Nat, S # {}
  PROVE  \E m \in S : \A k \in S : m <= k
<1> DEFINE R == {p \in Nat \X Nat : p[1] < p[2]}
<1>1. IsWellFoundedOn(R, Nat)
  BY NatLessThanWellFounded DEF OpToRel
<1>2. PICK m \in S : \A k \in S : ~ (<<k, m>> \in R)
  <2> HIDE DEF R
  <2> QED
    BY <1>1, WFMin
<1>3. ASSUME NEW k \in S PROVE m <= k
  <2>1. k \in Nat /\ m \in Nat /\ <<k, m>> \notin R
    BY <1>2
  <2>2. ~ (k < m)
    BY <2>1
  <2> QED
    BY <2>1, <2>2
<1> QED
  BY <1>3

\* Max picks the greatest row of a set of rows.
LEMMA MaxOfRows ==
  ASSUME NEW n \in Nat, NEW S \in SUBSET (1 .. n), S # {}
  PROVE  Max(S) \in S /\ \A k \in S : Max(S) >= k
<1> DEFINE Above == {m \in Nat : \A k \in S : k <= m}
<1>1. n \in Above
  OBVIOUS
<1>2. PICK m \in Above : \A k \in Above : m <= k
  <2>1. Above \in SUBSET Nat /\ Above # {}
    BY <1>1
  <2> HIDE DEF Above
  <2> QED
    BY <2>1, LeastNumber
<1>3. m \in S
  <2> SUFFICES ASSUME m \notin S PROVE FALSE
    OBVIOUS
  <2>1. \A k \in S : k <= m - 1
    OBVIOUS
  <2>2. PICK k \in S : TRUE
    OBVIOUS
  <2>3. m - 1 \in Above
    BY <2>1, <2>2
  <2> QED
    BY <2>3, <1>2
<1>4. \E x \in S : \A y \in S : x >= y
  BY <1>3
<1> QED
  BY <1>4 DEF Max

\* What operation_summary_index finds by the operation and first_ alone are the
\* rows of the last job about its operation.
LEMMA PrimaryRowsAreOwn ==
  ASSUME TypeOK, RowsKnown
  PROVE  PrimaryRows = OwnRows
<1>1. /\ history \in Seq(Rows) /\ DOMAIN history = 1 .. Len(history) /\ Len(history) \in Nat
      /\ first \in Nat /\ first <= Len(history) /\ job \in Nat
      /\ operation \in Operations /\ "Settings" \notin Operations
  BY GuiJobAssumption DEF TypeOK, RowsKnown, Operations
<1>2. ASSUME NEW k \in PrimaryRows PROVE k \in OwnRows
  <2>1. k \in DOMAIN history /\ k > first /\ history[k].operation = operation
    BY <1>1 DEF PrimaryRows
  <2>2. history[k] \in Rows /\ history[k].job = job
    BY <1>1, <2>1 DEF RowsKnown
  <2>3. history[k] = [job |-> job, operation |-> operation]
    BY <2>1, <2>2 DEF Rows
  <2>4. QED
    BY <2>1, <2>3 DEF OwnRows
<1>3. ASSUME NEW k \in OwnRows PROVE k \in PrimaryRows
  <2>1. k \in 1 .. Len(history) /\ history[k].job = job /\ history[k].operation = operation
    BY <1>1 DEF OwnRows
  <2>2. k > first
    BY <1>1, <2>1 DEF RowsKnown
  <2>3. QED
    BY <1>1, <2>1, <2>2 DEF PrimaryRows
<1>4. QED
  BY <1>2, <1>3

\* So the row it picks is the last of them.
LEMMA SummaryRowIsOwn ==
  ASSUME TypeOK, RowsKnown
  PROVE  /\ SummaryRow = IF shows /\ OwnRows # {} THEN Max(OwnRows) ELSE None
         /\ SummaryRow \in Nat
         /\ SummaryRow # None => SummaryRow \in OwnRows /\ \A k \in OwnRows : k <= SummaryRow
<1>1. SummaryRow = IF shows /\ OwnRows # {} THEN Max(OwnRows) ELSE None
  BY PrimaryRowsAreOwn DEF SummaryRow
<1>2. OwnRows \in SUBSET (1 .. Len(history)) /\ Len(history) \in Nat
  BY DEF OwnRows, TypeOK
<1>3. OwnRows # {} => Max(OwnRows) \in OwnRows /\ \A k \in OwnRows : Max(OwnRows) >= k
  BY <1>2, MaxOfRows
<1>4. CASE shows /\ OwnRows # {}
  <2>1. SummaryRow \in OwnRows /\ \A k \in OwnRows : SummaryRow >= k
    BY <1>1, <1>3, <1>4
  <2>2. QED
    BY <1>1, <1>2, <2>1
<1>5. CASE ~(shows /\ OwnRows # {})
  BY <1>1, <1>5 DEF None
<1>6. QED
  BY <1>4, <1>5

LEMMA InvInit == Init => Inv
<1> SUFFICES ASSUME Init PROVE Inv
  OBVIOUS
<1> USE GuiJobAssumption DEF GuiJobAssumption, Init, None, Working, Cleaning
<1>1. TypeOK
  <2>1. history \in Seq(Rows)
    OBVIOUS
  <2>2. job \in 0 .. MaxJobs /\ requested \in 0 .. MaxJobs /\ folder \in 0 .. MaxJobs
    OBVIOUS
  <2>3. operation \in Operations
    BY DEF Operations
  <2> QED
    BY <2>1, <2>2, <2>3 DEF TypeOK
<1>2. ThreadAndFlags
  BY DEF ThreadAndFlags
<1>3. StopKnown
  BY DEF StopKnown
<1>4. FolderKnown
  BY DEF FolderKnown
<1>5. SummaryKnown /\ RowsKnown
  BY DEF SummaryKnown, RowsKnown
<1> QED
  BY <1>1, <1>2, <1>3, <1>4, <1>5 DEF Inv, Core

\* The steps of the UI thread that start and stop jobs.
LEMMA StartStep == Inv /\ (RunJob \/ JoinOld \/ Begin \/ RequestStop) => Core'
<1> SUFFICES ASSUME Inv PROVE RunJob \/ JoinOld \/ Begin \/ RequestStop => Core'
  OBVIOUS
<1> USE GuiJobAssumption DEF GuiJobAssumption, Inv, Core, TypeOK, ThreadAndFlags, StopKnown, FolderKnown,
     SummaryKnown, OwnRows, Working, Cleaning, handover, thread, paint
<1>1. RunJob => Core'
  BY DEF RunJob
<1>2. JoinOld => Core'
  <2> SUFFICES ASSUME JoinOld PROVE Core'
    OBVIOUS
  <2>1. TypeOK'
    BY DEF JoinOld
  <2>2. ThreadAndFlags'
    BY DEF JoinOld
  <2>3. StopKnown'
    BY DEF JoinOld
  <2>4. FolderKnown'
    BY DEF JoinOld
  <2>5. SummaryKnown'
    BY DEF JoinOld
  <2> QED
    BY <2>1, <2>2, <2>3, <2>4, <2>5
<1>3. Begin => Core'
  <2> SUFFICES ASSUME Begin PROVE Core'
    OBVIOUS
  <2>1. TypeOK'
    BY DEF Begin, None
  <2>2. ThreadAndFlags'
    BY DEF Begin, None
  <2>3. StopKnown'
    BY DEF Begin, None
  <2>4. FolderKnown'
    BY DEF Begin, None
  <2>5. SummaryKnown'
    BY DEF Begin, None
  <2> QED
    BY <2>1, <2>2, <2>3, <2>4, <2>5
<1>4. RequestStop => Core'
  BY DEF RequestStop
<1> QED
  BY <1>1, <1>2, <1>3, <1>4

\* The steps of the UI thread that handle messages or change the History page.
LEMMA PageStep == 
  Inv /\ (ClearHistory \/ SettingsSaved \/ UiRepaints \/ Messages \/ Resize) => Core'
<1> SUFFICES ASSUME Inv
             PROVE  ClearHistory \/ SettingsSaved \/ UiRepaints \/ Messages \/ Resize => Core'
  OBVIOUS
<1> USE GuiJobAssumption DEF GuiJobAssumption, Inv, Core, TypeOK, ThreadAndFlags, StopKnown, FolderKnown,
     SummaryKnown, OwnRows, Working, Cleaning, flags, handover, thread, paint
<1>1. ClearHistory => Core'
  BY DEF ClearHistory, None, Rows
<1>2. SettingsSaved => Core'
  BY DEF SettingsSaved, AddRow, Rows, None
<1>3. UiRepaints => Core'
  BY DEF UiRepaints, RequestRepaint
<1>4. Messages => Core'
  <2> SUFFICES ASSUME Messages PROVE Core'
    OBVIOUS
  <2>1. TypeOK'
    <3>1. CASE HandleRepaint
      BY <3>1 DEF HandleRepaint
    <3>2. CASE OpenFolder
      BY <3>2 DEF OpenFolder, None
    <3>3. CASE ShowSummary
      BY <3>3 DEF ShowSummary, None
    <3> QED
      BY <3>1, <3>2, <3>3 DEF Messages
  <2>2. ThreadAndFlags'
    BY DEF Messages, HandleRepaint, OpenFolder, ShowSummary, None
  <2>3. StopKnown'
    BY DEF Messages, HandleRepaint, OpenFolder, ShowSummary, None
  <2>4. FolderKnown'
    BY DEF Messages, HandleRepaint, OpenFolder, ShowSummary, None
  <2>5. SummaryKnown'
    BY DEF Messages, HandleRepaint, OpenFolder, ShowSummary, None
  <2> QED
    BY <2>1, <2>2, <2>3, <2>4, <2>5
<1>5. Resize => Core'
  <2> SUFFICES ASSUME Resize PROVE Core'
    OBVIOUS
  <2>1. TypeOK'
    BY DEF Resize
  <2>2. ThreadAndFlags'
    BY DEF Resize
  <2>3. StopKnown'
    BY DEF Resize
  <2>4. FolderKnown'
    BY DEF Resize
  <2>5. SummaryKnown'
    BY DEF Resize
  <2> QED
    BY <2>1, <2>2, <2>3, <2>4, <2>5
<1> QED
  BY <1>1, <1>2, <1>3, <1>4, <1>5

\* The steps of the worker while its job runs.
LEMMA JobStep ==
  Inv /\ (JobAddsRow \/ JobReportsProgress \/ JobEnds \/ Check \/ Catch \/ Finish) => Core'
<1> SUFFICES ASSUME Inv
             PROVE  JobAddsRow \/ JobReportsProgress \/ JobEnds \/ Check \/ Catch \/ Finish => Core'
  OBVIOUS
<1> USE GuiJobAssumption DEF GuiJobAssumption, Inv, Core, TypeOK, ThreadAndFlags, StopKnown, FolderKnown,
     SummaryKnown, OwnRows, Working, Cleaning, flags, handover, thread, paint, Work
<1>1. JobAddsRow => Core'
  <2> SUFFICES ASSUME JobAddsRow PROVE Core'
    OBVIOUS
  <2>1. summary' = summary /\ summary = None
    BY DEF JobAddsRow
  <2>2. PICK o \in Operations : history' = Append(history, [job |-> job, operation |-> o])
    BY DEF JobAddsRow, AddRow, Operations
  <2>3. [job |-> job, operation |-> o] \in Rows
    BY DEF Rows
  <2>4. history' \in Seq(Rows)
    BY <2>2, <2>3
  <2> QED
    BY <2>1, <2>4 DEF JobAddsRow
<1>2. JobReportsProgress => Core'
  BY DEF JobReportsProgress, RequestRepaint
<1>3. JobEnds => Core'
  BY DEF JobEnds, JobThrows, JobReturns
<1>4. Check => Core'
  BY DEF Check
<1>5. Catch => Core'
  BY DEF Catch
<1>6. Finish => Core'
  <2> SUFFICES ASSUME Finish PROVE Core'
    OBVIOUS
  <2>1. TypeOK'
    <3>1. [job |-> job, operation |-> operation] \in Rows
      BY DEF Rows
    <3>2. history' \in Seq(Rows)
      BY <3>1 DEF Finish, AddRow
    <3> QED
      BY <3>2 DEF Finish
  <2>2. ThreadAndFlags'
    BY DEF Finish, AddRow, Rows
  <2>3. StopKnown'
    BY DEF Finish, AddRow, Rows
  <2>4. FolderKnown'
    BY DEF Finish, AddRow, Rows
  <2>5. SummaryKnown'
    BY DEF Finish, AddRow, Rows
  <2> QED
    BY <2>1, <2>2, <2>3, <2>4, <2>5
<1> QED
  BY <1>1, <1>2, <1>3, <1>4, <1>5, <1>6

\* The steps of the worker that hand the result over.
LEMMA HandoverStep ==
  Inv /\ (ResetCancel \/ Release \/ Complete \/ WorkerRepaints) => Core'
<1> SUFFICES ASSUME Inv PROVE ResetCancel \/ Release \/ Complete \/ WorkerRepaints => Core'
  OBVIOUS
<1> USE GuiJobAssumption DEF GuiJobAssumption, Inv, Core, TypeOK, ThreadAndFlags, StopKnown, FolderKnown,
     SummaryKnown, OwnRows, Working, Cleaning, flags, handover, thread, paint, Work
<1>1. ResetCancel => Core'
  <2> SUFFICES ASSUME ResetCancel PROVE Core'
    OBVIOUS
  <2>1. TypeOK'
    BY DEF ResetCancel
  <2>2. ThreadAndFlags'
    BY DEF ResetCancel
  <2>3. StopKnown'
    BY DEF ResetCancel
  <2>4. FolderKnown'
    BY DEF ResetCancel
  <2>5. SummaryKnown'
    BY DEF ResetCancel
  <2> QED
    BY <2>1, <2>2, <2>3, <2>4, <2>5
<1>2. Release => Core'
  <2> SUFFICES ASSUME Release PROVE Core'
    OBVIOUS
  <2>1. TypeOK'
    BY DEF Release
  <2>2. ThreadAndFlags'
    BY DEF Release
  <2>3. StopKnown'
    BY DEF Release
  <2>4. FolderKnown'
    BY DEF Release
  <2>5. SummaryKnown'
    BY DEF Release
  <2> QED
    BY <2>1, <2>2, <2>3, <2>4, <2>5
<1>3. Complete => Core'
  <2> SUFFICES ASSUME Complete PROVE Core'
    OBVIOUS
  <2>1. summary' = SummaryRow /\ UNCHANGED <<history, job, operation>>
    BY DEF Complete
  <2>2. SummaryRow # None => SummaryRow \in OwnRows /\ \A k \in OwnRows : k <= SummaryRow
    BY SummaryRowIsOwn
  <2>3. SummaryRow \in Nat
    BY SummaryRowIsOwn
  <2> QED
    BY <2>1, <2>2, <2>3 DEF Complete, None
<1>4. WorkerRepaints => Core'
  BY DEF WorkerRepaints, RequestRepaint
<1> QED
  BY <1>1, <1>2, <1>3, <1>4

\* Rows are only added at the end, the list is only cleared as a whole, and a new
\* job begins after all rows of the earlier ones.
LEMMA RowsStep == Inv /\ [Next]_vars => RowsKnown'
<1> SUFFICES ASSUME Inv, [Next]_vars PROVE RowsKnown'
  OBVIOUS
<1> USE DEF RowsKnown
<1>0. /\ history \in Seq(Rows) /\ first \in Nat /\ job \in Nat /\ job \in 0 .. MaxJobs
      /\ RowsKnown
  BY GuiJobAssumption DEF Inv, Core, TypeOK
<1>1. ASSUME UNCHANGED <<history, first, job>> PROVE RowsKnown'
  BY <1>0, <1>1
<1>2. CASE Begin
  <2>1. UNCHANGED history /\ first' = Len(history) /\ job' = job + 1
    BY <1>2 DEF Begin
  <2>2. \A k \in DOMAIN history : history[k] \in Rows
    BY <1>0
  <2>3. \A k \in DOMAIN history : history[k].job \in Nat /\ history[k].job < job + 1
    BY <1>0, <2>2 DEF Rows
  <2>4. QED
    BY <1>0, <2>1, <2>3
<1>3. CASE ClearHistory
  BY <1>3 DEF ClearHistory
<1>4. ASSUME NEW r \in Rows, AddRow(r), UNCHANGED <<first, job>>,
             r.job <= job, r.job = job \/ r.operation = "Settings"
      PROVE  RowsKnown'
  <2>1. /\ Len(history') = Len(history) + 1 /\ DOMAIN history' = 1 .. Len(history) + 1
        /\ history'[Len(history) + 1] = r
        /\ \A k \in 1 .. Len(history) : history'[k] = history[k]
    BY <1>0, <1>4 DEF AddRow
  <2>2. Len(history) \in Nat /\ DOMAIN history = 1 .. Len(history)
    BY <1>0
  <2>3. ASSUME NEW k \in DOMAIN history'
        PROVE  /\ history'[k].job <= job'
               /\ k <= first' => history'[k].job < job'
               /\ k > first' => history'[k].job = job' \/ history'[k].operation = "Settings"
    <3>1. CASE k \in DOMAIN history
      BY <1>0, <1>4, <2>1, <2>2, <3>1
    <3>2. CASE k = Len(history) + 1
      BY <1>0, <1>4, <2>1, <2>2, <3>2
    <3>3. QED
      BY <2>1, <2>2, <2>3, <3>1, <3>2
  <2>4. QED
    BY <1>0, <1>4, <2>1, <2>2, <2>3
<1>5. CASE SettingsSaved
  <2>1. /\ [job |-> 0, operation |-> "Settings"] \in Rows
        /\ AddRow([job |-> 0, operation |-> "Settings"]) /\ UNCHANGED <<first, job>>
    BY <1>5, GuiJobAssumption DEF SettingsSaved, handover, Rows, GuiJobAssumption
  <2>2. 0 <= job
    BY <1>0
  <2>3. QED
    BY <1>4, <2>1, <2>2
<1>6. CASE JobAddsRow \/ Finish
  <2>1. PICK o \in Operations :
          /\ UNCHANGED <<first, job>>
          /\ AddRow([job |-> job, operation |-> o]) \/ UNCHANGED history
    BY <1>6 DEF JobAddsRow, Finish, handover, Inv, Core, TypeOK, Operations
  <2>2. [job |-> job, operation |-> o] \in Rows
    BY <1>0 DEF Rows
  <2>3. QED
    BY <1>0, <1>1, <1>4, <2>1, <2>2
<1>7. CASE \/ RunJob \/ JoinOld \/ RequestStop \/ UiRepaints \/ Messages \/ Resize
           \/ JobReportsProgress \/ JobEnds \/ Check \/ Catch
           \/ ResetCancel \/ Release \/ Complete \/ WorkerRepaints \/ UNCHANGED vars
  BY <1>1, <1>7 DEF RunJob, JoinOld, RequestStop, UiRepaints, Messages, HandleRepaint, OpenFolder,
     ShowSummary, Resize, JobReportsProgress, JobEnds, JobThrows, JobReturns, Check, Catch,
     ResetCancel, Release, Complete, WorkerRepaints, handover, vars
<1>8. QED
  BY <1>2, <1>3, <1>5, <1>6, <1>7 DEF Next, Ui, User, Worker, Starting, AfterJob

LEMMA InvAlways == Spec => []Inv
<1>1. Inv /\ [Next]_vars => Inv'
  <2> SUFFICES ASSUME Inv, [Next]_vars PROVE Core'
    BY RowsStep DEF Inv
  <2>1. CASE Next
    BY <2>1, StartStep, PageStep, JobStep, HandoverStep
       DEF Next, Ui, User, Worker, Starting, JobEnds, AfterJob
  <2>2. CASE UNCHANGED vars
    BY <2>2 DEF vars, flags, handover, thread, paint, Inv, Core, TypeOK, ThreadAndFlags,
       StopKnown, FolderKnown, SummaryKnown, OwnRows
  <2> QED
    BY <2>1, <2>2
<1> QED
  BY <1>1, InvInit, PTL DEF Spec

\* run_job and request_stop_operation: a stop request is neither lost nor
\* carried over to the next job, for any number of jobs.
THEOREM StopRequestsAreHonoured == Spec => []StopIsHonoured
<1>1. Inv => StopIsHonoured
  BY DEF Inv, Core, StopKnown, StopIsHonoured
<1> QED
  BY <1>1, InvAlways, PTL

\* OperationSummarySelection: selecting by the operation and the start of the
\* job's rows finds the last row of the last job about its operation, and only
\* that, whatever the user clears or adds in between.
THEOREM SummariesAreOwnRows == Spec => []SummaryIsOwnRow
<1>1. Inv => SummaryIsOwnRow
  BY SummaryRowIsOwn DEF Inv, Core, SummaryKnown, SummaryIsOwnRow
<1> QED
  BY <1>1, InvAlways, PTL

\* OperationDestination: only the folder of the last job, and only if that job
\* succeeded, can be opened.
THEOREM OnlySuccessesOpen == Spec => []OnlySuccessOpens
<1>1. Inv => OnlySuccessOpens
  BY DEF Inv, Core, TypeOK, ThreadAndFlags, FolderKnown, OnlySuccessOpens, Working
<1> QED
  BY <1>1, InvAlways, PTL

-----------------------------------------------------------------------------
(* Results reach the screen *)

\* The flag of a pending repaint is never set without a message, and the flag of
\* the worker only while a job runs or is about to.
Announced ==
  /\ repaint => posted
  /\ running => worker \in Working \cup {"reset", "release"} \/ ui \in {"join", "begin"}
  /\ NoResultIsStranded

\* The UI thread looks for a folder and for a row only after the job that left
\* them has released the worker and ended its operation.
LEMMA AnnouncedStep == Inv /\ Announced /\ [Next]_vars => Announced'
<1> SUFFICES ASSUME Inv, Announced, [Next]_vars PROVE Announced'
  OBVIOUS
<1> USE DEF Announced, NoResultIsStranded, Working
<1>1. CASE RunJob \/ JoinOld \/ Begin
  <2>1. CASE Begin
    BY <2>1 DEF Begin, None, paint
  <2>2. CASE RunJob \/ JoinOld
    BY <2>2 DEF RunJob, JoinOld, handover, thread, paint
  <2> QED
    BY <1>1, <2>1, <2>2
<1>2. CASE HandleRepaint \/ OpenFolder \/ ShowSummary
  <2>1. CASE HandleRepaint
    BY <2>1 DEF HandleRepaint, flags, handover, thread
  <2>2. CASE OpenFolder
    <3>1. /\ ui = "open" /\ ui' = "show" /\ folder' = IF active \/ running THEN folder ELSE None
          /\ UNCHANGED <<running, worker, posted, repaint, summary>>
      BY <2>2 DEF OpenFolder, flags, thread, paint
    <3>2. folder # None => ~active /\ ~running
      BY <3>1 DEF Inv, Core, ThreadAndFlags, FolderKnown, Cleaning
    <3> QED
      BY <3>1, <3>2
  <2>3. CASE ShowSummary
    <3>1. /\ ui = "show" /\ ui' = "idle" /\ summary' = IF active THEN summary ELSE None
          /\ UNCHANGED <<running, worker, posted, repaint, folder>>
      BY <2>3 DEF ShowSummary, flags, thread, paint
    <3>2. summary # None => ~active
      BY DEF Inv, Core, ThreadAndFlags, SummaryKnown
    <3> QED
      BY <3>1, <3>2
  <2> QED
    BY <1>2, <2>1, <2>2, <2>3
<1>3. CASE UiRepaints \/ JobReportsProgress \/ WorkerRepaints
  <2>1. repaint' = TRUE /\ posted' = (posted \/ ~repaint)
    BY <1>3 DEF UiRepaints, JobReportsProgress, WorkerRepaints, RequestRepaint
  <2>2. repaint \in BOOLEAN /\ posted \in BOOLEAN
    BY DEF Inv, Core, TypeOK
  <2>3. posted' = TRUE
    BY <2>1, <2>2
  <2>4. UNCHANGED <<running, folder, summary>>
    BY <1>3 DEF UiRepaints, JobReportsProgress, WorkerRepaints, flags, handover
  <2>5. running => worker' \in Working \cup {"reset", "release"} \/ ui' \in {"join", "begin"}
    BY <1>3 DEF UiRepaints, JobReportsProgress, WorkerRepaints, Work, thread
  <2> QED
    BY <2>3, <2>4, <2>5
<1>4. CASE RequestStop \/ ClearHistory \/ SettingsSaved \/ Resize
  BY <1>4 DEF RequestStop, ClearHistory, SettingsSaved, Resize, flags, handover, thread, paint, None
<1>5. CASE Complete
  BY <1>5 DEF Complete, Work, flags, paint
<1>6. CASE JobThrows \/ JobReturns \/ Check \/ Catch \/ Finish \/ ResetCancel \/ Release \/ JobAddsRow
  <2>1. /\ UNCHANGED <<repaint, posted, ui, folder, summary>> /\ worker \in Working \cup {"reset", "release"}
        /\ \/ running' = running /\ worker' \in Working \cup {"reset", "release"}
           \/ running' = FALSE
    BY <1>6 DEF JobThrows, JobReturns, Check, Catch, Finish, ResetCancel, Release, JobAddsRow, Work,
       flags, handover, thread, paint
  <2>2. folder = None /\ summary = None
    BY <2>1 DEF Inv, Core, FolderKnown, SummaryKnown, Cleaning
  <2> QED
    BY <2>1, <2>2
<1>7. CASE UNCHANGED vars
  BY <1>7 DEF vars, flags, handover, thread, paint
<1> QED
  BY <1>1, <1>2, <1>3, <1>4, <1>5, <1>6, <1>7 DEF Next, Ui, Messages, Starting, User, Worker, JobEnds, AfterJob

\* show_pending_operation_summary and open_pending_operation_destination: no
\* result waits without a repaint that will find it, for any number of jobs,
\* repaints and resizes.  That the message is delivered is TLC's to check.
THEOREM NoResultWaitsAlone == Spec => []NoResultIsStranded
<1>1. Init => Announced
  BY DEF Init, Announced, NoResultIsStranded
<1>2. Inv /\ Announced /\ [Next]_vars => Announced'
  BY AnnouncedStep
<1>3. Announced => NoResultIsStranded
  BY DEF Announced
<1> QED
  BY <1>1, <1>2, <1>3, InvAlways, PTL DEF Spec
===============================================================================
