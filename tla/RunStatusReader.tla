--------------------------- MODULE RunStatusReader ---------------------------
(***************************************************************************)
(* `matchvet status` beside a live coordinator: read_run_status and        *)
(* _status_from_connection of src/matchvet/runs.py.  The reader takes no   *)
(* lock and opens no transaction: it reads the run row, then the work      *)
(* units joined with their latest attempts, then the owner of each RUNNING *)
(* attempt and /proc, and a coordinator may commit or die in between.      *)
(***************************************************************************)
EXTENDS RunLifecycle

VARIABLES
  stage,   \* how far the reader has got
  record,  \* the run row it read, with its identifier
  rows,    \* per phase, the unit state and the latest attempt's status
  stale    \* RunStatus.stale once the report is made

readerVars == <<stage, record, rows, stale>>
allVars    == <<vars, readerVars>>

NoRecord == [run |-> NoRun]

ReaderInit ==
  /\ stage = "idle"
  /\ record = NoRecord
  /\ rows = <<>>
  /\ stale = FALSE

\* _read_run_record; a run that does not exist raises LookupError.
ReadRecord(r) ==
  /\ stage = "idle"
  /\ runs[r].state # "ABSENT"
  /\ stage' = "record"
  /\ record' = [run |-> r, state |-> runs[r].state, last |-> runs[r].last]
  /\ UNCHANGED <<rows, stale>>

\* The join of run_work_units and run_attempts: one statement, one snapshot.
ReadUnits ==
  LET r == record.run IN
  /\ stage = "record"
  /\ stage' = "units"
  /\ rows' = [i \in Phases |->
       [state   |-> units[<<r, i>>].state,
        attempt |-> units[<<r, i>>].count,
        status  |-> IF units[<<r, i>>].count = 0 THEN "PENDING"
                    ELSE attempts[<<r, i, units[<<r, i>>].count>>].status]]
  /\ UNCHANGED <<record, stale>>

\* A reader that takes the run row last.
ReadOwners_RowLast ==
  LET r == record.run IN
  /\ stage = "units"
  /\ stage' = "reported"
  /\ record' = [run |-> r, state |-> runs[r].state, last |-> runs[r].last]
  /\ UNCHANGED <<rows, stale>>

\* The owner tokens of the RUNNING rows are looked up and compared with /proc.
ReadOwners ==
  /\ stage = "units"
  /\ stage' = "reported"
  /\ stale' = \E i \in Phases :
       /\ rows[i].status = "RUNNING"
       /\ ~TokenIsAlive(attempts[<<record.run, i, rows[i].attempt>>].owner)
  /\ UNCHANGED <<record, rows>>

\* The status is printed and the connection closed.
EndRead ==
  /\ stage = "reported"
  /\ stage' = "idle"
  /\ record' = NoRecord
  /\ rows' = <<>>
  /\ stale' = FALSE

ReaderNext ==
  \/ \E r \in RunIds : ReadRecord(r)
  \/ ReadUnits
  \/ ReadOwners
  \/ EndRead

StatusNext ==
  \/ Next /\ UNCHANGED readerVars
  \/ ReaderNext /\ UNCHANGED vars

StatusSpec == Init /\ ReaderInit /\ [][StatusNext]_allVars

-----------------------------------------------------------------------------

CompletedUnits == Cardinality({i \in Phases : rows[i].state = "COMPLETE"})

\* Three reads at three moments still make a coherent report, because the run
\* row is read first and checkpoints are never undone: a report that says
\* COMPLETE counts every work unit and calls nothing stale, and the work unit
\* named as last checkpoint is always among the completed ones.
ReportIsCoherent ==
  stage = "reported" =>
    /\ record.state = "COMPLETE" => CompletedUnits = NumPhases /\ ~stale
    /\ record.last <= CompletedUnits
    /\ \A i \in 1..record.last : rows[i].state = "COMPLETE"
=============================================================================
