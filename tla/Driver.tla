------------------------------- MODULE Driver -------------------------------
(***************************************************************************)
(* One run of `cargo stainless' from the start of rustc_to_stainless on     *)
(* (stainless_frontend/src/lib.rs and bin/rustc_to_stainless.rs, and the    *)
(* end of bin/cargo-stainless.rs): compile up to the analysis, extract,     *)
(* stop if there were errors, export the program or have it verified in a   *)
(* session with Stainless of a single query (Backend), and turn the outcome *)
(* into an exit status.                                                     *)
(*                                                                          *)
(* rustc is external: what it does to a crate is its choice. A FatalError   *)
(* unwinds to catch_fatal_errors and a panic to the start of the process;   *)
(* either drops the Backend on its way.                                     *)
(***************************************************************************)
EXTENDS Naturals, Sequences

CONSTANTS
  Exports,     \* the values of "RUSTSTAINLESS_EXPORT is set" to consider
  MaxNoise     \* as in Backend
Queries == 1

VARIABLES
  phase,       \* where the driver is, or "over"
  export,      \* RUSTSTAINLESS_EXPORT is set
  compiled,    \* rustc's analysis succeeded
  errors,      \* errors reported by rustc or the extractor
  exported,    \* the program has been written to the file
  created,     \* verify_program has a Backend
  status,      \* exit status of rustc_to_stainless, or "signal"
  exit         \* exit status of cargo stainless
VARIABLES
  client, query, files, stdin, open, stdout, child, serving, loaded, noise, answer

driver_vars == <<phase, export, compiled, errors, exported, created, status, exit>>
backend_vars == <<client, query, files, stdin, open, stdout, child, serving,
                  loaded, noise, answer>>
vars == <<driver_vars, backend_vars>>

Session == INSTANCE Backend

Running == 256                \* no status yet
Success == 0
Failure == 1                  \* main returned Err
Panicked == 101
Signal == 257                 \* the process was killed

(* There is no child before the Backend is created.                         *)
Init ==
  /\ phase = "compile"
  /\ export \in Exports
  /\ compiled = FALSE
  /\ errors = FALSE
  /\ exported = FALSE
  /\ created = FALSE
  /\ status = Running
  /\ exit = Running
  /\ client = "closed"
  /\ query = 0
  /\ files = {}
  /\ stdin = <<>>
  /\ open = FALSE
  /\ stdout = <<>>
  /\ child = "exited"
  /\ serving = 0
  /\ loaded = FALSE
  /\ noise = 0
  /\ answer = [q \in {1} |-> Session!NoAnswer]

-----------------------------------------------------------------------------
End(s) == phase' = "over" /\ status' = s

(* rustc: the analysis succeeds; or reports errors and run_compiler returns *)
(* them in its own result, which `run' maps to Ok with everything else that *)
(* catch_fatal_errors caught nothing of; or it unwinds.                     *)
Compile ==
  /\ phase = "compile"
  /\ \/ /\ phase' = "extract"
        /\ compiled' = TRUE
        /\ UNCHANGED <<errors, status>>
     \/ /\ \E s \in {Success, Failure} : End(s)
        /\ errors' = TRUE
        /\ UNCHANGED compiled
     \/ /\ End(Panicked)
        /\ UNCHANGED <<compiled, errors>>
  /\ UNCHANGED <<export, exported, created, exit, backend_vars>>

(* extract_crate: reports errors and goes on, or panics.                    *)
Extract ==
  /\ phase = "extract"
  /\ \/ /\ phase' = "extracted"
        /\ errors' \in BOOLEAN
        /\ UNCHANGED status
     \/ /\ End(Panicked)
        /\ UNCHANGED errors
  /\ UNCHANGED <<export, compiled, exported, created, exit, backend_vars>>

(* Mutant: the errors are noticed by rustc at its end only.                 *)
AbortIfErrorsLate ==
  /\ phase = "extracted"
  /\ phase' = IF export THEN "export" ELSE "verify"
  /\ UNCHANGED <<export, compiled, errors, exported, created, status, exit,
                 backend_vars>>

(* abort_if_errors; then RUSTSTAINLESS_EXPORT decides.                      *)
AbortIfErrors ==
  /\ phase = "extracted"
  /\ IF errors
       THEN End(Failure)
       ELSE phase' = (IF export THEN "export" ELSE "verify") /\ UNCHANGED status
  /\ UNCHANGED <<export, compiled, errors, exported, created, exit, backend_vars>>

(* output_program, and Compilation::Stop.                                   *)
OutputProgram ==
  /\ phase = "export"
  /\ \/ End(Success) /\ exported' = TRUE
     \/ End(Panicked) /\ UNCHANGED exported
  /\ UNCHANGED <<export, compiled, errors, created, exit, backend_vars>>

(* Backend::create: Stainless is started, or is not where it should be and  *)
(* verify_program_and_report is fatal.                                      *)
Create ==
  /\ phase = "verify" /\ ~created
  /\ \/ /\ created' = TRUE
        /\ client' = "idle" /\ open' = TRUE /\ child' = "alive"
        /\ UNCHANGED <<phase, status>>
     \/ /\ End(Failure)
        /\ UNCHANGED <<created, client, open, child>>
  /\ UNCHANGED <<export, compiled, errors, exported, exit, query, files, stdin,
                 stdout, serving, loaded, noise, answer>>

(* The steps of query_for_program. A failure to make the file is a panic.   *)
Query ==
  /\ phase = "verify" /\ created
  /\ \/ Session!Prepare
     \/ Session!Send
     \/ Session!SendFails
     \/ Session!ReadResponse
     \/ Session!ReadEnd
  /\ UNCHANGED driver_vars
QueryPanics ==
  /\ phase = "verify" /\ created
  /\ client = "idle" /\ query = 0
  /\ Session!Close
  /\ End(Panicked)
  /\ UNCHANGED <<export, compiled, errors, exported, created, exit>>

(* verify_program returns: the Backend is dropped.                          *)
Answered == answer[1] # Session!NoAnswer
Drop ==
  /\ phase = "verify" /\ Answered
  /\ Session!Close
  /\ phase' = "report"
  /\ UNCHANGED <<export, compiled, errors, exported, created, status, exit>>

(* Mutant: a response without a report is taken for an empty report.        *)
ReportAny ==
  /\ phase = "report"
  /\ End(IF answer[1].kind \in {"verified", "no_report"} THEN Success ELSE Failure)
  /\ UNCHANGED <<export, compiled, errors, exported, created, exit, backend_vars>>

(* verify_program_and_report: a report, whatever its results, is printed,   *)
(* anything else is fatal.                                                  *)
Report ==
  /\ phase = "report"
  /\ End(IF answer[1].kind = "verified" THEN Success ELSE Failure)
  /\ UNCHANGED <<export, compiled, errors, exported, created, exit, backend_vars>>

(* The driver is killed: its files stay, its pipes are closed.              *)
Kill ==
  /\ phase # "over"
  /\ End(Signal)
  /\ client' = "closed"
  /\ open' = FALSE
  /\ UNCHANGED <<export, compiled, errors, exported, created, exit, query, files,
                 stdin, stdout, child, serving, loaded, noise, answer>>

(* cargo-stainless passes the exit code on, or 1 if there is none.          *)
Exit ==
  /\ phase = "over" /\ exit = Running
  /\ exit' = IF status = Signal THEN 1 ELSE status
  /\ UNCHANGED <<phase, export, compiled, errors, exported, created, status,
                 backend_vars>>

DriverStep ==
  \/ Compile \/ Extract \/ AbortIfErrors \/ OutputProgram
  \/ Create \/ Query \/ QueryPanics \/ Drop \/ Report \/ Exit
Stainless ==
  /\ \/ Session!Work
     \/ Session!Chatter
     \/ Session!Die
  /\ UNCHANGED driver_vars
Next == DriverStep \/ Kill \/ Stainless

(* The driver's thread runs; Stainless does its work while it lives.        *)
Spec ==
  Init /\ [][Next]_vars
  /\ WF_vars(DriverStep) /\ WF_vars(Session!Work /\ UNCHANGED driver_vars)

-----------------------------------------------------------------------------
(* A program that rustc or the extractor has reported an error for, and may *)
(* be extracted in part only, is neither exported nor sent to Stainless.    *)
NothingAfterErrors ==
  /\ exported \/ created => compiled /\ ~errors
  /\ files # {} \/ stdin # <<>> => created

(* cargo stainless succeeds only with the program exported or with a report *)
(* about this very program, whatever Stainless printed before and whoever   *)
(* died, if the crate compiled. (If rustc's own analysis failed, run() in   *)
(* stainless_frontend/src/lib.rs drops that result and the exit status is 0 *)
(* as well.)                                                                *)
SuccessMeansDone ==
  exit = Success /\ compiled =>
    IF export THEN exported ELSE answer[1] = [to |-> 1, kind |-> "verified"]

(* Whichever way the driver ends, by itself, the temporary file is gone and *)
(* the pipe to Stainless is closed.                                         *)
CleanEnd == phase = "over" => ~open /\ (status # Signal => files = {})

(* It ends, even if Stainless dies or prints something else, and no         *)
(* Stainless is left behind, even if the driver is killed.                  *)
Ends == <>[](exit # Running /\ child = "exited")
=============================================================================
