---------------------------- MODULE DriverProofs ----------------------------
(***************************************************************************)
(* Proofs about Driver, for any amount of noise from Stainless: wherever a  *)
(* run fails or is killed, no program with errors leaves the driver, its    *)
(* success means an export or a report, and what it opened is closed.       *)
(***************************************************************************)
EXTENDS Driver, TLAPS

Replies == Session!Response \cup {Session!Noise}
Answers ==
  Session!Response \cup {Session!Failed(e) : e \in Session!Errors} \cup {Session!NoAnswer}

(* Types of what the properties depend on.                                  *)
RunType ==
  /\ query \in {0, 1}
  /\ serving \in {0, 1}
  /\ stdin \in Seq({1})
  /\ stdout \in Seq(Replies)
  /\ answer \in [{1} -> Answers]
  /\ client \in {"prepared", "waiting"} => query = 1

(* Each phase is reached with what went before it done.                     *)
Phased ==
  /\ phase = "compile" => ~compiled
  /\ phase \in {"extract", "extracted", "export", "verify", "report"} => compiled
  /\ phase \in {"export", "verify", "report"} => ~errors
  /\ phase = "export" => export
  /\ phase \in {"verify", "report"} => ~export
  /\ exported => phase = "over" /\ compiled /\ ~errors
  /\ created => phase \in {"verify", "report", "over"} /\ compiled /\ ~errors

(* The session is there from Create to the end of the verification.         *)
SessionHeld ==
  /\ ~created => client = "closed" /\ ~open /\ files = {} /\ stdin = <<>>
  /\ open \/ client # "closed" => phase = "verify" /\ client # "closed"

(* Its file is there while a query is, unless the process was killed.       *)
FileHeld ==
  files = (IF client \in {"prepared", "waiting"} THEN {1} ELSE {}) \/ status = Signal

Done == IF export THEN exported ELSE answer[1] = [to |-> 1, kind |-> "verified"]

(* The status is that of the end, and the exit status follows from it.      *)
Concluded ==
  /\ status # Running => phase = "over"
  /\ status = Success /\ compiled => Done
  /\ exit = Success => status = Success

RunInv == RunType /\ Phased /\ SessionHeld /\ FileHeld /\ Concluded

(* It holds when rustc_to_stainless starts.                                 *)
LEMMA RunInit == Init => RunInv
<1> SUFFICES ASSUME Init PROVE RunInv
  OBVIOUS
<1>1. RunType
  BY DEF Init, RunType, Answers
<1>2. Phased /\ SessionHeld /\ FileHeld /\ Concluded
  BY DEF Init, Phased, SessionHeld, FileHeld, Concluded, Running, Success
<1> QED
  BY <1>1, <1>2 DEF RunInv

(* Steps of the driver that leave the session alone.                        *)
LEMMA RunAlone ==
  ASSUME RunInv,
         Compile \/ Extract \/ AbortIfErrors \/ OutputProgram \/ Report \/ Exit
  PROVE  RunInv'
<1>1. UNCHANGED backend_vars
  BY DEF Compile, Extract, AbortIfErrors, OutputProgram, Report, Exit
<1>2. RunType'
  BY <1>1 DEF RunInv, RunType, backend_vars
<1> USE DEF RunInv, Phased, SessionHeld, FileHeld, Concluded, Done, End, Running,
            Success, Failure, Panicked, Signal, backend_vars
<1>3. CASE Compile
  BY <1>1, <1>2, <1>3 DEF Compile
<1>4. CASE Extract
  BY <1>1, <1>2, <1>4 DEF Extract
<1>5. CASE AbortIfErrors
  BY <1>1, <1>2, <1>5 DEF AbortIfErrors
<1>6. CASE OutputProgram
  BY <1>1, <1>2, <1>6 DEF OutputProgram
<1>7. CASE Report
  <2>1. answer[1].kind = "verified" => answer[1] = [to |-> 1, kind |-> "verified"]
    BY DEF RunType, Answers, Session!Response, Session!QueryIds, Session!Failed,
           Session!Errors, Session!NoAnswer, Session!ResponseKinds, Queries
  <2> QED
    BY <1>1, <1>2, <1>7, <2>1 DEF Report
<1>8. CASE Exit
  BY <1>1, <1>2, <1>8 DEF Exit
<1> QED
  BY <1>3, <1>4, <1>5, <1>6, <1>7, <1>8

(* Verification: the session is opened...                                   *)
LEMMA RunCreate == ASSUME RunInv, Create PROVE RunInv'
  BY DEF RunInv, RunType, Phased, SessionHeld, FileHeld, Concluded, Done, Create, End,
         Running, Success, Failure, Signal

(* ... takes one query, whose answer has the type of one...                 *)
LEMMA RunQuery == ASSUME RunInv, Query PROVE RunInv'
<1>1. /\ UNCHANGED driver_vars /\ UNCHANGED open
      /\ phase = "verify" /\ created /\ status = Running
  BY DEF Query, RunInv, Concluded, Session!Prepare, Session!Send, Session!SendFails,
         Session!ReadResponse, Session!ReadEnd, driver_vars
<1>2. client # "closed" /\ client' # "closed"
  BY DEF Query, Session!Prepare, Session!Send, Session!SendFails,
         Session!ReadResponse, Session!ReadEnd, Session!Return
<1>3. Phased' /\ SessionHeld' /\ Concluded'
  BY <1>1, <1>2 DEF RunInv, Phased, SessionHeld, Concluded, driver_vars, Running, Success
<1>4. RunType' /\ FileHeld'
  <2> USE DEF RunInv, RunType, FileHeld, Session!child_vars, driver_vars
  <2>1. CASE Session!Prepare
    BY <1>1, <2>1 DEF Session!Prepare, Queries, Running, Signal
  <2>2. CASE Session!Send
    BY <1>1, <2>2 DEF Session!Send, Running, Signal
  <2>3. CASE Session!SendFails
    BY <1>1, <2>3 DEF Session!SendFails, Session!Return, Answers, Session!Errors,
                      Running, Signal
  <2>4. CASE Session!ReadResponse
    <3>1. Head(stdout) \in Replies /\ Tail(stdout) \in Seq(Replies)
      BY <2>4 DEF Session!ReadResponse
    <3> QED
      BY <1>1, <2>4, <3>1 DEF Session!ReadResponse, Session!Return, Answers, Replies,
                              Session!Errors, Running, Signal
  <2>5. CASE Session!ReadEnd
    BY <1>1, <2>5 DEF Session!ReadEnd, Session!Return, Answers, Session!Errors,
                      Running, Signal
  <2> QED
    BY <2>1, <2>2, <2>3, <2>4, <2>5 DEF Query
<1> QED
  BY <1>3, <1>4 DEF RunInv

(* ... and is closed, at the end or on the way out of a panic.              *)
LEMMA RunClose == ASSUME RunInv, QueryPanics \/ Drop PROVE RunInv'
<1>1. /\ client = "idle" /\ client' = "closed" /\ ~open'
      /\ UNCHANGED <<query, files, answer, stdin, stdout, serving>>
  BY DEF QueryPanics, Drop, Session!Close, Session!child_vars
<1>2. RunType'
  BY <1>1 DEF RunInv, RunType
<1>3. /\ UNCHANGED <<export, compiled, errors, exported, created, exit>>
      /\ phase = "verify" /\ created
      /\ \/ phase' = "over" /\ status' = Panicked
         \/ phase' = "report" /\ status' = status
  BY <1>1 DEF QueryPanics, Drop, End, RunInv, SessionHeld
<1>4. Phased'
  BY <1>3 DEF RunInv, Phased
<1>5. SessionHeld'
  BY <1>1, <1>3 DEF RunInv, SessionHeld
<1>6. FileHeld'
  BY <1>1, <1>3 DEF RunInv, Concluded, FileHeld, Running, Signal
<1>7. Concluded'
  BY <1>1, <1>3 DEF RunInv, Concluded, Done, Running, Success, Panicked
<1> QED
  BY <1>2, <1>4, <1>5, <1>6, <1>7 DEF RunInv

(* A signal ends the run wherever it is.                                    *)
LEMMA RunKill == ASSUME RunInv, Kill PROVE RunInv'
  BY DEF RunInv, RunType, Phased, SessionHeld, FileHeld, Concluded, Kill, End,
         Running, Success, Signal

(* Stainless consumes requests and produces replies.                        *)
LEMMA RunStainless == ASSUME RunInv, Stainless PROVE RunInv'
<1>1. UNCHANGED <<driver_vars, client, query, files, answer, open>>
  BY DEF Stainless, Session!Work, Session!Take, Session!Load, Session!Respond,
         Session!EndOfInput, Session!Chatter, Session!Die, Session!client_vars
<1>2. RunType' /\ (stdin = <<>> => stdin' = <<>>)
  <2>1. CASE Session!Take
    <3>1. Head(stdin) = 1 /\ Tail(stdin) \in Seq({1})
      BY <2>1 DEF RunInv, RunType, Session!Take
    <3> QED
      BY <1>1, <2>1, <3>1 DEF RunInv, RunType, Session!Take
  <2>2. CASE Session!Respond
    <3>1. PICK kind \in Session!ResponseKinds :
            stdout' = Append(stdout, [to |-> serving, kind |-> kind])
      BY <2>2 DEF Session!Respond
    <3>2. [to |-> serving, kind |-> kind] \in Replies
      BY <2>2 DEF RunInv, RunType, Session!Respond, Replies, Session!Response,
                  Session!QueryIds, Queries
    <3>3. stdout' \in Seq(Replies)
      BY <3>1, <3>2 DEF RunInv, RunType
    <3> QED
      BY <1>1, <2>2, <3>3 DEF RunInv, RunType, Session!Respond
  <2>3. CASE Session!Chatter
    <3>1. stdout' \in Seq(Replies)
      BY <2>3 DEF RunInv, RunType, Session!Chatter, Replies
    <3> QED
      BY <1>1, <2>3, <3>1 DEF RunInv, RunType, Session!Chatter
  <2>4. CASE Session!Load \/ Session!EndOfInput \/ Session!Die
    BY <1>1, <2>4 DEF RunInv, RunType, Session!Load, Session!EndOfInput, Session!Die
  <2> QED
    BY <2>1, <2>2, <2>3, <2>4 DEF Stainless, Session!Work
<1> QED
  BY <1>1, <1>2 DEF RunInv, Phased, SessionHeld, FileHeld, Concluded, Done, driver_vars

(* The invariant is inductive.                                              *)
LEMMA RunStep == ASSUME RunInv, [Next]_vars PROVE RunInv'
<1>1. CASE UNCHANGED vars
  BY <1>1 DEF vars, driver_vars, backend_vars, RunInv, RunType, Phased, SessionHeld,
              FileHeld, Concluded, Done
<1> QED
  BY <1>1, RunAlone, RunCreate, RunQuery, RunClose, RunKill, RunStainless
     DEF Next, DriverStep

(* So it holds all along a run.                                             *)
LEMMA RunInvariant == Spec => []RunInv
<1>1. Init => RunInv
  BY RunInit
<1>2. RunInv /\ [Next]_vars => RunInv'
  BY RunStep
<1> QED
  BY <1>1, <1>2, PTL DEF Spec

(* abort_if_errors: nothing leaves the driver after an error.               *)
THEOREM RunNothingAfterErrors == Spec => []NothingAfterErrors
<1>1. RunInv => NothingAfterErrors
  BY DEF RunInv, Phased, SessionHeld, NothingAfterErrors
<1> QED
  BY <1>1, RunInvariant, PTL

(* The exit status of cargo stainless is 0 only if the work was done.       *)
THEOREM RunSuccessMeansDone == Spec => []SuccessMeansDone
<1>1. RunInv => SuccessMeansDone
  BY DEF RunInv, Concluded, Done, SuccessMeansDone
<1> QED
  BY <1>1, RunInvariant, PTL

(* However the driver ends, the pipe is closed and the file deleted.        *)
THEOREM RunCleanEnd == Spec => []CleanEnd
<1>1. RunInv => CleanEnd
  BY DEF RunInv, SessionHeld, FileHeld, CleanEnd
<1> QED
  BY <1>1, RunInvariant, PTL
=============================================================================
