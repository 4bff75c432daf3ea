------------------------------ MODULE Backend ------------------------------
(***************************************************************************)
(* A session with the Stainless verifier (stainless_backend/src/lib.rs): a  *)
(* child process that is sent the paths of serialized programs on its       *)
(* stdin, one per line, and answers each with a JSON value on its stdout.   *)
(* The client writes a program to a temporary file, sends the path, blocks  *)
(* until it has read one value, and deletes the file.                       *)
(*                                                                          *)
(* Stainless itself is external: it takes the lines in order, loads the     *)
(* file, may print text that is no JSON, answers, and may die at any time.  *)
(***************************************************************************)
EXTENDS Naturals, Sequences

CONSTANTS
  Queries,      \* how many programs the client has verified in the session
  MaxNoise      \* bound on the texts Stainless prints that are no response

ASSUME BackendAssumption == Queries \in Nat /\ MaxNoise \in Nat

VARIABLES
  client,       \* "idle", "prepared", "waiting", "closed"
  query,        \* number of the current query, or of the last one
  files,        \* temporary files that exist, named by their query
  stdin,        \* lines sent and not yet read by Stainless
  open,         \* the client holds its end of that pipe
  stdout,       \* what Stainless printed and the client has not read
  child,        \* "alive" or "exited"
  serving,      \* the query Stainless works on, 0 if none
  loaded,       \* Stainless has loaded the file of that query
  noise,        \* texts printed so far
  answer        \* what query_for_program returned for each query

vars == <<client, query, files, stdin, open, stdout, child, serving, loaded, noise, answer>>
client_vars == <<client, query, files, answer>>
child_vars == <<child, serving, loaded, noise>>

QueryIds == 1 .. Queries
ResponseKinds == {"verified", "no_report", "error"}
Response == [to : QueryIds, kind : ResponseKinds]
Noise == [to |-> 0, kind |-> "noise"]
Errors == {"write_failed", "stopped", "parse_failed"}
Failed(e) == [to |-> 0, kind |-> e]
NoAnswer == [to |-> 0, kind |-> "none"]

(* The type invariant.                                                      *)
TypeOK ==
  /\ client \in {"idle", "prepared", "waiting", "closed"}
  /\ query \in 0 .. Queries
  /\ files \subseteq QueryIds
  /\ stdin \in Seq(QueryIds)
  /\ open \in BOOLEAN
  /\ stdout \in Seq(Response \cup {Noise})
  /\ child \in {"alive", "exited"}
  /\ serving \in 0 .. Queries
  /\ loaded \in BOOLEAN
  /\ noise \in 0 .. MaxNoise
  /\ answer \in [QueryIds -> Response \cup {Failed(e) : e \in Errors} \cup {NoAnswer}]

(* Backend::create has spawned the child.                                   *)
Init ==
  /\ client = "idle"
  /\ query = 0
  /\ files = {}
  /\ stdin = <<>>
  /\ open = TRUE
  /\ stdout = <<>>
  /\ child = "alive"
  /\ serving = 0
  /\ loaded = FALSE
  /\ noise = 0
  /\ answer = [q \in QueryIds |-> NoAnswer]

----------------------------------------------------------------------------
(* The client.                                                              *)

PrepareNameless ==             \* mutant: the handle, and the file with it, is dropped
  /\ client = "idle"
  /\ query < Queries
  /\ query' = query + 1
  /\ client' = "prepared"
  /\ UNCHANGED <<open, files, stdin, stdout, child_vars, answer>>

(* query_for_program: serialize into a named temporary file.                *)
Prepare ==
  /\ client = "idle"
  /\ query < Queries
  /\ query' = query + 1
  /\ files' = files \cup {query + 1}
  /\ client' = "prepared"
  /\ UNCHANGED <<open, stdin, stdout, child_vars, answer>>

ReturnKeeping(a) ==           \* mutant: the file is never deleted
  /\ answer' = [answer EXCEPT ![query] = a]
  /\ UNCHANGED files
  /\ client' = "idle"

(* query_for_program returns: the temporary file goes with it.              *)
Return(a) ==
  /\ answer' = [answer EXCEPT ![query] = a]
  /\ files' = files \ {query}
  /\ client' = "idle"

(* query: one line on stdin, which fails if the child is gone.              *)
Send ==
  /\ client = "prepared"
  /\ child = "alive"
  /\ stdin' = Append(stdin, query)
  /\ client' = "waiting"
  /\ UNCHANGED <<open, query, files, answer, stdout, child_vars>>

SendFails ==
  /\ client = "prepared"
  /\ child = "exited"
  /\ Return(Failed("write_failed"))
  /\ UNCHANGED <<open, query, stdin, stdout, child_vars>>

ReadResponsePeeking ==        \* mutant: the value read stays in the pipe
  /\ client = "waiting"
  /\ stdout # <<>>
  /\ Return(IF Head(stdout) = Noise THEN Failed("parse_failed") ELSE Head(stdout))
  /\ UNCHANGED <<open, query, stdin, stdout, child_vars>>

ReadEndWaiting ==             \* mutant: the end of the stream is no answer
  /\ client = "waiting"
  /\ stdout = <<>>
  /\ child = "exited"
  /\ UNCHANGED vars

(* The next value of a fresh StreamDeserializer on stdout: blocks until     *)
(* there is one, an error of which only the text read so far is consumed,   *)
(* or the end of the stream.                                                *)
ReadResponse ==
  /\ client = "waiting"
  /\ stdout # <<>>
  /\ Return(IF Head(stdout) = Noise THEN Failed("parse_failed") ELSE Head(stdout))
  /\ stdout' = Tail(stdout)
  /\ UNCHANGED <<open, query, stdin, child_vars>>

ReadEnd ==
  /\ client = "waiting"
  /\ stdout = <<>>
  /\ child = "exited"
  /\ Return(Failed("stopped"))
  /\ UNCHANGED <<open, query, stdin, stdout, child_vars>>

CloseLeaking ==               \* mutant: stdin stays open
  /\ client = "idle"
  /\ client' = "closed"
  /\ UNCHANGED <<open, query, files, answer, stdin, stdout, child_vars>>

(* The Backend is dropped, which closes both pipes and waits for nothing.   *)
Close ==
  /\ client = "idle"
  /\ client' = "closed"
  /\ open' = FALSE
  /\ UNCHANGED <<query, files, answer, stdin, stdout, child_vars>>

----------------------------------------------------------------------------
(* Stainless.                                                               *)

Take ==
  /\ child = "alive"
  /\ serving = 0
  /\ stdin # <<>>
  /\ serving' = Head(stdin)
  /\ stdin' = Tail(stdin)
  /\ loaded' = FALSE
  /\ UNCHANGED <<client_vars, open, stdout, child, noise>>

Load ==
  /\ child = "alive"
  /\ serving # 0
  /\ ~loaded
  /\ serving \in files
  /\ loaded' = TRUE
  /\ UNCHANGED <<client_vars, open, stdin, stdout, child, serving, noise>>

(* An answer needs the program; without it there is an error.               *)
Respond ==
  /\ child = "alive"
  /\ serving # 0
  /\ \E kind \in ResponseKinds :
       /\ loaded \/ (kind = "error" /\ serving \notin files)
       /\ stdout' = Append(stdout, [to |-> serving, kind |-> kind])
  /\ serving' = 0
  /\ UNCHANGED <<client_vars, open, stdin, child, loaded, noise>>

Chatter ==
  /\ child = "alive"
  /\ noise < MaxNoise
  /\ noise' = noise + 1
  /\ stdout' = Append(stdout, Noise)
  /\ UNCHANGED <<client_vars, open, stdin, child, serving, loaded>>

(* It dies, or ends because its stdin has.                                  *)
Die ==
  /\ child = "alive"
  /\ child' = "exited"
  /\ UNCHANGED <<client_vars, open, stdin, stdout, serving, loaded, noise>>

EndOfInput ==
  /\ child = "alive"
  /\ ~open
  /\ stdin = <<>>
  /\ serving = 0
  /\ child' = "exited"
  /\ UNCHANGED <<client_vars, open, stdin, stdout, serving, loaded, noise>>

----------------------------------------------------------------------------
ClientNext == Prepare \/ Send \/ SendFails \/ ReadResponse \/ ReadEnd \/ Close
Work == Take \/ Load \/ Respond \/ EndOfInput
Next == ClientNext \/ Work \/ Chatter \/ Die

Spec == Init /\ [][Next]_vars

(* The client runs, and Stainless, while it lives, answers: each            *)
(* verification condition is given --timeout=30 seconds.  It need not chat  *)
(* nor die.                                                                 *)
FairSpec == Spec /\ WF_vars(ClientNext) /\ WF_vars(Work)

----------------------------------------------------------------------------
(* The client has met nothing but responses up to this query.               *)
Undisturbed(q) == \A p \in 1 .. q : answer[p].kind # "parse_failed"
(* Until the client has met something that is no response, every response   *)
(* it returns is the one to the query it was asked, though nothing in a     *)
(* response says so.                                                        *)
AnswersMatch ==
  \A q \in QueryIds :
    Undisturbed(q) /\ answer[q].kind \in ResponseKinds => answer[q].to = q

(* Likewise Stainless finds the file of the query it works on: it is not    *)
(* deleted under its hands.                                                 *)
FilePresent ==
  serving # 0 /\ ~loaded /\ Undisturbed(query) /\ child = "alive" => serving \in files

(* No temporary file outlives its query.                                    *)
FilesDeleted == files \subseteq {query} /\ (client \in {"idle", "closed"} => files = {})

(* Every query returns: an answer or an error, even if Stainless dies.      *)
QueriesReturn == \A q \in QueryIds : q \in files ~> answer[q] # NoAnswer

(* The child that nobody waits for does not outlive the session.            *)
ChildEnds == client = "closed" ~> child = "exited"
=============================================================================
