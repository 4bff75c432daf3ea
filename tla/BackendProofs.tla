--------------------------- MODULE BackendProofs ---------------------------
(***************************************************************************)
(* Proofs about Backend, for sessions of any length with a Stainless that   *)
(* may die or print anything at any time: answers belong to their queries   *)
(* and files live exactly as long as their queries, though neither a        *)
(* response nor a path carries a number the client would compare.           *)
(***************************************************************************)
EXTENDS Backend, TLAPS

QuietOut == \A k \in DOMAIN stdout : stdout[k] = Noise

(* The request that is out is in the pipe to Stainless, served, or replied  *)
(* to; and there is a single reply.                                         *)
Requested == stdin = <<query>> /\ serving = 0 /\ QuietOut
Served == stdin = <<>> /\ serving = query /\ QuietOut
Replied ==
  /\ stdin = <<>>
  /\ serving = 0
  /\ \A k \in DOMAIN stdout : stdout[k] = Noise \/ stdout[k].to = query
  /\ \A j, k \in DOMAIN stdout : stdout[j] # Noise /\ stdout[k] # Noise => j = k

(* Until the client has met noise, one request is out while it waits and    *)
(* none is while it does not; only a child that has died leaves one behind. *)
OneOut ==
  Undisturbed(query) =>
    IF client = "waiting" THEN Requested \/ Served \/ Replied
    ELSE QuietOut /\ (child = "alive" => stdin = <<>> /\ serving = 0)

(* The file of a query exists from its preparation to its answer.           *)
FileOfQuery ==
  files = IF client \in {"prepared", "waiting"} THEN {query} ELSE {}

(* Queries are answered in order.                                           *)
AnswersInOrder ==
  /\ \A q \in QueryIds : q > query => answer[q] = NoAnswer
  /\ client \in {"prepared", "waiting"} => query \in QueryIds /\ answer[query] = NoAnswer

SessionInv ==
  TypeOK /\ FileOfQuery /\ AnswersInOrder /\ OneOut /\ AnswersMatch

(* Noise is no response, and what stands for an error or for no answer      *)
(* neither.                                                                 *)
LEMMA NotResponses ==
  /\ Noise \notin Response
  /\ NoAnswer.kind \notin ResponseKinds
  /\ NoAnswer.kind # "parse_failed"
  /\ \A e \in Errors : Failed(e).kind = e /\ e \notin ResponseKinds
  /\ \A r \in Response : r.kind \in ResponseKinds /\ r.kind # "parse_failed"
  BY DEF Noise, Response, ResponseKinds, QueryIds, NoAnswer, Errors, Failed

(* A session starts with nothing sent and no file.                          *)
LEMMA SessionInit == Init => SessionInv
<1> SUFFICES ASSUME Init PROVE SessionInv
  OBVIOUS
<1>1. TypeOK
  <2>1. answer \in [QueryIds -> Response \cup {Failed(e) : e \in Errors} \cup {NoAnswer}]
    BY DEF Init
  <2>2. stdin \in Seq(QueryIds) /\ stdout \in Seq(Response \cup {Noise})
    BY DEF Init
  <2>3. query \in 0 .. Queries /\ serving \in 0 .. Queries /\ noise \in 0 .. MaxNoise
    BY BackendAssumption DEF Init, BackendAssumption
  <2>4. /\ client \in {"idle", "prepared", "waiting", "closed"}
        /\ files \subseteq QueryIds
        /\ open \in BOOLEAN
        /\ child \in {"alive", "exited"}
        /\ loaded \in BOOLEAN
    BY DEF Init
  <2> QED
    BY <2>1, <2>2, <2>3, <2>4 DEF TypeOK
<1>2. FileOfQuery /\ AnswersInOrder /\ OneOut
  BY DEF Init, FileOfQuery, AnswersInOrder, OneOut, QuietOut
<1>3. AnswersMatch
  BY NotResponses DEF Init, AnswersMatch
<1> QED
  BY <1>1, <1>2, <1>3 DEF SessionInv

(* Types are kept by every step.                                            *)
LEMMA SessionType == ASSUME TypeOK, AnswersInOrder, [Next]_vars PROVE TypeOK'
<1>1. CASE Prepare
  <2>1. query + 1 \in QueryIds
    BY <1>1, BackendAssumption DEF TypeOK, Prepare, QueryIds, BackendAssumption
  <2>2. query' \in 0 .. Queries
    BY <1>1, <2>1, BackendAssumption DEF Prepare, QueryIds, BackendAssumption
  <2> QED
    BY <1>1, <2>1, <2>2 DEF TypeOK, Prepare, child_vars
<1>2. CASE Send
  <2>1. query \in QueryIds
    BY <1>2 DEF AnswersInOrder, Send
  <2> QED
    BY <1>2, <2>1 DEF TypeOK, Send, child_vars
<1>3. CASE SendFails
  BY <1>3 DEF TypeOK, SendFails, Return, Errors, child_vars
<1>4. CASE ReadResponse
  <2>1. Head(stdout) \in Response \cup {Noise} /\ Tail(stdout) \in Seq(Response \cup {Noise})
    BY <1>4 DEF TypeOK, ReadResponse
  <2> QED
    BY <1>4, <2>1 DEF TypeOK, ReadResponse, Return, Errors, child_vars
<1>5. CASE ReadEnd
  BY <1>5 DEF TypeOK, ReadEnd, Return, Errors, child_vars
<1>6. CASE Close
  BY <1>6 DEF TypeOK, Close, child_vars
<1>7. CASE Take
  <2>1. Head(stdin) \in QueryIds /\ Tail(stdin) \in Seq(QueryIds)
    BY <1>7 DEF TypeOK, Take
  <2>2. Head(stdin) \in 0 .. Queries
    BY <2>1, BackendAssumption DEF QueryIds, BackendAssumption
  <2> QED
    BY <1>7, <2>1, <2>2 DEF TypeOK, Take, client_vars
<1>8. CASE Load
  BY <1>8, TRUE \in BOOLEAN DEF TypeOK, Load, client_vars
<1>9. CASE Respond
  <2>1. PICK kind \in ResponseKinds :
          stdout' = Append(stdout, [to |-> serving, kind |-> kind])
    BY <1>9 DEF Respond
  <2>2. [to |-> serving, kind |-> kind] \in Response
    BY <1>9 DEF TypeOK, Respond, Response, QueryIds
  <2>3. stdout' \in Seq(Response \cup {Noise})
    BY <2>1, <2>2 DEF TypeOK
  <2>4. /\ serving' \in 0 .. Queries
        /\ UNCHANGED <<client, query, files, answer, open, stdin, child, loaded, noise>>
    BY <1>9, BackendAssumption DEF Respond, client_vars, BackendAssumption
  <2> QED
    BY <2>3, <2>4 DEF TypeOK
<1>10. CASE Chatter
  BY <1>10, BackendAssumption DEF TypeOK, Chatter, client_vars, BackendAssumption
<1>11. CASE Die
  BY <1>11 DEF TypeOK, Die, client_vars
<1>12. CASE EndOfInput
  BY <1>12 DEF TypeOK, EndOfInput, client_vars
<1>13. CASE UNCHANGED vars
  BY <1>13 DEF TypeOK, vars
<1> QED
  BY <1>1, <1>2, <1>3, <1>4, <1>5, <1>6, <1>7, <1>8, <1>9, <1>10, <1>11, <1>12, <1>13
     DEF Next, ClientNext, Work

(* What the client's own operations do to files and answers.                *)
LEMMA SessionBooks ==
  ASSUME SessionInv, [Next]_vars
  PROVE  FileOfQuery' /\ AnswersInOrder'
<1> USE DEF SessionInv, FileOfQuery, AnswersInOrder
<1>1. CASE Prepare
  BY <1>1, BackendAssumption
     DEF Prepare, child_vars, TypeOK, QueryIds, BackendAssumption
<1>2. CASE Send
  BY <1>2 DEF Send, child_vars
<1>3. CASE SendFails
  BY <1>3 DEF SendFails, Return, child_vars, TypeOK, QueryIds
<1>4. CASE ReadResponse
  BY <1>4 DEF ReadResponse, Return, child_vars, TypeOK, QueryIds
<1>5. CASE ReadEnd
  BY <1>5 DEF ReadEnd, Return, child_vars, TypeOK, QueryIds
<1>6. CASE Close
  BY <1>6 DEF Close, child_vars
<1>7. CASE Work \/ Chatter \/ Die
  <2>1. UNCHANGED client_vars
    BY <1>7 DEF Work, Take, Load, Respond, EndOfInput, Chatter, Die, client_vars
  <2> QED
    BY <2>1 DEF client_vars
<1>8. CASE UNCHANGED vars
  BY <1>8 DEF vars
<1> QED
  BY <1>1, <1>2, <1>3, <1>4, <1>5, <1>6, <1>7, <1>8 DEF Next, ClientNext

(* A step that answers a query: those before and after it are undisturbed   *)
(* as they were.                                                            *)
LEMMA AnswerStep ==
  ASSUME SessionInv, query \in QueryIds, answer[query] = NoAnswer,
         NEW a \in Response \cup {Failed(e) : e \in Errors},
         answer' = [answer EXCEPT ![query] = a], query' = query
  PROVE  /\ \A q \in QueryIds : Undisturbed(q)' => Undisturbed(q)
         /\ Undisturbed(query)' => Undisturbed(query) /\ a.kind # "parse_failed"
<1>1. answer \in [QueryIds -> Response \cup {Failed(e) : e \in Errors} \cup {NoAnswer}]
  BY DEF SessionInv, TypeOK
<1>2. ASSUME NEW q \in QueryIds, Undisturbed(q)' PROVE Undisturbed(q)
  <2> SUFFICES ASSUME NEW p \in 1 .. q PROVE answer[p].kind # "parse_failed"
    BY DEF Undisturbed
  <2>1. p \in QueryIds
    BY BackendAssumption DEF QueryIds, BackendAssumption
  <2>2. CASE p = query
    BY <2>2, NotResponses
  <2>3. CASE p # query
    <3>1. answer'[p] = answer[p]
      BY <1>1, <2>1, <2>3
    <3>2. answer'[p].kind # "parse_failed"
      BY <1>2 DEF Undisturbed
    <3> QED
      BY <3>1, <3>2
  <2> QED
    BY <2>2, <2>3
<1>3. query \in 1 .. query
  BY DEF QueryIds
<1> QED
  BY <1>1, <1>2, <1>3 DEF Undisturbed

(* A session without an answer of this step.                                *)
LEMMA AnswersKept ==
  ASSUME AnswersMatch, UNCHANGED answer PROVE AnswersMatch'
  BY DEF AnswersMatch, Undisturbed

(* The client's operations.                                                 *)
LEMMA OneOutPrepare == ASSUME SessionInv, Prepare PROVE OneOut' /\ AnswersMatch'
<1>1. Undisturbed(query)' => Undisturbed(query)
  <2>1. query \in Nat /\ query' = query + 1 /\ UNCHANGED answer
    BY BackendAssumption
       DEF SessionInv, TypeOK, Prepare, child_vars, BackendAssumption
  <2> QED
    BY <2>1 DEF Undisturbed
<1>2. OneOut'
  BY <1>1 DEF SessionInv, OneOut, Prepare, child_vars, QuietOut
<1> QED
  BY <1>2, AnswersKept DEF SessionInv, Prepare

(* query sends one line and then waits.                                     *)
LEMMA OneOutSend == ASSUME SessionInv, Send PROVE OneOut' /\ AnswersMatch'
<1>1. Undisturbed(query)' => Undisturbed(query)
  BY DEF Send, Undisturbed, child_vars
<1>2. ASSUME Undisturbed(query)' PROVE Requested'
  <2>1. QuietOut /\ stdin = <<>> /\ serving = 0
    BY <1>1, <1>2 DEF SessionInv, OneOut, Send
  <2> QED
    BY <2>1 DEF Send, Requested, QuietOut, child_vars
<1>3. OneOut'
  BY <1>2 DEF OneOut, Send
<1> QED
  BY <1>3, AnswersKept DEF SessionInv, Send

(* Errors are no responses.                                                 *)
LEMMA AnswersFailed ==
  ASSUME SessionInv, query \in QueryIds, answer[query] = NoAnswer,
         NEW e \in Errors, query' = query,
         answer' = [answer EXCEPT ![query] = Failed(e)]
  PROVE  AnswersMatch' /\ (Undisturbed(query)' => Undisturbed(query) /\ e # "parse_failed")
<1>1. Failed(e) \in Response \cup {Failed(x) : x \in Errors} /\ Failed(e).kind = e
  BY NotResponses
<1>2. /\ \A q \in QueryIds : Undisturbed(q)' => Undisturbed(q)
      /\ Undisturbed(query)' => Undisturbed(query) /\ e # "parse_failed"
  BY <1>1, AnswerStep
<1>3. ASSUME NEW q \in QueryIds, Undisturbed(q)', answer'[q].kind \in ResponseKinds
      PROVE  answer'[q].to = q
  <2>1. q # query
    BY <1>3, NotResponses DEF SessionInv, TypeOK
  <2>2. answer'[q] = answer[q]
    BY <2>1 DEF SessionInv, TypeOK
  <2> QED
    BY <1>2, <1>3, <2>2 DEF SessionInv, AnswersMatch
<1> QED
  BY <1>2, <1>3 DEF AnswersMatch

(* A write that fails ends the query: nothing is waited for.                *)
LEMMA OneOutSendFails == ASSUME SessionInv, SendFails PROVE OneOut' /\ AnswersMatch'
<1>1. /\ query \in QueryIds /\ answer[query] = NoAnswer
      /\ answer' = [answer EXCEPT ![query] = Failed("write_failed")]
      /\ UNCHANGED <<query, stdin, stdout, child, serving>>
      /\ client' = "idle" /\ client = "prepared" /\ child = "exited"
  BY DEF SessionInv, AnswersInOrder, SendFails, Return, child_vars
<1>2. AnswersMatch' /\ (Undisturbed(query)' => Undisturbed(query))
  BY <1>1, AnswersFailed DEF Errors
<1> QED
  BY <1>1, <1>2 DEF SessionInv, OneOut, QuietOut

(* The end of the output of a process that died is an error.                *)
LEMMA OneOutReadEnd == ASSUME SessionInv, ReadEnd PROVE OneOut' /\ AnswersMatch'
<1>1. /\ query \in QueryIds /\ answer[query] = NoAnswer
      /\ answer' = [answer EXCEPT ![query] = Failed("stopped")]
      /\ UNCHANGED <<query, stdin, stdout, child, serving>>
      /\ client' = "idle" /\ stdout = <<>> /\ child = "exited"
  BY DEF SessionInv, AnswersInOrder, ReadEnd, Return, child_vars
<1>2. AnswersMatch'
  BY <1>1, AnswersFailed DEF Errors
<1> QED
  BY <1>1, <1>2 DEF OneOut, QuietOut

(* The value read is the reply, after which there is only noise; or noise.  *)
LEMMA OneOutReadResponse ==
  ASSUME SessionInv, ReadResponse PROVE OneOut' /\ AnswersMatch'
<1>1. /\ query \in QueryIds /\ answer[query] = NoAnswer
      /\ UNCHANGED <<query, stdin, child, serving>>
      /\ client' = "idle" /\ client = "waiting"
      /\ stdout # <<>> /\ stdout' = Tail(stdout)
  BY DEF SessionInv, AnswersInOrder, ReadResponse, Return, child_vars
<1>2. /\ stdout \in Seq(Response \cup {Noise})
      /\ Len(stdout) \in Nat \ {0}
      /\ Head(stdout) = stdout[1] /\ 1 \in DOMAIN stdout
      /\ DOMAIN Tail(stdout) = 1 .. Len(stdout) - 1
      /\ \A k \in 1 .. Len(stdout) - 1 :
           Tail(stdout)[k] = stdout[k + 1] /\ k + 1 \in DOMAIN stdout
  BY <1>1 DEF SessionInv, TypeOK
<1>3. CASE Head(stdout) = Noise
  <2>1. answer' = [answer EXCEPT ![query] = Failed("parse_failed")]
    BY <1>3 DEF ReadResponse, Return
  <2>2. AnswersMatch' /\ ~Undisturbed(query)'
    BY <1>1, <2>1, AnswersFailed DEF Errors
  <2> QED
    BY <2>2 DEF OneOut
<1>4. CASE Head(stdout) # Noise
  <2>1. /\ Head(stdout) \in Response
        /\ answer' = [answer EXCEPT ![query] = Head(stdout)]
    BY <1>2, <1>4 DEF ReadResponse, Return
  <2>2. /\ \A q \in QueryIds : Undisturbed(q)' => Undisturbed(q)
        /\ Undisturbed(query)' => Undisturbed(query)
    BY <1>1, <2>1, AnswerStep
  <2>3. Undisturbed(query) => Replied
    BY <1>1, <1>2, <1>4 DEF SessionInv, OneOut, Requested, Served, QuietOut
  <2>4. ASSUME Undisturbed(query)'
        PROVE  QuietOut' /\ stdin' = <<>> /\ serving' = 0
    <3>1. \A k \in 1 .. Len(stdout) - 1 : Tail(stdout)[k] = Noise
      BY <1>2, <1>4, <2>2, <2>3, <2>4 DEF Replied
    <3> QED
      BY <1>1, <1>2, <2>2, <2>3, <2>4, <3>1 DEF QuietOut, Replied
  <2>5. ASSUME NEW q \in QueryIds, Undisturbed(q)', answer'[q].kind \in ResponseKinds
        PROVE  answer'[q].to = q
    <3>1. CASE q = query
      <4>1. answer'[q] = Head(stdout)
        BY <1>1, <2>1, <3>1 DEF SessionInv, TypeOK
      <4> QED
        BY <1>2, <1>4, <2>2, <2>3, <2>5, <3>1, <4>1 DEF Replied
    <3>2. CASE q # query
      <4>1. answer'[q] = answer[q]
        BY <2>1, <3>2 DEF SessionInv, TypeOK
      <4> QED
        BY <2>2, <2>5, <4>1 DEF SessionInv, AnswersMatch
    <3> QED
      BY <3>1, <3>2
  <2> QED
    BY <1>1, <2>4, <2>5 DEF OneOut, AnswersMatch
<1> QED
  BY <1>3, <1>4

(* Backend is dropped between queries.                                      *)
LEMMA OneOutClose == ASSUME SessionInv, Close PROVE OneOut' /\ AnswersMatch'
<1>1. /\ UNCHANGED <<query, answer, stdin, stdout, child, serving>>
      /\ client = "idle" /\ client' = "closed"
  BY DEF Close, child_vars
<1>2. OneOut'
  BY <1>1 DEF SessionInv, OneOut, QuietOut, Undisturbed
<1> QED
  BY <1>1, <1>2, AnswersKept DEF SessionInv

(* Stainless moves the request along.                                       *)
LEMMA OneOutTake == ASSUME SessionInv, Take PROVE OneOut' /\ AnswersMatch'
<1>1. /\ UNCHANGED <<client, query, answer, stdout, child>>
      /\ child = "alive" /\ stdin # <<>>
      /\ serving' = Head(stdin) /\ stdin' = Tail(stdin)
  BY DEF Take, client_vars
<1>2. ASSUME Undisturbed(query) PROVE client = "waiting" /\ Requested
  BY <1>1, <1>2 DEF SessionInv, OneOut, Served, Replied
<1>3. Requested => Served'
  BY <1>1 DEF Requested, Served, QuietOut
<1>4. OneOut'
  BY <1>1, <1>2, <1>3 DEF OneOut, Undisturbed
<1> QED
  BY <1>1, <1>4, AnswersKept DEF SessionInv

(* Stainless answers the lines in their order.                              *)
LEMMA OneOutRespond == ASSUME SessionInv, Respond PROVE OneOut' /\ AnswersMatch'
<1>1. /\ UNCHANGED <<client, query, answer, stdin, child>>
      /\ child = "alive" /\ serving # 0 /\ serving' = 0
  BY DEF Respond, client_vars
<1>2. PICK kind \in ResponseKinds :
        stdout' = Append(stdout, [to |-> serving, kind |-> kind])
  BY DEF Respond
<1>3. ASSUME Undisturbed(query) PROVE client = "waiting" /\ Served
  BY <1>1, <1>3 DEF SessionInv, OneOut, Requested, Replied
<1>4. /\ DOMAIN stdout' = 1 .. Len(stdout) + 1 /\ Len(stdout) \in Nat
      /\ DOMAIN stdout = 1 .. Len(stdout)
      /\ \A k \in DOMAIN stdout : stdout'[k] = stdout[k]
      /\ stdout'[Len(stdout) + 1].to = serving
  BY <1>2 DEF SessionInv, TypeOK
<1>5. ASSUME Served PROVE Replied'
  <2>1. \A k \in DOMAIN stdout' : k # Len(stdout) + 1 => stdout'[k] = Noise
    BY <1>4, <1>5 DEF Served, QuietOut
  <2> QED
    BY <1>1, <1>4, <1>5, <2>1 DEF Served, Replied
<1>6. OneOut'
  BY <1>1, <1>3, <1>5 DEF OneOut, Undisturbed
<1> QED
  BY <1>1, <1>6, AnswersKept DEF SessionInv

(* Noise delays the reply and is no reply.                                  *)
LEMMA OneOutChatter == ASSUME SessionInv, Chatter PROVE OneOut' /\ AnswersMatch'
<1>1. /\ UNCHANGED <<client, query, answer, stdin, child, serving>>
      /\ stdout' = Append(stdout, Noise)
  BY DEF Chatter, client_vars
<1>2. /\ DOMAIN stdout' = 1 .. Len(stdout) + 1 /\ Len(stdout) \in Nat
      /\ DOMAIN stdout = 1 .. Len(stdout)
      /\ \A k \in DOMAIN stdout : stdout'[k] = stdout[k]
      /\ stdout'[Len(stdout) + 1] = Noise
  BY <1>1 DEF SessionInv, TypeOK
<1>3. \A k \in DOMAIN stdout' : stdout'[k] = Noise \/ (k \in DOMAIN stdout /\ stdout'[k] = stdout[k])
  BY <1>2
<1>4. QuietOut => QuietOut'
  BY <1>3 DEF QuietOut
<1>5. Replied => Replied'
  BY <1>1, <1>3 DEF Replied
<1>6. OneOut'
  BY <1>1, <1>4, <1>5 DEF SessionInv, OneOut, Undisturbed, Requested, Served
<1> QED
  BY <1>1, <1>6, AnswersKept DEF SessionInv

(* The other steps move nothing.                                            *)
LEMMA OneOutStill ==
  ASSUME SessionInv, Load \/ Die \/ EndOfInput \/ UNCHANGED vars
  PROVE  OneOut' /\ AnswersMatch'
<1>1. /\ UNCHANGED <<client, query, answer, stdin, stdout, serving>>
      /\ child' = "alive" => child = "alive"
  BY DEF Load, Die, EndOfInput, vars, client_vars
<1>2. OneOut'
  BY <1>1 DEF SessionInv, OneOut, QuietOut, Undisturbed, Requested, Served, Replied
<1> QED
  BY <1>1, <1>2, AnswersKept DEF SessionInv

(* The invariant is inductive.                                              *)
LEMMA SessionStep == ASSUME SessionInv, [Next]_vars PROVE SessionInv'
<1>1. TypeOK' /\ FileOfQuery' /\ AnswersInOrder'
  BY SessionType, SessionBooks DEF SessionInv
<1>2. OneOut' /\ AnswersMatch'
  BY OneOutPrepare, OneOutSend, OneOutSendFails, OneOutReadResponse, OneOutReadEnd,
     OneOutClose, OneOutTake, OneOutRespond, OneOutChatter, OneOutStill
     DEF Next, ClientNext, Work
<1> QED
  BY <1>1, <1>2 DEF SessionInv

(* So it holds all along a session.                                         *)
LEMMA SessionInvariant == Spec => []SessionInv
<1>1. Init => SessionInv
  BY SessionInit
<1>2. SessionInv /\ [Next]_vars => SessionInv'
  BY SessionStep
<1> QED
  BY <1>1, <1>2, PTL DEF Spec

(* Backend::query: the value read is the answer to the query just sent.     *)
THEOREM SessionAnswersMatch == Spec => []AnswersMatch
<1>1. SessionInv => AnswersMatch
  BY DEF SessionInv
<1> QED
  BY <1>1, SessionInvariant, PTL

(* query_for_program: the file is there while Stainless may open it...      *)
THEOREM SessionFilePresent == Spec => []FilePresent
<1>1. SessionInv => FilePresent
  <2> SUFFICES ASSUME SessionInv, serving # 0, Undisturbed(query), child = "alive"
               PROVE  serving \in files
    BY DEF FilePresent
  <2>1. client = "waiting" /\ serving = query
    BY DEF SessionInv, OneOut, Requested, Served, Replied
  <2> QED
    BY <2>1 DEF SessionInv, FileOfQuery
<1> QED
  BY <1>1, SessionInvariant, PTL

(* ... and is deleted when the query returns, whatever it returns.          *)
THEOREM SessionFilesDeleted == Spec => []FilesDeleted
<1>1. SessionInv => FilesDeleted
  BY DEF SessionInv, FileOfQuery, FilesDeleted
<1> QED
  BY <1>1, SessionInvariant, PTL
=============================================================================
