------------------------------ MODULE WireProofs ------------------------------
(***************************************************************************)
(* Theorems about TxnWire, for any number of clients and statements.       *)
(*                                                                         *)
(* Types are kept whatever clients do.  Orderly clients take a backend     *)
(* through a cycle of five stages, and each stage says what is under way   *)
(* in either direction of its stream; a backend that fails breaks off at   *)
(* any of them, and three more say how its client gets rid of it:          *)
(* OrderlyInv.  That the proxy has no record of outstanding answers does   *)
(* no harm to orderly clients, since at no stage there are answers to more *)
(* than one query, and they cannot tell the pool from a backend each:      *)
(* PoolingIsTransparent.                                                   *)
(*                                                                         *)
(* The timers and the streams of Loop have their proofs in RelayProofs.    *)
(***************************************************************************)
EXTENDS Loop, SequenceTheorems, TLAPS

-----------------------------------------------------------------------------
(* The inductive invariant *)

\* No counter runs ahead of the statements sent, and the DEALLOCATE loop has
\* something left to read.
Counted ==
    /\ \A c \in Clients : prepared[c] <= sent /\ awaiting[c] <= sent
    /\ pc = "deallocate" => left > 0

Typed == WireTypeOK /\ Counted

Quiet == requests = <<>> /\ answers = <<>>
Clean == session = NewSession

\* The message that tells the backend's status, as it is, to the author of a
\* statement.
Message(by, type) == [by |-> by, type |-> type, status |-> session.status]

\* What c finds or leaves in the backend's session is its own.
Own(c) ==
    /\ session.settings \in {NoClient, c}
    /\ session.txn = IF session.status = "I" THEN NoClient ELSE c

\* Nobody has the backend, which has failed or is as new.
Parked ==
    /\ owner = NoClient /\ pc = "loop" /\ Quiet
    /\ session.status = "I" /\ (alive => Clean)

\* c is in a transaction, between two statements.
Between(c) ==
    pc = "loop" /\ Quiet /\ awaiting[c] = 0 /\ session.status # "I" /\ inTxn[c]

\* A statement of c is on its way to the backend.
Asked(c) ==
    /\ pc = "loop" /\ answers = <<>> /\ awaiting[c] = 1
    /\ session.status # "I" => inTxn[c]
    /\ \E sql \in {"select", "set", "begin", "commit", "bad"} :
          /\ requests = <<[by |-> c, sql |-> sql]>>
          /\ sql = "bad" => inTxn[c]

\* Its answer, or the second half of it, is on its way back.
Replied(c) ==
    /\ pc = "loop" /\ requests = <<>> /\ awaiting[c] = 1
    /\ session.status = "E" => inTxn[c]
    /\ \/ \E type \in {"C", "E"} :
             /\ answers = <<Message(c, type), Message(c, "Z")>>
             /\ type = "E" => inTxn[c]
       \/ answers = <<Message(c, "Z")>>

\* The reset query is on its way, or has worked and its answer comes back.
Resetting(c) ==
    /\ pc = "reset" /\ after = "settle" /\ awaiting[c] = 0 /\ session.status = "I"
    /\ \/ requests = <<[by |-> NoClient, sql |-> "reset"]>> /\ answers = <<>>
       \/ /\ requests = <<>> /\ Clean
          /\ \/ answers = <<Message(NoClient, "C"), Message(NoClient, "Z")>>
             \/ answers = <<Message(NoClient, "Z")>>

\* The backend has failed, and of its answer to c the end is missing.
Broken(c) ==
    /\ pc = "loop"
    /\ \/ \E type \in {"C", "E"} :
             /\ answers = <<Message(c, type)>> /\ awaiting[c] = 1
             /\ type = "E" => inTxn[c]
       \/ answers = <<>> /\ (awaiting[c] = 0 /\ session.status # "I" => inTxn[c])

\* The reset of a backend that has failed: nothing is executed any more.
InVain(c) ==
    /\ pc \in {"reset", "failed"} /\ after = "settle" /\ awaiting[c] = 0
    /\ session.status = "I"
    /\ \/ answers = <<>>
       \/ pc = "reset" /\ answers = <<Message(NoClient, "C"), Message(NoClient, "Z")>>
       \/ pc = "reset" /\ \E type \in {"C", "Z"} : answers = <<Message(NoClient, type)>>

\* c's loop has ended because its backend failed.
Closing(c) ==
    pc \in {"reset", "failed"} /\ after = "close" /\ answers = <<>> /\ c \in gone

Served(c) ==
    alive /\ c \notin gone /\ Own(c) /\ (Between(c) \/ Asked(c) \/ Replied(c) \/ Resetting(c))

Failed(c) ==
    ~alive /\ (Closing(c) \/ (c \notin gone /\ (Replied(c) \/ Broken(c) \/ InVain(c))))

\* Only the owner of the backend has anything under way; if a reset failed,
\* its client's flag is left as it was.
OthersRest ==
    \A c \in Clients \ gone :
        c # owner => awaiting[c] = 0 /\ (failures = 0 => ~inTxn[c])

OrderlyInv ==
    Orderly => /\ \A c \in Clients : prepared[c] = 0
               /\ OthersRest
               /\ ~alive => requests = <<>> /\ failures > 0
               /\ Parked \/ (owner \in Clients /\ (Served(owner) \/ Failed(owner)))

-----------------------------------------------------------------------------
(* Short sequences *)

LEMMA Short ==
    ASSUME NEW a, NEW b
    PROVE  /\ <<a>> # <<>> /\ <<a, b>> # <<>>
           /\ Head(<<a>>) = a /\ Head(<<a, b>>) = a
           /\ Tail(<<a>>) = <<>> /\ Tail(<<a, b>>) = <<b>>
           /\ Append(<<>>, a) = <<a>>
           /\ <<>> \o <<a, b>> = <<a, b>>
PROOF
OBVIOUS

LEMMA HeadTail ==
    ASSUME NEW S, NEW q \in Seq(S), q # <<>>
    PROVE  Head(q) \in S /\ Tail(q) \in Seq(S)
PROOF
OBVIOUS

\* What arrives of a sequence whose end is lost.
LEMMA Cut ==
    ASSUME NEW S, NEW q \in Seq(S), NEW n \in 0..Len(q)
    PROVE  SubSeq(q, 1, n) \in Seq(S)
PROOF
OBVIOUS

LEMMA CutShort ==
    ASSUME NEW a, NEW b, NEW q, NEW n \in 0..Len(q)
    PROVE  /\ q = <<>> => SubSeq(q, 1, n) = <<>>
           /\ q = <<a>> => SubSeq(q, 1, n) \in {<<>>, <<a>>}
           /\ q = <<a, b>> => SubSeq(q, 1, n) \in {<<>>, <<a>>, <<a, b>>}
PROOF
<1>1. SubSeq(q, 1, 0) = <<>>
      BY SubSeqEmpty
<1>2. ASSUME NEW S, q \in Seq(S) PROVE SubSeq(q, 1, Len(q)) = q
      BY <1>2, SubSeqFull
<1>3. CASE q = <<>>
  <2>1. n = 0
        BY <1>3
  <2> QED BY <1>1, <1>3, <2>1
<1>4. CASE q = <<a>>
  <2>1. n \in {0, 1} /\ Len(q) = 1 /\ q \in Seq({a})
        BY <1>4
  <2> QED BY <1>1, <1>2, <1>4, <2>1
<1>5. CASE q = <<a, b>>
  <2>1. n \in {0, 1, 2} /\ Len(q) = 2 /\ q \in Seq({a, b}) /\ q[1] = a
        BY <1>5
  <2>2. SubSeq(q, 1, 1) = SubSeq(q, 1, 0) \o <<q[1]>>
        BY <2>1, SubSeqRecursiveSecond
  <2>3. SubSeq(q, 1, 1) = <<a>>
    <3>1. <<>> \o <<a>> = <<a>>
          OBVIOUS
    <3> QED BY <1>1, <2>1, <2>2, <3>1
  <2> QED BY <1>1, <1>2, <1>5, <2>1, <2>3
<1> QED BY <1>3, <1>4, <1>5, Short

-----------------------------------------------------------------------------
(* Types *)

LEMMA Bounds == MaxFailures \in Nat
PROOF
BY WireAssumption

LEMMA TypedInit == Init => Typed
PROOF
<1> SUFFICES ASSUME Init PROVE Typed
    OBVIOUS
<1>1. MaxSent[habits] \in Nat
      BY WireAssumption DEF Init, Profiles
<1>2. failures \in 0..MaxFailures
      BY Bounds DEF Init
<1>3. session \in Sessions
      BY DEF Init, Sessions, NewSession
<1>4. /\ prepared \in [Clients -> 0..MaxSent[habits]]
      /\ awaiting \in [Clients -> 0..MaxSent[habits]]
      /\ \A c \in Clients : prepared[c] = 0 /\ awaiting[c] = 0
      BY <1>1 DEF Init
<1> QED BY <1>1, <1>2, <1>3, <1>4 DEF Init, Typed, WireTypeOK, Counted

LEMMA ExecuteTyped ==
    ASSUME Typed, Execute
    PROVE  Typed'
PROOF
<1> USE DEF Typed, WireTypeOK
<1>1. /\ Head(requests) \in Requests /\ Tail(requests) \in Seq(Requests)
      BY HeadTail DEF Execute
<1>2. PICK r \in Requests : r = Head(requests)
      BY <1>1
<1>3. Leaves(session, r) \in Sessions
      BY <1>2 DEF Leaves, Sessions, Requests
<1>4. session' = Leaves(session, r)
      BY <1>2 DEF Execute
<1>5. PICK m1 \in Answers, m2 \in Answers : answers' = answers \o <<m1, m2>>
  <2> DEFINE m(type) == [by |-> r.by, type |-> type, status |-> Leaves(session, r).status]
  <2>1. Leaves(session, r).status \in {"I", "T", "E"} /\ r.by \in Clients \union {NoClient}
        BY <1>2, <1>3 DEF Sessions, Requests
  <2>2. m("C") \in Answers /\ m("E") \in Answers /\ m("Z") \in Answers
        BY <2>1 DEF Answers
  <2>3. answers' = answers \o <<m(IF Succeeds(session, r) THEN "C" ELSE "E"), m("Z")>>
        BY <1>2 DEF Execute, AnswersTo
  <2> QED BY <2>2, <2>3
<1>6. answers' \in Seq(Answers)
      BY <1>5
<1> QED BY <1>1, <1>3, <1>4, <1>6 DEF Execute, handlerVars, clientVars, Counted

LEMMA StatementTyped ==
    ASSUME NEW by \in Clients \union {NoClient},
           NEW sql \in ClientSql \union PoolSql \union {"terminate"}
    PROVE  Statement(by, sql) \in Seq(Requests)
PROOF
<1>1. [by |-> by, sql |-> sql] \in Requests
      BY DEF Requests
<1> QED BY <1>1 DEF Statement

LEMMA WriteTyped ==
    ASSUME Typed, NEW messages \in Seq(Requests), Write(messages)
    PROVE  requests' \in Seq(Requests)
PROOF
BY DEF Typed, WireTypeOK, Write

LEMMA BeginResetTyped ==
    ASSUME Typed, NEW before \in Seq(Requests), NEW why \in {"settle", "error", "close"},
           BeginReset(before, why)
    PROVE  /\ requests' \in Seq(Requests)
           /\ pc' \in {"reset", "failed"} /\ after' \in {"settle", "error", "close"}
PROOF
<1>1. Statement(NoClient, "reset") \in Seq(Requests)
      BY StatementTyped DEF PoolSql
<1>2. before \o Statement(NoClient, "reset") \in Seq(Requests)
      BY <1>1
<1> QED BY <1>2, WriteTyped DEF BeginReset, Typed, WireTypeOK

LEMMA TerminatedTyped ==
    ASSUME Typed, Terminated
    PROVE  Typed'
PROOF
<1>1. <<>> \in Seq(Requests)
      OBVIOUS
<1> QED BY <1>1 DEF Typed, WireTypeOK, Counted, Terminated, Close, handlerVars, clientVars

LEMMA FailsTyped ==
    ASSUME Typed, Fails
    PROVE  Typed'
PROOF
<1> USE DEF Typed, WireTypeOK
<1>1. answers' \in Seq(Answers)
      BY Cut DEF Fails
<1>2. failures' \in 0..MaxFailures
      BY Bounds DEF Fails
<1>3. alive' = FALSE /\ requests' = <<>> /\ requests' \in Seq(Requests)
      BY DEF Fails, Close
<1> QED BY <1>1, <1>2, <1>3 DEF Fails, Counted, handlerVars, clientVars

LEMMA SendTyped ==
    ASSUME Typed, NEW c \in Clients, NEW sql \in ClientSql, Send(c, sql)
    PROVE  Typed'
PROOF
<1> USE DEF Typed, WireTypeOK
<1>1. /\ requests' \in Seq(Requests)
      /\ pc' \in {"loop", "reset", "failed"} /\ after' \in {"settle", "error", "close"}
      /\ gone' \subseteq Clients
  <2>1. Statement(c, sql) \in Seq(Requests) /\ <<>> \in Seq(Requests)
        BY StatementTyped
  <2>2. CASE Write(Statement(c, sql)) /\ UNCHANGED <<pc, after, gone>>
        BY <2>1, <2>2, WriteTyped DEF Send
  <2>3. CASE BeginReset(<<>>, "close") /\ gone' = gone \union {c}
        BY <2>1, <2>3, BeginResetTyped
  <2> QED BY <2>2, <2>3 DEF Send
<1>2. PICK max \in Nat : max = MaxSent[habits] /\ habits' = habits
      BY WireAssumption DEF Send, Profiles
<1>3. sent' = sent + 1 /\ sent' \in 0..max
      BY <1>2 DEF Send
<1>4. Names(prepared[c], sql) \in 0..(sent + 1) /\ awaiting[c] + 1 \in 0..(sent + 1)
  <2>1. /\ sent \in Nat /\ prepared[c] \in Nat /\ awaiting[c] \in Nat
        /\ prepared[c] <= sent /\ awaiting[c] <= sent
        BY <1>2 DEF Counted
  <2>2. Names(prepared[c], sql) \in 0..(prepared[c] + 1)
        BY <2>1 DEF Names
  <2> QED BY <2>1, <2>2
<1>5. prepared' \in [Clients -> 0..max] /\ awaiting' \in [Clients -> 0..max]
  <2>1. /\ prepared \in [Clients -> 0..max] /\ awaiting \in [Clients -> 0..max]
        /\ sent \in 0..max
        BY <1>2
  <2>2. /\ prepared' = [prepared EXCEPT ![c] = Names(@, sql)]
        /\ awaiting' = [awaiting EXCEPT ![c] = @ + 1]
        BY DEF Send
  <2>3. Names(prepared[c], sql) \in 0..max /\ awaiting[c] + 1 \in 0..max
        BY <1>3, <1>4, <2>1
  <2> QED BY <2>1, <2>2, <2>3
<1>6. inTxn' \in [Clients -> BOOLEAN]
      BY DEF Send
<1>7. \A d \in Clients : prepared'[d] <= sent' /\ awaiting'[d] <= sent'
      BY <1>2, <1>3, <1>4 DEF Send, Counted
<1> QED BY <1>1, <1>2, <1>3, <1>5, <1>6, <1>7 DEF Send, Counted

LEMMA ForwardTyped ==
    ASSUME Typed, NEW c \in Clients, Forward(c)
    PROVE  Typed'
PROOF
<1> USE DEF Typed, WireTypeOK
<1>1. PICK max \in Nat : max = MaxSent[habits] /\ habits' = habits
      BY WireAssumption DEF Forward, Profiles
<1>2. Head(answers) \in Answers /\ answers' \in Seq(Answers)
      BY HeadTail DEF Forward
<1>3. /\ awaiting' \in [Clients -> 0..max]
      /\ \A d \in Clients : awaiting'[d] <= awaiting[d]
  <2>1. \/ awaiting' = awaiting
        \/ awaiting' = [awaiting EXCEPT ![c] = @ - 1] /\ awaiting[c] > 0
        BY DEF Forward, Deliver
  <2>2. \A n \in 0..max : n > 0 => n - 1 \in 0..max /\ n - 1 <= n
        BY <1>1
  <2>3. /\ awaiting \in [Clients -> 0..max]
        /\ \A d \in Clients : awaiting[d] \in Nat
        BY <1>1
  <2>4. CASE awaiting' = awaiting
        BY <2>3, <2>4
  <2>5. CASE awaiting' = [awaiting EXCEPT ![c] = @ - 1] /\ awaiting[c] > 0
    <3>1. awaiting[c] - 1 \in 0..max /\ awaiting[c] - 1 <= awaiting[c]
          BY <2>2, <2>3, <2>5
    <3> QED BY <2>3, <2>5, <3>1
  <2> QED BY <2>1, <2>4, <2>5
<1>4. /\ requests' \in Seq(Requests)
      /\ pc' \in {"loop", "reset", "failed"} /\ after' \in {"settle", "error", "close"}
  <2>1. <<>> \in Seq(Requests)
        OBVIOUS
  <2>2. \/ BeginReset(<<>>, "settle") \/ BeginReset(<<>>, "error")
        \/ UNCHANGED <<requests, pc, after>>
        BY DEF Forward
  <2> QED BY <2>1, <2>2, BeginResetTyped DEF Forward
<1>5. inTxn' \in [Clients -> BOOLEAN]
      BY DEF Forward
<1>6. \A d \in Clients : prepared'[d] <= sent' /\ awaiting'[d] <= sent'
      BY <1>1, <1>3 DEF Forward, Counted
<1> QED BY <1>1, <1>2, <1>3, <1>4, <1>5, <1>6 DEF Forward, Counted

LEMMA ReadResetTyped ==
    ASSUME Typed, NEW c \in Clients, ReadReset(c)
    PROVE  Typed'
PROOF
<1> USE DEF Typed, WireTypeOK
<1>1. PICK max \in Nat : max = MaxSent[habits] /\ habits' = habits
      BY WireAssumption DEF ReadReset, Profiles
<1>2. answers' \in Seq(Answers)
      BY HeadTail DEF ReadReset
<1>3. requests' \in Seq(Requests)
  <2>1. Statement(NoClient, "deallocate") \in Seq(Requests)
        BY StatementTyped DEF PoolSql
  <2> QED BY <2>1, WriteTyped DEF ReadReset
<1>4. /\ prepared' \in [Clients -> 0..max] /\ \A d \in Clients : prepared'[d] <= prepared[d]
      /\ inTxn' \in [Clients -> BOOLEAN]
      /\ left' \in 0..max /\ (pc' = "deallocate" => left' > 0)
      /\ owner' \in Clients \union {NoClient}
      /\ pc' \in {"loop", "reset", "deallocate"} /\ after' = after
  <2>1. /\ owner' \in Clients \union {NoClient}
        /\ pc' \in {"loop", "reset", "deallocate"} /\ after' = after
        BY DEF ReadReset, handlerVars, Park
  <2>2. prepared' = prepared \/ prepared' = [prepared EXCEPT ![c] = 0]
        BY DEF ReadReset, handlerVars, ForgetSession
  <2>3. inTxn' = inTxn \/ inTxn' = [inTxn EXCEPT ![c] = FALSE]
        BY DEF ReadReset, handlerVars, ForgetSession
  <2>4. left' \in 0..max /\ (pc' = "deallocate" => left' > 0)
        BY <1>1 DEF ReadReset, handlerVars, Park, Counted
  <2>5. prepared' \in [Clients -> 0..max] /\ \A d \in Clients : prepared'[d] <= prepared[d]
    <3>1. prepared \in [Clients -> 0..max]
          BY <1>1
    <3>2. \A d \in Clients : prepared[d] \in 0..max /\ 0 \in 0..max
          BY <3>1
    <3>3. CASE prepared' = prepared
          BY <3>1, <3>2, <3>3
    <3>4. CASE prepared' = [prepared EXCEPT ![c] = 0]
          BY <3>1, <3>2, <3>4
    <3> QED BY <2>2, <3>3, <3>4
  <2>6. inTxn' \in [Clients -> BOOLEAN]
        BY <2>3
  <2> QED BY <2>1, <2>4, <2>5, <2>6
<1>5. UNCHANGED <<habits, session, alive, failures, awaiting, gone, sent>>
      BY DEF ReadReset, clientVars
<1>6. \A d \in Clients : prepared'[d] <= sent' /\ awaiting'[d] <= sent'
      BY <1>1, <1>4, <1>5 DEF Counted
<1> QED BY <1>1, <1>2, <1>3, <1>4, <1>5, <1>6 DEF Counted

LEMMA ReadDeallocateTyped ==
    ASSUME Typed, NEW c \in Clients, ReadDeallocate(c)
    PROVE  Typed'
PROOF
<1> USE DEF Typed, WireTypeOK
<1>1. PICK max \in Nat : max = MaxSent[habits] /\ habits' = habits
      BY WireAssumption DEF ReadDeallocate, Profiles
<1>2. answers' \in Seq(Answers)
      BY HeadTail DEF ReadDeallocate
<1>3. requests' \in Seq(Requests)
  <2>1. Statement(NoClient, "deallocate") \in Seq(Requests)
        BY StatementTyped DEF PoolSql
  <2> QED BY <2>1, WriteTyped DEF ReadDeallocate
<1>4. /\ prepared' \in [Clients -> 0..max] /\ \A d \in Clients : prepared'[d] <= prepared[d]
      /\ inTxn' \in [Clients -> BOOLEAN]
      /\ left' \in 0..max /\ (pc' = "deallocate" => left' > 0)
      /\ owner' \in Clients \union {NoClient}
      /\ pc' \in {"loop", "reset", "deallocate"} /\ after' = after
  <2>1. /\ owner' \in Clients \union {NoClient}
        /\ pc' \in {"loop", "reset", "deallocate"} /\ after' = after
        BY DEF ReadDeallocate, Park
  <2>2. prepared' = prepared \/ prepared' = [prepared EXCEPT ![c] = 0]
        BY DEF ReadDeallocate, ForgetSession
  <2>3. inTxn' = inTxn \/ inTxn' = [inTxn EXCEPT ![c] = FALSE]
        BY DEF ReadDeallocate, ForgetSession
  <2>4. left' \in 0..max /\ (pc' = "deallocate" => left' > 0)
        BY <1>1 DEF ReadDeallocate, Park, Counted
  <2>5. prepared' \in [Clients -> 0..max] /\ \A d \in Clients : prepared'[d] <= prepared[d]
    <3>1. prepared \in [Clients -> 0..max]
          BY <1>1
    <3>2. \A d \in Clients : prepared[d] \in 0..max /\ 0 \in 0..max
          BY <3>1
    <3>3. CASE prepared' = prepared
          BY <3>1, <3>2, <3>3
    <3>4. CASE prepared' = [prepared EXCEPT ![c] = 0]
          BY <3>1, <3>2, <3>4
    <3> QED BY <2>2, <3>3, <3>4
  <2>6. inTxn' \in [Clients -> BOOLEAN]
        BY <2>3
  <2> QED BY <2>1, <2>4, <2>5, <2>6
<1>5. UNCHANGED <<habits, session, alive, failures, awaiting, gone, sent>>
      BY DEF ReadDeallocate, clientVars
<1>6. \A d \in Clients : prepared'[d] <= sent' /\ awaiting'[d] <= sent'
      BY <1>1, <1>4, <1>5 DEF Counted
<1> QED BY <1>1, <1>2, <1>3, <1>4, <1>5, <1>6 DEF Counted

LEMMA ResetFailsTyped ==
    ASSUME Typed, NEW c \in Clients, ResetFails(c)
    PROVE  Typed'
PROOF
<1> USE DEF Typed, WireTypeOK
<1>1. NewSession \in Sessions /\ <<>> \in Seq(Requests) /\ <<>> \in Seq(Answers)
      BY DEF Sessions, NewSession
<1>2. UNCHANGED wireVars \/ (UNCHANGED failures /\ requests' = <<>> /\ answers' = <<>>
                              /\ session' = NewSession /\ alive' = TRUE)
      BY DEF ResetFails
<1>3. /\ requests' \in Seq(Requests) /\ answers' \in Seq(Answers) /\ session' \in Sessions
      /\ alive' \in BOOLEAN /\ failures' \in 0..MaxFailures
      BY <1>1, <1>2 DEF wireVars
<1>4. owner' = NoClient /\ pc' = "loop"
      BY DEF ResetFails, Park
<1>5. UNCHANGED <<habits, after, inTxn, prepared, left, awaiting, gone, sent>>
      BY DEF ResetFails, clientVars
<1> QED BY <1>3, <1>4, <1>5 DEF Counted

LEMMA ServerEndsTyped ==
    ASSUME Typed, NEW c \in Clients, ServerEnds(c)
    PROVE  Typed'
PROOF
<1> USE DEF Typed, WireTypeOK
<1>1. /\ requests' \in Seq(Requests)
      /\ pc' \in {"reset", "failed"} /\ after' \in {"settle", "error", "close"}
  <2>1. <<>> \in Seq(Requests)
        OBVIOUS
  <2> QED BY <2>1, BeginResetTyped DEF ServerEnds
<1> QED BY <1>1 DEF ServerEnds, Counted

LEMMA LeaveTyped ==
    ASSUME Typed, NEW c \in Clients, Leave(c)
    PROVE  Typed'
PROOF
<1> USE DEF Typed, WireTypeOK
<1>1. /\ requests' \in Seq(Requests)
      /\ pc' \in {"reset", "failed", pc} /\ after' \in {"settle", "error", "close"}
  <2>1. ASSUME NEW last \in {<<>>, Statement(c, "terminate")} PROVE last \in Seq(Requests)
    <3>1. Statement(c, "terminate") \in Seq(Requests) /\ <<>> \in Seq(Requests)
          BY StatementTyped
    <3> QED BY <2>1, <3>1
  <2> QED BY <2>1, BeginResetTyped DEF Leave
<1> QED BY <1>1 DEF Leave, Counted

LEMMA TypedNext == Typed /\ [Next]_vars => Typed'
PROOF
<1>1. Typed /\ UNCHANGED vars => Typed'
      BY DEF vars, wireVars, handlerVars, clientVars, Typed, WireTypeOK, Counted
<1> QED BY <1>1, ExecuteTyped, TerminatedTyped, FailsTyped, SendTyped, ForwardTyped,
           ServerEndsTyped, ReadResetTyped, ResetFailsTyped, ReadDeallocateTyped, LeaveTyped
        DEF Next, Serve, Handle

\* Variables keep their types, whatever clients do.
THEOREM WireTypes == Spec => []Typed
PROOF
BY TypedInit, TypedNext, PTL DEF Spec

-----------------------------------------------------------------------------
(* The stages of orderly clients *)

LEMMA OrderlyInit == Init => OrderlyInv
PROOF
BY DEF Init, OrderlyInv, OthersRest, Parked, Quiet, Clean, NewSession

\* An orderly client sends when nothing is under way.
LEMMA SendFindsQuiet ==
    ASSUME Typed, OrderlyInv, Orderly, NEW c \in Clients, NEW sql \in ClientSql, Send(c, sql)
    PROVE  /\ c # NoClient /\ c \notin gone
           /\ owner \in {c, NoClient} /\ pc = "loop" /\ awaiting[c] = 0 /\ Quiet
           /\ Parked \/ (owner = c /\ (Served(c) \/ Failed(c)))
PROOF
<1>1. c # NoClient /\ c \notin gone /\ owner \in {c, NoClient} /\ pc = "loop" /\ awaiting[c] = 0
      BY WireAssumption DEF Send, Orderly
<1>2. CASE Parked
      BY <1>1, <1>2 DEF Parked
<1>3. CASE owner \in Clients /\ (Served(owner) \/ Failed(owner))
  <2>1. owner = c
        BY <1>1, <1>3, WireAssumption
  <2>2. CASE Served(c)
        BY <1>1, <2>1, <2>2 DEF Served, Between, Asked, Replied, Resetting
  <2>3. CASE Failed(c)
    <3>1. Broken(c) /\ answers = <<>> /\ requests = <<>>
          BY <1>1, <2>3 DEF Failed, Closing, Replied, Broken, InVain, OrderlyInv
    <3> QED BY <1>1, <2>1, <2>3, <3>1 DEF Quiet
  <2> QED BY <1>3, <2>1, <2>2, <2>3
<1> QED BY <1>2, <1>3 DEF OrderlyInv

\* Its statement is then all there is, unless the backend has failed.
LEMMA SendOrderly ==
    ASSUME Typed, OrderlyInv, Orderly, NEW c \in Clients, NEW sql \in ClientSql, Send(c, sql)
    PROVE  OrderlyInv'
PROOF
<1>1. /\ owner \in {c, NoClient} /\ pc = "loop" /\ awaiting[c] = 0 /\ Quiet
      /\ c # NoClient /\ c \notin gone
      BY SendFindsQuiet
<1>2. sql \in {"select", "set", "begin", "commit", "bad"} /\ (sql = "bad" => inTxn[c])
      BY DEF Send, Orderly, ClientSql
<1>3. /\ owner' = c /\ answers' = <<>>
      /\ UNCHANGED <<session, alive, failures>>
      BY <1>1 DEF Send, Quiet
<1>4. awaiting'[c] = 1 /\ (inTxn[c] => inTxn'[c])
      BY <1>1 DEF Send, Typed, WireTypeOK
<1>5. \A d \in Clients : d # c => awaiting'[d] = awaiting[d] /\ inTxn'[d] = inTxn[d]
      BY DEF Send, Typed, WireTypeOK
<1>6. OthersRest'
  <2>1. \A d \in Clients : d # c => d # owner
        BY <1>1, WireAssumption
  <2>2. gone \subseteq gone'
        BY DEF Send
  <2> QED BY <1>3, <1>5, <2>1, <2>2 DEF OrderlyInv, OthersRest
<1>7. \A d \in Clients : prepared'[d] = 0
      BY <1>2 DEF OrderlyInv, Send, Names, Typed, WireTypeOK
<1>8. CASE alive
  <2>1. /\ pc' = "loop" /\ gone' = gone
        /\ requests' = <<[by |-> c, sql |-> sql]>>
        BY <1>1, <1>8, Short DEF Send, Write, Statement, Quiet
  <2>2. Own(c) /\ (session.status # "I" => inTxn[c])
    <3>1. CASE Parked
          BY <1>8, <3>1 DEF Parked, Clean, NewSession, Own
    <3>2. CASE owner = c /\ Served(c)
          BY <1>1, <3>2 DEF Served, Between, Asked, Replied, Resetting
    <3> QED BY <1>8, <3>1, <3>2, SendFindsQuiet DEF Failed
  <2>3. Asked(c)' /\ Own(c)'
        BY <1>2, <1>3, <1>4, <2>1, <2>2 DEF Asked, Own
  <2> QED BY <1>1, <1>3, <1>6, <1>7, <1>8, <2>1, <2>3 DEF OrderlyInv, Served
<1>9. CASE ~alive
  <2>1. requests' = <<>> /\ failures > 0
        BY <1>1, <1>9 DEF Send, Write, BeginReset, Quiet, OrderlyInv
  <2>2. ASSUME UNCHANGED <<pc, gone>> PROVE Failed(c)'
    <3>1. Broken(c)'
          BY <1>1, <1>3, <1>4, <2>2 DEF Broken
    <3> QED BY <1>1, <1>3, <1>9, <2>2, <3>1 DEF Failed
  <2>3. ASSUME BeginReset(<<>>, "close"), gone' = gone \union {c} PROVE Failed(c)'
    <3>1. Closing(c)'
          BY <1>3, <2>3 DEF BeginReset, Closing
    <3> QED BY <1>3, <1>9, <3>1 DEF Failed
  <2>4. Failed(c)'
        BY <2>2, <2>3 DEF Send
  <2> QED BY <1>3, <1>6, <1>7, <2>1, <2>4 DEF OrderlyInv
<1> QED BY <1>8, <1>9

\* Whatever c asked, the backend answers in c's session, and says so.
LEMMA StatementExecuted ==
    ASSUME Typed, OrderlyInv, Orderly, NEW c \in Clients, owner = c, Asked(c), Own(c), Execute
    PROVE  Own(c)' /\ Replied(c)'
PROOF
<1>1. PICK sql \in {"select", "set", "begin", "commit", "bad"} :
          requests = <<[by |-> c, sql |-> sql]>> /\ (sql = "bad" => inTxn[c])
      BY DEF Asked
<1> DEFINE r == [by |-> c, sql |-> sql]
<1>2. Head(requests) = r /\ requests' = <<>>
      BY <1>1, Short DEF Execute
<1>3. session' = Leaves(session, r)
      BY <1>2 DEF Execute
<1>4. ASSUME NEW type, type = IF Succeeds(session, r) THEN "C" ELSE "E"
      PROVE  answers' = <<Message(c, type)', Message(c, "Z")'>>
  <2> DEFINE m(x) == [by |-> r.by, type |-> x, status |-> session'.status]
  <2>1. answers' = answers \o <<m(type), m("Z")>>
    <3> HIDE DEF r
    <3> QED BY <1>2, <1>3, <1>4 DEF Execute, AnswersTo
  <2>2. answers = <<>> /\ r.by = c
        BY DEF Asked
  <2>3. answers' = <<m(type), m("Z")>>
    <3> HIDE DEF m, r
    <3> QED BY <2>1, <2>2, Short
  <2> QED BY <2>2, <2>3 DEF Message
<1>5. session \in Sessions
      BY DEF Typed, WireTypeOK
<1>6. Own(c)' /\ (session'.status = "E" => ~Succeeds(session, r) \/ session.status = "E")
      BY <1>1, <1>3, <1>5 DEF Own, Leaves, Succeeds, Sessions
<1>7. ~Succeeds(session, r) => session.status = "E" \/ inTxn[c]
      BY <1>1 DEF Succeeds
<1>8. UNCHANGED <<pc, awaiting, inTxn>>
      BY DEF Execute, handlerVars, clientVars
<1>9. (session'.status = "E" \/ ~Succeeds(session, r)) => inTxn'[c]
      BY <1>5, <1>6, <1>7, <1>8 DEF Asked
<1>10. PICK type \in {"C", "E"} :
           /\ answers' = <<Message(c, type)', Message(c, "Z")'>>
           /\ type = "E" => inTxn'[c]
  <2>1. CASE Succeeds(session, r)
        BY <1>4, <2>1
  <2>2. CASE ~Succeeds(session, r)
        BY <1>4, <1>9, <2>2
  <2> QED BY <2>1, <2>2
<1>11. pc' = "loop" /\ awaiting'[c] = 1
       BY <1>8 DEF Asked
<1> QED BY <1>2, <1>6, <1>9, <1>10, <1>11 DEF Replied

\* DISCARD ALL is executed outside a transaction, where it works.
LEMMA ResetExecuted ==
    ASSUME Typed, NEW c \in Clients, Resetting(c), Own(c), Execute
    PROVE  Own(c)' /\ Resetting(c)'
PROOF
<1> DEFINE r == [by |-> NoClient, sql |-> "reset"]
<1>1. requests = <<r>> /\ answers = <<>> /\ Head(requests) = r /\ requests' = <<>>
      BY Short DEF Resetting, Execute
<1>2. Succeeds(session, r) /\ session' = [session EXCEPT !.settings = NoClient]
      BY <1>1 DEF Execute, Succeeds, Leaves, Resetting
<1>3. answers' = <<Message(NoClient, "C")', Message(NoClient, "Z")'>>
      BY <1>1, <1>2, Short DEF Execute, AnswersTo, Message
<1>4. Clean' /\ Own(c)' /\ session'.status = "I"
      BY <1>2 DEF Clean, NewSession, Own, Resetting, Typed, WireTypeOK, Sessions
<1>5. UNCHANGED <<pc, after, awaiting>>
      BY DEF Execute, handlerVars, clientVars
<1> QED BY <1>1, <1>3, <1>4, <1>5 DEF Resetting

LEMMA ExecuteOrderly ==
    ASSUME Typed, OrderlyInv, Orderly, Execute
    PROVE  OrderlyInv'
PROOF
<1>1. UNCHANGED <<alive, failures, owner, pc, after, inTxn, prepared, awaiting, gone>>
      BY DEF Execute, handlerVars, clientVars
<1>2. requests # <<>> /\ alive
      BY DEF Execute, OrderlyInv
<1>3. owner \in Clients /\ Served(owner)
      BY <1>2 DEF OrderlyInv, Parked, Quiet, Failed
<1>4. PICK c \in Clients : c = owner
      BY <1>3
<1>5. Asked(c) \/ Resetting(c)
      BY <1>2, <1>3, <1>4 DEF Served, Between, Quiet, Replied
<1>6. Own(c)' /\ (Replied(c)' \/ Resetting(c)')
      BY <1>3, <1>4, <1>5, StatementExecuted, ResetExecuted DEF Served
<1>7. Served(c)'
      BY <1>1, <1>3, <1>4, <1>6 DEF Served
<1> QED BY <1>1, <1>2, <1>4, <1>7 DEF OrderlyInv, OthersRest

\* A message of the backend is half of an answer, or all there is.
LEMMA ForwardFindsAnswer ==
    ASSUME Typed, OrderlyInv, Orderly, NEW c \in Clients, Forward(c)
    PROVE  /\ owner = c /\ c # NoClient /\ c \notin gone
           /\ pc = "loop" /\ requests = <<>> /\ answers # <<>> /\ awaiting[c] = 1
           /\ Replied(c) \/ (~alive /\ Broken(c))
           /\ alive => Own(c)
PROOF
<1>1. owner = c /\ pc = "loop" /\ answers # <<>> /\ c # NoClient
      BY WireAssumption DEF Forward
<1>2. Served(c) \/ Failed(c)
      BY <1>1 DEF OrderlyInv, Parked
<1>3. CASE Served(c)
  <2>1. Replied(c)
        BY <1>1, <1>3 DEF Served, Between, Quiet, Asked, Resetting
  <2> QED BY <1>1, <1>3, <2>1 DEF Served, Replied
<1>4. CASE Failed(c)
  <2>1. c \notin gone /\ ~alive /\ (Replied(c) \/ Broken(c))
        BY <1>1, <1>4 DEF Failed, Closing, InVain
  <2>2. requests = <<>> /\ awaiting[c] = 1
        BY <1>1, <2>1 DEF OrderlyInv, Replied, Broken
  <2> QED BY <1>1, <2>1, <2>2
<1> QED BY <1>2, <1>3, <1>4

\* The first half of an answer leaves the second, or what has come of it.
LEMMA ForwardFirst ==
    ASSUME Typed, OrderlyInv, Orderly, NEW c \in Clients, Forward(c),
           NEW type \in {"C", "E"}, Head(answers) = Message(c, type), type = "E" => inTxn[c]
    PROVE  /\ UNCHANGED <<requests, session, alive, pc, awaiting, gone>>
           /\ inTxn'[c] = inTxn[c]
PROOF
<1>1. Head(answers).type = type /\ type # "Z" /\ ~ErrorOutside(c, Head(answers))
      BY DEF Message, ErrorOutside
<1> QED BY <1>1 DEF Forward, TransactionOver, Deliver, Typed, WireTypeOK

\* The second half ends the statement, and with it the transaction or not.
LEMMA ForwardSecond ==
    ASSUME Typed, OrderlyInv, Orderly, NEW c \in Clients, Forward(c),
           answers = <<Message(c, "Z")>>
    PROVE  (Served(c) \/ Failed(c))'
PROOF
<1>1. /\ owner = c /\ c # NoClient /\ c \notin gone
      /\ pc = "loop" /\ requests = <<>> /\ awaiting[c] = 1
      /\ alive => Own(c)
      BY ForwardFindsAnswer
<1>2. Head(answers) = Message(c, "Z") /\ answers' = <<>>
      BY Short DEF Forward
<1>3. UNCHANGED <<session, alive, gone>>
      BY DEF Forward
<1>4. Head(answers).type = "Z" /\ Head(answers).status = session.status
      BY <1>2 DEF Message
<1>5. awaiting'[c] = 0
      BY <1>1, <1>4 DEF Forward, Deliver, Typed, WireTypeOK
<1>6. Replied(c)
  <2>1. ASSUME NEW type \in {"C", "E"}, answers = <<Message(c, type)>> PROVE FALSE
    <3>1. Message(c, type) = Message(c, "Z")
          BY <2>1, Short
    <3> QED BY <2>1, <3>1 DEF Message
  <2> QED BY <2>1, Short, ForwardFindsAnswer DEF Broken
<1>7. CASE session.status = "I"
  <2>1. BeginReset(<<>>, "settle")
        BY <1>4, <1>7 DEF Forward, TransactionOver, ErrorOutside
  <2>2. CASE alive
    <3>1. requests' = <<[by |-> NoClient, sql |-> "reset"]>> /\ pc' = "reset"
          BY <1>1, <2>1, <2>2, Short DEF BeginReset, Write, Statement
    <3>2. Resetting(c)' /\ Own(c)'
          BY <1>1, <1>2, <1>3, <1>5, <1>7, <2>1, <2>2, <3>1 DEF BeginReset, Resetting, Own
    <3> QED BY <1>1, <1>3, <2>2, <3>2 DEF Served
  <2>3. CASE ~alive
        BY <1>1, <1>2, <1>3, <1>5, <1>7, <2>1, <2>3 DEF BeginReset, InVain, Failed
  <2> QED BY <2>2, <2>3
<1>8. CASE session.status # "I"
  <2>1. UNCHANGED <<requests, pc>>
        BY <1>4, <1>8 DEF Forward, TransactionOver, ErrorOutside
  <2>2. inTxn' = [inTxn EXCEPT ![c] = @ \/ session.status = "T"]
        BY <1>4, <1>8 DEF Forward, TransactionOver, ErrorOutside
  <2>3. session.status \in {"T", "E"}
        BY <1>8 DEF Typed, WireTypeOK, Sessions
  <2>4. inTxn'[c]
        BY <1>6, <2>2, <2>3 DEF Replied, Typed, WireTypeOK
  <2>5. CASE alive
        BY <1>1, <1>2, <1>3, <1>5, <1>8, <2>1, <2>4, <2>5 DEF Served, Between, Quiet, Own
  <2>6. CASE ~alive
        BY <1>1, <1>2, <1>3, <1>5, <2>1, <2>4, <2>6 DEF Failed, Broken
  <2> QED BY <2>5, <2>6
<1> QED BY <1>7, <1>8

\* The answer is passed on to the client that waits for it.
LEMMA ForwardOrderly ==
    ASSUME Typed, OrderlyInv, Orderly, NEW c \in Clients, Forward(c)
    PROVE  OrderlyInv'
PROOF
<1>1. /\ owner = c /\ c # NoClient /\ c \notin gone
      /\ pc = "loop" /\ requests = <<>> /\ answers # <<>> /\ awaiting[c] = 1
      /\ Replied(c) \/ (~alive /\ Broken(c))
      /\ alive => Own(c)
      BY ForwardFindsAnswer
<1>2. UNCHANGED <<habits, session, alive, failures, owner, prepared, gone>>
      BY DEF Forward
<1>3. \A d \in Clients : d # c => awaiting'[d] = awaiting[d] /\ inTxn'[d] = inTxn[d]
      BY DEF Forward, Deliver, Typed, WireTypeOK
<1>4. OthersRest' /\ \A d \in Clients : prepared'[d] = 0
      BY <1>1, <1>2, <1>3 DEF OrderlyInv, OthersRest
<1>5. ASSUME NEW type \in {"C", "E"}, answers = <<Message(c, type), Message(c, "Z")>>,
             type = "E" => inTxn[c], Replied(c)
      PROVE  (Served(c) \/ Failed(c))'
  <2>1. Head(answers) = Message(c, type) /\ answers' = <<Message(c, "Z")>>
        BY <1>5, Short DEF Forward
  <2>2. UNCHANGED <<requests, session, alive, pc, awaiting, gone>> /\ inTxn'[c] = inTxn[c]
        BY <1>5, <2>1, ForwardFirst
  <2>3. Replied(c)'
        BY <1>5, <2>1, <2>2 DEF Replied, Message
  <2>4. alive => Own(c)'
        BY <1>1, <2>2 DEF Own
  <2> QED BY <1>1, <2>2, <2>3, <2>4 DEF Served, Failed
<1>6. ASSUME NEW type \in {"C", "E"}, answers = <<Message(c, type)>>,
             type = "E" => inTxn[c], ~alive
      PROVE  (Served(c) \/ Failed(c))'
  <2>1. Head(answers) = Message(c, type) /\ answers' = <<>>
        BY <1>6, Short DEF Forward
  <2>2. UNCHANGED <<alive, pc, awaiting, gone>>
        BY <1>6, <2>1, ForwardFirst
  <2> QED BY <1>1, <1>6, <2>1, <2>2 DEF Failed, Broken
<1>7. (Served(c) \/ Failed(c))'
      BY <1>1, <1>5, <1>6, ForwardSecond DEF Replied, Broken
<1>8. ~alive => requests' = <<>> /\ failures > 0
      BY <1>1 DEF Forward, BeginReset, Write, OrderlyInv
<1> QED BY <1>1, <1>2, <1>4, <1>7, <1>8 DEF OrderlyInv

\* A backend that fails takes along what has not been executed, and the end of
\* what has been answered.
LEMMA FailsOrderly ==
    ASSUME Typed, OrderlyInv, Orderly, Fails
    PROVE  OrderlyInv'
PROOF
<1>1. /\ alive /\ ~alive' /\ requests' = <<>> /\ failures' > 0
      /\ UNCHANGED <<session, owner, pc, after, inTxn, prepared, awaiting, gone>>
      BY DEF Fails, Close, handlerVars, clientVars, Typed, WireTypeOK
<1>2. PICK n \in 0..Len(answers) : answers' = SubSeq(answers, 1, n)
      BY DEF Fails
<1>3. OthersRest' /\ \A d \in Clients : prepared'[d] = 0
      BY <1>1 DEF OrderlyInv, OthersRest
<1>4. CASE Parked
  <2>1. answers' = <<>>
        BY <1>2, <1>4, CutShort DEF Parked, Quiet
  <2> QED BY <1>1, <1>3, <1>4, <2>1 DEF Parked, Quiet, OrderlyInv
<1>5. ASSUME NEW c \in Clients, owner = c, Served(c) PROVE Failed(c)'
  <2>1. c \notin gone'
        BY <1>1, <1>5 DEF Served
  <2>2. CASE Between(c) \/ Asked(c)
    <3>1. answers' = <<>>
          BY <1>2, <2>2, CutShort DEF Between, Quiet, Asked
    <3> QED BY <1>1, <2>1, <2>2, <3>1 DEF Failed, Broken, Between, Asked
  <2>3. CASE Replied(c)
    <3>1. ASSUME NEW type \in {"C", "E"}, answers = <<Message(c, type), Message(c, "Z")>>,
                 type = "E" => inTxn[c]
          PROVE  Replied(c)' \/ Broken(c)'
      <4>1. \/ answers' = <<>> \/ answers' = <<Message(c, type)>>
            \/ answers' = <<Message(c, type), Message(c, "Z")>>
            BY <1>2, <3>1, CutShort
      <4> QED BY <1>1, <2>3, <3>1, <4>1 DEF Replied, Broken, Message
    <3>2. ASSUME answers = <<Message(c, "Z")>>
          PROVE  Replied(c)' \/ Broken(c)'
      <4>1. answers' = <<>> \/ answers' = <<Message(c, "Z")>>
            BY <1>2, <3>2, CutShort
      <4> QED BY <1>1, <2>3, <4>1 DEF Replied, Broken, Message
    <3> QED BY <1>1, <2>1, <2>3, <3>1, <3>2 DEF Replied, Failed
  <2>4. CASE Resetting(c)
    <3>1. \/ answers' = <<>> \/ answers' = <<Message(NoClient, "C")>>
          \/ answers' = <<Message(NoClient, "Z")>>
          \/ answers' = <<Message(NoClient, "C"), Message(NoClient, "Z")>>
      <4>1. CASE answers = <<>>
            BY <1>2, <4>1, CutShort
      <4>2. CASE answers = <<Message(NoClient, "C"), Message(NoClient, "Z")>>
            BY <1>2, <4>2, CutShort
      <4>3. CASE answers = <<Message(NoClient, "Z")>>
            BY <1>2, <4>3, CutShort
      <4> QED BY <2>4, <4>1, <4>2, <4>3 DEF Resetting
    <3>2. InVain(c)'
          BY <1>1, <2>4, <3>1 DEF Resetting, InVain, Message
    <3> QED BY <1>1, <2>1, <3>2 DEF Failed
  <2> QED BY <1>5, <2>2, <2>3, <2>4 DEF Served
<1> QED BY <1>1, <1>3, <1>4, <1>5 DEF OrderlyInv, Failed

\* With its last answer read, the loop of the client whose backend failed ends.
LEMMA ServerEndsOrderly ==
    ASSUME Typed, OrderlyInv, Orderly, NEW c \in Clients, ServerEnds(c)
    PROVE  OrderlyInv'
PROOF
<1>1. owner = c /\ ~alive /\ answers = <<>> /\ requests = <<>> /\ failures > 0
      BY DEF ServerEnds, OrderlyInv
<1>2. UNCHANGED <<answers, alive, failures, owner, inTxn, prepared, awaiting>>
      BY DEF ServerEnds
<1>3. /\ requests' = <<>> /\ pc' \in {"reset", "failed"} /\ after' = "close"
      /\ gone' = gone \union {c}
      BY <1>1 DEF ServerEnds, BeginReset, Write
<1>4. Failed(c)'
      BY <1>1, <1>2, <1>3 DEF Failed, Closing
<1>5. OthersRest' /\ \A d \in Clients : prepared'[d] = 0
      BY <1>2, <1>3 DEF OrderlyInv, OthersRest
<1> QED BY <1>1, <1>2, <1>3, <1>4, <1>5 DEF OrderlyInv

\* What is read of a reset is its own answer: the backend is parked at its end.
LEMMA ReadResetOrderly ==
    ASSUME Typed, OrderlyInv, Orderly, NEW c \in Clients, ReadReset(c)
    PROVE  OrderlyInv' /\ pc = "reset" /\ (pc' = "reset" \/ owner' = NoClient)
PROOF
<1>1. owner = c /\ pc = "reset" /\ answers # <<>> /\ c # NoClient
      BY WireAssumption DEF ReadReset
<1>2. Served(c) \/ Failed(c)
      BY <1>1 DEF OrderlyInv, Parked
<1>3. c \notin gone /\ (Resetting(c) \/ (~alive /\ InVain(c))) /\ (alive => Own(c))
      BY <1>1, <1>2 DEF Served, Between, Asked, Replied, Failed, Closing, Broken
<1>4. /\ UNCHANGED <<session, alive, failures, awaiting, gone>>
      /\ prepared[c] = 0 /\ after = "settle" /\ awaiting[c] = 0
      BY <1>3 DEF ReadReset, clientVars, OrderlyInv, Resetting, InVain
<1>5. /\ requests = <<>> /\ requests' = <<>>
      /\ session.status = "I" /\ (alive => Clean)
      BY <1>1, <1>3, <1>4 DEF ReadReset, Resetting, InVain, OrderlyInv
<1>6. \/ answers = <<Message(NoClient, "C"), Message(NoClient, "Z")>>
      \/ ~alive /\ answers = <<Message(NoClient, "C")>>
      \/ answers = <<Message(NoClient, "Z")>>
      BY <1>1, <1>3 DEF Resetting, InVain
<1>7. CASE Head(answers) = Message(NoClient, "C")
  <2>1. UNCHANGED handlerVars
        BY <1>7 DEF ReadReset, ResetAnswered, Message
  <2>2. answers = <<Message(NoClient, "Z")>> => FALSE
    <3>1. Message(NoClient, "Z") # Message(NoClient, "C")
          BY DEF Message
    <3> QED BY <1>7, <3>1, Short
  <2>3. answers' = <<Message(NoClient, "Z")>> \/ (~alive /\ answers' = <<>>)
    <3>1. answers' = Tail(answers)
          BY DEF ReadReset
    <3>2. CASE answers = <<Message(NoClient, "C"), Message(NoClient, "Z")>>
          BY <3>1, <3>2, Short
    <3>3. CASE ~alive /\ answers = <<Message(NoClient, "C")>>
          BY <3>1, <3>3, Short
    <3> QED BY <1>6, <2>2, <3>2, <3>3
  <2>4. ASSUME alive PROVE Served(c)'
    <3>1. Resetting(c)' /\ Own(c)'
          BY <1>3, <1>4, <1>5, <2>1, <2>3, <2>4
          DEF Resetting, Message, Clean, handlerVars, Own
    <3> QED BY <1>3, <1>4, <2>4, <3>1 DEF Served
  <2>5. ASSUME ~alive PROVE Failed(c)'
    <3>1. InVain(c)'
          BY <1>1, <1>4, <1>5, <2>1, <2>3 DEF InVain, Message, handlerVars
    <3> QED BY <1>3, <1>4, <2>5, <3>1 DEF Failed
  <2>6. (Served(c) \/ Failed(c))'
        BY <2>4, <2>5
  <2> QED BY <1>1, <1>4, <1>5, <2>1, <2>6 DEF handlerVars, OrderlyInv, OthersRest
<1>8. CASE Head(answers) = Message(NoClient, "Z")
  <2>1. answers # <<Message(NoClient, "C"), Message(NoClient, "Z")>>
        /\ answers # <<Message(NoClient, "C")>>
    <3>1. Message(NoClient, "Z") # Message(NoClient, "C")
          BY DEF Message
    <3> QED BY <1>8, <3>1, Short
  <2>2. answers' = <<>>
        BY <1>6, <2>1, Short DEF ReadReset
  <2>3. ForgetSession(c) /\ Park
        BY <1>4, <1>8 DEF ReadReset, ResetAnswered, Message
  <2>4. Parked'
        BY <1>4, <1>5, <2>2, <2>3 DEF Park, Parked, Quiet, Clean
  <2>5. \A d \in Clients : prepared'[d] = 0
        BY <1>1, <2>3 DEF ForgetSession, OrderlyInv, Typed, WireTypeOK
  <2>6. OthersRest'
        BY <1>1, <1>4, <2>3 DEF ForgetSession, OrderlyInv, OthersRest, Typed, WireTypeOK
  <2> QED BY <1>1, <1>4, <1>5, <2>3, <2>4, <2>5, <2>6 DEF OrderlyInv, Park
<1> QED BY <1>6, <1>7, <1>8, Short

\* A reset that fails ends with a backend that is known to be dead only if the
\* next one who uses it is told, or with a new one.
LEMMA ResetFailsOrderly ==
    ASSUME Typed, OrderlyInv, Orderly, NEW c \in Clients, ResetFails(c)
    PROVE  OrderlyInv' /\ pc # "loop" /\ owner' = NoClient
PROOF
<1>1. /\ owner = c /\ c # NoClient /\ owner' = NoClient /\ pc' = "loop"
      /\ pc = "failed" \/ (pc = "reset" /\ answers = <<>> /\ ~alive)
      BY WireAssumption DEF ResetFails, Park
<1>2. UNCHANGED <<inTxn, prepared, awaiting, gone, failures>>
      BY DEF ResetFails, wireVars, clientVars
<1>3. ~alive /\ (Closing(c) \/ (c \notin gone /\ InVain(c)))
      BY <1>1 DEF OrderlyInv, Parked, Served, Between, Asked, Replied, Resetting, Failed, Broken
<1>4. failures > 0 /\ requests = <<>> /\ answers = <<>>
      BY <1>1, <1>3 DEF OrderlyInv, Closing, InVain
<1>5. Parked'
  <2>1. CASE Closing(c)
        BY <1>1, <2>1 DEF Closing, ResetFails, Parked, Quiet, Clean, NewSession
  <2>2. CASE InVain(c)
        BY <1>1, <1>3, <1>4, <2>2 DEF InVain, ResetFails, wireVars, Parked, Quiet
  <2> QED BY <1>3, <2>1, <2>2
<1>6. OthersRest'
  <2>1. c \notin gone => awaiting[c] = 0
        BY <1>3 DEF Closing, InVain
  <2> QED BY <1>1, <1>2, <1>4, <2>1 DEF OrderlyInv, OthersRest
<1>7. ~alive' => requests' = <<>>
      BY <1>3, <1>4 DEF ResetFails, wireVars
<1> QED BY <1>1, <1>2, <1>4, <1>5, <1>6, <1>7 DEF OrderlyInv

LEMMA LeaveOrderly ==
    ASSUME Typed, OrderlyInv, Orderly, NEW c \in Clients, Leave(c)
    PROVE  OrderlyInv' /\ owner # c /\ UNCHANGED <<wireVars, owner, pc>>
PROOF
<1>1. /\ owner # c /\ gone' = gone \union {c}
      /\ UNCHANGED <<requests, answers, session, alive, failures, owner, pc, after, inTxn,
                     prepared, awaiting>>
      BY DEF Leave, Orderly
<1>2. Parked' = Parked
      BY <1>1 DEF Parked, Quiet, Clean
<1>3. ASSUME NEW d \in Clients, owner = d, Served(d) PROVE Served(d)'
      BY <1>1, <1>3 DEF Served, Own, Between, Asked, Replied, Resetting, Quiet, Clean, Message
<1>4. ASSUME NEW d \in Clients, owner = d, Failed(d) PROVE Failed(d)'
      BY <1>1, <1>4 DEF Failed, Closing, Replied, Broken, InVain, Message
<1> QED BY <1>1, <1>2, <1>3, <1>4 DEF OrderlyInv, OthersRest, wireVars

\* Nobody has anything to deallocate, and nobody sends Terminate.
LEMMA NeverOrderly ==
    ASSUME Typed, OrderlyInv, Orderly
    PROVE  ~Terminated /\ \A c \in Clients : ~ReadDeallocate(c)
PROOF
<1>1. ASSUME Terminated PROVE FALSE
  <2>1. owner \in Clients /\ Served(owner) /\ requests # <<>>
        BY <1>1 DEF Terminated, OrderlyInv, Parked, Quiet, Failed
  <2>2. \/ \E sql \in {"select", "set", "begin", "commit", "bad"} :
              requests = <<[by |-> owner, sql |-> sql]>>
        \/ requests = <<[by |-> NoClient, sql |-> "reset"]>>
        BY <2>1 DEF Served, Between, Quiet, Asked, Replied, Resetting
  <2>3. Head(requests).sql # "terminate"
        BY <2>2, Short
  <2> QED BY <1>1, <2>3 DEF Terminated
<1>2. pc # "deallocate"
      BY DEF OrderlyInv, Parked, Served, Between, Asked, Replied, Resetting, Failed, Closing,
             Broken, InVain
<1> QED BY <1>1, <1>2 DEF ReadDeallocate

LEMMA OrderlyNext == Typed /\ OrderlyInv /\ [Next]_vars => OrderlyInv'
PROOF
<1> SUFFICES ASSUME Typed, OrderlyInv, [Next]_vars, Orderly' PROVE OrderlyInv'
    BY DEF OrderlyInv
<1>1. Orderly
      BY DEF Orderly, Next, Serve, Handle, Execute, Terminated, Fails, Forward, ServerEnds,
             ReadReset, ResetFails, ReadDeallocate, Leave, Send, vars
<1>2. CASE UNCHANGED vars
  <2>1. UNCHANGED <<requests, answers, session, alive, failures, owner, pc, after, inTxn,
                    prepared, awaiting, gone>>
        BY <1>2 DEF vars, wireVars, handlerVars, clientVars
  <2>2. Parked' = Parked /\ OthersRest' = OthersRest
        BY <2>1 DEF Parked, Quiet, Clean, OthersRest
  <2>3. Served(owner)' = Served(owner)
        BY <2>1 DEF Served, Own, Between, Asked, Replied, Resetting, Quiet, Clean, Message
  <2>4. Failed(owner)' = Failed(owner)
        BY <2>1 DEF Failed, Closing, Replied, Broken, InVain, Message
  <2> QED BY <1>1, <2>1, <2>2, <2>3, <2>4 DEF OrderlyInv
<1> QED BY <1>1, <1>2, SendOrderly, ExecuteOrderly, NeverOrderly, FailsOrderly, ForwardOrderly,
           ServerEndsOrderly, ReadResetOrderly, ResetFailsOrderly, LeaveOrderly
        DEF Next, Serve, Handle

\* Orderly clients are always at one of the stages.
THEOREM StagesAreKept == Spec => []OrderlyInv
PROOF
BY OrderlyInit, OrderlyNext, WireTypes, PTL DEF Spec

-----------------------------------------------------------------------------
(* What follows *)

\* Types; statements of orderly clients run in their own session, and the flag
\* says what the backend's status is once everything is answered.
THEOREM OwnSessions == Spec => []WireInv
PROOF
<1>1. Typed => WireTypeOK
      BY DEF Typed
<1>2. Typed /\ OrderlyInv => OwnSession
  <2> SUFFICES ASSUME Typed, OrderlyInv, Orderly, requests # <<>>, Head(requests).by # NoClient
               PROVE  /\ session.txn \in {NoClient, Head(requests).by}
                      /\ session.settings \in {NoClient, Head(requests).by}
      BY DEF OwnSession
  <2>1. owner \in Clients /\ Served(owner)
        BY DEF OrderlyInv, Parked, Quiet, Failed
  <2>2. Asked(owner)
        BY <2>1, Short DEF Served, Between, Quiet, Replied, Resetting
  <2>3. Head(requests).by = owner
        BY <2>2, Short DEF Asked
  <2> QED BY <2>1, <2>3 DEF Served, Own
<1>3. Typed /\ OrderlyInv => FlagFollowsBackend
  <2> SUFFICES ASSUME Typed, OrderlyInv, Orderly, NEW c \in Clients \ gone,
                      awaiting[c] = 0, pc = "loop"
               PROVE  /\ owner = c /\ session.status # "I" => inTxn[c]
                      /\ inTxn[c] /\ failures = 0 => owner = c /\ session.status # "I"
      BY DEF FlagFollowsBackend
  <2>1. CASE owner # c
        BY <2>1 DEF OrderlyInv, OthersRest
  <2>2. CASE owner = c
    <3>1. Served(c) \/ Failed(c)
          BY <2>2, WireAssumption DEF OrderlyInv, Parked
    <3>2. CASE Served(c)
      <4>1. Between(c)
            BY <3>2 DEF Served, Asked, Replied, Resetting
      <4> QED BY <2>2, <4>1 DEF Between
    <3>3. CASE Failed(c)
          BY <2>2, <3>3 DEF Failed, Closing, Replied, Broken, InVain, OrderlyInv
    <3> QED BY <3>1, <3>2, <3>3
  <2> QED BY <2>1, <2>2
<1> QED BY <1>1, <1>2, <1>3, WireTypes, StagesAreKept, PTL DEF WireInv

\* A backend that orderly clients park has been reset and has nothing under way.
THEOREM ParkedInOrder == Spec => []OrderlyParked
PROOF
<1>1. OrderlyInv => OrderlyParked
      BY WireAssumption DEF OrderlyInv, OrderlyParked, ParkedIsQuiet, ParkedIsReset, Parked,
                            Quiet, Clean
<1> QED BY <1>1, StagesAreKept, PTL

\* An orderly client is sent the answers to its own statements and no others.
THEOREM AnswersAreMatched == Spec => AnswersMatch
PROOF
<1>1. ASSUME Typed, OrderlyInv, [Next]_vars
      PROVE  [Orderly /\ pc = "loop" /\ answers # <<>> /\ answers' = Tail(answers)
                  => Head(answers).by = owner]_vars
  <2> SUFFICES ASSUME Orderly, pc = "loop", answers # <<>>
               PROVE  Head(answers).by = owner
      OBVIOUS
  <2>1. owner \in Clients /\ (Served(owner) \/ Failed(owner))
        BY <1>1 DEF OrderlyInv, Parked, Quiet
  <2>2. Replied(owner) \/ Broken(owner)
        BY <2>1 DEF Quiet, Served, Between, Asked, Resetting, Failed, Closing, InVain
  <2>3. \E type \in {"C", "E", "Z"} : Head(answers) = Message(owner, type)
        BY <2>2, Short DEF Replied, Broken
  <2> QED BY <2>3 DEF Message
<1> QED BY <1>1, WireTypes, StagesAreKept, PTL DEF Spec, AnswersMatch

-----------------------------------------------------------------------------
(* Orderly clients are served as by PrivateSessions *)

\* The backends of both are the same PostgreSQL.
LEMMA SamePostgres ==
    /\ Private!NewSession = NewSession /\ Private!ClientSql = ClientSql
    /\ \A s, q : /\ Private!Leaves(s, q) = Leaves(s, q)
                /\ Private!AnswersTo(s, q) = AnswersTo(s, q)
PROOF
BY DEF NewSession, ClientSql, Succeeds, Leaves, AnswersTo, Private!NewSession,
       Private!ClientSql, Private!Succeeds, Private!Leaves, Private!AnswersTo

\* Only c's part of what is under way changes, and becomes what c is served.
LEMMA OnlyOwn ==
    ASSUME NEW c \in Clients, \A d \in Clients : d # c => ~Serves(d) /\ ~Serves(d)'
    PROVE  /\ ownSession' = [ownSession EXCEPT ![c] =
                                 IF Serves(c)' /\ alive' THEN session' ELSE NewSession]
           /\ ownRequest' = [ownRequest EXCEPT ![c] =
                                 IF Serves(c)' THEN requests' ELSE <<>>]
           /\ ownReplies' = [ownReplies EXCEPT ![c] =
                                 IF Serves(c)' THEN answers' ELSE <<>>]
PROOF
BY DEF ownSession, ownRequest, ownReplies

\* The handler of the owner is the only one that serves anybody.
LEMMA OnlyOwner ==
    ASSUME NEW c \in Clients, owner \in {c, NoClient}, owner' \in {c, NoClient}
    PROVE  \A d \in Clients : d # c => ~Serves(d) /\ ~Serves(d)'
PROOF
BY WireAssumption DEF Serves

\* While nobody is served nobody's part changes.
LEMMA NobodyServed ==
    ASSUME \A d \in Clients : ~Serves(d) /\ ~Serves(d)', UNCHANGED gone
    PROVE  UNCHANGED Private!privateVars
PROOF
BY DEF ownSession, ownRequest, ownReplies, ownEnd, Private!privateVars

\* What is to show where the backend c is served by is lost, or c leaves.
LEMMA EndOf ==
    ASSUME NEW c \in Clients, c \notin gone, ~(Serves(c) /\ ~alive),
           \A d \in Clients : d # c => ~Serves(d) /\ ~Serves(d)',
           gone' = gone \union {c} \/ (gone' = gone /\ Serves(c)'),
           ~alive' \/ ~Serves(c)',
           Serves(c)' => requests' = <<>>,
           NEW n \in 0..Len(ownReplies[c]),
           IF Serves(c)' THEN answers' = SubSeq(ownReplies[c], 1, n)
                         ELSE ownReplies[c] = <<>>
    PROVE  Private!End(c)
PROOF
<1>1. /\ ownSession' = [ownSession EXCEPT ![c] = NewSession]
      /\ ownRequest' = [ownRequest EXCEPT ![c] = <<>>]
      /\ ownReplies' = [ownReplies EXCEPT ![c] = IF Serves(c)' THEN answers' ELSE <<>>]
      BY OnlyOwn
<1>2. ownReplies' = [ownReplies EXCEPT ![c] = SubSeq(@, 1, n)]
  <2>1. CASE Serves(c)'
        BY <1>1, <2>1
  <2>2. CASE ~Serves(c)'
    <3>1. SubSeq(ownReplies[c], 1, n) = <<>>
          BY <2>2, CutShort
    <3> QED BY <1>1, <2>2, <3>1
  <2> QED BY <2>1, <2>2
<1>3. c \notin ownEnd /\ ownEnd' = ownEnd \union {c}
      BY DEF ownEnd
<1> QED BY <1>1, <1>2, <1>3, SamePostgres DEF Private!End

\* A client that sends finds the backend as it left its own: after a release,
\* as new.  If the backend has failed, that is where the client notices, or
\* will.
LEMMA SendIsAsk ==
    ASSUME Typed, OrderlyInv, Orderly, NEW c \in Clients, NEW sql \in ClientSql, Send(c, sql)
    PROVE  \/ Private!Ask(c, sql) \/ Private!End(c)
           \/ UNCHANGED Private!privateVars
PROOF
<1>1. /\ c # NoClient /\ c \notin gone
      /\ owner \in {c, NoClient} /\ pc = "loop" /\ Quiet
      BY SendFindsQuiet
<1>2. owner' = c /\ answers' = <<>> /\ UNCHANGED <<session, alive>>
      BY <1>1 DEF Send, Quiet
<1>3. \A d \in Clients : d # c => ~Serves(d) /\ ~Serves(d)'
      BY <1>1, <1>2, OnlyOwner
<1>4. ownRequest[c] = <<>> /\ ownReplies[c] = <<>>
      BY <1>1 DEF ownRequest, ownReplies, Quiet
<1>5. ownReplies = [ownReplies EXCEPT ![c] = <<>>]
      BY <1>4 DEF ownReplies
<1>6. CASE alive
  <2>1. pc' = "loop" /\ gone' = gone /\ requests' = <<[by |-> c, sql |-> sql]>>
        BY <1>1, <1>6, Short DEF Send, Write, Statement, Quiet
  <2>2. Serves(c)'
        BY <1>2, <2>1 DEF Serves
  <2>3. ownSession[c] = session
        BY <1>1, <1>6, SendFindsQuiet DEF ownSession, Serves, Parked, Clean
  <2>4. ownSession = [ownSession EXCEPT ![c] = session]
        BY <2>3 DEF ownSession
  <2>5. c \notin ownEnd /\ ownEnd' = ownEnd
        BY <1>1, <1>2, <1>6, <2>1 DEF ownEnd
  <2> QED BY <1>2, <1>3, <1>4, <1>5, <1>6, <2>1, <2>2, <2>4, <2>5, OnlyOwn DEF Private!Ask
<1>7. CASE ~alive
  <2>1. requests' = <<>> /\ (gone' = gone \union {c} \/ (gone' = gone /\ pc' = "loop"))
        BY <1>1, <1>7 DEF Send, Write, BeginReset, Quiet
  <2>2. CASE owner = c
    <3>1. ownSession[c] = NewSession
          BY <1>7 DEF ownSession
    <3>2. /\ ownSession = [ownSession EXCEPT ![c] = NewSession]
          /\ ownRequest = [ownRequest EXCEPT ![c] = <<>>]
          BY <1>4, <3>1 DEF ownSession, ownRequest
    <3>3. UNCHANGED <<ownSession, ownRequest, ownReplies>>
          BY <1>2, <1>3, <1>5, <1>7, <2>1, <3>2, OnlyOwn
    <3>4. UNCHANGED ownEnd
          BY <1>1, <1>2, <1>3, <1>7, <2>1, <2>2 DEF ownEnd, Serves
    <3> QED BY <3>3, <3>4 DEF Private!privateVars
  <2>3. CASE owner # c
    <3>1. ~Serves(c)
          BY <2>3 DEF Serves
    <3>2. /\ gone' = gone \union {c} \/ (gone' = gone /\ Serves(c)')
          /\ 0 \in 0..Len(ownReplies[c]) /\ SubSeq(ownReplies[c], 1, 0) = <<>>
          BY <1>2, <1>4, <2>1, CutShort DEF Serves
    <3> QED BY <1>1, <1>2, <1>3, <1>4, <1>7, <2>1, <3>1, <3>2, EndOf
  <2> QED BY <2>2, <2>3
<1> QED BY <1>6, <1>7

\* The backend executes the owner's statement, or the reset, which nobody sees.
LEMMA ExecuteIsRun ==
    ASSUME Typed, OrderlyInv, Orderly, Execute
    PROVE  \/ \E c \in Clients : Private!Run(c)
           \/ UNCHANGED Private!privateVars
PROOF
<1>1. UNCHANGED <<alive, owner, pc, gone>> /\ requests # <<>>
      BY DEF Execute, handlerVars, clientVars
<1>2. owner \in Clients /\ Served(owner) /\ alive
      BY <1>1 DEF OrderlyInv, Parked, Quiet, Failed, Served
<1>3. PICK c \in Clients : c = owner
      BY <1>2
<1>4. CASE Resetting(c)
  <2>1. \A d \in Clients : ~Serves(d) /\ ~Serves(d)'
        BY <1>1, <1>4 DEF Resetting, Serves
  <2> QED BY <1>1, <2>1, NobodyServed
<1>5. CASE Asked(c)
  <2>1. PICK sql \in {"select", "set", "begin", "commit", "bad"} :
            requests = <<[by |-> c, sql |-> sql]>>
        BY <1>5 DEF Asked
  <2>2. PICK r : r = [by |-> c, sql |-> sql]
        OBVIOUS
  <2>3. /\ requests = <<r>> /\ Head(requests) = r /\ requests' = <<>>
        /\ session' = Leaves(session, r)
        BY <2>1, <2>2, Short DEF Execute
  <2>4. answers' = AnswersTo(session, r)
    <3>1. answers' = <<>> \o AnswersTo(session, r)
          BY <1>5, <2>3 DEF Execute, Asked
    <3> QED BY <3>1, Short DEF AnswersTo
  <2>5. Serves(c) /\ Serves(c)'
        BY <1>1, <1>3, <1>5 DEF Serves, Asked
  <2>6. \A d \in Clients : d # c => ~Serves(d) /\ ~Serves(d)'
        BY <1>1, <1>3 DEF Serves
  <2>7. ownSession[c] = session /\ ownRequest[c] = <<r>> /\ ownReplies[c] = <<>>
        BY <1>2, <1>5, <2>3, <2>5 DEF ownSession, ownRequest, ownReplies, Asked
  <2>8. UNCHANGED ownEnd
        BY <1>1 DEF ownEnd, Serves
  <2>9. Private!Run(c)
        BY <1>1, <1>2, <2>3, <2>4, <2>5, <2>6, <2>7, <2>8, OnlyOwn, SamePostgres, Short
        DEF Private!Run
  <2> QED BY <2>9
<1> QED BY <1>1, <1>2, <1>3, <1>4, <1>5 DEF Served, Between, Quiet, Replied

\* What the handler reads of the backend it passes on, and at ReadyForQuery 'I'
\* the client has nothing under way any more.
LEMMA ForwardIsPass ==
    ASSUME Typed, OrderlyInv, Orderly, NEW c \in Clients, Forward(c)
    PROVE  Private!Pass(c)
PROOF
<1>1. /\ owner = c /\ c \notin gone /\ pc = "loop" /\ answers # <<>> /\ requests = <<>>
      /\ Replied(c) \/ Broken(c)
      BY ForwardFindsAnswer
<1>2. UNCHANGED <<session, alive, owner, gone>> /\ answers' = Tail(answers)
      BY DEF Forward
<1>3. Serves(c) /\ \A d \in Clients : d # c => ~Serves(d) /\ ~Serves(d)'
      BY <1>1, <1>2 DEF Serves
<1>4. ownRequest[c] = <<>> /\ ownReplies[c] = answers
      BY <1>1, <1>3 DEF ownRequest, ownReplies
<1>5. PICK m : m = Head(answers)
      OBVIOUS
<1>6. ownRequest = [ownRequest EXCEPT ![c] = <<>>]
      BY <1>4 DEF ownRequest
<1>7. CASE TransactionOver(m)
  <2>1. pc' \in {"reset", "failed"} /\ m.type = "Z" /\ m.status = "I"
        BY <1>5, <1>7 DEF Forward, BeginReset, ErrorOutside, TransactionOver
  <2>2. ~Serves(c)'
        BY <2>1 DEF Serves
  <2>3. answers' = <<>>
    <3>1. ASSUME NEW type \in {"C", "E"}, Head(answers) = Message(c, type)
          PROVE  FALSE
          BY <1>5, <2>1, <3>1 DEF Message
    <3>2. answers = <<Message(c, "Z")>>
          BY <1>1, <3>1, Short DEF Replied, Broken
    <3> QED BY <1>2, <3>2, Short
  <2>4. /\ ownSession' = [ownSession EXCEPT ![c] = NewSession]
        /\ ownRequest' = ownRequest
        /\ ownReplies' = [ownReplies EXCEPT ![c] = Tail(answers)]
        BY <1>2, <1>3, <1>6, <2>2, <2>3, OnlyOwn
  <2>5. ownEnd' = ownEnd \ {c}
        BY <1>1, <1>2, <1>3, <2>2 DEF ownEnd
  <2> QED BY <1>1, <1>4, <1>5, <2>1, <2>4, <2>5, SamePostgres DEF Private!Pass, Private!Over
<1>8. CASE ~TransactionOver(m)
  <2>1. ~ErrorOutside(c, m)
    <3>1. m = Message(c, "Z") \/ \E type \in {"C", "E"} : m = Message(c, type) /\ (type = "E" => inTxn[c])
          BY <1>1, <1>5, Short DEF Replied, Broken
    <3> QED BY <3>1 DEF Message, ErrorOutside
  <2>2. UNCHANGED <<requests, pc>>
        BY <1>5, <1>8, <2>1 DEF Forward
  <2>3. Serves(c)' /\ ~(m.type = "Z" /\ m.status = "I")
        BY <1>1, <1>2, <1>8, <2>2 DEF Serves, TransactionOver
  <2>4. ownSession = [ownSession EXCEPT ![c] = IF alive THEN session ELSE NewSession]
        BY <1>3 DEF ownSession
  <2>5. /\ ownSession' = ownSession
        /\ ownRequest' = ownRequest
        /\ ownReplies' = [ownReplies EXCEPT ![c] = Tail(answers)]
        BY <1>1, <1>2, <1>3, <1>6, <2>2, <2>3, <2>4, OnlyOwn
  <2>6. UNCHANGED ownEnd
        BY <1>2, <2>2 DEF ownEnd, Serves
  <2> QED BY <1>1, <1>4, <1>5, <2>3, <2>5, <2>6, SamePostgres DEF Private!Pass, Private!Over
<1> QED BY <1>7, <1>8

\* The failure of a backend is the end for the client it serves, and for no
\* other: a parked one is not missed.
LEMMA FailsIsEnd ==
    ASSUME Typed, OrderlyInv, Orderly, Fails
    PROVE  \/ \E c \in Clients : Private!End(c)
           \/ UNCHANGED Private!privateVars
PROOF
<1>1. alive /\ ~alive' /\ requests' = <<>> /\ UNCHANGED <<owner, pc, gone>>
      BY DEF Fails, Close, handlerVars, clientVars
<1>2. CASE \A d \in Clients : ~Serves(d)
  <2>1. \A d \in Clients : ~Serves(d)'
        BY <1>1, <1>2 DEF Serves
  <2> QED BY <1>1, <1>2, <2>1, NobodyServed
<1>3. ASSUME NEW c \in Clients, Serves(c) PROVE Private!End(c)
  <2>1. owner = c /\ owner' = c /\ Serves(c)'
        BY <1>1, <1>3 DEF Serves
  <2>2. c \notin gone
        BY <1>1, <2>1, WireAssumption DEF OrderlyInv, Parked, Served, Failed
  <2>3. PICK n \in 0..Len(answers) : answers' = SubSeq(answers, 1, n)
        BY DEF Fails
  <2>4. ownReplies[c] = answers
        BY <1>3 DEF ownReplies
  <2>5. \A d \in Clients : d # c => ~Serves(d) /\ ~Serves(d)'
        BY <2>1 DEF Serves
  <2> QED BY <1>1, <1>3, <2>1, <2>2, <2>3, <2>4, <2>5, EndOf
<1> QED BY <1>2, <1>3

\* A client whose backend has failed has nothing under way that could be lost
\* with its loop.
LEMMA ServerEndsUnseen ==
    ASSUME Typed, OrderlyInv, Orderly, NEW c \in Clients, ServerEnds(c)
    PROVE  UNCHANGED Private!privateVars
PROOF
<1>1. /\ owner = c /\ pc = "loop" /\ answers = <<>> /\ ~alive /\ requests = <<>>
      /\ UNCHANGED <<owner, alive, answers>>
      /\ pc' \in {"reset", "failed"} /\ gone' = gone \union {c}
      BY DEF ServerEnds, BeginReset, OrderlyInv
<1>2. Serves(c) /\ ~Serves(c)' /\ \A d \in Clients : d # c => ~Serves(d) /\ ~Serves(d)'
      BY <1>1 DEF Serves
<1>3. UNCHANGED <<ownSession, ownRequest, ownReplies>>
      BY <1>1, <1>2 DEF ownSession, ownRequest, ownReplies
<1>4. UNCHANGED ownEnd
      BY <1>1, <1>2 DEF ownEnd
<1> QED BY <1>3, <1>4 DEF Private!privateVars

\* Nobody sees how a reset ends.
LEMMA ResetUnseen ==
    ASSUME Typed, OrderlyInv, Orderly, NEW c \in Clients, ReadReset(c) \/ ResetFails(c)
    PROVE  UNCHANGED Private!privateVars
PROOF
<1>1. UNCHANGED gone /\ pc # "loop" /\ (pc' = "reset" \/ owner' = NoClient)
      BY ReadResetOrderly, ResetFailsOrderly DEF ReadReset, ResetFails, clientVars
<1>2. \A d \in Clients : ~Serves(d) /\ ~Serves(d)'
      BY <1>1, WireAssumption DEF Serves
<1> QED BY <1>1, <1>2, NobodyServed

\* A client that leaves has no backend.
LEMMA LeaveIsEnd ==
    ASSUME Typed, OrderlyInv, Orderly, NEW c \in Clients, Leave(c)
    PROVE  Private!End(c)
PROOF
<1>1. /\ owner # c /\ c \notin gone /\ gone' = gone \union {c}
      /\ UNCHANGED <<requests, answers, session, alive, owner, pc>>
      BY LeaveOrderly DEF Leave, wireVars
<1>2. ~Serves(c) /\ \A d \in Clients : Serves(d)' = Serves(d)
      BY <1>1 DEF Serves
<1>3. UNCHANGED <<ownSession, ownRequest, ownReplies>>
      BY <1>1, <1>2 DEF ownSession, ownRequest, ownReplies
<1>4. ownSession[c] = NewSession /\ ownRequest[c] = <<>> /\ ownReplies[c] = <<>>
      BY <1>2 DEF ownSession, ownRequest, ownReplies
<1>5. /\ ownSession = [ownSession EXCEPT ![c] = NewSession]
      /\ ownRequest = [ownRequest EXCEPT ![c] = <<>>]
      /\ ownReplies = [ownReplies EXCEPT ![c] = <<>>]
      BY <1>4 DEF ownSession, ownRequest, ownReplies
<1>6. 0 \in 0..Len(ownReplies[c]) /\ SubSeq(ownReplies[c], 1, 0) = <<>>
      BY <1>4, CutShort
<1>7. ownReplies' = [ownReplies EXCEPT ![c] = SubSeq(@, 1, 0)]
      BY <1>3, <1>5, <1>6
<1>8. c \notin ownEnd /\ ownEnd' = ownEnd \union {c}
      BY <1>1, <1>2 DEF ownEnd
<1> QED BY <1>3, <1>5, <1>6, <1>7, <1>8, SamePostgres DEF Private!End

LEMMA StepsAreTransparent ==
    ASSUME Typed, OrderlyInv, Orderly, [Next]_vars
    PROVE  Private!Next \/ UNCHANGED Private!privateVars
PROOF
<1>1. CASE UNCHANGED vars
      BY <1>1 DEF vars, wireVars, handlerVars, clientVars, ownSession, ownRequest, ownReplies,
                  ownEnd, Serves, Private!privateVars
<1>2. CASE Execute
      BY <1>2, ExecuteIsRun DEF Private!Next
<1>3. CASE Fails
      BY <1>3, FailsIsEnd DEF Private!Next
<1>4. ASSUME NEW c \in Clients, NEW sql \in ClientSql, Send(c, sql)
      PROVE  Private!Next \/ UNCHANGED Private!privateVars
      BY <1>4, SendIsAsk, SamePostgres DEF Private!Next
<1>5. ASSUME NEW c \in Clients, Forward(c) PROVE Private!Next
      BY <1>5, ForwardIsPass DEF Private!Next
<1>6. ASSUME NEW c \in Clients, ServerEnds(c) \/ ReadReset(c) \/ ResetFails(c)
      PROVE  UNCHANGED Private!privateVars
      BY <1>6, ServerEndsUnseen, ResetUnseen
<1>7. ASSUME NEW c \in Clients, Leave(c) PROVE Private!Next
      BY <1>7, LeaveIsEnd DEF Private!Next
<1> QED BY <1>1, <1>2, <1>3, <1>4, <1>5, <1>6, <1>7, NeverOrderly DEF Next, Serve, Handle

\* The backend orderly clients share answers each of them as one of its own
\* would: no statement, no SET and no failure of one is seen by another, and
\* nothing of the proxy's own queries by any.
THEOREM PoolingIsTransparent == Spec => Transparent
PROOF
<1>1. Init => Private!Init
  <2> SUFFICES ASSUME Init PROVE Private!Init
      OBVIOUS
  <2>1. \A c \in Clients : ~Serves(c)
        BY WireAssumption DEF Init, Serves
  <2> QED BY <2>1, SamePostgres
          DEF Init, Private!Init, ownSession, ownRequest, ownReplies, ownEnd
<1>2. Typed /\ OrderlyInv /\ [Next]_vars => [Orderly => Private!Next]_(Private!privateVars)
      BY StepsAreTransparent
<1> QED BY <1>1, <1>2, WireTypes, StagesAreKept, PTL DEF Spec, Transparent

-----------------------------------------------------------------------------
(* TxnTimers and Frames, as their theorems are about them: RelayProofs for the *)
(* timers and the streams of Loop, whose Spec and properties it names once     *)
(* more.                                                                       *)

Relay == INSTANCE RelayProofs WITH inTxn <- flag

\* In a transaction block no statement and no pause outlasts transaction_timeout
\* while the loop listens, whatever rows are passed on meanwhile.
THEOREM NoStepOutlastsTheTimer == Relay!Spec => []StepsAreTimed
<1>1. Relay!Spec => []Relay!StepsAreTimed
  BY TimersAssumption, FramesAssumption, Relay!StepsOfTransactionsAreTimed DEF Relay!Sides, Sides
<1>2. Relay!StepsAreTimed => StepsAreTimed
  BY DEF StepsAreTimed, Relay!StepsAreTimed, Timers!StepsAreTimed, Relay!Open, Timers!Open
<1> QED BY <1>1, <1>2, PTL

\* tx_start is not older than the transaction unless in_transaction was left
\* over from a backend whose reset failed.
THEOREM NoTransactionIsCutShort == Relay!Spec => []TimerNotAhead
<1>1. Relay!Spec => []Relay!TimerNotAhead
  BY TimersAssumption, FramesAssumption, Relay!OnlyLeftoversCutShort DEF Relay!Sides, Sides
<1>2. Relay!TimerNotAhead => TimerNotAhead
  BY DEF TimerNotAhead, Relay!TimerNotAhead, Timers!TimerNotAhead
<1> QED BY <1>1, <1>2, PTL

\* Whatever the two sides say and in whatever pieces it comes, messages are
\* passed on whole and in order until a read is dropped, and none is unless both
\* speak at once, one of them in pieces.
THEOREM MessagesStayWhole == Relay!Streams!Spec => []FramesInv
<1>1. Relay!Streams!Spec => []Relay!FramesInv
  BY FramesAssumption, TimersAssumption, Relay!MessagesAreWhole DEF Relay!Sides, Sides
<1>2. Relay!FramesInv => FramesInv
  BY DEF FramesInv, Relay!FramesInv, Streams!FramesInv, Relay!Streams!FramesInv,
         Streams!NothingDropped, Relay!Streams!NothingDropped,
         Streams!InTurns, Relay!Streams!InTurns, Streams!PassedInOrder,
         Relay!Streams!PassedInOrder, Streams!IsPrefix,
         Relay!Streams!IsPrefix, Streams!Messages, Relay!Streams!Messages,
         Streams!Message, Relay!Streams!Message, Streams!Ends,
         Relay!Streams!Ends, Streams!End, Relay!Streams!End, Streams!Sides,
         Relay!Streams!Sides
<1> QED BY <1>1, <1>2, PTL

=============================================================================
