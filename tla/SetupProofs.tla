----------------------------- MODULE SetupProofs -----------------------------
(***************************************************************************)
(* Theorems about the start of the program, its health checker and the     *)
(* startup message.                                                        *)
(*                                                                         *)
(* Program, for every interval and time limit of the health checker:       *)
(* OutageTold compares how long the backend has been down with constants.  *)
(* What is inductive compares it with the age of the status (Outlived),    *)
(* that age with the checker's (StatusAge), and the checker's with the     *)
(* constants (Paced).                                                      *)
(*                                                                         *)
(* StartupCodec, for messages of every length: that what is written is     *)
(* read back needs where every pair lies in the message (Layout), and      *)
(* that pairs hold no NUL (Pairs).                                         *)
(*                                                                         *)
(* The login of the client has its proofs in LoginProofs.                  *)
(***************************************************************************)
EXTENDS Setup, SequenceTheorems, NaturalsInduction, WellFoundedInduction, TLAPS

\* There is no checker before run has come to it, nor without its section.
CheckerStarted ==
    "health" \in tasks =>
        cfg.health = "on" /\ pc \notin {"load", "logging", "token", "health"}

\* The timers end what they limit.
Paced == checker.age <= IF checker.at = "sleep" THEN Interval ELSE CheckTimeout

\* The status is as old as the sleep, or the sleep before the check.
StatusAge ==
    status.age <= IF checker.at = "sleep" THEN checker.age ELSE Interval + checker.age

\* No status that tells of a healthy backend outlives it by more than its age.
Outlived ==
    /\ up => downFor = 0
    /\ status.healthy => downFor <= status.age

HealthInv == CheckerStarted /\ Paced /\ StatusAge /\ Outlived

-----------------------------------------------------------------------------

\* An age stays within its bound, and keeps its order with others.
LEMMA OlderFacts ==
    ASSUME NEW a \in 0..MaxAge, NEW b \in 0..MaxAge
    PROVE  /\ Older(a) \in 0..MaxAge
           /\ Older(a) <= a + 1
           /\ a <= b => Older(a) <= Older(b)
           /\ a < MaxAge => Older(a) = a + 1
BY ProgramAssumption DEF Older

\* What a check leaves behind.
LEMMA FoundHealthy ==
    /\ Found(TRUE, "none").healthy
    /\ ~Found(FALSE, "connection failed").healthy
    /\ ~Found(FALSE, "timed out").healthy
BY Zenon DEF Found

LEMMA FoundFields ==
    \A healthy, error : Found(healthy, error).error = error /\ Found(healthy, error).age = 0
BY Zenon DEF Found

LEMMA FoundType ==
    \A healthy \in BOOLEAN, error \in {"none", "connection failed", "timed out"} :
        Found(healthy, error) \in [healthy : BOOLEAN, age : 0..MaxAge,
                                  error : {"none", "connection failed", "timed out"}]
<1>1. 0 \in 0..MaxAge
  BY ProgramAssumption
<1>2. QED
  BY <1>1, Zenon DEF Found

\* A step of run that spawns no checker keeps everything about it.
LEMMA KeepsHealth ==
    ASSUME HealthInv, UNCHANGED <<cfg, up, checker, status, downFor>>,
           "health" \in tasks' => "health" \in tasks,
           "health" \in tasks => pc' \notin {"load", "logging", "token", "health"}
    PROVE  HealthInv'
BY DEF HealthInv, CheckerStarted, Paced, StatusAge, Outlived

-----------------------------------------------------------------------------
(* TypeOK *)

LEMMA TypesInit == Init => TypeOK
<1>1. SUFFICES ASSUME Init PROVE TypeOK
  OBVIOUS
<1>2. status.healthy <=> status.error = "none"
  BY <1>1, Zenon DEF Init
<1>3. QED
  BY <1>1, <1>2, ProgramAssumption DEF Init, TypeOK

\* The variables run has nothing to do with are of their type when it is left
\* to it to change the other two.
LEMMA TypesOfRun ==
    ASSUME TypeOK, UNCHANGED <<cfg, up, checker, status, downFor>>,
           tasks' \subseteq {"refresh", "health", "metrics", "admin"},
           pc' \in {"load", "logging", "token", "health", "metrics", "admin", "listen",
                    "serving", "exited"}
    PROVE  TypeOK'
BY DEF TypeOK

LEMMA TypesNext == TypeOK /\ [Next]_vars => TypeOK'
<1>1. SUFFICES ASSUME TypeOK, [Next]_vars PROVE TypeOK'
  OBVIOUS
<1>2. CASE UNCHANGED vars
  BY <1>1, <1>2 DEF TypeOK, vars
<1>3. CASE Run \/ AcceptFails
  <2>1. CASE Load
    BY <1>1, <2>1, TypesOfRun, Zenon DEF Load, Exit, Goto, TypeOK
  <2>2. CASE InitLogging
    BY <1>1, <2>2, TypesOfRun, Zenon DEF InitLogging, Exit, Goto, TypeOK
  <2>3. CASE StartToken
    BY <1>1, <2>3, TypesOfRun DEF StartToken, Goto, TypeOK
  <2>4. CASE StartHealth
    <3>1. status'.healthy <=> status'.error = "none"
      BY <2>4, Zenon DEF StartHealth
    <3>2. /\ status' \in [healthy : BOOLEAN, error : {"none", "connection failed", "timed out"},
                          age : 0..MaxAge]
          /\ checker' \in [at : {"sleep", "connect"}, age : 0..MaxAge]
          /\ downFor' \in 0..MaxAge
      BY <2>4, ProgramAssumption DEF StartHealth
    <3>3. QED
      BY <1>1, <2>4, <3>1, <3>2 DEF StartHealth, TypeOK
  <2>5. CASE StartMetrics
    BY <1>1, <2>5, TypesOfRun DEF StartMetrics, Goto, TypeOK
  <2>6. CASE StartAdmin
    BY <1>1, <2>6, TypesOfRun DEF StartAdmin, Goto, TypeOK
  <2>7. CASE Listen
    BY <1>1, <2>7, TypesOfRun, Zenon DEF Listen, Exit, Goto, TypeOK
  <2>8. CASE AcceptFails
    BY <1>1, <2>8, TypesOfRun DEF AcceptFails, Exit, TypeOK
  <2>9. QED
    BY <1>3, <2>1, <2>2, <2>3, <2>4, <2>5, <2>6, <2>7, <2>8 DEF Run
<1>4. CASE \E x \in {"metrics", "admin"} : ServerFails(x)
  BY <1>1, <1>4, TypesOfRun DEF ServerFails, TypeOK
<1>5. CASE CheckBegins
  <2>1. UNCHANGED <<cfg, pc, tasks, up, status, downFor>>
    BY <1>5, Zenon DEF CheckBegins
  <2>2. checker' \in [at : {"sleep", "connect"}, age : 0..MaxAge]
    BY <1>5, ProgramAssumption DEF CheckBegins
  <2>3. QED
    BY <1>1, <2>1, <2>2 DEF TypeOK
<1>6. CASE CheckEnds
  <2>1. status' \in {Found(TRUE, "none"), Found(FALSE, "connection failed"),
                     Found(FALSE, "timed out")}
    BY <1>6 DEF CheckEnds
  <2>2. status'.healthy <=> status'.error = "none"
    BY <2>1, FoundHealthy, FoundFields, Zenon
  <2>3. status' \in [healthy : BOOLEAN, age : 0..MaxAge,
                     error : {"none", "connection failed", "timed out"}]
    BY <2>1, FoundType, Zenon
  <2>4. checker' \in [at : {"sleep", "connect"}, age : 0..MaxAge]
    <3>1. checker' = [at |-> "sleep", age |-> 0]
      BY <1>6, Zenon DEF CheckEnds
    <3>2. QED
      BY <3>1, ProgramAssumption
  <2>5. QED
    BY <1>1, <1>6, <2>2, <2>3, <2>4 DEF CheckEnds, TypeOK
<1>7. CASE BackendChanges
  <2>1. up' \in BOOLEAN
    BY <1>7, Zenon DEF BackendChanges
  <2>2. downFor' \in 0..MaxAge
    BY <1>7, ProgramAssumption DEF BackendChanges
  <2>3. QED
    BY <1>1, <1>7, <2>1, <2>2 DEF BackendChanges, TypeOK
<1>8. CASE Tick
  <2>1. /\ Older(checker.age) \in 0..MaxAge /\ Older(status.age) \in 0..MaxAge
        /\ Older(downFor) \in 0..MaxAge
    BY <1>1, OlderFacts DEF TypeOK
  <2>2. downFor' \in 0..MaxAge
    BY <1>8, <2>1, ProgramAssumption DEF Tick
  <2>3. checker' \in [at : {"sleep", "connect"}, age : 0..MaxAge]
    BY <1>1, <1>8, <2>1 DEF Tick, TypeOK
  <2>4. status' \in [healthy : BOOLEAN, error : {"none", "connection failed", "timed out"},
                     age : 0..MaxAge]
    BY <1>1, <1>8, <2>1 DEF Tick, TypeOK
  <2>5. status'.healthy = status.healthy /\ status'.error = status.error
    BY <1>1, <1>8 DEF Tick, TypeOK
  <2>6. QED
    BY <1>1, <1>8, <2>2, <2>3, <2>4, <2>5 DEF Tick, TypeOK
<1>9. QED
  BY <1>1, <1>2, <1>3, <1>4, <1>5, <1>6, <1>7, <1>8 DEF Next

\* The status explains itself, whatever fails and whenever the backend goes.
THEOREM ProgramTypes == Spec => []TypeOK
BY TypesInit, TypesNext, PTL DEF Spec

-----------------------------------------------------------------------------
(* OutageTold *)

LEMMA HealthInit == Init => HealthInv
BY ProgramAssumption DEF Init, HealthInv, CheckerStarted, Paced, StatusAge, Outlived

LEMMA HealthNext == TypeOK /\ HealthInv /\ [Next]_vars => HealthInv'
<1>1. SUFFICES ASSUME TypeOK, HealthInv, [Next]_vars PROVE HealthInv'
  OBVIOUS
<1>0. /\ checker.age \in 0..MaxAge /\ status.age \in 0..MaxAge /\ downFor \in 0..MaxAge
      /\ checker.at \in {"sleep", "connect"}
  BY <1>1 DEF TypeOK
<1>2. CASE UNCHANGED vars
  BY <1>1, <1>2 DEF HealthInv, CheckerStarted, Paced, StatusAge, Outlived, vars
<1>3. CASE Run \/ AcceptFails
  <2>1. CASE Load
    BY <1>1, <2>1, KeepsHealth, Zenon DEF Load, Exit, Goto, HealthInv, CheckerStarted
  <2>2. CASE InitLogging
    BY <1>1, <2>2, KeepsHealth, Zenon DEF InitLogging, Exit, Goto, HealthInv, CheckerStarted
  <2>3. CASE StartToken
    BY <1>1, <2>3, KeepsHealth DEF StartToken, Goto, HealthInv, CheckerStarted
  <2>4. CASE StartHealth
    <3>1. CheckerStarted'
      BY <1>1, <2>4 DEF StartHealth, HealthInv, CheckerStarted
    <3>2. Paced' /\ StatusAge' /\ Outlived'
      BY <2>4, ProgramAssumption DEF StartHealth, Paced, StatusAge, Outlived
    <3>3. QED
      BY <3>1, <3>2 DEF HealthInv
  <2>5. CASE StartMetrics
    BY <1>1, <2>5, KeepsHealth DEF StartMetrics, Goto
  <2>6. CASE StartAdmin
    BY <1>1, <2>6, KeepsHealth DEF StartAdmin, Goto
  <2>7. CASE Listen
    BY <1>1, <2>7, KeepsHealth, Zenon DEF Listen, Exit, Goto
  <2>8. CASE AcceptFails
    BY <1>1, <2>8, KeepsHealth DEF AcceptFails, Exit
  <2>9. QED
    BY <1>3, <2>1, <2>2, <2>3, <2>4, <2>5, <2>6, <2>7, <2>8 DEF Run
<1>4. CASE \E x \in {"metrics", "admin"} : ServerFails(x)
  BY <1>1, <1>4, KeepsHealth DEF ServerFails, HealthInv, CheckerStarted
<1>5. CASE CheckBegins
  <2>1. /\ checker.at = "sleep" /\ checker'.at = "connect" /\ checker'.age = 0
        /\ status' = status
    BY <1>5 DEF CheckBegins
  <2>2. Paced' /\ StatusAge'
    BY <1>1, <1>0, <2>1, ProgramAssumption DEF HealthInv, Paced, StatusAge
  <2>3. CheckerStarted' /\ Outlived'
    BY <1>1, <1>5 DEF CheckBegins, HealthInv, CheckerStarted, Outlived
  <2>4. QED
    BY <2>2, <2>3 DEF HealthInv
<1>6. CASE CheckEnds
  <2>1. status'.age = 0 /\ (status'.healthy => up)
    <3>1. \/ up /\ status' = Found(TRUE, "none")
          \/ status' = Found(FALSE, "connection failed")
          \/ status' = Found(FALSE, "timed out")
      BY <1>6, Zenon DEF CheckEnds
    <3>2. status'.age = 0
      <4>1. \A h \in {TRUE, FALSE} : \A e : Found(h, e).age = 0
        BY FoundFields, Zenon
      <4> QED BY <3>1, <4>1
    <3>3. status'.healthy => up
      BY <3>1, FoundHealthy, Zenon
    <3>4. QED
      BY <3>2, <3>3
  <2>2. checker'.at = "sleep" /\ checker'.age = 0
    BY <1>6 DEF CheckEnds
  <2>3. Paced' /\ StatusAge'
    BY <2>1, <2>2, ProgramAssumption DEF Paced, StatusAge
  <2>4. CheckerStarted'
    BY <1>1, <1>6 DEF CheckEnds, HealthInv, CheckerStarted
  <2>5. up' = up /\ downFor' = downFor
    BY <1>6, Zenon DEF CheckEnds
  <2>6. Outlived'
    BY <1>1, <2>1, <2>5 DEF HealthInv, Outlived
  <2>7. QED
    BY <2>3, <2>4, <2>6 DEF HealthInv
<1>7. CASE BackendChanges
  <2>1. downFor' = 0 /\ UNCHANGED <<cfg, pc, tasks, checker, status>>
    BY <1>7, Zenon DEF BackendChanges
  <2>2. Outlived'
    BY <1>0, <2>1 DEF Outlived
  <2>3. CheckerStarted' /\ Paced' /\ StatusAge'
    BY <1>1, <2>1 DEF HealthInv, CheckerStarted, Paced, StatusAge
  <2>4. QED
    BY <2>2, <2>3 DEF HealthInv
<1>8. CASE Tick
  <2>1. /\ checker'.at = checker.at /\ checker'.age = Older(checker.age)
        /\ status'.age = Older(status.age)
    BY <1>1, <1>8 DEF Tick, TypeOK
  <2>2. status'.healthy <=> status.healthy
    BY <1>1, <1>8 DEF Tick, TypeOK
  <2>3. CheckerStarted'
    BY <1>1, <1>8 DEF Tick, HealthInv, CheckerStarted
  <2>4. /\ checker.at = "sleep" => checker.age < Interval
        /\ checker.at = "connect" => checker.age < CheckTimeout
    <3>1. /\ checker.at = "sleep" => checker.age < Interval
          /\ checker.at = "connect" => ~(checker.age >= CheckTimeout)
      BY <1>8 DEF Tick, ConnectDue, Checking
    <3>2. QED
      BY <1>0, <3>1, ProgramAssumption
  <2>5. Paced'
    BY <1>0, <2>1, <2>4, OlderFacts, ProgramAssumption DEF Paced
  <2>6. StatusAge'
    <3>1. Older(checker.age) = checker.age + 1
      BY <1>0, <2>4, OlderFacts, ProgramAssumption
    <3>2. Older(status.age) <= status.age + 1
      BY <1>0, OlderFacts
    <3>3. Older(status.age) \in Nat
      BY <1>0, OlderFacts
    <3>4. QED
      BY <1>1, <1>0, <2>1, <3>1, <3>2, <3>3, ProgramAssumption DEF HealthInv, StatusAge
  <2>7. Outlived'
    <3>1. downFor <= status.age => Older(downFor) <= Older(status.age)
      BY <1>0, OlderFacts
    <3>2. Older(status.age) \in 0..MaxAge
      BY <1>0, OlderFacts
    <3>3. CASE up
      BY <1>8, <2>1, <3>2, <3>3 DEF Tick, Outlived
    <3>4. CASE ~up
      BY <1>1, <1>8, <2>1, <2>2, <3>1, <3>4 DEF Tick, HealthInv, Outlived
    <3>5. QED
      BY <3>3, <3>4
  <2>8. QED
    BY <2>3, <2>5, <2>6, <2>7 DEF HealthInv
<1>9. QED
  BY <1>1, <1>2, <1>3, <1>4, <1>5, <1>6, <1>7, <1>8 DEF Next

LEMMA HealthImplies == TypeOK /\ HealthInv => OutageTold
<1>1. SUFFICES ASSUME TypeOK, HealthInv, "health" \in tasks, HealthAnswer.healthy
               PROVE  downFor <= Interval + CheckTimeout
  BY DEF OutageTold
<1>2. status.healthy
  BY <1>1 DEF HealthInv, CheckerStarted, HealthAnswer
<1>3. /\ checker.age \in 0..MaxAge /\ status.age \in 0..MaxAge /\ downFor \in 0..MaxAge
      /\ checker.at \in {"sleep", "connect"}
  BY <1>1 DEF TypeOK
<1>4. downFor <= status.age
  BY <1>1, <1>2 DEF HealthInv, Outlived
<1>5. status.age <= Interval + CheckTimeout
  BY <1>1, <1>3, ProgramAssumption DEF HealthInv, Paced, StatusAge
<1>6. QED
  BY <1>3, <1>4, <1>5, ProgramAssumption

\* GET /health does not call a backend healthy that has been down for longer
\* than an interval and a time limit, although nothing may answer the checks.
THEOREM OutageIsTold == Spec => []OutageTold
<1>1. Spec => [](TypeOK /\ HealthInv)
  BY TypesInit, TypesNext, HealthInit, HealthNext, PTL DEF Spec
<1>2. QED
  BY <1>1, HealthImplies, PTL

-----------------------------------------------------------------------------
(* StartupCodec: the inductive invariant *)

Plain == Codec!Bytes \ {Nul}

\* What the loop finds: keys that are not empty, and nothing with a NUL in it.
Pairs == (Seq(Plain) \ {<<>>}) \X Seq(Plain)

CodecTypes ==
    /\ len \in -1..MaxLen /\ buf \in Seq(Codec!Bytes)
    /\ code \in {"Version3", "SSLRequest", "CancelRequest", "other"}
    /\ codecPc \in {"length", "loop", "found", "write"} \union Codec!Outcomes
    /\ offset \in Nat \ {0} /\ params \in Seq(Pairs)
    /\ next \in Nat \ {0} /\ sent \in Seq(Pairs)
    /\ first # <<>> => /\ first[1].user \in Seq(Plain) /\ first[1].database \in Seq(Plain)
                       /\ first[1].params \in Seq(Pairs)

\* What leads to where the codec is; a message that is terminated keeps the
\* loop within it.
CodecPlaces ==
    /\ codecPc \in {"loop", "found", "startup", "write"} \/ first # <<>> => code = "Version3"
    /\ codecPc = "startup" => Codec!Matches(User) # {}
    /\ codecPc = "write" => first # <<>>
    /\ codecPc = "length" => offset = 1 /\ params = <<>>
    /\ codecPc = "loop" /\ Codec!Terminated => offset <= Len(buf) + 1
    /\ PanicsOnlyMalformed

\* f picks, in their order, the first n of a list's pairs that are other
\* parameters, for the places from 3 to m.
Picks(f, m, pairs, n) ==
    /\ f \in [3..m -> 1..n]
    /\ \A i \in 3..m : Codec!IsOther(pairs[f[i]])
    /\ \A j \in 1..n : Codec!IsOther(pairs[j]) => \E i \in 3..m : f[i] = j
    /\ \A i, k \in 3..m : i < k => f[i] < f[k]

\* What is written is user, database and the others among the parameters.
Chosen ==
    first # <<>> =>
        /\ Len(sent) >= 2 /\ next <= Len(first[1].params) + 1
        /\ sent[1] = Codec!UserPair(first[1]) /\ sent[2] = Codec!DatabasePair(first[1])
        /\ codecPc # "write" => next = Len(first[1].params) + 1
        /\ \E f : /\ Picks(f, Len(sent), first[1].params, next - 1)
                  /\ \A i \in 3..Len(sent) : sent[i] = first[1].params[f[i]]

\* A pair is in b from a place on.
Holds(b, from, p) ==
    /\ \A i \in 1..Len(p[1]) : b[from - 1 + i] = p[1][i]
    /\ b[from + Len(p[1])] = Nul
    /\ \A i \in 1..Len(p[2]) : b[from + Len(p[1]) + i] = p[2][i]
    /\ b[from + Len(p[1]) + Len(p[2]) + 1] = Nul

\* The pairs are in b one after the other, at the places at, and end before
\* the last of these.
Layout(b, pairs, at) ==
    /\ at \in [1..Len(pairs) + 1 -> Nat \ {0}] /\ at[1] = 1
    /\ \A k \in 1..Len(pairs) :
         /\ Holds(b, at[k], pairs[k])
         /\ at[k + 1] = at[k] + Len(pairs[k][1]) + Len(pairs[k][2]) + 2
         /\ at[k + 1] <= at[Len(pairs) + 1]

Writing ==
    codecPc = "write" => \E at : Layout(buf, sent, at) /\ Len(buf) = at[Len(sent) + 1] - 1

\* Of the message that was written, the pairs before offset have been read.
ReadingBack ==
    first # <<>> /\ codecPc # "write" =>
        /\ codecPc \in {"length", "loop", "found", "startup"} /\ len = Len(buf) + 8
        /\ Len(params) <= Len(sent) /\ \A i \in 1..Len(params) : params[i] = sent[i]
        /\ codecPc \in {"found", "startup"} => Len(params) = Len(sent)
        /\ \E at : /\ Layout(buf, sent, at) /\ offset = at[Len(params) + 1]
                   /\ Len(buf) = at[Len(sent) + 1] /\ buf[Len(buf)] = Nul

CodecInv == CodecTypes /\ CodecPlaces /\ Chosen /\ Writing /\ ReadingBack

-----------------------------------------------------------------------------
(* StartupCodec: lemmas about its operators *)

\* c is s with t behind it.
Behind(c, s, t) ==
    /\ Len(s) \in Nat /\ Len(t) \in Nat /\ Len(c) = Len(s) + Len(t)
    /\ \A i \in 1..Len(s) : c[i] = s[i]
    /\ \A i \in 1..Len(t) : c[Len(s) + i] = t[i]

LEMMA Joined ==
    ASSUME NEW B, NEW s \in Seq(B), NEW t \in Seq(B)
    PROVE  s \o t \in Seq(B) /\ Behind(s \o t, s, t)
PROOF
<1> DEFINE c == s \o t
           l == Len(s)
           m == Len(t)
<1>1. l \in Nat /\ m \in Nat
      BY LenProperties
<1>2. /\ c \in Seq(B) /\ Len(c) = l + m
      /\ \A i \in 1..l + m : c[i] = IF i <= l THEN s[i] ELSE t[i - l]
      BY ConcatProperties
<1> HIDE DEF c, l, m
<1>3. \A i \in 1..l : i \in 1..l + m /\ i <= l
      BY <1>1
<1>4. \A i \in 1..m : l + i \in 1..l + m /\ ~(l + i <= l) /\ (l + i) - l = i
      BY <1>1
<1>5. \A i \in 1..l : c[i] = s[i]
      BY <1>2, <1>3
<1>6. \A i \in 1..m : c[l + i] = t[i]
      BY <1>2, <1>4
<1>7. Behind(c, s, t)
      BY <1>1, <1>2, <1>5, <1>6 DEF Behind, l, m
<1> QED BY <1>2, <1>7 DEF c

\* A set of numbers that is not empty has a least one, which is its Min.
LEMMA LeastOf ==
    ASSUME NEW I, I \subseteq Nat, I # {}
    PROVE  Codec!Min(I) \in I /\ \A i \in I : Codec!Min(I) <= i
PROOF
<1>1. PICK i \in I : \A j \in I : <<j, i>> \notin OpToRel(<, Nat)
      BY NatLessThanWellFounded, WFMin
<1>2. \A j \in I : ~(j < i)
      BY <1>1, Zenon DEF OpToRel
<1>3. \A j \in I : i <= j
      BY <1>2
<1> QED BY <1>3, Zenon DEF Codec!Min

LEMMA NulFromIs ==
    ASSUME NEW from \in Nat \ {0}, Len(buf) \in Nat
    PROVE  /\ Codec!NulFrom(from) = 0 => \A i \in from..Len(buf) : buf[i] # Nul
           /\ Codec!NulFrom(from) # 0 =>
                /\ Codec!NulFrom(from) \in from..Len(buf)
                /\ buf[Codec!NulFrom(from)] = Nul
                /\ \A i \in from..(Codec!NulFrom(from) - 1) : buf[i] # Nul
PROOF
<1> DEFINE I == Codec!NulsFrom(from)
           n == Codec!Min(I)
<1>1. I \subseteq Nat /\ \A i : i \in I <=> i \in from..Len(buf) /\ buf[i] = Nul
      BY DEF Codec!NulsFrom
<1>2. CASE I = {}
  <2>1. Codec!NulFrom(from) = 0
        BY <1>2 DEF Codec!NulFrom
  <2> HIDE DEF I
  <2> QED BY <1>1, <1>2, <2>1
<1>3. CASE I # {}
  <2>1. Codec!NulFrom(from) = n
        BY <1>3 DEF Codec!NulFrom
  <2> HIDE DEF I
  <2>2. n \in I /\ \A i \in I : n <= i
        BY <1>1, <1>3, LeastOf
  <2> HIDE DEF n
  <2>3. n \in from..Len(buf) /\ buf[n] = Nul /\ n # 0
        BY <1>1, <2>2
  <2>4. \A i \in from..(n - 1) : buf[i] # Nul
    <3> SUFFICES ASSUME NEW i \in from..(n - 1), buf[i] = Nul PROVE FALSE
        OBVIOUS
    <3>1. i \in from..Len(buf) /\ ~(n <= i)
          BY <2>3
    <3> QED BY <1>1, <2>2, <3>1
  <2> QED BY <2>1, <2>3, <2>4
<1> QED BY <1>2, <1>3

\* Where the first NUL is seen to be, there it is.
LEMMA NulFromThere ==
    ASSUME NEW from \in Nat \ {0}, Len(buf) \in Nat,
           NEW k \in from..Len(buf), buf[k] = Nul, \A i \in from..(k - 1) : buf[i] # Nul
    PROVE  Codec!NulFrom(from) = k
PROOF
<1> DEFINE n == Codec!NulFrom(from)
<1>1. n # 0
      BY NulFromIs
<1>2. n \in from..Len(buf) /\ buf[n] = Nul /\ \A i \in from..(n - 1) : buf[i] # Nul
      BY <1>1, NulFromIs
<1> HIDE DEF n
<1>3. ~(n < k) /\ ~(k < n)
      BY <1>2
<1>4. n = k
      BY <1>2, <1>3
<1> QED BY <1>4 DEF n

\* A part of the message without a NUL in it.
LEMMA PlainPart ==
    ASSUME buf \in Seq(Codec!Bytes), NEW a \in Nat \ {0}, NEW b \in Nat, b <= Len(buf),
           \A i \in a..b : buf[i] # Nul
    PROVE  /\ SubSeq(buf, a, b) \in Seq(Plain)
           /\ Len(SubSeq(buf, a, b)) = (IF a <= b THEN b - a + 1 ELSE 0)
           /\ \A i \in 1..Len(SubSeq(buf, a, b)) : SubSeq(buf, a, b)[i] = buf[a + i - 1]
PROOF
<1>0. Len(buf) \in Nat
      BY LenProperties
<1>1. a..b \subseteq 1..Len(buf) /\ \A i \in a..b : buf[i] \in Plain
  <2>1. a..b \subseteq 1..Len(buf)
        BY <1>0
  <2> QED BY <2>1, ElementOfSeq DEF Plain
<1> HIDE DEF Plain
<1> QED BY <1>0, <1>1, SubSeqProperties

\* One turn of the loop finds a pair.
LEMMA PairFound ==
    ASSUME buf \in Seq(Codec!Bytes), offset \in Nat \ {0}, NEW keyEnd, NEW valEnd,
           keyEnd = Codec!NulFrom(offset), keyEnd \notin {0, offset},
           valEnd = Codec!ValueEnd(keyEnd)
    PROVE  /\ <<SubSeq(buf, offset, keyEnd - 1), SubSeq(buf, keyEnd + 1, valEnd - 1)>> \in Pairs
           /\ keyEnd \in offset..Len(buf) /\ valEnd \in (keyEnd + 1)..(Len(buf) + 1)
PROOF
<1>0. Len(buf) \in Nat
      BY LenProperties
<1>1. /\ keyEnd \in offset..Len(buf) /\ keyEnd > offset /\ keyEnd + 1 \in Nat \ {0}
      /\ \A i \in offset..(keyEnd - 1) : buf[i] # Nul
      BY <1>0, NulFromIs
<1> DEFINE nul == Codec!NulFrom(keyEnd + 1)
<1>2. /\ nul = 0 => \A i \in (keyEnd + 1)..Len(buf) : buf[i] # Nul
      /\ nul # 0 => nul \in (keyEnd + 1)..Len(buf) /\ \A i \in (keyEnd + 1)..(nul - 1) : buf[i] # Nul
      BY <1>0, <1>1, NulFromIs
<1>3. valEnd = IF nul = 0 THEN Len(buf) + 1 ELSE nul
      BY DEF Codec!ValueEnd
<1> HIDE DEF nul
<1>4. /\ valEnd \in (keyEnd + 1)..(Len(buf) + 1)
      /\ \A i \in (keyEnd + 1)..(valEnd - 1) : buf[i] # Nul
  <2>1. CASE nul = 0
    <3>1. valEnd = Len(buf) + 1 /\ valEnd - 1 = Len(buf)
          BY <1>0, <1>3, <2>1
    <3> QED BY <1>0, <1>1, <1>2, <2>1, <3>1
  <2>2. CASE nul # 0
        BY <1>0, <1>1, <1>2, <1>3, <2>2
  <2> QED BY <2>1, <2>2
<1> DEFINE key == SubSeq(buf, offset, keyEnd - 1)
<1>5. key \in Seq(Plain) /\ Len(key) > 0
  <2>1. keyEnd - 1 \in Nat /\ keyEnd - 1 <= Len(buf) /\ offset <= keyEnd - 1
        BY <1>0, <1>1
  <2>2. key \in Seq(Plain) /\ Len(key) = (IF offset <= keyEnd - 1 THEN keyEnd - 1 - offset + 1 ELSE 0)
        BY <1>1, <2>1, PlainPart
  <2> HIDE DEF key
  <2>3. Len(key) = keyEnd - 1 - offset + 1
        BY <2>1, <2>2
  <2>4. keyEnd - 1 - offset + 1 > 0
        BY <1>1
  <2> QED BY <2>2, <2>3, <2>4
<1>6. key # <<>>
  <2> HIDE DEF key
  <2> QED BY <1>5
<1>7. SubSeq(buf, keyEnd + 1, valEnd - 1) \in Seq(Plain)
  <2>1. valEnd - 1 \in Nat /\ valEnd - 1 <= Len(buf)
        BY <1>0, <1>1, <1>4
  <2> QED BY <1>1, <1>4, <2>1, PlainPart
<1> QED BY <1>1, <1>4, <1>5, <1>6, <1>7 DEF Pairs

\* A plain part of the message that reads like s is s.
LEMMA PartIs ==
    ASSUME buf \in Seq(Codec!Bytes), NEW a \in Nat \ {0}, NEW s \in Seq(Plain),
           a + Len(s) - 1 <= Len(buf), \A i \in 1..Len(s) : buf[a - 1 + i] = s[i]
    PROVE  /\ SubSeq(buf, a, a + Len(s) - 1) = s
           /\ \A i \in a..(a + Len(s) - 1) : buf[i] # Nul
PROOF
<1>1. Len(s) \in Nat /\ a + Len(s) - 1 \in Nat
      BY LenProperties
<1>2. \A i \in a..(a + Len(s) - 1) : buf[i] # Nul
  <2> TAKE i \in a..(a + Len(s) - 1)
  <2>1. i - a + 1 \in 1..Len(s) /\ a - 1 + (i - a + 1) = i
        BY <1>1
  <2>2. buf[i] = s[i - a + 1]
        BY <2>1
  <2>3. s[i - a + 1] \in Plain
        BY <2>1, ElementOfSeq
  <2> QED BY <2>2, <2>3 DEF Plain
<1> DEFINE b == a + Len(s) - 1
           part == SubSeq(buf, a, b)
<1>3. /\ part \in Seq(Plain) /\ Len(part) = (IF a <= b THEN b - a + 1 ELSE 0)
      /\ \A i \in 1..Len(part) : part[i] = buf[a + i - 1]
      BY <1>1, <1>2, PlainPart
<1> HIDE DEF part
<1>4. Len(part) = Len(s)
      BY <1>1, <1>3
<1>5. \A i \in 1..Len(part) : part[i] = s[i]
  <2> TAKE i \in 1..Len(part)
  <2>1. i \in 1..Len(s) /\ a + i - 1 = a - 1 + i
        BY <1>1, <1>4
  <2> QED BY <1>3, <2>1
<1>6. part = s
      BY <1>3, <1>4, <1>5, SeqEqual
<1> QED BY <1>2, <1>6 DEF part

\* The pair that is at offset is the one the loop finds.
LEMMA PairThere ==
    ASSUME buf \in Seq(Codec!Bytes), offset \in Nat \ {0}, NEW p \in Pairs,
           Holds(buf, offset, p), offset + Len(p[1]) + Len(p[2]) + 1 <= Len(buf)
    PROVE  LET keyEnd == Codec!NulFrom(offset)
               valEnd == Codec!ValueEnd(keyEnd)
           IN  /\ keyEnd \notin {0, offset}
               /\ <<SubSeq(buf, offset, keyEnd - 1), SubSeq(buf, keyEnd + 1, valEnd - 1)>> = p
               /\ valEnd + 1 = offset + Len(p[1]) + Len(p[2]) + 2
PROOF
<1> DEFINE k == p[1]
           v == p[2]
           keyEnd == Codec!NulFrom(offset)
           valEnd == Codec!ValueEnd(keyEnd)
<1>1. k \in Seq(Plain) /\ v \in Seq(Plain) /\ k # <<>> /\ p = <<k, v>>
      BY DEF Pairs
<1>2. /\ \A i \in 1..Len(k) : buf[offset - 1 + i] = k[i]
      /\ buf[offset + Len(k)] = Nul
      /\ \A i \in 1..Len(v) : buf[offset + Len(k) + i] = v[i]
      /\ buf[offset + Len(k) + Len(v) + 1] = Nul
      /\ offset + Len(k) + Len(v) + 1 <= Len(buf)
      BY DEF Holds
<1> HIDE DEF k, v
<1>3. Len(k) \in Nat /\ Len(v) \in Nat /\ Len(buf) \in Nat /\ Len(k) > 0
      BY <1>1, LenProperties, EmptySeq
<1>4. /\ SubSeq(buf, offset, offset + Len(k) - 1) = k
      /\ \A i \in offset..(offset + Len(k) - 1) : buf[i] # Nul
  <2>1. offset + Len(k) - 1 <= Len(buf)
        BY <1>2, <1>3
  <2> QED BY <1>1, <1>2, <2>1, PartIs
<1>5. keyEnd = offset + Len(k)
  <2>1. offset + Len(k) \in offset..Len(buf)
        BY <1>2, <1>3
  <2> QED BY <1>2, <1>3, <1>4, <2>1, NulFromThere
<1> DEFINE from == offset + Len(k) + 1
<1>6. from \in Nat \ {0} /\ from - 1 = offset + Len(k)
      BY <1>3
<1>7. /\ \A i \in 1..Len(v) : buf[from - 1 + i] = v[i]
      /\ buf[from + Len(v)] = Nul /\ from + Len(v) <= Len(buf)
  <2>1. from + Len(v) = offset + Len(k) + Len(v) + 1
        BY <1>3
  <2> QED BY <1>2, <1>6, <2>1
<1>8. keyEnd + 1 = from /\ keyEnd - 1 = offset + Len(k) - 1
      BY <1>5
<1> HIDE DEF from
<1>9. /\ SubSeq(buf, from, from + Len(v) - 1) = v
      /\ \A i \in from..(from + Len(v) - 1) : buf[i] # Nul
  <2>1. from + Len(v) - 1 <= Len(buf)
        BY <1>3, <1>6, <1>7
  <2> QED BY <1>1, <1>6, <1>7, <2>1, PartIs
<1>10. Codec!NulFrom(from) = from + Len(v)
  <2> DEFINE n == from + Len(v)
  <2>1. n \in from..Len(buf) /\ buf[n] = Nul
        BY <1>3, <1>6, <1>7
  <2>2. \A i \in from..(n - 1) : buf[i] # Nul
        BY <1>3, <1>6, <1>9
  <2> HIDE DEF n
  <2>3. Codec!NulFrom(from) = n
        BY <1>3, <1>6, <2>1, <2>2, NulFromThere
  <2> QED BY <2>3 DEF n
<1>11. valEnd = from + Len(v)
  <2>1. from + Len(v) # 0
        BY <1>3, <1>6
  <2> QED BY <1>8, <1>10, <2>1 DEF Codec!ValueEnd
<1>12. keyEnd \notin {0, offset}
      BY <1>3, <1>5
<1>13. valEnd + 1 = offset + Len(k) + Len(v) + 2
      BY <1>3, <1>11 DEF from
<1> HIDE DEF keyEnd, valEnd
<1>14. <<SubSeq(buf, offset, keyEnd - 1), SubSeq(buf, keyEnd + 1, valEnd - 1)>> = p
  <2>1. valEnd - 1 = from + Len(v) - 1
        BY <1>3, <1>6, <1>11
  <2>2. SubSeq(buf, offset, keyEnd - 1) = k
        BY <1>4, <1>8
  <2>3. SubSeq(buf, keyEnd + 1, valEnd - 1) = v
        BY <1>8, <1>9, <2>1
  <2> QED BY <1>1, <2>2, <2>3
<1> QED BY <1>12, <1>13, <1>14 DEF k, v, keyEnd, valEnd

-----------------------------------------------------------------------------
(* StartupCodec: the steps that read *)

USE DEF PanicsOnlyMalformed, Codec!PanicsOnlyMalformed

\* A length of 8 or more is what it says, and 4 less is no more than 4 less.
LEMMA LengthHolds ==
    ASSUME len \in -1..MaxLen
    PROVE  /\ len \in Int
           /\ len >= 8 => ~Codec!BadLength
PROOF
<1>1. Word \in Nat /\ MaxLen \in Nat /\ 2 * MaxLen < Word
      BY CodecAssumption DEF Codec!CodecAssumption
<1>2. \A n \in 0..MaxLen : n % Word = n
      BY <1>1
<1>3. len \in Int
      BY <1>1
<1>4. ASSUME len >= 8 PROVE Codec!Payload = len - 4
  <2>1. len \in 0..MaxLen /\ len - 4 \in 0..MaxLen
        BY <1>1, <1>4
  <2>2. Codec!Usize(len) = len /\ Codec!Usize(len - 4) = len - 4
        BY <1>2, <2>1 DEF Codec!Usize
  <2> QED BY <2>2 DEF Codec!Payload
<1>5. len >= 8 => ~(2 * (len - 4) >= Word) /\ ~(len - 4 < 4)
      BY <1>1, <1>3
<1> QED BY <1>3, <1>4, <1>5 DEF Codec!BadLength, Codec!TooLong

LEMMA CodecInit ==
    ASSUME Codec!Init
    PROVE  CodecInv
PROOF
<1>1. /\ codecPc = "length" /\ offset = 1 /\ params = <<>> /\ first = <<>> /\ next = 1
      /\ sent = <<>> /\ code \in {"Version3", "SSLRequest", "CancelRequest", "other"}
      BY DEF Codec!Init
<1>2. len \in -1..MaxLen
  <2>1. len \in -1..(MaxBytes + 8)
        BY Zenon DEF Codec!Init
  <2> QED BY <2>1, CodecAssumption DEF Codec!CodecAssumption
<1>3. buf \in Seq(Codec!Bytes)
  <2>1. CASE len > 8 /\ code = "Version3"
    <3>1. buf \in [1..(len - 8) -> Codec!Bytes]
          BY <2>1, Zenon DEF Codec!Init
    <3>2. len \in Int
          BY <1>2, LengthHolds
    <3>3. len > 8
          BY <2>1
    <3>4. len - 8 \in Nat
          BY <3>2, <3>3
    <3> HIDE DEF Codec!Bytes
    <3> QED BY <3>1, <3>4
  <2>2. CASE ~(len > 8 /\ code = "Version3")
    <3>1. buf = <<>>
          BY <2>2 DEF Codec!Init
    <3> QED BY <3>1
  <2> QED BY <2>1, <2>2
<1>4. CodecTypes
  <2>1. <<>> \in Seq(Pairs) /\ 1 \in Nat \ {0}
        OBVIOUS
  <2>2. params \in Seq(Pairs) /\ sent \in Seq(Pairs)
        BY <1>1, <2>1
  <2>3. offset \in Nat \ {0} /\ next \in Nat \ {0}
        BY <1>1, <2>1
  <2> QED BY <1>1, <1>2, <1>3, <2>2, <2>3, Zenon DEF CodecTypes
<1> QED BY <1>1, <1>4 DEF CodecInv, CodecPlaces, Chosen, Writing, ReadingBack

\* What read_initial_message makes of length and code.
LEMMA LengthRead ==
    ASSUME CodecTypes, Codec!ReadLength
    PROVE  /\ codecPc' \in {"ssl", "cancel", "error", "panic", "loop"}
           /\ codecPc' = "loop" => code = "Version3"
           /\ codecPc' = "panic" => len < 8
           /\ len > 8 /\ code = "Version3" => codecPc' = "loop"
PROOF
<1>1. len \in Int /\ (len >= 8 => ~Codec!BadLength)
      BY LengthHolds DEF CodecTypes
<1>2. len \in Int
      BY <1>1, Zenon
<1>3. CASE len = 8 /\ codecPc' \in {"ssl", "cancel", "error"}
      BY <1>2, <1>3
<1>4. CASE Codec!BadLength /\ codecPc' = "panic"
  <2>1. ~(len >= 8) /\ codecPc' = "panic"
        BY <1>1, <1>4, Zenon
  <2> QED BY <1>2, <2>1
<1>5. CASE ~Codec!BadLength /\ code # "Version3" /\ codecPc' = "error"
      BY <1>5
<1>6. CASE ~Codec!BadLength /\ code = "Version3" /\ codecPc' = "loop"
      BY <1>6
<1>7. \/ len = 8 /\ codecPc' \in {"ssl", "cancel", "error"}
      \/ Codec!BadLength /\ codecPc' = "panic"
      \/ ~Codec!BadLength /\ code # "Version3" /\ codecPc' = "error"
      \/ ~Codec!BadLength /\ code = "Version3" /\ codecPc' = "loop"
      BY Zenon DEF Codec!ReadLength
<1> QED BY <1>3, <1>4, <1>5, <1>6, <1>7

LEMMA ReadLengthKeeps ==
    ASSUME CodecInv, Codec!ReadLength
    PROVE  CodecInv'
PROOF
<1>1. /\ codecPc = "length" /\ offset = 1 /\ params = <<>>
      /\ UNCHANGED <<len, code, buf, offset, params, first, next, sent>>
      BY DEF Codec!ReadLength, CodecInv, CodecPlaces
<1>2. /\ codecPc' \in {"ssl", "cancel", "error", "panic", "loop"}
      /\ codecPc' = "loop" => code = "Version3"
      /\ codecPc' = "panic" => len < 8
      /\ len > 8 /\ code = "Version3" => codecPc' = "loop"
      BY LengthRead DEF CodecInv
<1>3. Len(buf) \in Nat
      BY LenProperties DEF CodecInv, CodecTypes
<1>4. CodecTypes'
      BY <1>1, <1>2 DEF CodecInv, CodecTypes, Codec!Outcomes
<1>5. CodecPlaces'
  <2>1. first # <<>> => code = "Version3"
        BY DEF CodecInv, CodecPlaces
  <2>2. offset <= Len(buf) + 1
        BY <1>1, <1>3
  <2> QED BY <1>1, <1>2, <2>1, <2>2 DEF CodecPlaces
<1>6. Chosen' /\ Writing'
      BY <1>1, <1>2 DEF CodecInv, Chosen, Writing
<1>7. ReadingBack'
  <2> SUFFICES ASSUME first # <<>> PROVE ReadingBack'
      BY <1>1 DEF ReadingBack
  <2>1. ReadingBack /\ code = "Version3"
        BY DEF CodecInv, CodecPlaces
  <2>2. len > 8
    <3>1. PICK at : Layout(buf, sent, at) /\ Len(buf) = at[Len(sent) + 1]
          BY <1>1, <2>1 DEF ReadingBack
    <3>2. len = Len(buf) + 8
          BY <1>1, <2>1 DEF ReadingBack
    <3>3. Len(sent) \in Nat
          BY LenProperties DEF CodecInv, CodecTypes
    <3>4. at[Len(sent) + 1] \in Nat \ {0}
      <4>1. Len(sent) + 1 \in 1..Len(sent) + 1
            BY <3>3
      <4> QED BY <3>1, <4>1 DEF Layout
    <3> QED BY <1>3, <3>1, <3>2, <3>4
  <2>3. codecPc' = "loop"
        BY <1>2, <2>1, <2>2
  <2> QED BY <1>1, <2>1, <2>3 DEF ReadingBack
<1> QED BY <1>4, <1>5, <1>6, <1>7 DEF CodecInv

\* Where the message that was written is read.
LEMMA NextPair ==
    ASSUME CodecInv, first # <<>>, codecPc = "loop"
    PROVE  /\ offset <= Len(buf)
           /\ Codec!NulFrom(offset) \in {0, offset} => Len(params) = Len(sent)
           /\ Codec!NulFrom(offset) \notin {0, offset} =>
                LET keyEnd == Codec!NulFrom(offset)
                    valEnd == Codec!ValueEnd(keyEnd)
                IN  /\ Len(params) + 1 \in 1..Len(sent)
                    /\ <<SubSeq(buf, offset, keyEnd - 1), SubSeq(buf, keyEnd + 1, valEnd - 1)>>
                         = sent[Len(params) + 1]
                    /\ \A at : Layout(buf, sent, at) /\ offset = at[Len(params) + 1]
                                => Codec!After(valEnd) = at[Len(params) + 2]
PROOF
<1>1. PICK at : /\ Layout(buf, sent, at) /\ offset = at[Len(params) + 1]
                /\ Len(buf) = at[Len(sent) + 1] /\ buf[Len(buf)] = Nul
      BY DEF CodecInv, ReadingBack
<1>2. /\ buf \in Seq(Codec!Bytes) /\ offset \in Nat \ {0}
      /\ params \in Seq(Pairs) /\ sent \in Seq(Pairs)
      BY DEF CodecInv, CodecTypes
<1>3. Len(buf) \in Nat /\ Len(params) \in Nat /\ Len(sent) \in Nat /\ Len(params) <= Len(sent)
      BY <1>2, LenProperties DEF CodecInv, ReadingBack
<1>4. CASE Len(params) = Len(sent)
  <2>1. offset = Len(buf) /\ offset \in offset..Len(buf) /\ buf[offset] = Nul
        BY <1>1, <1>2, <1>4
  <2>2. \A i \in offset..(offset - 1) : buf[i] # Nul
        BY <1>2
  <2>3. Codec!NulFrom(offset) = offset
        BY <1>2, <1>3, <2>1, <2>2, NulFromThere
  <2> QED BY <1>3, <1>4, <2>1, <2>3
<1>5. CASE Len(params) # Len(sent)
  <2> DEFINE j == Len(params) + 1
             p == sent[j]
             keyEnd == Codec!NulFrom(offset)
             valEnd == Codec!ValueEnd(keyEnd)
             found == <<SubSeq(buf, offset, keyEnd - 1), SubSeq(buf, keyEnd + 1, valEnd - 1)>>
  <2>1. j \in 1..Len(sent) /\ j + 1 = Len(params) + 2
        BY <1>3, <1>5
  <2>2. p \in Pairs
        BY <1>2, <2>1, ElementOfSeq
  <2>3. /\ Holds(buf, at[j], p)
        /\ at[j + 1] = at[j] + Len(p[1]) + Len(p[2]) + 2
        /\ at[j + 1] <= at[Len(sent) + 1]
        BY <1>1, <2>1 DEF Layout
  <2>4. Len(p[1]) \in Nat /\ Len(p[2]) \in Nat
        BY <2>2, LenProperties DEF Pairs
  <2> HIDE DEF p
  <2>5. offset + Len(p[1]) + Len(p[2]) + 1 <= Len(buf) /\ Holds(buf, offset, p)
    <3>1. offset = at[j] /\ Len(buf) = at[Len(sent) + 1]
          BY <1>1
    <3> HIDE DEF j
    <3>2. Holds(buf, offset, p) /\ offset + Len(p[1]) + Len(p[2]) + 2 <= Len(buf)
          BY <2>3, <3>1
    <3>3. \A a, b \in Nat : offset + a + b + 2 <= Len(buf) => offset + a + b + 1 <= Len(buf)
          BY <1>2, <1>3
    <3> QED BY <2>4, <3>2, <3>3
  <2>6. /\ keyEnd \notin {0, offset} /\ found = p
        /\ valEnd + 1 = offset + Len(p[1]) + Len(p[2]) + 2
        BY <1>2, <2>2, <2>5, PairThere
  <2>7. \A a : Layout(buf, sent, a) /\ offset = a[j] => a[j + 1] = offset + Len(p[1]) + Len(p[2]) + 2
        BY <2>1 DEF Layout, p
  <2> HIDE DEF keyEnd, valEnd, found
  <2>8. offset <= Len(buf)
    <3>1. \A a, b \in Nat : offset + a + b + 1 <= Len(buf) => offset <= Len(buf)
          BY <1>2, <1>3
    <3> QED BY <2>4, <2>5, <3>1
  <2>9. \A a : Layout(buf, sent, a) /\ offset = a[j] => Codec!After(valEnd) = a[j + 1]
        BY <2>6, <2>7 DEF Codec!After
  <2> HIDE DEF j
  <2>10. \A a : Layout(buf, sent, a) /\ offset = a[Len(params) + 1]
                  => Codec!After(valEnd) = a[Len(params) + 2]
    <3>1. j = Len(params) + 1 /\ j + 1 = Len(params) + 2
          BY <2>1 DEF j
    <3> QED BY <2>9, <3>1, Zenon
  <2> QED BY <2>1, <2>6, <2>8, <2>10 DEF j, p, keyEnd, valEnd, found
<1> QED BY <1>4, <1>5

LEMMA ParameterKeeps ==
    ASSUME CodecInv, Codec!Parameter
    PROVE  CodecInv'
PROOF
<1> DEFINE keyEnd == Codec!NulFrom(offset)
           valEnd == Codec!ValueEnd(keyEnd)
           found  == <<SubSeq(buf, offset, keyEnd - 1), SubSeq(buf, keyEnd + 1, valEnd - 1)>>
<1>1. codecPc = "loop" /\ UNCHANGED <<len, code, buf, first, next, sent>>
      BY DEF Codec!Parameter
<1>2. /\ buf \in Seq(Codec!Bytes) /\ offset \in Nat \ {0} /\ params \in Seq(Pairs)
      /\ code = "Version3" /\ Len(buf) \in Nat
      BY <1>1, LenProperties DEF CodecInv, CodecTypes, CodecPlaces
<1>3. Chosen' /\ Writing'
  <2>1. codecPc' # "write"
        BY <1>1 DEF Codec!Parameter
  <2> QED BY <1>1, <2>1 DEF CodecInv, Chosen, Writing
<1>4. CASE offset > Len(buf) + 1 /\ codecPc' = "panic" /\ UNCHANGED <<offset, params>>
  <2>1. first = <<>>
        BY <1>1, <1>2, <1>4, NextPair
  <2>2. ~Codec!Terminated /\ ~Codec!Terminated'
    <3>1. ~Codec!Terminated
          BY <1>1, <1>2, <1>4 DEF CodecInv, CodecPlaces
    <3> QED BY <1>1, <3>1 DEF Codec!Terminated
  <2>3. CodecTypes'
        BY <1>1, <1>4 DEF CodecInv, CodecTypes, Codec!Outcomes
  <2>4. CodecPlaces' /\ ReadingBack'
        BY <1>1, <1>4, <2>1, <2>2 DEF CodecPlaces, ReadingBack
  <2> QED BY <1>3, <2>3, <2>4 DEF CodecInv
<1>5. CASE keyEnd \in {0, offset} /\ codecPc' = "found" /\ UNCHANGED <<offset, params>>
  <2>1. first # <<>> => Len(params) = Len(sent)
        BY <1>1, <1>5, NextPair
  <2>2. CodecTypes'
        BY <1>1, <1>5 DEF CodecInv, CodecTypes
  <2>3. CodecPlaces'
        BY <1>1, <1>2, <1>5 DEF CodecPlaces
  <2>4. ReadingBack'
        BY <1>1, <1>5, <2>1 DEF CodecInv, ReadingBack
  <2> QED BY <1>3, <2>2, <2>3, <2>4 DEF CodecInv
<1>6. CASE /\ keyEnd \notin {0, offset}
           /\ params' = Append(params, found) /\ offset' = Codec!After(valEnd)
           /\ UNCHANGED codecPc
  <2>1. /\ found \in Pairs
        /\ keyEnd \in offset..Len(buf) /\ valEnd \in (keyEnd + 1)..(Len(buf) + 1)
        BY <1>2, <1>6, PairFound
  <2>2. Codec!Terminated => valEnd <= Len(buf)
    <3> SUFFICES ASSUME Codec!Terminated PROVE valEnd <= Len(buf)
        OBVIOUS
    <3>1. Len(buf) >= 2 /\ buf[Len(buf) - 1] = Nul /\ buf[Len(buf)] = Nul
          BY DEF Codec!Terminated
    <3>2. \A i \in offset..(keyEnd - 1) : buf[i] # Nul
          BY <1>2, <1>6, NulFromIs
    <3> HIDE DEF keyEnd
    <3>0. keyEnd \in Nat /\ keyEnd <= Len(buf) /\ keyEnd > offset
          BY <1>2, <1>6, <2>1
    <3>3. keyEnd + 1 \in Nat \ {0} /\ keyEnd + 1 \in 1..Len(buf)
      <4>1. ASSUME keyEnd = Len(buf) PROVE FALSE
        <5>1. Len(buf) - 1 \in offset..(keyEnd - 1)
              BY <1>2, <3>0, <4>1
        <5> QED BY <3>1, <3>2, <5>1
      <4> QED BY <1>2, <3>0, <4>1
    <3>4. Codec!NulFrom(keyEnd + 1) # 0
      <4>1. Len(buf) \in (keyEnd + 1)..Len(buf)
            BY <1>2, <3>3
      <4> QED BY <1>2, <3>1, <3>3, <4>1, NulFromIs
    <3>5. Codec!NulFrom(keyEnd + 1) \in (keyEnd + 1)..Len(buf)
          BY <1>2, <3>3, <3>4, NulFromIs
    <3> QED BY <1>2, <3>3, <3>4, <3>5 DEF Codec!ValueEnd
  <2> HIDE DEF found, keyEnd, valEnd
  <2>3. /\ params' \in Seq(Pairs) /\ Len(params') = Len(params) + 1 /\ Len(params) \in Nat
        /\ params'[Len(params) + 1] = found
        /\ \A i \in 1..Len(params) : params'[i] = params[i]
        BY <1>2, <1>6, <2>1, AppendProperties, LenProperties
  <2>4. offset' = valEnd + 1 /\ offset' \in Nat \ {0}
        BY <1>2, <1>6, <2>1 DEF Codec!After
  <2>5. CodecTypes'
        BY <1>1, <1>6, <2>3, <2>4 DEF CodecInv, CodecTypes
  <2>6. CodecPlaces'
    <3>1. Codec!Terminated' = Codec!Terminated
          BY <1>1 DEF Codec!Terminated
    <3>2. Codec!Terminated => offset' <= Len(buf) + 1
          BY <1>2, <2>1, <2>2, <2>4
    <3> QED BY <1>1, <1>2, <1>6, <3>1, <3>2 DEF CodecPlaces
  <2>7. ReadingBack'
    <3> SUFFICES ASSUME first # <<>> PROVE ReadingBack'
        BY <1>1 DEF ReadingBack
    <3>1. /\ Len(params) + 1 \in 1..Len(sent) /\ found = sent[Len(params) + 1]
          /\ \A at : Layout(buf, sent, at) /\ offset = at[Len(params) + 1]
                      => offset' = at[Len(params) + 2]
          BY <1>1, <1>6, NextPair DEF found, keyEnd, valEnd
    <3>2. PICK at : /\ Layout(buf, sent, at) /\ offset = at[Len(params) + 1]
                    /\ Len(buf) = at[Len(sent) + 1] /\ buf[Len(buf)] = Nul
          BY <1>1 DEF CodecInv, ReadingBack
    <3>3. offset' = at[Len(params') + 1]
      <4>1. offset' = at[Len(params) + 2] /\ Len(params') + 1 = Len(params) + 2
            BY <2>3, <3>1, <3>2
      <4> QED BY <4>1
    <3>4. /\ len = Len(buf) + 8
          /\ \A i \in 1..Len(params) : params[i] = sent[i]
          BY <1>1 DEF CodecInv, ReadingBack
    <3>5. Len(params') <= Len(sent) /\ \A i \in 1..Len(params') : params'[i] = sent[i]
          BY <2>3, <3>1, <3>4
    <3> QED BY <1>1, <1>6, <3>2, <3>3, <3>4, <3>5 DEF ReadingBack
  <2> QED BY <1>3, <2>5, <2>6, <2>7 DEF CodecInv
<1> QED BY <1>4, <1>5, <1>6 DEF Codec!Parameter

LEMMA FoundKeeps ==
    ASSUME CodecInv, Codec!Found
    PROVE  CodecInv'
PROOF
<1>1. /\ codecPc = "found" /\ UNCHANGED <<len, code, buf, offset, params, first, next, sent>>
      /\ codecPc' = IF Codec!Matches(User) = {} THEN "error" ELSE "startup"
      BY DEF Codec!Found
<1>2. Codec!Matches(User)' = Codec!Matches(User)
      BY <1>1 DEF Codec!Matches
<1>3. code = "Version3"
      BY <1>1 DEF CodecInv, CodecPlaces
<1>4. CodecTypes' /\ CodecPlaces' /\ Chosen' /\ Writing'
      BY <1>1, <1>2, <1>3 DEF CodecInv, CodecTypes, CodecPlaces, Chosen, Writing, Codec!Outcomes
<1>5. ReadingBack'
  <2> SUFFICES ASSUME first # <<>> PROVE ReadingBack'
      BY <1>1 DEF ReadingBack
  <2>1. Len(params) = Len(sent) /\ \A i \in 1..Len(params) : params[i] = sent[i]
        BY <1>1 DEF CodecInv, ReadingBack
  <2>2. Len(sent) >= 2 /\ sent[1] = <<<<User>>, first[1].user>>
        BY DEF CodecInv, Chosen, Codec!UserPair
  <2>3. 1 \in Codec!Matches(User)
    <3>1. Len(sent) \in Nat
          BY LenProperties DEF CodecInv, CodecTypes
    <3>2. 1 \in 1..Len(params) /\ params[1] = <<<<User>>, first[1].user>>
          BY <2>1, <2>2, <3>1
    <3>3. params[1][1] = <<User>>
          BY <3>2
    <3> QED BY <3>2, <3>3 DEF Codec!Matches
  <2>4. codecPc' = "startup"
        BY <1>1, <2>3
  <2> QED BY <1>1, <2>1, <2>4 DEF CodecInv, ReadingBack
<1> QED BY <1>4, <1>5 DEF CodecInv

-----------------------------------------------------------------------------
(* StartupCodec: the steps that write *)

\* What a pair is written as.
LEMMA PairIs ==
    ASSUME NEW p \in Pairs
    PROVE  LET e == Codec!Pair(p) IN
           /\ e \in Seq(Codec!Bytes) /\ Len(e) = Len(p[1]) + Len(p[2]) + 2
           /\ \A i \in 1..Len(p[1]) : e[i] = p[1][i]
           /\ e[Len(p[1]) + 1] = Nul
           /\ \A i \in 1..Len(p[2]) : e[Len(p[1]) + 1 + i] = p[2][i]
           /\ e[Len(p[1]) + Len(p[2]) + 2] = Nul
PROOF
<1> DEFINE k == p[1]
           v == p[2]
           z == <<Nul>>
           B == Codec!Bytes
<1>1. k \in Seq(B) /\ v \in Seq(B) /\ z \in Seq(B) /\ Len(z) = 1 /\ z[1] = Nul
  <2>1. k \in Seq(Plain) /\ v \in Seq(Plain)
        BY DEF Pairs
  <2>2. Plain \subseteq B
        BY DEF Plain
  <2>3. Nul \in B
        BY DEF Codec!Bytes
  <2> HIDE DEF k, v, B
  <2>4. k \in Seq(B) /\ v \in Seq(B)
        BY <2>1, <2>2
  <2> QED BY <2>3, <2>4
<1>2. Codec!Pair(p) = ((k \o z) \o v) \o z
      BY DEF Codec!Pair
<1> HIDE DEF k, v, z, B
<1> DEFINE x   == Len(k)
           y   == Len(v)
           kz  == k \o z
           kzv == kz \o v
           e   == kzv \o z
<1> HIDE DEF x, y, kz, kzv, e
<1>3. /\ kz \in Seq(B) /\ Len(kz) = x + 1 /\ kz[x + 1] = Nul
      /\ x \in Nat /\ \A i \in 1..x : kz[i] = k[i]
  <2>1. kz \in Seq(B) /\ Behind(kz, k, z)
        BY <1>1, Joined, Zenon DEF kz
  <2>2. Len(z) = 1 /\ z[1] = Nul /\ 1 \in 1..Len(z)
        BY <1>1
  <2> QED BY <2>1, <2>2 DEF Behind, x
<1>4. /\ kzv \in Seq(B) /\ Len(kzv) = x + 1 + y /\ y \in Nat
      /\ \A i \in 1..x + 1 : kzv[i] = kz[i]
      /\ \A i \in 1..y : kzv[x + 1 + i] = v[i]
  <2>1. kzv \in Seq(B) /\ Behind(kzv, kz, v)
        BY <1>1, <1>3, Joined, Zenon DEF kzv
  <2>2. Len(kz) = x + 1
        BY <1>3
  <2> QED BY <2>1, <2>2 DEF Behind, y
<1>5. /\ e \in Seq(B) /\ Len(e) = x + 1 + y + 1
      /\ \A i \in 1..x + 1 + y : e[i] = kzv[i]
      /\ e[x + 1 + y + 1] = Nul
  <2>1. e \in Seq(B) /\ Behind(e, kzv, z)
        BY <1>1, <1>4, Joined, Zenon DEF e
  <2>2. Len(z) = 1 /\ z[1] = Nul /\ 1 \in 1..Len(z) /\ Len(kzv) = x + 1 + y
        BY <1>1, <1>4
  <2> QED BY <2>1, <2>2 DEF Behind
<1>6. /\ \A i \in 1..x : i \in 1..x + 1 /\ i \in 1..x + 1 + y
      /\ x + 1 \in 1..x + 1 /\ x + 1 \in 1..x + 1 + y
      /\ \A i \in 1..y : x + 1 + i \in 1..x + 1 + y
      /\ x + 1 + y + 1 = x + y + 2
      BY <1>3, <1>4
<1>7. /\ \A i \in 1..x : e[i] = k[i]
      /\ e[x + 1] = Nul
      /\ \A i \in 1..y : e[x + 1 + i] = v[i]
      BY <1>3, <1>4, <1>5, <1>6
<1>8. Codec!Pair(p) = e
      BY <1>2 DEF e, kzv, kz
<1> QED BY <1>5, <1>6, <1>7, <1>8 DEF k, v, x, y, B

\* A pair stays where it is when more is written behind it.
LEMMA HoldsStill ==
    ASSUME NEW b, NEW c, Len(b) \in Nat, \A i \in 1..Len(b) : c[i] = b[i],
           NEW p \in Pairs, NEW from \in Nat \ {0}, Holds(b, from, p),
           from + Len(p[1]) + Len(p[2]) + 1 <= Len(b)
    PROVE  Holds(c, from, p)
PROOF
<1> DEFINE k == p[1]
           v == p[2]
           x == Len(k)
           y == Len(v)
           l == Len(b)
<1>1. x \in Nat /\ y \in Nat
      BY LenProperties DEF Pairs
<1>2. /\ \A i \in 1..x : b[from - 1 + i] = k[i]
      /\ b[from + x] = Nul
      /\ \A i \in 1..y : b[from + x + i] = v[i]
      /\ b[from + x + y + 1] = Nul
      /\ from + x + y + 1 <= l
      BY DEF Holds
<1>3. l \in Nat /\ \A i \in 1..l : c[i] = b[i]
      OBVIOUS
<1> HIDE DEF k, v, x, y, l
<1>4. /\ \A i \in 1..x : from - 1 + i \in 1..l
      /\ \A i \in 1..y : from + x + i \in 1..l
      /\ from + x \in 1..l /\ from + x + y + 1 \in 1..l
      BY <1>1, <1>2, <1>3
<1>5. /\ \A i \in 1..x : c[from - 1 + i] = k[i]
      /\ \A i \in 1..y : c[from + x + i] = v[i]
      /\ c[from + x] = Nul /\ c[from + x + y + 1] = Nul
      BY <1>2, <1>3, <1>4
<1> QED BY <1>5 DEF Holds, k, v, x, y

\* Another pair is written behind those of a layout.
LEMMA LayoutExtends ==
    ASSUME NEW b \in Seq(Codec!Bytes), NEW pairs \in Seq(Pairs), NEW p \in Pairs, NEW at,
           Layout(b, pairs, at), Len(b) = at[Len(pairs) + 1] - 1
    PROVE  /\ b \o Codec!Pair(p) \in Seq(Codec!Bytes)
           /\ \E a : /\ Layout(b \o Codec!Pair(p), Append(pairs, p), a)
                     /\ Len(b \o Codec!Pair(p)) = a[Len(Append(pairs, p)) + 1] - 1
PROOF
<1> DEFINE e == Codec!Pair(p)
           c == b \o e
           n == Len(pairs)
           x == Len(p[1])
           y == Len(p[2])
           l == x + y + 2
           more == Append(pairs, p)
           a == [k \in 1..n + 2 |-> IF k <= n + 1 THEN at[k] ELSE at[n + 1] + l]
<1>1. /\ e \in Seq(Codec!Bytes) /\ Len(e) = l
      /\ \A i \in 1..x : e[i] = p[1][i]
      /\ e[x + 1] = Nul
      /\ \A i \in 1..y : e[x + 1 + i] = p[2][i]
      /\ e[x + y + 2] = Nul
      BY PairIs
<1>2. x \in Nat /\ y \in Nat /\ Len(b) \in Nat /\ n \in Nat
      BY LenProperties DEF Pairs
<1> HIDE DEF e, x, y
<1>3. /\ c \in Seq(Codec!Bytes) /\ Len(c) = Len(b) + l
      /\ \A i \in 1..Len(b) : c[i] = b[i]
      /\ \A i \in 1..Len(e) : c[Len(b) + i] = e[i]
  <2>1. e \in Seq(Codec!Bytes) /\ Len(e) = l
        BY <1>1
  <2>2. c \in Seq(Codec!Bytes) /\ Behind(c, b, e)
        BY <2>1, Joined, Zenon
  <2> HIDE DEF c, l
  <2> QED BY <2>1, <2>2 DEF Behind
<1> HIDE DEF c
<1>4. /\ more \in Seq(Pairs) /\ Len(more) = n + 1 /\ more[n + 1] = p
      /\ \A k \in 1..n : more[k] = pairs[k]
      BY AppendProperties
<1>5. /\ at \in [1..n + 1 -> Nat \ {0}] /\ at[1] = 1 /\ at[n + 1] = Len(b) + 1
      /\ \A k \in 1..n : /\ Holds(b, at[k], pairs[k])
                         /\ at[k + 1] = at[k] + Len(pairs[k][1]) + Len(pairs[k][2]) + 2
                         /\ at[k + 1] <= at[n + 1]
  <2>1. at \in [1..n + 1 -> Nat \ {0}] /\ n + 1 \in 1..n + 1
        BY <1>2 DEF Layout
  <2>2. Len(b) = at[n + 1] - 1 /\ at[n + 1] \in Nat
        BY <2>1
  <2>3. at[n + 1] = Len(b) + 1
    <3> HIDE DEF n
    <3> QED BY <1>2, <2>2
  <2> QED BY <2>1, <2>3 DEF Layout
<1> HIDE DEF more, n
<1>6. l \in Nat
      BY <1>2
<1> HIDE DEF l
<1>7. /\ a \in [1..n + 2 -> Nat \ {0}] /\ a[1] = 1 /\ a[n + 2] = Len(b) + 1 + l
      /\ \A k \in 1..n + 1 : a[k] = at[k]
  <2>1. at[n + 1] + l \in Nat \ {0} /\ ~(n + 2 <= n + 1) /\ n + 2 \in 1..n + 2
        BY <1>2, <1>5, <1>6
  <2>2. \A k \in 1..n + 2 : k <= n + 1 => k \in 1..n + 1
        BY <1>2
  <2>3. 1 \in 1..n + 2 /\ 1 <= n + 1
        BY <1>2
  <2>4. \A k \in 1..n + 1 : k \in 1..n + 2 /\ k <= n + 1
        BY <1>2
  <2> QED BY <1>5, <2>1, <2>2, <2>3, <2>4
<1> HIDE DEF a
<1>8. Holds(c, Len(b) + 1, p)
  <2> DEFINE m == Len(b)
             from == m + 1
  <2>1. \A i \in 1..x : i \in 1..Len(e) /\ from - 1 + i = m + i
    <3>1. Len(e) = x + y + 2
          BY <1>1 DEF l
    <3>2. m \in Nat
          BY <1>2
    <3> HIDE DEF m
    <3> QED BY <1>2, <3>1, <3>2
  <2>2. /\ x + 1 \in 1..Len(e) /\ from + x = m + (x + 1)
        /\ x + y + 2 \in 1..Len(e) /\ from + x + y + 1 = m + (x + y + 2)
    <3>1. Len(e) = x + y + 2
          BY <1>1 DEF l
    <3>2. m \in Nat
          BY <1>2
    <3> HIDE DEF m
    <3> QED BY <1>2, <3>1, <3>2
  <2>3. \A i \in 1..y : x + 1 + i \in 1..Len(e) /\ from + x + i = m + (x + 1 + i)
    <3>1. Len(e) = x + y + 2
          BY <1>1 DEF l
    <3>2. m \in Nat
          BY <1>2
    <3> HIDE DEF m
    <3> QED BY <1>2, <3>1, <3>2
  <2>4. \A i \in 1..Len(e) : c[m + i] = e[i]
        BY <1>3
  <2> HIDE DEF m, from
  <2>5. \A i \in 1..x : c[from - 1 + i] = p[1][i]
        BY <1>1, <2>1, <2>4
  <2>6. c[from + x] = Nul /\ c[from + x + y + 1] = Nul
        BY <1>1, <2>2, <2>4
  <2>7. \A i \in 1..y : c[from + x + i] = p[2][i]
        BY <1>1, <2>3, <2>4
  <2>8. Holds(c, from, p)
    <3>1. \A i \in 1..Len(p[1]) : c[from - 1 + i] = p[1][i]
          BY <2>5, Zenon DEF x
    <3>2. c[from + Len(p[1])] = Nul /\ c[from + Len(p[1]) + Len(p[2]) + 1] = Nul
          BY <2>6, Zenon DEF x, y
    <3>3. \A i \in 1..Len(p[2]) : c[from + Len(p[1]) + i] = p[2][i]
          BY <2>7, Zenon DEF x, y
    <3> QED BY <3>1, <3>2, <3>3 DEF Holds
  <2> QED BY <2>8 DEF m, from
<1>9. ASSUME NEW k \in 1..n + 1
      PROVE  /\ Holds(c, a[k], more[k])
             /\ a[k + 1] = a[k] + Len(more[k][1]) + Len(more[k][2]) + 2
             /\ a[k + 1] <= a[n + 2]
  <2>1. CASE k = n + 1
    <3>1. a[k] = Len(b) + 1 /\ more[k] = p /\ k + 1 = n + 2
          BY <1>2, <1>4, <1>5, <1>7, <2>1
    <3>2. a[k + 1] = Len(b) + 1 + x + y + 2
      <4>1. Len(b) + 1 + l = Len(b) + 1 + x + y + 2
            BY <1>2 DEF l
      <4> QED BY <1>7, <3>1, <4>1
    <3>3. a[n + 2] <= a[n + 2]
          BY <1>2, <1>6, <1>7
    <3> QED BY <1>8, <3>1, <3>2, <3>3 DEF x, y
  <2>2. CASE k # n + 1
    <3>1. k \in 1..n /\ k + 1 \in 1..n + 1 /\ k \in 1..n + 1
          BY <1>2, <2>2
    <3>2. a[k] = at[k] /\ a[k + 1] = at[k + 1] /\ more[k] = pairs[k] /\ at[k] \in Nat \ {0}
          BY <1>4, <1>5, <1>7, <3>1
    <3> DEFINE q == pairs[k]
    <3>3. q \in Pairs
          BY <3>1, ElementOfSeq DEF n
    <3>4. Len(q[1]) \in Nat /\ Len(q[2]) \in Nat
          BY <3>3, LenProperties DEF Pairs
    <3>5. /\ Holds(b, at[k], q) /\ at[k + 1] = at[k] + Len(q[1]) + Len(q[2]) + 2
          /\ at[k + 1] <= Len(b) + 1
          BY <1>5, <3>1
    <3> HIDE DEF q
    <3>6. at[k] + Len(q[1]) + Len(q[2]) + 1 <= Len(b)
      <4> DEFINE o == at[k]
                 s == Len(q[1])
                 u == Len(q[2])
                 m == Len(b)
      <4>1. /\ o \in Nat /\ s \in Nat /\ u \in Nat /\ m \in Nat
            /\ o + s + u + 2 <= m + 1
            BY <1>2, <3>2, <3>4, <3>5
      <4> HIDE DEF o, s, u, m
      <4>2. o + s + u + 1 <= m
            BY <4>1
      <4> QED BY <4>2 DEF o, s, u, m
    <3>7. Holds(c, at[k], q)
          BY <1>2, <1>3, <3>2, <3>3, <3>5, <3>6, HoldsStill
    <3>8. at[k + 1] <= Len(b) + 1 + l
      <4>1. at[k + 1] \in Nat
            BY <1>5, <3>1
      <4>2. \A s, t, u \in Nat : s <= t + 1 => s <= t + 1 + u
            OBVIOUS
      <4> QED BY <1>2, <1>6, <3>5, <4>1, <4>2
    <3> QED BY <1>7, <3>2, <3>5, <3>7, <3>8 DEF q
  <2> QED BY <2>1, <2>2
<1>10. Layout(c, more, a)
  <2>1. Len(more) = n + 1 /\ Len(more) + 1 = n + 2
        BY <1>2, <1>4
  <2> QED BY <1>7, <1>9, <2>1 DEF Layout
<1>11. Len(c) = a[Len(more) + 1] - 1
  <2>1. Len(more) + 1 = n + 2
        BY <1>2, <1>4
  <2>2. Len(c) = Len(b) + l /\ a[Len(more) + 1] = Len(b) + 1 + l
        BY <1>3, <1>7, <2>1
  <2>3. \A u, v \in Nat : u + v = (u + 1 + v) - 1
        OBVIOUS
  <2> QED BY <1>2, <1>6, <2>2, <2>3
<1> QED BY <1>3, <1>10, <1>11 DEF c, e, more

\* The value of a name that is among the parameters has no NUL in it.
LEMMA ValueIsPlain ==
    ASSUME params \in Seq(Pairs), NEW name, Codec!Matches(name) # {}
    PROVE  /\ Codec!Min(Codec!Matches(name)) \in Codec!Matches(name)
           /\ \A i \in Codec!Matches(name) : Codec!Min(Codec!Matches(name)) <= i
           /\ Codec!Value(name) \in Seq(Plain)
PROOF
<1> DEFINE I == Codec!Matches(name)
<1>1. I \subseteq 1..Len(params) /\ I # {} /\ Len(params) \in Nat
      BY LenProperties DEF Codec!Matches
<1> HIDE DEF I
<1>2. Codec!Min(I) \in I /\ \A i \in I : Codec!Min(I) <= i
  <2>1. I \subseteq Nat
        BY <1>1
  <2> QED BY <1>1, <2>1, LeastOf
<1>3. params[Codec!Min(I)] \in Pairs
      BY <1>1, <1>2, ElementOfSeq
<1> QED BY <1>2, <1>3 DEF Codec!Value, Pairs, I

\* user and database of a startup message, and the pairs they are written as.
LEMMA StartupIs ==
    ASSUME params \in Seq(Pairs), Codec!Matches(User) # {}
    PROVE  /\ Codec!Startup.user \in Seq(Plain) /\ Codec!Startup.database \in Seq(Plain)
           /\ Codec!Startup.params = params
           /\ Codec!UserPair(Codec!Startup) \in Pairs
           /\ Codec!DatabasePair(Codec!Startup) \in Pairs
PROOF
<1>1. Codec!Startup.user \in Seq(Plain) /\ Codec!Startup.database \in Seq(Plain)
      BY ValueIsPlain DEF Codec!Startup
<1>2. User \in Plain /\ Database \in Plain
      BY CodecAssumption DEF Plain, Codec!Bytes, Codec!CodecAssumption
<1>3. <<User>> \in Seq(Plain) \ {<<>>} /\ <<Database>> \in Seq(Plain) \ {<<>>}
      BY <1>2
<1>4. /\ Codec!UserPair(Codec!Startup) \in Pairs
      /\ Codec!DatabasePair(Codec!Startup) \in Pairs
      BY <1>1, <1>3 DEF Pairs, Codec!UserPair, Codec!DatabasePair
<1>5. Codec!Startup.params = params
      BY DEF Codec!Startup
<1> QED BY <1>1, <1>4, <1>5

\* The two pairs that come first are laid out.
LEMMA LayoutOfTwo ==
    ASSUME NEW p \in Pairs, NEW q \in Pairs
    PROVE  /\ Codec!Pair(p) \o Codec!Pair(q) \in Seq(Codec!Bytes)
           /\ \E a : /\ Layout(Codec!Pair(p) \o Codec!Pair(q), <<p, q>>, a)
                     /\ Len(Codec!Pair(p) \o Codec!Pair(q)) = a[Len(<<p, q>>) + 1] - 1
PROOF
<1> DEFINE none == [k \in 1..1 |-> 1]
           b    == Codec!Pair(p)
<1>1. Layout(<<>>, <<>>, none) /\ Len(<<>>) = none[Len(<<>>) + 1] - 1
      BY DEF Layout
<1>2. b \in Seq(Codec!Bytes)
      BY PairIs
<1>3. <<>> \o b = b
      BY <1>2, ConcatEmptySeq
<1>4. Append(<<>>, p) = <<p>> /\ Append(<<p>>, q) = <<p, q>>
  <2>1. <<>> \in Seq(Pairs) /\ <<p>> \in Seq(Pairs) /\ <<p, q>> \in Seq(Pairs)
        BY EmptySeq
  <2>2. Append(<<>>, p) = <<p>>
    <3> DEFINE r == Append(<<>>, p)
               t == <<p>>
    <3>1. /\ r \in Seq(Pairs) /\ Len(r) = 1 /\ r[1] = p
          /\ t \in Seq(Pairs) /\ Len(t) = 1 /\ t[1] = p
          BY <2>1, AppendProperties
    <3> HIDE DEF r, t
    <3>2. \A i \in 1..Len(r) : r[i] = t[i]
          BY <3>1
    <3>3. r = t
          BY <3>1, <3>2, SeqEqual
    <3> QED BY <3>3 DEF r, t
  <2>3. Append(<<p>>, q) = <<p, q>>
    <3> DEFINE r == Append(<<p>>, q)
               t == <<p, q>>
    <3>1. /\ r \in Seq(Pairs) /\ Len(r) = 2 /\ r[1] = p /\ r[2] = q
          /\ t \in Seq(Pairs) /\ Len(t) = 2 /\ t[1] = p /\ t[2] = q
          BY <2>1, AppendProperties
    <3> HIDE DEF r, t
    <3>2. \A i \in 1..Len(r) : r[i] = t[i]
          BY <3>1
    <3>3. r = t
          BY <3>1, <3>2, SeqEqual
    <3> QED BY <3>3 DEF r, t
  <2> QED BY <2>2, <2>3
<1>5. <<>> \in Seq(Codec!Bytes) /\ <<>> \in Seq(Pairs) /\ <<p>> \in Seq(Pairs)
  <2>1. <<>> \in Seq(Codec!Bytes) /\ <<>> \in Seq(Pairs)
        BY EmptySeq
  <2>2. <<p>> \in Seq(Pairs)
        OBVIOUS
  <2> QED BY <2>1, <2>2
<1> HIDE DEF none
<1>6. \E a : /\ Layout(<<>> \o b, Append(<<>>, p), a)
             /\ Len(<<>> \o b) = a[Len(Append(<<>>, p)) + 1] - 1
      BY <1>1, <1>5, LayoutExtends
<1>7. PICK a : Layout(b, <<p>>, a) /\ Len(b) = a[Len(<<p>>) + 1] - 1
      BY <1>3, <1>4, <1>6
<1> HIDE DEF b
<1>8. /\ b \o Codec!Pair(q) \in Seq(Codec!Bytes)
      /\ \E c : /\ Layout(b \o Codec!Pair(q), Append(<<p>>, q), c)
                /\ Len(b \o Codec!Pair(q)) = c[Len(Append(<<p>>, q)) + 1] - 1
      BY <1>2, <1>5, <1>7, LayoutExtends
<1> QED BY <1>4, <1>8 DEF b

LEMMA RewriteKeeps ==
    ASSUME CodecInv, Codec!Rewrite
    PROVE  CodecInv'
PROOF
<1> DEFINE s == Codec!Startup
           p == Codec!UserPair(s)
           q == Codec!DatabasePair(s)
<1>1. /\ codecPc = "startup" /\ codecPc' = "write" /\ first' = <<s>>
      /\ buf' = Codec!Pair(p) \o Codec!Pair(q) /\ sent' = <<p, q>> /\ next' = 1
      /\ UNCHANGED <<len, code, offset, params>>
      BY DEF Codec!Rewrite
<1>2. params \in Seq(Pairs) /\ code = "Version3" /\ Codec!Matches(User) # {}
      BY <1>1 DEF CodecInv, CodecTypes, CodecPlaces
<1>3. /\ s.user \in Seq(Plain) /\ s.database \in Seq(Plain) /\ s.params = params
      /\ p \in Pairs /\ q \in Pairs
      BY <1>2, StartupIs
<1> HIDE DEF s
<1>4. first'[1] = s /\ first' # <<>>
      BY <1>1
<1>5. buf' \in Seq(Codec!Bytes) /\ Writing'
      BY <1>1, <1>3, LayoutOfTwo DEF Writing
<1>6. /\ sent' \in Seq(Pairs) /\ Len(sent') = 2 /\ sent'[1] = p /\ sent'[2] = q
      BY <1>1, <1>3
<1>7. CodecTypes'
  <2>1. /\ len' = len /\ code' = code /\ offset' = offset /\ params' = params
        /\ next' \in Nat \ {0} /\ codecPc' = "write"
        BY <1>1
  <2>2. /\ first'[1].user \in Seq(Plain) /\ first'[1].database \in Seq(Plain)
        /\ first'[1].params \in Seq(Pairs)
        BY <1>2, <1>3, <1>4
  <2> QED BY <1>5, <1>6, <2>1, <2>2 DEF CodecInv, CodecTypes
<1>8. CodecPlaces'
      BY <1>1, <1>2, <1>4 DEF CodecPlaces, PanicsOnlyMalformed, Codec!PanicsOnlyMalformed
<1>9. Chosen'
  <2> DEFINE f == [i \in 3..2 |-> 0]
  <2>1. Picks(f, 2, s.params, 0)
    <3>1. 3..2 = {} /\ 1..0 = {}
          OBVIOUS
    <3>2. f \in [3..2 -> 1..0]
          BY <3>1
    <3> QED BY <3>1, <3>2 DEF Picks
  <2>2. Len(s.params) \in Nat
        BY <1>2, <1>3, LenProperties
  <2> HIDE DEF f
  <2>3. /\ Picks(f, Len(sent'), first'[1].params, next' - 1)
        /\ \A i \in 3..Len(sent') : sent'[i] = first'[1].params[f[i]]
        BY <1>1, <1>4, <1>6, <2>1
  <2>4. next' <= Len(first'[1].params) + 1 /\ Len(sent') >= 2
        BY <1>1, <1>4, <1>6, <2>2
  <2>5. sent'[1] = Codec!UserPair(first'[1]) /\ sent'[2] = Codec!DatabasePair(first'[1])
        BY <1>4, <1>6
  <2> QED BY <1>1, <2>3, <2>4, <2>5 DEF Chosen
<1>10. ReadingBack'
      BY <1>1 DEF ReadingBack
<1> QED BY <1>5, <1>7, <1>8, <1>9, <1>10 DEF CodecInv

\* One pair more is looked at.
LEMMA PicksMore ==
    ASSUME NEW m \in Nat, m >= 2, NEW n \in Nat, NEW pairs, NEW f, Picks(f, m, pairs, n)
    PROVE  /\ ~Codec!IsOther(pairs[n + 1]) => Picks(f, m, pairs, n + 1)
           /\ Codec!IsOther(pairs[n + 1]) =>
                Picks([i \in 3..m + 1 |-> IF i <= m THEN f[i] ELSE n + 1], m + 1, pairs, n + 1)
PROOF
<1>1. /\ f \in [3..m -> 1..n]
      /\ \A i \in 3..m : f[i] \in 1..n /\ Codec!IsOther(pairs[f[i]])
      /\ \A j \in 1..n : Codec!IsOther(pairs[j]) => \E i \in 3..m : f[i] = j
      /\ \A i, k \in 3..m : i < k => f[i] < f[k]
      BY DEF Picks
<1>2. /\ 1..n \subseteq 1..n + 1 /\ \A j \in 1..n + 1 : j \in 1..n \/ j = n + 1
      /\ 3..m \subseteq 3..m + 1 /\ \A i \in 3..m + 1 : i \in 3..m \/ i = m + 1
      /\ m + 1 \in 3..m + 1 /\ n + 1 \in 1..n + 1 /\ ~(m + 1 <= m)
      /\ \A i \in 3..m : i <= m
      /\ \A i, k \in 3..m + 1 : i < k => i \in 3..m
      /\ \A j \in 1..n : j < n + 1
      OBVIOUS
<1>3. ASSUME ~Codec!IsOther(pairs[n + 1]) PROVE Picks(f, m, pairs, n + 1)
  <2>1. f \in [3..m -> 1..n + 1]
        BY <1>1, <1>2
  <2> QED BY <1>1, <1>2, <1>3, <2>1 DEF Picks
<1>4. ASSUME Codec!IsOther(pairs[n + 1])
      PROVE  Picks([i \in 3..m + 1 |-> IF i <= m THEN f[i] ELSE n + 1], m + 1, pairs, n + 1)
  <2> DEFINE g == [i \in 3..m + 1 |-> IF i <= m THEN f[i] ELSE n + 1]
  <2>1. /\ g \in [3..m + 1 -> 1..n + 1] /\ g[m + 1] = n + 1
        /\ \A i \in 3..m : g[i] = f[i]
        BY <1>1, <1>2
  <2> HIDE DEF g
  <2>2. \A i \in 3..m + 1 : Codec!IsOther(pairs[g[i]])
        BY <1>1, <1>2, <1>4, <2>1
  <2>3. \A j \in 1..n + 1 : Codec!IsOther(pairs[j]) => \E i \in 3..m + 1 : g[i] = j
        BY <1>1, <1>2, <2>1
  <2>4. ASSUME NEW i \in 3..m + 1, NEW k \in 3..m + 1, i < k PROVE g[i] < g[k]
    <3>1. i \in 3..m /\ g[i] = f[i] /\ f[i] \in 1..n
          BY <1>1, <1>2, <2>1, <2>4
    <3>2. CASE k \in 3..m
          BY <1>1, <2>1, <2>4, <3>1, <3>2
    <3>3. CASE k = m + 1
          BY <1>2, <2>1, <3>1, <3>3
    <3> QED BY <1>2, <3>2, <3>3
  <2>5. Picks(g, m + 1, pairs, n + 1)
        BY <2>1, <2>2, <2>3, <2>4 DEF Picks
  <2> QED BY <2>5 DEF g
<1> QED BY <1>3, <1>4

LEMMA WriteParameterKeeps ==
    ASSUME CodecInv, Codec!WriteParameter
    PROVE  CodecInv'
PROOF
<1> DEFINE ps == first[1].params
           p  == ps[next]
           m  == Len(sent)
<1>1. /\ codecPc = "write" /\ next <= Len(ps) /\ next' = next + 1
      /\ UNCHANGED <<len, code, codecPc, offset, params, first>>
      /\ Codec!IsOther(p) => buf' = buf \o Codec!Pair(p) /\ sent' = Append(sent, p)
      /\ ~Codec!IsOther(p) => buf' = buf /\ sent' = sent
      BY DEF Codec!WriteParameter
<1>2. first # <<>>
      BY <1>1 DEF CodecInv, CodecPlaces
<1>3. /\ buf \in Seq(Codec!Bytes) /\ ps \in Seq(Pairs) /\ sent \in Seq(Pairs)
      /\ next \in Nat \ {0} /\ m \in Nat /\ Len(ps) \in Nat
      BY <1>2, LenProperties DEF CodecInv, CodecTypes
<1>4. p \in Pairs
  <2>1. next \in 1..Len(ps)
        BY <1>1, <1>3
  <2> QED BY <1>3, <2>1, ElementOfSeq
<1>5. PICK at : Layout(buf, sent, at) /\ Len(buf) = at[m + 1] - 1
      BY <1>1 DEF CodecInv, Writing
<1>6. /\ m >= 2 /\ sent[1] = Codec!UserPair(first[1]) /\ sent[2] = Codec!DatabasePair(first[1])
      /\ \E g : Picks(g, m, ps, next - 1) /\ \A i \in 3..m : sent[i] = ps[g[i]]
      BY <1>2 DEF CodecInv, Chosen
<1>7. PICK g : Picks(g, m, ps, next - 1) /\ \A i \in 3..m : sent[i] = ps[g[i]]
      BY <1>6
<1> HIDE DEF p
<1>8. next - 1 \in Nat /\ (next - 1) + 1 = next /\ next' - 1 = next
      BY <1>1, <1>3
<1>9. /\ buf' \in Seq(Codec!Bytes) /\ sent' \in Seq(Pairs)
      /\ \E a : Layout(buf', sent', a) /\ Len(buf') = a[Len(sent') + 1] - 1
  <2>1. CASE Codec!IsOther(p)
    <3>1. /\ buf \o Codec!Pair(p) \in Seq(Codec!Bytes)
          /\ \E a : /\ Layout(buf \o Codec!Pair(p), Append(sent, p), a)
                    /\ Len(buf \o Codec!Pair(p)) = a[Len(Append(sent, p)) + 1] - 1
          BY <1>3, <1>4, <1>5, LayoutExtends
    <3>2. Append(sent, p) \in Seq(Pairs)
          BY <1>3, <1>4, AppendProperties
    <3> QED BY <1>1, <2>1, <3>1, <3>2
  <2>2. CASE ~Codec!IsOther(p)
        BY <1>1, <1>3, <1>5, <2>2
  <2> QED BY <2>1, <2>2
<1>10. /\ Len(sent') >= 2 /\ sent'[1] = sent[1] /\ sent'[2] = sent[2]
       /\ \E f : Picks(f, Len(sent'), ps, next) /\ \A i \in 3..Len(sent') : sent'[i] = ps[f[i]]
  <2> DEFINE n == next - 1
  <2>0. /\ ~Codec!IsOther(ps[n + 1]) => Picks(g, m, ps, n + 1)
        /\ Codec!IsOther(ps[n + 1]) =>
             Picks([i \in 3..m + 1 |-> IF i <= m THEN g[i] ELSE n + 1], m + 1, ps, n + 1)
    <3>1. m \in Nat /\ m >= 2 /\ n \in Nat /\ Picks(g, m, ps, n)
          BY <1>3, <1>6, <1>7, <1>8
    <3> HIDE DEF m, ps, n
    <3> QED BY <3>1, PicksMore
  <2>1. CASE ~Codec!IsOther(p)
    <3>1. Picks(g, m, ps, next)
          BY <1>8, <2>0, <2>1 DEF p
    <3> QED BY <1>1, <1>6, <1>7, <2>1, <3>1
  <2>2. CASE Codec!IsOther(p)
    <3> DEFINE f == [i \in 3..m + 1 |-> IF i <= m THEN g[i] ELSE next]
    <3>1. Picks(f, m + 1, ps, next)
          BY <1>8, <2>0, <2>2 DEF p
    <3>2. /\ Len(sent') = m + 1 /\ sent'[m + 1] = p
          /\ \A i \in 1..m : sent'[i] = sent[i]
          BY <1>1, <1>3, <1>4, <2>2, AppendProperties
    <3> HIDE DEF m
    <3>3. f[m + 1] = next /\ \A i \in 3..m : f[i] = g[i]
          BY <1>3, <1>6
    <3> HIDE DEF f
    <3>4. \A i \in 3..m + 1 : (i \in 1..m /\ i \in 3..m) \/ i = m + 1
          BY <1>3
    <3>5. \A i \in 3..m + 1 : sent'[i] = ps[f[i]]
          BY <1>7, <3>2, <3>3, <3>4 DEF p
    <3>6. 1 \in 1..m /\ 2 \in 1..m /\ m + 1 >= 2
          BY <1>3, <1>6
    <3> QED BY <3>1, <3>2, <3>5, <3>6
  <2> QED BY <2>1, <2>2
<1>11. CodecTypes'
       BY <1>1, <1>3, <1>9 DEF CodecInv, CodecTypes
<1>12. CodecPlaces'
       BY <1>1, <1>2 DEF CodecInv, CodecPlaces, PanicsOnlyMalformed, Codec!PanicsOnlyMalformed
<1>13. Chosen'
  <2>1. next' <= Len(ps) + 1 /\ ps' = ps /\ first' = first
        BY <1>1, <1>3
  <2>2. \E f : /\ Picks(f, Len(sent'), first'[1].params, next' - 1)
               /\ \A i \in 3..Len(sent') : sent'[i] = first'[1].params[f[i]]
        BY <1>8, <1>10, <2>1
  <2>3. /\ sent'[1] = Codec!UserPair(first'[1]) /\ sent'[2] = Codec!DatabasePair(first'[1])
        /\ codecPc' = "write"
        BY <1>1, <1>6, <1>10
  <2> QED BY <1>10, <2>1, <2>2, <2>3 DEF Chosen
<1>14. Writing' /\ ReadingBack'
       BY <1>1, <1>9 DEF Writing, ReadingBack
<1> QED BY <1>11, <1>12, <1>13, <1>14 DEF CodecInv

LEMMA WriteEndKeeps ==
    ASSUME CodecInv, Codec!WriteEnd
    PROVE  CodecInv'
PROOF
<1> DEFINE ps == first[1].params
           m  == Len(sent)
           l  == Len(buf)
<1>1. /\ codecPc = "write" /\ next > Len(ps) /\ codecPc' = "length"
      /\ buf' = buf \o <<Nul>> /\ len' = Len(buf') + 8 /\ len' <= MaxLen
      /\ offset' = 1 /\ params' = <<>>
      /\ UNCHANGED <<code, first, next, sent>>
      BY DEF Codec!WriteEnd
<1>2. first # <<>> /\ code = "Version3"
      BY <1>1 DEF CodecInv, CodecPlaces
<1>3. /\ buf \in Seq(Codec!Bytes) /\ ps \in Seq(Pairs) /\ sent \in Seq(Pairs)
      /\ next \in Nat \ {0} /\ m \in Nat /\ Len(ps) \in Nat /\ l \in Nat
      BY <1>2, LenProperties DEF CodecInv, CodecTypes
<1>4. PICK at : Layout(buf, sent, at) /\ l = at[m + 1] - 1
      BY <1>1 DEF CodecInv, Writing
<1>5. /\ buf' \in Seq(Codec!Bytes) /\ Len(buf') = l + 1 /\ buf'[l + 1] = Nul
      /\ \A i \in 1..l : buf'[i] = buf[i]
  <2>1. Nul \in Codec!Bytes
        BY DEF Codec!Bytes
  <2>2. <<Nul>> \in Seq(Codec!Bytes) /\ Len(<<Nul>>) = 1 /\ <<Nul>>[1] = Nul
        BY <2>1
  <2> DEFINE z == <<Nul>>
  <2> HIDE DEF z
  <2>3. buf' = buf \o z /\ z \in Seq(Codec!Bytes) /\ Len(z) = 1 /\ z[1] = Nul /\ 1 \in 1..Len(z)
        BY <1>1, <2>2 DEF z
  <2>4. buf' \in Seq(Codec!Bytes) /\ Behind(buf', buf, z)
    <3>1. buf \o z \in Seq(Codec!Bytes) /\ Behind(buf \o z, buf, z)
          BY <1>3, <2>3, Joined, Zenon
    <3> QED BY <2>3, <3>1
  <2> QED BY <2>3, <2>4 DEF Behind
<1>6. /\ at \in [1..m + 1 -> Nat \ {0}] /\ at[1] = 1 /\ at[m + 1] = l + 1
      /\ \A k \in 1..m : /\ Holds(buf, at[k], sent[k])
                         /\ at[k + 1] = at[k] + Len(sent[k][1]) + Len(sent[k][2]) + 2
                         /\ at[k + 1] <= at[m + 1]
  <2>1. at \in [1..m + 1 -> Nat \ {0}] /\ m + 1 \in 1..m + 1
        BY <1>3, <1>4 DEF Layout
  <2>2. at[m + 1] \in Nat
        BY <2>1
  <2>3. at[m + 1] = l + 1
    <3> HIDE DEF l, m
    <3> QED BY <1>3, <1>4, <2>2
  <2> QED BY <1>4, <2>1, <2>3 DEF Layout
<1>7. Layout(buf', sent, at)
  <2>1. ASSUME NEW k \in 1..m PROVE Holds(buf', at[k], sent[k])
    <3> DEFINE q == sent[k]
    <3>1. q \in Pairs
          BY <1>3, ElementOfSeq
    <3>2. Len(q[1]) \in Nat /\ Len(q[2]) \in Nat
          BY <3>1, LenProperties DEF Pairs
    <3>3. /\ Holds(buf, at[k], q) /\ at[k + 1] = at[k] + Len(q[1]) + Len(q[2]) + 2
          /\ at[k + 1] <= l + 1 /\ at[k] \in Nat \ {0}
      <4>1. k \in 1..m + 1
            BY <1>3
      <4> QED BY <1>6, <4>1
    <3> HIDE DEF q
    <3>4. at[k] + Len(q[1]) + Len(q[2]) + 1 <= l
      <4> DEFINE o == at[k]
                 s == Len(q[1])
                 u == Len(q[2])
      <4>1. o \in Nat /\ s \in Nat /\ u \in Nat /\ o + s + u + 2 <= l + 1
            BY <3>2, <3>3
      <4> HIDE DEF o, s, u, l
      <4>2. o + s + u + 1 <= l
            BY <1>3, <4>1
      <4> QED BY <4>2 DEF o, s, u
    <3>5. Holds(buf', at[k], q)
          BY <1>3, <1>5, <3>1, <3>3, <3>4, HoldsStill
    <3> QED BY <3>5 DEF q
  <2> QED BY <1>4, <2>1 DEF Layout
<1>8. len' \in -1..MaxLen
  <2>1. MaxLen \in Nat
        BY CodecAssumption DEF Codec!CodecAssumption
  <2> HIDE DEF l
  <2>2. \A a, b \in Nat : a + 1 + 8 <= b => a + 1 + 8 \in -1..b
        OBVIOUS
  <2>3. len' = l + 1 + 8
        BY <1>1, <1>5
  <2> QED BY <1>1, <1>3, <2>1, <2>2, <2>3
<1>9. CodecTypes'
  <2>1. params' \in Seq(Pairs) /\ offset' \in Nat \ {0}
        BY <1>1, EmptySeq
  <2> QED BY <1>1, <1>5, <1>8, <2>1 DEF CodecInv, CodecTypes
<1>10. CodecPlaces'
       BY <1>1, <1>2 DEF CodecPlaces, PanicsOnlyMalformed, Codec!PanicsOnlyMalformed
<1>11. Chosen'
  <2>1. next = Len(ps) + 1
    <3>1. next <= Len(ps) + 1
          BY <1>2 DEF CodecInv, Chosen
    <3> QED BY <1>1, <1>3, <3>1
  <2> QED BY <1>1, <1>2, <2>1 DEF CodecInv, Chosen
<1>12. Writing'
       BY <1>1 DEF Writing
<1>13. ReadingBack'
  <2>1. Len(params') = 0 /\ codecPc' = "length" /\ first' # <<>>
        BY <1>1, <1>2
  <2>2. Layout(buf', sent', at) /\ offset' = at[Len(params') + 1]
        BY <1>1, <1>6, <1>7, <2>1
  <2>3. Len(buf') = at[Len(sent') + 1] /\ buf'[Len(buf')] = Nul /\ len' = Len(buf') + 8
        BY <1>1, <1>5, <1>6
  <2>4. Len(params') <= Len(sent') /\ \A i \in 1..Len(params') : params'[i] = sent'[i]
        BY <1>1, <1>3, <2>1
  <2> QED BY <2>1, <2>2, <2>3, <2>4 DEF ReadingBack
<1> QED BY <1>9, <1>10, <1>11, <1>12, <1>13 DEF CodecInv

LEMMA CodecStays ==
    ASSUME CodecInv, UNCHANGED Codec!vars
    PROVE  CodecInv'
PROOF
<1>1. UNCHANGED <<len, code, buf, codecPc, offset, params, first, next, sent>>
      BY DEF Codec!vars
<1>2. CodecTypes'
      BY <1>1 DEF CodecInv, CodecTypes
<1>3. CodecPlaces'
  <2>1. /\ Codec!Terminated' = Codec!Terminated
        /\ Codec!Matches(User)' = Codec!Matches(User)
        BY <1>1 DEF Codec!Terminated, Codec!Matches
  <2> QED BY <1>1, <2>1 DEF CodecInv, CodecPlaces, PanicsOnlyMalformed, Codec!PanicsOnlyMalformed
<1>4. Chosen' /\ Writing' /\ ReadingBack'
      BY <1>1 DEF CodecInv, Chosen, Writing, ReadingBack
<1> QED BY <1>2, <1>3, <1>4 DEF CodecInv

LEMMA CodecNext ==
    CodecInv /\ [Codec!Next]_Codec!vars => CodecInv'
PROOF
<1> SUFFICES ASSUME CodecInv, [Codec!Next]_Codec!vars PROVE CodecInv'
    OBVIOUS
<1> QED BY ReadLengthKeeps, ParameterKeeps, FoundKeeps, RewriteKeeps, WriteParameterKeeps,
           WriteEndKeeps, CodecStays DEF Codec!Next

-----------------------------------------------------------------------------
(* StartupCodec: the theorems *)

\* No length field, and no bytes behind it, makes read_initial_message panic
\* but a length below 8, or parameters that do not end in two NULs.
THEOREM OnlyMalformedPanics == Codec!Spec => []PanicsOnlyMalformed
PROOF
<1>1. CodecInv => PanicsOnlyMalformed
      BY DEF CodecInv, CodecPlaces
<1> QED BY <1>1, CodecInit, CodecNext, PTL DEF Codec!Spec

\* Where the pairs read are those written one by one, the message that was
\* written is read back: its first user and its first database are the two pairs
\* that are written first, and the places the others came from map one list's
\* others to the other's.
LEMMA CodecImplied == CodecInv => RoundTrip
PROOF
<1> SUFFICES ASSUME CodecInv, first # <<>>, codecPc \in Codec!Outcomes
             PROVE  /\ codecPc = "startup"
                    /\ Codec!Startup.user = first[1].user
                    /\ Codec!Startup.database = first[1].database
                    /\ Codec!SameOthers(params, first[1].params)
    BY DEF RoundTrip, Codec!RoundTrip
<1> DEFINE ps == first[1].params
           m  == Len(params)
<1>1. /\ codecPc = "startup" /\ Len(sent) = m /\ \A i \in 1..m : params[i] = sent[i]
      BY DEF CodecInv, ReadingBack, Codec!Outcomes
<1>2. /\ params \in Seq(Pairs) /\ ps \in Seq(Pairs) /\ m \in Nat /\ Len(ps) \in Nat
      BY LenProperties DEF CodecInv, CodecTypes
<1>3. /\ m >= 2 /\ sent[1] = Codec!UserPair(first[1]) /\ sent[2] = Codec!DatabasePair(first[1])
      /\ next - 1 = Len(ps)
      /\ \E f : Picks(f, m, ps, next - 1) /\ \A i \in 3..m : sent[i] = ps[f[i]]
      BY <1>1, <1>2 DEF CodecInv, Chosen
<1>4. /\ params[1] = <<<<User>>, first[1].user>>
      /\ params[2] = <<<<Database>>, first[1].database>>
      BY <1>1, <1>2, <1>3 DEF Codec!UserPair, Codec!DatabasePair
<1>5. <<User>> # <<Database>>
  <2>1. <<User>>[1] = User /\ <<Database>>[1] = Database
        OBVIOUS
  <2> QED BY <2>1, CodecAssumption DEF Codec!CodecAssumption
<1>6. PICK f : Picks(f, m, ps, Len(ps)) /\ \A i \in 3..m : params[i] = ps[f[i]]
  <2>1. \A i \in 3..m : i \in 1..m
        BY <1>2
  <2> QED BY <1>1, <1>3, <2>1
<1> HIDE DEF m
<1>7. Codec!Startup.user = first[1].user
  <2> DEFINE I == Codec!Matches(User)
             n == Codec!Min(I)
  <2>1. 1 \in I /\ I \subseteq 1..m
        BY <1>2, <1>3, <1>4 DEF Codec!Matches, m
  <2>2. n \in I /\ \A i \in I : n <= i
        BY <1>2, <2>1, ValueIsPlain
  <2> HIDE DEF I, n
  <2>3. n = 1
        BY <1>2, <2>1, <2>2
  <2>4. Codec!Value(User) = params[n][2]
        BY DEF Codec!Value, n, I
  <2> QED BY <1>4, <2>3, <2>4 DEF Codec!Startup
<1>8. Codec!Startup.database = first[1].database
  <2> DEFINE I == Codec!Matches(Database)
             n == Codec!Min(I)
  <2>1. 2 \in I /\ 1 \notin I /\ I \subseteq 1..m
        BY <1>2, <1>3, <1>4, <1>5 DEF Codec!Matches, m
  <2>2. n \in I /\ \A i \in I : n <= i
        BY <1>2, <2>1, ValueIsPlain
  <2>3. I # {}
        BY <2>1
  <2> HIDE DEF I, n
  <2>4. n = 2
        BY <1>2, <2>1, <2>2
  <2>5. Codec!Value(Database) = params[n][2]
        BY DEF Codec!Value, n, I
  <2>6. Codec!Startup.database = Codec!Value(Database)
        BY <2>3 DEF Codec!Startup, I
  <2> QED BY <1>4, <2>4, <2>5, <2>6
<1>9. Codec!SameOthers(params, ps)
  <2>1. /\ f \in [3..m -> 1..Len(ps)]
        /\ \A i \in 3..m : Codec!IsOther(ps[f[i]])
        /\ \A j \in 1..Len(ps) : Codec!IsOther(ps[j]) => \E i \in 3..m : f[i] = j
        /\ \A i, k \in 3..m : i < k => f[i] < f[k]
        BY <1>6 DEF Picks
  <2>2. Codec!Others(params) = 3..m
    <3>1. ~Codec!IsOther(params[1]) /\ ~Codec!IsOther(params[2])
          BY <1>4 DEF Codec!IsOther
    <3>2. \A i \in 3..m : Codec!IsOther(params[i])
          BY <1>6, <2>1
    <3>3. \A i : i \in 1..m <=> i \in 3..m \/ i = 1 \/ i = 2
          BY <1>2, <1>3
    <3> QED BY <3>1, <3>2, <3>3 DEF Codec!Others, m
  <2>3. \A j : j \in Codec!Others(ps) <=> j \in 1..Len(ps) /\ Codec!IsOther(ps[j])
        BY DEF Codec!Others
  <2>4. f \in [3..m -> Codec!Others(ps)]
        BY <2>1, <2>3
  <2> QED BY <1>6, <2>1, <2>2, <2>3, <2>4 DEF Codec!SameOthers
<1> QED BY <1>1, <1>7, <1>8, <1>9

\* What write_startup_message writes of a startup message, however many
\* parameters of whatever length it has, read_initial_message reads back: the
\* same user and database, and every other parameter once and in its order.
THEOREM WrittenIsReadBack == Codec!Spec => []RoundTrip
PROOF BY CodecImplied, CodecInit, CodecNext, PTL DEF Codec!Spec

-----------------------------------------------------------------------------
(* ClientLogin, as its theorems are about it: LoginProofs for the login of     *)
(* Setup, whose Spec and properties it names once more.                        *)

Login == INSTANCE LoginProofs WITH cfg <- loginCfg, pc <- loginPc

\* A client is admitted only by the method in force for it and on the evidence
\* that method demands, whatever the rules, the lookups and the services say.
THEOREM ClientsEarnAdmission == Login!Spec => []LoginInv
<1>1. Login!Spec => []Login!LoginInv
  BY LoginAssumption, Login!AdmissionIsEarned DEF Login!Messages, Messages
<1>2. Login!LoginInv => LoginInv
  BY DEF LoginInv,
         Login!LoginInv, Front!LoginInv, Login!TypeOK, Front!TypeOK,
         Login!AdmittedRightly, Front!AdmittedRightly, Login!WhoSet,
         Front!WhoSet, Login!Reading, Front!Reading, Login!Over, Front!Over,
         Login!Method, Front!Method, Login!RuleMethod, Front!RuleMethod,
         Login!Applies, Front!Applies, Login!Spelled, Front!Spelled,
         Login!LastSet, Front!LastSet, Login!Min, Front!Min, Login!Range,
         Front!Range
<1> QED BY <1>1, <1>2, PTL

\* Where the two tests of a rule agree, the first rule that matches decides.
THEOREM FirstMatchIsInForce == Login!Spec => []FirstMatchDecides
<1>1. Login!Spec => []Login!FirstMatchDecides
  BY LoginAssumption, Login!TheFirstMatchDecides DEF Login!Messages, Messages
<1>2. Login!FirstMatchDecides => FirstMatchDecides
  BY DEF FirstMatchDecides,
         Login!FirstMatchDecides, Front!FirstMatchDecides, Login!PlainRule,
         Front!PlainRule, Login!MatchRule, Front!MatchRule, Login!RuleMethod,
         Front!RuleMethod, Login!Spelled, Front!Spelled, Login!Min, Front!Min
<1> QED BY <1>1, <1>2, PTL

\* Whoever a rule or a credential kept out has been told.
THEOREM TheRefusedAreTold == Login!Spec => []RefusalIsTold
<1>1. Login!Spec => []Login!RefusalIsTold
  BY LoginAssumption, Login!RefusalsAreTold DEF Login!Messages, Messages
<1>2. Login!RefusalIsTold => RefusalIsTold
  BY DEF RefusalIsTold, Login!RefusalIsTold, Front!RefusalIsTold
<1> QED BY <1>1, <1>2, PTL

=============================================================================
