-------------------------- MODULE AppProcessProofs --------------------------
(***************************************************************************)
(* The safety of AppProcess for every number of requests, days and faults. *)
(* The invariant has a part for each group of variables: the writers, the  *)
(* requests and their places in the chain, the publication, the process    *)
(* around them, and the files against the handles that own them.           *)
(***************************************************************************)
EXTENDS AppProcess, SequenceTheorems, FiniteSetTheorems, TLAPS

Serving == {"serve", "select", "shutdown", "drain"}

WriterInv ==
  /\ today \in Days
  /\ curDate \in [Writers -> 0 .. MaxDay]
  /\ files \in [Writers -> SUBSET Days]
  /\ \A w \in Writers : files[w] \subseteq {curDate[w]}

\* Nothing is answered on the way in, and once on the way out at most.
RequestInv ==
  /\ way \in [Requests -> {"idle", "in", "out", "panic", "done"}]
  /\ answers \in [Requests -> Seq(Answers)]
  /\ \A r \in Requests :
       /\ way[r] \in {"idle", "in", "panic"} => answers[r] = <<>>
       /\ way[r] = "out" => Len(answers[r]) <= 1
       /\ way[r] = "done" => Len(answers[r]) = 1

\* The line that AccessLog writes for an answer.
Written(a) == IF a = <<"recovered">> THEN <<>> ELSE a

\* Where a request is, and what was answered and logged by then: Recovery is
\* the third of the chain and AccessLog the fourth.
Placed(r) ==
  /\ way[r] \in {"in", "out", "panic"} =>
       kind # "cli" /\ route[r] \in DOMAIN Chains[kind] /\ at[r] \in 0 .. Len(Chain(r))
  /\ way[r] = "in" => at[r] > 0
  /\ way[r] = "panic" => at[r] = 3
  /\ way[r] \in {"idle", "in", "panic"} => answers[r] = <<>> /\ lines[r] = <<>>
  /\ way[r] = "out" /\ at[r] > 3 => answers[r] # <<"recovered">> /\ lines[r] = <<>>
  /\ way[r] = "out" /\ at[r] \in 1 .. 3 =>
       at[r] = 3 /\ answers[r] = <<"recovered">> /\ lines[r] = <<>>
  /\ way[r] = "out" /\ at[r] = 0 =>
       lines[r] = IF answers[r] = <<>> THEN <<"notFound">> ELSE Written(answers[r])
  /\ way[r] = "done" => lines[r] = Written(answers[r])

PipelineInv ==
  /\ route \in [Requests -> {"users", "open", "other"}]
  /\ at \in [Requests -> Nat]
  /\ lines \in [Requests -> Seq(Answers)]
  /\ \A r \in Requests : Placed(r)

\* Without a fault there is no entry before the answer to XADD, then one.
PublishInv ==
  /\ PublishTypeOK
  /\ copies <= IF job \in {"none", "xadd"} THEN upsets ELSE upsets + 1
  /\ stamp <= today
  /\ job \in {"none", "xadd"} => audited = 0
  /\ job = "audit" => copies >= 1 /\ audited = 0 /\ (upsets = 0 => copies = 1)
  /\ AuditAgreesWithStream

\* What is open at each stage, and where requests and the job can be.
LifeInv ==
  /\ kind \in Kinds
  /\ stage \in {"new", "run", "close", "exited", "died", "killed"} \cup Serving
  /\ built \in 0 .. 6 /\ opened \subseteq Handles
  /\ listener \in {"none", "starting", "logged", "up", "failed", "refused", "down"}
  /\ signalled \in BOOLEAN
  /\ stage = "new" =>
       listener = "none" /\ opened = Handles \cap {Order[i] : i \in 1 .. built}
  /\ stage = "run" => listener = "none"
  /\ stage \in Serving => kind \in {"api", "admin"}
  /\ stage \in {"run"} \cup Serving => opened = Handles
  /\ stage \notin {"new", "died", "killed"} => built = 6
  /\ stage = "exited" => opened = {}
  /\ Active # {} => opened = Handles /\ stage \in {"died", "killed"} \cup Serving
  /\ job \in {"xadd", "audit"} => opened = Handles /\ stage \in {"run", "killed"}
  /\ RolledBack

\* A file is open only while its owner is, but for the line of serve's
\* goroutine that comes when the logger is closed.
FilesInv ==
  /\ stage = "new" => files["app"] = {} /\ files["audit"] = {}
  /\ files["audit"] # {} => "publisher" \in opened
  /\ files["app"] # {} =>
       \/ "logger" \in opened
       \/ (listener \in {"logged", "refused"} /\ stage \in {"close", "exited", "killed"})

AppInv == WriterInv /\ RequestInv /\ PipelineInv /\ PublishInv /\ LifeInv /\ FilesInv

-----------------------------------------------------------------------------
(* A failure of New.                                                       *)

\* Whatever step of New fails, the process dies with what the roll-back leaves.
LEMMA FailShape ==
  ASSUME BuildFails
  PROVE  /\ stage = "new" /\ built < Len(Order) /\ stage' = "died"
         /\ \E left \in SUBSET ({Order[built + 1]} \cap {"database", "redis", "eventRedis"}) :
              opened' = (opened \ Rollback[Order[built + 1]]) \cup left
         /\ UNCHANGED <<today, writerVars, kind, requestVars, publishVars, built, listener,
                        signalled>>
<1>1. PICK step \in {"config", "logger", "database", "redis", "eventRedis", "publisher"} :
        \E left \in SUBSET ({step} \cap {"database", "redis", "eventRedis"}) : FailsAt(step, left)
  BY DEF BuildFails, LoadFails, LoggerFails, DatabaseFails, RedisFails, PublisherFails
<1> QED
  BY <1>1 DEF FailsAt

-----------------------------------------------------------------------------
(* The writers.                                                            *)

\* A line of the log leaves the audit file alone and keeps the types.
LEMMA LogStep ==
  ASSUME WriterInv, Log, UNCHANGED today
  PROVE  WriterInv' /\ files'["audit"] = files["audit"]
<1> USE WriterAssumption, ProcessAssumption DEF WriterInv, Days
<1>1. CASE Write("app")
  BY <1>1 DEF Write, Switch
<1>2. CASE WriteFails("app")
  BY <1>2 DEF WriteFails, Switch
<1>3. CASE UNCHANGED writerVars
  BY <1>3 DEF writerVars
<1> QED
  BY <1>1, <1>2, <1>3 DEF Log

\* Every step keeps the types of the writers.
LEMMA WriterStep ==
  ASSUME AppInv, [Next]_vars
  PROVE  WriterInv'
<1>1. WriterInv
  BY DEF AppInv
<1>2. CASE UNCHANGED <<today, curDate, files>>
  BY <1>1, <1>2 DEF WriterInv
<1>3. CASE Log /\ UNCHANGED today
  BY <1>1, <1>3, LogStep
<1>4. ASSUME NEW ws, NewWriters(ws), UNCHANGED today, files["app"] = {}, files["audit"] = {}
      PROVE  WriterInv'
  BY <1>1, <1>4, ProcessAssumption DEF WriterInv, NewWriters, Days
<1>5. ASSUME NEW w \in Writers, CloseWriter(w), UNCHANGED today
      PROVE  WriterInv'
  BY <1>1, <1>5 DEF WriterInv, CloseWriter
<1>6. CASE Build
  <2>1. files["app"] = {} /\ files["audit"] = {}
    BY <1>6 DEF Build, AppInv, FilesInv
  <2> QED
    BY <1>2, <1>4, <1>6, <2>1 DEF Build, writerVars
<1>7. CASE CloseNext
  BY <1>2, <1>5, <1>7, ProcessAssumption DEF CloseNext, writerVars
<1>8. CASE Job
  <2>1. CASE AuditLine \/ AuditLost
    BY <1>1, <2>1, WriterAssumption, ProcessAssumption
    DEF WriterInv, Days, AuditLine, AuditLost, Write, WriteFails, Switch
  <2>2. CASE Publish \/ XAddOk \/ XAddRepeats \/ XAddFails
    BY <1>2, <2>2 DEF Publish, XAddOk, XAddRepeats, XAddFails, writerVars
  <2> QED
    BY <1>8, <2>1, <2>2 DEF Job, PublishNext
<1>9. CASE Clock
  BY <1>1, <1>9, WriterAssumption DEF WriterInv, Days, Clock, Midnight, writerVars
<1>10. ASSUME NEW r \in Requests, Request(r) PROVE WriterInv'
  <2>1. CASE Arrive(r) \/ Panic(r) \/ Finish(r)
    BY <1>2, <1>10, <2>1 DEF Request, Arrive, Panic, Finish, writerVars
  <2>2. CASE Pass(r) \/ Stop(r) \/ Handle(r) \/ Recover(r)
    BY <1>2, <1>3, <1>10, <2>2
    DEF Request, Pass, Stop, Preflight, TooMany, Unauthorized,
        Handle, GetUser, Health, DebugHeaders, Recover, writerVars
  <2>3. CASE Leave(r)
    BY <1>2, <1>3, <1>10, <2>3 DEF Request, Leave, writerVars
  <2> QED
    BY <1>10, <2>1, <2>2, <2>3 DEF Request, RequestNext
<1>11. CASE StartLine \/ SelectSignal \/ ShutdownDone \/ ShutdownTimeout \/ RunReturns
  BY <1>3, <1>11 DEF StartLine, SelectSignal, ShutdownDone, ShutdownTimeout, RunReturns
<1>12. CASE BuildFails \/ Serve \/ Notify \/ Listen \/ AcceptFails \/ SelectError \/ Shutdown
            \/ Run \/ Exit \/ Signal
  BY <1>2, <1>12, FailShape
  DEF Serve, Notify, Listen, AcceptFails, SelectError, Shutdown, Run, Exit, Signal,
      writerVars
<1>13. CASE UNCHANGED vars
  BY <1>2, <1>13 DEF vars
<1> QED
  BY <1>6, <1>7, <1>8, <1>9, <1>10, <1>11, <1>12, <1>13 DEF Next, Main

-----------------------------------------------------------------------------
(* The requests.                                                           *)

\* A request that has no answer yet and gets one is on its way out with it.
LEMMA OneReply ==
  ASSUME RequestInv, NEW r \in Requests, NEW a \in Answers,
         answers[r] = <<>>, Reply(r, a),
         NEW w \in {"out", "done"}, way' = [way EXCEPT ![r] = w]
  PROVE  RequestInv'
<1>1. answers' = [answers EXCEPT ![r] = <<a>>]
  BY DEF Reply, RequestInv
<1>2. <<a>> \in Seq(Answers) /\ Len(<<a>>) = 1
  OBVIOUS
<1> QED
  BY <1>1, <1>2 DEF RequestInv

\* No step answers a request twice.
LEMMA RequestStep ==
  ASSUME AppInv, [Next]_vars
  PROVE  RequestInv'
<1>1. RequestInv
  BY DEF AppInv
<1>2. CASE UNCHANGED <<way, answers>>
  BY <1>1, <1>2 DEF RequestInv
<1>3. ASSUME NEW r \in Requests, Request(r) PROVE RequestInv'
  <2>1. CASE Arrive(r)
    BY <1>1, <2>1 DEF RequestInv, Arrive
  <2>2. CASE Pass(r)
    BY <1>1, <2>2 DEF RequestInv, Pass
  <2>3. CASE Stop(r)
    <3>1. Turn(r, "stopped")
      BY <2>3 DEF Stop, Preflight, TooMany, Unauthorized
    <3>2. answers[r] = <<>> /\ "stopped" \in Answers
      BY <1>1, <3>1 DEF RequestInv, Turn, Answers
    <3> QED
      BY <1>1, <3>1, <3>2, OneReply DEF Turn
  <2>4. CASE Handle(r)
    <3>1. PICK a \in {"ok", "fail"} : Turn(r, a)
      BY <2>4 DEF Handle, GetUser, Health, DebugHeaders
    <3>2. answers[r] = <<>> /\ a \in Answers
      BY <1>1, <3>1 DEF RequestInv, Turn, Answers
    <3> QED
      BY <1>1, <3>1, <3>2, OneReply DEF Turn
  <2>5. CASE Panic(r)
    BY <1>1, <2>5 DEF RequestInv, Panic
  <2>6. CASE Recover(r)
    <3>1. answers[r] = <<>> /\ "recovered" \in Answers
      BY <1>1, <2>6 DEF RequestInv, Recover, Answers
    <3> QED
      BY <1>1, <2>6, <3>1, OneReply DEF Recover
  <2>7. CASE Leave(r)
    BY <1>1, <2>7 DEF RequestInv, Leave
  <2>8. CASE Finish(r)
    <3>1. CASE answers[r] = <<>>
      <4>1. "notFound" \in Answers
        BY DEF Answers
      <4> QED
        BY <1>1, <2>8, <3>1, <4>1, OneReply DEF Finish
    <3>2. CASE answers[r] # <<>>
      <4>1. answers[r] \in Seq(Answers)
        BY <1>1 DEF RequestInv
      <4>2. Len(answers[r]) \in Nat \ {0}
        BY <3>2, <4>1, EmptySeq, Zenon
      <4>3. Len(answers[r]) <= 1
        BY <1>1, <2>8 DEF RequestInv, Finish
      <4>4. Len(answers[r]) = 1
        <5>1. ASSUME NEW n \in Nat \ {0}, n <= 1 PROVE n = 1
          BY <5>1
        <5> QED
          BY <4>2, <4>3, <5>1, Zenon
      <4> QED
        BY <1>1, <2>8, <3>2, <4>4 DEF RequestInv, Finish
    <3> QED
      BY <3>1, <3>2
  <2> QED
    BY <1>3, <2>1, <2>2, <2>3, <2>4, <2>5, <2>6, <2>7, <2>8 DEF Request, RequestNext
<1>4. CASE Job \/ Clock
  BY <1>2, <1>4 DEF Job, Clock, requestVars
<1>5. CASE Main
  BY <1>2, <1>5, FailShape
  DEF Main, Build, Serve, Notify, SelectSignal, SelectError, Shutdown, ShutdownDone,
      ShutdownTimeout, Run, RunReturns, CloseNext, Exit, requestVars
<1>6. CASE StartLine \/ Listen \/ AcceptFails \/ Signal
  BY <1>2, <1>6 DEF StartLine, Listen, AcceptFails, Signal, requestVars
<1>7. CASE UNCHANGED vars
  BY <1>2, <1>7 DEF vars, requestVars
<1> QED
  BY <1>3, <1>4, <1>5, <1>6, <1>7 DEF Next

-----------------------------------------------------------------------------
(* The position of a request in its chain.                                 *)

\* The middleware and handlers; the last four follow the global ones.
Names ==
  {"Trace", "RequestContext", "Recovery", "AccessLog", "CORS", "RateLimit", "Timeout", "JWT",
   "GetUser", "Open"}
LateNames == {"Timeout", "JWT", "GetUser", "Open"}

\* What follows the global middleware in a chain leaves it in front.
LEMMA GlobalFirst ==
  ASSUME NEW s \in Seq(LateNames)
  PROVE  /\ Global \o s \in Seq(Names)
         /\ Len(Global \o s) >= 6
         /\ \A i \in 1 .. 6 : (Global \o s)[i] = Global[i]
         /\ \A i \in 7 .. Len(Global \o s) : (Global \o s)[i] \in LateNames
<1>1. Global \in Seq(Names) /\ Len(Global) = 6
  BY DEF Global, Names
<1>2. s \in Seq(Names)
  BY DEF Names, LateNames
<1>3. /\ Global \o s \in Seq(Names)
      /\ Len(Global \o s) = Len(Global) + Len(s)
      /\ \A i \in 1 .. Len(Global) + Len(s) :
           (Global \o s)[i] = IF i <= Len(Global) THEN Global[i] ELSE s[i - Len(Global)]
  BY <1>1, <1>2, ConcatProperties
<1>4. Len(s) \in Nat /\ \A i \in 1 .. Len(s) : s[i] \in LateNames
  OBVIOUS
<1> QED
  BY <1>1, <1>3, <1>4

\* Every chain begins with the six global ones, which come nowhere else.
LEMMA ChainShape ==
  ASSUME NEW k \in {"api", "admin"}, NEW p \in DOMAIN Chains[k]
  PROVE  /\ p \in {"users", "open", "other"}
         /\ Chains[k][p] \in Seq(Names)
         /\ Len(Chains[k][p]) >= 6
         /\ \A i \in 1 .. 6 : Chains[k][p][i] = Global[i]
         /\ \A i \in 7 .. Len(Chains[k][p]) : Chains[k][p][i] \in LateNames
<1>1. /\ <<"Timeout", "JWT", "Timeout", "GetUser">> \in Seq(LateNames)
      /\ <<"Timeout", "Open">> \in Seq(LateNames)
      /\ <<"Timeout">> \in Seq(LateNames)
      /\ <<"JWT", "Timeout", "GetUser">> \in Seq(LateNames)
  BY DEF LateNames
<1>2. Global \in Seq(Names) /\ Len(Global) = 6
  BY DEF Global, Names
<1>3. CASE k = "api" /\ p = "users"
  BY <1>1, <1>3, GlobalFirst DEF Chains, ApiChains, AdminChains
<1>4. CASE k = "api" /\ p = "open"
  BY <1>1, <1>4, GlobalFirst DEF Chains, ApiChains, AdminChains
<1>5. CASE k = "api" /\ p = "other"
  BY <1>1, <1>5, GlobalFirst DEF Chains, ApiChains, AdminChains
<1>6. CASE k = "admin" /\ p = "users"
  BY <1>1, <1>6, GlobalFirst DEF Chains, ApiChains, AdminChains
<1>7. CASE k = "admin" /\ p = "other"
  <2>1. Chains[k][p] = Global
    BY <1>7 DEF Chains, ApiChains, AdminChains
  <2>2. Len(Chains[k][p]) = 6
    BY <1>2, <2>1
  <2>3. \A i \in 7 .. Len(Chains[k][p]) : FALSE
    BY <2>2
  <2>4. Chains[k][p] \in Seq(Names) /\ \A i \in 1 .. 6 : Chains[k][p][i] = Global[i]
    BY <1>2, <2>1
  <2> QED
    BY <1>7, <2>2, <2>3, <2>4
<1>8. /\ k = "api" => p \in {"users", "open", "other"}
      /\ k = "admin" => p \in {"users", "other"}
  BY DEF Chains, ApiChains, AdminChains
<1> QED
  BY <1>3, <1>4, <1>5, <1>6, <1>7, <1>8

\* The chain of a request and what the position in it says of the names.
LEMMA Position ==
  ASSUME kind \in {"api", "admin"}, NEW r \in Requests, route[r] \in DOMAIN Chains[kind],
         at[r] \in 1 .. Len(Chain(r))
  PROVE  /\ Chain(r) \in Seq(Names) /\ Len(Chain(r)) >= 6 /\ DOMAIN Chain(r) = 1 .. Len(Chain(r))
         /\ \A i \in DOMAIN Chain(r) : Chain(r)[i] = "Recovery" <=> i = 3
         /\ \A i \in DOMAIN Chain(r) : Chain(r)[i] = "AccessLog" <=> i = 4
         /\ Here(r) \in Handlers => at[r] > 6
         /\ Here(r) \in Stoppers => at[r] > 4
         /\ "Recovery" \in Around(r) <=> at[r] > 3
         /\ "AccessLog" \in Around(r) \cup {Here(r)} <=> at[r] > 3
<1> DEFINE c == Chain(r)
<1>1. /\ c \in Seq(Names) /\ Len(c) >= 6
      /\ \A i \in 1 .. 6 : c[i] = Global[i]
      /\ \A i \in 7 .. Len(c) : c[i] \in LateNames
  BY ChainShape DEF Chain
<1>2. Len(c) \in Nat /\ DOMAIN c = 1 .. Len(c)
  BY <1>1
<1>3. /\ Global[1] = "Trace" /\ Global[2] = "RequestContext" /\ Global[3] = "Recovery"
      /\ Global[4] = "AccessLog" /\ Global[5] = "CORS" /\ Global[6] = "RateLimit"
  BY DEF Global
<1> HIDE DEF c
<1>4. \A i \in 1 .. Len(c) : i \in {1, 2, 3, 4, 5, 6} \/ i \in 7 .. Len(c)
  BY <1>2
<1>5. \A i \in 1 .. Len(c) : c[i] = "Recovery" <=> i = 3
  BY <1>1, <1>2, <1>3, <1>4 DEF LateNames
<1>6. \A i \in 1 .. Len(c) : c[i] = "AccessLog" <=> i = 4
  BY <1>1, <1>2, <1>3, <1>4 DEF LateNames
<1>7. Here(r) = c[at[r]] /\ at[r] \in 1 .. Len(c)
  BY DEF Here, c
<1>8. Here(r) \in Handlers => at[r] > 6
  BY <1>1, <1>2, <1>3, <1>4, <1>7 DEF Handlers
<1>9. Here(r) \in Stoppers => at[r] > 4
  BY <1>1, <1>2, <1>3, <1>4, <1>7 DEF Stoppers
<1>10. Around(r) = {c[i] : i \in 1 .. at[r] - 1}
  <2>1. SubSeq(c, 1, at[r] - 1) = [i \in 1 .. at[r] - 1 |-> c[i]]
    BY <1>1, <1>2, <1>7
  <2> QED
    BY <2>1 DEF Around, c, Range
<1>11. "Recovery" \in Around(r) <=> at[r] > 3
  BY <1>2, <1>5, <1>7, <1>10
<1>12. "AccessLog" \in Around(r) \cup {Here(r)} <=> at[r] > 3
  BY <1>2, <1>6, <1>7, <1>10
<1> QED
  BY <1>1, <1>2, <1>5, <1>6, <1>8, <1>9, <1>11, <1>12 DEF c

\* A request stays placed while its own entries are left alone.
LEMMA OthersStay ==
  ASSUME NEW q \in Requests, Placed(q), UNCHANGED kind,
         way'[q] = way[q], at'[q] = at[q], route'[q] = route[q],
         answers'[q] = answers[q], lines'[q] = lines[q]
  PROVE  Placed(q)'
BY DEF Placed, Chain

\* A step of one request leaves the others where they are.
LEMMA OneMoves ==
  ASSUME RequestInv, PipelineInv, RequestInv', UNCHANGED kind, NEW r \in Requests,
         route' \in [Requests -> {"users", "open", "other"}],
         at' \in [Requests -> Nat], lines' \in [Requests -> Seq(Answers)],
         \A q \in Requests \ {r} :
           /\ way'[q] = way[q] /\ at'[q] = at[q] /\ route'[q] = route[q]
           /\ answers'[q] = answers[q] /\ lines'[q] = lines[q],
         Placed(r)'
  PROVE  PipelineInv'
<1>1. ASSUME NEW q \in Requests PROVE Placed(q)'
  <2>1. CASE q # r
    <3>1. Placed(q)
      BY DEF PipelineInv
    <3>2. /\ way'[q] = way[q] /\ at'[q] = at[q] /\ route'[q] = route[q]
          /\ answers'[q] = answers[q] /\ lines'[q] = lines[q]
      BY <2>1
    <3> QED
      BY <3>1, <3>2, OthersStay
  <2> QED
    BY <2>1
<1> QED
  BY <1>1 DEF PipelineInv

\* A step of a request keeps it placed; one case for each step.
LEMMA RequestMoves ==
  ASSUME RequestInv, PipelineInv, RequestInv', UNCHANGED kind, NEW r \in Requests,
         (kind \in {"api", "admin"} /\ Arrive(r)) \/ RequestNext(r),
         kind \in {"api", "admin", "cli"}
  PROVE  PipelineInv'
<1>1. /\ Placed(r) /\ route[r] \in {"users", "open", "other"} /\ at[r] \in Nat
      /\ lines[r] \in Seq(Answers) /\ answers[r] \in Seq(Answers)
  BY DEF PipelineInv, RequestInv
<1>2. /\ route \in [Requests -> {"users", "open", "other"}] /\ at \in [Requests -> Nat]
      /\ lines \in [Requests -> Seq(Answers)] /\ answers \in [Requests -> Seq(Answers)]
      /\ way \in [Requests -> {"idle", "in", "out", "panic", "done"}]
  BY DEF PipelineInv, RequestInv
<1>3. CASE kind \in {"api", "admin"} /\ Arrive(r)
  <2>1. PICK p \in DOMAIN Chains[kind] : route' = [route EXCEPT ![r] = p]
    BY <1>3 DEF Arrive
  <2>2. p \in {"users", "open", "other"} /\ Len(Chains[kind][p]) >= 6
        /\ Len(Chains[kind][p]) \in Nat
    BY <1>3, ChainShape
  <2>3. /\ at' = [at EXCEPT ![r] = 1] /\ way' = [way EXCEPT ![r] = "in"]
        /\ UNCHANGED <<answers, lines>> /\ way[r] = "idle"
    BY <1>3 DEF Arrive
  <2>4. Placed(r)'
    <3>1. route'[r] = p /\ at'[r] = 1 /\ way'[r] = "in"
      BY <2>1, <2>3 DEF PipelineInv, RequestInv
    <3>2. answers'[r] = <<>> /\ lines'[r] = <<>>
      BY <1>1, <2>3 DEF Placed
    <3> QED
      BY <1>3, <2>2, <3>1, <3>2 DEF Placed, Chain
  <2>8. /\ route' \in [Requests -> {"users", "open", "other"}]
        /\ at' \in [Requests -> Nat] /\ lines' \in [Requests -> Seq(Answers)]
        /\ \A q \in Requests \ {r} :
             /\ way'[q] = way[q] /\ at'[q] = at[q] /\ route'[q] = route[q]
             /\ answers'[q] = answers[q] /\ lines'[q] = lines[q]
    BY <1>1, <1>2, <2>1, <2>2, <2>3
  <2> QED
    BY <2>4, <2>8, OneMoves
<1>4. ASSUME RequestNext(r)
      PROVE  /\ way[r] \in {"in", "out", "panic"} /\ kind \in {"api", "admin"}
             /\ route[r] \in DOMAIN Chains[kind] /\ at[r] \in 0 .. Len(Chain(r))
  <2>1. way[r] \in {"in", "out", "panic"}
    BY <1>4
    DEF RequestNext, Pass, Stop, Preflight, TooMany, Unauthorized, Handle,
        GetUser, Health, DebugHeaders, Panic, Recover, Leave, Finish
  <2> QED
    BY <1>1, <2>1 DEF Placed
<1>5. CASE Pass(r)
  <2>1. /\ kind \in {"api", "admin"} /\ route[r] \in DOMAIN Chains[kind]
        /\ at[r] \in 1 .. Len(Chain(r))
        /\ answers[r] = <<>> /\ lines[r] = <<>> /\ way[r] = "in"
    BY <1>1, <1>4, <1>5 DEF RequestNext, Pass, Placed
  <2>2. Len(Chain(r)) \in Nat /\ Len(Chain(r)) >= 6
    BY <2>1, Position
  <2>3. UNCHANGED <<route, answers, lines>>
    BY <1>5 DEF Pass
  <2>4. Chain(r)' = Chain(r)
    BY <2>3 DEF Chain
  <2>5. CASE at[r] < Len(Chain(r)) /\ at' = [at EXCEPT ![r] = @ + 1] /\ UNCHANGED way
    <3>1. at'[r] = at[r] + 1
      BY <2>5 DEF PipelineInv
    <3>2. Placed(r)'
      BY <2>1, <2>2, <2>3, <2>4, <2>5, <3>1 DEF Placed
    <3>8. /\ route' \in [Requests -> {"users", "open", "other"}]
          /\ at' \in [Requests -> Nat] /\ lines' \in [Requests -> Seq(Answers)]
          /\ \A q \in Requests \ {r} :
               /\ way'[q] = way[q] /\ at'[q] = at[q] /\ route'[q] = route[q]
               /\ answers'[q] = answers[q] /\ lines'[q] = lines[q]
      BY <1>1, <1>2, <2>3, <2>5, <3>1
    <3> QED
      BY <3>2, <3>8, OneMoves
  <2>6. CASE at[r] >= Len(Chain(r)) /\ way' = [way EXCEPT ![r] = "out"] /\ UNCHANGED at
    <3>1. way'[r] = "out" /\ at'[r] = at[r] /\ at[r] > 3
      BY <1>2, <2>1, <2>2, <2>6
    <3>2. answers'[r] # <<"recovered">>
      <4>1. <<>> # <<"recovered">>
        OBVIOUS
      <4> QED
        BY <2>1, <2>3, <4>1, Zenon
    <3>3. Placed(r)'
      BY <2>1, <2>2, <2>3, <2>4, <3>1, <3>2 DEF Placed
    <3>8. /\ route' \in [Requests -> {"users", "open", "other"}]
          /\ at' \in [Requests -> Nat] /\ lines' \in [Requests -> Seq(Answers)]
          /\ \A q \in Requests \ {r} :
               /\ way'[q] = way[q] /\ at'[q] = at[q] /\ route'[q] = route[q]
               /\ answers'[q] = answers[q] /\ lines'[q] = lines[q]
      BY <1>1, <1>2, <2>3, <2>6, <3>1
    <3> QED
      BY <3>3, <3>8, OneMoves
  <2> QED
    BY <1>5, <2>1, <2>2, <2>5, <2>6 DEF Pass
<1>6. CASE Stop(r) \/ Handle(r)
  <2>0. \E a \in {"stopped", "ok", "fail"} : Turn(r, a)
    BY <1>6 DEF Stop, Preflight, TooMany, Unauthorized, Handle, GetUser, Health, DebugHeaders
  <2>1. /\ kind \in {"api", "admin"} /\ route[r] \in DOMAIN Chains[kind]
        /\ at[r] \in 1 .. Len(Chain(r))
        /\ answers[r] = <<>> /\ lines[r] = <<>> /\ way[r] = "in"
    BY <1>1, <1>4, <1>6, <2>0 DEF RequestNext, Turn, Placed
  <2>2. PICK a \in {"stopped", "ok", "fail"} : Reply(r, a)
    BY <2>0 DEF Turn
  <2>3. UNCHANGED <<route, at, lines>> /\ way' = [way EXCEPT ![r] = "out"] /\ at[r] > 3
    <3>1. Here(r) \in Stoppers \cup Handlers
      BY <1>6
      DEF Stop, Preflight, TooMany, Unauthorized, Handle, GetUser, Health, DebugHeaders,
          Stoppers, Handlers
    <3> QED
      BY <2>0, <2>1, <3>1, Position DEF Turn
  <2>4. Append(answers[r], a) = <<a>> /\ a \in Answers
    BY <2>1 DEF Answers
  <2>5. answers' = [answers EXCEPT ![r] = <<a>>] /\ <<a>> \in Seq(Answers)
    BY <2>2, <2>4 DEF Reply
  <2>6. <<a>> # <<"recovered">> /\ Chain(r)' = Chain(r)
    BY <2>3 DEF Chain
  <2>7. way'[r] = "out" /\ answers'[r] = <<a>> /\ at'[r] = at[r] /\ route'[r] = route[r]
    BY <2>3, <2>5 DEF PipelineInv, RequestInv
  <2>9. Placed(r)'
    BY <2>1, <2>3, <2>6, <2>7 DEF Placed
  <2>8. /\ route' \in [Requests -> {"users", "open", "other"}]
        /\ at' \in [Requests -> Nat] /\ lines' \in [Requests -> Seq(Answers)]
        /\ \A q \in Requests \ {r} :
             /\ way'[q] = way[q] /\ at'[q] = at[q] /\ route'[q] = route[q]
             /\ answers'[q] = answers[q] /\ lines'[q] = lines[q]
    BY <1>1, <1>2, <2>3, <2>5
  <2> QED
    BY <2>9, <2>8, OneMoves
<1>7. CASE Panic(r)
  <2>1. /\ kind \in {"api", "admin"} /\ route[r] \in DOMAIN Chains[kind]
        /\ at[r] \in 1 .. Len(Chain(r))
        /\ answers[r] = <<>> /\ lines[r] = <<>> /\ way[r] = "in"
    BY <1>1, <1>4, <1>7 DEF RequestNext, Panic, Placed
  <2>2. Len(Chain(r)) >= 6 /\ DOMAIN Chain(r) = 1 .. Len(Chain(r)) /\ Len(Chain(r)) \in Nat
        /\ \A i \in DOMAIN Chain(r) : Chain(r)[i] = "Recovery" <=> i = 3
    BY <2>1, Position
  <2>3. (CHOOSE i \in DOMAIN Chain(r) : Chain(r)[i] = "Recovery") = 3
    <3>1. 3 \in DOMAIN Chain(r)
      BY <2>2
    <3> QED
      BY <2>2, <3>1, Zenon
  <2>4. UNCHANGED <<route, answers, lines>> /\ way' = [way EXCEPT ![r] = "panic"]
        /\ at' = [at EXCEPT ![r] = 3] /\ Chain(r)' = Chain(r)
    BY <1>7, <2>3 DEF Panic, Chain
  <2>5. way'[r] = "panic" /\ at'[r] = 3
    BY <2>4 DEF PipelineInv, RequestInv
  <2>6. Placed(r)'
    BY <2>1, <2>2, <2>4, <2>5 DEF Placed
  <2>8. /\ route' \in [Requests -> {"users", "open", "other"}]
        /\ at' \in [Requests -> Nat] /\ lines' \in [Requests -> Seq(Answers)]
        /\ \A q \in Requests \ {r} :
             /\ way'[q] = way[q] /\ at'[q] = at[q] /\ route'[q] = route[q]
             /\ answers'[q] = answers[q] /\ lines'[q] = lines[q]
    BY <1>1, <1>2, <2>4
  <2> QED
    BY <2>6, <2>8, OneMoves
<1>8. CASE Recover(r)
  <2>1. /\ kind \in {"api", "admin"} /\ route[r] \in DOMAIN Chains[kind]
        /\ at[r] \in 0 .. Len(Chain(r))
        /\ at[r] = 3 /\ answers[r] = <<>> /\ lines[r] = <<>>
    BY <1>1, <1>4, <1>8 DEF RequestNext, Recover, Placed
  <2>2. UNCHANGED <<route, at, lines>> /\ way' = [way EXCEPT ![r] = "out"] /\ Chain(r)' = Chain(r)
    BY <1>8 DEF Recover, Chain
  <2>3. Append(answers[r], "recovered") = <<"recovered">> /\ "recovered" \in Answers
    BY <2>1 DEF Answers
  <2>4. answers' = [answers EXCEPT ![r] = <<"recovered">>] /\ <<"recovered">> \in Seq(Answers)
    <3>1. answers' = [answers EXCEPT ![r] = Append(answers[r], "recovered")]
      BY <1>8 DEF Recover, Reply
    <3>2. <<"recovered">> \in Seq(Answers)
      BY <2>3
    <3> QED
      BY <2>3, <3>1, <3>2, Zenon
  <2>5. way'[r] = "out" /\ answers'[r] = <<"recovered">>
    BY <2>2, <2>4 DEF PipelineInv, RequestInv
  <2>6. Placed(r)'
    BY <2>1, <2>2, <2>5 DEF Placed
  <2>8. /\ route' \in [Requests -> {"users", "open", "other"}]
        /\ at' \in [Requests -> Nat] /\ lines' \in [Requests -> Seq(Answers)]
        /\ \A q \in Requests \ {r} :
             /\ way'[q] = way[q] /\ at'[q] = at[q] /\ route'[q] = route[q]
             /\ answers'[q] = answers[q] /\ lines'[q] = lines[q]
    BY <1>1, <1>2, <2>2, <2>4
  <2> QED
    BY <2>6, <2>8, OneMoves
<1>9. CASE Leave(r)
  <2>1. /\ kind \in {"api", "admin"} /\ route[r] \in DOMAIN Chains[kind]
        /\ at[r] \in 1 .. Len(Chain(r))
        /\ lines[r] = <<>> /\ way[r] = "out"
    BY <1>1, <1>4, <1>9 DEF RequestNext, Leave, Placed
  <2>2. UNCHANGED <<route, way, answers>> /\ at' = [at EXCEPT ![r] = 0] /\ Chain(r)' = Chain(r)
    BY <1>9 DEF Leave, Chain
  <2>3. at'[r] = 0 /\ 0 \in Nat
    BY <2>2 DEF PipelineInv
  <2>4. CASE at[r] > 3
    <3> DEFINE l == IF answers[r] = <<>> THEN "notFound" ELSE Last(answers[r])
    <3>1. lines' = [lines EXCEPT ![r] = Append(@, l)] /\ answers[r] # <<"recovered">>
      BY <1>1, <1>9, <2>1, <2>4, Position DEF Leave, Placed
    <3>2. answers[r] = <<>> \/ (answers[r] # <<>> /\ Len(answers[r]) = 1)
      <4>1. Len(answers[r]) <= 1
        BY <2>1 DEF PipelineInv, RequestInv
      <4>2. answers[r] # <<>> => Len(answers[r]) \in Nat \ {0}
        BY <1>1, EmptySeq, Zenon
      <4>3. ASSUME NEW n \in Nat \ {0}, n <= 1 PROVE n = 1
        BY <4>3
      <4> QED
        BY <4>1, <4>2, <4>3, Zenon
    <3>3. <<l>> = IF answers[r] = <<>> THEN <<"notFound">> ELSE answers[r]
      BY <1>1, <3>2 DEF Last
    <3>4. l \in Answers
      BY <1>1, <3>2 DEF Last, Answers
    <3> HIDE DEF l
    <3>5. Append(lines[r], l) = <<l>> /\ <<l>> \in Seq(Answers)
      BY <2>1, <3>4
    <3>6. lines' = [lines EXCEPT ![r] = <<l>>] /\ lines'[r] = <<l>>
      BY <3>1, <3>5 DEF PipelineInv
    <3>7. Placed(r)'
      BY <2>1, <2>2, <2>3, <3>1, <3>3, <3>6 DEF Placed, Written
    <3>8. /\ route' \in [Requests -> {"users", "open", "other"}]
          /\ at' \in [Requests -> Nat] /\ lines' \in [Requests -> Seq(Answers)]
          /\ \A q \in Requests \ {r} :
               /\ way'[q] = way[q] /\ at'[q] = at[q] /\ route'[q] = route[q]
               /\ answers'[q] = answers[q] /\ lines'[q] = lines[q]
      BY <1>1, <1>2, <2>2, <2>3, <3>5, <3>6
    <3> QED
      BY <3>7, <3>8, OneMoves
  <2>5. CASE at[r] <= 3
    <3>1. UNCHANGED lines
      BY <1>9, <2>1, <2>5, Position DEF Leave
    <3>2. answers[r] = <<"recovered">> /\ <<"recovered">> # <<>>
      BY <1>1, <2>1, <2>5 DEF Placed
    <3>3. Placed(r)'
      BY <2>1, <2>2, <2>3, <3>1, <3>2 DEF Placed, Written
    <3>8. /\ route' \in [Requests -> {"users", "open", "other"}]
          /\ at' \in [Requests -> Nat] /\ lines' \in [Requests -> Seq(Answers)]
          /\ \A q \in Requests \ {r} :
               /\ way'[q] = way[q] /\ at'[q] = at[q] /\ route'[q] = route[q]
               /\ answers'[q] = answers[q] /\ lines'[q] = lines[q]
      BY <1>1, <1>2, <2>2, <2>3, <3>1
    <3> QED
      BY <3>3, <3>8, OneMoves
  <2> QED
    BY <1>1, <2>4, <2>5
<1>10. CASE Finish(r)
  <2>1. way[r] = "out" /\ at[r] = 0 /\ UNCHANGED <<route, at, lines>>
        /\ way' = [way EXCEPT ![r] = "done"]
        /\ lines[r] = IF answers[r] = <<>> THEN <<"notFound">> ELSE Written(answers[r])
    BY <1>1, <1>10 DEF Finish, Placed
  <2>2. way'[r] = "done" /\ at'[r] = 0
    BY <2>1 DEF PipelineInv, RequestInv
  <2>3. CASE answers[r] = <<>>
    <3>1. Append(answers[r], "notFound") = <<"notFound">> /\ "notFound" \in Answers
          /\ <<"notFound">> # <<"recovered">>
      BY <2>3 DEF Answers
    <3>2. answers' = [answers EXCEPT ![r] = <<"notFound">>] /\ <<"notFound">> \in Seq(Answers)
      BY <1>10, <2>3, <3>1 DEF Finish, Reply
    <3>3. answers'[r] = <<"notFound">>
      BY <3>2 DEF PipelineInv, RequestInv
    <3>4. Placed(r)'
      BY <2>1, <2>2, <2>3, <3>1, <3>3 DEF Placed, Written
    <3>8. /\ route' \in [Requests -> {"users", "open", "other"}]
          /\ at' \in [Requests -> Nat] /\ lines' \in [Requests -> Seq(Answers)]
          /\ \A q \in Requests \ {r} :
               /\ way'[q] = way[q] /\ at'[q] = at[q] /\ route'[q] = route[q]
               /\ answers'[q] = answers[q] /\ lines'[q] = lines[q]
      BY <1>1, <1>2, <2>1, <3>2
    <3> QED
      BY <3>4, <3>8, OneMoves
  <2>4. CASE answers[r] # <<>>
    <3>1. UNCHANGED answers
      BY <1>10, <2>4 DEF Finish
    <3>2. Placed(r)'
      BY <2>1, <2>2, <2>4, <3>1 DEF Placed
    <3>8. /\ route' \in [Requests -> {"users", "open", "other"}]
          /\ at' \in [Requests -> Nat] /\ lines' \in [Requests -> Seq(Answers)]
          /\ \A q \in Requests \ {r} :
               /\ way'[q] = way[q] /\ at'[q] = at[q] /\ route'[q] = route[q]
               /\ answers'[q] = answers[q] /\ lines'[q] = lines[q]
      BY <1>1, <1>2, <2>1, <3>1
    <3> QED
      BY <3>2, <3>8, OneMoves
  <2> QED
    BY <2>3, <2>4
<1> QED
  BY <1>3, <1>5, <1>6, <1>7, <1>8, <1>9, <1>10 DEF RequestNext

\* A request is where Placed says after every step (HttpPipeline).
LEMMA PipelineStep ==
  ASSUME AppInv, [Next]_vars
  PROVE  PipelineInv'
<1>1. RequestInv /\ PipelineInv /\ LifeInv /\ RequestInv'
  BY RequestStep DEF AppInv
<1>2. CASE UNCHANGED <<kind, requestVars>>
  <2>1. \A r \in Requests : Placed(r)'
    BY <1>1, <1>2, OthersStay DEF PipelineInv, requestVars
  <2> QED
    BY <1>1, <1>2, <2>1 DEF PipelineInv, requestVars
<1>3. ASSUME NEW r \in Requests, Request(r) PROVE PipelineInv'
  <2>1. UNCHANGED kind /\ kind \in {"api", "admin", "cli"}
    BY <1>1, <1>3, ProcessAssumption DEF Request, LifeInv
  <2>2. (kind \in {"api", "admin"} /\ Arrive(r)) \/ RequestNext(r)
    BY <1>1, <1>3 DEF Request, Ended, LifeInv, Serving
  <2> QED
    BY <1>1, <2>1, <2>2, RequestMoves
<1>4. CASE Job \/ Clock
  BY <1>2, <1>4 DEF Job, Clock
<1>5. CASE Main
  BY <1>2, <1>5, FailShape
  DEF Main, Build, Serve, Notify, SelectSignal, SelectError, Shutdown, ShutdownDone,
      ShutdownTimeout, Run, RunReturns, CloseNext, Exit
<1>6. CASE StartLine \/ Listen \/ AcceptFails \/ Signal
  BY <1>2, <1>6 DEF StartLine, Listen, AcceptFails, Signal
<1>7. CASE UNCHANGED vars
  BY <1>2, <1>7 DEF vars
<1> QED
  BY <1>3, <1>4, <1>5, <1>6, <1>7 DEF Next

-----------------------------------------------------------------------------
(* The publication.                                                        *)

\* Every step keeps what is known of the publication (publisher.go).
LEMMA PublishStep ==
  ASSUME AppInv, [Next]_vars
  PROVE  PublishInv'
<1>1. PublishInv /\ today \in 1 .. MaxDay
  BY DEF AppInv, WriterInv, Days
<1>2. CASE UNCHANGED <<publishVars, today>>
  BY <1>1, <1>2 DEF PublishInv, PublishTypeOK, AuditAgreesWithStream, publishVars
<1>3. CASE Job
  <2> USE <1>1, WriterAssumption, UpsetAssumption
      DEF PublishInv, PublishTypeOK, AuditAgreesWithStream, Upset
  <2>1. CASE Publish
    BY <2>1 DEF Publish
  <2>2. CASE XAddOk
    BY <2>2 DEF XAddOk
  <2>3. CASE XAddRepeats
    BY <2>3 DEF XAddRepeats
  <2>4. CASE XAddFails
    BY <2>4 DEF XAddFails
  <2>5. CASE AuditLine
    BY <2>5 DEF AuditLine
  <2>6. CASE AuditLost
    BY <2>6 DEF AuditLost
  <2> QED
    BY <1>3, <2>1, <2>2, <2>3, <2>4, <2>5, <2>6 DEF Job, PublishNext
<1>4. CASE Clock
  BY <1>1, <1>4
  DEF Clock, Midnight, publishVars, PublishInv, PublishTypeOK, AuditAgreesWithStream
<1>5. CASE Main
  BY <1>2, <1>5, FailShape
  DEF Main, Build, Serve, Notify, SelectSignal, SelectError, Shutdown, ShutdownDone,
      ShutdownTimeout, Run, RunReturns, CloseNext, Exit
<1>6. CASE StartLine \/ Listen \/ AcceptFails \/ Signal \/ (\E r \in Requests : Request(r))
  <2>1. ASSUME NEW r \in Requests, Request(r) PROVE UNCHANGED <<publishVars, today>>
    BY <2>1 DEF Request
  <2> QED
    BY <1>2, <1>6, <2>1 DEF StartLine, Listen, AcceptFails, Signal
<1>7. CASE UNCHANGED vars
  BY <1>2, <1>7 DEF vars
<1> QED
  BY <1>3, <1>4, <1>5, <1>6, <1>7 DEF Next

-----------------------------------------------------------------------------
(* The process.                                                            *)

\* How Active follows from way, wherever way is left alone.
LEMMA SameWay ==
  ASSUME UNCHANGED way
  PROVE  Active' = Active
BY DEF Active

\* Each step of New opens what Order says.
LEMMA OpenedByBuild ==
  ASSUME NEW n \in 0 .. 5
  PROVE  /\ Handles \cap {Order[i] : i \in 1 .. n + 1}
              = (Handles \cap {Order[i] : i \in 1 .. n}) \cup ({Order[n + 1]} \cap Handles)
         /\ (Handles \cap {Order[i] : i \in 1 .. n}) \ Rollback[Order[n + 1]] = {}
<1>1. /\ Order[1] = "config" /\ Order[2] = "logger" /\ Order[3] = "database"
      /\ Order[4] = "redis" /\ Order[5] = "eventRedis" /\ Order[6] = "publisher"
  BY DEF Order
<1>2. 1 .. n + 1 = (1 .. n) \cup {n + 1}
  OBVIOUS
<1>3. Handles \cap {Order[i] : i \in 1 .. n} \subseteq Rollback[Order[n + 1]]
  <2>1. CASE n \in {0, 1}
    BY <1>1, <2>1 DEF Rollback, Handles
  <2>2. CASE n = 2
    BY <1>1, <2>2 DEF Rollback, Handles
  <2>3. CASE n = 3
    BY <1>1, <2>3 DEF Rollback, Handles
  <2>4. CASE n = 4
    BY <1>1, <2>4 DEF Rollback, Handles
  <2>5. CASE n = 5
    BY <1>1, <2>5 DEF Rollback, Handles
  <2> QED
    BY <2>1, <2>2, <2>3, <2>4, <2>5
<1> QED
  BY <1>2, <1>3

\* New has opened everything when its six steps are done.
LEMMA AllOpen == Handles \cap {Order[i] : i \in 1 .. 6} = Handles
<1>1. /\ Order[2] = "logger" /\ Order[3] = "database" /\ Order[4] = "redis"
      /\ Order[5] = "eventRedis" /\ Order[6] = "publisher"
  BY DEF Order
<1> QED
  BY <1>1 DEF Handles

\* Every step keeps what is known of the process around the requests (app.go).
LEMMA LifeStep ==
  ASSUME AppInv, [Next]_vars
  PROVE  LifeInv'
<1> USE ProcessAssumption
<1>1. LifeInv /\ Len(Order) = 6
  BY DEF AppInv, Order
<1>2. CASE UNCHANGED <<kind, way, job, lifeVars>>
  BY <1>1, <1>2, SameWay DEF LifeInv, Serving, RolledBack, lifeVars
<1>3. CASE Build
  <2>1. stage = "new" /\ built \in 0 .. 5 /\ Active = {} /\ job \notin {"xadd", "audit"}
    BY <1>1, <1>3 DEF Build, LifeInv, Serving
  <2>2. UNCHANGED <<kind, way, job, stage, listener, signalled>> /\ built' = built + 1
    BY <1>3 DEF Build, requestVars, publishVars
  <2>3. opened' = Handles \cap {Order[i] : i \in 1 .. built'}
    BY <1>1, <1>3, <2>1, <2>2, OpenedByBuild DEF Build, LifeInv
  <2> QED
    BY <1>1, <2>1, <2>2, <2>3, SameWay DEF LifeInv, Serving, RolledBack
<1>4. CASE BuildFails
  <2>1. stage = "new" /\ built \in 0 .. 5 /\ Active = {} /\ job \notin {"xadd", "audit"}
    BY <1>1, <1>4, FailShape DEF LifeInv, Serving
  <2>2. UNCHANGED <<kind, way, job, built, listener, signalled>> /\ stage' = "died"
    BY <1>4, FailShape DEF requestVars, publishVars
  <2>3. opened' \subseteq {Order[built + 1]} /\ opened' \subseteq Handles
    <3>1. opened \ Rollback[Order[built + 1]] = {}
      BY <1>1, <2>1, OpenedByBuild DEF LifeInv
    <3>2. {"database", "redis", "eventRedis"} \subseteq Handles
      BY DEF Handles
    <3> QED
      BY <1>4, <3>1, <3>2, FailShape
  <2> QED
    BY <1>1, <2>1, <2>2, <2>3, SameWay DEF LifeInv, Serving, RolledBack
<1>5. CASE Serve \/ Run
  <2>1. built = 6 /\ stage = "new" /\ opened = Handles /\ listener = "none"
    BY <1>1, <1>5, AllOpen DEF Serve, Run, LifeInv
  <2>2. CASE Serve
    BY <1>1, <2>1, <2>2, SameWay
    DEF Serve, LifeInv, Serving, RolledBack, requestVars, publishVars
  <2>3. CASE Run
    BY <1>1, <2>1, <2>3, SameWay
    DEF Run, LifeInv, Serving, RolledBack, requestVars, publishVars
  <2> QED
    BY <1>5, <2>2, <2>3
<1>6. CASE Notify \/ SelectSignal \/ SelectError \/ Shutdown \/ ShutdownTimeout
  BY <1>1, <1>6, SameWay
  DEF Notify, SelectSignal, SelectError, Shutdown, ShutdownTimeout, LifeInv, Serving, RolledBack,
      requestVars, publishVars
<1>7. CASE ShutdownDone \/ RunReturns
  BY <1>1, <1>7, SameWay
  DEF ShutdownDone, RunReturns, LifeInv, Serving, RolledBack, requestVars, publishVars
<1>8. CASE CloseNext
  BY <1>1, <1>8, SameWay
  DEF CloseNext, LifeInv, Serving, RolledBack, requestVars, publishVars
<1>9. CASE Exit
  <2>1. opened = {}
    <3>1. \A k \in 1 .. 5 : CloseOrder[k] \notin opened
      BY <1>9 DEF Exit, ToClose, CloseOrder
    <3>2. /\ CloseOrder[1] = "logger" /\ CloseOrder[2] = "database" /\ CloseOrder[3] = "redis"
          /\ CloseOrder[4] = "eventRedis" /\ CloseOrder[5] = "publisher"
      BY DEF CloseOrder
    <3> QED
      BY <1>1, <3>1, <3>2 DEF LifeInv, Handles
  <2> QED
    BY <1>1, <1>9, <2>1, SameWay
    DEF Exit, LifeInv, Serving, RolledBack, requestVars, publishVars
<1>10. CASE StartLine \/ Listen \/ AcceptFails
  BY <1>1, <1>10, SameWay
  DEF StartLine, Listen, AcceptFails, Ended, LifeInv, Serving, RolledBack, requestVars, publishVars
<1>11. CASE Signal
  BY <1>1, <1>11, SameWay
  DEF Signal, Ended, LifeInv, Serving, RolledBack, requestVars, publishVars
<1>12. CASE Job
  BY <1>1, <1>12, SameWay
  DEF Job, PublishNext, Publish, XAddOk, XAddRepeats, XAddFails, AuditLine, AuditLost, LifeInv,
      Serving, RolledBack, requestVars, lifeVars
<1>13. CASE Clock
  BY <1>2, <1>13 DEF Clock, requestVars, publishVars
<1>14. ASSUME NEW r \in Requests, Request(r) PROVE LifeInv'
  <2>1. UNCHANGED <<kind, job, stage, built, opened, listener, signalled>> /\ ~Ended
    BY <1>14 DEF Request, publishVars, lifeVars
  <2>2. stage \in Serving
    <3>1. CASE listener \in {"up", "down"} /\ stage # "close"
      BY <1>1, <2>1, <3>1 DEF LifeInv, Ended, Serving
    <3>2. CASE RequestNext(r)
      <4>1. r \in Active
        BY <3>2
        DEF RequestNext, Pass, Stop, Preflight, TooMany, Unauthorized, Handle,
            GetUser, Health, DebugHeaders, Panic, Recover, Leave, Finish, Active
      <4> QED
        BY <1>1, <2>1, <4>1 DEF LifeInv, Ended
    <3> QED
      BY <1>14, <3>1, <3>2 DEF Request
  <2> QED
    BY <1>1, <2>1, <2>2 DEF LifeInv, Serving, RolledBack
<1>15. CASE UNCHANGED vars
  BY <1>2, <1>15 DEF vars, requestVars, publishVars
<1> QED
  BY <1>3, <1>4, <1>5, <1>6, <1>7, <1>8, <1>9, <1>10, <1>11, <1>12, <1>13, <1>14, <1>15
  DEF Next, Main

-----------------------------------------------------------------------------
(* The files.                                                              *)

\* A line that a step writes while the logger is open, and every step that
\* writes none, keeps the files with their owners.
LEMMA FilesStep ==
  ASSUME AppInv, [Next]_vars
  PROVE  FilesInv'
<1> USE ProcessAssumption
<1>1. FilesInv /\ WriterInv /\ LifeInv
  BY DEF AppInv
<1>2. CASE UNCHANGED <<stage, opened, listener, files>>
  BY <1>1, <1>2 DEF FilesInv
<1>3. CASE Log /\ UNCHANGED <<today, opened>> /\ "logger" \in opened /\ stage' # "new"
  BY <1>1, <1>3, LogStep DEF FilesInv
<1>4. "logger" \in Handles /\ "publisher" \in Handles
  BY DEF Handles
<1>5. CASE Build
  <2>1. stage = "new" /\ stage' = "new" /\ files' = files
    BY <1>5 DEF Build, NewWriters, writerVars
  <2> QED
    BY <1>1, <2>1 DEF FilesInv
<1>6. CASE BuildFails
  BY <1>1, <1>6, FailShape DEF FilesInv, writerVars
<1>7. CASE Serve \/ Run \/ Notify \/ SelectError \/ Shutdown
  BY <1>1, <1>4, <1>7
  DEF Serve, Run, Notify, SelectError, Shutdown, FilesInv, LifeInv, Serving, writerVars
<1>8. CASE SelectSignal \/ ShutdownDone \/ ShutdownTimeout \/ RunReturns
  BY <1>1, <1>3, <1>4, <1>8
  DEF SelectSignal, ShutdownDone, ShutdownTimeout, RunReturns, LifeInv, Serving
<1>9. CASE CloseNext
  <2>1. stage = "close" /\ UNCHANGED <<stage, listener>>
    BY <1>9 DEF CloseNext
  <2>2. PICK k \in DOMAIN CloseOrder :
          /\ opened' = opened \ {CloseOrder[k]}
          /\ \/ CloseOrder[k] = "logger" /\ CloseWriter("app")
             \/ CloseOrder[k] = "publisher" /\ CloseWriter("audit")
             \/ CloseOrder[k] \notin {"logger", "publisher"} /\ UNCHANGED writerVars
    BY <1>9 DEF CloseNext, ToClose
  <2>3. CASE CloseOrder[k] = "logger" /\ CloseWriter("app")
    BY <1>1, <2>1, <2>2, <2>3 DEF CloseWriter, WriterInv, FilesInv
  <2>4. CASE CloseOrder[k] = "publisher" /\ CloseWriter("audit")
    BY <1>1, <2>1, <2>2, <2>4 DEF CloseWriter, WriterInv, FilesInv
  <2>5. CASE CloseOrder[k] \notin {"logger", "publisher"} /\ UNCHANGED writerVars
    BY <1>1, <2>1, <2>2, <2>5 DEF writerVars, FilesInv
  <2> QED
    BY <2>2, <2>3, <2>4, <2>5
<1>10. CASE Exit
  BY <1>1, <1>10 DEF Exit, FilesInv, writerVars
<1>11. CASE StartLine
  <2>1. listener' = "logged" /\ UNCHANGED <<today, stage, opened>> /\ Log /\ ~Ended
    BY <1>11 DEF StartLine
  <2>2. files'["audit"] = files["audit"]
    BY <1>1, <2>1, LogStep
  <2>3. stage \in {"close"} \cup Serving
    BY <1>1, <1>11 DEF StartLine, Ended, LifeInv
  <2> QED
    BY <1>1, <1>4, <2>1, <2>2, <2>3 DEF FilesInv, LifeInv, Serving
<1>12. CASE Listen \/ AcceptFails
  BY <1>1, <1>4, <1>12
  DEF Listen, AcceptFails, Ended, FilesInv, LifeInv, Serving, writerVars
<1>13. CASE Signal
  BY <1>1, <1>13 DEF Signal, Ended, FilesInv, writerVars
<1>14. CASE Job
  <2>1. stage = "run" /\ UNCHANGED <<stage, opened, listener>> /\ opened = Handles
    BY <1>1, <1>14 DEF Job, lifeVars, LifeInv
  <2>2. stage' # "new" /\ "logger" \in opened' /\ "publisher" \in opened'
    BY <1>4, <2>1
  <2> QED
    BY <2>2 DEF FilesInv
<1>15. CASE Clock
  BY <1>2, <1>15 DEF Clock, Midnight, lifeVars, writerVars
<1>16. ASSUME NEW r \in Requests, Request(r) PROVE FilesInv'
  <2>1. UNCHANGED <<stage, opened, listener>> /\ ~Ended
    BY <1>16 DEF Request, lifeVars
  <2>2. CASE Arrive(r)
    BY <1>2, <2>1, <2>2 DEF Arrive, writerVars
  <2>3. CASE RequestNext(r)
    <3>1. r \in Active
      BY <2>3
      DEF RequestNext, Pass, Stop, Preflight, TooMany, Unauthorized, Handle,
          GetUser, Health, DebugHeaders, Panic, Recover, Leave, Finish, Active
    <3>2. stage' # "new" /\ "logger" \in opened' /\ "publisher" \in opened'
      BY <1>1, <1>4, <2>1, <3>1 DEF LifeInv, Serving
    <3> QED
      BY <3>2 DEF FilesInv
  <2> QED
    BY <1>16, <2>2, <2>3 DEF Request
<1>17. CASE UNCHANGED vars
  BY <1>2, <1>17 DEF vars, lifeVars
<1> QED
  BY <1>5, <1>6, <1>7, <1>8, <1>9, <1>10, <1>11, <1>12, <1>13, <1>14, <1>15, <1>16, <1>17
  DEF Next, Main

-----------------------------------------------------------------------------
\* The state in which main starts satisfies the invariant.
LEMMA InitApp == Init => AppInv
<1> SUFFICES ASSUME Init PROVE AppInv
  OBVIOUS
<1> USE WriterAssumption, UpsetAssumption, ProcessAssumption
    DEF Init, WriterInit, RequestInit, PublishInit
<1>1. WriterInv
  BY DEF WriterInv, Days
<1>2. RequestInv
  BY DEF RequestInv
<1>3. PublishInv
  BY DEF PublishInv, PublishTypeOK, AuditAgreesWithStream
<1>4. PipelineInv
  BY DEF PipelineInv, Placed
<1>5. LifeInv
  <2>1. Active = {}
    BY DEF Active
  <2>2. opened = Handles \cap {Order[i] : i \in 1 .. built}
    <3>1. 1 .. built = {}
      OBVIOUS
    <3> QED
      BY <3>1
  <2>3. RolledBack
    BY DEF RolledBack
  <2>4. signalled \in BOOLEAN
    BY Zenon
  <2>5. job \notin {"xadd", "audit"} /\ built \in 0 .. 6 /\ stage = "new" /\ stage \notin {"run"} \cup Serving
    BY DEF Serving
  <2> QED
    BY <2>1, <2>2, <2>3, <2>4, <2>5 DEF LifeInv
<1>6. FilesInv
  BY DEF FilesInv
<1> QED
  BY <1>1, <1>2, <1>3, <1>4, <1>5, <1>6 DEF AppInv

\* The invariant of every process: requests, publication, files and handles.
THEOREM AppInvariance == Spec => []AppInv
<1>1. ASSUME AppInv, [Next]_vars PROVE AppInv'
  BY <1>1, WriterStep, RequestStep, PipelineStep, PublishStep, LifeStep, FilesStep DEF AppInv
<1> QED
  BY InitApp, <1>1, PTL DEF Spec

\* A failed New leaves nothing of what it had opened (app.go:56-79).
THEOREM FailedNewRollsBack == Spec => []RolledBack
<1>1. AppInv => RolledBack
  BY DEF AppInv, LifeInv
<1> QED
  BY AppInvariance, <1>1, PTL

\* A process that returned from main holds nothing and owes no answer
\* (app.go:109-131).
THEOREM NothingIsLeft == Spec => []GracefulExitIsClean
<1>1. AppInv => GracefulExitIsClean
  BY DEF AppInv, LifeInv, FilesInv, Serving, GracefulExitIsClean
<1> QED
  BY AppInvariance, <1>1, PTL

\* Close comes after the last request and the last publication, or not at all
\* (api.go:81-84).
THEOREM CloseComesLast == Spec => []InUseIsOpen
<1>1. AppInv => InUseIsOpen
  BY DEF AppInv, LifeInv, InUseIsOpen
<1> QED
  BY AppInvariance, <1>1, PTL

\* Whoever answers a request is the only one (jwt.go:27, recovery.go:43).
THEOREM AnsweredOnce == Spec => []OneResponse
<1>1. AppInv => OneResponse
  <2> SUFFICES ASSUME RequestInv, NEW r \in Requests
               PROVE  Len(answers[r]) <= 1 /\ (way[r] = "done" => Len(answers[r]) = 1)
    BY DEF AppInv, OneResponse
  <2>1. CASE way[r] \in {"idle", "in", "panic"}
    <3>1. answers[r] = <<>> /\ Len(<<>>) = 0
      BY <2>1 DEF RequestInv
    <3> QED
      BY <2>1, <3>1
  <2>2. CASE way[r] = "out"
    BY <2>2 DEF RequestInv
  <2>3. CASE way[r] = "done"
    <3>1. Len(answers[r]) = 1
      BY <2>3 DEF RequestInv
    <3> QED
      BY <3>1
  <2> QED
    BY <2>1, <2>2, <2>3 DEF RequestInv
<1> QED
  BY AppInvariance, <1>1, PTL

\* The stream has every event that the audit file has (publisher.go:99-117).
THEOREM StreamComesFirst == Spec => []AuditAgreesWithStream
<1>1. AppInv => AuditAgreesWithStream
  BY DEF AppInv, PublishInv
<1> QED
  BY AppInvariance, <1>1, PTL

\* The access log has the answer of every request that did not panic
\* (access_log.go:23-26).
THEOREM AccessLogIsComplete == Spec => []AccessLineForAnswer
<1>1. AppInv => AccessLineForAnswer
  BY DEF AppInv, PipelineInv, Placed, Written, AccessLineForAnswer
<1> QED
  BY AppInvariance, <1>1, PTL

\* Every variable has its type and a writer one file at most (writer.go:81-88).
THEOREM TypeCorrect == Spec => []TypeOK
<1>1. AppInv => TypeOK
  <2> SUFFICES ASSUME AppInv PROVE TypeOK
    OBVIOUS
  <2>1. RequestTypeOK
    <3>1. \A r \in Active : /\ route[r] \in DOMAIN Chains[kind]
                            /\ at[r] \in 0 .. Len(Chain(r))
                            /\ way[r] # "out" => at[r] > 0
      BY DEF AppInv, PipelineInv, Placed, Active
    <3> QED
      BY <3>1 DEF AppInv, RequestInv, PipelineInv, RequestTypeOK
  <2>2. PublishTypeOK
    BY DEF AppInv, PublishInv
  <2>3. Len(Order) = 6
    BY DEF Order
  <2> QED
    BY <2>1, <2>2, <2>3 DEF AppInv, WriterInv, LifeInv, Serving, TypeOK
<1> QED
  BY AppInvariance, <1>1, PTL

-----------------------------------------------------------------------------
(* The safety half of ServerStops: the steps that a server has left once   *)
(* it took a signal, each of which main can only take or lose to os.Exit.  *)

Served == Cardinality(Handles)

ToGo ==
  CASE stage = "select" -> Served + 4
    [] stage = "shutdown" -> Served + 3
    [] stage = "drain" -> Served + 2
    [] stage = "close" -> Cardinality(opened) + 1
    [] OTHER -> 0

SignalInv ==
  signalled => stage \in {"select", "shutdown", "drain", "close", "exited", "died"}

\* A signal is taken only by a server that waits for it or is on its way out, and
\* stays taken (api.go:68-84).
LEMMA SignalStep == AppInv /\ SignalInv /\ [Next]_vars => SignalInv'
<1> SUFFICES ASSUME AppInv, SignalInv, [Next]_vars PROVE SignalInv'
  OBVIOUS
<1> USE DEF SignalInv, lifeVars
<1>1. CASE UNCHANGED <<stage, signalled>>
  BY <1>1
<1>2. CASE Build \/ StartLine \/ Listen \/ AcceptFails \/ CloseNext
  BY <1>1, <1>2 DEF Build, StartLine, Listen, AcceptFails, CloseNext
<1>3. CASE BuildFails
  BY <1>3, FailShape
<1>4. CASE \/ Serve \/ Notify \/ SelectSignal \/ SelectError \/ Shutdown
           \/ ShutdownDone \/ ShutdownTimeout \/ Run \/ RunReturns \/ Exit
  BY <1>4
  DEF Serve, Notify, SelectSignal, SelectError, Shutdown, ShutdownDone, ShutdownTimeout,
      Run, RunReturns, Exit
<1>5. CASE Signal
  <2>1. CASE stage \in {"new", "serve", "run"} \/ kind = "cli"
    BY <1>5, <2>1 DEF Signal
  <2>2. CASE stage \notin {"new", "serve", "run"} /\ kind # "cli"
    BY <1>5, <2>2 DEF Signal, Ended, AppInv, LifeInv, Serving
  <2> QED
    BY <2>1, <2>2
<1>6. CASE Job \/ Clock \/ (\E r \in Requests : Request(r)) \/ UNCHANGED vars
  BY <1>1, <1>6 DEF Job, Clock, Request, vars
<1> QED
  BY <1>2, <1>3, <1>4, <1>5, <1>6 DEF Next, Main

\* After a signal the way to the end has a bounded length, every step of main
\* shortens it, and nothing that requests, the clock, serve's goroutine or a
\* second signal do makes it longer or takes the signal back
\* (api.go:62-84, app.go:109-131).
THEOREM SignalShortensTheWay ==
  Spec => /\ [](signalled => ToGo \in 0 .. Served + 4 /\ (ToGo = 0 <=> Ended))
          /\ [][signalled => /\ signalled'
                             /\ ToGo' < ToGo \/ UNCHANGED <<stage, opened>>]_vars
<1>1. Init => SignalInv
  BY DEF Init, SignalInv
<1>2. IsFiniteSet(Handles) /\ Served \in Nat
  <2>1. IsFiniteSet({"logger"}) /\ IsFiniteSet({"logger", "database"})
    BY FS_Singleton, FS_AddElement
  <2>2. IsFiniteSet({"logger", "database", "redis"})
    BY <2>1, FS_AddElement
  <2>3. IsFiniteSet({"logger", "database", "redis", "eventRedis"})
    BY <2>2, FS_AddElement
  <2>4. IsFiniteSet(Handles)
    BY <2>3, FS_AddElement DEF Handles
  <2> QED
    BY <2>4, FS_CardinalityType DEF Served
<1>3. ASSUME AppInv
      PROVE  Cardinality(opened) \in 0 .. Served
  BY <1>2, <1>3, FS_Subset, FS_CardinalityType DEF AppInv, LifeInv, Served
<1>4. ASSUME AppInv, SignalInv, signalled
      PROVE  ToGo \in 0 .. Served + 4 /\ (ToGo = 0 <=> Ended)
  BY <1>2, <1>3, <1>4 DEF SignalInv, ToGo, Ended
<1>5. ASSUME AppInv, SignalInv, [Next]_vars, signalled
      PROVE  signalled' /\ (ToGo' < ToGo \/ UNCHANGED <<stage, opened>>)
  <2> USE <1>5 DEF SignalInv, lifeVars
  <2>1. CASE UNCHANGED <<stage, opened, signalled>>
    BY <2>1
  <2>2. CASE Build \/ BuildFails \/ Serve \/ Notify \/ Run \/ RunReturns
    BY <2>2, FailShape DEF Build, Serve, Notify, Run, RunReturns
  <2>3. CASE SelectSignal \/ SelectError \/ Shutdown
    <3>1. /\ signalled'
          /\ \/ stage = "select" /\ stage' = "shutdown"
             \/ stage = "select" /\ stage' = "died"
             \/ stage = "shutdown" /\ stage' = "drain"
      BY <2>3 DEF SelectSignal, SelectError, Shutdown
    <3> QED
      BY <1>2, <3>1 DEF ToGo
  <2>4. CASE ShutdownDone \/ ShutdownTimeout
    <3>1. signalled' /\ stage = "drain" /\ opened' = opened /\ stage' \in {"close", "died"}
      BY <2>4 DEF ShutdownDone, ShutdownTimeout
    <3>2. Cardinality(opened') <= Served /\ Cardinality(opened') \in Nat
      BY <1>2, <1>3, <3>1
    <3> QED
      BY <1>2, <3>1, <3>2 DEF ToGo
  <2>5. CASE CloseNext
    <3>1. PICK k \in ToClose : opened' = opened \ {CloseOrder[k]}
      BY <2>5 DEF CloseNext
    <3>2. CloseOrder[k] \in opened
      BY DEF ToClose
    <3>3. IsFiniteSet(opened)
      BY <1>2, FS_Subset DEF AppInv, LifeInv
    <3>4. Cardinality(opened') = Cardinality(opened) - 1
      BY <3>1, <3>2, <3>3, FS_RemoveElement
    <3> QED
      BY <1>3, <2>5, <3>4 DEF CloseNext, ToGo
  <2>6. CASE Exit
    BY <1>3, <2>6 DEF Exit, ToGo
  <2>7. CASE StartLine \/ Listen \/ AcceptFails \/ Signal
    BY <2>1, <2>7 DEF StartLine, Listen, AcceptFails, Signal
  <2>8. CASE Job \/ Clock \/ (\E r \in Requests : Request(r)) \/ UNCHANGED vars
    BY <2>1, <2>8 DEF Job, Clock, Request, vars
  <2> QED
    BY <2>2, <2>3, <2>4, <2>5, <2>6, <2>7, <2>8 DEF Next, Main
<1>6. AppInv /\ SignalInv /\ [Next]_vars =>
        [signalled => signalled' /\ (ToGo' < ToGo \/ UNCHANGED <<stage, opened>>)]_vars
  BY <1>5
<1>7. AppInv /\ SignalInv => (signalled => ToGo \in 0 .. Served + 4 /\ (ToGo = 0 <=> Ended))
  BY <1>4
<1> QED
  BY <1>1, <1>6, <1>7, SignalStep, AppInvariance, PTL DEF Spec
=============================================================================
