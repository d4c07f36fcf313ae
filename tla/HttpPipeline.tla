---------------------------- MODULE HttpPipeline ----------------------------
(***************************************************************************)
(* One request through gin: internal/app/{api,admin}.go (the global        *)
(* middleware), internal/router, internal/middleware and the handlers.     *)
(* The chain is entered step by step and left as a stack; a panic skips    *)
(* the code after c.Next() up to Recovery.  That a middleware which        *)
(* returns without c.Abort() is followed by the next one, and that the 404 *)
(* is written after the chain, is gin's behaviour.                         *)
(***************************************************************************)
EXTENDS DailyWriter, SequencesExt

CONSTANT Requests

VARIABLES kind,     \* "api", "admin" or "cli": which main runs
          route, at, way,  \* per request: position in the chain, direction
          answers,  \* what was written to the client
          lines     \* access-log lines

requestVars == <<route, at, way, answers, lines>>

\* Variant: AccessLog inside RateLimit.
GlobalLogLast == <<"Trace", "RequestContext", "Recovery", "CORS", "RateLimit", "AccessLog">>

Global == <<"Trace", "RequestContext", "Recovery", "AccessLog", "CORS", "RateLimit">>

\* RegisterAPI puts Timeout on the whole engine, then again on the group;
\* "open" stands for /health and /debug, "other" for what has no route.
ApiChains ==
  [users |-> Global \o <<"Timeout", "JWT", "Timeout", "GetUser">>,
   open |-> Global \o <<"Timeout", "Open">>,
   other |-> Global \o <<"Timeout">>]

AdminChains ==
  [users |-> Global \o <<"JWT", "Timeout", "GetUser">>,
   other |-> Global]

Chains == [api |-> ApiChains, admin |-> AdminChains]

Handlers == {"GetUser", "Open"}
Stoppers == {"CORS", "RateLimit", "JWT"}
Answers == {"ok", "fail", "stopped", "recovered", "notFound"}

Chain(r) == Chains[kind][route[r]]
Here(r) == Chain(r)[at[r]]
Active == {r \in Requests : way[r] \in {"in", "out", "panic"}}

RequestInit ==
  /\ route = [r \in Requests |-> "other"]
  /\ at = [r \in Requests |-> 0]
  /\ way = [r \in Requests |-> "idle"]
  /\ answers = [r \in Requests |-> <<>>]
  /\ lines = [r \in Requests |-> <<>>]

Reply(r, a) == answers' = [answers EXCEPT ![r] = Append(@, a)]

Arrive(r) ==
  /\ way[r] = "idle"
  /\ \E p \in DOMAIN Chains[kind] : route' = [route EXCEPT ![r] = p]
  /\ at' = [at EXCEPT ![r] = 1]
  /\ way' = [way EXCEPT ![r] = "in"]
  /\ UNCHANGED <<answers, lines, writerVars>>

\* A middleware calls c.Next(); behind the last one the chain turns.
Pass(r) ==
  /\ way[r] = "in" /\ Here(r) \notin Handlers
  /\ IF at[r] < Len(Chain(r))
       THEN at' = [at EXCEPT ![r] = @ + 1] /\ UNCHANGED way
       ELSE way' = [way EXCEPT ![r] = "out"] /\ UNCHANGED at
  /\ Log
  /\ UNCHANGED <<route, answers, lines>>

\* Variant: the middleware answers and returns without c.Abort().
StopWithoutAbort(r) ==
  /\ way[r] = "in" /\ Here(r) \in Stoppers
  /\ Reply(r, "stopped")
  /\ IF at[r] < Len(Chain(r))
       THEN at' = [at EXCEPT ![r] = @ + 1] /\ UNCHANGED way
       ELSE way' = [way EXCEPT ![r] = "out"] /\ UNCHANGED at
  /\ Log
  /\ UNCHANGED <<route, lines>>

\* A handler or middleware answers and the chain turns.
Turn(r, a) ==
  /\ way[r] = "in"
  /\ Reply(r, a)
  /\ way' = [way EXCEPT ![r] = "out"]
  /\ UNCHANGED <<route, at, lines>>

\* OPTIONS has no route; gin-contrib/cors answers a preflight itself.
Preflight(r) ==
  /\ way[r] = "in" /\ Here(r) = "CORS" /\ route[r] = "other"
  /\ Turn(r, "stopped") /\ UNCHANGED writerVars

\* No token is left in the bucket (RateLimit has its own module).
TooMany(r) ==
  /\ way[r] = "in" /\ Here(r) = "RateLimit"
  /\ Turn(r, "stopped") /\ Log

\* No bearer token, or one that does not verify.
Unauthorized(r) ==
  /\ way[r] = "in" /\ Here(r) = "JWT"
  /\ Turn(r, "stopped") /\ UNCHANGED writerVars

Stop(r) == Preflight(r) \/ TooMany(r) \/ Unauthorized(r)

\* OK, or Fail for a bad uid, no such user or a database error.
GetUser(r) ==
  /\ way[r] = "in" /\ Here(r) = "GetUser"
  /\ \E a \in {"ok", "fail"} : Turn(r, a)
  /\ Log

\* Fail if MySQL, Redis or the Redis of the events does not answer its ping.
Health(r) ==
  /\ way[r] = "in" /\ Here(r) = "Open"
  /\ \E a \in {"ok", "fail"} : Turn(r, a)
  /\ UNCHANGED writerVars

DebugHeaders(r) ==
  /\ way[r] = "in" /\ Here(r) = "Open"
  /\ Turn(r, "ok") /\ Log

Handle(r) == GetUser(r) \/ Health(r) \/ DebugHeaders(r)

\* The middleware that r is inside of.
Around(r) == Range(SubSeq(Chain(r), 1, at[r] - 1))

\* Whatever Recovery wraps may panic before it answers; the code after c.Next()
\* of what is in between is skipped.
Panic(r) ==
  /\ way[r] = "in" /\ "Recovery" \in Around(r)
  /\ at' = [at EXCEPT ![r] = CHOOSE i \in DOMAIN Chain(r) : Chain(r)[i] = "Recovery"]
  /\ way' = [way EXCEPT ![r] = "panic"]
  /\ UNCHANGED <<route, answers, lines, writerVars>>

\* Recovery logs the stack and answers.
Recover(r) ==
  /\ way[r] = "panic"
  /\ way' = [way EXCEPT ![r] = "out"]
  /\ Reply(r, "recovered")
  /\ Log
  /\ UNCHANGED <<route, at, lines>>

\* The code after c.Next(), which only AccessLog has: it writes the status it
\* finds, the one of the answer or the 404 that gin is about to send.
Leave(r) ==
  /\ way[r] = "out" /\ at[r] > 0
  /\ IF "AccessLog" \in Around(r) \cup {Here(r)}
       THEN /\ Log
            /\ lines' = [lines EXCEPT ![r] =
                           Append(@, IF answers[r] = <<>> THEN "notFound" ELSE Last(answers[r]))]
       ELSE UNCHANGED <<lines, writerVars>>
  /\ at' = [at EXCEPT ![r] = 0]
  /\ UNCHANGED <<route, way, answers>>

Finish(r) ==
  /\ way[r] = "out" /\ at[r] = 0
  /\ IF answers[r] = <<>> THEN Reply(r, "notFound") ELSE UNCHANGED answers
  /\ way' = [way EXCEPT ![r] = "done"]
  /\ UNCHANGED <<route, at, lines, writerVars>>

RequestNext(r) ==
  Pass(r) \/ Stop(r) \/ Handle(r) \/ Panic(r) \/ Recover(r) \/ Leave(r) \/ Finish(r)

-----------------------------------------------------------------------------
RequestTypeOK ==
  /\ route \in [Requests -> {"users", "open", "other"}] /\ at \in [Requests -> Nat]
  /\ way \in [Requests -> {"idle", "in", "out", "panic", "done"}]
  /\ answers \in [Requests -> Seq(Answers)] /\ lines \in [Requests -> Seq(Answers)]
  /\ \A r \in Active : /\ route[r] \in DOMAIN Chains[kind]
                       /\ at[r] \in 0 .. Len(Chain(r))
                       /\ way[r] # "out" => at[r] > 0

\* A request is answered once, whether a handler, a middleware, Recovery or
\* gin's 404 does it (jwt.go:27, ratelimit.go:90, recovery.go:43).
OneResponse ==
  \A r \in Requests : /\ Len(answers[r]) <= 1
                      /\ way[r] = "done" => Len(answers[r]) = 1

\* The access log has one line for each request, with the answer the client
\* gets, except for one that panicked: its line is lost, since AccessLog has
\* no defer and Recovery is outside of it (access_log.go:23-26).
AccessLineForAnswer ==
  \A r \in Requests : way[r] = "done" =>
    lines[r] = IF answers[r] = <<"recovered">> THEN <<>> ELSE answers[r]
=============================================================================
