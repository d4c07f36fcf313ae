----------------------------- MODULE AppProcess -----------------------------
(***************************************************************************)
(* One process, from main to its end: internal/app (New, serve, Close) and *)
(* the mains of cmd/, with the requests of HttpPipeline in the two servers *)
(* and the event of EventPublisher in the command debug publish_event.     *)
(* (The consume commands are EventConsumer.)                               *)
(***************************************************************************)
EXTENDS HttpPipeline, EventPublisher, FiniteSets

CONSTANT Kinds

ASSUME ProcessAssumption ==
  /\ Kinds \subseteq {"api", "admin", "cli"}
  /\ Writers = {"app", "audit"}

VARIABLES stage,     \* "new", "serve", "select", "shutdown", "drain", "run",
                     \* "close"; at the end "exited" (main returned),
                     \* "died" (os.Exit(1)) or "killed" (a signal)
          built,     \* steps of New that are done
          opened,    \* what is open
          listener,  \* the goroutine of serve and its socket
          signalled  \* a SIGINT or SIGTERM is in quit

lifeVars == <<stage, built, opened, listener, signalled>>
vars == <<today, curDate, files, kind, requestVars, publishVars, lifeVars>>

Order == <<"config", "logger", "database", "redis", "eventRedis", "publisher">>
Handles == {"logger", "database", "redis", "eventRedis", "publisher"}
Ended == stage \in {"exited", "died", "killed"}

Init ==
  /\ WriterInit /\ RequestInit /\ PublishInit
  /\ kind \in Kinds
  /\ stage = "new" /\ built = 0 /\ opened = {}
  /\ listener = "none" /\ signalled = FALSE

-----------------------------------------------------------------------------
(* app.New.                                                                *)

Build ==
  /\ stage = "new" /\ built < Len(Order)
  /\ LET step == Order[built + 1]
     IN /\ opened' = opened \cup ({step} \cap Handles)
        /\ \/ step = "logger" /\ NewWriters({"app"})
           \/ step = "publisher" /\ NewWriters({"audit"})
           \/ step \notin {"logger", "publisher"} /\ UNCHANGED writerVars
  /\ built' = built + 1
  /\ UNCHANGED <<today, kind, requestVars, publishVars, stage, listener, signalled>>

\* Variant: the last call of closeResources in New forgets the first client.
RollbackForgets ==
  [config |-> {}, logger |-> {}, database |-> {"logger"}, redis |-> {"logger", "database"},
   eventRedis |-> {"logger", "database", "redis"},
   publisher |-> {"logger", "database", "eventRedis"}]

\* What New hands to closeResources when a step fails.
Rollback ==
  [config |-> {}, logger |-> {}, database |-> {"logger"}, redis |-> {"logger", "database"},
   eventRedis |-> {"logger", "database", "redis"},
   publisher |-> {"logger", "database", "redis", "eventRedis"}]

\* A step fails with what it leaves open itself.
FailsAt(step, left) ==
  /\ stage = "new" /\ built < Len(Order) /\ step = Order[built + 1]
  /\ opened' = (opened \ Rollback[step]) \cup left
  /\ stage' = "died"
  /\ UNCHANGED <<today, writerVars, kind, requestVars, publishVars, built, listener, signalled>>

\* No such file, no YAML, or values that validate refuses.
LoadFails == FailsAt("config", {})

\* The directory of the log cannot be made.
LoggerFails == FailsAt("logger", {})

\* gorm.Open and db.DB fail with or without a pool that stays open.
DatabaseFails == \E left \in SUBSET {"database"} : FailsAt("database", left)

\* A client that does not answer its first ping is left as it is.
RedisFails == \E client \in {"redis", "eventRedis"} : FailsAt(client, {client})

\* The writers made before the one that fails are closed again.
PublisherFails == FailsAt("publisher", {})

BuildFails == LoadFails \/ LoggerFails \/ DatabaseFails \/ RedisFails \/ PublisherFails

-----------------------------------------------------------------------------
(* RunAPI, RunAdmin and serve.                                             *)

\* serve starts its goroutine before it asks for signals.
Serve ==
  /\ stage = "new" /\ built = Len(Order) /\ kind # "cli"
  /\ stage' = "serve" /\ listener' = "starting"
  /\ UNCHANGED <<today, writerVars, kind, requestVars, publishVars, built, opened, signalled>>

Notify ==
  /\ stage = "serve" /\ stage' = "select"
  /\ UNCHANGED <<today, writerVars, kind, requestVars, publishVars, built, opened, listener, signalled>>

\* The goroutine, which nothing waits for: the line, then ListenAndServe.
StartLine ==
  /\ listener = "starting" /\ ~Ended
  /\ Log
  /\ listener' = "logged"
  /\ UNCHANGED <<today, kind, requestVars, publishVars, stage, built, opened, signalled>>

Listen ==
  /\ listener = "logged" /\ ~Ended
  /\ IF stage \in {"drain", "close"} THEN listener' = "refused"
                                     ELSE listener' \in {"up", "failed"}
  /\ UNCHANGED <<today, writerVars, kind, requestVars, publishVars, stage, built, opened, signalled>>

\* Accept fails for good: the error is put into errCh.
AcceptFails ==
  /\ listener = "up" /\ ~Ended
  /\ listener' = "failed"
  /\ UNCHANGED <<today, writerVars, kind, requestVars, publishVars, stage, built, opened, signalled>>

SelectSignal ==
  /\ stage = "select" /\ signalled
  /\ Log
  /\ stage' = "shutdown"
  /\ UNCHANGED <<today, kind, requestVars, publishVars, built, opened, listener, signalled>>

\* log.Fatalf in main: no deferred Close.
SelectError ==
  /\ stage = "select" /\ listener = "failed"
  /\ stage' = "died"
  /\ UNCHANGED <<today, writerVars, kind, requestVars, publishVars, built, opened, listener, signalled>>

\* Shutdown closes the listener; requests on open connections may still come.
Shutdown ==
  /\ stage = "shutdown" /\ stage' = "drain"
  /\ listener' = IF listener = "up" THEN "down" ELSE listener
  /\ UNCHANGED <<today, writerVars, kind, requestVars, publishVars, built, opened, signalled>>

ShutdownDone ==
  /\ stage = "drain" /\ Active = {}
  /\ Log
  /\ stage' = "close"
  /\ UNCHANGED <<today, kind, requestVars, publishVars, built, opened, listener, signalled>>

\* Variant: Shutdown gets a context without a deadline.
ShutdownWaits == ShutdownDone

\* Variant: the error is logged and not returned, so that main runs Close.
ShutdownErrorIgnored ==
  /\ stage = "drain"
  /\ Log
  /\ stage' = "close"
  /\ UNCHANGED <<today, kind, requestVars, publishVars, built, opened, listener, signalled>>

\* Ten seconds have passed: the error is logged and ends in log.Fatalf.
ShutdownTimeout ==
  /\ stage = "drain"
  /\ Log
  /\ stage' = "died"
  /\ UNCHANGED <<today, kind, requestVars, publishVars, built, opened, listener, signalled>>

-----------------------------------------------------------------------------
(* BuildRunE: a command runs, then Close.                                  *)

Run ==
  /\ stage = "new" /\ built = Len(Order) /\ kind = "cli"
  /\ stage' = "run"
  /\ UNCHANGED <<today, writerVars, kind, requestVars, publishVars, built, opened, listener, signalled>>

\* With or without an error; one that does not publish returns at once.
RunReturns ==
  /\ stage = "run" /\ job \in {"none", "ok", "failed"}
  /\ Log
  /\ stage' = "close"
  /\ UNCHANGED <<today, kind, requestVars, publishVars, built, opened, listener, signalled>>

-----------------------------------------------------------------------------
(* App.Close and the end.                                                  *)

\* Variant: closeResources has lost a branch.
CloseWithoutPublisher == <<"logger", "database", "redis", "eventRedis">>

CloseOrder == <<"logger", "database", "redis", "eventRedis", "publisher">>

ToClose == {k \in DOMAIN CloseOrder : CloseOrder[k] \in opened}

CloseNext ==
  /\ stage = "close"
  /\ \E k \in ToClose :
       /\ \A i \in ToClose : k <= i
       /\ opened' = opened \ {CloseOrder[k]}
       /\ \/ CloseOrder[k] = "logger" /\ CloseWriter("app")
          \/ CloseOrder[k] = "publisher" /\ CloseWriter("audit")
          \/ CloseOrder[k] \notin {"logger", "publisher"} /\ UNCHANGED writerVars
  /\ UNCHANGED <<today, kind, requestVars, publishVars, stage, built, listener, signalled>>

Exit ==
  /\ stage = "close" /\ ToClose = {}
  /\ stage' = "exited"
  /\ UNCHANGED <<today, writerVars, kind, requestVars, publishVars, built, opened, listener, signalled>>

\* Before Notify, and in a command, a signal kills; later ones are dropped.
Signal ==
  /\ ~Ended /\ ~signalled
  /\ IF stage \in {"new", "serve", "run"} \/ kind = "cli"
       THEN stage' = "killed" /\ UNCHANGED signalled
       ELSE signalled' = TRUE /\ UNCHANGED stage
  /\ UNCHANGED <<today, writerVars, kind, requestVars, publishVars, built, opened, listener>>

-----------------------------------------------------------------------------
Request(r) ==
  /\ ~Ended
  /\ \/ listener \in {"up", "down"} /\ stage # "close" /\ Arrive(r)
     \/ RequestNext(r)
  /\ UNCHANGED <<today, kind, publishVars, lifeVars>>

Job == stage = "run" /\ PublishNext /\ UNCHANGED <<kind, requestVars, lifeVars>>

Clock == ~Ended /\ Midnight /\ UNCHANGED <<kind, requestVars, publishVars, lifeVars>>

Main ==
  \/ Build \/ BuildFails \/ Serve \/ Notify \/ SelectSignal \/ SelectError \/ Shutdown
  \/ ShutdownDone \/ ShutdownTimeout \/ Run \/ RunReturns \/ CloseNext \/ Exit

Next ==
  \/ Main \/ StartLine \/ Listen \/ AcceptFails \/ Signal \/ Job \/ Clock
  \/ \E r \in Requests : Request(r)

Spec == Init /\ [][Next]_vars

\* main's goroutine runs and the ten seconds of Shutdown pass; nothing is
\* assumed of the handlers.
FairSpec ==
  /\ Spec
  /\ WF_vars(SelectSignal \/ SelectError) /\ WF_vars(Shutdown)
  /\ WF_vars(ShutdownDone \/ ShutdownTimeout)
  /\ WF_vars(CloseNext \/ Exit)

-----------------------------------------------------------------------------
\* Every variable has its type, and a writer holds at most the file of the
\* day of its last line (writer.go:81-88).
TypeOK ==
  /\ RequestTypeOK /\ PublishTypeOK
  /\ kind \in Kinds /\ today \in Days
  /\ curDate \in [Writers -> 0 .. MaxDay]
  /\ files \in [Writers -> SUBSET Days]
  /\ \A w \in Writers : files[w] \subseteq {curDate[w]}
  /\ stage \in {"new", "serve", "select", "shutdown", "drain", "run", "close", "exited", "died",
                "killed"}
  /\ built \in 0 .. Len(Order) /\ opened \subseteq Handles
  /\ listener \in {"none", "starting", "logged", "up", "failed", "refused", "down"}
  /\ signalled \in BOOLEAN

\* When New fails, all that it opened is closed again, but for the client
\* whose own ping failed (app.go:56-79, redis.go:20).
RolledBack ==
  stage = "died" /\ built < Len(Order) => opened \subseteq {Order[built + 1]}

\* A process that ends by returning from main has answered every request and
\* holds nothing open; the log file alone can be open again, when the line of
\* serve's goroutine came after Close (api.go:62, app.go:109-131).
GracefulExitIsClean ==
  stage = "exited" =>
    /\ opened = {} /\ Active = {} /\ files["audit"] = {}
    /\ files["app"] # {} => listener \in {"logged", "refused"}

\* What a request or a publication uses is open as long as it runs: Close
\* comes after the last one, or not at all (api.go:81-84, main.go:18).
InUseIsOpen ==
  Active # {} \/ job \in {"xadd", "audit"} => opened = Handles

\* A server that got a signal ends, with or without its Close, though a
\* handler never returns (api.go:78-84).
ServerStops == signalled ~> Ended
=============================================================================
