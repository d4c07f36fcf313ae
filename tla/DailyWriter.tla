---------------------------- MODULE DailyWriter ----------------------------
(***************************************************************************)
(* internal/pkg/logger/writer.go: DailyLumberjackWriter, one file a day.   *)
(* Writers are used by many goroutines; each operation runs under the      *)
(* mutex of its writer and is therefore one step.  lumberjack opens a file *)
(* with the first line, also with one that comes after Close.              *)
(***************************************************************************)
EXTENDS Integers

CONSTANTS Writers, MaxDay  \* bound: days that a behaviour lasts

ASSUME WriterAssumption == MaxDay \in Nat \ {0}

VARIABLES today,    \* what time.Now() says
          curDate,  \* per writer, 0 before it exists
          files     \* per writer: the days whose files it holds open

writerVars == <<curDate, files>>
Days == 1 .. MaxDay

WriterInit ==
  /\ today = 1
  /\ curDate = [w \in Writers |-> 0]
  /\ files = [w \in Writers |-> {}]

Midnight == today < MaxDay /\ today' = today + 1 /\ UNCHANGED writerVars

\* NewDailyLumberjackWriter for each of ws.
NewWriters(ws) ==
  /\ curDate' = [w \in Writers |-> IF w \in ws THEN today ELSE curDate[w]]
  /\ UNCHANGED files

\* Variant: the file of the day before is not closed.
SwitchWithoutClose(w) == files[w]

\* What stays open when the next line is written: nothing on a new day.
Switch(w) == IF today # curDate[w] THEN {} ELSE files[w]

Write(w) ==
  /\ curDate' = [curDate EXCEPT ![w] = today]
  /\ files' = [files EXCEPT ![w] = Switch(w) \cup {today}]

\* The disk refuses the line, with or without the file open.
WriteFails(w) ==
  /\ curDate' = [curDate EXCEPT ![w] = today]
  /\ \E open \in {{}, {today}} : files' = [files EXCEPT ![w] = Switch(w) \cup open]

CloseWriter(w) == files' = [files EXCEPT ![w] = {}] /\ UNCHANGED curDate

\* logger.go: a line below the configured level is not written.
Log == Write("app") \/ WriteFails("app") \/ UNCHANGED writerVars
=============================================================================
