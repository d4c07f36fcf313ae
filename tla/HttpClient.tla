----------------------------- MODULE HttpClient -----------------------------
(***************************************************************************)
(* internal/pkg/httpclient/client.go: one call of Get, Post or PostForm    *)
(* over resty (outside the repository), which sends, asks the retry        *)
(* condition, backs off and sends again.  A request travels apart from the *)
(* call: it may be written, and executed, after the client has given it up. *)
(* A body is the sequence of the widths of its runes, in bytes.            *)
(***************************************************************************)
EXTENDS Integers, FiniteSets, SequencesExt

CONSTANTS RetryCounts,  \* values of Config.RetryCount
          MaxAttempts,  \* bound: 1 + the largest of them
          Bodies,       \* bodies of the answers
          MaxBytes      \* truncateMaxBytes

ASSUME ClientAssumption ==
  /\ RetryCounts \subseteq Nat /\ MaxAttempts \in Nat /\ MaxBytes \in Nat
  /\ \A n \in RetryCounts : n < MaxAttempts
  /\ MaxAttempts > 1
  /\ Bodies \subseteq Seq(1 .. 4)

Attempts == 1 .. MaxAttempts
Statuses == {200, 400, 500}
Errors == {"canceled", "refused", "reset", "deadline", "other"}

VARIABLES pc,       \* "idle", "request", "wait", "backoff", "returned"
          retries,  \* resty's RetryCount
          attempt,  \* attempts begun
          request,  \* of each attempt: "none", "begun", "sent", "executed", "gone"
          status,   \* of each executed attempt, 0 before
          ended,    \* history: how each attempt ended for the client
          ctxDone,  \* the caller's ctx is cancelled or past its deadline
          result,   \* what the call returned
          text      \* the body and what of it is in the error

net == <<request, status>>
vars == <<pc, retries, attempt, net, ended, ctxDone, result, text>>

\* Config.WithDefaults: 0 stands for "not given", so it cannot switch retries off.
WithDefaults(n) == IF n # 0 THEN n ELSE 1

Init ==
  /\ pc = "idle"
  /\ retries \in {WithDefaults(n) : n \in RetryCounts}
  /\ attempt = 0
  /\ request = [a \in Attempts |-> "none"]
  /\ status = [a \in Attempts |-> 0]
  /\ ended = [a \in Attempts |-> "none"]
  /\ ctxDone = FALSE
  /\ result = "none"
  /\ text = <<<<>>, <<>>>>

-----------------------------------------------------------------------------
(* util.TruncateUTF8: whole runes up to MaxBytes.                          *)

Bytes(b) == FoldLeft(+, 0, b)

\* Variant: the boundary is passed by the rune that crosses it.
TruncateLate(b) ==
  LET Take[k \in 0 .. Len(b)] ==
        IF k < Len(b) /\ Bytes(SubSeq(b, 1, k)) < MaxBytes THEN Take[k + 1] ELSE k
  IN SubSeq(b, 1, Take[0])

TruncateUTF8(b) ==
  LET Take[k \in 0 .. Len(b)] ==
        IF k < Len(b) /\ Bytes(SubSeq(b, 1, k + 1)) <= MaxBytes
          THEN Take[k + 1] ELSE k
  IN IF Bytes(b) <= MaxBytes THEN b ELSE SubSeq(b, 1, Take[0])

-----------------------------------------------------------------------------
(* The call.                                                               *)

Return(res) == pc' = "returned" /\ result' = res

\* EnsurePointer refuses the result argument before anything is sent.
RejectResult ==
  /\ pc = "idle"
  /\ Return("badResult")
  /\ UNCHANGED <<retries, attempt, net, ended, ctxDone, text>>

Call ==
  /\ pc = "idle"
  /\ pc' = "request"
  /\ UNCHANGED <<retries, attempt, net, ended, ctxDone, result, text>>

\* net/http looks at ctx, finds it running and begins; the request is written later.
Begin ==
  /\ pc = "request" /\ ~ctxDone
  /\ attempt' = attempt + 1
  /\ request' = [request EXCEPT ![attempt'] = "begun"]
  /\ pc' = "wait"
  /\ UNCHANGED <<retries, status, ended, ctxDone, result, text>>

\* net/http finds that ctx has ended.
BeginRefused ==
  /\ pc = "request" /\ ctxDone
  /\ attempt' = attempt + 1
  /\ ended' = [ended EXCEPT ![attempt'] = "canceled"]
  /\ Return("canceled")
  /\ UNCHANGED <<retries, net, ctxDone, text>>

\* resty cannot build the request (URL, body): it asks the retry condition
\* without a response, and resp.StatusCode() of a nil response panics.
Unbuilt ==
  /\ pc = "request" /\ attempt = 0
  /\ Return("panic")
  /\ UNCHANGED <<retries, attempt, net, ended, ctxDone, text>>

\* Variant: any error is retried.
RetryOnAnyError(err, code) == err # "none" \/ code >= 500

\* defaultRetryConditionFunc.
RetryCondition(err, code) ==
  \/ err = "deadline"
  \/ err \in {"none", "other"} /\ code >= 500

\* Variant: an answer is a success whatever its status.
ReturnAnyAnswer(err, code) ==
  /\ Return(IF err = "none" THEN "ok" ELSE err)
  /\ UNCHANGED text

\* What Get, Post and PostForm make of resty's answer: err, buildHTTPError, nil.
ReturnAnswer(err, code) ==
  IF err = "none" /\ code >= 400
    THEN /\ Return("httpError")
         /\ \E b \in Bodies : text' = <<b, TruncateUTF8(b)>>
    ELSE /\ Return(IF err = "none" THEN "ok" ELSE err)
         /\ UNCHANGED text

\* Variant: one repetition too many.
GivesUpLate(err, code) == ctxDone \/ ~RetryCondition(err, code) \/ attempt > retries + 1

\* resty returns when ctx is done, when the condition says so or after RetryCount
\* repetitions.
GivesUp(err, code) == ctxDone \/ ~RetryCondition(err, code) \/ attempt > retries

EndAttempt(err, code) ==
  /\ pc = "wait"
  /\ ended' = [ended EXCEPT ![attempt] =
                 IF err = "none" THEN IF code >= 500 THEN "5xx" ELSE "answer" ELSE err]
  /\ IF GivesUp(err, code) THEN ReturnAnswer(err, code)
                          ELSE pc' = "backoff" /\ UNCHANGED <<result, text>>
  /\ UNCHANGED <<retries, attempt, ctxDone>>

Answered == pc = "wait" /\ request[attempt] = "executed"

Answer ==
  /\ Answered
  /\ EndAttempt("none", status[attempt])
  /\ UNCHANGED net

\* The answer arrives in part, or its body does not decode.
BrokenAnswer ==
  /\ Answered
  /\ EndAttempt("other", status[attempt])
  /\ UNCHANGED net

\* No connection: ECONNREFUSED, unreachable, dial.
Refused ==
  /\ pc = "wait" /\ request[attempt] = "begun"
  /\ request' = [request EXCEPT ![attempt] = "gone"]
  /\ EndAttempt("refused", 0)
  /\ UNCHANGED status

\* The connection breaks: "reset by peer", or another error such as EOF.
Broken == \E err \in {"reset", "other"} : EndAttempt(err, 0) /\ UNCHANGED net

\* Variant: no SetTimeout.
NoTimeout == ctxDone /\ EndAttempt("deadline", 0) /\ UNCHANGED net

\* Config.Timeout passes; the request may still be on its way.
Timeout == EndAttempt("deadline", 0) /\ UNCHANGED net

Aborted == ctxDone /\ EndAttempt("canceled", 0) /\ UNCHANGED net

\* The wait is over.  A ctx that ends at the same time may lose the select.
Wake ==
  /\ pc = "backoff"
  /\ pc' = "request"
  /\ UNCHANGED <<retries, attempt, net, ended, ctxDone, result, text>>

BackoffAborted ==
  /\ pc = "backoff" /\ ctxDone
  /\ Return("canceled")
  /\ UNCHANGED <<retries, attempt, net, ended, ctxDone, text>>

-----------------------------------------------------------------------------
(* The environment: the server, the network and the caller's ctx.          *)

\* The connection is there and the request goes out; ctx may have ended, and the
\* attempt may have been given up, since it began.
Write(a) ==
  /\ request[a] = "begun"
  /\ request' = [request EXCEPT ![a] = "sent"]
  /\ UNCHANGED <<pc, retries, attempt, status, ended, ctxDone, result, text>>

Execute(a) ==
  /\ request[a] = "sent"
  /\ request' = [request EXCEPT ![a] = "executed"]
  /\ \E s \in Statuses : status' = [status EXCEPT ![a] = s]
  /\ UNCHANGED <<pc, retries, attempt, ended, ctxDone, result, text>>

Lose(a) ==
  /\ request[a] \in {"begun", "sent"}
  /\ request' = [request EXCEPT ![a] = "gone"]
  /\ UNCHANGED <<pc, retries, attempt, status, ended, ctxDone, result, text>>

CtxEnds ==
  /\ ~ctxDone
  /\ ctxDone' = TRUE
  /\ UNCHANGED <<pc, retries, attempt, net, ended, result, text>>

Client ==
  \/ Begin \/ BeginRefused \/ Unbuilt
  \/ Answer \/ BrokenAnswer \/ Refused \/ Broken \/ Timeout \/ Aborted
  \/ Wake \/ BackoffAborted

Next ==
  \/ RejectResult \/ Call \/ Client \/ CtxEnds
  \/ \E a \in Attempts : Write(a) \/ Execute(a) \/ Lose(a)

Spec == Init /\ [][Next]_vars

\* Timers run out: the timeout of an attempt and the wait between two.
FairSpec == Spec /\ WF_vars(Begin \/ BeginRefused) /\ WF_vars(Timeout) /\ WF_vars(Wake)

-----------------------------------------------------------------------------
Executed == {a \in Attempts : request[a] = "executed"}

\* Every variable has its type, and the attempts are the requests made, in
\* order, at most RetryCount + 1 of them (client.go:117-120).
TypeOK ==
  /\ pc \in {"idle", "request", "wait", "backoff", "returned"}
  /\ retries \in 1 .. MaxAttempts - 1
  /\ attempt \in 0 .. retries + 1
  /\ pc \in {"request", "backoff"} => attempt <= retries
  /\ request \in [Attempts -> {"none", "begun", "sent", "executed", "gone"}]
  /\ status \in [Attempts -> Statuses \cup {0}]
  /\ ended \in [Attempts -> Errors \cup {"none", "5xx", "answer"}]
  /\ ctxDone \in BOOLEAN
  /\ result \in Errors \cup {"none", "ok", "httpError", "badResult", "panic"}

\* A request the server has executed without a 5xx is repeated only if the
\* client ran into its timeout: after a refusal, a reset or a broken answer no
\* attempt begins, however late the request of the last one is written
\* (client.go:141-172, the repeated submission its comment warns of).
AcceptedTwiceOnlyAfterTimeout ==
  \A a, b \in Attempts :
    a < b /\ request[a] = "executed" /\ status[a] < 500 /\ request[b] # "none"
      => ended[a] = "deadline"

\* A nil error means that the server executed the last attempt and did not
\* answer it with an error status (client.go:218-227).
SuccessIsTheLastAnswer ==
  result = "ok" => attempt \in Executed /\ status[attempt] < 400

\* The text of an HTTP error holds whole runes of the body, no more than
\* MaxBytes, and as many as fit (client.go:313-319, util/common.go:30-43).
ErrorTextIsLongestPrefix ==
  LET body == text[1]
      cut == text[2]
  IN /\ IsPrefix(cut, body)
     /\ Bytes(cut) <= MaxBytes
     /\ cut # body => Bytes(SubSeq(body, 1, Len(cut) + 1)) > MaxBytes

\* A call comes to an end: each attempt within its timeout, and a bounded
\* number of them, though the server never answers and ctx never ends.
CallReturns == pc = "request" ~> pc = "returned"
=============================================================================
