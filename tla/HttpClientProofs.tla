-------------------------- MODULE HttpClientProofs --------------------------
(***************************************************************************)
(* The safety of HttpClient for every number of retries, every limit and   *)
(* every way in which server, network and ctx may behave.                  *)
(***************************************************************************)
EXTENDS HttpClient, TLAPS, WellFoundedInduction

\* Attempts are made in order: nothing is known of those to come, and one that
\* is waited for has begun.
InOrder ==
  /\ \A a \in Attempts : a > attempt => request[a] = "none" /\ status[a] = 0
  /\ pc = "idle" => attempt = 0
  /\ pc = "wait" => attempt > 0 /\ request[attempt] # "none"
  /\ \A a \in Attempts : request[a] = "executed" => status[a] # 0

\* Why an attempt that was followed, or will be followed, by another failed.
\* Neither reason can be undone: an executed request keeps its status.
RetriedForAReason ==
  \A a \in Attempts :
    a < attempt \/ (a = attempt /\ pc \in {"request", "backoff"}) =>
      ended[a] = "deadline" \/ (request[a] = "executed" /\ status[a] >= 500)

\* Only a call that has returned has a result.
ResultAtTheEnd ==
  /\ result # "none" => pc = "returned"
  /\ SuccessIsTheLastAnswer

HttpInv == TypeOK /\ InOrder /\ RetriedForAReason /\ ResultAtTheEnd

\* A call that has not begun satisfies the invariant.
LEMMA InitHttp == Init => HttpInv
<1> SUFFICES ASSUME Init PROVE HttpInv
  OBVIOUS
<1> USE ClientAssumption DEF Init, Attempts, Errors, Statuses
<1>1. retries \in 1 .. MaxAttempts - 1
  BY DEF WithDefaults
<1>2. /\ request \in [Attempts -> {"none", "begun", "sent", "executed", "gone"}]
      /\ status \in [Attempts -> Statuses \cup {0}]
      /\ ended \in [Attempts -> Errors \cup {"none", "5xx", "answer"}]
  OBVIOUS
<1>3. attempt \in 0 .. retries + 1
  BY <1>1
<1>4. TypeOK
  BY <1>1, <1>2, <1>3 DEF TypeOK
<1>5. InOrder /\ RetriedForAReason /\ ResultAtTheEnd
  BY DEF InOrder, RetriedForAReason, ResultAtTheEnd, SuccessIsTheLastAnswer
<1> QED
  BY <1>4, <1>5 DEF HttpInv

\* What the end of an attempt does to the call, whatever the attempt met.
LEMMA AttemptEnds ==
  ASSUME HttpInv, NEW err \in Errors \cup {"none"}, NEW code \in Statuses \cup {0},
         EndAttempt(err, code), UNCHANGED status,
         err = "none" => request[attempt] = "executed" /\ code = status[attempt],
         code >= 500 => request[attempt] = "executed" /\ code = status[attempt],
         request' \in [Attempts -> {"none", "begun", "sent", "executed", "gone"}],
         \A a \in Attempts : request[a] = "executed" <=> request'[a] = "executed",
         \A a \in Attempts : request[a] = "none" <=> request'[a] = "none"
  PROVE  HttpInv'
<1> USE ClientAssumption
    DEF HttpInv, TypeOK, InOrder, Attempts, Errors, Statuses
<1>1. /\ attempt' = attempt /\ retries' = retries /\ ctxDone' = ctxDone
      /\ attempt \in Attempts /\ pc = "wait" /\ result = "none"
      /\ ended' \in [Attempts -> Errors \cup {"none", "5xx", "answer"}]
  BY DEF EndAttempt, ResultAtTheEnd
<1>2. CASE GivesUp(err, code)
  <2>1. pc' = "returned" /\ result' \in Errors \cup {"ok", "httpError"}
    BY <1>2 DEF EndAttempt, ReturnAnswer, Return
  <2>2. result' = "ok" => err = "none" /\ code < 400
    BY <1>2 DEF EndAttempt, ReturnAnswer, Return
  <2>3. TypeOK' /\ InOrder'
    BY <1>1, <2>1
  <2>4. RetriedForAReason'
    BY <1>1, <2>1 DEF RetriedForAReason, EndAttempt
  <2>5. ResultAtTheEnd'
    BY <1>1, <2>1, <2>2 DEF ResultAtTheEnd, SuccessIsTheLastAnswer, Executed
  <2> QED
    BY <2>3, <2>4, <2>5
<1>3. CASE ~GivesUp(err, code)
  <2>1. pc' = "backoff" /\ result' = "none" /\ attempt <= retries
    BY <1>1, <1>3 DEF EndAttempt, GivesUp
  <2>2. err = "deadline" \/ code >= 500
    BY <1>3 DEF GivesUp, RetryCondition
  <2>3. TypeOK' /\ InOrder'
    BY <1>1, <2>1
  <2>4. RetriedForAReason'
    BY <1>1, <2>1, <2>2 DEF RetriedForAReason, EndAttempt
  <2>5. ResultAtTheEnd'
    BY <1>1, <2>1 DEF ResultAtTheEnd, SuccessIsTheLastAnswer
  <2> QED
    BY <2>3, <2>4, <2>5
<1> QED
  BY <1>2, <1>3

\* Every step of doRequest keeps the invariant.
LEMMA HttpStep == HttpInv /\ [Next]_vars => HttpInv'
<1> SUFFICES ASSUME HttpInv, [Next]_vars PROVE HttpInv'
  OBVIOUS
<1> USE ClientAssumption
    DEF HttpInv, TypeOK, InOrder, RetriedForAReason, ResultAtTheEnd,
        SuccessIsTheLastAnswer, Executed, Attempts, Errors, Statuses, net
<1>1. CASE RejectResult \/ Unbuilt \/ BackoffAborted
  BY <1>1 DEF RejectResult, Unbuilt, BackoffAborted, Return
<1>2. CASE Call \/ Wake
  BY <1>2 DEF Call, Wake
<1>3. CASE Begin
  BY <1>3 DEF Begin
<1>4. CASE BeginRefused
  BY <1>4 DEF BeginRefused, Return
<1>5. CASE Answer
  BY <1>5, AttemptEnds DEF Answer, Answered
<1>6. CASE BrokenAnswer
  BY <1>6, AttemptEnds DEF BrokenAnswer, Answered
<1>7. CASE Refused
  <2>1. pc = "wait" /\ request[attempt] = "begun" /\ attempt \in Attempts
        /\ request' = [request EXCEPT ![attempt] = "gone"] /\ UNCHANGED status
        /\ EndAttempt("refused", 0)
    BY <1>7 DEF Refused
  <2>2. request' \in [Attempts -> {"none", "begun", "sent", "executed", "gone"}]
        /\ \A a \in Attempts : /\ request[a] = "executed" <=> request'[a] = "executed"
                               /\ request[a] = "none" <=> request'[a] = "none"
    BY <2>1
  <2> HIDE DEF HttpInv
  <2> QED
    BY <2>1, <2>2, AttemptEnds, SMTT(30)
<1>8. CASE Broken \/ Timeout \/ Aborted
  <2>1. PICK err \in Errors : EndAttempt(err, 0) /\ UNCHANGED net
    BY <1>8 DEF Broken, Timeout, Aborted
  <2>2. err # "none" /\ request \in [Attempts -> {"none", "begun", "sent", "executed", "gone"}]
    OBVIOUS
  <2> HIDE DEF HttpInv
  <2> QED
    BY <2>1, <2>2, AttemptEnds, SMTT(30)
<1>9. CASE CtxEnds
  BY <1>9 DEF CtxEnds
<1>10. ASSUME NEW a \in Attempts, Execute(a) PROVE HttpInv'
  <2>1. PICK s \in Statuses : status' = [status EXCEPT ![a] = s]
    BY <1>10 DEF Execute
  <2>2. /\ request[a] = "sent" /\ request' = [request EXCEPT ![a] = "executed"]
        /\ UNCHANGED <<pc, retries, attempt, ended, ctxDone, result, text>>
    BY <1>10 DEF Execute
  <2>3. TypeOK'
    BY <2>1, <2>2
  <2>4. InOrder'
    BY <2>1, <2>2
  <2>5. RetriedForAReason'
    BY <2>1, <2>2
  <2>6. ResultAtTheEnd'
    BY <2>1, <2>2
  <2> QED
    BY <2>3, <2>4, <2>5, <2>6
<1>11. ASSUME NEW a \in Attempts, Write(a) \/ Lose(a) PROVE HttpInv'
  BY <1>11 DEF Write, Lose
<1>12. CASE UNCHANGED vars
  BY <1>12 DEF vars
<1> QED
  BY <1>1, <1>2, <1>3, <1>4, <1>5, <1>6, <1>7, <1>8, <1>9, <1>10, <1>12, <1>11 DEF Next, Client

\* The invariant holds in every reachable state, for all MaxAttempts.
THEOREM HttpInvariance == Spec => []HttpInv
BY InitHttp, HttpStep, PTL DEF Spec

\* The state of a call is well-formed and it makes at most RetryCount + 1
\* attempts (client.go:117-120).
THEOREM TypeCorrect == Spec => []TypeOK
<1>1. HttpInv => TypeOK
  BY DEF HttpInv
<1> QED
  BY <1>1, HttpInvariance, PTL

\* What a server has accepted is submitted again only after a timeout
\* (client.go:141-172).
THEOREM NoRepeatedSubmission == Spec => []AcceptedTwiceOnlyAfterTimeout
<1>1. HttpInv => AcceptedTwiceOnlyAfterTimeout
  BY ClientAssumption
  DEF HttpInv, TypeOK, InOrder, RetriedForAReason, AcceptedTwiceOnlyAfterTimeout,
      Attempts, Statuses
<1> QED
  BY <1>1, HttpInvariance, PTL

\* No error means that the last attempt was executed and not refused by its
\* status (client.go:218-227).
THEOREM SuccessIsEarned == Spec => []SuccessIsTheLastAnswer
<1>1. HttpInv => SuccessIsTheLastAnswer
  BY DEF HttpInv, ResultAtTheEnd
<1> QED
  BY <1>1, HttpInvariance, PTL

-----------------------------------------------------------------------------
(* The text of an error.  Bytes and the loop of TruncateUTF8 are recursive  *)
(* functions, that is CHOOSEs: each proof exhibits a function that solves   *)
(* the recursion, and argues about the chosen one with the least number at  *)
(* which it would fail.                                                     *)

\* A non-empty set of naturals has a least element.
LEMMA LeastNatural ==
  ASSUME NEW S \in SUBSET Nat, S # {}
  PROVE  \E m \in S : \A n \in S : m <= n
<1>1. IsWellFoundedOn(OpToRel(<, Nat), Nat)
  BY NatLessThanWellFounded
<1>2. PICK m \in S : \A n \in S : ~(<<n, m>> \in OpToRel(<, Nat))
  BY <1>1, WFMin
<1>3. \A n \in S : ~(n < m)
  BY <1>2 DEF OpToRel
<1> QED
  BY <1>3

\* Max(s) is the greatest element of a non-empty set of indices.
LEMMA GreatestIndex ==
  ASSUME NEW k \in Nat, NEW s \in SUBSET (1 .. k), s # {}
  PROVE  Max(s) \in s /\ \A i \in s : i <= Max(s)
<1> DEFINE D == {k - i : i \in s}
<1>1. D \in SUBSET Nat /\ D # {}
  <2>1. \A i \in s : k - i \in Nat
    OBVIOUS
  <2>2. \E i \in s : k - i \in D
    OBVIOUS
  <2> QED
    BY <2>1, <2>2
<1>2. PICK d \in D : \A e \in D : d <= e
  <2> HIDE DEF D
  <2> QED
    BY <1>1, LeastNatural
<1>3. PICK m \in s : d = k - m
  OBVIOUS
<1>4. \A i \in s : k - i \in D
  OBVIOUS
<1>5. \A i \in s : m >= i
  <2> HIDE DEF D
  <2> QED
    BY <1>2, <1>3, <1>4
<1>6. Max(s) \in s /\ \A i \in s : Max(s) >= i
  BY <1>5, Zenon DEF Max
<1> QED
  BY <1>6

\* The size of a body is a number, and the empty body has none.  A step k of
\* the argument extends a solution over the first k - 1 runes by one rune.
LEMMA BytesNatural ==
  ASSUME NEW b \in Seq(1 .. 4)
  PROVE  Bytes(b) \in Nat /\ (b = <<>> => Bytes(b) = 0)
<1> DEFINE n == Len(b)
           One(f, s) == IF s = {} THEN 0 ELSE f[s \ {Max(s)}] + b[Max(s)]
           I(f) == [s \in SUBSET (DOMAIN b) |-> One(f, s)]
           iter == CHOOSE f : f = I(f)
           Solves(f, k) == \A s \in SUBSET (1 .. k) : f[s] = One(f, s)
<1>1. n \in Nat /\ DOMAIN b = 1 .. n /\ \A i \in 1 .. n : b[i] \in Nat
  OBVIOUS
<1>2. Bytes(b) = iter[DOMAIN b]
  BY Zenon DEF Bytes, FoldLeft, MapThenFoldSet
<1> HIDE DEF n
<1>3. ASSUME NEW k \in 1 .. n, NEW f, Solves(f, k - 1)
      PROVE  \E g : Solves(g, k)
  <2> k \in Nat /\ k - 1 \in Nat
    BY <1>1
  <2> DEFINE g == [s \in SUBSET (1 .. k) |->
                     IF k \in s THEN f[s \ {k}] + b[k] ELSE f[s]]
  <2>1. ASSUME NEW s \in SUBSET (1 .. k), k \notin s PROVE g[s] = One(g, s)
    <3>1. s \in SUBSET (1 .. k - 1) /\ g[s] = f[s]
      BY <1>1, <2>1
    <3>2. CASE s # {}
      <4>1. Max(s) \in s
        BY <3>2, GreatestIndex
      <4>2. g[s \ {Max(s)}] = f[s \ {Max(s)}]
        BY <2>1
      <4> QED
        BY <1>3, <3>1, <3>2, <4>2
    <3> QED
      BY <1>3, <3>1, <3>2
  <2>2. ASSUME NEW s \in SUBSET (1 .. k), k \in s PROVE g[s] = One(g, s)
    <3>1. Max(s) \in s /\ k <= Max(s) /\ s # {}
      BY <2>2, GreatestIndex
    <3>2. Max(s) = k
      <4>1. Max(s) \in 1 .. k
        BY <3>1
      <4> QED
        BY <3>1, <4>1
    <3>3. s \ {k} \in SUBSET (1 .. k) /\ k \notin s \ {k}
      OBVIOUS
    <3>4. g[s \ {k}] = f[s \ {k}] /\ g[s] = f[s \ {k}] + b[k]
      BY <2>2, <3>3
    <3> QED
      BY <3>1, <3>2, <3>4
  <2> HIDE DEF g
  <2>3. Solves(g, k)
    BY <2>1, <2>2
  <2> QED
    BY <2>3
<1>4. \E f : Solves(f, 0)
  <2> DEFINE f == [s \in {{}} |-> 0]
  <2>1. \A s \in SUBSET (1 .. 0) : s = {} /\ f[s] = 0
    OBVIOUS
  <2>2. Solves(f, 0)
    BY <2>1
  <2> QED
    BY <2>2
<1>5. \E f : Solves(f, n)
  <2> DEFINE C == {k \in 0 .. n : ~\E f : Solves(f, k)}
  <2>1. C \in SUBSET Nat
    BY <1>1
  <2>2. SUFFICES ASSUME C # {} PROVE FALSE
    <3>1. n \in 0 .. n
      BY <1>1
    <3> HIDE DEF Solves
    <3> QED
      BY <3>1
  <2> HIDE DEF Solves
  <2>3. PICK k \in C : \A j \in C : k <= j
    <3> HIDE DEF C
    <3> QED
      BY <2>1, <2>2, LeastNatural
  <2>4. k \in 1 .. n /\ k - 1 \in 0 .. n /\ k - 1 \notin C
    BY <1>1, <1>4, <2>3
  <2>5. PICK f : Solves(f, k - 1)
    BY <2>4
  <2>6. \E g : Solves(g, k)
    BY <1>3, <2>4, <2>5
  <2> QED
    BY <2>3, <2>6
<1>6. \E f : f = I(f)
  <2>1. PICK f : Solves(f, n)
    BY <1>5
  <2> DEFINE h == [s \in SUBSET (DOMAIN b) |-> f[s]]
  <2>2. ASSUME NEW s \in SUBSET (DOMAIN b) PROVE h[s] = One(h, s)
    <3>1. h[s] = One(f, s) /\ h[s \ {Max(s)}] = f[s \ {Max(s)}]
      BY <1>1, <2>1
    <3> QED
      BY <3>1
  <2>3. h = [s \in SUBSET (DOMAIN b) |-> h[s]]
    OBVIOUS
  <2> HIDE DEF h
  <2>4. h = I(h)
    BY <2>2, <2>3
  <2> QED
    BY <2>4
<1>7. Solves(iter, n)
  <2> DEFINE F == iter
  <2>1. F = I(F)
    BY <1>6
  <2> HIDE DEF F
  <2>2. Solves(F, n)
    BY <1>1, <2>1
  <2> QED
    BY <2>2 DEF F
<1> HIDE DEF iter
<1>8. ASSUME NEW k \in 0 .. n, NEW s \in SUBSET (1 .. k), iter[s] \notin Nat
      PROVE  k > 0 /\ s \ {Max(s)} \in SUBSET (1 .. k - 1) /\ iter[s \ {Max(s)}] \notin Nat
  <2>1. k \in Nat /\ \A i \in s : i \in 1 .. k /\ i \in 1 .. n
    BY <1>1
  <2>2. s \in SUBSET (1 .. n) /\ iter[s] = One(iter, s)
    <3>1. s \in SUBSET (1 .. n)
      BY <2>1
    <3> QED
      BY <3>1, <1>7
  <2>3. s # {}
    BY <1>8, <2>2
  <2>4. Max(s) \in s /\ \A i \in s : i <= Max(s)
    BY <2>1, <2>3, GreatestIndex
  <2>5. iter[s] = iter[s \ {Max(s)}] + b[Max(s)] /\ b[Max(s)] \in Nat
    BY <1>1, <2>1, <2>2, <2>3, <2>4
  <2>6. iter[s \ {Max(s)}] \notin Nat
    BY <1>8, <2>5
  <2>7. Max(s) \in 1 .. k /\ k > 0
    <3>1. Max(s) \in 1 .. k
      BY <2>1, <2>4, Zenon
    <3> QED
      BY <2>1, <3>1
  <2>8. ASSUME NEW i \in s, i # Max(s) PROVE i \in 1 .. k - 1
    <3>1. i \in 1 .. k /\ i <= Max(s)
      BY <2>1, <2>4
    <3> QED
      BY <2>1, <2>7, <2>8, <3>1
  <2>9. s \ {Max(s)} \in SUBSET (1 .. k - 1)
    BY <2>8
  <2> QED
    BY <2>6, <2>7, <2>9
<1>9. \A s \in SUBSET (1 .. n) : iter[s] \in Nat
  <2> DEFINE C == {k \in 0 .. n : \E s \in SUBSET (1 .. k) : iter[s] \notin Nat}
  <2>1. C \in SUBSET Nat
    BY <1>1
  <2>2. SUFFICES ASSUME C # {} PROVE FALSE
    <3>1. n \in 0 .. n
      BY <1>1
    <3>2. (\E s \in SUBSET (1 .. n) : iter[s] \notin Nat) => n \in C
      BY <3>1, Zenon
    <3> HIDE DEF C
    <3> QED
      BY <3>2
  <2>3. PICK k \in C : \A j \in C : k <= j
    <3> HIDE DEF C
    <3> QED
      BY <2>1, <2>2, LeastNatural
  <2>4. PICK s \in SUBSET (1 .. k) : iter[s] \notin Nat
    OBVIOUS
  <2>5. k - 1 \in C
    <3>1. k > 0 /\ s \ {Max(s)} \in SUBSET (1 .. k - 1) /\ iter[s \ {Max(s)}] \notin Nat
      BY <1>8, <2>4
    <3>2. k - 1 \in 0 .. n
      BY <1>1, <3>1
    <3> QED
      BY <3>1, <3>2
  <2>6. k \in Nat
    BY <2>1
  <2>7. k <= k - 1
    <3> HIDE DEF C
    <3> QED
      BY <2>3, <2>5
  <2> QED
    BY <2>6, <2>7
<1>10. n = 0 => iter[{}] = 0 /\ DOMAIN b = {}
  <2>1. {} \in SUBSET (1 .. n)
    OBVIOUS
  <2>2. iter[{}] = 0
    BY <1>7, <2>1, Zenon
  <2>3. 1 .. 0 = {}
    OBVIOUS
  <2> QED
    BY <1>1, <2>2, <2>3
<1>11. b = <<>> => n = 0
  BY DEF n
<1> QED
  BY <1>1, <1>2, <1>9, <1>10, <1>11
\* The loop ends at a rune k after which the next does not fit, and what is
\* before k fits: each iteration up to k found that it does.
LEMMA Truncated ==
  ASSUME NEW b \in Seq(1 .. 4), ~(Bytes(b) <= MaxBytes)
  PROVE  \E k \in 0 .. Len(b) :
           /\ TruncateUTF8(b) = SubSeq(b, 1, k)
           /\ k = Len(b) \/ ~(Bytes(SubSeq(b, 1, k + 1)) <= MaxBytes)
           /\ k = 0 \/ Bytes(SubSeq(b, 1, k)) <= MaxBytes
<1> DEFINE n == Len(b)
           Goes(k) == k < n /\ Bytes(SubSeq(b, 1, k + 1)) <= MaxBytes
           T(f) == [k \in 0 .. n |-> IF Goes(k) THEN f[k + 1] ELSE k]
           Take == CHOOSE f : f = T(f)
           Stop(k, m) == m \in k .. n /\ ~Goes(m) /\ \A j \in k .. m - 1 : Goes(j)
<1>1. n \in Nat /\ MaxBytes \in Nat
  BY ClientAssumption
<1>2. TruncateUTF8(b) = SubSeq(b, 1, Take[0])
  BY Zenon DEF TruncateUTF8
<1> HIDE DEF n
<1>3. ASSUME NEW k \in 0 .. n PROVE \E m : Stop(k, m)
  <2> DEFINE S == {m \in k .. n : ~Goes(m)}
  <2>1. S \in SUBSET Nat /\ n \in S
    BY <1>1
  <2>2. PICK m \in S : \A j \in S : m <= j
    BY <2>1, LeastNatural
  <2>3. \A j \in k .. m - 1 : Goes(j)
    BY <1>1, <2>2
  <2> QED
    BY <2>2, <2>3
<1> HIDE DEF Goes
<1>4. \E f : f = T(f)
  <2> DEFINE f == [k \in 0 .. n |-> CHOOSE m : Stop(k, m)]
  <2>1. ASSUME NEW k \in 0 .. n, NEW m1, NEW m2, Stop(k, m1), Stop(k, m2) PROVE m1 = m2
    BY <1>1, <2>1
  <2>2. ASSUME NEW k \in 0 .. n, Goes(k) PROVE f[k] = f[k + 1]
    <3>1. k + 1 \in 0 .. n
      BY <1>1, <2>2 DEF Goes
    <3>2. PICK m : Stop(k + 1, m)
      BY <3>1, <1>3
    <3>3. Stop(k, m)
      BY <1>1, <2>2, <3>2
    <3> QED
      BY <3>1, <3>2, <3>3, <2>1
  <2>3. ASSUME NEW k \in 0 .. n, ~Goes(k) PROVE f[k] = k
    <3>1. Stop(k, k)
      BY <1>1, <2>3
    <3> QED
      BY <3>1, <2>1
  <2>4. f = [k \in 0 .. n |-> f[k]]
    OBVIOUS
  <2> HIDE DEF f
  <2>5. \A k \in 0 .. n : f[k] = IF Goes(k) THEN f[k + 1] ELSE k
    BY <2>2, <2>3
  <2>6. f = T(f)
    BY <2>4, <2>5
  <2> QED
    BY <2>6
<1>5. Take = T(Take)
  BY <1>4
<1> HIDE DEF Take
<1>6. \A k \in 0 .. n : Take[k] = IF Goes(k) THEN Take[k + 1] ELSE k
  <2> DEFINE F == Take
  <2> HIDE DEF F
  <2>1. F = T(F)
    BY <1>5 DEF F
  <2>2. \A k \in 0 .. n : F[k] = IF Goes(k) THEN F[k + 1] ELSE k
    BY <2>1
  <2> QED
    BY <2>2 DEF F
<1>7. PICK m : Stop(0, m)
  <2>1. 0 \in 0 .. n
    BY <1>1
  <2> HIDE DEF Stop
  <2> QED
    BY <1>3, <2>1, Zenon
<1>8. \A k \in 0 .. m : Take[k] = Take[0]
  <2> DEFINE B == {k \in 0 .. m : Take[k] # Take[0]}
  <2>1. SUFFICES ASSUME B # {} PROVE FALSE
    OBVIOUS
  <2>2. PICK k \in B : \A j \in B : k <= j
    <3>1. B \in SUBSET Nat
      BY <1>1, <1>7
    <3> QED
      BY <2>1, <3>1, LeastNatural
  <2>3. k # 0 /\ k - 1 \in 0 .. m - 1 /\ Take[k - 1] = Take[0]
    BY <1>1, <1>7, <2>2
  <2>4. Goes(k - 1) /\ k - 1 \in 0 .. n
    BY <1>1, <1>7, <2>3
  <2>5. Take[k - 1] = Take[(k - 1) + 1]
    BY <1>6, <2>4
  <2> QED
    BY <1>1, <1>7, <2>2, <2>3, <2>5
<1>9. Take[0] = m /\ m \in 0 .. n
  BY <1>1, <1>6, <1>7, <1>8
<1>10. m = n \/ ~(Bytes(SubSeq(b, 1, m + 1)) <= MaxBytes)
  BY <1>1, <1>7 DEF Goes
<1>11. m = 0 \/ Bytes(SubSeq(b, 1, m)) <= MaxBytes
  <2>1. CASE m # 0
    <3>1. Goes(m - 1) /\ (m - 1) + 1 = m
      BY <1>1, <1>7, <2>1
    <3> QED
      BY <3>1 DEF Goes
  <2> QED
    BY <2>1
<1> QED
  BY <1>2, <1>9, <1>10, <1>11 DEF n

\* What TruncateUTF8 promises of any body.
LEMMA TruncateIsLongest ==
  ASSUME NEW b \in Seq(1 .. 4)
  PROVE  /\ IsPrefix(TruncateUTF8(b), b)
         /\ Bytes(TruncateUTF8(b)) <= MaxBytes
         /\ TruncateUTF8(b) # b =>
              Bytes(SubSeq(b, 1, Len(TruncateUTF8(b)) + 1)) > MaxBytes
<1>0. MaxBytes \in Nat /\ Len(b) \in Nat
  BY ClientAssumption
<1>1. CASE Bytes(b) <= MaxBytes
  <2>1. TruncateUTF8(b) = b
    BY <1>1, Zenon DEF TruncateUTF8
  <2> QED
    BY <1>0, <1>1, <2>1 DEF IsPrefix
<1>2. CASE ~(Bytes(b) <= MaxBytes)
  <2>1. PICK k \in 0 .. Len(b) :
          /\ TruncateUTF8(b) = SubSeq(b, 1, k)
          /\ k = Len(b) \/ ~(Bytes(SubSeq(b, 1, k + 1)) <= MaxBytes)
          /\ k = 0 \/ Bytes(SubSeq(b, 1, k)) <= MaxBytes
    BY <1>2, Truncated
  <2> DEFINE cut == SubSeq(b, 1, k)
  <2>2. cut \in Seq(1 .. 4) /\ Len(cut) = k /\ \A i \in 1 .. k : cut[i] = b[i]
    BY <1>0
  <2>3. IsPrefix(cut, b)
    <3>1. SubSeq(cut, 1, k) = SubSeq(b, 1, k)
      BY <1>0, <2>2
    <3> QED
      BY <1>0, <2>2, <3>1 DEF IsPrefix
  <2>4. Bytes(cut) <= MaxBytes
    <3>1. k = 0 => cut = <<>>
      BY <2>2
    <3>2. k = 0 => Bytes(cut) = 0
      BY <2>2, <3>1, BytesNatural
    <3> QED
      BY <1>0, <2>1, <3>2
  <2>5. ASSUME cut # b PROVE Bytes(SubSeq(b, 1, Len(cut) + 1)) > MaxBytes
    <3>1. k < Len(b)
      <4>1. k = Len(b) => cut = b
        BY <1>0
      <4> QED
        BY <1>0, <2>5, <4>1
    <3>2. SubSeq(b, 1, k + 1) \in Seq(1 .. 4)
      BY <1>0, <3>1
    <3>3. Bytes(SubSeq(b, 1, k + 1)) \in Nat
      BY <3>2, BytesNatural
    <3> QED
      BY <1>0, <2>1, <2>2, <3>1, <3>3
  <2> QED
    BY <2>1, <2>3, <2>4, <2>5
<1> QED
  BY <1>1, <1>2

\* The text is that of a body, cut as TruncateUTF8 cuts it.
CutBody == \E b \in Seq(1 .. 4) : text = <<b, TruncateUTF8(b)>>

\* The text of an error is cut by truncateBody in every reachable state.
LEMMA CutBodyInvariance == Spec => []CutBody
<1>1. Init => CutBody
  <2>1. <<>> \in Seq(1 .. 4) /\ Bytes(<<>>) <= MaxBytes
    <3>1. <<>> \in Seq(1 .. 4)
      OBVIOUS
    <3>2. Bytes(<<>>) = 0
      BY <3>1, BytesNatural
    <3> QED
      BY <3>1, <3>2, ClientAssumption
  <2>2. TruncateUTF8(<<>>) = <<>>
    BY <2>1, Zenon DEF TruncateUTF8
  <2> QED
    BY <2>1, <2>2 DEF Init, CutBody
<1>2. CutBody /\ [Next]_vars => CutBody'
  <2> SUFFICES ASSUME CutBody, [Next]_vars PROVE CutBody'
    OBVIOUS
  <2>1. text' = text \/ \E b \in Bodies : text' = <<b, TruncateUTF8(b)>>
    <3>1. ASSUME NEW err, NEW code, EndAttempt(err, code)
          PROVE  text' = text \/ \E b \in Bodies : text' = <<b, TruncateUTF8(b)>>
      BY <3>1, Zenon DEF EndAttempt, ReturnAnswer
    <3>2. CASE \E err, code : EndAttempt(err, code)
      BY <3>1, <3>2
    <3>3. CASE UNCHANGED text
      BY <3>3
    <3> QED
      BY <3>2, <3>3, Zenon
      DEF Next, Client, vars, RejectResult, Call, Begin, BeginRefused, Unbuilt, Answer,
          BrokenAnswer, Refused, Broken, Timeout, Aborted, Wake, BackoffAborted, CtxEnds,
          Write, Execute, Lose
  <2> QED
    BY <2>1, ClientAssumption, Zenon DEF CutBody
<1> QED
  BY <1>1, <1>2, PTL DEF Spec

\* The text of an HTTP error is the longest prefix of whole runes of the body
\* that fits, for every limit and every body (client.go:313-319,
\* util/common.go:30-43).
THEOREM LongestPrefix == Spec => []ErrorTextIsLongestPrefix
<1>1. CutBody => ErrorTextIsLongestPrefix
  <2> SUFFICES ASSUME NEW b \in Seq(1 .. 4), text = <<b, TruncateUTF8(b)>>
               PROVE  ErrorTextIsLongestPrefix
    BY DEF CutBody
  <2>1. text[1] = b /\ text[2] = TruncateUTF8(b)
    OBVIOUS
  <2> QED
    BY <2>1, TruncateIsLongest, Zenon DEF ErrorTextIsLongestPrefix
<1> QED
  BY <1>1, CutBodyInvariance, PTL

-----------------------------------------------------------------------------
(* What CallReturns rests on: a call has so much work left, and no more.   *)

\* Steps the client has left: three for each attempt still allowed.
Work ==
  IF pc = "returned" THEN 0
  ELSE 3 * (retries - attempt) + [idle |-> 4, request |-> 3, wait |-> 5, backoff |-> 4][pc]

\* Whatever server, network and ctx do, a step of the call lowers the work that
\* is left and no step of theirs adds to it: attempts and waits end after
\* RetryCount repetitions (client.go:117-120, 208).
THEOREM CallIsBounded ==
  Spec => /\ [](Work \in 0 .. 3 * MaxAttempts + 1)
          /\ [][Work' < Work \/ UNCHANGED <<pc, attempt>>]_vars
<1>1. HttpInv => Work \in 0 .. 3 * MaxAttempts + 1
  <2> SUFFICES ASSUME HttpInv PROVE Work \in 0 .. 3 * MaxAttempts + 1
    OBVIOUS
  <2>1. /\ pc \in {"idle", "request", "wait", "backoff", "returned"}
        /\ retries \in 1 .. MaxAttempts - 1 /\ attempt \in 0 .. retries + 1
        /\ pc \in {"idle", "request", "backoff"} => attempt <= retries
        /\ pc = "wait" => attempt > 0
    BY DEF HttpInv, TypeOK, InOrder
  <2> QED
    BY <2>1, ClientAssumption DEF Work
<1>2. HttpInv /\ [Next]_vars => [Work' < Work \/ UNCHANGED <<pc, attempt>>]_vars
  <2> SUFFICES ASSUME HttpInv, Next
               PROVE  Work' < Work \/ UNCHANGED <<pc, attempt>>
    BY Zenon
  <2>1. /\ pc \in {"idle", "request", "wait", "backoff", "returned"}
        /\ retries \in Nat /\ attempt \in Nat /\ attempt <= retries + 1
        /\ pc \in {"idle", "request", "backoff"} => attempt <= retries
    BY ClientAssumption DEF HttpInv, TypeOK, InOrder
  <2>2. CASE RejectResult \/ Unbuilt \/ BackoffAborted \/ Call \/ Wake
    BY <2>1, <2>2 DEF RejectResult, Unbuilt, BackoffAborted, Call, Wake, Return, Work
  <2>3. CASE Begin \/ BeginRefused
    BY <2>1, <2>3 DEF Begin, BeginRefused, Return, Work
  <2>4. ASSUME NEW err, NEW code, EndAttempt(err, code) PROVE Work' < Work
    <3>1. pc = "wait" /\ pc' \in {"returned", "backoff"} /\ UNCHANGED <<retries, attempt>>
      BY <2>4 DEF EndAttempt, ReturnAnswer, Return
    <3> QED
      BY <2>1, <3>1 DEF Work
  <2>5. ASSUME NEW a \in Attempts, Write(a) \/ Execute(a) \/ Lose(a)
               PROVE  UNCHANGED <<pc, attempt>>
    BY <2>5 DEF Write, Execute, Lose
  <2>6. CASE CtxEnds
    BY <2>6 DEF CtxEnds
  <2> QED
    BY <2>2, <2>3, <2>4, <2>5, <2>6, Zenon
    DEF Next, Client, Answer, BrokenAnswer, Refused, Broken, Timeout, Aborted
<1> QED
  BY <1>1, <1>2, HttpInvariance, PTL DEF Spec
=============================================================================
