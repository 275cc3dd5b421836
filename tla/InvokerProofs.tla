--------------------------- MODULE InvokerProofs ----------------------------
(* For any number of payloads and processes: the BatchedLambdaInvoker never  *)
(* overlooks a payload, and has none twice, but what AWS runs again.         *)
EXTENDS BatchedLambdaInvoker, FiniteSetTheorems, TLAPS

(* Facts about the integer division of the code's ceil().                    *)
LEMMA DivBounds ==
    ASSUME NEW a \in Nat, NEW b \in Nat \ {0}
    PROVE  /\ a \div b \in Nat
           /\ b * (a \div b) <= a
           /\ a < b * (a \div b) + b
  BY Z3

LEMMA MulStrict ==
    ASSUME NEW c \in Nat \ {0}, NEW q \in Nat, NEW m \in Nat, c * q < c * m
    PROVE  q < m
<1>1. SUFFICES ASSUME m <= q PROVE FALSE
  OBVIOUS
<1>2. c * m <= c * q
  BY <1>1, Z3
<1> QED
  BY <1>2, Z3

(* A batch is never divided into more chunks than there are processes plus   *)
(* the Scheduler: lambda_pipes[invoker_index] of _background_send is always  *)
(* in range.                                                                 *)
THEOREM ChunksFitPipes ==
    ASSUME NEW s \in Seq(Payloads), s # <<>>
    PROVE  Len(Chunks(s)) <= NumInvokers + 1
<1> DEFINE n == Len(s)
           m == NumInvokers + 1
           c == (n + NumInvokers) \div m
           q == (n + c - 1) \div c
<1>1. n \in Nat /\ n > 0 /\ m \in Nat \ {0} /\ NumInvokers \in Nat
  BY InvokerAssumption
<1> HIDE DEF n
<1>2. c \in Nat /\ n + NumInvokers < m * c + m
  BY <1>1, DivBounds, n + NumInvokers \in Nat
<1> HIDE DEF c
<1>3. n <= m * c
  BY <1>1, <1>2, Z3
<1>4. c # 0
  BY <1>1, <1>2, <1>3, Z3
<1>5. q \in Nat /\ c * q <= n + c - 1
  BY <1>1, <1>2, <1>4, DivBounds, n + c - 1 \in Nat, c \in Nat \ {0}
<1> HIDE DEF q
<1>6. c * q < c * (m + 1)
  BY <1>1, <1>2, <1>3, <1>5, Z3
<1>7. q < m + 1
  BY <1>1, <1>2, <1>4, <1>5, <1>6, MulStrict
<1>8. Chunks(s) = [k \in 1..q |-> SubSeq(s, (k - 1) * c + 1, IF k * c < n THEN k * c ELSE n)]
  BY DEF Chunks, Slices, ChunkSize, n, c, q
<1>9. Len(Chunks(s)) = q
  BY <1>5, <1>8
<1> QED
  BY <1>1, <1>5, <1>7, <1>9

(* The flags of the coroutine have their types: what the wake-up argument    *)
(* needs of TypeOK.                                                          *)
FlagsOK ==
    /\ waker \in BOOLEAN
    /\ deadline \in {"none", "ahead", "passed"}
    /\ pleaseStop \in BOOLEAN

(* _background_send never waits on a non-empty buffer without having been    *)
(* woken or having a deadline, so no payload given to send() is overlooked:  *)
(* every step that fills the buffer sets the waker or finds a deadline, and  *)
(* every step that removes the deadline or clears the waker either has found *)
(* the buffer empty or leaves a deadline behind.                             *)
THEOREM WakeupTheorem == Spec => []NoLostWakeup
<1> DEFINE Inv == FlagsOK /\ NoLostWakeup
<1>1. Init => Inv
  BY DEF Init, FlagsOK, NoLostWakeup
<1>2. Inv /\ [Next]_vars => Inv'
  <2> SUFFICES ASSUME Inv, [Next]_vars PROVE Inv'
    OBVIOUS
  <2> USE DEF FlagsOK, NoLostWakeup
  <2>1. ASSUME NEW p \in Payloads, Send(p) PROVE Inv'
    BY <2>1 DEF Send, WakeLoop
  <2>2. CASE DeadlinePasses
    BY <2>2 DEF DeadlinePasses
  <2>3. CASE NothingToSend
    BY <2>3 DEF NothingToSend
  <2>4. CASE TooEarly
    BY <2>4 DEF TooEarly
  <2>5. CASE SendBatch \/ SendBatchFails \/ SendOnBrokenPipe
    BY <2>5 DEF SendBatch, SendBatchFails, SendOnBrokenPipe, NextDeadline
  <2>6. CASE Close \/ Abort
    BY <2>6 DEF Close, Abort, Stop
  <2>7. ASSUME NEW i \in Processes, ProcessStep(i) \/ ProcessFails(i) PROVE Inv'
    BY <2>7 DEF ProcessStep, Receive, InvokeNext, ProcessFails, local
  <2>8. ASSUME NEW l \in lambdas, InvokerLambda(l) PROVE Inv'
    BY <2>8 DEF InvokerLambda, InvokerLambdaInvokes, InvokerLambdaReturns, InvokerLambdaFails,
                local
  <2>9. CASE UNCHANGED vars
    BY <2>9 DEF vars, local
  <2> QED
    BY <2>1, <2>2, <2>3, <2>4, <2>5, <2>6, <2>7, <2>8, <2>9 DEF Next, BackgroundSend
<1>3. Inv => NoLostWakeup
  OBVIOUS
<1> QED
  BY <1>1, <1>2, <1>3, PTL DEF Spec
-----------------------------------------------------------------------------
(* Dividing a sequence: slices have every element once.                      *)
NoTwice(s) == \A i, j \in DOMAIN s : s[i] = s[j] => i = j
Apart(q) ==
    /\ \A k \in DOMAIN q : NoTwice(q[k])
    /\ \A k, l \in DOMAIN q : k # l => ToSet(q[k]) \cap ToSet(q[l]) = {}
AllOf(q) == UNION {ToSet(q[k]) : k \in DOMAIN q}

LEMMA MulMono ==
    ASSUME NEW c \in Nat, NEW a \in Int, NEW b \in Int, a <= b
    PROVE  a * c <= b * c
  BY Z3

LEMMA SliceBounds ==
    ASSUME NEW n \in Nat, NEW size \in Nat \ {0}, NEW k \in 1..((n + size - 1) \div size)
    PROVE  /\ (k - 1) * size \in Nat /\ (k - 1) * size < n
           /\ k * size = (k - 1) * size + size
<1> DEFINE m == (n + size - 1) \div size
<1>1. m \in Nat /\ size * m <= n + size - 1
  BY DivBounds, n + size - 1 \in Nat
<1>2. k \in Int /\ k <= m /\ k >= 1
  BY <1>1
<1> HIDE DEF m
<1>3. k * size <= m * size
  BY <1>1, <1>2, MulMono
<1>4. k * size = (k - 1) * size + size /\ m * size = size * m /\ (k - 1) * size \in Nat
  BY <1>1, <1>2, Z3
<1>5. (k - 1) * size < n
  BY <1>1, <1>3, <1>4, m * size \in Int, size * m \in Int
<1> QED
  BY <1>4, <1>5

LEMMA SliceElements ==
    ASSUME NEW S, NEW s \in Seq(S), NEW size \in Nat \ {0}, NEW k \in DOMAIN Slices(s, size)
    PROVE  /\ Slices(s, size)[k] \in Seq(S) /\ Slices(s, size)[k] # <<>>
           /\ \A j \in DOMAIN Slices(s, size)[k] :
                 /\ j \in 1..size /\ (k - 1) * size + j \in DOMAIN s
                 /\ Slices(s, size)[k][j] = s[(k - 1) * size + j]
           /\ \A x \in DOMAIN s : (k - 1) * size < x /\ x <= (k - 1) * size + size
                  => x - (k - 1) * size \in DOMAIN Slices(s, size)[k]
<1> DEFINE n == Len(s)
           m == (n + size - 1) \div size
           lo == (k - 1) * size
           hi == IF k * size < n THEN k * size ELSE n
           t == SubSeq(s, lo + 1, hi)
<1>1. n \in Nat /\ DOMAIN s = 1..n
  OBVIOUS
<1>2. k \in 1..m /\ Slices(s, size)[k] = t
  BY DEF Slices
<1>3. lo \in Nat /\ lo < n /\ k * size = lo + size
  BY <1>1, <1>2, SliceBounds
<1> HIDE DEF lo, m
<1>4. hi \in Nat /\ lo < hi /\ hi <= n /\ hi <= lo + size /\ (hi = n \/ hi = lo + size)
  BY <1>1, <1>3
<1> HIDE DEF hi, n
<1>5. t \in Seq(S) /\ DOMAIN t = 1..(hi - lo) /\ \A j \in 1..(hi - lo) : t[j] = s[lo + j]
  BY <1>1, <1>3, <1>4
<1> HIDE DEF t
<1>6. t # <<>>
  <2>1. 1 \in DOMAIN t
    BY <1>3, <1>4, <1>5
  <2> QED
    BY <2>1
<1>7. \A j \in DOMAIN t : j \in 1..size /\ lo + j \in DOMAIN s /\ t[j] = s[lo + j]
  BY <1>1, <1>3, <1>4, <1>5
<1>8. \A x \in DOMAIN s : lo < x /\ x <= lo + size => x - lo \in DOMAIN t
  BY <1>1, <1>3, <1>4, <1>5
<1> QED
  BY <1>2, <1>5, <1>6, <1>7, <1>8 DEF lo

LEMMA SlicesSplit ==
    ASSUME NEW S, NEW s \in Seq(S), NEW size \in Nat \ {0}
    PROVE  /\ Slices(s, size) \in Seq(Seq(S))
           /\ NoTwice(s) => Apart(Slices(s, size))
           /\ AllOf(Slices(s, size)) = ToSet(s)
<1> DEFINE n == Len(s)
           m == (n + size - 1) \div size
           q == Slices(s, size)
           f(k) == q[k]
<1>1. n \in Nat /\ DOMAIN s = 1..n /\ n + size - 1 \in Nat
  OBVIOUS
<1>2. m \in Nat /\ n + size - 1 < size * m + size
  BY <1>1, DivBounds
<1>3. DOMAIN q = 1..m
  BY DEF Slices
<1>4. \A k \in 1..m : q[k] \in Seq(S)
  BY <1>3, SliceElements
<1>5. q \in Seq(Seq(S))
  <2> DEFINE g(k) == SubSeq(s, (k - 1) * size + 1, IF k * size < n THEN k * size ELSE n)
             r == [k \in 1..m |-> g(k)]
  <2>1. q = r
    BY DEF Slices
  <2>2. \A k \in 1..m : g(k) \in Seq(S)
    BY <1>4, <2>1
  <2> HIDE DEF g, q, m
  <2>3. r \in Seq(Seq(S))
    BY <1>2, <2>2
  <2> QED
    BY <2>1, <2>3
<1> HIDE DEF m, q
<1>6. ASSUME NEW k \in DOMAIN q, NEW j \in DOMAIN q[k], NEW l \in DOMAIN q, NEW i \in DOMAIN q[l],
             NoTwice(s), q[k][j] = q[l][i]
      PROVE  k = l /\ j = i
  <2> DEFINE a == (k - 1) * size
             b == (l - 1) * size
  <2>1. /\ j \in 1..size /\ a + j \in DOMAIN s /\ q[k][j] = s[a + j]
        /\ i \in 1..size /\ b + i \in DOMAIN s /\ q[l][i] = s[b + i]
    BY SliceElements DEF q
  <2>2. a + j = b + i
    BY <1>6, <2>1 DEF NoTwice
  <2>3. k \in Int /\ l \in Int /\ a \in Int /\ b \in Int
    BY <1>2, <1>3
  <2>4. k < l => a + size <= b
    <3>1. k < l => k * size <= (l - 1) * size
      BY <2>3, MulMono, l - 1 \in Int, k < l => k <= l - 1
    <3>2. k * size = a + size
      BY <2>3, Z3
    <3> QED
      BY <3>1, <3>2
  <2>5. l < k => b + size <= a
    <3>1. l < k => l * size <= (k - 1) * size
      BY <2>3, MulMono, k - 1 \in Int, l < k => l <= k - 1
    <3>2. l * size = b + size
      BY <2>3, Z3
    <3> QED
      BY <3>1, <3>2
  <2> HIDE DEF a, b
  <2>6. k = l
    BY <2>1, <2>2, <2>3, <2>4, <2>5
  <2>7. a = b
    BY <2>6 DEF a, b
  <2> QED
    BY <2>1, <2>2, <2>3, <2>6, <2>7
<1>7. NoTwice(s) => Apart(q)
  BY <1>6 DEF Apart, NoTwice, ToSet
<1>8. ASSUME NEW x \in DOMAIN s
      PROVE  \E k \in DOMAIN q : s[x] \in ToSet(q[k])
  <2> DEFINE d == (x - 1) \div size
  <2>1. x - 1 \in Nat /\ x - 1 <= n - 1
    BY <1>1
  <2>2. d \in Nat /\ size * d <= x - 1 /\ x - 1 < size * d + size
    BY <2>1, DivBounds
  <2> HIDE DEF d
  <2>3. size * d < size * m
    BY <1>1, <1>2, <2>1, <2>2, size * d \in Int, size * m \in Int
  <2>4. d < m
    BY <1>2, <2>2, <2>3, MulStrict
  <2> DEFINE k == d + 1
             a == (k - 1) * size
  <2>5. k \in DOMAIN q
    BY <1>2, <1>3, <2>2, <2>4
  <2>6. a = size * d
    BY <2>2, Z3
  <2>7. a \in Int /\ a < x /\ x <= a + size /\ x \in Int
    BY <1>1, <2>2, <2>6
  <2>8. x - a \in DOMAIN q[k]
    BY <2>5, <2>7, SliceElements DEF q
  <2>9. q[k][x - a] = s[a + (x - a)]
    BY <2>5, <2>8, SliceElements DEF q
  <2>10. a + (x - a) = x
    <3> HIDE DEF a
    <3> QED
      BY <2>7
  <2> QED
    BY <2>5, <2>8, <2>9, <2>10 DEF ToSet
<1>9. ASSUME NEW k \in DOMAIN q, NEW j \in DOMAIN q[k]
      PROVE  q[k][j] \in ToSet(s)
  BY SliceElements DEF q, ToSet
<1>10. AllOf(q) = ToSet(s)
  BY <1>8, <1>9 DEF AllOf, ToSet
<1> QED
  BY <1>5, <1>7, <1>10 DEF q
-----------------------------------------------------------------------------
(* Calls, and messages, which are sequences of calls.                        *)
PayloadsOf(calls) == [k \in DOMAIN calls |-> calls[k].payloads]
Elems(calls) == AllOf(PayloadsOf(calls))
Distinct(calls) == Apart(PayloadsOf(calls))
AllElems(ms) == UNION {Elems(ms[n]) : n \in DOMAIN ms}
MessagesApart(ms) ==
    /\ \A n \in DOMAIN ms : Distinct(ms[n])
    /\ \A n, m \in DOMAIN ms : n # m => Elems(ms[n]) \cap Elems(ms[m]) = {}

LEMMA CallsSplit ==
    ASSUME NEW s \in Seq(Payloads), NEW many \in BOOLEAN
    PROVE  /\ Calls(s, many) \in Seq(Call)
           /\ NoTwice(s) => Distinct(Calls(s, many))
           /\ Elems(Calls(s, many)) = ToSet(s)
<1> DEFINE size == IF many THEN PerInvoker ELSE 1
           q == Slices(s, size)
           c == Calls(s, many)
<1>1. size \in Nat \ {0}
  BY InvokerAssumption
<1> HIDE DEF size
<1>2. /\ q \in Seq(Seq(Payloads)) /\ (NoTwice(s) => Apart(q)) /\ AllOf(q) = ToSet(s)
  BY <1>1, SlicesSplit
<1>3. c = [k \in DOMAIN q |-> [many |-> many, payloads |-> q[k]]]
  BY DEF Calls, size
<1> HIDE DEF q, c
<1>4. PayloadsOf(c) = q
  BY <1>2, <1>3 DEF PayloadsOf
<1>5. \A k \in DOMAIN q : [many |-> many, payloads |-> q[k]] \in Call
  BY <1>2 DEF Call
<1>6. c \in Seq(Call)
  BY <1>2, <1>3, <1>5
<1> QED
  BY <1>2, <1>4, <1>6 DEF Distinct, Elems, c

LEMMA ChunkSizeOK ==
    ASSUME NEW s \in Seq(Payloads), s # <<>>
    PROVE  ChunkSize(s) \in Nat \ {0}
<1> DEFINE n == Len(s)
           m == NumInvokers + 1
           c == (n + NumInvokers) \div m
<1>1. n \in Nat /\ n > 0 /\ m \in Nat \ {0} /\ NumInvokers \in Nat
  BY InvokerAssumption
<1> HIDE DEF n
<1>2. c \in Nat /\ n + NumInvokers < m * c + m
  BY <1>1, DivBounds, n + NumInvokers \in Nat
<1> HIDE DEF c
<1>3. c # 0
  BY <1>1, <1>2, Z3
<1> QED
  BY <1>2, <1>3 DEF ChunkSize, c, n

LEMMA ChunksSplit ==
    ASSUME NEW s \in Seq(Payloads), s # <<>>
    PROVE  /\ Chunks(s) \in Seq(Seq(Payloads)) /\ Chunks(s) # <<>>
           /\ NoTwice(s) => Apart(Chunks(s))
           /\ AllOf(Chunks(s)) = ToSet(s)
           /\ \A k \in DOMAIN Chunks(s) : Chunks(s)[k] # <<>>
<1>1. ChunkSize(s) \in Nat \ {0}
  BY ChunkSizeOK
<1>2. /\ Chunks(s) \in Seq(Seq(Payloads))
      /\ NoTwice(s) => Apart(Chunks(s))
      /\ AllOf(Chunks(s)) = ToSet(s)
  BY <1>1, SlicesSplit DEF Chunks
<1>3. Chunks(s) # <<>>
  <2>1. s[1] \in ToSet(s)
    BY DEF ToSet
  <2> QED
    BY <1>2, <2>1 DEF AllOf
<1>4. \A k \in DOMAIN Slices(s, ChunkSize(s)) : Slices(s, ChunkSize(s))[k] # <<>>
  BY <1>1, SliceElements
<1> QED
  BY <1>2, <1>3, <1>4 DEF Chunks

(* Part of a message; the head and the rest.                                 *)
LEMMA CallsElems ==
    ASSUME NEW calls
    PROVE  /\ Elems(calls) = UNION {ToSet(calls[k].payloads) : k \in DOMAIN calls}
           /\ Distinct(calls) <=>
                 /\ \A k \in DOMAIN calls : NoTwice(calls[k].payloads)
                 /\ \A k, l \in DOMAIN calls :
                       k # l => ToSet(calls[k].payloads) \cap ToSet(calls[l].payloads) = {}
BY DEF Elems, Distinct, Apart, AllOf, PayloadsOf

LEMMA FirstCalls ==
    ASSUME NEW calls \in Seq(Call), Distinct(calls), NEW n \in 0..Len(calls)
    PROVE  /\ SubSeq(calls, 1, n) \in Seq(Call) /\ Distinct(SubSeq(calls, 1, n))
           /\ Elems(SubSeq(calls, 1, n)) \subseteq Elems(calls)
<1> DEFINE t == SubSeq(calls, 1, n)
<1>1. t \in Seq(Call) /\ \A k \in DOMAIN t : k \in DOMAIN calls /\ t[k] = calls[k]
  OBVIOUS
<1> HIDE DEF t
<1>2. Distinct(t)
  BY <1>1, CallsElems
<1>3. Elems(t) \subseteq Elems(calls)
  BY <1>1, CallsElems
<1> QED
  BY <1>1, <1>2, <1>3 DEF t

LEMMA HeadAndTail ==
    ASSUME NEW calls \in Seq(Call), Distinct(calls), calls # <<>>
    PROVE  /\ <<Head(calls)>> \in Seq(Call) /\ Tail(calls) \in Seq(Call)
           /\ Distinct(<<Head(calls)>>) /\ Distinct(Tail(calls))
           /\ Elems(calls) = Elems(<<Head(calls)>>) \cup Elems(Tail(calls))
           /\ Elems(<<Head(calls)>>) \cap Elems(Tail(calls)) = {}
<1> DEFINE h == <<Head(calls)>>
           t == Tail(calls)
<1>1. /\ 1 \in DOMAIN calls /\ h \in Seq(Call) /\ DOMAIN h = {1} /\ h[1] = calls[1]
      /\ t \in Seq(Call)
  OBVIOUS
<1>2. \A k \in DOMAIN t : k + 1 \in DOMAIN calls /\ t[k] = calls[k + 1] /\ k + 1 # 1 /\ k \in Int
  OBVIOUS
<1>3. \A k \in DOMAIN calls : k = 1 \/ (k - 1 \in DOMAIN t /\ t[k - 1] = calls[k])
  OBVIOUS
<1> HIDE DEF h, t
<1>4. Distinct(h)
  BY <1>1, CallsElems
<1>5. Distinct(t)
  <2>1. \A k, l \in DOMAIN t : k # l => k + 1 # l + 1
    BY <1>2
  <2> QED
    BY <1>2, <2>1, CallsElems
<1>6. Elems(h) = ToSet(calls[1].payloads)
  <2>1. Elems(h) = UNION {ToSet(h[k].payloads) : k \in DOMAIN h}
    BY CallsElems
  <2>2. UNION {ToSet(h[k].payloads) : k \in {1}} = ToSet(h[1].payloads)
    OBVIOUS
  <2> QED
    BY <1>1, <2>1, <2>2
<1>7. Elems(calls) = Elems(h) \cup Elems(t)
  <2>1. Elems(calls) \subseteq Elems(h) \cup Elems(t)
    BY <1>3, <1>6, CallsElems
  <2>2. Elems(t) \subseteq Elems(calls)
    BY <1>2, CallsElems
  <2>3. Elems(h) \subseteq Elems(calls)
    BY <1>1, <1>6, CallsElems
  <2> QED
    BY <2>1, <2>2, <2>3
<1>8. Elems(h) \cap Elems(t) = {}
  <2>1. SUFFICES ASSUME NEW e \in Elems(h), e \in Elems(t) PROVE FALSE
    OBVIOUS
  <2>2. PICK k \in DOMAIN t : e \in ToSet(t[k].payloads)
    BY <2>1, CallsElems
  <2>3. ToSet(calls[k + 1].payloads) \cap ToSet(calls[1].payloads) = {}
    BY <1>1, <1>2, CallsElems
  <2> QED
    BY <1>2, <1>6, <2>1, <2>2, <2>3
<1> QED
  BY <1>1, <1>4, <1>5, <1>7, <1>8 DEF h, t

(* Messages of a process: one more, and one changed.                         *)
LEMMA OneMoreMessage ==
    ASSUME NEW ms \in Seq(Seq(Call)), MessagesApart(ms), NEW m \in Seq(Call), Distinct(m),
           Elems(m) \cap AllElems(ms) = {}
    PROVE  MessagesApart(Append(ms, m)) /\ AllElems(Append(ms, m)) = AllElems(ms) \cup Elems(m)
<1> DEFINE u == Append(ms, m)
           n == Len(ms)
<1>1. /\ DOMAIN u = DOMAIN ms \cup {n + 1} /\ n + 1 \notin DOMAIN ms
      /\ u[n + 1] = m /\ \A k \in DOMAIN ms : u[k] = ms[k]
  OBVIOUS
<1> HIDE DEF u, n
<1>2. AllElems(u) = AllElems(ms) \cup Elems(m)
  BY <1>1 DEF AllElems
<1>3. \A k \in DOMAIN ms : Elems(ms[k]) \subseteq AllElems(ms)
  BY DEF AllElems
<1>4. MessagesApart(u)
  BY <1>1, <1>3 DEF MessagesApart
<1> QED
  BY <1>2, <1>4 DEF u

LEMMA FirstMessageChanged ==
    ASSUME NEW w \in Seq(Call), NEW v \in Seq(Call), NEW ms \in Seq(Seq(Call)),
           MessagesApart(<<w>> \o ms), Distinct(v), Elems(v) \subseteq Elems(w)
    PROVE  /\ MessagesApart(<<v>> \o ms)
           /\ AllElems(<<w>> \o ms) = Elems(w) \cup AllElems(ms)
           /\ AllElems(<<v>> \o ms) = Elems(v) \cup AllElems(ms)
           /\ Elems(w) \cap AllElems(ms) = {}
<1> DEFINE p == <<w>> \o ms
           q == <<v>> \o ms
<1>1. /\ 1 \in DOMAIN p /\ p[1] = w /\ 1 \in DOMAIN q /\ q[1] = v /\ DOMAIN p = DOMAIN q
  OBVIOUS
<1>2. \A k \in DOMAIN p : k = 1 \/ (k - 1 \in DOMAIN ms /\ p[k] = ms[k - 1] /\ q[k] = ms[k - 1])
  OBVIOUS
<1>3. \A k \in DOMAIN ms : k + 1 # 1 /\ k + 1 \in DOMAIN p /\ p[k + 1] = ms[k] /\ q[k + 1] = ms[k]
  OBVIOUS
<1> HIDE DEF p, q
<1>4. \A k \in DOMAIN p : k # 1 => q[k] = p[k]
  BY <1>2
<1>5. MessagesApart(q)
  <2>1. /\ \A k \in DOMAIN p : Distinct(p[k])
        /\ \A k, l \in DOMAIN p : k # l => Elems(p[k]) \cap Elems(p[l]) = {}
    BY DEF MessagesApart, p
  <2>2. \A k \in DOMAIN q : Distinct(q[k]) /\ Elems(q[k]) \subseteq Elems(p[k])
    BY <1>1, <1>4, <2>1
  <2>3. \A k, l \in DOMAIN q : k # l => Elems(q[k]) \cap Elems(q[l]) = {}
    BY <1>1, <2>1, <2>2
  <2> QED
    BY <2>2, <2>3 DEF MessagesApart
<1>6. AllElems(p) = Elems(w) \cup AllElems(ms) /\ AllElems(q) = Elems(v) \cup AllElems(ms)
  <2>1. AllElems(p) \subseteq Elems(w) \cup AllElems(ms)
    BY <1>1, <1>2 DEF AllElems
  <2>2. AllElems(q) \subseteq Elems(v) \cup AllElems(ms)
    BY <1>1, <1>2 DEF AllElems
  <2>3. Elems(w) \subseteq AllElems(p) /\ Elems(v) \subseteq AllElems(q)
    BY <1>1 DEF AllElems
  <2>4. AllElems(ms) \subseteq AllElems(p) /\ AllElems(ms) \subseteq AllElems(q)
    BY <1>1, <1>3 DEF AllElems
  <2> QED
    BY <2>1, <2>2, <2>3, <2>4
<1>7. Elems(w) \cap AllElems(ms) = {}
  <2>1. \A k \in DOMAIN ms : Elems(p[1]) \cap Elems(p[k + 1]) = {}
    BY <1>1, <1>3 DEF MessagesApart, p
  <2> QED
    BY <1>1, <1>3, <2>1 DEF AllElems
<1> QED
  BY <1>5, <1>6, <1>7 DEF p, q
-----------------------------------------------------------------------------
(* Where the payloads are, as sets: carried by a process, in an event of an  *)
(* Invoker Lambda, invoked.                                                  *)
Carried(i) == AllElems(Messages(i))
InPipes == UNION {Carried(i) : i \in Processes}
InLambdas == UNION {ToSet(l.payloads) : l \in lambdas}
Done == {p \in Payloads : invoked[p] # 0}
Given == InLambdas \cup Done \cup dropped

PipesOK ==
    /\ \A i \in Processes : MessagesApart(Messages(i))
    /\ \A i, j \in Processes : i # j => Carried(i) \cap Carried(j) = {}

(* What an Invoker Lambda has invoked of its payloads, in this attempt and   *)
(* in those before.                                                          *)
EventOK(l) ==
    /\ NoTwice(l.payloads) /\ l.done <= Len(l.payloads)
    /\ \A j \in DOMAIN l.payloads :
          /\ j <= l.done => 0 < invoked[l.payloads[j]]
                            /\ invoked[l.payloads[j]] <= l.attempt + 1
          /\ l.done < j => /\ invoked[l.payloads[j]] <= l.attempt
                           /\ l.payloads[j] \in rerun \/ invoked[l.payloads[j]] = 0
GivenOK ==
    /\ \A l \in lambdas : EventOK(l)
    /\ \A l, m \in lambdas : l # m => ToSet(l.payloads) \cap ToSet(m.payloads) = {}
    /\ \A p \in Payloads : /\ invoked[p] <= Retries + 1
                           /\ p \in rerun \/ invoked[p] <= 1
    /\ rerun \subseteq Done
PlacesOK ==
    /\ ToSet(buffer) \cap InPipes = {}
    /\ ToSet(buffer) \cap Given = {}
    /\ InPipes \cap Given = {}
    /\ ToSet(buffer) \cup InPipes \cup Given \subseteq sent
    /\ ~Disturbed => sent \subseteq ToSet(buffer) \cup InPipes \cup Given

(* The inductive invariant: the buffer, the processes and what was given to  *)
(* Invoker Lambdas and Executors have no payload in common, and none has one *)
(* twice; an Invoker Lambda has invoked what it has done, once per attempt;  *)
(* and they have all that was sent, until something fails.                   *)
OneEach == TypeOK /\ NoTwice(buffer) /\ PipesOK /\ GivenOK /\ PlacesOK

(* Invoking some calls adds their payloads to those given away.              *)
NewEvent(ps) == [payloads |-> ps, done |-> 0, attempt |-> 0]

LEMMA InvokeAllKeeps ==
    ASSUME TypeOK, GivenOK, NEW calls \in Seq(Call), Distinct(calls),
           Elems(calls) \cap Given = {}, InvokeAll(calls)
    PROVE  /\ lambdas' \subseteq Event /\ invoked' \in [Payloads -> Nat]
           /\ rerun' \subseteq Payloads /\ dropped' \subseteq Payloads
           /\ GivenOK' /\ Given' = Given \cup Elems(calls)
<1> DEFINE manys == {d \in ToSet(calls) : d.many}
           ones == {d \in ToSet(calls) : ~d.many}
           batches == {c.payloads : c \in manys}
           singles == UNION {ToSet(c.payloads) : c \in ones}
           many == UNION {ToSet(b) : b \in batches}
<1>1. /\ \A k \in DOMAIN calls : calls[k].payloads \in Seq(Payloads)
      /\ manys \cup ones = ToSet(calls) /\ ToSet(calls) = {calls[k] : k \in DOMAIN calls}
  <2>1. \A k \in DOMAIN calls : calls[k] \in Call
    OBVIOUS
  <2>2. \A c \in Call : c.payloads \in Seq(Payloads)
    BY DEF Call
  <2>3. manys \cup ones = ToSet(calls)
    BY Zenon
  <2>4. ToSet(calls) = {calls[k] : k \in DOMAIN calls}
    BY DEF ToSet
  <2> QED
    BY <2>1, <2>2, <2>3, <2>4
<1>2. Elems(calls) = UNION {ToSet(c.payloads) : c \in ToSet(calls)}
  BY <1>1, CallsElems
<1>3. lambdas' = lambdas \cup {NewEvent(b) : b \in batches}
  <2>1. lambdas' = lambdas \cup {[payloads |-> c.payloads, done |-> 0, attempt |-> 0] : c \in manys}
    BY Zenon DEF InvokeAll
  <2> HIDE DEF manys
  <2> QED
    BY <2>1 DEF NewEvent
<1>4. /\ invoked' = [p \in Payloads |-> IF p \in singles THEN invoked[p] + 1 ELSE invoked[p]]
      /\ rerun' = rerun /\ dropped' = dropped
  BY DEF InvokeAll, Count
<1>5. \A c, d \in ToSet(calls) : c # d => ToSet(c.payloads) \cap ToSet(d.payloads) = {}
  BY <1>1, CallsElems
<1>6. \A c \in ToSet(calls) : NoTwice(c.payloads) /\ c.payloads \in Seq(Payloads)
                              /\ ToSet(c.payloads) \subseteq Elems(calls)
  BY <1>1, <1>2, CallsElems
<1>7. \A c \in manys, d \in ones : c # d
  OBVIOUS
<1>8. many \cap singles = {}
  <2>1. SUFFICES ASSUME NEW e, e \in many, e \in singles PROVE FALSE
    OBVIOUS
  <2>2. PICK c \in manys : e \in ToSet(c.payloads)
    BY <2>1
  <2>3. PICK d \in ones : e \in ToSet(d.payloads)
    BY <2>1
  <2> QED
    BY <1>5, <1>7, <2>2, <2>3
<1>9. many \cup singles = Elems(calls)
  BY <1>1, <1>2
<1>10. /\ \A b \in batches : NoTwice(b) /\ b \in Seq(Payloads) /\ ToSet(b) \subseteq many
       /\ \A b, c \in batches : b # c => ToSet(b) \cap ToSet(c) = {}
  BY <1>1, <1>5, <1>6
<1>11. singles \subseteq Payloads /\ many = UNION {ToSet(b) : b \in batches}
  <2>1. \A s \in Seq(Payloads) : ToSet(s) \subseteq Payloads
    BY DEF ToSet
  <2> QED
    BY <1>1, <1>6, <2>1
<1> HIDE DEF batches, singles, many
<1>12. lambdas' \subseteq Event /\ invoked' \in [Payloads -> Nat]
  <2>1. \A b \in batches : NewEvent(b) \in Event
    BY <1>10, InvokerAssumption DEF NewEvent, Event
  <2> QED
    BY <1>3, <1>4, <2>1 DEF TypeOK
<1>13. InLambdas' = InLambdas \cup many
  <2>1. \A b \in batches : NewEvent(b).payloads = b
    BY DEF NewEvent
  <2>2. \A x : x \in InLambdas' <=> \E l \in lambdas' : x \in ToSet(l.payloads)
    BY DEF InLambdas
  <2>3. \A x : x \in InLambdas <=> \E l \in lambdas : x \in ToSet(l.payloads)
    BY DEF InLambdas
  <2>4. \A x : x \in many <=> \E b \in batches : x \in ToSet(b)
    BY <1>11
  <2>5. \A x : x \in InLambdas' <=> x \in InLambdas \/ x \in many
    BY <1>3, <2>1, <2>2, <2>3, <2>4
  <2> QED
    BY <2>5
<1>14. /\ Done' = Done \cup singles
       /\ \A p \in Payloads : /\ p \in singles => invoked[p] = 0 /\ invoked'[p] = 1
                              /\ p \notin singles => invoked'[p] = invoked[p]
  <2>1. \A p \in singles : invoked[p] = 0
    BY <1>9, <1>11 DEF Given, Done
  <2>2. \A p \in Payloads : invoked[p] \in Nat
    BY DEF TypeOK
  <2>3. \A p \in Payloads : /\ p \in singles => invoked'[p] = 1
                            /\ p \notin singles => invoked'[p] = invoked[p]
    BY <1>4, <2>1, <2>2
  <2> QED
    BY <1>11, <2>1, <2>2, <2>3 DEF Done
<1>15. Given' = Given \cup Elems(calls)
  BY <1>4, <1>9, <1>13, <1>14 DEF Given
<1>16. \A b \in batches : EventOK(NewEvent(b))'
  <2> SUFFICES ASSUME NEW b \in batches PROVE EventOK(NewEvent(b))'
    OBVIOUS
  <2>1. \A j \in DOMAIN b : b[j] \in many /\ b[j] \in Payloads /\ j \in Nat /\ 0 < j
    BY <1>10 DEF ToSet
  <2>2. \A j \in DOMAIN b : invoked'[b[j]] = 0
    <3>1. \A p \in many : p \in Payloads => invoked[p] = 0 /\ p \notin singles
      BY <1>8, <1>9 DEF Given, Done
    <3> QED
      BY <1>14, <2>1, <3>1
  <2>3. NoTwice(b) /\ b \in Seq(Payloads)
    BY <1>10
  <2> QED
    BY <2>1, <2>2, <2>3 DEF EventOK, NewEvent
<1>17. \A l \in lambdas : EventOK(l)'
  <2> SUFFICES ASSUME NEW l \in lambdas PROVE EventOK(l)'
    OBVIOUS
  <2>1. EventOK(l) /\ l.payloads \in Seq(Payloads)
    BY DEF GivenOK, TypeOK, Event
  <2>2. \A j \in DOMAIN l.payloads : l.payloads[j] \in Payloads /\ l.payloads[j] \notin singles
    BY <1>9, <2>1 DEF Given, InLambdas, ToSet
  <2>3. \A j \in DOMAIN l.payloads : invoked'[l.payloads[j]] = invoked[l.payloads[j]]
    BY <1>14, <2>2
  <2> QED
    BY <1>4, <2>1, <2>3 DEF EventOK
<1>18. \A l, m \in lambdas' : l # m => ToSet(l.payloads) \cap ToSet(m.payloads) = {}
  <2>1. \A b \in batches, l \in lambdas : ToSet(b) \cap ToSet(l.payloads) = {}
    BY <1>9, <1>10 DEF Given, InLambdas
  <2>2. \A b \in batches : NewEvent(b).payloads = b
    BY DEF NewEvent
  <2>3. \A l, m \in lambdas : l # m => ToSet(l.payloads) \cap ToSet(m.payloads) = {}
    BY DEF GivenOK
  <2> SUFFICES ASSUME NEW l \in lambdas', NEW m \in lambdas', l # m
               PROVE  ToSet(l.payloads) \cap ToSet(m.payloads) = {}
    OBVIOUS
  <2>4. l \in lambdas \/ \E b \in batches : l = NewEvent(b)
    BY <1>3
  <2>5. m \in lambdas \/ \E b \in batches : m = NewEvent(b)
    BY <1>3
  <2>6. CASE l \in lambdas /\ m \in lambdas
    BY <2>3, <2>6
  <2>7. CASE l \in lambdas /\ m \notin lambdas
    BY <2>1, <2>2, <2>5, <2>7
  <2>8. CASE l \notin lambdas /\ m \in lambdas
    BY <2>1, <2>2, <2>4, <2>8
  <2>9. CASE l \notin lambdas /\ m \notin lambdas
    BY <1>10, <2>2, <2>4, <2>5, <2>9
  <2> QED
    BY <2>6, <2>7, <2>8, <2>9
<1>19. \A p \in Payloads : /\ invoked'[p] <= Retries + 1
                           /\ p \in rerun' \/ invoked'[p] <= 1
  BY <1>4, <1>14, InvokerAssumption DEF GivenOK, TypeOK
<1>20. rerun' \subseteq Done'
  BY <1>4, <1>14 DEF GivenOK
<1> QED
  BY <1>3, <1>4, <1>12, <1>15, <1>16, <1>17, <1>18, <1>19, <1>20 DEF GivenOK, TypeOK

LEMMA AppendLast ==
    ASSUME NEW w \in Seq(Call), NEW s \in Seq(Seq(Call)), NEW x \in Seq(Call)
    PROVE  <<w>> \o Append(s, x) = Append(<<w>> \o s, x)
OBVIOUS

(* Sending the chunks to some of the processes adds what they have to the    *)
(* pipes.                                                                    *)
LEMMA FillKeeps ==
    ASSUME TypeOK, PipesOK, NEW chunks \in Seq(Seq(Payloads)), Apart(chunks),
           NEW many \in BOOLEAN, AllOf(chunks) \cap InPipes = {},
           NEW F \in SUBSET Processes, \A i \in F : i + 1 \in DOMAIN chunks,
           UNCHANGED work,
           \A i \in F : pipe'[i] = Append(pipe[i], Calls(chunks[i + 1], many)),
           \A i \in Processes \ F : pipe'[i] = pipe[i]
    PROVE  /\ \A i \in Processes : pipe'[i] \in Seq(Seq(Call))
           /\ PipesOK' /\ InPipes' = InPipes \cup UNION {ToSet(chunks[i + 1]) : i \in F}
<1> DEFINE calls(i) == Calls(chunks[i + 1], many)
<1>1. ASSUME NEW i \in F
      PROVE  /\ calls(i) \in Seq(Call) /\ Distinct(calls(i)) /\ Elems(calls(i)) = ToSet(chunks[i + 1])
             /\ ToSet(chunks[i + 1]) \cap InPipes = {}
  <2>1. chunks[i + 1] \in Seq(Payloads) /\ NoTwice(chunks[i + 1])
    BY DEF Apart
  <2>2. ToSet(chunks[i + 1]) \subseteq AllOf(chunks)
    BY DEF AllOf
  <2> QED
    BY <2>1, <2>2, CallsSplit
<1>2. \A i, j \in F : i # j => ToSet(chunks[i + 1]) \cap ToSet(chunks[j + 1]) = {}
  <2>1. \A i, j \in F : i # j => i + 1 # j + 1
    BY InvokerAssumption DEF Processes
  <2> QED
    BY <2>1 DEF Apart
<1> HIDE DEF calls
<1>3. \A i \in F : pipe'[i] = Append(pipe[i], calls(i))
  BY DEF calls
<1>4. \A i \in Processes : pipe[i] \in Seq(Seq(Call)) /\ work[i] \in Seq(Call)
  BY DEF TypeOK
<1>5. \A i \in Processes : pipe'[i] \in Seq(Seq(Call))
  <2>1. \A i \in Processes : i \in F => Append(pipe[i], calls(i)) \in Seq(Seq(Call))
    BY <1>1, <1>4
  <2> QED
    BY <1>3, <1>4, <2>1
<1>6. \A i \in Processes : Messages(i) \in Seq(Seq(Call))
  BY <1>4 DEF Messages
<1>7. ASSUME NEW i \in Processes, i \in F
      PROVE  /\ Messages(i)' = Append(Messages(i), calls(i))
             /\ MessagesApart(Messages(i)')
             /\ Carried(i)' = Carried(i) \cup ToSet(chunks[i + 1])
  <2>1. pipe'[i] = Append(pipe[i], calls(i)) /\ work'[i] = work[i]
    BY <1>3, <1>7
  <2>2. <<work[i]>> \o Append(pipe[i], calls(i)) = Append(<<work[i]>> \o pipe[i], calls(i))
    <3>1. work[i] \in Seq(Call) /\ pipe[i] \in Seq(Seq(Call)) /\ calls(i) \in Seq(Call)
      BY <1>1, <1>4, <1>7
    <3> QED
      BY <3>1, AppendLast
  <2>3. Messages(i)' = Append(Messages(i), calls(i))
    BY <2>1, <2>2 DEF Messages
  <2>4. Carried(i) \subseteq InPipes
    BY DEF InPipes
  <2>5. Elems(calls(i)) \cap AllElems(Messages(i)) = {}
    BY <1>1, <1>7, <2>4 DEF Carried
  <2>6. MessagesApart(Messages(i))
    BY DEF PipesOK
  <2>7. /\ MessagesApart(Append(Messages(i), calls(i)))
        /\ AllElems(Append(Messages(i), calls(i))) = AllElems(Messages(i)) \cup Elems(calls(i))
    BY <1>1, <1>6, <1>7, <2>5, <2>6, OneMoreMessage
  <2> QED
    BY <1>1, <1>7, <2>3, <2>7 DEF Carried
<1>8. ASSUME NEW i \in Processes, i \notin F
      PROVE  Messages(i)' = Messages(i) /\ MessagesApart(Messages(i)') /\ Carried(i)' = Carried(i)
  <2>1. pipe'[i] = pipe[i] /\ work'[i] = work[i]
    BY <1>3, <1>8
  <2> QED
    BY <2>1 DEF Messages, Carried, PipesOK
<1>9. \A i \in Processes : MessagesApart(Messages(i)')
  BY <1>7, <1>8
<1>10. \A i \in Processes : Carried(i)' = Carried(i) \cup (IF i \in F THEN ToSet(chunks[i + 1]) ELSE {})
  BY <1>7, <1>8
<1>11. \A i, j \in Processes : i # j => Carried(i)' \cap Carried(j)' = {}
  <2>1. \A i \in Processes : Carried(i) \subseteq InPipes
    BY DEF InPipes
  <2> SUFFICES ASSUME NEW i \in Processes, NEW j \in Processes, i # j
               PROVE  Carried(i)' \cap Carried(j)' = {}
    OBVIOUS
  <2>2. Carried(i) \cap Carried(j) = {}
    BY DEF PipesOK
  <2> QED
    BY <1>1, <1>2, <1>10, <2>1, <2>2
<1>12. InPipes' = InPipes \cup UNION {ToSet(chunks[i + 1]) : i \in F}
  BY <1>10 DEF InPipes
<1> QED
  BY <1>5, <1>9, <1>11, <1>12 DEF PipesOK
-----------------------------------------------------------------------------
(* The steps of the invariant.                                               *)
LEMMA PipesSame ==
    ASSUME UNCHANGED <<pipe, work>>
    PROVE  InPipes' = InPipes /\ (PipesOK => PipesOK')
<1>1. \A i \in Processes : Messages(i)' = Messages(i)
  BY DEF Messages
<1>2. \A i \in Processes : Carried(i)' = Carried(i)
  BY <1>1 DEF Carried
<1> QED
  BY <1>1, <1>2 DEF InPipes, PipesOK

LEMMA GivenSame ==
    ASSUME UNCHANGED <<events, invoked>>
    PROVE  Given' = Given /\ (GivenOK => GivenOK')
BY DEF Given, GivenOK, InLambdas, Done, EventOK, events

(* The messages of one process change, to carry no more than before.         *)
LEMMA OneProcess ==
    ASSUME PipesOK, NEW i \in Processes, MessagesApart(Messages(i)'), Carried(i)' \subseteq Carried(i),
           \A j \in Processes : j # i => UNCHANGED <<pipe[j], work[j]>>
    PROVE  /\ PipesOK' /\ InPipes' \subseteq InPipes
           /\ \A x \in InPipes : x \in Carried(i) => x \in Carried(i)' \/ x \notin InPipes'
           /\ \A x \in InPipes : x \notin Carried(i) => x \in InPipes'
<1>1. \A j \in Processes : j # i => Messages(j)' = Messages(j)
  BY DEF Messages
<1>2. \A j \in Processes : j # i => Carried(j)' = Carried(j)
  BY <1>1 DEF Carried
<1>3. \A j, k \in Processes : j # k => Carried(j) \cap Carried(k) = {}
  BY DEF PipesOK
<1>4. \A j \in Processes : MessagesApart(Messages(j)')
  BY <1>1 DEF PipesOK
<1>5. \A j \in Processes : Carried(j)' \subseteq Carried(j)
  BY <1>2
<1>6. \A j, k \in Processes : j # k => Carried(j)' \cap Carried(k)' = {}
  BY <1>3, <1>5
<1>7. \A x \in InPipes : x \in Carried(i) => x \in Carried(i)' \/ x \notin InPipes'
  <2>1. SUFFICES ASSUME NEW x \in Carried(i), x \in InPipes' PROVE x \in Carried(i)'
    OBVIOUS
  <2>2. PICK j \in Processes : x \in Carried(j)'
    BY <2>1 DEF InPipes
  <2> QED
    BY <1>3, <1>5, <2>2
<1> QED
  BY <1>2, <1>4, <1>5, <1>6, <1>7 DEF PipesOK, InPipes

LEMMA EmptyMessage == Distinct(<<>>) /\ Elems(<<>>) = {} /\ <<>> \in Seq(Call)
BY CallsElems

LEMMA MessageTaken ==
    ASSUME NEW ms \in Seq(Seq(Call)), ms # <<>>, MessagesApart(<<<<>>>> \o ms)
    PROVE  /\ <<Head(ms)>> \o Tail(ms) = ms /\ MessagesApart(ms)
           /\ AllElems(ms) = AllElems(<<<<>>>> \o ms)
<1> DEFINE e == <<>>
           p == <<e>> \o ms
<1>1. \A k \in DOMAIN ms : k + 1 \in DOMAIN p /\ p[k + 1] = ms[k]
  OBVIOUS
<1>2. \A k, l \in DOMAIN ms : k # l => k + 1 # l + 1
  OBVIOUS
<1>3. MessagesApart(p)
  OBVIOUS
<1>4. <<Head(ms)>> \o Tail(ms) = ms
  OBVIOUS
<1> HIDE DEF p
<1>5. MessagesApart(ms)
  BY <1>1, <1>2, <1>3 DEF MessagesApart
<1>6. AllElems(ms) = AllElems(p)
  <2> HIDE DEF e
  <2>1. e \in Seq(Call) /\ Distinct(e) /\ Elems(e) = {}
    BY EmptyMessage DEF e
  <2>2. MessagesApart(<<e>> \o ms)
    BY <1>3 DEF p
  <2>3. AllElems(<<e>> \o ms) = Elems(e) \cup AllElems(ms)
    BY <2>1, <2>2, FirstMessageChanged
  <2> QED
    BY <2>1, <2>3 DEF p
<1> QED
  BY <1>4, <1>5, <1>6 DEF p, e

(* The buffer is taken: what the first chunk has is given away, or a part of *)
(* it, and the other chunks, or some of them, go to the processes.           *)
LEMMA BatchTaken ==
    ASSUME OneEach, buffer # <<>>, buffer' = <<>>, UNCHANGED <<work, process, sent, pleaseStop>>,
           waker' \in BOOLEAN, deadline' \in {"none", "ahead", "passed"},
           loop' \in {"waiting", "stopped", "dead"},
           NEW F \in SUBSET Processes, \A i \in F : i + 1 \in DOMAIN Chunks(buffer),
           pipe' = [i \in Processes |->
               IF i \in F THEN Append(pipe[i], Calls(Chunks(buffer)[i + 1], UseInvokerLambdas(buffer)))
               ELSE pipe[i]],
           NEW G \in SUBSET ToSet(Chunks(buffer)[1]), Given' = Given \cup G, GivenOK',
           lambdas' \subseteq Event, invoked' \in [Payloads -> Nat],
           rerun' \subseteq Payloads, dropped' \subseteq Payloads,
           ~Disturbed' => /\ ~Disturbed /\ G = ToSet(Chunks(buffer)[1])
                          /\ \A i \in Processes : i + 1 \in DOMAIN Chunks(buffer) => i \in F
    PROVE  OneEach'
<1> DEFINE chunks == Chunks(buffer)
           many == UseInvokerLambdas(buffer)
           rest == UNION {ToSet(chunks[i + 1]) : i \in F}
<1>1. /\ TypeOK /\ NoTwice(buffer) /\ PipesOK /\ GivenOK /\ PlacesOK
      /\ buffer \in Seq(Payloads)
  BY DEF OneEach, TypeOK
<1>2. /\ chunks \in Seq(Seq(Payloads)) /\ chunks # <<>> /\ Apart(chunks)
      /\ AllOf(chunks) = ToSet(buffer) /\ Len(chunks) <= NumInvokers + 1
  BY <1>1, ChunksSplit, ChunksFitPipes
<1>3. many \in BOOLEAN
  BY DEF UseInvokerLambdas
<1>4. pipe' = [i \in Processes |->
                 IF i \in F THEN Append(pipe[i], Calls(chunks[i + 1], many)) ELSE pipe[i]]
  OBVIOUS
<1>5. \A i \in F : i + 1 \in DOMAIN chunks
  OBVIOUS
<1> HIDE DEF chunks, many
<1>6. AllOf(chunks) \cap InPipes = {}
  BY <1>1, <1>2 DEF PlacesOK
<1>7. /\ \A i \in Processes : pipe'[i] \in Seq(Seq(Call))
      /\ PipesOK' /\ InPipes' = InPipes \cup rest
  <2>1. TypeOK /\ PipesOK /\ UNCHANGED work
    BY <1>1
  <2>2. \A i \in F : pipe'[i] = Append(pipe[i], Calls(chunks[i + 1], many))
    BY <1>4
  <2>3. \A i \in Processes \ F : pipe'[i] = pipe[i]
    BY <1>4
  <2> QED
    BY <1>2, <1>3, <1>4, <1>5, <1>6, <2>1, <2>2, <2>3, FillKeeps
<1>8. 1 \in DOMAIN chunks
  BY <1>2
<1>9. \A i \in F : i + 1 # 1
  BY InvokerAssumption DEF Processes
<1>10. rest \cap ToSet(chunks[1]) = {}
  BY <1>2, <1>5, <1>8, <1>9 DEF Apart
<1>11. rest \subseteq ToSet(buffer) /\ ToSet(chunks[1]) \subseteq ToSet(buffer)
  BY <1>2, <1>5, <1>8 DEF AllOf
<1>12. ToSet(buffer') = {} /\ NoTwice(buffer')
  BY DEF ToSet, NoTwice
<1>13. G \subseteq ToSet(chunks[1])
  BY DEF chunks
<1>14. ASSUME ~Disturbed' PROVE ToSet(buffer) \subseteq rest \cup G
  <2>1. /\ G = ToSet(chunks[1]) /\ \A i \in Processes : i + 1 \in DOMAIN chunks => i \in F
    BY <1>14 DEF chunks
  <2> SUFFICES ASSUME NEW x \in ToSet(buffer) PROVE x \in rest \cup G
    OBVIOUS
  <2>2. PICK k \in DOMAIN chunks : x \in ToSet(chunks[k])
    BY <1>2 DEF AllOf
  <2>3. k \in 1..Len(chunks) /\ Len(chunks) \in Nat
    BY <1>2
  <2>4. CASE k = 1
    BY <2>1, <2>2, <2>4
  <2>5. CASE k # 1
    <3>1. k - 1 \in Processes /\ (k - 1) + 1 = k
      BY <1>2, <2>3, <2>5, InvokerAssumption DEF Processes
    <3> QED
      BY <2>1, <2>2, <3>1
  <2> QED
    BY <2>4, <2>5
<1>15. ~Disturbed' => ~Disturbed
  OBVIOUS
<1> HIDE DEF rest
<1>16. PlacesOK'
  BY <1>1, <1>7, <1>10, <1>11, <1>12, <1>13, <1>14, <1>15 DEF PlacesOK
<1>17. TypeOK'
  <2>1. pipe' \in [Processes -> Seq(Seq(Call))]
    BY <1>4, <1>7
  <2> QED
    BY <1>1, <2>1 DEF TypeOK
<1> QED
  BY <1>7, <1>12, <1>16, <1>17 DEF OneEach

LEMMA SendStep ==
    ASSUME OneEach, NEW p \in Payloads, Send(p)
    PROVE  OneEach'
<1> USE DEF Send, remote
<1>1. /\ TypeOK /\ NoTwice(buffer) /\ PlacesOK /\ buffer \in Seq(Payloads)
      /\ p \notin sent
  BY DEF OneEach, TypeOK
<1>2. /\ buffer' \in Seq(Payloads) /\ DOMAIN buffer' = DOMAIN buffer \cup {Len(buffer) + 1}
      /\ buffer'[Len(buffer) + 1] = p /\ \A k \in DOMAIN buffer : buffer'[k] = buffer[k]
  BY <1>1
<1>3. ToSet(buffer') = ToSet(buffer) \cup {p}
  BY <1>2 DEF ToSet
<1>4. \A k \in DOMAIN buffer : buffer[k] # p
  BY <1>1 DEF PlacesOK, ToSet
<1>5. NoTwice(buffer')
  BY <1>1, <1>2, <1>4 DEF NoTwice
<1>6. InPipes' = InPipes /\ PipesOK' /\ Given' = Given /\ GivenOK'
  BY PipesSame, GivenSame DEF OneEach
<1>7. Disturbed' <=> Disturbed
  BY DEF Disturbed
<1>8. PlacesOK'
  <2>1. sent' = sent \cup {p}
    OBVIOUS
  <2> QED
    BY <1>1, <1>3, <1>6, <1>7, <2>1 DEF PlacesOK
<1>9. TypeOK'
  BY <1>1, <1>2 DEF TypeOK, WakeLoop, events
<1> QED
  BY <1>5, <1>6, <1>8, <1>9 DEF OneEach

(* The steps that leave the payloads where they are.                         *)
LEMMA NothingMoves ==
    ASSUME OneEach, UNCHANGED <<buffer, pipe, work, events, sent, invoked>>, TypeOK',
           ~Disturbed' => ~Disturbed
    PROVE  OneEach'
<1>1. InPipes' = InPipes /\ PipesOK' /\ Given' = Given /\ GivenOK'
  BY PipesSame, GivenSame DEF OneEach
<1>2. NoTwice(buffer') /\ PlacesOK
  BY DEF OneEach
<1> QED
  BY <1>1, <1>2 DEF OneEach, PlacesOK

LEMMA QuietSteps ==
    ASSUME OneEach, DeadlinePasses \/ NothingToSend \/ TooEarly \/ UNCHANGED vars
    PROVE  OneEach'
<1>1. TypeOK
  BY DEF OneEach
<1>2. CASE DeadlinePasses
  <2>1. TypeOK' /\ (Disturbed' <=> Disturbed)
    BY <1>1, <1>2 DEF DeadlinePasses, remote, events, TypeOK, Disturbed
  <2> QED
    BY <1>2, <2>1, NothingMoves DEF DeadlinePasses, remote
<1>3. CASE NothingToSend
  <2>1. TypeOK' /\ (~Disturbed' => ~Disturbed)
    BY <1>1, <1>3 DEF NothingToSend, Awake, LoopOrStop, remote, events, TypeOK, Disturbed
  <2> QED
    BY <1>3, <2>1, NothingMoves DEF NothingToSend, remote
<1>4. CASE TooEarly
  <2>1. TypeOK' /\ (~Disturbed' => ~Disturbed)
    BY <1>1, <1>4 DEF TooEarly, Awake, LoopOrStop, remote, events, TypeOK, Disturbed
  <2> QED
    BY <1>4, <2>1, NothingMoves DEF TooEarly, remote
<1>5. CASE UNCHANGED vars
  <2>1. TypeOK' /\ (Disturbed' <=> Disturbed)
    BY <1>1, <1>5 DEF vars, local, remote, events, TypeOK, Disturbed
  <2> QED
    BY <1>5, <2>1, NothingMoves DEF vars, local, remote
<1> QED
  BY <1>2, <1>3, <1>4, <1>5

LEMMA StopStep ==
    ASSUME OneEach, NEW left, left = buffer \/ left = <<>>, Stop(left)
    PROVE  OneEach'
<1> USE DEF Stop
<1>1. TypeOK /\ NoTwice(buffer) /\ PlacesOK
  BY DEF OneEach
<1>2. TypeOK' /\ Disturbed'
  <2>1. Disturbed'
    BY Zenon DEF Disturbed
  <2>2. buffer' \in Seq(Payloads)
    <3>1. buffer' = left /\ buffer \in Seq(Payloads) /\ <<>> \in Seq(Payloads)
      BY <1>1 DEF TypeOK
    <3> QED
      BY <3>1
  <2>3. process' \in [Processes -> {"up", "dead", "terminated"}]
    OBVIOUS
  <2> QED
    BY <1>1, <2>1, <2>2, <2>3 DEF TypeOK, events
<1>3. ToSet(buffer') \subseteq ToSet(buffer) /\ NoTwice(buffer')
  BY <1>1 DEF ToSet, NoTwice
<1>4. InPipes' = InPipes /\ PipesOK' /\ Given' = Given /\ GivenOK'
  BY PipesSame, GivenSame DEF OneEach
<1> QED
  BY <1>1, <1>2, <1>3, <1>4 DEF OneEach, PlacesOK

LEMMA ProcessFailsStep ==
    ASSUME OneEach, NEW i \in Processes, ProcessFails(i)
    PROVE  OneEach'
<1>1. TypeOK' /\ Disturbed'
  <2>1. process' = [process EXCEPT ![i] = "dead"] /\ TypeOK
    BY DEF ProcessFails, OneEach
  <2>2. process'[i] = "dead" /\ process' \in [Processes -> {"up", "dead", "terminated"}]
    BY <2>1 DEF TypeOK
  <2>3. TypeOK'
    BY <2>1, <2>2 DEF ProcessFails, local, events, TypeOK
  <2> QED
    BY <2>2, <2>3 DEF Disturbed
<1> QED
  BY <1>1, NothingMoves DEF ProcessFails, local

(* A message is taken from the pipe: the process carries what it carried.    *)
LEMMA ReceiveStep ==
    ASSUME OneEach, NEW i \in Processes, Receive(i)
    PROVE  OneEach'
<1>1. TypeOK /\ NoTwice(buffer) /\ PipesOK /\ GivenOK /\ PlacesOK
  BY DEF OneEach
<1>2. /\ work[i] = <<>> /\ pipe[i] # <<>> /\ pipe[i] \in Seq(Seq(Call))
      /\ work' = [work EXCEPT ![i] = Head(pipe[i])]
      /\ pipe' = [pipe EXCEPT ![i] = Tail(pipe[i])]
      /\ UNCHANGED <<local, process, events, sent, invoked>>
  BY <1>1 DEF Receive, TypeOK
<1>3. work'[i] = Head(pipe[i]) /\ pipe'[i] = Tail(pipe[i])
  BY <1>1, <1>2 DEF TypeOK
<1>4. \A j \in Processes : j # i => UNCHANGED <<pipe[j], work[j]>>
  BY <1>1, <1>2 DEF TypeOK
<1>5. MessagesApart(<<<<>>>> \o pipe[i])
  BY <1>1, <1>2 DEF PipesOK, Messages
<1>6. Messages(i)' = pipe[i] /\ MessagesApart(pipe[i]) /\ AllElems(pipe[i]) = Carried(i)
  BY <1>2, <1>3, <1>5, MessageTaken DEF Messages, Carried
<1>7. MessagesApart(Messages(i)') /\ Carried(i)' = Carried(i)
  BY <1>6 DEF Carried
<1>8. PipesOK' /\ InPipes' = InPipes
  <2>1. /\ PipesOK' /\ InPipes' \subseteq InPipes
        /\ \A x \in InPipes : x \notin Carried(i) => x \in InPipes'
    BY <1>1, <1>4, <1>7, OneProcess
  <2>2. Carried(i) \subseteq InPipes'
    BY <1>7 DEF InPipes
  <2> QED
    BY <2>1, <2>2
<1>9. Given' = Given /\ GivenOK'
  BY <1>1, <1>2, GivenSame
<1>10. Disturbed' <=> Disturbed
  BY <1>2 DEF Disturbed, local
<1>11. TypeOK'
  <2>1. Head(pipe[i]) \in Seq(Call) /\ Tail(pipe[i]) \in Seq(Seq(Call))
    BY <1>2
  <2> QED
    BY <1>1, <1>2, <2>1 DEF TypeOK, local, events
<1> QED
  BY <1>1, <1>2, <1>8, <1>9, <1>10, <1>11 DEF OneEach, PlacesOK, local

(* A call is made: its payloads leave the process and are given away.        *)
LEMMA InvokeNextStep ==
    ASSUME OneEach, NEW i \in Processes, InvokeNext(i)
    PROVE  OneEach'
<1> DEFINE h == <<Head(work[i])>>
           t == Tail(work[i])
<1>1. TypeOK /\ NoTwice(buffer) /\ PipesOK /\ GivenOK /\ PlacesOK
  BY DEF OneEach
<1>2. /\ work[i] # <<>> /\ work[i] \in Seq(Call) /\ pipe[i] \in Seq(Seq(Call))
      /\ InvokeAll(h) /\ work' = [work EXCEPT ![i] = t]
      /\ UNCHANGED <<local, process, pipe, sent>>
  BY <1>1 DEF InvokeNext, TypeOK
<1>3. MessagesApart(<<work[i]>> \o pipe[i])
  BY <1>1 DEF PipesOK, Messages
<1>4. Distinct(work[i])
  <2> DEFINE ms == <<work[i]>> \o pipe[i]
  <2>1. 1 \in DOMAIN ms /\ ms[1] = work[i]
    BY <1>2
  <2> HIDE DEF ms
  <2>2. MessagesApart(ms)
    BY <1>3 DEF ms
  <2> QED
    BY <2>1, <2>2 DEF MessagesApart
<1>5. /\ h \in Seq(Call) /\ t \in Seq(Call) /\ Distinct(h) /\ Distinct(t)
      /\ Elems(work[i]) = Elems(h) \cup Elems(t) /\ Elems(h) \cap Elems(t) = {}
  BY <1>2, <1>4, HeadAndTail
<1> HIDE DEF h, t
<1>6. /\ MessagesApart(<<t>> \o pipe[i])
      /\ AllElems(<<work[i]>> \o pipe[i]) = Elems(work[i]) \cup AllElems(pipe[i])
      /\ AllElems(<<t>> \o pipe[i]) = Elems(t) \cup AllElems(pipe[i])
      /\ Elems(work[i]) \cap AllElems(pipe[i]) = {}
  BY <1>2, <1>3, <1>5, FirstMessageChanged
<1>7. work'[i] = t /\ pipe'[i] = pipe[i]
  BY <1>1, <1>2 DEF TypeOK
<1>8. \A j \in Processes : j # i => UNCHANGED <<pipe[j], work[j]>>
  BY <1>1, <1>2 DEF TypeOK
<1>9. /\ MessagesApart(Messages(i)')
      /\ Carried(i) = Carried(i)' \cup Elems(h) /\ Elems(h) \cap Carried(i)' = {}
  BY <1>5, <1>6, <1>7 DEF Messages, Carried
<1>10. /\ PipesOK' /\ InPipes' \subseteq InPipes
       /\ \A x \in InPipes : x \in Carried(i) => x \in Carried(i)' \/ x \notin InPipes'
       /\ \A x \in InPipes : x \notin Carried(i) => x \in InPipes'
  BY <1>1, <1>8, <1>9, OneProcess
<1>11. Elems(h) \subseteq InPipes /\ Carried(i)' \subseteq InPipes'
  BY <1>9 DEF InPipes
<1>12. InPipes = InPipes' \cup Elems(h) /\ InPipes' \cap Elems(h) = {}
  BY <1>9, <1>10, <1>11
<1>13. Elems(h) \cap Given = {}
  BY <1>1, <1>11 DEF PlacesOK
<1>14. /\ lambdas' \subseteq Event /\ invoked' \in [Payloads -> Nat]
       /\ rerun' \subseteq Payloads /\ dropped' \subseteq Payloads
       /\ GivenOK' /\ Given' = Given \cup Elems(h)
  BY <1>1, <1>2, <1>5, <1>13, InvokeAllKeeps
<1>15. (Disturbed' <=> Disturbed) /\ UNCHANGED <<buffer, sent>>
  BY <1>2 DEF Disturbed, local
<1>16. TypeOK'
  BY <1>1, <1>2, <1>5, <1>14 DEF TypeOK, local
<1>17. PlacesOK'
  BY <1>1, <1>12, <1>14, <1>15 DEF PlacesOK
<1> QED
  BY <1>1, <1>10, <1>14, <1>15, <1>16, <1>17 DEF OneEach

(* A step of an Invoker Lambda touches what is given away, and nothing else. *)
LEMMA LambdaFrame ==
    ASSUME OneEach, UNCHANGED <<local, remote, sent>>, GivenOK', Given' = Given,
           lambdas' \subseteq Event, invoked' \in [Payloads -> Nat],
           rerun' \subseteq Payloads, dropped' \subseteq Payloads
    PROVE  OneEach'
<1>1. InPipes' = InPipes /\ PipesOK'
  BY PipesSame DEF OneEach, remote
<1>2. (Disturbed' <=> Disturbed) /\ UNCHANGED <<buffer, sent>>
  BY DEF Disturbed, local, remote
<1>3. TypeOK'
  BY DEF OneEach, TypeOK, local, remote
<1> QED
  BY <1>1, <1>2, <1>3 DEF OneEach, PlacesOK

(* One event changes to after, whose payloads are its own, or disappears.    *)
LEMMA OneEvent ==
    ASSUME TypeOK, GivenOK, NEW l \in lambdas, NEW after, lambdas' = (lambdas \ {l}) \cup after,
           \A m \in after : m \in Event /\ m.payloads = l.payloads /\ EventOK(m)',
           \A m, n \in after : m = n,
           \A p \in Payloads \ ToSet(l.payloads) : invoked'[p] = invoked[p],
           rerun \subseteq rerun'
    PROVE  /\ lambdas' \subseteq Event
           /\ \A m \in lambdas' : EventOK(m)'
           /\ \A m, n \in lambdas' : m # n => ToSet(m.payloads) \cap ToSet(n.payloads) = {}
           /\ InLambdas = InLambdas' \cup ToSet(l.payloads)
           /\ after # {} => InLambdas' = InLambdas
<1>1. \A m \in lambdas \ {l} : ToSet(m.payloads) \cap ToSet(l.payloads) = {}
  BY DEF GivenOK
<1>2. ASSUME NEW m \in lambdas \ {l} PROVE EventOK(m)'
  <2>1. EventOK(m) /\ m.payloads \in Seq(Payloads)
    BY DEF GivenOK, TypeOK, Event
  <2>2. \A j \in DOMAIN m.payloads : invoked'[m.payloads[j]] = invoked[m.payloads[j]]
    BY <1>1, <2>1 DEF ToSet
  <2> QED
    BY <2>1, <2>2 DEF EventOK
<1>3. \A m, n \in lambdas' : m # n => ToSet(m.payloads) \cap ToSet(n.payloads) = {}
  BY <1>1 DEF GivenOK
<1>4. lambdas' \subseteq Event
  BY DEF TypeOK
<1> QED
  BY <1>2, <1>3, <1>4 DEF InLambdas

(* What is known of the event of a step.                                     *)
LEMMA TheEvent ==
    ASSUME OneEach, NEW l \in lambdas
    PROVE  /\ l.payloads \in Seq(Payloads) /\ l.done \in Nat /\ l.attempt \in 0..Retries
           /\ l.attempt \in Nat /\ Retries \in Nat
           /\ DOMAIN l.payloads = 1..Len(l.payloads) /\ Len(l.payloads) \in Nat
           /\ EventOK(l)
           /\ \A j \in DOMAIN l.payloads : l.payloads[j] \in Payloads /\ j \in Nat /\ 0 < j
           /\ \A p \in Payloads : invoked[p] \in Nat
BY InvokerAssumption DEF OneEach, TypeOK, GivenOK, Event

(* It invokes its next payload.                                              *)
LEMMA InvokesStep ==
    ASSUME OneEach, NEW l \in lambdas, InvokerLambdaInvokes(l)
    PROVE  OneEach'
<1> DEFINE q == l.payloads[l.done + 1]
           m == [l EXCEPT !.done = l.done + 1]
<1>1. TypeOK /\ GivenOK
  BY DEF OneEach
<1>2. /\ l.payloads \in Seq(Payloads) /\ l.done \in Nat /\ l.attempt \in 0..Retries
      /\ l.attempt \in Nat /\ Retries \in Nat
      /\ DOMAIN l.payloads = 1..Len(l.payloads) /\ Len(l.payloads) \in Nat /\ EventOK(l)
      /\ \A j \in DOMAIN l.payloads : l.payloads[j] \in Payloads /\ j \in Nat /\ 0 < j
      /\ \A p \in Payloads : invoked[p] \in Nat
  BY TheEvent
<1>3. /\ l.done < Len(l.payloads) /\ lambdas' = (lambdas \ {l}) \cup {m}
      /\ invoked' = [p \in Payloads |-> IF p \in {q} THEN invoked[p] + 1 ELSE invoked[p]]
      /\ UNCHANGED <<local, remote, rerun, dropped, sent>>
  BY DEF InvokerLambdaInvokes, Becomes, Count
<1>4. l.done + 1 \in DOMAIN l.payloads /\ q \in Payloads /\ q \in ToSet(l.payloads)
  BY <1>2, <1>3 DEF ToSet
<1>5. m \in Event /\ m.payloads = l.payloads /\ m.done = l.done + 1 /\ m.attempt = l.attempt
  <2>1. l \in Event
    BY <1>1 DEF TypeOK
  <2> QED
    BY <1>2, <2>1 DEF Event
<1> HIDE DEF m
<1>6. \A p \in Payloads : /\ p = q => invoked'[p] = invoked[p] + 1
                          /\ p # q => invoked'[p] = invoked[p]
  BY <1>3
<1>7. /\ invoked[q] <= l.attempt /\ (q \in rerun \/ invoked[q] = 0)
  BY <1>2, <1>4 DEF EventOK
<1>8. \A j \in DOMAIN l.payloads : l.payloads[j] = q => j = l.done + 1
  BY <1>2, <1>4 DEF EventOK, NoTwice
<1> HIDE DEF q
<1>9. EventOK(m)'
  <2>1. NoTwice(m.payloads) /\ m.done <= Len(m.payloads)
    BY <1>2, <1>3, <1>5 DEF EventOK
  <2>2. ASSUME NEW j \in DOMAIN l.payloads
        PROVE  /\ j <= m.done => 0 < invoked'[l.payloads[j]]
                                 /\ invoked'[l.payloads[j]] <= l.attempt + 1
               /\ m.done < j => /\ invoked'[l.payloads[j]] <= l.attempt
                                /\ l.payloads[j] \in rerun \/ invoked'[l.payloads[j]] = 0
    <3>1. CASE l.payloads[j] = q
      BY <1>2, <1>4, <1>5, <1>6, <1>7, <1>8, <3>1
    <3>2. CASE l.payloads[j] # q
      <4>1. j # l.done + 1 /\ invoked'[l.payloads[j]] = invoked[l.payloads[j]]
        BY <1>2, <1>6, <3>2 DEF q
      <4>2. /\ j <= l.done => 0 < invoked[l.payloads[j]]
                              /\ invoked[l.payloads[j]] <= l.attempt + 1
            /\ l.done < j => /\ invoked[l.payloads[j]] <= l.attempt
                             /\ l.payloads[j] \in rerun \/ invoked[l.payloads[j]] = 0
        BY <1>2 DEF EventOK
      <4> QED
        BY <1>2, <1>5, <4>1, <4>2
    <3> QED
      BY <3>1, <3>2
  <2> QED
    BY <1>3, <1>5, <2>1, <2>2 DEF EventOK
<1>10. \A p \in Payloads \ ToSet(l.payloads) : invoked'[p] = invoked[p]
  BY <1>4, <1>6
<1>11. /\ lambdas' \subseteq Event /\ \A n \in lambdas' : EventOK(n)'
       /\ \A n, k \in lambdas' : n # k => ToSet(n.payloads) \cap ToSet(k.payloads) = {}
       /\ InLambdas' = InLambdas
  <2> DEFINE after == {m}
  <2>1. /\ \A n \in after : n \in Event /\ n.payloads = l.payloads /\ EventOK(n)'
        /\ \A n, k \in after : n = k
        /\ lambdas' = (lambdas \ {l}) \cup after /\ after # {}
    BY <1>3, <1>5, <1>9
  <2> HIDE DEF after
  <2> QED
    BY <1>1, <1>3, <1>10, <2>1, OneEvent
<1>12. Done' = Done \cup {q}
  BY <1>2, <1>4, <1>6 DEF Done
<1>13. Given' = Given
  BY <1>3, <1>4, <1>11, <1>12 DEF Given, InLambdas
<1>14. GivenOK'
  <2>1. \A p \in Payloads : /\ invoked'[p] <= Retries + 1
                            /\ p \in rerun \/ invoked'[p] <= 1
    BY <1>1, <1>2, <1>6, <1>7 DEF GivenOK
  <2> QED
    BY <1>1, <1>3, <1>11, <1>12, <2>1 DEF GivenOK
<1>15. invoked' \in [Payloads -> Nat]
  BY <1>2, <1>3
<1> QED
  BY <1>1, <1>3, <1>11, <1>13, <1>14, <1>15, LambdaFrame DEF TypeOK

(* It returns, and has invoked all its payloads.                             *)
LEMMA ReturnsStep ==
    ASSUME OneEach, NEW l \in lambdas, InvokerLambdaReturns(l)
    PROVE  OneEach'
<1>1. TypeOK /\ GivenOK
  BY DEF OneEach
<1>2. /\ EventOK(l) /\ DOMAIN l.payloads = 1..Len(l.payloads) /\ Len(l.payloads) \in Nat
      /\ \A j \in DOMAIN l.payloads : l.payloads[j] \in Payloads
      /\ \A p \in Payloads : invoked[p] \in Nat
  BY TheEvent
<1>3. /\ l.done = Len(l.payloads) /\ lambdas' = (lambdas \ {l}) \cup {}
      /\ UNCHANGED <<local, remote, rerun, dropped, sent, invoked>>
  BY DEF InvokerLambdaReturns, Becomes
<1>4. /\ lambdas' \subseteq Event /\ \A n \in lambdas' : EventOK(n)'
      /\ \A n, k \in lambdas' : n # k => ToSet(n.payloads) \cap ToSet(k.payloads) = {}
      /\ InLambdas = InLambdas' \cup ToSet(l.payloads)
  <2> DEFINE after == {}
  <2>1. /\ lambdas' = (lambdas \ {l}) \cup after
        /\ \A n \in after : n \in Event /\ n.payloads = l.payloads /\ EventOK(n)'
        /\ \A n, k \in after : n = k
    BY <1>3
  <2> HIDE DEF after
  <2> QED
    BY <1>1, <1>3, <2>1, OneEvent
<1>5. ToSet(l.payloads) \subseteq Done
  BY <1>2, <1>3 DEF EventOK, Done, ToSet
<1>6. Done' = Done
  BY <1>3 DEF Done
<1>7. Given' = Given
  BY <1>3, <1>4, <1>5, <1>6 DEF Given
<1>8. GivenOK'
  BY <1>1, <1>3, <1>4, <1>6 DEF GivenOK
<1> QED
  BY <1>1, <1>3, <1>4, <1>7, <1>8, LambdaFrame DEF TypeOK

(* It fails: AWS runs it again, or drops what it had left.                   *)
LEMMA FailsStep ==
    ASSUME OneEach, NEW l \in lambdas, InvokerLambdaFails(l)
    PROVE  OneEach'
<1> DEFINE again == [l EXCEPT !.done = 0, !.attempt = l.attempt + 1]
           after == IF l.attempt < Retries THEN {again} ELSE {}
<1>1. TypeOK /\ GivenOK
  BY DEF OneEach
<1>2. /\ l.payloads \in Seq(Payloads) /\ l.done \in Nat /\ l.attempt \in 0..Retries
      /\ l.attempt \in Nat /\ Retries \in Nat
      /\ DOMAIN l.payloads = 1..Len(l.payloads) /\ Len(l.payloads) \in Nat /\ EventOK(l)
      /\ \A j \in DOMAIN l.payloads : l.payloads[j] \in Payloads /\ j \in Nat /\ 0 < j
      /\ \A p \in Payloads : invoked[p] \in Nat
  BY TheEvent
<1>3. /\ lambdas' = (lambdas \ {l}) \cup after
      /\ UNCHANGED <<local, remote, sent, invoked>>
      /\ l.attempt < Retries => rerun' = rerun \cup DoneOf(l) /\ dropped' = dropped
      /\ ~(l.attempt < Retries) => rerun' = rerun /\ dropped' = dropped \cup LeftOf(l)
  BY DEF InvokerLambdaFails, Becomes
<1>4. again \in Event <=> l.attempt < Retries
  <2>1. l \in Event
    BY <1>1 DEF TypeOK
  <2>2. again.attempt = l.attempt + 1
    BY <2>1 DEF Event
  <2>3. l.attempt < Retries <=> l.attempt + 1 \in 0..Retries
    BY <1>2
  <2>4. l.attempt + 1 \in 0..Retries => again \in Event
    BY <2>1 DEF Event
  <2>5. again \in Event => again.attempt \in 0..Retries
    <3> HIDE DEF again
    <3> QED
      BY DEF Event
  <2> QED
    BY <2>2, <2>3, <2>4, <2>5
<1>5. again.payloads = l.payloads /\ again.done = 0 /\ again.attempt = l.attempt + 1
  <2>1. l \in Event
    BY <1>1 DEF TypeOK
  <2> QED
    BY <2>1 DEF Event
<1> HIDE DEF again
<1>6. ToSet(l.payloads) \subseteq DoneOf(l) \cup LeftOf(l)
  BY <1>2 DEF ToSet, DoneOf, LeftOf
<1>7. LeftOf(l) \subseteq ToSet(l.payloads)
  BY <1>2 DEF ToSet, LeftOf
<1>8. DoneOf(l) \subseteq Done
  BY <1>2 DEF DoneOf, Done, EventOK
<1>9. l.attempt < Retries => EventOK(again)'
  <2> SUFFICES ASSUME l.attempt < Retries PROVE EventOK(again)'
    OBVIOUS
  <2>1. ASSUME NEW j \in DOMAIN l.payloads
        PROVE  /\ invoked[l.payloads[j]] <= l.attempt + 1
               /\ l.payloads[j] \in rerun \cup DoneOf(l) \/ invoked[l.payloads[j]] = 0
    BY <1>2 DEF EventOK, DoneOf
  <2>2. NoTwice(l.payloads)
    BY <1>2 DEF EventOK
  <2>3. \A j \in DOMAIN l.payloads :
            /\ ~(j <= again.done)
            /\ invoked'[l.payloads[j]] <= again.attempt
            /\ l.payloads[j] \in rerun' \/ invoked'[l.payloads[j]] = 0
    <3>1. rerun' = rerun \cup DoneOf(l) /\ invoked' = invoked
      BY <1>3
    <3>2. \A j \in DOMAIN l.payloads : ~(j <= 0)
      BY <1>2
    <3> QED
      BY <1>5, <2>1, <3>1, <3>2
  <2>4. again.done <= Len(l.payloads)
    BY <1>2, <1>5
  <2> QED
    BY <1>5, <2>2, <2>3, <2>4 DEF EventOK
<1>10. /\ lambdas' \subseteq Event /\ \A n \in lambdas' : EventOK(n)'
       /\ \A n, k \in lambdas' : n # k => ToSet(n.payloads) \cap ToSet(k.payloads) = {}
       /\ InLambdas = InLambdas' \cup ToSet(l.payloads)
       /\ l.attempt < Retries => InLambdas' = InLambdas
  <2>1. /\ \A n \in after : n \in Event /\ n.payloads = l.payloads /\ EventOK(n)'
        /\ \A n, k \in after : n = k
        /\ l.attempt < Retries => after # {}
    BY <1>4, <1>5, <1>9
  <2>2. rerun \subseteq rerun' /\ invoked' = invoked
    BY <1>3
  <2> HIDE DEF after
  <2> QED
    BY <1>1, <1>3, <2>1, <2>2, OneEvent
<1> HIDE DEF after
<1>11. Done' = Done
  BY <1>3 DEF Done
<1>12. Given' = Given
  <2>1. CASE l.attempt < Retries
    BY <1>3, <1>10, <1>11, <2>1 DEF Given
  <2>2. CASE ~(l.attempt < Retries)
    <3>1. Given' = InLambdas' \cup Done \cup dropped \cup LeftOf(l)
      BY <1>3, <1>11, <2>2 DEF Given
    <3> QED
      BY <1>6, <1>7, <1>8, <1>10, <3>1 DEF Given
  <2> QED
    BY <2>1, <2>2
<1>13. rerun \subseteq rerun' /\ rerun' \subseteq Done' /\ invoked' = invoked
  BY <1>1, <1>3, <1>8, <1>11 DEF GivenOK
<1>14. GivenOK'
  BY <1>1, <1>10, <1>13 DEF GivenOK
<1>15. rerun' \subseteq Payloads /\ dropped' \subseteq Payloads
  <2>1. Done' \subseteq Payloads
    BY DEF Done
  <2>2. LeftOf(l) \subseteq Payloads
    BY <1>2 DEF LeftOf
  <2> QED
    BY <1>1, <1>3, <1>13, <2>1, <2>2 DEF TypeOK
<1> QED
  BY <1>1, <1>3, <1>10, <1>12, <1>13, <1>14, <1>15, LambdaFrame DEF TypeOK

(* The calls for the first chunk.                                            *)
LEMMA FirstChunk ==
    ASSUME OneEach, buffer # <<>>
    PROVE  LET calls == Calls(Chunks(buffer)[1], UseInvokerLambdas(buffer))
           IN  /\ calls \in Seq(Call) /\ Distinct(calls)
               /\ Elems(calls) = ToSet(Chunks(buffer)[1])
               /\ Elems(calls) \cap Given = {}
<1> DEFINE chunks == Chunks(buffer)
<1>1. TypeOK /\ NoTwice(buffer) /\ PlacesOK /\ buffer \in Seq(Payloads)
  BY DEF OneEach, TypeOK
<1>2. /\ chunks \in Seq(Seq(Payloads)) /\ chunks # <<>> /\ Apart(chunks)
      /\ AllOf(chunks) = ToSet(buffer)
  BY <1>1, ChunksSplit
<1> HIDE DEF chunks
<1>3. 1 \in DOMAIN chunks /\ chunks[1] \in Seq(Payloads) /\ NoTwice(chunks[1])
  BY <1>2 DEF Apart
<1>4. ToSet(chunks[1]) \cap Given = {}
  BY <1>1, <1>2, <1>3 DEF AllOf, PlacesOK
<1>5. UseInvokerLambdas(buffer) \in BOOLEAN
  BY DEF UseInvokerLambdas
<1> QED
  BY <1>3, <1>4, <1>5, CallsSplit DEF chunks

(* The batch goes to the first F processes, the first chunk is invoked as    *)
(* far as the calls succeed.                                                 *)
LEMMA SendBatchSteps ==
    ASSUME OneEach, SendBatch \/ SendBatchFails
    PROVE  OneEach'
<1> DEFINE chunks == Chunks(buffer)
           many == UseInvokerLambdas(buffer)
           calls == Calls(chunks[1], many)
           F == {i \in Processes : i + 1 <= Len(chunks)}
<1>1. /\ TypeOK /\ GivenOK /\ buffer # <<>> /\ buffer' = <<>> /\ loop = "waiting"
      /\ UNCHANGED <<work, process, sent, pleaseStop>>
      /\ waker' = FALSE /\ deadline' = "ahead" /\ pipe' = FillPipes(chunks, many)
  BY DEF OneEach, SendBatch, SendBatchFails, ChunksDue, Awake, NextDeadline
<1>2. /\ calls \in Seq(Call) /\ Distinct(calls) /\ Elems(calls) = ToSet(chunks[1])
      /\ Elems(calls) \cap Given = {}
  BY <1>1, FirstChunk
<1>3. chunks \in Seq(Seq(Payloads))
  BY <1>1, ChunksSplit DEF TypeOK
<1>4. \A i \in Processes : i \in F <=> i + 1 \in DOMAIN chunks
  <2>1. \A i \in Processes : i \in Nat
    BY InvokerAssumption DEF Processes
  <2>2. DOMAIN chunks = 1..Len(chunks) /\ Len(chunks) \in Nat
    BY <1>3
  <2> QED
    BY <2>1, <2>2
<1>5. pipe' = [i \in Processes |->
                 IF i \in F THEN Append(pipe[i], Calls(chunks[i + 1], many)) ELSE pipe[i]]
  BY <1>1, Zenon DEF FillPipes
<1> HIDE DEF chunks, many, calls, F
<1>6. CASE SendBatch
  <2>1. InvokeAll(calls) /\ LoopOrStop
    BY <1>6 DEF SendBatch, calls, chunks, many
  <2>2. /\ lambdas' \subseteq Event /\ invoked' \in [Payloads -> Nat]
       /\ rerun' \subseteq Payloads /\ dropped' \subseteq Payloads
        /\ GivenOK' /\ Given' = Given \cup Elems(calls)
    BY <1>1, <1>2, <2>1, InvokeAllKeeps
  <2>3. loop' \in {"waiting", "stopped", "dead"} /\ (~Disturbed' => ~Disturbed)
    BY <1>1, <2>1 DEF LoopOrStop, Disturbed
  <2> QED
    BY <1>1, <1>2, <1>4, <1>5, <2>2, <2>3, BatchTaken DEF chunks, many, F
<1>7. CASE SendBatchFails
  <2>1. loop' = "stopped" /\ \E k \in 0..Len(calls) : InvokeAll(SubSeq(calls, 1, k))
    BY <1>7, Zenon DEF SendBatchFails, calls, chunks, many
  <2>2. PICK k \in 0..Len(calls) : InvokeAll(SubSeq(calls, 1, k))
    BY <2>1
  <2> DEFINE made == SubSeq(calls, 1, k)
  <2>4. made \in Seq(Call) /\ Distinct(made) /\ Elems(made) \subseteq Elems(calls)
    BY <1>2, FirstCalls
  <2> HIDE DEF made
  <2>5. InvokeAll(made) /\ Elems(made) \cap Given = {}
    BY <1>2, <2>2, <2>4 DEF made
  <2>6. /\ lambdas' \subseteq Event /\ invoked' \in [Payloads -> Nat]
       /\ rerun' \subseteq Payloads /\ dropped' \subseteq Payloads
        /\ GivenOK' /\ Given' = Given \cup Elems(made)
    BY <1>1, <2>4, <2>5, InvokeAllKeeps
  <2>7. Disturbed'
    BY <2>1 DEF Disturbed
  <2> QED
    BY <1>1, <1>2, <1>4, <1>5, <2>1, <2>4, <2>6, <2>7, BatchTaken DEF chunks, many, F
<1> QED
  BY <1>6, <1>7

(* conn.send raises: only the processes before the broken pipe get theirs.   *)
LEMMA SendOnBrokenPipeStep ==
    ASSUME OneEach, SendOnBrokenPipe
    PROVE  OneEach'
<1> DEFINE chunks == Chunks(buffer)
           many == UseInvokerLambdas(buffer)
<1>1. /\ TypeOK /\ GivenOK /\ buffer # <<>> /\ buffer' = <<>> /\ loop' = "dead"
      /\ UNCHANGED <<work, process, sent, pleaseStop, events, invoked>>
      /\ waker' = FALSE /\ deadline' = "ahead"
  BY DEF OneEach, SendOnBrokenPipe, ChunksDue, NextDeadline
<1>2. PICK i \in Processes :
          /\ i + 1 <= Len(chunks)
          /\ pipe' = [j \in Processes |-> IF j < i THEN FillPipes(chunks, many)[j] ELSE pipe[j]]
  BY DEF SendOnBrokenPipe
<1> DEFINE F == {j \in Processes : j < i}
<1>3. chunks \in Seq(Seq(Payloads))
  BY <1>1, ChunksSplit DEF TypeOK
<1>4. \A j \in F : j + 1 \in DOMAIN chunks /\ j + 1 <= Len(chunks)
  <2>1. \A j \in Processes : j \in Nat
    BY InvokerAssumption DEF Processes
  <2>2. DOMAIN chunks = 1..Len(chunks) /\ Len(chunks) \in Nat
    BY <1>3
  <2> QED
    BY <1>2, <2>1, <2>2
<1>5. pipe' = [j \in Processes |->
                 IF j \in F THEN Append(pipe[j], Calls(chunks[j + 1], many)) ELSE pipe[j]]
  <2> HIDE DEF chunks, many
  <2>1. \A j \in F : FillPipes(chunks, many)[j] = Append(pipe[j], Calls(chunks[j + 1], many))
    BY <1>4 DEF FillPipes
  <2> QED
    BY <1>2, <2>1
<1> HIDE DEF chunks, many, F
<1>6. Given' = Given \cup {} /\ GivenOK'
  BY <1>1, GivenSame
<1>7. /\ lambdas' \subseteq Event /\ invoked' \in [Payloads -> Nat]
      /\ rerun' \subseteq Payloads /\ dropped' \subseteq Payloads
      /\ Disturbed' /\ F \subseteq Processes
  BY <1>1 DEF TypeOK, Disturbed, F, events
<1> QED
  BY <1>1, <1>4, <1>5, <1>6, <1>7, BatchTaken DEF chunks, many

(* Every payload sent is in one place, and there once, for any number of     *)
(* payloads and processes, whichever call fails and whenever the invoker is  *)
(* closed: the division into chunks, slices and messages neither repeats nor *)
(* forgets one, and only an Invoker Lambda that AWS runs again repeats what  *)
(* it had invoked, once per attempt.                                         *)
THEOREM OneEachHolds == Spec => []OneEach
<1>1. Init => OneEach
  <2> SUFFICES ASSUME Init PROVE OneEach
    OBVIOUS
  <2> USE DEF Init
  <2>1. TypeOK
    <3>1. <<>> \in Seq(Payloads) /\ <<>> \in Seq(Call) /\ <<>> \in Seq(Seq(Call))
      OBVIOUS
    <3>2. pipe \in [Processes -> Seq(Seq(Call))]
      BY <3>1
    <3>3. work \in [Processes -> Seq(Call)]
      BY <3>1
    <3>4. /\ process \in [Processes -> {"up", "dead", "terminated"}]
          /\ invoked \in [Payloads -> Nat]
      OBVIOUS
    <3> QED
      BY <3>1, <3>2, <3>3, <3>4 DEF TypeOK
  <2>2. \A i \in Processes : Messages(i) = << <<>> >>
    BY DEF Messages
  <2> DEFINE e == <<>>
             m == <<e>>
  <2>3. DOMAIN m = {1} /\ m[1] = e
    OBVIOUS
  <2>4. \A i \in Processes : Messages(i) = m
    BY <2>2
  <2>5. Distinct(e) /\ Elems(e) = {}
    BY EmptyMessage
  <2> HIDE DEF e, m
  <2>6. MessagesApart(m) /\ AllElems(m) = {}
    BY <2>3, <2>5 DEF MessagesApart, AllElems
  <2>7. PipesOK /\ InPipes = {}
    BY <2>4, <2>6 DEF PipesOK, InPipes, Carried
  <2>8. GivenOK /\ Given = {}
    BY InvokerAssumption DEF GivenOK, Given, InLambdas, Done
  <2>9. NoTwice(buffer) /\ ToSet(buffer) = {}
    BY DEF NoTwice, ToSet
  <2> QED
    BY <2>1, <2>7, <2>8, <2>9 DEF OneEach, PlacesOK
<1>2. OneEach /\ [Next]_vars => OneEach'
  <2> SUFFICES ASSUME OneEach, [Next]_vars PROVE OneEach'
    OBVIOUS
  <2>1. ASSUME NEW p \in Payloads, Send(p) PROVE OneEach'
    BY <2>1, SendStep
  <2>2. CASE DeadlinePasses \/ NothingToSend \/ TooEarly \/ UNCHANGED vars
    BY <2>2, QuietSteps
  <2>3. CASE SendBatch \/ SendBatchFails
    BY <2>3, SendBatchSteps
  <2>4. CASE SendOnBrokenPipe
    BY <2>4, SendOnBrokenPipeStep
  <2>5. CASE Close \/ Abort
    BY <2>5, StopStep DEF Close, Abort
  <2>6. ASSUME NEW i \in Processes, Receive(i) PROVE OneEach'
    BY <2>6, ReceiveStep
  <2>7. ASSUME NEW i \in Processes, InvokeNext(i) PROVE OneEach'
    BY <2>7, InvokeNextStep
  <2>8. ASSUME NEW i \in Processes, ProcessFails(i) PROVE OneEach'
    BY <2>8, ProcessFailsStep
  <2>9. ASSUME NEW l \in lambdas, InvokerLambda(l) PROVE OneEach'
    BY <2>9, InvokesStep, ReturnsStep, FailsStep DEF InvokerLambda
  <2> QED
    BY <2>1, <2>2, <2>3, <2>4, <2>5, <2>6, <2>7, <2>8, <2>9 DEF Next, BackgroundSend, ProcessStep
<1> QED
  BY <1>1, <1>2, PTL DEF Spec

LEMMA OneOrNone ==
    ASSUME NEW S, \A x, y \in S : x = y
    PROVE  /\ S = {} => Cardinality(S) = 0
           /\ S # {} => Cardinality(S) = 1
<1>1. S = {} => Cardinality(S) = 0
  BY FS_EmptySet
<1>2. ASSUME NEW x \in S PROVE Cardinality(S) = 1
  <2>1. S = {x}
    OBVIOUS
  <2> QED
    BY <2>1, FS_Singleton
<1> QED
  BY <1>1, <1>2

(* What EachInOnePlace counts, from where the payloads are.                  *)
LEMMA OneEachCounts ==
    ASSUME OneEach, NEW p \in sent
    PROVE  /\ invoked[p] <= Retries + 1
           /\ p \notin rerun => Occurrences(p) + invoked[p] <= 1
           /\ ~Disturbed /\ p \notin dropped => Occurrences(p) + invoked[p] >= 1
<1> DEFINE A == {j \in DOMAIN buffer : buffer[j] = p}
           Spot == UNION {Spots(i) : i \in Processes}
           B == {g \in Spot : PayloadAt(g[1], g[2]) = p}
           C == {l \in lambdas : p \in LeftOf(l)}
<1>1. TypeOK /\ NoTwice(buffer) /\ PipesOK /\ GivenOK /\ PlacesOK /\ p \in Payloads
  BY DEF OneEach, TypeOK
<1>2. (\A x, y \in A : x = y) /\ (A # {} <=> p \in ToSet(buffer))
  BY <1>1 DEF NoTwice, ToSet
<1>3. ASSUME NEW i \in Processes, NEW g \in Spots(i)
      PROVE  \E n \in DOMAIN Messages(i) : \E k \in DOMAIN Messages(i)[n] :
                \E j \in DOMAIN Messages(i)[n][k].payloads :
                   /\ g = <<<<i, n, k>>, j>>
                   /\ PayloadAt(g[1], g[2]) = Messages(i)[n][k].payloads[j]
  <2>1. PICK n \in DOMAIN Messages(i) : \E k \in DOMAIN Messages(i)[n] :
            g \in {<<i, n, k>>} \X DOMAIN Messages(i)[n][k].payloads
    BY DEF Spots
  <2>2. PICK k \in DOMAIN Messages(i)[n] : g \in {<<i, n, k>>} \X DOMAIN Messages(i)[n][k].payloads
    BY <2>1
  <2>3. PICK j \in DOMAIN Messages(i)[n][k].payloads : g = <<<<i, n, k>>, j>>
    BY <2>2
  <2>4. PayloadAt(g[1], g[2]) = Messages(i)[n][k].payloads[j]
    BY <2>3 DEF PayloadAt
  <2> QED
    BY <2>3, <2>4
<1>4. ASSUME NEW i \in Processes, NEW n \in DOMAIN Messages(i), NEW k \in DOMAIN Messages(i)[n],
             NEW j \in DOMAIN Messages(i)[n][k].payloads
      PROVE  /\ <<<<i, n, k>>, j>> \in Spots(i)
             /\ PayloadAt(<<i, n, k>>, j) = Messages(i)[n][k].payloads[j]
  BY DEF Spots, PayloadAt
<1>5. ASSUME NEW i \in Processes, NEW x
      PROVE  x \in Carried(i) <=>
                \E n \in DOMAIN Messages(i) : \E k \in DOMAIN Messages(i)[n] :
                   \E j \in DOMAIN Messages(i)[n][k].payloads : Messages(i)[n][k].payloads[j] = x
  <2>1. x \in Carried(i) <=> \E n \in DOMAIN Messages(i) : x \in Elems(Messages(i)[n])
    BY DEF Carried, AllElems
  <2>2. \A n \in DOMAIN Messages(i) : x \in Elems(Messages(i)[n]) <=>
            \E k \in DOMAIN Messages(i)[n] : x \in ToSet(Messages(i)[n][k].payloads)
    BY CallsElems
  <2> QED
    BY <2>1, <2>2 DEF ToSet
<1>6. B # {} <=> p \in InPipes
  <2>1. ASSUME NEW g \in B PROVE p \in InPipes
    <3>1. PICK i \in Processes : g \in Spots(i)
      OBVIOUS
    <3>2. PayloadAt(g[1], g[2]) = p
      OBVIOUS
    <3>3. p \in Carried(i)
      BY <1>3, <1>5, <3>1, <3>2
    <3> QED
      BY <3>3 DEF InPipes
  <2>2. ASSUME p \in InPipes PROVE B # {}
    <3>1. PICK i \in Processes : p \in Carried(i)
      BY <2>2 DEF InPipes
    <3>2. PICK n, k, j : /\ n \in DOMAIN Messages(i) /\ k \in DOMAIN Messages(i)[n]
                         /\ j \in DOMAIN Messages(i)[n][k].payloads
                         /\ Messages(i)[n][k].payloads[j] = p
      BY <1>5, <3>1
    <3> DEFINE g == <<<<i, n, k>>, j>>
    <3>3. g \in Spots(i) /\ PayloadAt(g[1], g[2]) = p
      BY <1>4, <3>2
    <3> HIDE DEF g
    <3>4. g \in B
      BY <3>3
    <3> QED
      BY <3>4
  <2> QED
    BY <2>1, <2>2
<1>7. \A g, h \in B : g = h
  <2> SUFFICES ASSUME NEW g \in B, NEW h \in B PROVE g = h
    OBVIOUS
  <2>1. PICK i \in Processes : g \in Spots(i)
    OBVIOUS
  <2>2. PICK a \in Processes : h \in Spots(a)
    OBVIOUS
  <2>3. PayloadAt(g[1], g[2]) = p /\ PayloadAt(h[1], h[2]) = p
    OBVIOUS
  <2>4. PICK n, k, j : /\ n \in DOMAIN Messages(i) /\ k \in DOMAIN Messages(i)[n]
                       /\ j \in DOMAIN Messages(i)[n][k].payloads
                       /\ g = <<<<i, n, k>>, j>> /\ Messages(i)[n][k].payloads[j] = p
    BY <1>3, <2>1, <2>3
  <2>5. PICK b, c, d : /\ b \in DOMAIN Messages(a) /\ c \in DOMAIN Messages(a)[b]
                       /\ d \in DOMAIN Messages(a)[b][c].payloads
                       /\ h = <<<<a, b, c>>, d>> /\ Messages(a)[b][c].payloads[d] = p
    BY <1>3, <2>2, <2>3
  <2>6. i = a
    <3>1. p \in Carried(i) /\ p \in Carried(a)
      BY <1>5, <2>4, <2>5
    <3> QED
      BY <1>1, <3>1 DEF PipesOK
  <2> DEFINE ms == Messages(i)
  <2>7. MessagesApart(ms)
    BY <1>1 DEF PipesOK
  <2>8. p \in ToSet(ms[n][k].payloads) /\ p \in ToSet(ms[b][c].payloads)
    BY <2>4, <2>5, <2>6 DEF ToSet
  <2>9. n = b
    <3>1. p \in Elems(ms[n]) /\ p \in Elems(ms[b])
      BY <2>4, <2>5, <2>6, <2>8, CallsElems
    <3> QED
      BY <2>4, <2>5, <2>6, <2>7, <3>1 DEF MessagesApart
  <2>10. k = c /\ NoTwice(ms[n][k].payloads)
    <3>1. Distinct(ms[n])
      BY <2>4, <2>7 DEF MessagesApart
    <3>2. k \in DOMAIN ms[n] /\ c \in DOMAIN ms[n]
      BY <2>4, <2>5, <2>6, <2>9
    <3>3. p \in ToSet(ms[n][k].payloads) /\ p \in ToSet(ms[n][c].payloads)
      BY <2>8, <2>9
    <3> HIDE DEF ms
    <3> QED
      BY <3>1, <3>2, <3>3, CallsElems
  <2>11. j = d
    BY <2>4, <2>5, <2>6, <2>9, <2>10 DEF NoTwice
  <2> QED
    BY <2>4, <2>5, <2>6, <2>9, <2>10, <2>11
<1>8. /\ \A x, y \in C : x = y
      /\ C # {} => p \in InLambdas /\ (p \in rerun \/ p \notin Done)
      /\ p \in InLambdas => C # {} \/ p \in Done
  <2>1. \A l \in lambdas : /\ EventOK(l) /\ l.done \in Nat /\ Len(l.payloads) \in Nat
                           /\ DOMAIN l.payloads = 1..Len(l.payloads)
                           /\ \A j \in DOMAIN l.payloads : l.payloads[j] \in Payloads
    BY TheEvent
  <2>2. \A l \in lambdas : LeftOf(l) \subseteq ToSet(l.payloads)
    BY <2>1 DEF LeftOf, ToSet
  <2>3. \A x, y \in C : x = y
    BY <1>1, <2>2 DEF GivenOK
  <2>4. ASSUME NEW l \in lambdas, p \in LeftOf(l) PROVE p \in rerun \/ p \notin Done
    <3>1. PICK j \in (l.done + 1)..Len(l.payloads) : l.payloads[j] = p
      BY <2>4 DEF LeftOf
    <3>2. j \in DOMAIN l.payloads /\ l.done < j
      BY <2>1
    <3> QED
      BY <2>1, <3>1, <3>2 DEF EventOK, Done
  <2>5. ASSUME p \in InLambdas PROVE C # {} \/ p \in Done
    <3>1. PICK l \in lambdas : p \in ToSet(l.payloads)
      BY <2>5 DEF InLambdas
    <3>2. PICK j \in DOMAIN l.payloads : l.payloads[j] = p
      BY <3>1 DEF ToSet
    <3>3. CASE j <= l.done
      BY <1>1, <2>1, <3>2, <3>3 DEF EventOK, Done
    <3>4. CASE ~(j <= l.done)
      <4>1. j \in (l.done + 1)..Len(l.payloads)
        BY <2>1, <3>4
      <4>2. p \in LeftOf(l)
        BY <3>2, <4>1 DEF LeftOf
      <4> QED
        BY <4>2
    <3> QED
      BY <3>3, <3>4
  <2> QED
    BY <2>2, <2>3, <2>4, <2>5 DEF InLambdas
<1>9. Occurrences(p) = Cardinality(A) + Cardinality(B) + Cardinality(C)
  BY DEF Occurrences
<1> HIDE DEF A, B, C, Spot
<1>10. /\ Cardinality(A) = IF p \in ToSet(buffer) THEN 1 ELSE 0
       /\ Cardinality(B) = IF p \in InPipes THEN 1 ELSE 0
       /\ Cardinality(C) = IF C # {} THEN 1 ELSE 0
  BY <1>2, <1>6, <1>7, <1>8, OneOrNone
<1>11. /\ invoked[p] \in Nat /\ (p \in Done <=> invoked[p] # 0)
       /\ invoked[p] <= Retries + 1 /\ (p \in rerun \/ invoked[p] <= 1)
  BY <1>1 DEF Done, GivenOK, TypeOK
<1>12. /\ ~(p \in ToSet(buffer) /\ p \in InPipes)
       /\ p \in ToSet(buffer) \cup InPipes => C = {} /\ p \notin Done
  BY <1>1, <1>8 DEF PlacesOK, Given
<1>13. ~Disturbed /\ p \notin dropped
         => p \in ToSet(buffer) \/ p \in InPipes \/ C # {} \/ p \in Done
  BY <1>1, <1>8 DEF PlacesOK, Given
<1>14. p \notin rerun => Occurrences(p) + invoked[p] <= 1
  BY <1>8, <1>9, <1>10, <1>11, <1>12
<1>15. ~Disturbed /\ p \notin dropped => Occurrences(p) + invoked[p] >= 1
  BY <1>9, <1>10, <1>11, <1>13
<1> QED
  BY <1>11, <1>14, <1>15

(* No payload is invoked twice unless its Invoker Lambda was run again, and  *)
(* none gets lost before something fails.                                    *)
THEOREM EachInOnePlaceHolds == Spec => []EachInOnePlace
<1>1. OneEach => EachInOnePlace
  BY OneEachCounts DEF EachInOnePlace
<1> QED
  BY <1>1, OneEachHolds, PTL
=============================================================================
