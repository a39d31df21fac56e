------------------------ MODULE WriteAdmissionProofs ------------------------
(***************************************************************************)
(* Proofs about the writer admission, for any set of threads and any       *)
(* bounds: what the queue operations do, and type correctness.             *)
(***************************************************************************)
EXTENDS WriteAdmission, SequenceTheorems, TLAPS

\* Dropping a token from a queue of writers leaves a queue of writers.
LEMMA RetainType ==
    ASSUME NEW s \in Seq(Writers), NEW w \in Writers
    PROVE  Retain(s, w) \in Seq(Writers)
<1>1. CASE ~\E i \in 1..Len(s) : s[i] = w
  BY <1>1 DEF Retain
<1>2. CASE \E i \in 1..Len(s) : s[i] = w
  <2> DEFINE k == CHOOSE i \in 1..Len(s) : s[i] = w
  <2>1. k \in 1..Len(s) /\ s[k] = w
    BY <1>2
  <2>2. Retain(s, w) = [i \in 1..(Len(s) - 1) |-> IF i < k THEN s[i] ELSE s[i + 1]]
    BY <1>2 DEF Retain
  <2> HIDE DEF k
  <2>3. Len(s) - 1 \in Nat
    BY <2>1
  <2>4. \A i \in 1..(Len(s) - 1) : (IF i < k THEN s[i] ELSE s[i + 1]) \in Writers
    BY <2>1
  <2> QED
    BY <2>2, <2>3, <2>4
<1> QED
  BY <1>1, <1>2

\* What is left in a queue when the token of w is dropped: everyone else, once,
\* in the same order.
LEMMA RetainQueue ==
    ASSUME NEW s \in Seq(Writers), NEW w \in Writers, Distinct(s)
    PROVE  /\ \A v \in Writers : Has(Retain(s, w), v) <=> v # w /\ Has(s, v)
           /\ Distinct(Retain(s, w))
           /\ Sorted(s) => Sorted(Retain(s, w))
<1>1. CASE ~Has(s, w)
  <2>1. Retain(s, w) = s
    BY <1>1 DEF Retain, Has
  <2> QED
    BY <1>1, <2>1 DEF Has
<1>2. CASE Has(s, w)
  <2> DEFINE k == CHOOSE i \in 1..Len(s) : s[i] = w
             r == [i \in 1..(Len(s) - 1) |-> IF i < k THEN s[i] ELSE s[i + 1]]
             up(i) == IF i < k THEN i ELSE i + 1
  <2>1. k \in 1..Len(s) /\ s[k] = w
    BY <1>2 DEF Has
  <2>2. Retain(s, w) = r
    BY <1>2 DEF Retain, Has
  <2> HIDE DEF k
  <2>3. Len(s) - 1 \in Nat /\ Len(r) = Len(s) - 1
    BY <2>1
  <2>4. \A i \in 1..Len(r) : up(i) \in 1..Len(s) /\ up(i) # k /\ r[i] = s[up(i)]
    BY <2>1, <2>3
  <2>5. \A i, j \in 1..Len(r) : (up(i) = up(j) => i = j) /\ (i < j => up(i) < up(j))
    BY <2>1, <2>3
  <2>6. \A i \in 1..Len(s) : i # k =>
          \E j \in 1..Len(r) : up(j) = i
    <3> SUFFICES ASSUME NEW i \in 1..Len(s), i # k
                 PROVE  \E j \in 1..Len(r) : up(j) = i
      OBVIOUS
    <3>1. CASE i < k
      BY <3>1, <2>1, <2>3
    <3>2. CASE i > k
      <4>1. i - 1 \in 1..Len(r) /\ up(i - 1) = i
        BY <3>2, <2>1, <2>3
      <4> QED
        BY <4>1
    <3> QED
      BY <3>1, <3>2, <2>1
  <2>7. \A i \in 1..Len(s) : s[i] = w => i = k
    BY <2>1 DEF Distinct
  <2> HIDE DEF r, up
  <2>8. \A v \in Writers : Has(r, v) <=> v # w /\ Has(s, v)
    BY Zenon, <2>1, <2>4, <2>6, <2>7 DEF Has
  <2>9. Distinct(r)
    BY <2>4, <2>5 DEF Distinct
  <2>10. Sorted(s) => Sorted(r)
    BY <2>4, <2>5 DEF Sorted
  <2> QED
    BY <2>2, <2>8, <2>9, <2>10
<1> QED
  BY <1>1, <1>2

\* What is left when the front of a queue is admitted.
LEMMA TailQueue ==
    ASSUME NEW s \in Seq(Writers), s # << >>, Distinct(s)
    PROVE  /\ Tail(s) \in Seq(Writers)
           /\ \A v \in Writers : Has(Tail(s), v) <=> v # Head(s) /\ Has(s, v)
           /\ Distinct(Tail(s))
           /\ Sorted(s) => Sorted(Tail(s))
<1>1. /\ Tail(s) \in Seq(Writers) /\ Len(Tail(s)) = Len(s) - 1
      /\ \A i \in 1..Len(Tail(s)) : Tail(s)[i] = s[i + 1]
  BY HeadTailProperties
<1>2. Len(s) \in Nat /\ Len(s) >= 1 /\ Head(s) = s[1]
  OBVIOUS
<1>3. \A i \in 1..Len(s) : s[i] = Head(s) => i = 1
  BY <1>2 DEF Distinct
<1>4. \A v \in Writers : Has(Tail(s), v) => v # Head(s) /\ Has(s, v)
  BY <1>1, <1>2, <1>3 DEF Has
<1>5. \A v \in Writers : v # Head(s) /\ Has(s, v) => Has(Tail(s), v)
  <2> SUFFICES ASSUME NEW v \in Writers, v # Head(s), NEW i \in 1..Len(s), s[i] = v
               PROVE  \E j \in 1..Len(Tail(s)) : Tail(s)[j] = v
    BY DEF Has
  <2>1. i # 1
    BY <1>2
  <2>2. i - 1 \in 1..Len(Tail(s)) /\ Tail(s)[i - 1] = v
    BY <1>1, <1>2, <2>1
  <2> QED
    BY <2>2
<1>6. Distinct(Tail(s))
  <2> SUFFICES ASSUME NEW i \in 1..Len(Tail(s)), NEW j \in 1..Len(Tail(s)),
                      Tail(s)[i] = Tail(s)[j]
               PROVE  i = j
    BY DEF Distinct
  <2>1. i + 1 \in 1..Len(s) /\ j + 1 \in 1..Len(s) /\ s[i + 1] = s[j + 1]
    BY <1>1, <1>2
  <2>2. i + 1 = j + 1
    BY <2>1 DEF Distinct
  <2> QED
    BY <2>2
<1>7. Sorted(s) => Sorted(Tail(s))
  <2> SUFFICES ASSUME Sorted(s), NEW i \in 1..Len(Tail(s)),
                      NEW j \in 1..Len(Tail(s)), i < j
               PROVE  ticket[Tail(s)[i]] < ticket[Tail(s)[j]]
    BY DEF Sorted
  <2>1. i + 1 \in 1..Len(s) /\ j + 1 \in 1..Len(s) /\ i + 1 < j + 1
    BY <1>1, <1>2
  <2>2. ticket[s[i + 1]] < ticket[s[j + 1]]
    BY <2>1 DEF Sorted
  <2> QED
    BY <1>1, <2>2
<1> QED
  BY <1>1, <1>4, <1>5, <1>6, <1>7

\* What a registration adds to a queue.
LEMMA AppendQueue ==
    ASSUME NEW s \in Seq(Writers), NEW w \in Writers, Distinct(s), ~Has(s, w)
    PROVE  /\ Append(s, w) \in Seq(Writers)
           /\ \A v \in Writers : Has(Append(s, w), v) <=> v = w \/ Has(s, v)
           /\ Distinct(Append(s, w))
           /\ s # << >> => Head(Append(s, w)) = Head(s)
           /\ s = << >> => Head(Append(s, w)) = w
           /\ Append(s, w) # << >>
<1>1. /\ Append(s, w) \in Seq(Writers) /\ Append(s, w) # << >>
      /\ Len(Append(s, w)) = Len(s) + 1
      /\ \A i \in 1..Len(s) : Append(s, w)[i] = s[i]
      /\ Append(s, w)[Len(s) + 1] = w
  BY AppendProperties
<1>2. Len(s) \in Nat
  OBVIOUS
<1>3. \A v \in Writers : Has(Append(s, w), v) <=> v = w \/ Has(s, v)
  BY <1>1, <1>2 DEF Has
<1>4. Distinct(Append(s, w))
  BY <1>1, <1>2 DEF Distinct, Has
<1>5. (s # << >> => Head(Append(s, w)) = Head(s)) /\ (s = << >> => Head(Append(s, w)) = w)
  BY <1>1, <1>2
<1> QED
  BY <1>1, <1>3, <1>4, <1>5

\* A call is one of the calls of the type.
LEMMA AskType == Asks \subseteq Calls
BY AdmissionAssumption DEF Calls, PendingCalls, TryCalls, Modes, Priorities,
   Lanes, Interactive, Maintenance

\* What beginning a call does to the state that describes it.
LEMMA BeginType ==
    ASSUME TypeOK, NEW w \in Writers, NEW c \in Calls, Begin(w, c)
    PROVE  /\ call' \in [Writers -> Calls] /\ call'[w] = c
           /\ calls' \in [Writers -> Nat]
           /\ ticket' \in [Writers -> Nat]
           /\ clock' \in Nat
<1>1. call' \in [Writers -> Calls] /\ call'[w] = c
  BY DEF Begin, TypeOK
<1>2. calls' \in [Writers -> Nat]
  BY DEF Begin, TypeOK
<1>3. clock' \in Nat /\ ticket' \in [Writers -> Nat]
  BY DEF Begin, TypeOK
<1> QED
  BY <1>1, <1>2, <1>3

\* Every step keeps the state well typed.
LEMMA TypeStep == TypeOK /\ [Next]_vars => TypeOK'
<1> USE DEF Priorities, Interactive, Maintenance, Places
<1> SUFFICES ASSUME TypeOK, [Next]_vars PROVE TypeOK'
  OBVIOUS
<1> USE DEF TypeOK
<1>1. ASSUME NEW w \in Writers, NEW c \in Asks \cap PendingCalls, Register(w, c)
      PROVE  TypeOK'
  <2>1. c \in Calls
    BY AskType
  <2>2. waiting' \in [Priorities -> Seq(Writers)]
    BY <1>1, <2>1 DEF Register, Calls
  <2>3. PreemptionCallback(c.priority) \in Callbacks
    BY DEF PreemptionCallback, Callbacks
  <2>4. Begin(w, c)
    BY <1>1 DEF Register
  <2> QED
    BY Zenon, <1>1, <2>1, <2>2, <2>3, <2>4, BeginType DEF Register
<1>2. ASSUME NEW w \in Writers, NEW c \in Asks \cap TryCalls, TryAcquire(w, c)
      PROVE  TypeOK'
  <2>1. c \in Calls
    BY AskType
  <2>2. c.priority \in Priorities
    BY <2>1 DEF Calls
  <2>3. Begin(w, c)
    BY <1>2 DEF TryAcquire
  <2>4. OwnCallback(w) \in Callbacks
    BY Zenon, <2>1, <2>3, BeginType DEF OwnCallback, Callbacks
  <2> QED
    BY Zenon, <1>2, <2>1, <2>2, <2>3, <2>4, BeginType DEF TryAcquire, Activate
<1>3. ASSUME NEW w \in Writers, WriterStep(w)
      PROVE  TypeOK'
  <2>0. call[w] \in Calls /\ call[w].priority \in Priorities
    BY DEF Calls
  <2>1. CASE CallPreempt(w)
    BY <2>1 DEF CallPreempt, state, Callbacks
  <2>2. CASE CallPreemptPanics(w) \/ Park(w) \/ TimeOut(w) \/ WaitTimesOut(w)
             \/ DropReservation(w)
    BY Zenon, <2>2 DEF CallPreemptPanics, Park, TimeOut, WaitTimesOut,
       DropReservation, state
  <2>3. CASE Admit(w)
    <3>1. OwnCallback(w) \in Callbacks
      BY <2>3 DEF Admit, OwnCallback, Callbacks
    <3>2. waiting' \in [Priorities -> Seq(Writers)]
      <4>1. Tail(waiting[call[w].priority]) \in Seq(Writers)
        BY Zenon, <2>0, <2>3, HeadTailProperties DEF Admit, CanAdmit
      <4> QED
        BY Zenon, <2>0, <2>3, <4>1 DEF Admit
    <3> QED
      BY Zenon, <2>0, <2>3, <3>1, <3>2 DEF Admit, Activate
  <2>4. CASE Retire(w)
    <3>1. Retain(waiting[call[w].priority], w) \in Seq(Writers)
      BY Zenon, <2>0, RetainType
    <3> QED
      BY <2>0, <2>4, <3>1 DEF Retire
  <2>5. CASE ReservedTryAcquire(w)
    BY <2>0, <2>5 DEF ReservedTryAcquire, Activate, Callbacks
  <2>6. CASE Release(w)
    <3>1. completed_write_epoch' \in Nat
      BY <2>6 DEF Release
    <3>2. pc' \in [Writers -> Places]
      BY <2>6 DEF Release
    <3>3. active_priority' \in Priorities
      BY <2>6 DEF Release
    <3> QED
      BY Zenon, <2>6, <3>1, <3>2, <3>3 DEF Release, Callbacks
  <2>7. CASE NotifyAll(w)
    BY <2>7 DEF NotifyAll, state
  <2> QED
    BY Zenon, <1>3, <2>1, <2>2, <2>3, <2>4, <2>5, <2>6, <2>7 DEF WriterStep
<1>4. ASSUME NEW v \in Watchers, WatcherStep(v)
      PROVE  TypeOK'
  BY Zenon, <1>4 DEF WatcherStep, ObserveEpoch, WatchPark, WatchReturn,
     WatchTimesOut, state
<1>5. CASE UNCHANGED vars
  BY <1>5 DEF vars, state
<1> QED
  BY Zenon, <1>1, <1>2, <1>3, <1>4, <1>5 DEF Next

\* The type invariant holds in every reachable state.
THEOREM TypeCorrect == Spec => []TypeOK
<1>1. Init => TypeOK
  BY DEF Init, TypeOK, Callbacks, Calls, Modes, NoCall, Priorities, Interactive,
     Maintenance, Places
<1> QED
  BY <1>1, TypeStep, PTL DEF Spec
=============================================================================
