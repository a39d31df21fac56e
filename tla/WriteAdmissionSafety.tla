------------------------ MODULE WriteAdmissionSafety ------------------------
(***************************************************************************)
(* AdmissionInv is inductive, one lemma per action, and implies the safety *)
(* properties of the writer admission for any set of threads.              *)
(***************************************************************************)
EXTENDS WriteAdmissionProofs

(* The inductive step of AdmissionInv, one lemma per action.               *)

\* QueueMatchesTokens of the next state, from its queues.
LEMMA NextQueues ==
    ASSUME \A p \in Priorities : Distinct(waiting'[p]),
           \A v \in Writers, p \in Priorities :
             Has(waiting'[p], v) <=> HasToken(v)' /\ call'[v].priority = p
    PROVE  QueueMatchesTokens'
BY DEF QueueMatchesTokens, Has, Distinct

\* A registration: the new token goes to the back of its own queue, and its
\* owner leaves with the callback of the writer it outranks.
LEMMA RegisterStep ==
    ASSUME AdmissionInv, NEW w \in Writers, NEW c \in Asks \cap PendingCalls,
           Register(w, c), TypeOK'
    PROVE  AdmissionInv'
<1> USE DEF AdmissionInv
<1>1. c \in Calls /\ c.priority \in Priorities /\ c.priority \in Nat
  BY AskType DEF Calls, Priorities, Interactive, Maintenance
<1>2. /\ pc[w] = "idle"
      /\ pc' = [pc EXCEPT ![w] = "calling"] /\ pc'[w] = "calling"
      /\ call' = [call EXCEPT ![w] = c] /\ call'[w] = c
      /\ \A v \in Writers \ {w} : /\ pc'[v] = pc[v] /\ call'[v] = call[v]
                                  /\ calls'[v] = calls[v] /\ preempt'[v] = preempt[v]
      /\ preempt'[w] = PreemptionCallback(c.priority)
      /\ permit' = permit /\ active_priority' = active_priority
      /\ active_preempt' = active_preempt
      /\ completed_write_epoch' = completed_write_epoch
      /\ invoked' = invoked /\ watch' = watch /\ observed' = observed
  BY DEF Register, Begin, TypeOK
<1>3. /\ waiting'[c.priority] = Append(waiting[c.priority], w)
      /\ \A p \in Priorities \ {c.priority} : waiting'[p] = waiting[p]
  BY <1>1 DEF Register, TypeOK
<1>4. \A p \in Priorities : ~Has(waiting[p], w)
  BY <1>2 DEF QueueMatchesTokens, HasToken
<1>5. \A p \in Priorities : waiting[p] \in Seq(Writers) /\ Distinct(waiting[p])
  BY DEF TypeOK, QueueMatchesTokens
<1>6. ModeFits'
  BY <1>2 DEF ModeFits, PendingCalls, PendingModes
<1>7. SingleWriter'
  BY <1>2 DEF SingleWriter, Holds
<1>8. QueueMatchesTokens'
  <2>0. Distinct(Append(waiting[c.priority], w))
    BY <1>1, <1>4, <1>5, AppendQueue
  <2>1. \A p \in Priorities : Distinct(waiting'[p])
    BY <1>3, <1>5, <2>0
  <2>2. \A v \in Writers : HasToken(v)' <=> v = w \/ HasToken(v)
    BY <1>2 DEF HasToken
  <2>3. \A v \in Writers, p \in Priorities :
          Has(waiting'[p], v) <=> (v = w /\ p = c.priority) \/ Has(waiting[p], v)
    <3> SUFFICES ASSUME NEW v \in Writers, NEW p \in Priorities
                 PROVE  Has(waiting'[p], v)
                          <=> (v = w /\ p = c.priority) \/ Has(waiting[p], v)
      OBVIOUS
    <3>1. CASE p = c.priority
      BY <3>1, <1>3, <1>4, <1>5, AppendQueue
    <3>2. CASE p # c.priority
      BY <3>2, <1>3
    <3> QED
      BY <3>1, <3>2
  <2>4. \A v \in Writers, p \in Priorities :
          Has(waiting'[p], v) <=> HasToken(v)' /\ call'[v].priority = p
    <3> SUFFICES ASSUME NEW v \in Writers, NEW p \in Priorities
                 PROVE  Has(waiting'[p], v) <=> HasToken(v)' /\ call'[v].priority = p
      OBVIOUS
    <3>1. CASE v = w
      BY <3>1, <2>2, <2>3, <1>2, <1>4
    <3>2. CASE v # w
      BY <3>2, <2>2, <2>3, <1>2 DEF QueueMatchesTokens
    <3> QED
      BY <3>1, <3>2
  <2> QED
    BY <2>1, <2>4, NextQueues
<1>9. QueueIsFIFO'
  <2>0. /\ clock \in Nat /\ clock' = clock + 1 /\ ticket'[w] = clock + 1
        /\ \A v \in Writers : ticket[v] \in Nat /\ ticket[v] <= clock
        /\ \A v \in Writers \ {w} : ticket'[v] = ticket[v]
    BY DEF Register, Begin, QueueIsFIFO, TypeOK
  <2>1. \A v \in Writers : ticket'[v] <= clock'
    BY <2>0
  <2>2. ASSUME NEW p \in Priorities, NEW i \in 1..Len(waiting'[p]),
               NEW j \in 1..Len(waiting'[p]), i < j
        PROVE  ticket'[waiting'[p][i]] < ticket'[waiting'[p][j]]
    <3>1. /\ Len(waiting[p]) \in Nat
          /\ \A k \in 1..Len(waiting[p]) : waiting[p][k] \in Writers \ {w}
      BY <1>4, <1>5 DEF Has
    <3>2. CASE p # c.priority
      <4>1. waiting'[p] = waiting[p]
        BY <3>2, <1>3
      <4> QED
        BY <4>1, <2>2, <3>1, <2>0 DEF QueueIsFIFO, Sorted
    <3>3. CASE p = c.priority
      <4>1. /\ Len(waiting'[p]) = Len(waiting[p]) + 1
            /\ \A k \in 1..Len(waiting[p]) : waiting'[p][k] = waiting[p][k]
            /\ waiting'[p][Len(waiting[p]) + 1] = w
        BY <3>3, <1>3, <1>5, AppendProperties
      <4>2. i \in 1..Len(waiting[p])
        BY <2>2, <3>1, <4>1
      <4> DEFINE a == waiting[p][i]
      <4>5. waiting'[p][i] = a /\ a \in Writers \ {w}
        BY <4>1, <4>2, <3>1
      <4>6. ticket'[a] = ticket[a] /\ ticket[a] \in Nat /\ ticket[a] <= clock
        BY <4>5, <2>0
      <4>3. CASE j \in 1..Len(waiting[p])
        <5> DEFINE b == waiting[p][j]
        <5>1. waiting'[p][j] = b /\ b \in Writers \ {w}
          BY <4>1, <4>3, <3>1
        <5>2. ticket'[b] = ticket[b]
          BY <5>1, <2>0
        <5>3. ticket[a] < ticket[b]
          BY <4>2, <4>3, <2>2 DEF QueueIsFIFO, Sorted
        <5> QED
          BY <4>5, <4>6, <5>1, <5>2, <5>3
      <4>4. CASE j = Len(waiting[p]) + 1
        <5>1. waiting'[p][j] = w
          BY <4>1, <4>4
        <5> QED
          BY <4>5, <4>6, <5>1, <2>0
      <4> QED
        BY <4>1, <4>3, <4>4, <3>1
    <3> QED
      BY <3>2, <3>3
  <2> QED
    BY <2>1, <2>2 DEF QueueIsFIFO, Sorted
<1>10. CallingKnows' /\ ReservationBlocks'
  BY <1>2 DEF CallingKnows, ReservationBlocks, PreemptionCallback
<1>11. OutrankedWriterIsTold'
  BY <1>2 DEF OutrankedWriterIsTold
<1>12. NoLostWakeup'
  <2>1. ASSUME NEW v \in Writers, pc'[v] = "parked", CanAdmit(v)'
        PROVE  \E u \in Writers : pc'[u] \in {"permit_dropped", "token_dropped"}
    <3>1. v # w /\ pc[v] = "parked" /\ call'[v] = call[v]
      BY <2>1, <1>2
    <3>2. HasToken(v) /\ call[v].priority \in Priorities
      BY <3>1 DEF HasToken, TypeOK, Calls
    <3>3. \A q \in Priorities : q < call[v].priority => waiting[q] = << >>
      <4> SUFFICES ASSUME NEW q \in Priorities, q < call[v].priority
                   PROVE  waiting[q] = << >>
        OBVIOUS
      <4>1. waiting'[q] = << >>
        BY <2>1, <3>1 DEF CanAdmit
      <4>2. q # c.priority
        BY <4>1, <1>3, <1>4, <1>5, AppendQueue
      <4> QED
        BY <4>1, <4>2, <1>3
    <3>4. waiting[call[v].priority] # << >>
      BY <3>2 DEF QueueMatchesTokens, Has
    <3>5. Head(waiting[call[v].priority]) = v
      <4>1. Head(waiting'[call[v].priority]) = v
        BY <2>1, <3>1 DEF CanAdmit
      <4>2. CASE call[v].priority = c.priority
        BY <4>1, <4>2, <3>4, <1>3, <1>4, <1>5, <1>1, AppendQueue
      <4>3. CASE call[v].priority # c.priority
        BY <4>1, <4>3, <3>2, <1>3
      <4> QED
        BY <4>2, <4>3
    <3>6. CanAdmit(v)
      BY <2>1, <3>3, <3>4, <3>5, <1>2 DEF CanAdmit
    <3>7. PICK u \in Writers : pc[u] \in {"permit_dropped", "token_dropped"}
      BY <3>1, <3>6 DEF NoLostWakeup
    <3> QED
      BY <3>7, <1>2
  <2>2. \A u \in Watchers :
          watch'[u] = "parked" /\ observed'[u] # completed_write_epoch' =>
          \E v \in Writers : pc'[v] = "permit_dropped"
    BY <1>2 DEF NoLostWakeup
  <2> QED
    BY <2>1, <2>2 DEF NoLostWakeup
<1> QED
  BY <1>6, <1>7, <1>8, <1>9, <1>10, <1>11, <1>12
\* A step that leaves the queues and the ownership of tokens alone.
LEMMA QueuesKept ==
    ASSUME QueueMatchesTokens, QueueIsFIFO, UNCHANGED <<waiting, call, ticket, clock>>,
           \A v \in Writers : HasToken(v)' <=> HasToken(v)
    PROVE  QueueMatchesTokens' /\ QueueIsFIFO'
BY DEF QueueMatchesTokens, QueueIsFIFO, Has, Distinct, Sorted

\* The steps a writer takes without touching the shared state.
LEMMA LocalStep ==
    ASSUME AdmissionInv, NEW w \in Writers, TypeOK',
           \/ CallPreempt(w) \/ CallPreemptPanics(w) \/ Park(w) \/ TimeOut(w)
           \/ WaitTimesOut(w) \/ DropReservation(w)
    PROVE  AdmissionInv'
<1> USE DEF AdmissionInv
<1>1. /\ UNCHANGED <<permit, active_priority, active_preempt, waiting,
                     completed_write_epoch, call, calls, preempt, watch, observed,
                     ticket, clock>>
      /\ \A v \in Writers \ {w} : pc'[v] = pc[v]
      /\ invoked \subseteq invoked'
  BY DEF CallPreempt, CallPreemptPanics, Park, TimeOut, WaitTimesOut,
     DropReservation, state, TypeOK
<1>2. /\ pc[w] \in {"calling", "locking", "parked", "reserved"}
      /\ pc'[w] \in {"locking", "parked", "reserved", "retiring"}
      /\ pc'[w] = "reserved" => call[w].mode = "reserve"
      /\ pc'[w] \in {"locking", "parked"} =>
           \/ pc[w] = "calling" /\ call[w].mode # "reserve"
           \/ pc[w] \in {"locking", "parked"}
  BY DEF CallPreempt, CallPreemptPanics, Park, TimeOut, WaitTimesOut,
     DropReservation, TypeOK
<1>3. pc[w] = "calling" => call[w].mode \in PendingModes
  BY DEF ModeFits
<1>4. ModeFits'
  BY <1>1, <1>2, <1>3 DEF ModeFits, PendingModes
<1>5. SingleWriter'
  BY <1>1, <1>2 DEF SingleWriter, Holds
<1>6. \A v \in Writers : HasToken(v)' <=> HasToken(v)
  BY <1>1, <1>2 DEF HasToken
<1>7. QueueMatchesTokens' /\ QueueIsFIFO'
  BY <1>1, <1>6, QueuesKept
<1>8. CallingKnows' /\ ReservationBlocks'
  BY <1>1, <1>2 DEF CallingKnows, ReservationBlocks
<1>9. OutrankedWriterIsTold'
  <2> SUFFICES ASSUME NEW v \in Writers, pc'[v] \in {"locking", "parked", "reserved"},
                      permit = "active", call[v].priority < active_priority,
                      active_preempt # NoCallback
               PROVE  active_preempt \in invoked'
    BY <1>1 DEF OutrankedWriterIsTold
  <2>1. CASE pc[v] \in {"locking", "parked", "reserved"}
    BY <2>1, <1>1 DEF OutrankedWriterIsTold
  <2>2. CASE pc[v] = "calling"
    <3>1. v = w /\ CallPreempt(w)
      BY <2>2, <1>1 DEF CallPreempt, CallPreemptPanics, Park, TimeOut, WaitTimesOut,
         DropReservation, TypeOK
    <3>2. preempt[v] = active_preempt
      BY <2>2 DEF CallingKnows
    <3> QED
      BY <3>1, <3>2 DEF CallPreempt
  <2>3. v = w \/ pc[v] = pc'[v]
    BY <1>1
  <2> QED
    BY <2>1, <2>2, <2>3, <1>2
<1>10. NoLostWakeup'
  <2>1. \A v \in Writers : CanAdmit(v)' <=> CanAdmit(v)
    BY <1>1 DEF CanAdmit
  <2>2. pc'[w] = "parked" => ~CanAdmit(w)
    BY DEF CallPreempt, CallPreemptPanics, Park, TimeOut, WaitTimesOut,
       DropReservation, TypeOK
  <2>3. \A v \in Writers : pc'[v] = "parked" /\ CanAdmit(v) =>
          \E u \in Writers : pc[u] \in {"permit_dropped", "token_dropped"}
    BY <1>1, <2>2 DEF NoLostWakeup
  <2>4. \A u \in Writers : pc[u] \in {"permit_dropped", "token_dropped"} => pc'[u] = pc[u]
    BY <1>1, <1>2
  <2> QED
    BY <1>1, <2>1, <2>3, <2>4 DEF NoLostWakeup
<1> QED
  BY <1>4, <1>5, <1>7, <1>8, <1>9, <1>10

\* When the permit is taken, nobody outranks the taker: there is nobody left
\* to be told, and nobody can be admitted.
LEMMA Taken ==
    ASSUME AdmissionInv, NEW w \in Writers, TypeOK',
           permit = "free", permit' = "active", active_priority' = call'[w].priority,
           active_preempt' \in {NoCallback, <<w, calls'[w]>>},
           pc[w] # "permit_dropped", pc' = [pc EXCEPT ![w] = "holding"],
           \A v \in Writers \ {w} : call'[v] = call[v] /\ calls'[v] = calls[v],
           \A q \in Priorities : q < call'[w].priority => waiting[q] = << >>,
           UNCHANGED <<completed_write_epoch, watch, observed>>
    PROVE  /\ ModeFits' /\ SingleWriter' /\ CallingKnows' /\ ReservationBlocks'
           /\ OutrankedWriterIsTold' /\ NoLostWakeup'
<1> USE DEF AdmissionInv
<1>1. pc'[w] = "holding" /\ \A v \in Writers \ {w} : pc'[v] = pc[v]
  BY DEF TypeOK
<1>2. \A v \in Writers : ~Holds(v)
  BY DEF SingleWriter
<1>3. SingleWriter'
  BY <1>1, <1>2 DEF SingleWriter, Holds
<1>4. ModeFits'
  BY <1>1 DEF ModeFits
<1>5. \A v \in Writers \ {w} : HasToken(v) => ~(call'[v].priority < active_priority')
  <2> SUFFICES ASSUME NEW v \in Writers \ {w}, HasToken(v),
                      call'[v].priority < active_priority'
               PROVE  FALSE
    OBVIOUS
  <2>1. call[v].priority \in Priorities /\ call'[v] = call[v]
    BY DEF TypeOK, Calls
  <2>2. waiting[call[v].priority] = << >>
    BY <2>1
  <2>3. Has(waiting[call[v].priority], v)
    BY <2>1 DEF QueueMatchesTokens
  <2> QED
    BY <2>2, <2>3 DEF Has
<1>6. CallingKnows' /\ ReservationBlocks' /\ OutrankedWriterIsTold'
  <2>1. \A v \in Writers : pc'[v] \in {"calling", "locking", "parked", "reserved"} =>
          v # w /\ HasToken(v)
    BY <1>1 DEF HasToken
  <2>2. \A v \in Writers :
          pc'[v] = "permit_dropped" /\ call'[v].mode = "reserve" => v # w /\ HasToken(v)
    BY <1>1 DEF HasToken
  <2> QED
    BY <2>1, <2>2, <1>5 DEF CallingKnows, ReservationBlocks, OutrankedWriterIsTold
<1>7. NoLostWakeup'
  BY <1>1 DEF NoLostWakeup, CanAdmit
<1> QED
  BY <1>3, <1>4, <1>6, <1>7
\* The permit goes to the head of the highest queue, whose token leaves it.
LEMMA AdmitStep ==
    ASSUME AdmissionInv, NEW w \in Writers, Admit(w), TypeOK'
    PROVE  AdmissionInv'
<1> USE DEF AdmissionInv
<1> DEFINE p == call[w].priority
<1>1. /\ pc[w] = "locking" /\ CanAdmit(w)
      /\ UNCHANGED <<call, calls, completed_write_epoch, watch, observed, ticket, clock>>
      /\ pc' = [pc EXCEPT ![w] = "holding"]
      /\ permit' = "active" /\ active_priority' = call'[w].priority
      /\ active_preempt' = OwnCallback(w)
  BY DEF Admit, Activate
<1>2. /\ waiting' = [waiting EXCEPT ![p] = Tail(waiting[p])]
      /\ permit = "free" /\ waiting[p] # << >> /\ Head(waiting[p]) = w
      /\ \A q \in Priorities : q < p => waiting[q] = << >>
  BY DEF Admit, CanAdmit
<1>3. p \in Priorities /\ waiting[p] \in Seq(Writers) /\ Distinct(waiting[p])
  BY DEF TypeOK, Calls, QueueMatchesTokens
<1>4. active_preempt' \in {NoCallback, <<w, calls'[w]>>}
  BY <1>1 DEF OwnCallback
<1>5. /\ ModeFits' /\ SingleWriter' /\ CallingKnows' /\ ReservationBlocks'
      /\ OutrankedWriterIsTold' /\ NoLostWakeup'
  BY Zenon, <1>1, <1>2, <1>4, Taken
<1>6. /\ \A v \in Writers : Has(Tail(waiting[p]), v) <=> v # w /\ Has(waiting[p], v)
      /\ Distinct(Tail(waiting[p]))
      /\ Sorted(Tail(waiting[p]))
  BY <1>2, <1>3, TailQueue DEF QueueIsFIFO
<1>7. waiting'[p] = Tail(waiting[p]) /\ \A q \in Priorities \ {p} : waiting'[q] = waiting[q]
  BY <1>2, <1>3 DEF TypeOK
<1>8. QueueMatchesTokens'
  <2>1. \A v \in Writers : HasToken(v)' <=> v # w /\ HasToken(v)
    BY Zenon, <1>1 DEF HasToken, TypeOK, ModeFits
  <2>2. \A v \in Writers, q \in Priorities :
          Has(waiting'[q], v) <=> HasToken(v)' /\ call[v].priority = q
    BY <2>1, <1>6, <1>7 DEF QueueMatchesTokens
  <2>3. \A q \in Priorities : Distinct(waiting'[q])
    BY <1>6, <1>7 DEF QueueMatchesTokens
  <2> QED
    BY <1>1, <2>2, <2>3, NextQueues
<1>9. QueueIsFIFO'
  <2>1. \A q \in Priorities : Sorted(waiting'[q])
    BY <1>6, <1>7 DEF QueueIsFIFO
  <2> QED
    BY <1>1, <2>1 DEF QueueIsFIFO, Sorted
<1> QED
  BY <1>5, <1>8, <1>9

\* A reservation takes the permit and keeps its token.
LEMMA ReservedStep ==
    ASSUME AdmissionInv, NEW w \in Writers, ReservedTryAcquire(w), TypeOK'
    PROVE  AdmissionInv'
<1> USE DEF AdmissionInv
<1>1. /\ pc[w] = "reserved"
      /\ UNCHANGED <<call, calls, waiting, completed_write_epoch, watch, observed,
                     ticket, clock>>
      /\ pc' = [pc EXCEPT ![w] = "holding"]
      /\ permit' = "active" /\ active_priority' = call'[w].priority
      /\ active_preempt' = NoCallback
      /\ permit = "free"
      /\ \A q \in Priorities : q < call[w].priority => waiting[q] = << >>
  BY DEF ReservedTryAcquire, Activate, CanAdmit
<1>2. /\ ModeFits' /\ SingleWriter' /\ CallingKnows' /\ ReservationBlocks'
      /\ OutrankedWriterIsTold' /\ NoLostWakeup'
  BY Zenon, <1>1, Taken
<1>3. \A v \in Writers : HasToken(v)' <=> HasToken(v)
  BY <1>1 DEF HasToken, TypeOK, ModeFits
<1>4. QueueMatchesTokens' /\ QueueIsFIFO'
  BY <1>1, <1>3, QueuesKept
<1> QED
  BY <1>2, <1>4

\* A non-blocking attempt never owns a token.
LEMMA TryStep ==
    ASSUME AdmissionInv, NEW w \in Writers, NEW c \in Asks \cap TryCalls,
           TryAcquire(w, c), TypeOK'
    PROVE  AdmissionInv'
<1> USE DEF AdmissionInv
<1>1. c \in Calls /\ c.priority \in Priorities /\ c.mode # "reserve"
  BY AskType DEF Calls, TryCalls
<1>2. /\ pc[w] = "idle" /\ pc' = [pc EXCEPT ![w] = "holding"]
      /\ UNCHANGED <<waiting, completed_write_epoch, watch, observed>>
      /\ permit = "free" /\ permit' = "active" /\ active_priority' = call'[w].priority
      /\ active_preempt' = OwnCallback(w)
      /\ call' = [call EXCEPT ![w] = c] /\ call'[w] = c
      /\ \A v \in Writers \ {w} : call'[v] = call[v] /\ calls'[v] = calls[v]
      /\ \A q \in Priorities : q <= c.priority => waiting[q] = << >>
  BY DEF TryAcquire, Activate, Begin, TypeOK
<1>3. \A q \in Priorities : q < call'[w].priority => waiting[q] = << >>
  BY <1>1, <1>2 DEF Priorities, Interactive, Maintenance
<1>4. /\ ModeFits' /\ SingleWriter' /\ CallingKnows' /\ ReservationBlocks'
      /\ OutrankedWriterIsTold' /\ NoLostWakeup'
  BY <1>2, <1>3, Taken DEF OwnCallback
<1>5. \A v \in Writers : HasToken(v)' <=> HasToken(v)
  BY <1>1, <1>2 DEF HasToken, TypeOK
<1>6. ~HasToken(w)
  BY <1>2 DEF HasToken
<1>7. \A v \in Writers, p \in Priorities :
        Has(waiting[p], v) <=> HasToken(v)' /\ call'[v].priority = p
  <2>1. \A v \in Writers : HasToken(v) => call'[v] = call[v]
    BY <1>2, <1>6
  <2> QED
    BY <1>5, <2>1 DEF QueueMatchesTokens
<1>8. QueueMatchesTokens'
  <2>1. waiting' = waiting /\ \A p \in Priorities : Distinct(waiting[p])
    BY <1>2 DEF QueueMatchesTokens
  <2> QED
    BY <1>7, <2>1, NextQueues
<1>9. QueueIsFIFO'
  <2>1. /\ clock \in Nat /\ clock' = clock + 1 /\ ticket'[w] = clock + 1
        /\ \A v \in Writers : ticket[v] \in Nat /\ ticket[v] <= clock
        /\ \A v \in Writers \ {w} : ticket'[v] = ticket[v]
    BY DEF TryAcquire, Begin, QueueIsFIFO, TypeOK
  <2>2. \A p \in Priorities : \A i \in 1..Len(waiting[p]) : waiting[p][i] \in Writers \ {w}
    BY <1>6 DEF QueueMatchesTokens, Has, TypeOK
  <2>3. \A p \in Priorities : \A i, j \in 1..Len(waiting[p]) :
          i < j => ticket'[waiting[p][i]] < ticket'[waiting[p][j]]
    BY <2>1, <2>2 DEF QueueIsFIFO, Sorted
  <2>4. \A v \in Writers : ticket'[v] <= clock'
    BY <2>1
  <2> QED
    BY <1>2, <2>3, <2>4 DEF QueueIsFIFO, Sorted
<1> QED
  BY <1>4, <1>8, <1>9
\* A dropped token leaves its queue, and its owner is about to notify.
LEMMA RetireStep ==
    ASSUME AdmissionInv, NEW w \in Writers, Retire(w), TypeOK'
    PROVE  AdmissionInv'
<1> USE DEF AdmissionInv
<1> DEFINE p == call[w].priority
<1>1. /\ pc[w] = "retiring" /\ pc' = [pc EXCEPT ![w] = "token_dropped"]
      /\ pc'[w] = "token_dropped" /\ \A v \in Writers \ {w} : pc'[v] = pc[v]
      /\ UNCHANGED <<permit, active_priority, active_preempt, completed_write_epoch,
                     call, calls, preempt, invoked, watch, observed, ticket, clock>>
      /\ waiting' = [waiting EXCEPT ![p] = Retain(waiting[p], w)]
  BY DEF Retire, TypeOK
<1>2. p \in Priorities /\ waiting[p] \in Seq(Writers) /\ Distinct(waiting[p])
  BY DEF TypeOK, Calls, QueueMatchesTokens
<1>3. waiting'[p] = Retain(waiting[p], w)
      /\ \A q \in Priorities \ {p} : waiting'[q] = waiting[q]
  BY <1>1, <1>2 DEF TypeOK
<1>4. /\ \A v \in Writers : Has(Retain(waiting[p], w), v) <=> v # w /\ Has(waiting[p], v)
      /\ Distinct(Retain(waiting[p], w))
      /\ Sorted(Retain(waiting[p], w))
  BY <1>2, RetainQueue DEF QueueIsFIFO
<1>5. /\ ModeFits' /\ SingleWriter' /\ CallingKnows' /\ ReservationBlocks'
      /\ OutrankedWriterIsTold'
  BY <1>1 DEF ModeFits, SingleWriter, Holds, CallingKnows, ReservationBlocks,
     OutrankedWriterIsTold
<1>6. QueueMatchesTokens'
  <2>1. \A v \in Writers : HasToken(v)' <=> v # w /\ HasToken(v)
    BY <1>1 DEF HasToken
  <2>2. \A v \in Writers, q \in Priorities :
          Has(waiting'[q], v) <=> HasToken(v)' /\ call[v].priority = q
    BY <2>1, <1>3, <1>4 DEF QueueMatchesTokens
  <2>3. \A q \in Priorities : Distinct(waiting'[q])
    BY <1>3, <1>4 DEF QueueMatchesTokens
  <2> QED
    BY <1>1, <2>2, <2>3, NextQueues
<1>7. QueueIsFIFO'
  <2>1. \A q \in Priorities : Sorted(waiting'[q])
    BY <1>3, <1>4 DEF QueueIsFIFO
  <2> QED
    BY <1>1, <2>1 DEF QueueIsFIFO, Sorted
<1>8. NoLostWakeup'
  BY <1>1 DEF NoLostWakeup
<1> QED
  BY <1>5, <1>6, <1>7, <1>8

\* A dropped permit frees the admission, and its holder is about to notify.
LEMMA ReleaseStep ==
    ASSUME AdmissionInv, NEW w \in Writers, Release(w), TypeOK'
    PROVE  AdmissionInv'
<1> USE DEF AdmissionInv
<1>1. /\ pc[w] = "holding"
      /\ pc'[w] = "permit_dropped" /\ \A v \in Writers \ {w} : pc'[v] = pc[v]
      /\ permit' = "free"
      /\ UNCHANGED <<waiting, call, calls, preempt, invoked, watch, observed, ticket, clock>>
  BY DEF Release, TypeOK
<1>2. ModeFits' /\ CallingKnows' /\ ReservationBlocks' /\ OutrankedWriterIsTold'
  BY <1>1 DEF ModeFits, CallingKnows, ReservationBlocks, OutrankedWriterIsTold
<1>3. SingleWriter'
  BY <1>1 DEF SingleWriter, Holds
<1>4. \A v \in Writers : HasToken(v)' <=> HasToken(v)
  BY <1>1 DEF HasToken
<1>5. QueueMatchesTokens' /\ QueueIsFIFO'
  BY <1>1, <1>4, QueuesKept
<1>6. NoLostWakeup'
  BY <1>1 DEF NoLostWakeup
<1> QED
  BY <1>2, <1>3, <1>5, <1>6

\* notify_all leaves nobody parked.
LEMMA NotifyStep ==
    ASSUME AdmissionInv, NEW w \in Writers, NotifyAll(w), TypeOK'
    PROVE  AdmissionInv'
<1> USE DEF AdmissionInv
<1>1. /\ pc[w] \in {"permit_dropped", "token_dropped"}
      /\ UNCHANGED <<permit, active_priority, active_preempt, waiting,
                     completed_write_epoch, call, calls, preempt, invoked, observed,
                     ticket, clock>>
  BY DEF NotifyAll, state
<1>2. /\ pc[w] = "permit_dropped" /\ call[w].mode = "reserve" => pc'[w] = "reserved"
      /\ ~(pc[w] = "permit_dropped" /\ call[w].mode = "reserve") => pc'[w] = "idle"
      /\ \A v \in Writers \ {w} :
           pc'[v] = IF pc[v] = "parked" THEN "locking" ELSE pc[v]
      /\ \A v \in Watchers : watch'[v] # "parked"
  BY DEF NotifyAll, TypeOK
<1>3. ModeFits'
  BY <1>1, <1>2 DEF ModeFits
<1>4. SingleWriter'
  BY <1>1, <1>2 DEF SingleWriter, Holds
<1>5. \A v \in Writers : HasToken(v)' <=> HasToken(v)
  BY <1>1, <1>2 DEF HasToken
<1>6. QueueMatchesTokens' /\ QueueIsFIFO'
  BY <1>1, <1>5, QueuesKept
<1>7. CallingKnows' /\ ReservationBlocks'
  BY <1>1, <1>2 DEF CallingKnows, ReservationBlocks
<1>8. OutrankedWriterIsTold'
  BY <1>1, <1>2 DEF OutrankedWriterIsTold, ReservationBlocks
<1>9. NoLostWakeup'
  BY <1>2 DEF NoLostWakeup
<1> QED
  BY <1>3, <1>4, <1>6, <1>7, <1>8, <1>9
\* A watcher parks only while its epoch has not moved.
LEMMA WatchStep ==
    ASSUME AdmissionInv, NEW v \in Watchers, WatcherStep(v), TypeOK'
    PROVE  AdmissionInv'
<1> USE DEF AdmissionInv
<1>1. /\ UNCHANGED <<permit, active_priority, active_preempt, waiting,
                     completed_write_epoch, pc, call, calls, preempt, invoked, ticket,
                     clock>>
      /\ \A u \in Watchers \ {v} : watch'[u] = watch[u] /\ observed'[u] = observed[u]
      /\ watch'[v] = "parked" => observed'[v] = completed_write_epoch
  BY DEF WatcherStep, ObserveEpoch, WatchPark, WatchReturn, WatchTimesOut, state, TypeOK
<1>2. \A w \in Writers : (HasToken(w)' <=> HasToken(w)) /\ (CanAdmit(w)' <=> CanAdmit(w))
  BY <1>1 DEF HasToken, CanAdmit
<1>3. QueueMatchesTokens' /\ QueueIsFIFO'
  BY <1>1, <1>2, QueuesKept
<1>4. /\ ModeFits' /\ SingleWriter' /\ CallingKnows' /\ ReservationBlocks'
      /\ OutrankedWriterIsTold'
  BY <1>1 DEF ModeFits, SingleWriter, Holds, CallingKnows, ReservationBlocks,
     OutrankedWriterIsTold
<1>5. NoLostWakeup'
  BY <1>1, <1>2 DEF NoLostWakeup
<1> QED
  BY <1>3, <1>4, <1>5

\* A step that changes nothing.
LEMMA StutterStep ==
    ASSUME AdmissionInv, UNCHANGED vars
    PROVE  AdmissionInv'
BY DEF AdmissionInv, TypeOK, ModeFits, SingleWriter, Holds, QueueMatchesTokens,
   HasToken, QueueIsFIFO, Has, Distinct, Sorted, CallingKnows, ReservationBlocks,
   OutrankedWriterIsTold, NoLostWakeup, CanAdmit, vars, state

\* AdmissionInv is inductive.
LEMMA AdmissionStep == AdmissionInv /\ [Next]_vars => AdmissionInv'
<1> SUFFICES ASSUME AdmissionInv, [Next]_vars PROVE AdmissionInv'
  OBVIOUS
<1>1. TypeOK'
  BY TypeStep DEF AdmissionInv
<1>2. CASE UNCHANGED vars
  BY <1>2, StutterStep
<1>3. ASSUME NEW w \in Writers, WriterStep(w)
      PROVE  AdmissionInv'
  BY <1>1, <1>3, LocalStep, AdmitStep, RetireStep, ReservedStep, ReleaseStep, NotifyStep
     DEF WriterStep
<1> QED
  BY <1>1, <1>2, <1>3, RegisterStep, TryStep, WatchStep DEF Next

\* The inductive invariant holds in every reachable state.
THEOREM AdmissionCorrect == Spec => []AdmissionInv
<1>1. Init => TypeOK
  BY DEF Init, TypeOK, Callbacks, Calls, Modes, NoCall, Priorities, Interactive,
     Maintenance, Places
<1>2. Init => AdmissionInv
  BY <1>1 DEF Init, AdmissionInv, ModeFits, SingleWriter, Holds, QueueMatchesTokens,
     HasToken, QueueIsFIFO, Has, Distinct, Sorted, CallingKnows, ReservationBlocks,
     OutrankedWriterIsTold, NoLostWakeup
<1> QED
  BY <1>2, AdmissionStep, PTL DEF Spec

\* Writers exclude one another, whatever their number and their calls.
THEOREM MutualExclusion == Spec => []SingleWriter
<1>1. AdmissionInv => SingleWriter
  BY DEF AdmissionInv
<1> QED
  BY <1>1, AdmissionCorrect, PTL

\* Tokens are queued exactly while they are owned.
THEOREM TokensMatch == Spec => []QueueMatchesTokens
<1>1. AdmissionInv => QueueMatchesTokens
  BY DEF AdmissionInv
<1> QED
  BY <1>1, AdmissionCorrect, PTL

\* No wakeup is lost between the release of the mutex and notify_all.
THEOREM WakeupsKept == Spec => []NoLostWakeup
<1>1. AdmissionInv => NoLostWakeup
  BY DEF AdmissionInv
<1> QED
  BY <1>1, AdmissionCorrect, PTL

\* A preemptible writer that is outranked has been told to yield.
THEOREM PreemptionTold == Spec => []OutrankedWriterIsTold
<1>1. AdmissionInv => OutrankedWriterIsTold
  BY DEF AdmissionInv
<1> QED
  BY <1>1, AdmissionCorrect, PTL

\* Priorities are numbers.
LEMMA PriorityIsNat == \A p \in Priorities : p \in Nat
  BY DEF Priorities, Interactive, Maintenance

\* The permit goes by priority, then by order of registration.
THEOREM OrderKept == Spec => AdmissionOrder
<1> DEFINE A == \A v, w \in Writers :
                  /\ pc[w] # "holding" /\ pc'[w] = "holding"
                  /\ v # w /\ HasToken(v)
                  => ~Outranks(v, w)
<1>1. AdmissionInv /\ [Next]_vars => [A]_vars
  <2> SUFFICES ASSUME AdmissionInv, Next, NEW v \in Writers, NEW w \in Writers,
                      pc[w] # "holding", pc'[w] = "holding", v # w, HasToken(v),
                      Outranks(v, w)
               PROVE  FALSE
    OBVIOUS
  <2> USE DEF AdmissionInv
  <2>1. /\ call[v].priority \in Priorities /\ Has(waiting[call[v].priority], v)
        /\ waiting[call[v].priority] # << >>
    BY DEF QueueMatchesTokens, TypeOK, Calls, Has
  <2>2. CASE Admit(w) \/ ReservedTryAcquire(w)
    <3>1. UNCHANGED <<call, ticket>> /\ CanAdmit(w)
      BY <2>2 DEF Admit, ReservedTryAcquire
    <3>2. call[v].priority = call[w].priority /\ ticket[v] < ticket[w]
      BY <2>1, <3>1 DEF Outranks, CanAdmit
    <3>3. PICK i \in 1..Len(waiting[call[v].priority]) : waiting[call[v].priority][i] = v
      BY <2>1 DEF Has
    <3>4. waiting[call[v].priority] \in Seq(Writers) /\ waiting[call[v].priority][1] = w
      BY <2>1, <3>1, <3>2 DEF CanAdmit, TypeOK
    <3>5. i # 1 /\ 1 \in 1..Len(waiting[call[v].priority]) /\ 1 < i
      BY <3>3, <3>4
    <3>6. ticket[w] < ticket[v]
      BY <2>1, <3>3, <3>4, <3>5 DEF QueueIsFIFO, Sorted
    <3> QED
      BY <3>2, <3>6 DEF TypeOK
  <2>3. ASSUME NEW c \in Asks \cap TryCalls, TryAcquire(w, c)
        PROVE  FALSE
    <3>1. call'[w] = c /\ call'[v] = call[v] /\ pc[w] = "idle"
      BY <2>3 DEF TryAcquire, Begin, TypeOK
    <3>2. ~(call[v].priority <= c.priority)
      BY <2>1, <2>3 DEF TryAcquire
    <3>3. c.priority \in Priorities
      BY AskType DEF Calls
    <3>4. call[v].priority \in Nat /\ c.priority \in Nat
      BY <2>1, <3>3, PriorityIsNat
    <3>5. call[v].priority < c.priority \/ call[v].priority = c.priority
      BY <3>1 DEF Outranks
    <3> QED
      BY <3>2, <3>4, <3>5
  <2>4. (Admit(w) \/ ReservedTryAcquire(w)) \/ \E c \in Asks \cap TryCalls : TryAcquire(w, c)
    <3>1. ASSUME NEW u \in Writers, NEW c \in Asks \cap PendingCalls, Register(u, c)
          PROVE  FALSE
      BY <3>1 DEF Register, TypeOK
    <3>2. ASSUME NEW u \in Writers, NEW c \in Asks \cap TryCalls, TryAcquire(u, c)
          PROVE  u = w
      BY <3>2 DEF TryAcquire, TypeOK
    <3>3. ASSUME NEW u \in Writers, WriterStep(u)
          PROVE  u = w /\ (Admit(u) \/ ReservedTryAcquire(u))
      <4>1. CASE Admit(u) \/ ReservedTryAcquire(u)
        BY <4>1 DEF Admit, ReservedTryAcquire, TypeOK
      <4>2. CASE NotifyAll(u)
        BY <4>2 DEF NotifyAll, TypeOK
      <4>3. CASE \/ CallPreempt(u) \/ CallPreemptPanics(u) \/ Park(u) \/ TimeOut(u)
                 \/ WaitTimesOut(u) \/ Retire(u) \/ DropReservation(u) \/ Release(u)
        BY <4>3 DEF CallPreempt, CallPreemptPanics, Park, TimeOut, WaitTimesOut,
           Retire, DropReservation, Release, TypeOK
      <4> QED
        BY <3>3, <4>1, <4>2, <4>3 DEF WriterStep
    <3>4. ASSUME NEW u \in Watchers, WatcherStep(u)
          PROVE  FALSE
      BY <3>4 DEF WatcherStep, ObserveEpoch, WatchPark, WatchReturn, WatchTimesOut
    <3> QED
      BY <3>1, <3>2, <3>3, <3>4 DEF Next
  <2> QED
    BY <2>2, <2>3, <2>4
<1> QED
  BY <1>1, AdmissionCorrect, PTL DEF Spec, AdmissionOrder
=============================================================================
