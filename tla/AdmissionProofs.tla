--------------------------- MODULE AdmissionProofs ---------------------------
(***************************************************************************)
(* Proofs about module Admission, for any set of requests, any number of   *)
(* runtime threads and any limits.                                         *)
(***************************************************************************)
EXTENDS Admission, FiniteSetTheorems, TLAPS

\* The requests that f puts at a stage of S.
At(f, S) == {r \in Req : f[r] \in S}

\* Moving one request to stage s changes how many are at the stages of S by
\* that request alone.
LEMMA MoveCounts ==
  ASSUME NEW f \in [Req -> Stage], NEW r \in Req, NEW s \in Stage, NEW S,
         NEW g, g[r] = s, \A q \in Req : q # r => g[q] = f[q],
         IsFiniteSet(At(f, S))
  PROVE  /\ IsFiniteSet(At(g, S))
         /\ Cardinality(At(f, S)) \in Nat /\ Cardinality(At(g, S)) \in Nat
         /\ f[r] \notin S /\ s \in S
              => Cardinality(At(g, S)) = Cardinality(At(f, S)) + 1
         /\ f[r] \in S /\ s \notin S
              => /\ Cardinality(At(g, S)) = Cardinality(At(f, S)) - 1
                 /\ Cardinality(At(f, S)) > 0
         /\ (f[r] \in S <=> s \in S)
              => Cardinality(At(g, S)) = Cardinality(At(f, S))
<1>1. Cardinality(At(f, S)) \in Nat
  BY FS_CardinalityType
<1>2. CASE f[r] \notin S /\ s \in S
  <2>1. At(g, S) = At(f, S) \cup {r} /\ r \notin At(f, S)
    BY <1>2 DEF At
  <2>2. /\ IsFiniteSet(At(f, S) \cup {r})
        /\ Cardinality(At(f, S) \cup {r}) = Cardinality(At(f, S)) + 1
    BY <2>1, FS_AddElement, Zenon
  <2>3. /\ IsFiniteSet(At(g, S))
        /\ Cardinality(At(g, S)) = Cardinality(At(f, S)) + 1
    BY <2>1, <2>2, Zenon
  <2>4. QED
    BY <1>1, <1>2, <2>3
<1>3. CASE f[r] \in S /\ s \notin S
  <2>1. At(g, S) = At(f, S) \ {r} /\ r \in At(f, S)
    BY <1>3 DEF At
  <2>2. /\ IsFiniteSet(At(g, S))
        /\ Cardinality(At(g, S)) = Cardinality(At(f, S)) - 1
    BY <2>1, FS_RemoveElement
  <2>3. Cardinality(At(g, S)) \in Nat
    BY <2>2, FS_CardinalityType
  <2>4. QED
    BY <1>1, <1>3, <2>2, <2>3
<1>4. CASE f[r] \in S <=> s \in S
  <2>1. At(g, S) = At(f, S)
    BY <1>4 DEF At
  <2>2. QED
    BY <1>1, <1>4, <2>1
<1>5. QED
  BY <1>2, <1>3, <1>4

-----------------------------------------------------------------------------
(* The connection slots.                                                   *)

\* The stages a request has before or after nothing of it is counted.
Begun == Stage \ {"new"}

\* The slots are accounted for, the requests that have begun are finitely
\* many, and the tasks between the load and the add are as many as threads
\* run them.
SlotInv ==
  /\ TypeOK
  /\ IsFiniteSet(At(st, Begun))
  /\ SlotsAccounted
  /\ Count({"loaded"}) <= Workers
  /\ OvershootBounded

\* The number of requests at stages that follow "new" is a number.
LEMMA Counted ==
  ASSUME IsFiniteSet(At(st, Begun)), NEW S, S \subseteq Begun
  PROVE  /\ IsFiniteSet(At(st, S))
         /\ Count(S) = Cardinality(At(st, S)) /\ Count(S) \in Nat
<1>1. At(st, S) \subseteq At(st, Begun)
  BY DEF At
<1>2. IsFiniteSet(At(st, S))
  BY <1>1, FS_Subset
<1>3. QED
  BY <1>2, FS_CardinalityType DEF At, Count

\* How a move changes the two numbers the invariant speaks of.
LEMMA Moved ==
  ASSUME TypeOK, IsFiniteSet(At(st, Begun)), NEW r \in Req, NEW s \in Stage,
         s # "new", Move(r, s)
  PROVE  /\ IsFiniteSet(At(st', Begun))
         /\ Count(Holding) \in Nat /\ Count(Holding)' \in Nat
         /\ Count({"loaded"}) \in Nat /\ Count({"loaded"})' \in Nat
         /\ st[r] \notin Holding /\ s \in Holding
              => Count(Holding)' = Count(Holding) + 1
         /\ st[r] \in Holding /\ s \notin Holding
              => Count(Holding)' = Count(Holding) - 1 /\ Count(Holding) > 0
         /\ (st[r] \in Holding <=> s \in Holding)
              => Count(Holding)' = Count(Holding)
         /\ st[r] # "loaded" /\ s = "loaded"
              => Count({"loaded"})' = Count({"loaded"}) + 1
         /\ st[r] = "loaded" /\ s # "loaded"
              => Count({"loaded"})' = Count({"loaded"}) - 1 /\ Count({"loaded"}) > 0
         /\ (st[r] = "loaded" <=> s = "loaded")
              => Count({"loaded"})' = Count({"loaded"})
<1>1. /\ st \in [Req -> Stage] /\ st'[r] = s
      /\ \A q \in Req : q # r => st'[q] = st[q]
  BY DEF TypeOK, Move
<1>2. Holding \subseteq Begun /\ {"loaded"} \subseteq Begun
  BY DEF Holding, Begun, Stage
<1>3. /\ IsFiniteSet(At(st, Holding)) /\ IsFiniteSet(At(st, {"loaded"}))
      /\ Count(Holding) = Cardinality(At(st, Holding))
      /\ Count({"loaded"}) = Cardinality(At(st, {"loaded"}))
  BY <1>2, Counted
<1>4. /\ Count(Holding)' = Cardinality(At(st', Holding))
      /\ Count({"loaded"})' = Cardinality(At(st', {"loaded"}))
  BY DEF Count, At, Holding
<1>5. IsFiniteSet(At(st', Begun))
  BY <1>1, MoveCounts
<1>6. ASSUME NEW S, IsFiniteSet(At(st, S))
      PROVE  /\ Cardinality(At(st, S)) \in Nat /\ Cardinality(At(st', S)) \in Nat
             /\ st[r] \notin S /\ s \in S
                  => Cardinality(At(st', S)) = Cardinality(At(st, S)) + 1
             /\ st[r] \in S /\ s \notin S
                  => /\ Cardinality(At(st', S)) = Cardinality(At(st, S)) - 1
                     /\ Cardinality(At(st, S)) > 0
             /\ (st[r] \in S <=> s \in S)
                  => Cardinality(At(st', S)) = Cardinality(At(st, S))
  BY <1>1, <1>6, MoveCounts
<1>7. QED
  BY <1>3, <1>4, <1>5, <1>6

\* Initially no request has begun.
LEMMA SlotInit == Init => SlotInv
<1> SUFFICES ASSUME Init PROVE SlotInv
  OBVIOUS
<1> USE AdmissionAssumption
<1>1. TypeOK
  BY DEF Init, TypeOK, Stage
<1>2. \A S : S \subseteq Begun => At(st, S) = {}
  BY DEF Init, At, Begun
<1>3. Holding \subseteq Begun /\ {"loaded"} \subseteq Begun /\ Begun \subseteq Begun
  BY DEF Holding, Begun, Stage
<1>4. IsFiniteSet(At(st, Begun))
  BY <1>2, <1>3, FS_EmptySet
<1>5. Count(Holding) = 0 /\ Count({"loaded"}) = 0
  BY <1>2, <1>3, FS_EmptySet DEF Count, At
<1>6. QED
  BY <1>1, <1>4, <1>5 DEF SlotInv, SlotsAccounted, OvershootBounded, Init

\* Types and slots are kept by every step.
LEMMA SlotStep == SlotInv /\ [Next]_vars => SlotInv'
<1> SUFFICES ASSUME SlotInv, [Next]_vars PROVE SlotInv'
  OBVIOUS
<1> USE AdmissionAssumption
<1>0. /\ TypeOK /\ IsFiniteSet(At(st, Begun))
      /\ total = Count(Holding) /\ total \in Nat
      /\ Count({"loaded"}) <= Workers
      /\ total + Count({"loaded"}) <= MaxTotal + Workers - 1
      /\ now \in 0..MaxTime
  BY DEF SlotInv, SlotsAccounted, OvershootBounded, TypeOK
\* What is left to show of a step that moves a request ...
<1>1. ASSUME TypeOK', IsFiniteSet(At(st', Begun)),
             total' = Count(Holding)', Count({"loaded"})' <= Workers,
             total' + Count({"loaded"})' <= MaxTotal + Workers - 1
      PROVE  SlotInv'
  BY <1>1 DEF SlotInv, SlotsAccounted, OvershootBounded
\* ... and of one that moves none.
<1>2. ASSUME TypeOK', st' = st, total' = total PROVE SlotInv'
  <2>1. Count(Holding)' = Count(Holding) /\ Count({"loaded"})' = Count({"loaded"})
    BY <1>2 DEF Count
  <2>2. QED
    BY <1>0, <1>1, <1>2, <2>1
<1>3. ASSUME NEW r \in Req, Load(r) PROVE SlotInv'
  <2>1. CASE total >= MaxTotal
    <3>1. Move(r, "done") /\ total' = total /\ st[r] = "new"
      BY <1>3, <2>1 DEF Load
    <3>2. TypeOK'
      BY <1>0, <1>3, <3>1 DEF Load, Move, TypeOK, Stage
    <3>3. QED
      BY <1>0, <1>1, <3>1, <3>2, Moved DEF Stage, Holding
  <2>2. CASE total < MaxTotal
    <3>1. /\ Move(r, "loaded") /\ total' = total /\ st[r] = "new"
          /\ Count({"loaded"}) < Workers
      BY <1>0, <1>3, <2>2 DEF Load
    <3>2. TypeOK'
      BY <1>0, <1>3, <3>1 DEF Load, Move, TypeOK, Stage
    <3>3. /\ IsFiniteSet(At(st', Begun)) /\ Count(Holding)' = Count(Holding)
          /\ Count({"loaded"}) \in Nat
          /\ Count({"loaded"})' = Count({"loaded"}) + 1
      BY <1>0, <3>1, Moved DEF Stage, Holding
    <3>4. QED
      BY <1>0, <1>1, <2>2, <3>1, <3>2, <3>3
  <2>3. QED
    BY <1>0, <2>1, <2>2
<1>4. ASSUME NEW r \in Req, Acquire(r) PROVE SlotInv'
  <2>1. Move(r, "slot") /\ total' = total + 1 /\ st[r] = "loaded"
    BY <1>4 DEF Acquire
  <2>2. TypeOK'
    BY <1>0, <1>4, <2>1 DEF Acquire, Move, TypeOK, Stage
  <2>3. /\ IsFiniteSet(At(st', Begun)) /\ Count(Holding)' = Count(Holding) + 1
        /\ Count({"loaded"}) \in Nat
        /\ Count({"loaded"})' = Count({"loaded"}) - 1
    BY <1>0, <2>1, Moved DEF Stage, Holding
  <2>4. QED
    BY <1>0, <1>1, <2>1, <2>2, <2>3
\* A slot given back.
<1>5. ASSUME NEW r \in Req, st[r] \in Holding, Move(r, "done"), total' = total - 1
      PROVE  /\ total > 0 /\ (TypeOK' => SlotInv')
  <2>1. /\ IsFiniteSet(At(st', Begun)) /\ Count(Holding)' = Count(Holding) - 1
        /\ Count(Holding) > 0 /\ Count({"loaded"}) \in Nat
        /\ Count({"loaded"})' = Count({"loaded"})
    BY <1>0, <1>5, Moved DEF Stage, Holding
  <2>2. QED
    BY <1>0, <1>1, <1>5, <2>1
\* A slot kept.
<1>6. ASSUME NEW r \in Req, NEW s \in Holding, st[r] \in Holding, Move(r, s),
             total' = total, TypeOK'
      PROVE  SlotInv'
  <2>1. /\ IsFiniteSet(At(st', Begun)) /\ Count(Holding)' = Count(Holding)
        /\ Count({"loaded"})' = Count({"loaded"})
    BY <1>0, <1>6, Moved DEF Stage, Holding
  <2>2. QED
    BY <1>0, <1>1, <1>6, <2>1
<1>7. ASSUME NEW r \in Req, RateLimit(r) PROVE SlotInv'
  <2>1. st[r] = "slot" /\ ip[r] \in Ip
    BY <1>0, <1>7 DEF RateLimit, TypeOK
  <2>2. Fresh(ip[r]) \in SUBSET (Req \X (0..MaxTime))
    BY <1>0, <2>1 DEF Fresh, TypeOK
  <2>3. CASE Cardinality(Fresh(ip[r])) >= Limit
    <3>1. Move(r, "done") /\ total' = total - 1
      BY <1>7, <2>3 DEF RateLimit
    <3>2. stamps' = [stamps EXCEPT ![ip[r]] = Fresh(ip[r])]
      BY <1>7, <2>3 DEF RateLimit
    <3>3. total > 0
      BY <1>5, <2>1, <3>1 DEF Holding
    <3>4. TypeOK'
      BY <1>0, <1>7, <2>2, <2>3, <3>1, <3>2, <3>3 DEF RateLimit, Move, TypeOK, Stage
    <3>5. QED
      BY <1>5, <2>1, <3>1, <3>4 DEF Holding
  <2>4. CASE ~(Cardinality(Fresh(ip[r])) >= Limit)
    <3>1. Move(r, "upgrade") /\ total' = total
      BY <1>7, <2>4 DEF RateLimit
    <3>2. /\ stamps' = [stamps EXCEPT ![ip[r]] = Fresh(ip[r]) \cup {<<r, now>>}]
          /\ log' = log \cup {<<r, ip[r], now>>}
      BY <1>7, <2>4 DEF RateLimit
    <3>3. Fresh(ip[r]) \cup {<<r, now>>} \in SUBSET (Req \X (0..MaxTime))
      BY <1>0, <2>2
    <3>4. log' \subseteq Req \X Ip \X (0..MaxTime)
      BY <1>0, <2>1, <3>2 DEF TypeOK
    <3>5. TypeOK'
      BY <1>0, <1>7, <3>1, <3>2, <3>3, <3>4 DEF RateLimit, Move, TypeOK, Stage
    <3>6. QED
      BY <1>6, <2>1, <3>1, <3>5 DEF Holding
  <2>5. QED
    BY <2>3, <2>4
<1>8. ASSUME NEW r \in Req, Upgrade(r) \/ HangUpEarly(r) PROVE SlotInv'
  <2>1. TypeOK'
    BY <1>0, <1>8 DEF Upgrade, HangUpEarly, Move, TypeOK, Stage
  <2>2. QED
    BY <1>6, <1>8, <2>1 DEF Upgrade, HangUpEarly, Holding
<1>9. ASSUME NEW r \in Req, Ping(r) PROVE SlotInv'
  <2>1. misses[r] \in 0..MaxMisses /\ st[r] = "open"
    BY <1>0, <1>9 DEF Ping, TypeOK
  <2>2. CASE misses[r] + 1 > MaxMisses
    <3>1. Move(r, "done") /\ total' = total - 1 /\ misses' = misses
      BY <1>9, <2>2 DEF Ping, Close
    <3>2. total > 0
      BY <1>5, <2>1, <3>1 DEF Holding
    <3>3. TypeOK'
      BY <1>0, <1>9, <3>1, <3>2 DEF Ping, Move, TypeOK, Stage
    <3>4. QED
      BY <1>5, <2>1, <3>1, <3>3 DEF Holding
  <2>3. CASE ~(misses[r] + 1 > MaxMisses)
    <3>1. /\ misses' = [misses EXCEPT ![r] = @ + 1] /\ st' = st /\ total' = total
      BY <1>9, <2>3 DEF Ping
    <3>2. misses' \in [Req -> 0..MaxMisses]
      BY <1>0, <2>1, <2>3, <3>1 DEF TypeOK
    <3>3. TypeOK'
      BY <1>0, <1>9, <3>1, <3>2 DEF Ping, TypeOK
    <3>4. QED
      BY <1>2, <3>1, <3>3
  <2>4. QED
    BY <2>2, <2>3
<1>10. ASSUME NEW r \in Req, Hangup(r) PROVE SlotInv'
  <2>1. Move(r, "done") /\ total' = total - 1 /\ st[r] = "open"
    BY <1>10 DEF Hangup, Close
  <2>2. total > 0
    BY <1>5, <2>1 DEF Holding
  <2>3. TypeOK'
    BY <1>0, <1>10, <2>1, <2>2 DEF Hangup, Move, TypeOK, Stage
  <2>4. QED
    BY <1>5, <2>1, <2>3 DEF Holding
<1>11. ASSUME NEW r \in Req, Frame(r) \/ FallSilent(r) PROVE SlotInv'
  <2>1. TypeOK'
    BY <1>0, <1>11 DEF Frame, FallSilent, TypeOK
  <2>2. QED
    BY <1>2, <1>11, <2>1 DEF Frame, FallSilent
<1>12. CASE Tick
  <2>1. TypeOK'
    BY <1>0, <1>12 DEF Tick, TypeOK
  <2>2. QED
    BY <1>2, <1>12, <2>1 DEF Tick
<1>13. CASE UNCHANGED vars
  <2>1. TypeOK'
    BY <1>0, <1>13 DEF vars, TypeOK
  <2>2. QED
    BY <1>2, <1>13, <2>1 DEF vars
<1>14. QED
  BY <1>3, <1>4, <1>7, <1>8, <1>9, <1>10, <1>11, <1>12, <1>13 DEF Next

\* The slot invariant always holds.
LEMMA SlotAlways == Spec => []SlotInv
  BY SlotInit, SlotStep, PTL DEF Spec

\* Every variable keeps its type; in particular the unsigned counter of
\* release_connection never wraps below zero.
THEOREM TypeCorrect == Spec => []TypeOK
<1>1. SlotInv => TypeOK
  BY DEF SlotInv
<1>2. QED
  BY <1>1, SlotAlways, PTL

\* The counter is the number of slots taken, through every refusal, lost
\* upgrade, missed ping and hang-up.
THEOREM SlotsAlwaysAccounted == Spec => []SlotsAccounted
<1>1. SlotInv => SlotsAccounted
  BY DEF SlotInv
<1>2. QED
  BY <1>1, SlotAlways, PTL

\* The connection limit is passed by at most one less than the number of
\* threads, however load and add interleave.
THEOREM OvershootAlwaysBounded == Spec => []OvershootBounded
<1>1. SlotInv => OvershootBounded
  BY DEF SlotInv
<1>2. QED
  BY <1>1, SlotAlways, PTL

-----------------------------------------------------------------------------
(* The rate limit.                                                         *)

\* The acceptances of address a in the window that ends at t.
Recent(a, t) == {e \in log : e[2] = a /\ e[3] > t - Window /\ e[3] <= t}

\* What the limiter still remembers covers every acceptance of the current
\* window: retain drops only stamps no later window can contain.
RateInv ==
  /\ IsFiniteSet(log)
  /\ \A a \in Ip : IsFiniteSet(stamps[a])
  /\ \A e \in log : e[3] <= now
  /\ \A e \in log : e[3] > now - Window => <<e[1], e[3]>> \in stamps[e[2]]
  /\ RateLimited

\* A window that ends now or later holds no more old acceptances than the
\* limiter has stamps to show for.
LEMMA Remembered ==
  ASSUME TypeOK, RateInv, NEW a \in Ip, NEW t \in 0..MaxTime, t >= now
  PROVE  /\ IsFiniteSet(Recent(a, t)) /\ IsFiniteSet(Fresh(a))
         /\ Cardinality(Recent(a, t)) <= Cardinality(Fresh(a))
<1> USE AdmissionAssumption
<1> DEFINE R == Recent(a, t)
           h == [e \in R |-> <<e[1], e[3]>>]
<1>1. now \in 0..MaxTime /\ log \subseteq Req \X Ip \X (0..MaxTime)
  BY DEF TypeOK
<1>2. ASSUME NEW e \in R
      PROVE  /\ e[2] = a /\ e[3] \in 0..MaxTime /\ e = <<e[1], e[2], e[3]>>
             /\ <<e[1], e[3]>> \in Fresh(a)
  <2>1. e \in log /\ e[2] = a /\ e[3] > t - Window
    BY DEF Recent
  <2>2. e \in Req \X Ip \X (0..MaxTime)
    BY <1>1, <2>1
  <2>3. e[3] \in 0..MaxTime /\ e = <<e[1], e[2], e[3]>>
    BY <2>2
  <2>4. e[3] > now - Window
    BY <1>1, <2>1, <2>3
  <2>5. <<e[1], e[3]>> \in stamps[a]
    BY <2>1, <2>4 DEF RateInv
  <2>6. QED
    BY <2>1, <2>3, <2>4, <2>5 DEF Fresh
<1>3. h \in [R -> Fresh(a)]
  BY <1>2
<1>4. ASSUME NEW e \in R, NEW g \in R, h[e] = h[g] PROVE e = g
  <2>1. e[1] = g[1] /\ e[3] = g[3]
    BY <1>4
  <2>2. QED
    BY <1>2, <2>1
<1>5. h \in Injection(R, Fresh(a))
  BY <1>3, <1>4 DEF Injection, IsInjective
<1>6. Fresh(a) \subseteq stamps[a] /\ IsFiniteSet(stamps[a])
  BY DEF Fresh, RateInv
<1>7. IsFiniteSet(Fresh(a))
  BY <1>6, FS_Subset
<1> HIDE DEF h
<1>8. QED
  BY <1>5, <1>7, FS_Injection

\* Every step keeps the limit of every window and the memory of the limiter.
LEMMA RateStep == TypeOK /\ TypeOK' /\ RateInv /\ [Next]_vars => RateInv'
<1> SUFFICES ASSUME TypeOK, TypeOK', RateInv, [Next]_vars PROVE RateInv'
  OBVIOUS
<1> USE AdmissionAssumption
<1>0. now \in 0..MaxTime /\ log \subseteq Req \X Ip \X (0..MaxTime)
  BY DEF TypeOK
<1>1. CASE UNCHANGED <<now, stamps, log>>
  BY <1>1 DEF RateInv, RateLimited
<1>2. CASE Tick
  <2>1. now' = now + 1 /\ stamps' = stamps /\ log' = log
    BY <1>2 DEF Tick
  <2>2. \A e \in log : e[3] \in 0..MaxTime
    BY <1>0
  <2>3. \A e \in log : e[3] <= now + 1 /\ (e[3] > now + 1 - Window => e[3] > now - Window)
    BY <1>0, <2>2 DEF RateInv
  <2>4. \A e \in log : e[3] > now + 1 - Window => <<e[1], e[3]>> \in stamps[e[2]]
    BY <2>3 DEF RateInv
  <2>5. RateLimited'
    BY <2>1 DEF RateInv, RateLimited
  <2>6. /\ \A e \in log' : e[3] <= now'
        /\ \A e \in log' : e[3] > now' - Window => <<e[1], e[3]>> \in stamps'[e[2]]
    BY <1>0, <2>1, <2>2, <2>3, <2>4
  <2>7. QED
    BY <2>1, <2>5, <2>6 DEF RateInv
<1>3. ASSUME NEW r \in Req, RateLimit(r) PROVE RateInv'
  <2> DEFINE a == ip[r]
  <2>1. a \in Ip /\ now' = now
    BY <1>3 DEF RateLimit, TypeOK
  <2>2. /\ \A b \in Ip : IsFiniteSet(stamps[b])
        /\ Fresh(a) \subseteq stamps[a] /\ stamps \in [Ip -> SUBSET (Req \X (0..MaxTime))]
    BY DEF RateInv, Fresh, TypeOK
  <2>3. IsFiniteSet(Fresh(a))
    BY <2>1, <2>2, FS_Subset
  \* An old acceptance of the current window keeps its stamp.
  <2>4. ASSUME NEW e \in log, e[3] > now - Window, Fresh(a) \subseteq stamps'[a],
               \A b \in Ip : b # a => stamps'[b] = stamps[b]
        PROVE  <<e[1], e[3]>> \in stamps'[e[2]]
    <3>1. e[2] \in Ip /\ <<e[1], e[3]>> \in stamps[e[2]]
      BY <1>0, <2>4 DEF RateInv
    <3>2. CASE e[2] = a
      BY <2>4, <3>1, <3>2 DEF Fresh
    <3>3. QED
      BY <2>4, <3>1, <3>2
  <2>5. CASE Cardinality(Fresh(a)) >= Limit
    <3>1. stamps' = [stamps EXCEPT ![a] = Fresh(a)] /\ log' = log
      BY <1>3, <2>5 DEF RateLimit
    <3>2. stamps'[a] = Fresh(a) /\ \A b \in Ip : b # a => stamps'[b] = stamps[b]
      BY <2>1, <2>2, <3>1
    <3>3. \A b \in Ip : IsFiniteSet(stamps'[b])
      BY <2>2, <2>3, <3>2
    <3>4. \A e \in log : e[3] > now - Window => <<e[1], e[3]>> \in stamps'[e[2]]
      BY <2>4, <3>2
    <3>5. QED
      BY <2>1, <3>1, <3>3, <3>4 DEF RateInv, RateLimited
  <2>6. CASE ~(Cardinality(Fresh(a)) >= Limit)
    <3> DEFINE new == <<r, a, now>>
    <3>1. /\ stamps' = [stamps EXCEPT ![a] = Fresh(a) \cup {<<r, now>>}]
          /\ log' = log \cup {new}
      BY <1>3, <2>6 DEF RateLimit
    <3>2. /\ stamps'[a] = Fresh(a) \cup {<<r, now>>}
          /\ \A b \in Ip : b # a => stamps'[b] = stamps[b]
      BY <2>1, <2>2, <3>1
    <3>3. IsFiniteSet(Fresh(a) \cup {<<r, now>>}) /\ IsFiniteSet(log \cup {new})
      BY <2>3, FS_AddElement DEF RateInv
    <3>4. /\ IsFiniteSet(log') /\ \A b \in Ip : IsFiniteSet(stamps'[b])
      BY <2>2, <3>1, <3>2, <3>3
    <3>5. new[1] = r /\ new[2] = a /\ new[3] = now
      OBVIOUS
    <3> HIDE DEF new
    <3>6. \A e \in log' : e[3] <= now'
      BY <1>0, <2>1, <3>1, <3>5 DEF RateInv
    <3>7. \A e \in log' : e[3] > now' - Window => <<e[1], e[3]>> \in stamps'[e[2]]
      <4>1. <<new[1], new[3]>> \in stamps'[new[2]]
        BY <3>2, <3>5
      <4>2. \A e \in log : e[3] > now - Window => <<e[1], e[3]>> \in stamps'[e[2]]
        BY <2>4, <3>2
      <4>3. QED
        BY <2>1, <3>1, <4>1, <4>2
    <3>8. ASSUME NEW b \in Ip, NEW t \in 0..MaxTime
          PROVE  Cardinality({e \in log' : e[2] = b /\ e[3] > t - Window /\ e[3] <= t})
                   <= Limit
      <4> DEFINE W == {e \in log' : e[2] = b /\ e[3] > t - Window /\ e[3] <= t}
      <4>1. Cardinality(Recent(b, t)) <= Limit
        BY DEF RateInv, RateLimited, Recent
      <4>2. CASE b = a /\ t >= now
        <5>1. /\ IsFiniteSet(Recent(a, t))
              /\ Cardinality(Recent(a, t)) <= Cardinality(Fresh(a))
          BY <2>1, <4>2, Remembered
        <5>2. /\ Cardinality(Recent(a, t)) \in Nat /\ Cardinality(Fresh(a)) \in Nat
          BY <2>3, <5>1, FS_CardinalityType
        <5>3. /\ IsFiniteSet(Recent(a, t) \cup {new})
              /\ Cardinality(Recent(a, t) \cup {new}) <= Cardinality(Recent(a, t)) + 1
          <6>1. /\ IsFiniteSet(Recent(a, t) \cup {new})
                /\ \/ Cardinality(Recent(a, t) \cup {new}) = Cardinality(Recent(a, t))
                   \/ Cardinality(Recent(a, t) \cup {new})
                        = Cardinality(Recent(a, t)) + 1
            BY <5>1, FS_AddElement, Zenon
          <6>2. QED
            BY <5>2, <6>1
        <5>4. Cardinality(Recent(a, t) \cup {new}) <= Limit
          <6>1. Cardinality(Recent(a, t) \cup {new}) \in Nat
            BY <5>3, FS_CardinalityType
          <6>2. QED
            BY <2>6, <5>1, <5>2, <5>3, <6>1
        <5>5. W \subseteq Recent(a, t) \cup {new}
          BY <3>1, <4>2 DEF Recent
        <5>6. Cardinality(W) <= Cardinality(Recent(a, t) \cup {new})
          BY <5>3, <5>5, FS_Subset
        <5>7. Cardinality(W) \in Nat /\ Cardinality(Recent(a, t) \cup {new}) \in Nat
          BY <5>3, <5>5, FS_Subset, FS_CardinalityType
        <5>8. QED
          BY <5>4, <5>6, <5>7
      <4>3. CASE ~(b = a /\ t >= now)
        <5>1. new \notin W
          BY <1>0, <3>5, <4>3
        <5>2. W = Recent(b, t)
          BY <3>1, <5>1 DEF Recent
        <5>3. QED
          BY <4>1, <5>2
      <4>4. QED
        BY <4>2, <4>3
    <3>9. QED
      BY <3>4, <3>6, <3>7, <3>8 DEF RateInv, RateLimited
  <2>7. QED
    BY <2>5, <2>6
<1>4. QED
  BY <1>1, <1>2, <1>3
     DEF Next, vars, Load, Acquire, Upgrade, HangUpEarly, Ping, Frame, Hangup, FallSilent

\* No address gets more than Limit acceptances in any window of a minute,
\* although the limiter forgets what has grown old.
THEOREM RatesLimited == Spec => []RateLimited
<1>1. Init => RateInv
  <2> SUFFICES ASSUME Init PROVE RateInv
    OBVIOUS
  <2>1. log = {} /\ \A a \in Ip : stamps[a] = {}
    BY DEF Init
  <2>2. IsFiniteSet({}) /\ Cardinality({}) = 0
    BY FS_EmptySet
  <2>3. RateLimited
    <3> SUFFICES ASSUME NEW a \in Ip, NEW t \in 0..MaxTime
                 PROVE  Cardinality({e \in log : e[2] = a /\ e[3] > t - Window
                                                  /\ e[3] <= t}) <= Limit
      BY DEF RateLimited
    <3>1. {e \in log : e[2] = a /\ e[3] > t - Window /\ e[3] <= t} = {}
      BY <2>1
    <3>2. QED
      BY <2>2, <3>1, AdmissionAssumption
  <2>4. QED
    BY <2>1, <2>2, <2>3 DEF RateInv
<1>2. RateInv => RateLimited
  BY DEF RateInv
<1>3. QED
  BY <1>1, <1>2, RateStep, TypeCorrect, PTL DEF Spec

=============================================================================
