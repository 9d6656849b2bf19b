-------------------------- MODULE OutputFlowProofs --------------------------
(***************************************************************************)
(* Proofs about OutputFlow, for any finite number of senders and any       *)
(* budget: the byte accounting of a connection is exact under every        *)
(* interleaving of the atomic operations, no dropped frame goes unmarked   *)
(* and live output stays within its bound; and about Replay, which takes   *)
(* over where a client's list request ends a dirty period: replays end,    *)
(* and reach those who asked.                                              *)
(***************************************************************************)
EXTENDS OutputFlow, Replay, FiniteSetTheorems, TLAPS

Pushing == {s \in Sender : pc[s] = "push"}

\* Accounting is inductive only together with the types (a sequence that grows
\* and shrinks, a channel that is empty once the writer is gone).
AccountInv ==
  /\ TypeOK
  /\ Accounting

\* While a frame of s is on its way, every frame of s was let through by a
\* load of dirty = FALSE made since the last list request: that request waits
\* for broadcasts.  A sender with a drop behind it has therefore seen the flag.
GapInv ==
  \A s \in missed :
    /\ dirty
    /\ pc[s] \in {"budget", "mark", "add", "push"} => msg[s] # "out"

-----------------------------------------------------------------------------
\* A sender that enters the last step before the channel has one more message
\* in hand ...
LEMMA EnterPushing ==
  ASSUME FlowAssumption, TypeOK, NEW s \in Sender, pc[s] # "push",
         pc' = [pc EXCEPT ![s] = "push"]
  PROVE  Cardinality(Pushing') = Cardinality(Pushing) + 1
<1>1. IsFiniteSet(Pushing)
  BY FS_Subset DEF FlowAssumption, Pushing
<1>2. Pushing' = Pushing \cup {s} /\ s \notin Pushing
  BY DEF Pushing, TypeOK
<1>3. QED
  BY <1>1, <1>2, FS_AddElement

\* ... and one that leaves it has one less.
LEMMA LeavePushing ==
  ASSUME FlowAssumption, TypeOK, NEW s \in Sender, pc[s] = "push",
         pc' = [pc EXCEPT ![s] = "idle"]
  PROVE  Cardinality(Pushing') = Cardinality(Pushing) - 1
<1>1. IsFiniteSet(Pushing)
  BY FS_Subset DEF FlowAssumption, Pushing
<1>2. Pushing' = Pushing \ {s} /\ s \in Pushing
  BY DEF Pushing, TypeOK
<1>3. QED
  BY <1>1, <1>2, FS_RemoveElement

LEMMA AccountInit == ASSUME FlowAssumption, Init PROVE AccountInv
<1>0. chan \in Seq(Message) /\ Len(chan) = 0
  BY DEF Init
<1>1. TypeOK
  BY <1>0 DEF Init, TypeOK, Message
<1>2. Cardinality({s \in Sender : pc[s] = "push"}) = 0
  <2>1. {s \in Sender : pc[s] = "push"} = {}
    BY DEF Init
  <2>2. QED
    BY <2>1, FS_EmptySet
<1>3. Accounting
  BY <1>0, <1>2 DEF Init, Accounting, InHand
<1>4. QED
  BY <1>1, <1>3 DEF AccountInv

LEMMA AccountStep ==
  ASSUME FlowAssumption, AccountInv, [Next]_vars PROVE AccountInv'
<1> USE DEF AccountInv
<1>0. InHand = Cardinality(Pushing) + added /\ InHand' = Cardinality(Pushing') + added'
  BY DEF InHand, Pushing
<1>f. /\ IsFiniteSet(Pushing) /\ Cardinality(Pushing) \in Nat
  BY FS_Subset, FS_CardinalityType DEF FlowAssumption, Pushing
<1>s. UNCHANGED pc => Pushing' = Pushing
  BY DEF Pushing
<1>1. ASSUME NEW s \in Sender, BroadcastOutput(s) PROVE AccountInv'
  <2>1. Pushing' = Pushing
    BY <1>1 DEF BroadcastOutput, Goto, Pushing, TypeOK
  <2>2. QED
    BY <1>1, <2>1, <1>0, <1>f DEF BroadcastOutput, Goto, TypeOK, Accounting, nudge, writer, client
<1>2. ASSUME NEW s \in Sender, SendControl(s) PROVE AccountInv'
  <2>1. Pushing' = Pushing
    BY <1>2 DEF SendControl, Goto, Pushing, TypeOK
  <2>2. QED
    BY <1>2, <2>1, <1>0, <1>f DEF SendControl, Goto, TypeOK, Accounting, nudge, writer, client
<1>3. ASSUME NEW s \in Sender, LoadDirty(s) PROVE AccountInv'
  <2>1. Pushing' = Pushing
    BY <1>3 DEF LoadDirty, Goto, Pushing, TypeOK
  <2>2. QED
    BY <1>3, <2>1, <1>0, <1>f DEF LoadDirty, Goto, TypeOK, Accounting, nudge, writer, client
<1>4. ASSUME NEW s \in Sender, LoadQueued(s) PROVE AccountInv'
  <2>1. Pushing' = Pushing
    BY <1>4 DEF LoadQueued, Goto, Pushing, TypeOK
  <2>2. QED
    BY <1>4, <2>1, <1>0, <1>f DEF LoadQueued, Goto, TypeOK, Accounting, nudge, writer, client
<1>5. ASSUME NEW s \in Sender, MarkDirty(s) PROVE AccountInv'
  <2>1. Pushing' = Pushing
    BY <1>5 DEF MarkDirty, Goto, Pushing, TypeOK
  <2>2. QED
    BY <1>5, <2>1, <1>0, <1>f DEF MarkDirty, Goto, TypeOK, Accounting, nudge, writer, client
<1>6. ASSUME NEW s \in Sender, Add(s) PROVE AccountInv'
  <2>1. Cardinality(Pushing') = Cardinality(Pushing) + 1
    <3>1. TypeOK /\ pc' = [pc EXCEPT ![s] = "push"] /\ pc[s] = "add"
      BY <1>6 DEF Add, Goto
    <3>2. QED
      BY <3>1, EnterPushing
  <2>2. TypeOK'
    BY <1>6 DEF Add, Goto, TypeOK, nudge, writer, client
  <2>3. /\ wr' = wr /\ queued' = queued + 1 /\ added' = added /\ added \in Nat
        /\ queued \in Nat /\ Len(chan) \in Nat /\ chan' = chan
    BY <1>6 DEF Add, TypeOK, nudge, writer
  <2>4. Accounting'
    BY <2>1, <2>3, <1>0, <1>f DEF Accounting
  <2>5. QED
    BY <2>2, <2>4
<1>7. ASSUME NEW s \in Sender, Push(s) PROVE AccountInv'
  <2>1. Cardinality(Pushing') = Cardinality(Pushing) - 1
    <3>1. TypeOK /\ pc' = [pc EXCEPT ![s] = "idle"] /\ pc[s] = "push"
      BY <1>7 DEF Push, Goto
    <3>2. QED
      BY <3>1, LeavePushing
  <2>2. /\ chan' \in Seq(Message) /\ Len(chan) \in Nat
        /\ wr # "dead" => Len(chan') = Len(chan) + 1
    BY <1>7 DEF Push, Enqueue, TypeOK, Message
  <2>3. TypeOK'
    BY <1>7, <2>2 DEF Push, Goto, TypeOK, nudge, writer, client
  <2>4. /\ wr' = wr /\ queued' = queued /\ added' = added /\ added \in Nat
        /\ queued \in Nat
    BY <1>7 DEF Push, TypeOK, nudge, writer
  <2>5. ASSUME wr # "dead"
        PROVE  queued = Len(chan') + InHand' + (IF wr = "sub" THEN 1 ELSE 0)
    <3>1. queued = Len(chan) + Cardinality(Pushing) + added + (IF wr = "sub" THEN 1 ELSE 0)
      BY <2>2, <2>4, <2>5, <1>0, <1>f DEF Accounting
    <3>2. Len(chan') = Len(chan) + 1 /\ InHand' = (Cardinality(Pushing) - 1) + added
      BY <2>1, <2>2, <2>4, <2>5, <1>0
    <3>3. QED
      BY <3>1, <3>2, <2>2, <2>4, <1>f
  <2>6. Accounting'
    BY <2>4, <2>5 DEF Accounting
  <2>7. QED
    BY <2>3, <2>6
<1>8. CASE NudgeCheck
  BY <1>8, <1>0, <1>f, <1>s DEF NudgeCheck, TypeOK, Accounting, senders, writer, client
<1>9. CASE NudgeAdd
  BY <1>9, <1>0, <1>f, <1>s DEF NudgeAdd, TypeOK, Accounting, senders, writer, client
<1>10. CASE NudgePush
  <2>1. /\ chan' \in Seq(Message) /\ Len(chan) \in Nat
        /\ wr # "dead" => Len(chan') = Len(chan) + 1
    BY <1>10 DEF NudgePush, Enqueue, TypeOK, Message
  <2>2. TypeOK'
    BY <1>10, <2>1 DEF NudgePush, TypeOK, senders, writer, client
  <2>3. /\ wr' = wr /\ queued' = queued /\ added' = added - 1 /\ added \in Nat
        /\ queued \in Nat /\ Pushing' = Pushing
    BY <1>10, <1>s DEF NudgePush, TypeOK, senders, writer
  <2>4. ASSUME wr # "dead"
        PROVE  queued = Len(chan') + InHand' + (IF wr = "sub" THEN 1 ELSE 0)
    <3>1. queued = Len(chan) + Cardinality(Pushing) + added + (IF wr = "sub" THEN 1 ELSE 0)
      BY <2>1, <2>3, <2>4, <1>0, <1>f DEF Accounting
    <3>2. Len(chan') = Len(chan) + 1 /\ InHand' = Cardinality(Pushing) + (added - 1)
      BY <2>1, <2>3, <2>4, <1>0
    <3>3. QED
      BY <3>1, <3>2, <2>1, <2>3, <1>f
  <2>5. Accounting'
    BY <2>3, <2>4 DEF Accounting
  <2>6. QED
    BY <2>2, <2>5
<1>11. CASE Elapse
  BY <1>11, <1>0, <1>f, <1>s DEF Elapse, TypeOK, Accounting, senders, writer, client
<1>12. CASE WriterRecv
  <2>1. /\ chan' \in Seq(Message) /\ held' \in Message
        /\ Len(chan') = Len(chan) - 1
    BY <1>12 DEF WriterRecv, TypeOK
  <2>2. QED
    BY <1>12, <2>1, <1>0, <1>f, <1>s DEF WriterRecv, TypeOK, Accounting, senders, nudge, client
<1>13. CASE WriterSub
  <2>1. Len(chan) \in Nat
    BY DEF TypeOK
  <2>2. QED
    BY <1>13, <2>1, <1>0, <1>f, <1>s DEF WriterSub, TypeOK, Accounting, senders, nudge, client
<1>14. CASE WriterSend
  BY <1>14, <1>0, <1>f, <1>s DEF WriterSend, TypeOK, Accounting, senders, nudge
<1>15. CASE WriterStop
  BY <1>15, <1>0, <1>f, <1>s DEF WriterStop, TypeOK, Accounting, senders, nudge, client
<1>16. CASE AnswerResync
  BY <1>16, <1>0, <1>f, <1>s DEF AnswerResync, TypeOK, Accounting, senders, nudge, writer
<1>17. CASE Refresh
  BY <1>17, <1>0, <1>f, <1>s DEF Refresh, TypeOK, Accounting, senders, nudge, writer
<1>18. CASE ListRequest
  BY <1>18, <1>0, <1>f, <1>s DEF ListRequest, TypeOK, Accounting, senders, nudge, writer
<1>19. CASE UNCHANGED vars
  BY <1>19, <1>0, <1>f, <1>s DEF vars, TypeOK, Accounting, senders, nudge, writer, client
<1>20. QED
  BY <1>1, <1>2, <1>3, <1>4, <1>5, <1>6, <1>7, <1>8, <1>9, <1>10, <1>11, <1>12,
     <1>13, <1>14, <1>15, <1>16, <1>17, <1>18, <1>19 DEF Next, Steps

\* The unsigned counter is exactly what was counted by ConnTx::send and not yet
\* given back by the writer, for any number of concurrent senders; it never
\* leaks a unit and never wraps below zero.
THEOREM AccountingExact == Spec => [](TypeOK /\ Accounting)
<1>1. Init => AccountInv
  BY AccountInit, FlowAssumption
<1>2. AccountInv /\ [Next]_vars => AccountInv'
  BY AccountStep, FlowAssumption
<1>3. AccountInv => TypeOK /\ Accounting
  BY DEF AccountInv
<1>4. QED
  BY <1>1, <1>2, <1>3, PTL DEF Spec

\* Every variable keeps its type; ConnTx's unsigned byte counter never wraps.
THEOREM TypeCorrect == Spec => []TypeOK
  BY AccountingExact, PTL

-----------------------------------------------------------------------------
LEMMA GapStep == ASSUME TypeOK, GapInv, [Next]_vars PROVE GapInv'
<1> USE DEF GapInv
<1>1. ASSUME NEW s \in Sender, BroadcastOutput(s) \/ SendControl(s) PROVE GapInv'
  BY <1>1 DEF BroadcastOutput, SendControl, Goto, TypeOK
<1>2. ASSUME NEW s \in Sender, LoadDirty(s) PROVE GapInv'
  BY <1>2 DEF LoadDirty, Goto, TypeOK
<1>3. ASSUME NEW s \in Sender, LoadQueued(s) PROVE GapInv'
  BY <1>3 DEF LoadQueued, Goto, TypeOK
<1>4. ASSUME NEW s \in Sender, MarkDirty(s) PROVE GapInv'
  BY <1>4 DEF MarkDirty, Goto, TypeOK
<1>5. ASSUME NEW s \in Sender, Add(s) \/ Push(s) PROVE GapInv'
  BY <1>5 DEF Add, Push, Goto, TypeOK
<1>6. CASE NudgeCheck \/ NudgeAdd \/ NudgePush \/ Elapse
  BY <1>6 DEF NudgeCheck, NudgeAdd, NudgePush, Elapse, senders
<1>7. CASE WriterRecv \/ WriterSub \/ WriterSend \/ WriterStop
  BY <1>7 DEF WriterRecv, WriterSub, WriterSend, WriterStop, senders
<1>8. CASE AnswerResync \/ Refresh \/ ListRequest
  BY <1>8 DEF AnswerResync, Refresh, ListRequest, senders
<1>9. CASE UNCHANGED vars
  BY <1>9 DEF vars, senders
<1>10. QED
  BY <1>1, <1>2, <1>3, <1>4, <1>5, <1>6, <1>7, <1>8, <1>9 DEF Next, Steps

\* Once a frame of a desktop was dropped, the connection stays dirty and no
\* later frame of that desktop gets into the channel until the client asks for
\* a list, for any number of senders and any budget.
THEOREM NoUnmarkedGap == Spec => []NoSilentGap
<1>1. Init => GapInv
  BY DEF Init, GapInv
<1>2. TypeOK /\ GapInv /\ [Next]_vars => GapInv'
  BY GapStep
<1>3. GapInv => NoSilentGap
  BY DEF GapInv, NoSilentGap
<1>4. QED
  BY <1>1, <1>2, <1>3, AccountingExact, PTL DEF Spec

-----------------------------------------------------------------------------
(* Counting in queues.                                                     *)

\* Where v stands in the sequence q.
Positions(q, v) == {i \in 1..Len(q) : q[i] = v}

\* The positions of a value are finitely many, no more than there are places.
LEMMA PositionsFinite ==
  ASSUME NEW q, NEW v, Len(q) \in Nat
  PROVE  /\ IsFiniteSet(Positions(q, v)) /\ Cardinality(Positions(q, v)) \in Nat
         /\ Cardinality(Positions(q, v)) <= Len(q)
<1>1. Positions(q, v) \subseteq 1..Len(q)
  BY DEF Positions
<1>2. IsFiniteSet(1..Len(q)) /\ Cardinality(1..Len(q)) = Len(q)
  <2>1. \A n \in Int :
          /\ IsFiniteSet(1..n)
          /\ Cardinality(1..n) = IF 1 > n THEN 0 ELSE n - 1 + 1
    BY FS_Interval
  <2>2. QED
    BY <2>1
<1>3. QED
  BY <1>1, <1>2, FS_Subset, FS_CardinalityType

\* A queue r that is q with one more element at its end.
LEMMA PositionsGrow ==
  ASSUME NEW q, NEW r, NEW v, Len(q) \in Nat, Len(r) = Len(q) + 1,
         \A i \in 1..Len(q) : r[i] = q[i]
  PROVE  /\ r[Len(r)] = v => Cardinality(Positions(r, v)) = Cardinality(Positions(q, v)) + 1
         /\ r[Len(r)] # v => Cardinality(Positions(r, v)) = Cardinality(Positions(q, v))
<1>1. CASE r[Len(r)] = v
  <2>1. /\ Positions(r, v) = Positions(q, v) \cup {Len(r)}
        /\ Len(r) \notin Positions(q, v)
    BY <1>1 DEF Positions
  <2>2. Cardinality(Positions(q, v) \cup {Len(r)}) = Cardinality(Positions(q, v)) + 1
    BY <2>1, PositionsFinite, FS_AddElement
  <2>3. QED
    BY <1>1, <2>1, <2>2
<1>2. CASE r[Len(r)] # v
  <2>1. Positions(r, v) = Positions(q, v)
    BY <1>2 DEF Positions
  <2>2. QED
    BY <1>2, <2>1
<1>3. QED
  BY <1>1, <1>2

\* A queue r that is q without its first element.
LEMMA PositionsShrink ==
  ASSUME NEW q, NEW r, NEW v, Len(q) \in Nat \ {0}, Len(r) = Len(q) - 1,
         \A i \in 1..Len(r) : r[i] = q[i + 1]
  PROVE  /\ Cardinality(Positions(r, v)) <= Cardinality(Positions(q, v))
         /\ q[1] = v
              => Cardinality(Positions(r, v)) + 1 <= Cardinality(Positions(q, v))
<1> DEFINE P  == Positions(r, v)
           Q  == Positions(q, v) \ {1}
           up == [i \in P |-> i + 1]
<1>1. \A i \in P : i \in Nat /\ i + 1 \in Q
  BY DEF Positions
<1>2. up \in [P -> Q]
  BY <1>1
<1>3. \A i, j \in P : up[i] = up[j] => i = j
  BY <1>1
<1>4. up \in Injection(P, Q)
  BY <1>2, <1>3 DEF Injection, IsInjective
<1>5. IsFiniteSet(Positions(q, v)) /\ Cardinality(Positions(q, v)) \in Nat
  BY PositionsFinite
<1>6. /\ IsFiniteSet(Q)
      /\ Cardinality(Q) = IF 1 \in Positions(q, v) THEN Cardinality(Positions(q, v)) - 1
                          ELSE Cardinality(Positions(q, v))
  BY <1>5, FS_RemoveElement
<1> HIDE DEF up
<1>7. Cardinality(P) <= Cardinality(Q) /\ Cardinality(P) \in Nat /\ Cardinality(Q) \in Nat
  BY <1>4, <1>6, FS_Injection, FS_CardinalityType
<1>8. q[1] = v => 1 \in Positions(q, v)
  BY DEF Positions
<1>9. QED
  BY <1>5, <1>6, <1>7, <1>8

-----------------------------------------------------------------------------
(* The bound on live output.                                               *)

\* Positions of live output in a channel, and the senders that have been let
\* through with a frame that is not in the channel yet.
Outs(q) == Positions(q, "out")
Cleared == {s \in Sender : msg[s] = "out" /\ pc[s] \in {"add", "push"}}

\* A frame counts from the moment the budget check lets it through.  A channel
\* without receiver is empty, so what a dead connection still counts does not
\* matter.
BoundInv ==
  /\ wr = "dead" => chan = <<>>
  /\ Cardinality(Outs(chan)) + Cardinality(Cleared)
       <= Budget + Cardinality(Sender) - 1

\* A channel holds finitely many frames.
LEMMA OutsFinite ==
  ASSUME NEW q \in Seq(Message)
  PROVE  /\ IsFiniteSet(Outs(q)) /\ Cardinality(Outs(q)) \in Nat
         /\ Cardinality(Outs(q)) <= Len(q)
<1>1. Len(q) \in Nat
  OBVIOUS
<1>2. QED
  BY <1>1, PositionsFinite DEF Outs

\* Appending a message adds at most its own position, ...
LEMMA OutsAppend ==
  ASSUME NEW q \in Seq(Message), NEW m \in Message
  PROVE  /\ m = "out" => Cardinality(Outs(Append(q, m))) = Cardinality(Outs(q)) + 1
         /\ m # "out" => Cardinality(Outs(Append(q, m))) = Cardinality(Outs(q))
<1>1. /\ Len(q) \in Nat /\ Len(Append(q, m)) = Len(q) + 1
      /\ Append(q, m)[Len(Append(q, m))] = m
      /\ \A i \in 1..Len(q) : Append(q, m)[i] = q[i]
  OBVIOUS
<1>2. QED
  BY <1>1, PositionsGrow DEF Outs

\* ... and receiving one adds none.
LEMMA OutsTail ==
  ASSUME NEW q \in Seq(Message), q # <<>>
  PROVE  Cardinality(Outs(Tail(q))) <= Cardinality(Outs(q))
<1>1. /\ Len(q) \in Nat \ {0} /\ Len(Tail(q)) = Len(q) - 1
      /\ \A i \in 1..Len(Tail(q)) : Tail(q)[i] = q[i + 1]
  OBVIOUS
<1>2. QED
  BY <1>1, PositionsShrink DEF Outs

\* A sender that is let through, or done, changes the number by itself.
LEMMA ClearedMove ==
  ASSUME FlowAssumption
  PROVE  /\ IsFiniteSet(Cleared) /\ Cardinality(Cleared) \in Nat
         /\ Cardinality(Cleared) <= Cardinality(Sender)
         /\ Cardinality(Sender) \in Nat
         /\ \A s \in Sender :
              /\ s \notin Cleared => Cardinality(Cleared) < Cardinality(Sender)
              /\ Cleared' = Cleared \cup {s} /\ s \notin Cleared
                   => Cardinality(Cleared') = Cardinality(Cleared) + 1
              /\ Cleared' = Cleared \ {s} /\ s \in Cleared
                   => Cardinality(Cleared') = Cardinality(Cleared) - 1
<1>1. Cleared \subseteq Sender /\ IsFiniteSet(Sender)
  BY DEF Cleared, FlowAssumption
<1>2. /\ IsFiniteSet(Cleared) /\ Cardinality(Cleared) \in Nat
      /\ Cardinality(Cleared) <= Cardinality(Sender) /\ Cardinality(Sender) \in Nat
  BY <1>1, FS_Subset, FS_CardinalityType
<1>3. ASSUME NEW s \in Sender, s \notin Cleared
      PROVE  Cardinality(Cleared) < Cardinality(Sender)
  <2>1. Cleared # Sender
    BY <1>3
  <2>2. Cardinality(Cleared) # Cardinality(Sender)
    BY <1>1, <2>1, FS_Subset
  <2>3. QED
    BY <1>2, <2>2
<1>4. ASSUME NEW s \in Sender, s \notin Cleared
      PROVE  Cardinality(Cleared \cup {s}) = Cardinality(Cleared) + 1
  BY <1>2, <1>4, FS_AddElement
<1>5. ASSUME NEW s \in Sender, s \in Cleared
      PROVE  Cardinality(Cleared \ {s}) = Cardinality(Cleared) - 1
  BY <1>2, <1>5, FS_RemoveElement
<1>6. QED
  BY <1>2, <1>3, <1>4, <1>5

\* Only a load of queued below the budget lets a frame through, and then all
\* others that were let through are in queued, or are other senders'.
LEMMA BoundStep ==
  ASSUME FlowAssumption, TypeOK, Accounting, BoundInv, [Next]_vars
  PROVE  BoundInv'
<1>0. /\ Budget \in Nat /\ Budget > 0 /\ chan \in Seq(Message)
      /\ Cardinality(Outs(chan)) \in Nat /\ Cardinality(Cleared) \in Nat
      /\ Cardinality(Sender) \in Nat /\ Len(chan) \in Nat
      /\ Cardinality(Outs(chan)) <= Len(chan)
      /\ Cardinality(Outs(chan)) + Cardinality(Cleared)
           <= Budget + Cardinality(Sender) - 1
  BY ClearedMove, OutsFinite DEF FlowAssumption, TypeOK, BoundInv
<1>1. ASSUME UNCHANGED <<chan, wr>>, Cleared' = Cleared PROVE BoundInv'
  BY <1>1 DEF BoundInv, Outs, Positions
\* A sender between two messages, or before the check, counts for nothing.
<1>2. ASSUME NEW s \in Sender, BroadcastOutput(s) \/ SendControl(s) PROVE BoundInv'
  <2>1. Cleared' = Cleared
    BY <1>2 DEF BroadcastOutput, SendControl, Goto, TypeOK, Cleared
  <2>2. QED
    BY <1>1, <1>2, <2>1 DEF BroadcastOutput, SendControl, writer
<1>3. ASSUME NEW s \in Sender, LoadDirty(s) \/ MarkDirty(s) \/ Add(s) PROVE BoundInv'
  <2>1. Cleared' = Cleared
    BY <1>3 DEF LoadDirty, MarkDirty, Add, Goto, TypeOK, Cleared
  <2>2. QED
    BY <1>1, <1>3, <2>1 DEF LoadDirty, MarkDirty, Add, writer
<1>4. ASSUME NEW s \in Sender, LoadQueued(s) PROVE BoundInv'
  <2>1. UNCHANGED <<chan, wr, queued, msg>> /\ pc[s] = "budget" /\ s \notin Cleared
    BY <1>4 DEF LoadQueued, writer, Cleared
  <2>2. CASE queued + 1 > Budget \/ msg[s] # "out"
    <3>1. Cleared' = Cleared
      BY <1>4, <2>2 DEF LoadQueued, Goto, TypeOK, Cleared
    <3>2. QED
      BY <1>1, <2>1, <3>1
  <2>3. CASE ~(queued + 1 > Budget) /\ msg[s] = "out"
    <3>1. Cleared' = Cleared \cup {s}
      BY <1>4, <2>3 DEF LoadQueued, Goto, TypeOK, Cleared
    <3>2. /\ Cardinality(Cleared') = Cardinality(Cleared) + 1
          /\ Cardinality(Cleared) < Cardinality(Sender)
      BY <2>1, <3>1, ClearedMove
    <3>3. Cardinality(Outs(chan)) < Budget
      <4>1. CASE wr = "dead"
        <5>1. Outs(chan) = {}
          BY <4>1 DEF BoundInv, Outs, Positions
        <5>2. QED
          BY <1>0, <5>1, FS_EmptySet
      <4>2. CASE wr # "dead"
        <5>1. InHand \in Nat /\ queued \in Nat
          <6>1. IsFiniteSet({t \in Sender : pc[t] = "push"})
            BY FS_Subset DEF FlowAssumption
          <6>2. QED
            BY <6>1, FS_CardinalityType DEF InHand, TypeOK
        <5>2. queued >= Len(chan)
          BY <1>0, <4>2, <5>1 DEF Accounting
        <5>3. QED
          BY <1>0, <2>3, <5>1, <5>2
      <4>3. QED
        BY <4>1, <4>2
    <3>4. QED
      BY <1>0, <2>1, <3>2, <3>3 DEF BoundInv, Outs, Positions
  <2>4. QED
    BY <2>2, <2>3
\* A frame that enters the channel was counted before.
<1>5. ASSUME NEW s \in Sender, Push(s) PROVE BoundInv'
  <2>1. /\ pc[s] = "push" /\ wr' = wr /\ msg' = msg /\ msg[s] \in Message
        /\ pc' = [pc EXCEPT ![s] = "idle"]
        /\ chan' = IF wr = "dead" THEN chan ELSE Append(chan, msg[s])
    BY <1>5 DEF Push, Enqueue, Goto, writer, TypeOK, Message
  <2>2. CASE msg[s] = "out"
    <3>1. Cleared' = Cleared \ {s} /\ s \in Cleared
      BY <2>1, <2>2 DEF Cleared, TypeOK
    <3>2. Cardinality(Cleared') = Cardinality(Cleared) - 1
      BY <3>1, ClearedMove
    <3>3. \/ chan' = chan
          \/ wr # "dead" /\ Cardinality(Outs(chan')) = Cardinality(Outs(chan)) + 1
      BY <1>0, <2>1, <2>2, OutsAppend
    <3>4. QED
      BY <1>0, <2>1, <3>2, <3>3 DEF BoundInv
  <2>3. CASE msg[s] # "out"
    <3>1. Cleared' = Cleared
      BY <2>1, <2>3 DEF Cleared, TypeOK
    <3>2. \/ chan' = chan
          \/ wr # "dead" /\ Cardinality(Outs(chan')) = Cardinality(Outs(chan))
      BY <1>0, <2>1, <2>3, OutsAppend
    <3>3. QED
      BY <1>0, <2>1, <3>1, <3>2 DEF BoundInv
  <2>4. QED
    BY <2>2, <2>3
<1>6. CASE NudgePush
  <2>1. /\ wr' = wr /\ UNCHANGED senders /\ "resync" \in Message
        /\ chan' = IF wr = "dead" THEN chan ELSE Append(chan, "resync")
    BY <1>6 DEF NudgePush, Enqueue, writer, Message
  <2>2. Cleared' = Cleared
    BY <2>1 DEF senders, Cleared
  <2>3. \/ chan' = chan
        \/ wr # "dead" /\ Cardinality(Outs(chan')) = Cardinality(Outs(chan))
    BY <1>0, <2>1, OutsAppend
  <2>4. QED
    BY <1>0, <2>1, <2>2, <2>3 DEF BoundInv
<1>7. CASE WriterRecv
  <2>1. chan # <<>> /\ chan' = Tail(chan) /\ wr' = "sub" /\ Cleared' = Cleared
    BY <1>7 DEF WriterRecv, senders, Cleared
  <2>2. Cardinality(Outs(chan')) <= Cardinality(Outs(chan))
    BY <1>0, <2>1, OutsTail
  <2>3. Cardinality(Outs(chan')) \in Nat
    <3>1. chan' \in Seq(Message)
      BY <1>0, <2>1
    <3>2. QED
      BY <3>1, OutsFinite
  <2>4. QED
    BY <1>0, <2>1, <2>2, <2>3 DEF BoundInv
<1>8. CASE WriterStop
  <2>1. chan' = <<>> /\ Cleared' = Cleared
    BY <1>8 DEF WriterStop, senders, Cleared
  <2>2. Outs(chan') = {}
    BY <2>1 DEF Outs, Positions
  <2>3. Cardinality(Outs(chan')) = 0 /\ Cardinality(Cleared) <= Cardinality(Sender)
    BY <2>2, FS_EmptySet, ClearedMove
  <2>4. QED
    BY <1>0, <2>1, <2>3 DEF BoundInv
<1>9. CASE NudgeCheck \/ NudgeAdd \/ Elapse \/ AnswerResync \/ Refresh \/ ListRequest
  <2>1. UNCHANGED <<chan, senders, writer>>
    BY <1>9 DEF NudgeCheck, NudgeAdd, Elapse, AnswerResync, Refresh, ListRequest
  <2>2. QED
    BY <1>1, <2>1 DEF senders, writer, Cleared
<1>10. CASE WriterSub \/ WriterSend
  <2>1. UNCHANGED <<chan, senders>> /\ wr # "dead" /\ wr' # "dead"
    BY <1>10 DEF WriterSub, WriterSend
  <2>2. QED
    BY <2>1 DEF BoundInv, senders, Cleared
<1>11. CASE UNCHANGED vars
  BY <1>1, <1>11 DEF vars, senders, writer, Cleared
<1>12. QED
  BY <1>2, <1>3, <1>4, <1>5, <1>6, <1>7, <1>8, <1>9, <1>10, <1>11 DEF Next, Steps

\* Check and send are separate steps, yet the live output queued for a client
\* passes the budget by at most one frame per further sender.
THEOREM LiveOutputBounded == Spec => []OutputBounded
<1>1. Init => BoundInv
  <2> SUFFICES ASSUME Init PROVE BoundInv
    OBVIOUS
  <2>1. Outs(chan) = {} /\ Cleared = {}
    BY DEF Init, Outs, Positions, Cleared
  <2>2. Cardinality(Outs(chan)) = 0 /\ Cardinality(Cleared) = 0
    BY <2>1, FS_EmptySet
  <2>3. Cardinality(Sender) \in Nat /\ Budget \in Nat \ {0} /\ chan = <<>>
    BY FlowAssumption, FS_CardinalityType DEF FlowAssumption, Init
  <2>4. QED
    BY <2>2, <2>3 DEF BoundInv
<1>2. TypeOK /\ Accounting /\ BoundInv /\ [Next]_vars => BoundInv'
  BY BoundStep, FlowAssumption
<1>3. TypeOK /\ BoundInv => OutputBounded
  <2> SUFFICES ASSUME TypeOK, BoundInv PROVE OutputBounded
    OBVIOUS
  <2>1. Outs(chan) = {i \in DOMAIN chan : chan[i] = "out"}
    BY DEF TypeOK, Outs, Positions
  <2>2. /\ Cardinality(Outs(chan)) \in Nat /\ Cardinality(Cleared) \in Nat
        /\ Cardinality(Sender) \in Nat /\ Budget \in Nat
    BY OutsFinite, ClearedMove, FlowAssumption DEF TypeOK, FlowAssumption
  <2>3. QED
    BY <2>1, <2>2 DEF BoundInv, OutputBounded
<1>4. QED
  BY <1>1, <1>2, <1>3, AccountingExact, PTL DEF Spec

\* resync_required is in the channel.
InChannel(q) == \E i \in 1..Len(q) : q[i] = "resync"

\* A nudge under way stays under way, or has done its work.
LEMMA NudgeStep ==
  ASSUME TypeOK, [Next]_vars, dirty, NudgeUnderWay, dirty', wr' # "dead"
  PROVE  NudgeUnderWay'
<1> DEFINE Task  == (spawned > 0 /\ last # "recent") \/ passed > 0 \/ added > 0
           Sent  == wr \in {"sub", "send"} /\ held = "resync"
           Asked == owed \/ asks
<1>0. /\ spawned \in Nat /\ passed \in Nat /\ added \in Nat
      /\ chan \in Seq(Message) /\ Len(chan) \in Nat
  BY DEF TypeOK
<1>1. NudgeUnderWay <=> Task \/ Sent \/ Asked \/ InChannel(chan)
  BY <1>0 DEF NudgeUnderWay, InChannel
<1>2. chan' \in Seq(Message) /\ (Task \/ Sent \/ Asked \/ InChannel(chan))' => NudgeUnderWay'
  BY DEF NudgeUnderWay, InChannel
<1>3. ASSUME NEW m \in Message
      PROVE  LET q == Append(chan, m)
             IN  /\ q \in Seq(Message)
                 /\ InChannel(chan) => InChannel(q)
                 /\ m = "resync" => InChannel(q)
  <2> DEFINE q == Append(chan, m)
  <2>1. /\ q \in Seq(Message) /\ Len(q) = Len(chan) + 1 /\ q[Len(chan) + 1] = m
        /\ \A i \in 1..Len(chan) : q[i] = chan[i]
    BY <1>0
  <2> HIDE DEF q
  <2>2. QED
    BY <1>0, <2>1 DEF InChannel, q
<1>4. CASE UNCHANGED vars
  BY <1>4 DEF vars, nudge, writer, client, NudgeUnderWay
<1>5. ASSUME NEW s \in Sender, BroadcastOutput(s) \/ SendControl(s) \/ LoadDirty(s)
                                 \/ LoadQueued(s) \/ Add(s)
      PROVE  NudgeUnderWay'
  <2>1. UNCHANGED <<chan, nudge, writer, client>>
    BY <1>5 DEF BroadcastOutput, SendControl, LoadDirty, LoadQueued, Add
  <2>2. QED
    BY <2>1 DEF nudge, writer, client, NudgeUnderWay
<1>6. ASSUME NEW s \in Sender, MarkDirty(s) PROVE NudgeUnderWay'
  <2>1. /\ spawned' = spawned + 1
        /\ UNCHANGED <<chan, passed, added, last, writer, client>>
    BY <1>6 DEF MarkDirty
  <2>2. QED
    BY <1>0, <2>1 DEF writer, client, NudgeUnderWay
<1>7. ASSUME NEW s \in Sender, Push(s) PROVE NudgeUnderWay'
  <2>1. UNCHANGED <<spawned, passed, added, last, wr, held, owed, asks>>
        /\ msg[s] \in Message /\ Enqueue(msg[s])
    BY <1>7 DEF Push, nudge, writer, client, TypeOK, Message
  <2>2. chan' = Append(chan, msg[s])
    BY <2>1 DEF Enqueue
  <2>3. chan' \in Seq(Message) /\ (InChannel(chan) => InChannel(chan'))
    BY <1>3, <2>1, <2>2
  <2>4. QED
    BY <1>1, <1>2, <2>1, <2>3
<1>8. CASE NudgeCheck
  <2>1. UNCHANGED <<chan, added, wr, held, owed, asks>>
    BY <1>8 DEF NudgeCheck, writer, client
  <2>2. CASE last = "recent"
    BY <1>8, <2>1, <2>2 DEF NudgeCheck, NudgeUnderWay
  <2>3. CASE last # "recent"
    <3>1. passed' > 0
      BY <1>0, <1>8, <2>3 DEF NudgeCheck
    <3>2. QED
      BY <3>1 DEF NudgeUnderWay
  <2>4. QED
    BY <2>2, <2>3
<1>9. CASE NudgeAdd
  <2>1. added' > 0
    BY <1>0, <1>9 DEF NudgeAdd
  <2>2. QED
    BY <2>1 DEF NudgeUnderWay
<1>10. CASE NudgePush
  <2>1. Enqueue("resync") /\ wr' = wr
    BY <1>10 DEF NudgePush, writer
  <2>2. chan' = Append(chan, "resync")
    BY <2>1 DEF Enqueue
  <2>3. chan' \in Seq(Message) /\ InChannel(chan')
    BY <1>3, <2>2 DEF Message
  <2>4. QED
    BY <1>2, <2>3
<1>11. CASE Elapse
  BY <1>11 DEF Elapse, writer, client, NudgeUnderWay
<1>12. CASE WriterRecv
  <2>1. /\ chan # <<>> /\ held' = Head(chan) /\ chan' = Tail(chan) /\ wr' = "sub"
        /\ wr = "recv" /\ UNCHANGED <<spawned, passed, added, last, owed, asks>>
    BY <1>12 DEF WriterRecv, nudge, client
  <2>2. /\ chan' \in Seq(Message) /\ Len(chan') = Len(chan) - 1 /\ Len(chan) > 0
        /\ \A i \in 1..Len(chan') : chan'[i] = chan[i + 1]
        /\ held' = chan[1]
    BY <1>0, <2>1
  <2>3. ASSUME NEW i \in 1..Len(chan), chan[i] = "resync"
        PROVE  held' = "resync" \/ InChannel(chan')
    <3>1. CASE i = 1
      BY <2>2, <2>3, <3>1
    <3>2. CASE i # 1
      <4>1. i - 1 \in 1..Len(chan') /\ chan'[i - 1] = chan[i]
        BY <1>0, <2>2, <3>2
      <4>2. QED
        BY <2>3, <4>1 DEF InChannel
    <3>3. QED
      BY <3>1, <3>2
  <2>4. InChannel(chan) => held' = "resync" \/ InChannel(chan')
    BY <2>3 DEF InChannel
  <2>5. QED
    BY <1>1, <1>2, <2>1, <2>2, <2>4
<1>13. CASE WriterSub
  BY <1>13 DEF WriterSub, nudge, client, NudgeUnderWay
<1>14. CASE WriterSend
  <2>1. /\ UNCHANGED <<chan, spawned, passed, added, last, held, asks>>
        /\ owed' = (owed \/ held = "resync")
    BY <1>14 DEF WriterSend, nudge
  <2>2. QED
    BY <2>1 DEF NudgeUnderWay
<1>15. CASE WriterStop
  BY <1>15 DEF WriterStop
<1>16. CASE AnswerResync \/ Refresh
  BY <1>16 DEF AnswerResync, Refresh, NudgeUnderWay
<1>17. CASE ListRequest
  BY <1>17 DEF ListRequest
<1>18. QED
  BY <1>4, <1>5, <1>6, <1>7, <1>8, <1>9, <1>10, <1>11, <1>12, <1>13, <1>14, <1>15,
     <1>16, <1>17 DEF Next, Steps

\* The safety half of NudgedConverges: what is left to fairness is only that
\* each of the hands a nudge is in moves it on.
THEOREM NudgesKept == Spec => NudgeKept
<1>1. TypeOK /\ [Next]_vars => [dirty /\ NudgeUnderWay =>
                                  NudgeUnderWay' \/ ~dirty' \/ wr' = "dead"]_vars
  BY NudgeStep
<1>2. QED
  BY <1>1, TypeCorrect, PTL DEF Spec, NudgeKept

-----------------------------------------------------------------------------
(* What the list request brings: the replay.                               *)

\* note_session_list_request ends a dirty period (above) and queues the client
\* for a replay (module Replay).

\* While one desktop runs a burst, a client with frames whose list has not come
\* is the target, or there is none and the list will go to everybody; a burst
\* that another one overlaps loses its target with the first list.  Who has a
\* target to look for is not about to broadcast, so a broadcast frame does not
\* slip in between.  All this ends when a desktop goes away in mid-burst, until
\* the bursts have.
BurstInv ==
  /\ sock \in [Conn -> {"new", "open", "closed"}] /\ clients \subseteq Conn
  /\ \A c \in clients : sock[c] = "open"
  /\ \A c \in Conn \cap partial : sock[c] # "new"
  /\ burst \subseteq Desk /\ sending \in [Desk -> {"no", "frame", "list"}]
  /\ torn \in BOOLEAN
  /\ \A d \in Desk : sending[d] # "no" => d \in burst
  /\ torn => partial \subseteq cut
  /\ burst # {} /\ ~torn /\ target # None => \E d \in burst : sending[d] = "no"
  /\ burst = {} => \A c \in partial \cap clients : c \in cut
  /\ \A d \in Desk : burst = {d} =>
       \A c \in partial \cap clients : c \in cut \/ target \in {None, c}

\* Every step keeps it.
LEMMA BurstStep == BurstInv /\ [ReplayNext]_replayVars => BurstInv'
<1> SUFFICES ASSUME BurstInv, [ReplayNext]_replayVars PROVE BurstInv'
  OBVIOUS
<1> USE DEF BurstInv
<1>0. None \notin Conn \cup Desk
  BY ReplayAssumption
<1>1. ASSUME NEW c \in Conn, Join(c) PROVE BurstInv'
  BY <1>1 DEF Join, tables, hist, replays
<1>2. ASSUME NEW c \in Conn, Note(c) \/ Forward(c) PROVE BurstInv'
  <2>1. UNCHANGED <<sock, clients, target, burst, sending, partial, torn, cut>>
    BY <1>2 DEF Note, Forward, peers, tables, replays
  <2>2. QED
    BY <2>1
<1>3. ASSUME NEW c \in Conn, Leave(c) \/ Revoke(c) PROVE BurstInv'
  <2>1. /\ clients' = clients \ {c}
        /\ UNCHANGED <<target, burst, sending, partial, torn, cut>>
        /\ sock' = sock \/ sock' = [sock EXCEPT ![c] = "closed"]
    BY <1>3 DEF Leave, Revoke, hist, replays
  <2>2. QED
    BY <2>1
<1>4. ASSUME NEW d \in Desk, DesktopRegister(d) PROVE BurstInv'
  BY <1>4 DEF DesktopRegister, DesktopChange, peers, replays
<1>5. ASSUME NEW d \in Desk, DesktopGone(d) PROVE BurstInv'
  <2>1. /\ UNCHANGED <<sock, clients, sending, partial>> /\ burst' = burst \ {d}
        /\ sending[d] = "no" /\ target' \in {target, None}
    BY <1>5 DEF DesktopGone, DesktopChange, peers, tables
  <2>2. CASE d \in burst
    <3>1. torn' = (burst' # {}) /\ cut' = cut \cup partial
      BY <1>5, <2>2 DEF DesktopGone
    <3>2. QED
      BY <2>1, <3>1
  <2>3. CASE d \notin burst
    <3>1. UNCHANGED <<torn, cut>> /\ burst' = burst
      BY <1>5, <2>1, <2>3 DEF DesktopGone
    <3>2. QED
      BY <2>1, <3>1
  <2>4. QED
    BY <2>2, <2>3
<1>6. ASSUME NEW d \in Desk, BeginReplay(d) PROVE BurstInv'
  <2>1. /\ UNCHANGED <<sock, clients, sending, partial, torn, cut>>
        /\ d \notin burst /\ burst' = burst \cup {d} /\ sending[d] = "no"
    BY <1>6 DEF BeginReplay, peers, hist, replays
  <2>2. \E e \in burst' : sending'[e] = "no"
    BY <2>1
  <2>3. \A e \in Desk : burst' = {e} => burst = {}
    BY <2>1
  <2>4. QED
    BY <2>1, <2>2, <2>3
\* What a frame and a list do to the histories.
<1>7. ASSUME NEW R, GetFrame(R), \A c \in R : c \in Conn => sock[c] = "open",
             UNCHANGED <<sock, clients, target, burst>>, burst # {},
             sending' \in [Desk -> {"no", "frame", "list"}],
             \A e \in Desk : sending'[e] \in {sending[e], "no"},
             ~torn => target = None \/ \A c \in R : c = target
      PROVE  BurstInv'
  <2>1. /\ partial' = partial \cup R /\ torn' = torn
        /\ cut' = IF torn THEN cut \cup R ELSE cut \ R
    BY <1>7 DEF GetFrame
  <2>2. CASE torn
    BY <1>7, <2>1, <2>2
  <2>3. CASE ~torn
    <3>1. \E e \in burst : sending[e] = "no" => \E x \in burst : sending'[x] = "no"
      BY <1>7
    <3>2. target # None => \E e \in burst' : sending'[e] = "no"
      BY <1>7, <2>3
    <3>3. ASSUME NEW e \in Desk, burst' = {e}, NEW c \in partial' \cap clients'
          PROVE  c \in cut' \/ target' \in {None, c}
      BY <1>7, <2>1, <2>3, <3>3
    <3>4. QED
      BY <1>7, <2>1, <2>3, <3>2, <3>3
  <2>4. QED
    BY <2>2, <2>3
<1>8. ASSUME NEW d \in Desk, ReplayFrame(d) PROVE BurstInv'
  <2>1. /\ UNCHANGED <<sock, clients, burst, target>> /\ d \in burst
        /\ sending[d] = "no"
    BY <1>8 DEF ReplayFrame, peers, tables
  <2>2. CASE target = None
    <3>1. sending' = [sending EXCEPT ![d] = "frame"] /\ UNCHANGED <<partial, torn, cut>>
      BY <1>8, <2>2 DEF ReplayFrame, hist, replays
    <3>2. QED
      BY <2>1, <2>2, <3>1
  <2>3. CASE target # None
    <3>1. GetFrame(Target) /\ sending' = sending
      BY <1>8, <2>3 DEF ReplayFrame
    <3>2. \A c \in Target : c = target /\ sock[c] = "open"
      BY DEF Target
    <3>3. QED
      BY <1>7, <2>1, <3>1, <3>2
  <2>4. QED
    BY <2>2, <2>3
<1>9. ASSUME NEW d \in Desk, EndReplay(d) PROVE BurstInv'
  <2>1. /\ UNCHANGED <<sock, clients>> /\ d \in burst /\ target' = None
        /\ sending[d] = "no"
    BY <1>9 DEF EndReplay, peers
  <2>2. CASE target = None
    <3>1. sending' = [sending EXCEPT ![d] = "list"]
          /\ UNCHANGED <<burst, partial, torn, cut>>
      BY <1>9, <2>2 DEF EndReplay, hist, replays
    <3>2. QED
      BY <2>1, <2>2, <3>1
  <2>3. CASE target # None
    <3>1. /\ partial' = partial \ Target /\ cut' = cut /\ sending' = sending
          /\ burst' = burst \ {d} /\ torn' = (torn /\ burst' # {})
      BY <1>9, <2>3 DEF EndReplay, GetList, BurstOver
    <3>2. ASSUME burst' = {}, NEW c \in partial' \cap clients PROVE c \in cut
      <4>1. burst = {d}
        BY <2>1, <3>1, <3>2
      <4>2. c \in cut \/ c = target
        BY <2>3, <3>1, <4>1
      <4>3. c # target
        BY <3>1 DEF Target
      <4>4. QED
        BY <4>2, <4>3
    <3>3. \A e \in Desk : sending'[e] # "no" => e \in burst'
      BY <2>1, <3>1
    <3>4. torn' => partial' \subseteq cut'
      BY <3>1
    <3>5. QED
      BY <2>1, <3>1, <3>2, <3>3, <3>4
  <2>4. QED
    BY <2>2, <2>3
<1>10. ASSUME NEW d \in Desk, Broadcast(d) PROVE BurstInv'
  <2>1. /\ UNCHANGED <<sock, clients, target>> /\ d \in burst
        /\ sending' = [sending EXCEPT ![d] = "no"]
    BY <1>10 DEF Broadcast, peers, tables
  <2>2. CASE sending[d] = "frame"
    <3>1. GetFrame(clients) /\ burst' = burst
      BY <1>10, <2>2 DEF Broadcast, Everybody
    <3>2. CASE torn \/ target = None
      BY <1>7, <2>1, <3>1, <3>2
    <3>3. CASE ~torn /\ target # None
      <4>1. PICK e \in burst : sending[e] = "no"
        BY <2>1, <3>3
      <4>2. e # d /\ e \in Desk /\ ~\E x \in Desk : burst = {x}
        BY <2>1, <2>2, <4>1
      <4>3. /\ partial' = partial \cup clients /\ torn' = torn
            /\ cut' = cut \ clients
        BY <3>1, <3>3 DEF GetFrame
      <4>4. sending'[e] = "no" /\ burst' # {}
        BY <2>1, <3>1, <4>1, <4>2
      <4>5. QED
        BY <2>1, <3>1, <3>3, <4>1, <4>2, <4>3, <4>4
    <3>4. QED
      BY <3>2, <3>3
  <2>3. CASE sending[d] = "list"
    <3>1. /\ partial' = partial \ clients /\ cut' = cut
          /\ burst' = burst \ {d} /\ torn' = (torn /\ burst' # {})
      BY <1>10, <2>3 DEF Broadcast, GetList, BurstOver, Everybody
    <3>2. burst' # {} /\ ~torn' /\ target' # None
            => \E e \in burst' : sending'[e] = "no"
      <4> SUFFICES ASSUME burst' # {}, ~torn', target' # None
                   PROVE  \E e \in burst' : sending'[e] = "no"
        OBVIOUS
      <4>1. PICK e \in burst : sending[e] = "no"
        BY <2>1, <3>1
      <4>2. e # d /\ e \in Desk
        BY <2>3, <4>1
      <4>3. QED
        BY <2>1, <3>1, <4>1, <4>2
    <3>3. \A e \in Desk : sending'[e] # "no" => e \in burst'
      BY <2>1, <3>1
    <3>4. QED
      BY <2>1, <3>1, <3>2, <3>3
  <2>4. QED
    BY <1>10, <2>2, <2>3 DEF Broadcast
<1>11. CASE UNCHANGED replayVars
  BY <1>11 DEF replayVars, peers, tables, hist, replays
<1>12. QED
  BY <1>1, <1>2, <1>3, <1>4, <1>5, <1>6, <1>8, <1>9, <1>10, <1>11 DEF ReplayNext

\* No replay is left open: a client that got replay frames gets a list that
\* ends them, unless a burst still runs or a desktop went away in the middle of
\* one (its own, or one that overlapped it), although the bursts of any number
\* of desktop sockets share one target.
THEOREM ReplaysEnd == ReplaySpec => []BurstsEnd
<1>1. ReplayInit => BurstInv
  BY DEF ReplayInit, BurstInv
<1>2. BurstInv => BurstsEnd
  BY DEF BurstInv, BurstsEnd
<1>3. QED
  BY <1>1, <1>2, BurstStep, PTL DEF ReplaySpec

-----------------------------------------------------------------------------
(* Who gets the replay.                                                    *)

\* As long as nothing has put the queue and the desktop's requests out of
\* step, only the registered desktop has requests or a burst, every request it
\* has, or is about to get, has an entry in the queue, and every entry, like
\* the target, stands for an answer its client still waits for.  So every burst
\* has a target, and nothing is broadcast.
InStep ==
  /\ queue \in Seq(Conn) /\ target \in Conn \cup {None}
  /\ noted \subseteq Conn /\ IsFiniteSet(noted)
  /\ asked \in [Conn -> Nat] /\ inbox \in [Desk -> Nat]
  /\ burst \subseteq Desk /\ desktopTx \in Desk \cup {None}
  /\ \A d \in Desk : d # desktopTx => inbox[d] = 0 /\ d \notin burst
  /\ desktopTx # None => /\ Len(queue) >= inbox[desktopTx] + Cardinality(noted)
                         /\ \A c \in Conn : asked[c] >= Cardinality(Positions(queue, c))
                         /\ \A c \in Conn : target = c =>
                              asked[c] >= Cardinality(Positions(queue, c)) + 1
  /\ burst # {} => target # None
  /\ \A d \in Desk : sending[d] = "no"
  /\ stray = {}

\* A replay message then goes to nobody but the target, which has asked.
LEMMA NoneUnasked ==
  ASSUME InStep, NEW d \in burst
  PROVE  /\ d = desktopTx /\ d # None /\ d \in Desk /\ target \in Conn
         /\ Target \subseteq {target} /\ Unasked(Target) = {}
<1> None \notin Conn \cup Desk
  BY ReplayAssumption
<1>1. d \in Desk /\ d = desktopTx /\ d # None /\ target \in Conn
  BY DEF InStep
<1>2. Target \subseteq {target}
  BY <1>1 DEF Target
<1>3. Cardinality(Positions(queue, target)) \in Nat
  BY PositionsFinite DEF InStep
<1>4. asked[target] # 0
  BY <1>1, <1>3 DEF InStep
<1>5. QED
  BY <1>1, <1>2, <1>4 DEF Unasked

\* Every step that does not set disturbed keeps queue and requests in step.
LEMMA InStepStep ==
  ASSUME InStep, [ReplayNext]_replayVars, ~disturbed, ~disturbed'
  PROVE  InStep'
<1> None \notin Conn \cup Desk
  BY ReplayAssumption
<1>0. /\ Len(queue) \in Nat /\ Cardinality(noted) \in Nat
      /\ \A c : Cardinality(Positions(queue, c)) \in Nat
  BY PositionsFinite, FS_CardinalityType DEF InStep
<1>1. CASE UNCHANGED <<queue, target, noted, asked, inbox, burst, sending, desktopTx, stray>>
  BY <1>1 DEF InStep, Positions
<1>2. ASSUME NEW c \in Conn, Note(c) PROVE InStep'
  <2>1. /\ queue' = Append(queue, c) /\ c \notin noted /\ noted' = noted \cup {c}
        /\ asked' = [asked EXCEPT ![c] = @ + 1]
        /\ UNCHANGED <<target, inbox, burst, sending, desktopTx, stray>>
    BY <1>2 DEF Note, desks, replays
  <2>2. /\ queue' \in Seq(Conn) /\ Len(queue') = Len(queue) + 1
        /\ queue'[Len(queue')] = c /\ \A i \in 1..Len(queue) : queue'[i] = queue[i]
    BY <2>1 DEF InStep
  <2>3. IsFiniteSet(noted') /\ Cardinality(noted') = Cardinality(noted) + 1
    BY <2>1, FS_AddElement DEF InStep
  <2>4. /\ asked' \in [Conn -> Nat] /\ asked'[c] = asked[c] + 1 /\ asked[c] \in Nat
        /\ \A x \in Conn : x # c => asked'[x] = asked[x]
    BY <2>1 DEF InStep
  <2>5. /\ Cardinality(Positions(queue', c)) = Cardinality(Positions(queue, c)) + 1
        /\ \A x \in Conn : x # c =>
             Cardinality(Positions(queue', x)) = Cardinality(Positions(queue, x))
    BY <1>0, <2>2, PositionsGrow
  <2>6. desktopTx # None => Len(queue') >= inbox[desktopTx] + Cardinality(noted')
    BY <1>0, <2>2, <2>3 DEF InStep
  <2>7. ASSUME desktopTx # None, NEW x \in Conn
        PROVE  /\ asked'[x] >= Cardinality(Positions(queue', x))
               /\ target = x => asked'[x] >= Cardinality(Positions(queue', x)) + 1
    <3>1. /\ asked[x] \in Nat /\ asked[x] >= Cardinality(Positions(queue, x))
          /\ target = x => asked[x] >= Cardinality(Positions(queue, x)) + 1
          /\ Cardinality(Positions(queue, x)) \in Nat
      BY <1>0, <2>7 DEF InStep
    <3>2. CASE x = c
      BY <2>4, <2>5, <3>1, <3>2
    <3>3. CASE x # c
      BY <2>4, <2>5, <3>1, <3>3
    <3>4. QED
      BY <3>2, <3>3
  <2>8. QED
    BY <2>1, <2>2, <2>3, <2>4, <2>6, <2>7 DEF InStep
<1>3. ASSUME NEW c \in Conn, Forward(c) PROVE InStep'
  <2>1. /\ c \in noted /\ noted' = noted \ {c}
        /\ UNCHANGED <<queue, target, burst, sending, desktopTx, stray>>
    BY <1>3 DEF Forward, desks, tables, replays
  <2>2. IsFiniteSet(noted') /\ Cardinality(noted') = Cardinality(noted) - 1
    BY <2>1, FS_RemoveElement DEF InStep
  <2>3. CASE desktopTx = None
    <3>1. asked' \in [Conn -> Nat] /\ inbox' = inbox
      BY <1>3, <2>3 DEF Forward, InStep
    <3>2. QED
      BY <2>1, <2>2, <2>3, <3>1 DEF InStep
  <2>4. CASE desktopTx # None
    <3>1. inbox' = [inbox EXCEPT ![desktopTx] = @ + 1] /\ asked' = asked
      BY <1>3, <2>4 DEF Forward
    <3>2. /\ inbox' \in [Desk -> Nat] /\ inbox'[desktopTx] = inbox[desktopTx] + 1
          /\ inbox[desktopTx] \in Nat
          /\ \A d \in Desk : d # desktopTx => inbox'[d] = inbox[d]
      BY <2>4, <3>1 DEF InStep
    <3>3. Len(queue) >= inbox'[desktopTx] + Cardinality(noted')
      BY <1>0, <2>2, <2>4, <3>2 DEF InStep
    <3>4. QED
      BY <2>1, <2>2, <2>4, <3>1, <3>2, <3>3 DEF InStep
  <2>5. QED
    BY <2>3, <2>4
<1>4. ASSUME NEW c \in Conn, Leave(c) \/ Revoke(c) PROVE InStep'
  BY <1>1, <1>4 DEF Leave, Revoke, desks, hist, replays
\* A desktop that comes or goes finds nothing under way.
<1>5. ASSUME DesktopChange
      PROVE  /\ noted = {} /\ burst = {} /\ \A d \in Desk : inbox[d] = 0
             /\ queue' = <<>> /\ target' = None /\ asked' = [c \in Conn |-> 0]
  <2>1. noted = {} /\ \A d \in Desk : ~(inbox[d] > 0) /\ d \notin burst
    BY <1>5 DEF DesktopChange
  <2>2. burst = {} /\ \A d \in Desk : inbox[d] = 0
    BY <2>1 DEF InStep
  <2>3. queue' = <<>> /\ target' = None
    BY <1>5 DEF DesktopChange
  <2>4. asked' = [c \in Conn |-> IF c \in noted THEN 1 ELSE 0]
    BY <1>5 DEF DesktopChange
  <2>5. asked' = [c \in Conn |-> 0]
    BY <2>1, <2>4
  <2>6. QED
    BY <2>1, <2>2, <2>3, <2>5
<1>6. ASSUME DesktopChange, desktopTx' \in Desk \cup {None},
             UNCHANGED <<noted, stray, sending>>, burst' = {}, inbox' \in [Desk -> Nat],
             \A d \in Desk : inbox'[d] = 0
      PROVE  InStep'
  <2>1. noted' = {} /\ queue' = <<>> /\ target' = None /\ asked' = [c \in Conn |-> 0]
    BY <1>5, <1>6
  <2>2. /\ IsFiniteSet({}) /\ Cardinality({}) = 0
        /\ \A c : Positions(<<>>, c) = {}
    BY FS_EmptySet DEF Positions
  <2>3. desktopTx' # None => Len(queue') >= inbox'[desktopTx'] + Cardinality(noted')
    BY <1>6, <2>1, <2>2
  <2>4. \A c \in Conn : asked'[c] >= Cardinality(Positions(queue', c)) /\ target' # c
    <3>1. \A c \in Conn : asked'[c] = 0 /\ Positions(queue', c) = {} /\ None # c
      BY <2>1, <2>2
    <3>2. \A c \in Conn : Cardinality(Positions(queue', c)) = 0
      BY <2>2, <3>1
    <3>3. QED
      BY <2>1, <3>1, <3>2
  <2>5. asked' \in [Conn -> Nat] /\ queue' \in Seq(Conn)
    BY <2>1
  <2>6. QED
    BY <1>6, <2>1, <2>2, <2>3, <2>4, <2>5 DEF InStep
<1>7. ASSUME NEW d \in Desk, DesktopRegister(d) PROVE InStep'
  <2>1. /\ DesktopChange /\ desktopTx' = d
        /\ UNCHANGED <<noted, stray, burst, sending, inbox>>
    BY <1>7 DEF DesktopRegister, replays
  <2>2. burst = {} /\ \A e \in Desk : inbox[e] = 0
    BY <1>5, <2>1
  <2>3. QED
    BY <1>6, <2>1, <2>2 DEF InStep
<1>8. ASSUME NEW d \in Desk, DesktopGone(d) PROVE InStep'
  <2>1. /\ inbox' = [inbox EXCEPT ![d] = 0] /\ burst' = burst \ {d}
        /\ UNCHANGED <<noted, sending, stray>>
    BY <1>8 DEF DesktopGone
  <2>2. CASE desktopTx \in {d, None}
    <3>1. DesktopChange /\ desktopTx' = None
      BY <1>8, <2>2 DEF DesktopGone
    <3>2. burst = {} /\ \A e \in Desk : inbox[e] = 0
      BY <1>5, <3>1
    <3>3. inbox' \in [Desk -> Nat] /\ (\A e \in Desk : inbox'[e] = 0) /\ burst' = {}
      BY <2>1, <3>2 DEF InStep
    <3>4. QED
      BY <1>6, <2>1, <3>1, <3>3
  <2>3. CASE desktopTx \notin {d, None}
    <3>1. UNCHANGED <<desktopTx, queue, target, asked>>
      BY <1>8, <2>3 DEF DesktopGone, tables
    <3>2. inbox' = inbox /\ burst' = burst
      BY <2>1, <2>3 DEF InStep
    <3>3. QED
      BY <1>1, <2>1, <3>1, <3>2
  <2>4. QED
    BY <2>2, <2>3
<1>9. ASSUME NEW d \in Desk, BeginReplay(d) PROVE InStep'
  <2>1. /\ inbox[d] > 0 /\ inbox' = [inbox EXCEPT ![d] = @ - 1]
        /\ burst' = burst \cup {d}
        /\ UNCHANGED <<noted, sending, desktopTx, asked, stray>>
    BY <1>9 DEF BeginReplay, desks, hist, replays
  <2>2. d = desktopTx /\ d # None /\ inbox[d] \in Nat
    BY <2>1 DEF InStep
  <2>3. Len(queue) >= inbox[d] + Cardinality(noted)
    BY <2>2 DEF InStep
  <2>4. queue # <<>> /\ Len(queue) \in Nat \ {0}
    BY <1>0, <2>1, <2>2, <2>3
  <2>5. target' = Head(queue) /\ queue' = Tail(queue)
    BY <1>9, <2>4 DEF BeginReplay
  <2>6. /\ queue' \in Seq(Conn) /\ Len(queue') = Len(queue) - 1
        /\ target' = queue[1] /\ target' \in Conn
        /\ \A i \in 1..Len(queue') : queue'[i] = queue[i + 1]
    BY <2>4, <2>5 DEF InStep
  <2>7. \A x \in Conn :
          /\ Cardinality(Positions(queue', x)) <= Cardinality(Positions(queue, x))
          /\ target' = x => Cardinality(Positions(queue', x)) + 1
                              <= Cardinality(Positions(queue, x))
    BY <2>4, <2>6, PositionsShrink
  <2>8. \A x \in Conn :
          /\ Cardinality(Positions(queue', x)) \in Nat
          /\ Cardinality(Positions(queue, x)) \in Nat
          /\ asked[x] >= Cardinality(Positions(queue, x)) /\ asked[x] \in Nat
    <3>1. Len(queue') \in Nat
      BY <1>0, <2>4, <2>6
    <3>2. QED
      BY <2>2, <3>1, PositionsFinite DEF InStep
  <2>9. \A x \in Conn :
          /\ asked[x] >= Cardinality(Positions(queue', x))
          /\ target' = x => asked[x] >= Cardinality(Positions(queue', x)) + 1
    BY <1>0, <2>7, <2>8
  <2>10. /\ inbox' \in [Desk -> Nat] /\ inbox'[d] = inbox[d] - 1
         /\ \A e \in Desk : e # d => inbox'[e] = inbox[e]
    BY <2>1, <2>2 DEF InStep
  <2>11. Len(queue') >= inbox'[d] + Cardinality(noted)
    BY <1>0, <2>2, <2>3, <2>6, <2>10
  <2>12. /\ burst' \subseteq Desk /\ target' # None
         /\ \A e \in Desk : e # desktopTx => inbox'[e] = 0 /\ e \notin burst'
    BY <2>1, <2>2, <2>6, <2>10 DEF InStep
  <2>13. noted \subseteq Conn /\ IsFiniteSet(noted) /\ stray = {} /\ desktopTx \in Desk
    BY <2>2 DEF InStep
  <2>14. /\ desktopTx' = d /\ noted' = noted /\ asked' = asked /\ stray' = stray
         /\ asked \in [Conn -> Nat]
    BY <2>1, <2>2 DEF InStep
  <2>15. /\ Len(queue') >= inbox'[desktopTx'] + Cardinality(noted')
         /\ \A e \in Desk : e # desktopTx' => inbox'[e] = 0 /\ e \notin burst'
         /\ \A x \in Conn : asked'[x] >= Cardinality(Positions(queue', x))
         /\ \A x \in Conn : target' = x =>
              asked'[x] >= Cardinality(Positions(queue', x)) + 1
    <3>1. Len(queue') >= inbox'[desktopTx'] + Cardinality(noted')
      BY <2>11, <2>14
    <3>2. \A e \in Desk : e # desktopTx' => inbox'[e] = 0 /\ e \notin burst'
      BY <2>2, <2>12, <2>14
    <3>3. /\ \A x \in Conn : asked'[x] >= Cardinality(Positions(queue', x))
          /\ \A x \in Conn : target' = x =>
               asked'[x] >= Cardinality(Positions(queue', x)) + 1
      <4> SUFFICES ASSUME NEW x \in Conn
                   PROVE  /\ asked'[x] >= Cardinality(Positions(queue', x))
                          /\ target' = x =>
                               asked'[x] >= Cardinality(Positions(queue', x)) + 1
        OBVIOUS
      <4>1. asked'[x] = asked[x]
        BY <2>14
      <4>2. QED
        BY <2>8, <2>9, <4>1
    <3>4. QED
      BY <3>1, <3>2, <3>3
  <2>16. /\ noted' \subseteq Conn /\ IsFiniteSet(noted') /\ stray' = {}
         /\ desktopTx' \in Desk /\ asked' \in [Conn -> Nat]
         /\ \A e \in Desk : sending'[e] = "no"
    BY <2>1, <2>13, <2>14 DEF InStep
  <2>17. QED
    BY <2>6, <2>10, <2>12, <2>15, <2>16 DEF InStep
<1>10. ASSUME NEW d \in Desk, ReplayFrame(d) PROVE InStep'
  <2>1. d \in burst /\ target # None
    BY <1>10 DEF ReplayFrame, InStep
  <2>2. /\ stray' = stray \cup Unasked(Target)
        /\ UNCHANGED <<queue, target, noted, asked, inbox, burst, sending, desktopTx>>
    BY <1>10, <2>1 DEF ReplayFrame, GetFrame, desks, tables
  <2>3. QED
    BY <1>1, <2>1, <2>2, NoneUnasked
<1>11. ASSUME NEW d \in Desk, EndReplay(d) PROVE InStep'
  <2>0. d \in burst /\ target # None
    BY <1>11 DEF EndReplay, InStep
  <2>1. /\ d \in burst /\ burst' = burst \ {d} /\ target' = None
        /\ stray' = stray \cup Unasked(Target)
        /\ asked' = [c \in Conn |-> IF c \in Target \ Unasked(Target)
                                      THEN asked[c] - 1 ELSE asked[c]]
        /\ UNCHANGED <<queue, noted, inbox, sending, desktopTx>>
    BY <1>11, <2>0 DEF EndReplay, GetList, BurstOver, desks
  <2>2. /\ d = desktopTx /\ d # None /\ target \in Conn
        /\ Target \subseteq {target} /\ Unasked(Target) = {}
    BY <2>1, NoneUnasked
  <2>3. burst' = {} /\ stray' = {}
    BY <2>1, <2>2 DEF InStep
  <2>4. ASSUME NEW x \in Conn
        PROVE  asked'[x] \in Nat /\ asked'[x] >= Cardinality(Positions(queue, x))
    <3>1. \/ asked'[x] = asked[x]
          \/ x = target /\ asked'[x] = asked[x] - 1
      <4>1. asked'[x] = IF x \in Target \ Unasked(Target) THEN asked[x] - 1 ELSE asked[x]
        BY <2>1
      <4>2. x \in Target \ Unasked(Target) => x = target
        BY <2>2
      <4>3. CASE x \in Target \ Unasked(Target)
        BY <4>1, <4>2, <4>3
      <4>4. CASE ~(x \in Target \ Unasked(Target))
        BY <4>1, <4>4
      <4>5. QED
        BY <4>3, <4>4
    <3>2. /\ asked[x] \in Nat /\ asked[x] >= Cardinality(Positions(queue, x))
          /\ x = target => asked[x] >= Cardinality(Positions(queue, x)) + 1
      BY <2>2 DEF InStep
    <3>3. QED
      BY <1>0, <3>1, <3>2
  <2>5. asked' \in [Conn -> Nat]
    BY <2>1, <2>4
  <2>6. QED
    BY <2>1, <2>3, <2>4, <2>5 DEF InStep
<1>12. ASSUME NEW d \in Desk, Broadcast(d) PROVE FALSE
  BY <1>12 DEF Broadcast, InStep
<1>13. QED
  BY <1>1, <1>2, <1>3, <1>4, <1>7, <1>8, <1>9, <1>10, <1>11, <1>12
     DEF ReplayNext, replayVars, Join, desks, tables, hist, replays

\* A replay reaches only a client that asked for one, until a requester leaves
\* the queue, the queue overflows, or a desktop comes or goes while requests
\* are under way; for any number of clients, desktop sockets and requests and
\* any MAX_REPLAY_QUEUE.
THEOREM ReplaysOnlyToRequesters == ReplaySpec => []RequesterOnly
<1> None \notin Conn \cup Desk
  BY ReplayAssumption
<1> DEFINE I == ~disturbed => InStep
<1>1. ReplayInit => I
  <2> SUFFICES ASSUME ReplayInit PROVE InStep
    OBVIOUS
  <2>1. queue \in Seq(Conn) /\ desktopTx = None /\ target = None /\ noted = {}
    BY DEF ReplayInit
  <2>2. IsFiniteSet({})
    BY FS_EmptySet
  <2>3. asked \in [Conn -> Nat] /\ inbox \in [Desk -> Nat]
    BY DEF ReplayInit
  <2>4. burst = {} /\ stray = {} /\ \A d \in Desk : inbox[d] = 0 /\ sending[d] = "no"
    BY DEF ReplayInit
  <2>5. QED
    BY <2>1, <2>2, <2>3, <2>4 DEF InStep
<1>2. I /\ [ReplayNext]_replayVars => I'
  <2> SUFFICES ASSUME I, [ReplayNext]_replayVars, ~disturbed' PROVE InStep'
    OBVIOUS
  <2>1. ~disturbed
    BY DEF ReplayNext, replayVars, Join, Note, Forward, Leave, Revoke,
           DesktopRegister, DesktopGone, DesktopChange, BeginReplay,
           ReplayFrame, EndReplay, Broadcast
  <2>2. QED
    BY <2>1, InStepStep
<1>3. I => RequesterOnly
  BY DEF RequesterOnly, InStep
<1>4. QED
  BY <1>1, <1>2, <1>3, PTL DEF ReplaySpec

-----------------------------------------------------------------------------
(* Types of Replay                                                         *)

\* As many ranks as kept places, and each of them is the rank of one.
LEMMA KeptRanked ==
  ASSUME NEW n \in Nat, NEW K, K \subseteq 1..n
  PROVE  /\ IsFiniteSet(K) /\ Cardinality(K) \in Nat /\ Cardinality(K) <= n
         /\ \A k \in 1..Cardinality(K) : \E i \in K : Cardinality(K \cap 1..i) = k
<1>1. IsFiniteSet(1..n) /\ Cardinality(1..n) = n
  BY FS_Interval
<1>2. IsFiniteSet(K) /\ Cardinality(K) \in Nat /\ Cardinality(K) <= n
  BY <1>1, FS_Subset, FS_CardinalityType
<1> DEFINE R(i) == K \cap 1..i
           N == Cardinality(K)
           rank == [i \in K |-> Cardinality(R(i))]
<1>3. \A i \in K : IsFiniteSet(R(i)) /\ Cardinality(R(i)) \in Nat /\ Cardinality(R(i)) <= N
  <2> SUFFICES ASSUME NEW i \in K
               PROVE  /\ IsFiniteSet(R(i)) /\ Cardinality(R(i)) \in Nat
                      /\ Cardinality(R(i)) <= N
    OBVIOUS
  <2>1. R(i) \in SUBSET K
    OBVIOUS
  <2>2. IsFiniteSet(R(i)) /\ Cardinality(R(i)) <= N
    BY ONLY <1>2, <2>1, FS_Subset
  <2>3. QED
    BY ONLY <2>2, FS_CardinalityType
<1>4. ASSUME NEW i \in K, NEW j \in K, i < j
      PROVE  Cardinality(R(i)) < Cardinality(R(j))
  <2>1. i \in 1..n /\ j \in 1..n
    OBVIOUS
  <2>2. R(i) \in SUBSET R(j) /\ j \in R(j) /\ j \notin R(i)
    BY <1>4, <2>1
  <2> HIDE DEF R
  <2>3. Cardinality(R(i)) <= Cardinality(R(j)) /\ Cardinality(R(j)) # Cardinality(R(i))
    BY <1>3, <2>2, FS_Subset
  <2>4. QED
    BY <1>3, <2>3
<1>5. \A i \in K : Cardinality(R(i)) >= 1
  <2> SUFFICES ASSUME NEW i \in K PROVE Cardinality(R(i)) >= 1
    OBVIOUS
  <2>1. i \in R(i)
    OBVIOUS
  <2> HIDE DEF R
  <2>2. R(i) # {}
    BY <2>1
  <2>3. Cardinality(R(i)) # 0
    BY <1>3, <2>2, FS_EmptySet
  <2>4. QED
    BY <1>3, <2>3
<1>6. rank \in Injection(K, 1..N)
  <2>1. rank \in [K -> 1..N]
    BY <1>2, <1>3, <1>5
  <2>2. \A i, j \in K : rank[i] = rank[j] => i = j
    <3> HIDE DEF R
    <3>1. \A i, j \in K : i < j \/ j < i \/ i = j
      OBVIOUS
    <3>2. QED
      BY <1>3, <1>4, <3>1
  <2> HIDE DEF rank
  <2>3. QED
    BY <2>1, <2>2 DEF Injection, IsInjective
<1>7. IsFiniteSet(1..N) /\ Cardinality(1..N) = N
  BY <1>2, FS_Interval
<1>8. rank \in Surjection(K, 1..N)
  <2> HIDE DEF rank
  <2>1. QED
    BY <1>6, <1>7, FS_Injection
<1>9. \A k \in 1..N : \E i \in K : rank[i] = k
  <2> HIDE DEF rank
  <2>1. QED
    BY <1>8 DEF Surjection
<1>10. QED
  BY <1>2, <1>9

\* A queue without c is a queue, and no longer than before.
LEMMA WithoutShrinks ==
  ASSUME NEW q \in Seq(Conn), NEW c
  PROVE  Without(q, c) \in Seq(Conn) /\ Len(Without(q, c)) <= Len(q)
<1> DEFINE K == Kept(q, c)
           N == Cardinality(K)
           At(k) == CHOOSE i \in K : Cardinality(K \cap 1..i) = k
<1>1. Len(q) \in Nat /\ K \subseteq 1..Len(q) /\ \A i \in 1..Len(q) : q[i] \in Conn
  BY DEF Kept
<1> HIDE DEF K
<1>2. /\ N \in Nat /\ N <= Len(q)
      /\ \A k \in 1..N : \E i \in K : Cardinality(K \cap 1..i) = k
  BY <1>1, KeptRanked
<1>3. \A k \in 1..N : At(k) \in K
  BY <1>2
<1> HIDE DEF At
<1>4. \A k \in 1..N : q[At(k)] \in Conn
  BY <1>1, <1>3
<1> DEFINE w == [k \in 1..N |-> q[At(k)]]
<1>5. w \in Seq(Conn) /\ Len(w) = N
  BY <1>2, <1>4
<1>6. Without(q, c) = w
  BY DEF Without, At, K
<1>7. QED
  BY <1>2, <1>5, <1>6

\* Every handler keeps the types and the bound of the queue.
LEMMA ReplayTypeStep ==
  ReplayTypeOK /\ [ReplayNext]_replayVars => ReplayTypeOK'
<1> SUFFICES ASSUME ReplayTypeOK, [ReplayNext]_replayVars PROVE ReplayTypeOK'
  OBVIOUS
<1> USE ReplayAssumption DEF ReplayTypeOK
<1>0. queue \in Seq(Conn) /\ Len(queue) \in Nat
  OBVIOUS
<1>1. ASSUME NEW c \in Conn, Join(c) PROVE ReplayTypeOK'
  BY <1>1 DEF Join, desks, tables, hist, replays
<1>2. ASSUME NEW c \in Conn, Note(c) PROVE ReplayTypeOK'
  <2>1. /\ UNCHANGED <<sock, clients, desk, desktopTx, target, inbox, burst,
                       sending, partial, torn, cut, stray>>
        /\ noted' = noted \cup {c} /\ left > 0 /\ left' = left - 1
        /\ asked' = [asked EXCEPT ![c] = asked[c] + 1]
    BY <1>2 DEF Note, peers, desks, replays
  <2>2. queue' \in Seq(Conn) /\ Len(queue') <= MaxQueue /\ disturbed' \in BOOLEAN
    <3>1. CASE Len(queue) < MaxQueue
      <4>1. queue' = Append(queue, c) /\ disturbed' = disturbed
        BY <1>2, <3>1 DEF Note
      <4>2. queue' \in Seq(Conn) /\ Len(queue') = Len(queue) + 1
        BY <1>0, <4>1
      <4>3. QED
        BY <1>0, <3>1, <4>1, <4>2
    <3>2. CASE ~(Len(queue) < MaxQueue)
      BY <1>2, <3>2 DEF Note
    <3>3. QED
      BY <3>1, <3>2
  <2>3. asked' \in [Conn -> Nat] /\ left' \in Nat
    BY <2>1
  <2>4. QED
    BY <2>1, <2>2, <2>3
<1>3. ASSUME NEW c \in Conn, Forward(c) PROVE ReplayTypeOK'
  <2>1. /\ UNCHANGED <<sock, clients, desk, desktopTx, queue, target, burst, left,
                       sending, partial, torn, cut, stray, disturbed>>
        /\ noted' = noted \ {c}
    BY <1>3 DEF Forward, peers, desks, tables, replays
  <2>2. inbox' \in [Desk -> Nat] /\ asked' \in [Conn -> Nat]
    <3>1. CASE desktopTx = None
      <4>1. /\ inbox' = inbox
            /\ asked' = [asked EXCEPT ![c] = IF asked[c] > 0 THEN asked[c] - 1 ELSE 0]
        BY <1>3, <3>1 DEF Forward
      <4>2. (IF asked[c] > 0 THEN asked[c] - 1 ELSE 0) \in Nat
        OBVIOUS
      <4>3. QED
        BY <4>1, <4>2
    <3>2. CASE desktopTx # None
      <4>1. /\ desktopTx \in Desk /\ asked' = asked
            /\ inbox' = [inbox EXCEPT ![desktopTx] = inbox[desktopTx] + 1]
        BY <1>3, <3>2 DEF Forward
      <4>2. inbox[desktopTx] + 1 \in Nat
        BY <4>1
      <4>3. QED
        BY <4>1, <4>2
    <3>3. QED
      BY <3>1, <3>2
  <2>3. QED
    BY <2>1, <2>2
<1>4. ASSUME NEW c \in Conn, Leave(c) \/ Revoke(c) PROVE ReplayTypeOK'
  <2>1. /\ UNCHANGED <<desk, desktopTx, target, noted, inbox, burst, left, asked,
                       sending, partial, torn, cut, stray>>
        /\ sock' = sock \/ sock' = [sock EXCEPT ![c] = "closed"]
        /\ clients' = clients \ {c}
        /\ queue' = Without(queue, c)
        /\ disturbed' = (disturbed \/ queue' # queue)
    BY <1>4 DEF Leave, Revoke, desks, hist, replays
  <2>2. queue' \in Seq(Conn) /\ Len(queue') <= Len(queue) /\ Len(queue') \in Nat
    BY <1>0, <2>1, WithoutShrinks
  <2>3. Len(queue') <= MaxQueue /\ disturbed' \in BOOLEAN
    BY <1>0, <2>1, <2>2
  <2>4. sock' \in [Conn -> {"new", "open", "closed"}] /\ clients' \subseteq Conn
    BY <2>1
  <2>5. QED
    BY <2>1, <2>2, <2>3, <2>4
<1>5. ASSUME DesktopChange
      PROVE  /\ queue' \in Seq(Conn) /\ Len(queue') <= MaxQueue
             /\ target' \in Conn \cup {None} /\ asked' \in [Conn -> Nat]
             /\ disturbed' \in BOOLEAN
  <2>1. queue' = <<>> /\ <<>> \in Seq(Conn) /\ Len(<<>>) = 0
    BY <1>5 DEF DesktopChange
  <2>2. QED
    BY <1>5, <2>1 DEF DesktopChange
<1>6. ASSUME NEW d \in Desk, DesktopRegister(d) PROVE ReplayTypeOK'
  <2>1. /\ UNCHANGED <<sock, clients, noted, inbox, burst, sending, left, partial,
                       torn, cut, stray>>
        /\ desk' = [desk EXCEPT ![d] = "open"] /\ desktopTx' = d
    BY <1>6 DEF DesktopRegister, peers, replays
  <2>2. DesktopChange
    BY <1>6 DEF DesktopRegister
  <2>3. QED
    BY <1>5, <2>1, <2>2
<1>7. ASSUME NEW d \in Desk, DesktopGone(d) PROVE ReplayTypeOK'
  <2>1. /\ UNCHANGED <<sock, clients, noted, sending, left, partial, stray>>
        /\ desk' = [desk EXCEPT ![d] = "closed"]
        /\ inbox' = [inbox EXCEPT ![d] = 0] /\ burst' = burst \ {d}
    BY <1>7 DEF DesktopGone, peers
  <2>2. torn' \in BOOLEAN /\ cut' \subseteq Conn
    BY <1>7 DEF DesktopGone
  <2>3. CASE desktopTx \in {d, None}
    <3>1. desktopTx' = None /\ DesktopChange
      BY <1>7, <2>3 DEF DesktopGone
    <3>2. QED
      BY <1>5, <2>1, <2>2, <3>1
  <2>4. CASE desktopTx \notin {d, None}
    <3>1. UNCHANGED <<desktopTx, queue, target, asked, disturbed>>
      BY <1>7, <2>4 DEF DesktopGone, tables
    <3>2. QED
      BY <2>1, <2>2, <3>1
  <2>5. QED
    BY <2>3, <2>4
<1>8. ASSUME NEW d \in Desk, BeginReplay(d) PROVE ReplayTypeOK'
  <2>1. /\ UNCHANGED <<sock, clients, desk, desktopTx, noted, sending, left, asked,
                       partial, torn, cut, stray, disturbed>>
        /\ inbox[d] > 0 /\ inbox' = [inbox EXCEPT ![d] = inbox[d] - 1]
        /\ burst' = burst \cup {d}
    BY <1>8 DEF BeginReplay, peers, desks, hist, replays
  <2>2. inbox' \in [Desk -> Nat]
    BY <2>1
  <2>3. /\ queue' \in Seq(Conn) /\ Len(queue') <= MaxQueue
        /\ target' \in Conn \cup {None}
    <3>1. CASE queue = <<>>
      BY <1>8, <3>1 DEF BeginReplay
    <3>2. CASE queue # <<>>
      <4>1. target' = Head(queue) /\ queue' = Tail(queue)
        BY <1>8, <3>2 DEF BeginReplay
      <4>2. Head(queue) \in Conn /\ Tail(queue) \in Seq(Conn)
            /\ Len(Tail(queue)) = Len(queue) - 1
        BY <1>0, <3>2
      <4>3. QED
        BY <1>0, <4>1, <4>2
    <3>3. QED
      BY <3>1, <3>2
  <2>4. QED
    BY <2>1, <2>2, <2>3
<1>9. Everybody \subseteq Conn /\ (target # None => Target \subseteq Conn)
  BY DEF Everybody, Target
<1>10. ASSUME NEW R \in SUBSET Conn, GetFrame(R)
       PROVE  /\ partial' \subseteq Conn /\ cut' \subseteq Conn /\ stray' \subseteq Conn
              /\ torn' = torn /\ asked' = asked
  BY <1>10 DEF GetFrame, Unasked
<1>11. ASSUME NEW R \in SUBSET Conn, GetList(R)
       PROVE  /\ partial' \subseteq Conn /\ cut' \subseteq Conn /\ stray' \subseteq Conn
              /\ asked' \in [Conn -> Nat]
  <2>1. \A c \in R \ Unasked(R) : asked[c] # 0
    BY DEF Unasked
  <2>2. asked' = [c \in Conn |-> IF c \in R \ Unasked(R) THEN asked[c] - 1 ELSE asked[c]]
    BY <1>11 DEF GetList
  <2>3. asked' \in [Conn -> Nat]
    BY <2>1, <2>2
  <2>4. partial' \subseteq Conn /\ cut' \subseteq Conn /\ stray' \subseteq Conn
    BY <1>11 DEF GetList, Unasked
  <2>5. QED
    BY <2>3, <2>4
<1>12. ASSUME NEW d \in Desk, ReplayFrame(d) PROVE ReplayTypeOK'
  <2>1. UNCHANGED <<sock, clients, desk, desktopTx, queue, target, noted, inbox, burst,
                    left, disturbed>>
    BY <1>12 DEF ReplayFrame, peers, desks, tables
  <2>2. CASE target = None
    <3>1. /\ UNCHANGED <<asked, partial, torn, cut, stray>>
          /\ sending' = [sending EXCEPT ![d] = "frame"]
      BY <1>12, <2>2 DEF ReplayFrame, hist, replays
    <3>2. QED
      BY <2>1, <3>1
  <2>3. CASE target # None
    <3>1. GetFrame(Target) /\ sending' = sending
      BY <1>12, <2>3 DEF ReplayFrame
    <3>2. QED
      BY <1>9, <1>10, <2>1, <2>3, <3>1
  <2>4. QED
    BY <2>2, <2>3
<1>13. ASSUME NEW d \in Desk, EndReplay(d) PROVE ReplayTypeOK'
  <2>1. /\ UNCHANGED <<sock, clients, desk, desktopTx, queue, noted, inbox, left, disturbed>>
        /\ target' = None
    BY <1>13 DEF EndReplay, peers, desks
  <2>2. CASE target = None
    <3>1. /\ UNCHANGED <<burst, asked, partial, torn, cut, stray>>
          /\ sending' = [sending EXCEPT ![d] = "list"]
      BY <1>13, <2>2 DEF EndReplay, hist, replays
    <3>2. QED
      BY <2>1, <3>1
  <2>3. CASE target # None
    <3>1. GetList(Target) /\ sending' = sending
      BY <1>13, <2>3 DEF EndReplay
    <3>2. burst' \subseteq Desk /\ torn' \in BOOLEAN
      BY <1>13, <2>3 DEF EndReplay, BurstOver
    <3>3. QED
      BY <1>9, <1>11, <2>1, <2>3, <3>1, <3>2
  <2>4. QED
    BY <2>2, <2>3
<1>14. ASSUME NEW d \in Desk, Broadcast(d) PROVE ReplayTypeOK'
  <2>1. /\ UNCHANGED <<sock, clients, desk, desktopTx, queue, target, noted, inbox, left,
                       disturbed>>
        /\ sending' = [sending EXCEPT ![d] = "no"]
    BY <1>14 DEF Broadcast, peers, desks, tables
  <2>2. CASE GetFrame(Everybody) /\ UNCHANGED burst
    BY <1>9, <1>10, <2>1, <2>2
  <2>3. CASE GetList(Everybody) /\ BurstOver(d)
    <3>1. burst' \subseteq Desk /\ torn' \in BOOLEAN
      BY <2>3 DEF BurstOver
    <3>2. QED
      BY <1>9, <1>11, <2>1, <2>3, <3>1
  <2>4. QED
    BY <1>14, <2>2, <2>3 DEF Broadcast
<1>15. CASE UNCHANGED replayVars
  BY <1>15 DEF replayVars, peers, desks, tables, hist, replays
<1>16. QED
  BY <1>1, <1>2, <1>3, <1>4, <1>6, <1>7, <1>8, <1>12, <1>13, <1>14, <1>15 DEF ReplayNext

\* The replay tables are well typed in every reachable state, and the queue of
\* requesters never exceeds MAX_REPLAY_QUEUE.
THEOREM ReplayTypeCorrect == ReplaySpec => []ReplayTypeOK
<1>1. ReplayInit => ReplayTypeOK
  <2> SUFFICES ASSUME ReplayInit PROVE ReplayTypeOK
    OBVIOUS
  <2>1. queue \in Seq(Conn) /\ Len(queue) = 0
    BY DEF ReplayInit
  <2>2. /\ Len(queue) <= MaxQueue
        /\ sock \in [Conn -> {"new", "open", "closed"}]
        /\ desk \in [Desk -> {"new", "open", "closed"}]
    BY <2>1, ReplayAssumption DEF ReplayInit
  <2>3. QED
    BY <2>1, <2>2, ReplayAssumption DEF ReplayInit, ReplayTypeOK
<1>2. QED
  BY <1>1, ReplayTypeStep, PTL DEF ReplaySpec

=============================================================================
