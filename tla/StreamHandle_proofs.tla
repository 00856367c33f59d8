-------------------------- MODULE StreamHandle_proofs --------------------------
(***************************************************************************)
(* Proofs about a stream handle, for any number of subscribers, events and *)
(* calls that callbacks make into it.                                      *)
(*                                                                         *)
(* First: status, result and the closed flag tell one story.  The stack is *)
(* seen as the procedures that are in progress (Holds), of which some      *)
(* stand only at its bottom (Grounded); HandleInv says what each of them   *)
(* may find and leave behind.                                              *)
(*                                                                         *)
(* Then its events: their types, that the iterator loses none of them,     *)
(* that a closed stream ended with a terminal event, and that all views of *)
(* a stream agree as long as no callback calls back into the handle.       *)
(***************************************************************************)
EXTENDS StreamHandle, SequenceTheorems, FiniteSetTheorems, TLAPS

IsStack(s) == \E S : s \in Seq(S)

\* A call of the procedure is in progress.
Holds(s, proc) == \E k \in 1..Len(s) : s[k].proc = proc

\* It was called by the event loop and by nothing else.
Grounded(s, proc) == \A k \in 1..Len(s) : s[k].proc = proc => k = Len(s)

\* The end of a run and its failure begin when the loop is free; so does a cancel that no
\* callback has made.
StackInv ==
  /\ IsStack(stack)
  /\ Grounded(stack, "finish") /\ Grounded(stack, "fail")
  /\ reentered \in Nat
  /\ reentered = 0 => Grounded(stack, "cancel")

\* What the calls in progress have to do with status, result and the closed flag.
HandleInv ==
  /\ status \in {"running", "completed", "failed", "cancelled"} /\ complete \in BOOLEAN
  /\ complete <=> result # "pending"
  /\ status = "running" => ~complete
  /\ ~complete /\ status # "running" => Holds(stack, "fail")
  /\ Holds(stack, "fail") =>
       ~complete /\ status \in {"failed", "cancelled"} /\ exec = "over" /\ ~Holds(stack, "cancel")
  /\ Holds(stack, "finish") =>
       status \in {"running", "cancelled"} /\ exec = "over" /\ (reentered = 0 => ~complete)
  /\ Holds(stack, "cancel") =>
       status \in {"running", "cancelled"} /\ result \in {"pending", "cancelled"}
  /\ status = "failed" => exec = "over" /\ (result = "rejected" \/ Holds(stack, "fail"))
  /\ status = "completed" => exec = "over" /\ (reentered = 0 => result = "resolved")
  /\ status = "cancelled" => result \in {"cancelled", "rejected"} \/ Holds(stack, "fail")
  /\ result = "resolved" => status = "completed"
  /\ result = "cancelled" /\ reentered = 0 => status = "cancelled"

IInv == StackInv /\ HandleInv

-----------------------------------------------------------------------------
(* The stack                                                               *)

LEMMA SeqGrows ==
  ASSUME NEW S, NEW s \in Seq(S), NEW f
  PROVE  s \in Seq(S \cup {f})
OBVIOUS

\* A call on top of others.
LEMMA Pushed ==
  ASSUME NEW s, IsStack(s), NEW f
  PROVE  /\ IsStack(<<f>> \o s)
         /\ <<f>> \o s # <<>>
         /\ Head(<<f>> \o s) = f /\ Tail(<<f>> \o s) = s
         /\ \A proc : Holds(<<f>> \o s, proc) <=> f.proc = proc \/ Holds(s, proc)
         /\ \A proc : Grounded(<<f>> \o s, proc) <=>
                        Grounded(s, proc) /\ (f.proc = proc => s = <<>>)
<1>1. PICK S : s \in Seq(S)
  BY DEF IsStack
<1>2. s \in Seq(S \cup {f}) /\ <<f>> \in Seq(S \cup {f})
  BY <1>1, SeqGrows
<1> DEFINE t == <<f>> \o s
<1>3. /\ t \in Seq(S \cup {f}) /\ Len(t) = Len(s) + 1 /\ Len(s) \in Nat
      /\ t[1] = f /\ \A k \in 1..Len(s) : t[k + 1] = s[k]
      /\ t # <<>> /\ (s = <<>> <=> Len(s) = 0)
  BY <1>2
<1>4. Head(t) = f /\ Tail(t) = s
  BY <1>2, <1>3
<1> HIDE DEF t
<1>5. \A k \in 1..Len(t) : k = 1 \/ (k - 1 \in 1..Len(s) /\ t[k] = s[k - 1])
  BY <1>3
<1>6. ASSUME NEW proc PROVE Holds(t, proc) <=> f.proc = proc \/ Holds(s, proc)
  <2>1. ASSUME Holds(s, proc) PROVE Holds(t, proc)
    <3>1. PICK k \in 1..Len(s) : s[k].proc = proc
      BY <2>1 DEF Holds
    <3>2. k + 1 \in 1..Len(t) /\ t[k + 1].proc = proc
      BY <1>3, <3>1
    <3> QED
      BY <3>2 DEF Holds
  <2>2. ASSUME f.proc = proc PROVE Holds(t, proc)
    <3>1. 1 \in 1..Len(t)
      BY <1>3
    <3> QED
      BY <1>3, <2>2, <3>1 DEF Holds
  <2>3. ASSUME Holds(t, proc) PROVE f.proc = proc \/ Holds(s, proc)
    BY <1>3, <1>5, <2>3 DEF Holds
  <2> QED
    BY <2>1, <2>2, <2>3
<1>7. ASSUME NEW proc
      PROVE  Grounded(t, proc) <=> Grounded(s, proc) /\ (f.proc = proc => s = <<>>)
  <2>1. ASSUME Grounded(t, proc) PROVE Grounded(s, proc) /\ (f.proc = proc => s = <<>>)
    <3>1. ASSUME NEW k \in 1..Len(s), s[k].proc = proc PROVE k = Len(s)
      <4>1. k + 1 \in 1..Len(t) /\ t[k + 1].proc = proc
        BY <1>3, <3>1
      <4>2. k + 1 = Len(t)
        BY <2>1, <4>1 DEF Grounded
      <4> QED
        BY <1>3, <4>2
    <3>2. ASSUME f.proc = proc PROVE s = <<>>
      <4>1. 1 \in 1..Len(t) /\ t[1].proc = proc
        BY <1>3, <3>2
      <4>2. 1 = Len(t)
        BY <2>1, <4>1 DEF Grounded
      <4> QED
        BY <1>3, <4>2
    <3> QED
      BY <3>1, <3>2 DEF Grounded
  <2>2. ASSUME Grounded(s, proc), f.proc = proc => s = <<>> PROVE Grounded(t, proc)
    <3>1. ASSUME NEW k \in 1..Len(t), t[k].proc = proc PROVE k = Len(t)
      <4>1. CASE k = 1
        BY <1>3, <2>2, <3>1, <4>1
      <4>2. CASE k # 1
        <5>1. k - 1 \in 1..Len(s) /\ s[k - 1].proc = proc
          BY <1>5, <3>1, <4>2
        <5>2. k - 1 = Len(s)
          BY <2>2, <5>1 DEF Grounded
        <5> QED
          BY <1>3, <5>2
      <4> QED
        BY <4>1, <4>2
    <3> QED
      BY <3>1 DEF Grounded
  <2> QED
    BY <2>1, <2>2
<1> QED
  BY <1>3, <1>4, <1>6, <1>7 DEF IsStack, t

\* The topmost call, and those below it.
LEMMA Popped ==
  ASSUME NEW s, IsStack(s), s # <<>>
  PROVE  /\ IsStack(Tail(s))
         /\ \A proc : Holds(s, proc) <=> Head(s).proc = proc \/ Holds(Tail(s), proc)
         /\ \A proc : Grounded(s, proc) <=>
                        Grounded(Tail(s), proc) /\ (Head(s).proc = proc => Tail(s) = <<>>)
<1>1. PICK S : s \in Seq(S)
  BY DEF IsStack
<1> DEFINE top == Head(s)
           rest == Tail(s)
<1>2. rest \in Seq(S) /\ s = <<top>> \o rest
  BY <1>1
<1>3. IsStack(rest)
  BY <1>2 DEF IsStack
<1> HIDE DEF top, rest
<1>4. /\ \A proc : Holds(<<top>> \o rest, proc) <=> top.proc = proc \/ Holds(rest, proc)
      /\ \A proc : Grounded(<<top>> \o rest, proc) <=>
                      Grounded(rest, proc) /\ (top.proc = proc => rest = <<>>)
  BY <1>3, Pushed
<1>5. /\ \A proc : Holds(s, proc) <=> top.proc = proc \/ Holds(rest, proc)
      /\ \A proc : Grounded(s, proc) <=>
                      Grounded(rest, proc) /\ (top.proc = proc => rest = <<>>)
  BY <1>2, <1>4
<1> QED
  BY <1>3, <1>5 DEF top, rest

\* No call is in progress.
LEMMA Emptied ==
  /\ IsStack(<<>>)
  /\ \A proc : ~Holds(<<>>, proc) /\ Grounded(<<>>, proc)
<1>1. <<>> \in Seq({}) /\ Len(<<>>) = 0
  OBVIOUS
<1> QED
  BY <1>1 DEF IsStack, Holds, Grounded

\* Calls that HandleInv speaks of; a publish() or a replay does not count.
Callers == {"cancel", "finish", "fail"}

SameCalls(s, t) ==
  /\ IsStack(t)
  /\ \A proc \in Callers : (Holds(t, proc) <=> Holds(s, proc))
                           /\ (Grounded(t, proc) <=> Grounded(s, proc))

\* The frame of the topmost call changes, as in Deliver, Replay and To.
LEMMA Reframed ==
  ASSUME NEW s, IsStack(s), s # <<>>, NEW f, f.proc = Head(s).proc
  PROVE  SameCalls(s, <<f>> \o Tail(s))
<1>1. IsStack(Tail(s))
  BY Popped
<1> DEFINE rest == Tail(s)
           t == <<f>> \o rest
<1> HIDE DEF rest
<1>2. /\ IsStack(t)
      /\ \A proc : Holds(t, proc) <=> f.proc = proc \/ Holds(rest, proc)
      /\ \A proc : Grounded(t, proc) <=> Grounded(rest, proc) /\ (f.proc = proc => rest = <<>>)
  BY <1>1, Pushed DEF rest
<1>3. /\ \A proc : Holds(s, proc) <=> Head(s).proc = proc \/ Holds(rest, proc)
      /\ \A proc : Grounded(s, proc) <=>
                     Grounded(rest, proc) /\ (Head(s).proc = proc => rest = <<>>)
  BY Popped DEF rest
<1> HIDE DEF t
<1>4. SameCalls(s, t)
  BY <1>2, <1>3 DEF SameCalls
<1> QED
  BY <1>4 DEF t, rest

\* publish() or a replay is called.
LEMMA CalledBack ==
  ASSUME NEW s, IsStack(s), NEW f, f.proc \in {"publish", "replay"}
  PROVE  SameCalls(s, <<f>> \o s) /\ <<f>> \o s # <<>>
<1> DEFINE t == <<f>> \o s
<1>1. /\ IsStack(t) /\ t # <<>>
      /\ \A proc : Holds(t, proc) <=> f.proc = proc \/ Holds(s, proc)
      /\ \A proc : Grounded(t, proc) <=> Grounded(s, proc) /\ (f.proc = proc => s = <<>>)
  BY Pushed
<1>2. \A proc \in Callers : f.proc # proc
  BY DEF Callers
<1> HIDE DEF t
<1>3. SameCalls(s, t) /\ t # <<>>
  BY <1>1, <1>2 DEF SameCalls
<1> QED
  BY <1>3 DEF t

\* publish() or a replay returns.
LEMMA Returned ==
  ASSUME NEW s, IsStack(s), s # <<>>, Head(s).proc \in {"publish", "replay"}
  PROVE  SameCalls(s, Tail(s))
<1>1. \A proc \in Callers : Head(s).proc # proc
  BY DEF Callers
<1> QED
  BY <1>1, Popped DEF SameCalls

LEMMA SameCallsChain ==
  ASSUME NEW s, NEW t, NEW u, SameCalls(s, t), SameCalls(t, u)
  PROVE  SameCalls(s, u)
BY DEF SameCalls

\* publish() leaves its callers in place, whether or not it drops the event.
LEMMA Published ==
  ASSUME NEW kind, NEW callers, IsStack(callers), Publish(kind, callers)
  PROVE  SameCalls(callers, stack')
<1>1. CASE complete
  BY <1>1 DEF Publish, SameCalls
<1>2. CASE ~complete
  <2> DEFINE f == Frame("publish", "deliver", Len(emitted) + 1, {})
  <2>1. f.proc \in {"publish", "replay"}
    BY DEF Frame
  <2>2. stack' = <<f>> \o callers
    BY <1>2 DEF Publish
  <2> HIDE DEF f
  <2> QED
    BY <2>1, <2>2, CalledBack
<1> QED
  BY <1>1, <1>2

-----------------------------------------------------------------------------
(* Steps that leave the calls in progress as they are                      *)

LEMMA QuietStep ==
  ASSUME IInv, SameCalls(stack, stack'),
         UNCHANGED <<status, complete, result>>,
         exec = "over" => exec' = "over",
         reentered' \in Nat, reentered' = 0 => reentered = 0
  PROVE  IInv'
<1>1. \A proc \in {"cancel", "finish", "fail"} :
        (Holds(stack', proc) <=> Holds(stack, proc))
        /\ (Grounded(stack', proc) <=> Grounded(stack, proc))
  BY DEF SameCalls, Callers
<1>2. StackInv'
  BY <1>1 DEF IInv, StackInv, SameCalls
<1>3. HandleInv'
  BY <1>1 DEF IInv, HandleInv
<1> QED
  BY <1>2, <1>3 DEF IInv

LEMMA SameStack ==
  ASSUME IInv
  PROVE  SameCalls(stack, stack)
BY DEF SameCalls, IInv, StackInv

\* A call into the handle counts when a callback makes it.
LEMMA UserCodeCounts ==
  ASSUME IInv, UserCode
  PROVE  reentered' \in Nat /\ (reentered' = 0 => reentered = 0 /\ stack = <<>>)
BY DEF IInv, StackInv, UserCode, Free

\* The frame on top moves on to another step.
LEMMA Moved ==
  ASSUME IInv, ~Free, NEW step
  PROVE  SameCalls(stack, To(step))
<1> DEFINE f == Frame(Top.proc, step, Top.event, Top.seen)
<1>1. f.proc = Head(stack).proc
  BY DEF Frame, Top
<1> HIDE DEF f
<1>2. SameCalls(stack, <<f>> \o Tail(stack))
  BY <1>1, Reframed DEF IInv, StackInv, Free
<1> QED
  BY <1>2 DEF To, f, Rest

\* Events that are published, delivered, handed over and replayed.
LEMMA StreamingSteps ==
  ASSUME IInv, EngineEmit \/ Deliver \/ HandOver \/ Replay \/ CancelDrain \/ CancelReport
               \/ FailReport
  PROVE  IInv'
<1>1. reentered \in Nat /\ IsStack(stack)
  BY DEF IInv, StackInv
<1>2. CASE EngineEmit
  <2>1. SameCalls(<<>>, stack')
    BY <1>2, Emptied, Published DEF EngineEmit
  <2> QED
    BY <1>1, <1>2, <2>1, QuietStep DEF EngineEmit, Free, run
<1>3. CASE Deliver
  <2>s. PICK s \in Subscriber : stack' = <<Frame("publish", Top.step, Top.event, Top.seen \cup {s})>> \o Rest
    BY <1>3 DEF Deliver
  <2> DEFINE f == Frame("publish", Top.step, Top.event, Top.seen \cup {s})
  <2>1. f.proc = Head(stack).proc /\ stack' = <<f>> \o Tail(stack)
    BY <1>3, <2>s DEF Deliver, Top, Rest, Frame
  <2> HIDE DEF f
  <2>2. SameCalls(stack, stack')
    BY <1>1, <1>3, <2>1, Reframed DEF Deliver, Free
  <2> QED
    BY <1>1, <1>3, <2>2, QuietStep DEF Deliver, run
<1>4. CASE HandOver
  <2>1. SameCalls(stack, stack')
    BY <1>1, <1>4, Returned DEF HandOver, Free, Top, Rest
  <2> QED
    BY <1>1, <1>4, <2>1, QuietStep DEF HandOver, run
<1>5. CASE Replay
  <2>1. CASE Top.event < Len(emitted)
    <3> DEFINE f == Frame("replay", Top.step, Top.event + 1, Top.seen)
    <3>1. f.proc = Head(stack).proc /\ stack' = <<f>> \o Tail(stack)
      BY <1>5, <2>1 DEF Replay, Top, Rest, Frame
    <3> HIDE DEF f
    <3> QED
      BY <1>1, <1>5, <3>1, Reframed, QuietStep DEF Replay, Free, run
  <2>2. CASE ~(Top.event < Len(emitted))
    <3>1. SameCalls(stack, stack')
      BY <1>1, <1>5, <2>2, Returned DEF Replay, Free, Top, Rest
    <3> QED
      BY <1>1, <1>5, <3>1, QuietStep DEF Replay, run
  <2> QED
    BY <2>1, <2>2
<1>6. ASSUME NEW kind, NEW step, ~Free, Publish(kind, To(step)) PROVE SameCalls(stack, stack')
  <2>1. SameCalls(stack, To(step))
    BY <1>6, Moved
  <2> QED
    BY <1>6, <2>1, Published, SameCallsChain DEF SameCalls
<1>7. CASE CancelDrain
  <2>1. SameCalls(stack, stack')
    BY <1>6, <1>7, Moved DEF CancelDrain, At
  <2> QED
    BY <1>1, <1>7, <2>1, QuietStep DEF CancelDrain, run
<1>8. CASE CancelReport
  <2>1. SameCalls(stack, stack')
    BY <1>6, <1>8 DEF CancelReport, At
  <2> QED
    BY <1>1, <1>8, <2>1, QuietStep DEF CancelReport, run
<1>9. CASE FailReport
  <2>1. SameCalls(stack, stack')
    BY <1>6, <1>9 DEF FailReport, At
  <2> QED
    BY <1>1, <1>9, <2>1, QuietStep DEF FailReport, run
<1> QED
  BY <1>2, <1>3, <1>4, <1>5, <1>7, <1>8, <1>9

\* The engine and the timer, which do not touch the handle, and the callers that only look.
LEMMA BystanderSteps ==
  ASSUME IInv, TimeoutFires \/ OperationReturns \/ OperationThrows \/ AbortWins \/ ConsumerNext
               \/ (\E s \in Subscriber : Subscribe(s) \/ Unsubscribe(s)) \/ UNCHANGED vars
  PROVE  IInv'
<1>1. reentered \in Nat /\ IsStack(stack)
  BY DEF IInv, StackInv
<1>2. CASE TimeoutFires \/ OperationReturns \/ OperationThrows \/ AbortWins
  <2>1. /\ UNCHANGED <<status, complete, result, reentered, stack>>
        /\ exec = "over" => exec' = "over"
    BY <1>2 DEF TimeoutFires, OperationReturns, OperationThrows, AbortWins
  <2> QED
    BY <1>1, <2>1, QuietStep, SameStack
<1>3. CASE ConsumerNext \/ UNCHANGED vars
  <2>1. UNCHANGED <<status, complete, result, reentered, stack, exec>>
    BY <1>3 DEF ConsumerNext, vars, run
  <2> QED
    BY <1>1, <2>1, QuietStep, SameStack
<1>4. ASSUME NEW s \in Subscriber, Subscribe(s) PROVE IInv'
  <2> DEFINE f == Frame("replay", "deliver", 0, {s})
  <2>1. f.proc \in {"publish", "replay"}
    BY DEF Frame
  <2>2. stack' = <<f>> \o stack
    BY <1>4 DEF Subscribe
  <2> HIDE DEF f
  <2>3. SameCalls(stack, stack')
    BY <1>1, <2>1, <2>2, CalledBack
  <2> QED
    BY <1>4, <2>3, QuietStep, UserCodeCounts DEF Subscribe, run
<1>5. ASSUME NEW s \in Subscriber, Unsubscribe(s) PROVE IInv'
  <2>1. SameCalls(stack, stack')
    BY <1>5, SameStack DEF Unsubscribe
  <2> QED
    BY <1>5, <2>1, QuietStep, UserCodeCounts DEF Unsubscribe, run
<1> QED
  BY <1>2, <1>3, <1>4, <1>5

-----------------------------------------------------------------------------
(* Steps that begin and end a cancel, a failure and the end of the run     *)

LEMMA CancelStep ==
  ASSUME IInv, Cancel
  PROVE  IInv'
<1> DEFINE f == Frame("cancel", "drain", 0, {})
           called == <<f>> \o stack
<1>1. f.proc = "cancel" /\ stack' = called
  BY DEF Frame, Cancel
<1> HIDE DEF f
<1>2. /\ IsStack(stack')
      /\ \A proc : Holds(stack', proc) <=> proc = "cancel" \/ Holds(stack, proc)
      /\ \A proc : Grounded(stack', proc) <=>
                     Grounded(stack, proc) /\ (proc = "cancel" => stack = <<>>)
  <2>1. IsStack(stack)
    BY DEF IInv, StackInv
  <2>2. /\ IsStack(called)
        /\ \A proc : Holds(called, proc) <=> f.proc = proc \/ Holds(stack, proc)
        /\ \A proc : Grounded(called, proc) <=>
                       Grounded(stack, proc) /\ (f.proc = proc => stack = <<>>)
    BY <2>1, Pushed
  <2> HIDE DEF called
  <2> QED
    BY <1>1, <2>2
<1> HIDE DEF called
<1>3. reentered' \in Nat /\ (reentered' = 0 => reentered = 0 /\ stack = <<>>)
  BY UserCodeCounts DEF Cancel
<1>4. StackInv'
  BY <1>2, <1>3 DEF IInv, StackInv
<1>5. /\ UNCHANGED <<status, complete, result, exec>>
      /\ status = "running" /\ ~complete /\ result = "pending"
  BY DEF Cancel, IInv, HandleInv
<1>6. ~Holds(stack, "fail") /\ ~Holds(stack', "fail")
      /\ (Holds(stack', "finish") <=> Holds(stack, "finish"))
  BY <1>2, <1>5 DEF IInv, HandleInv
<1>7. HandleInv'
  BY <1>3, <1>5, <1>6 DEF IInv, HandleInv
<1> QED
  BY <1>4, <1>7 DEF IInv

\* The call on top returns for good.
LEMMA TopReturns ==
  ASSUME IInv, ~Free
  PROVE  /\ IsStack(Rest)
         /\ \A proc : Holds(stack, proc) <=> Top.proc = proc \/ Holds(Rest, proc)
         /\ \A proc : Grounded(stack, proc) =>
                        Grounded(Rest, proc) /\ (Top.proc = proc => Rest = <<>>)
BY Popped DEF IInv, StackInv, Free, Top, Rest

LEMMA CancelCloseStep ==
  ASSUME IInv, CancelClose
  PROVE  IInv'
<1>1. ~Free /\ Top.proc = "cancel" /\ stack' = Rest /\ UNCHANGED <<exec, reentered>>
  BY DEF CancelClose, At
<1>2. /\ IsStack(Rest)
      /\ \A proc : Holds(stack, proc) <=> "cancel" = proc \/ Holds(Rest, proc)
      /\ \A proc : Grounded(stack, proc) =>
                     Grounded(Rest, proc) /\ ("cancel" = proc => Rest = <<>>)
  BY <1>1, TopReturns
<1>3. StackInv'
  BY <1>1, <1>2 DEF IInv, StackInv
<1>4. Holds(stack, "cancel") /\ result \in {"pending", "cancelled"}
      /\ ~Holds(Rest, "fail")
  BY <1>2 DEF IInv, HandleInv
<1>5. status' = "cancelled" /\ complete' /\ result' = "cancelled"
  <2>1. complete' /\ complete \in BOOLEAN
    BY DEF CancelClose, Close, IInv, HandleInv
  <2> QED
    BY <1>4, <2>1 DEF CancelClose, SettleResult
<1>6. reentered = 0 => ~Holds(Rest, "finish")
  <2> SUFFICES ASSUME reentered = 0 PROVE ~Holds(Rest, "finish")
    OBVIOUS
  <2>1. Rest = <<>>
    BY <1>2 DEF IInv, StackInv
  <2> QED
    BY <2>1, Emptied
<1>7. complete' \in BOOLEAN
  BY DEF CancelClose, Close, IInv, HandleInv
<1>8. HandleInv'
  BY <1>1, <1>2, <1>4, <1>5, <1>6, <1>7 DEF IInv, HandleInv
<1> QED
  BY <1>3, <1>8 DEF IInv

\* Only the call that settles the promise is in progress, and it leaves nothing behind.
LEMMA LastReturns ==
  ASSUME IInv, ~Free, Top.proc \in {"finish", "fail"}
  PROVE  IsStack(Rest) /\ Holds(stack, Top.proc)
         /\ \A proc : ~Holds(Rest, proc) /\ Grounded(Rest, proc)
<1>1. Rest = <<>>
  BY TopReturns DEF IInv, StackInv
<1> QED
  BY <1>1, Emptied, TopReturns

LEMMA SettledStackInv ==
  ASSUME IInv, IsStack(stack'), \A proc : Grounded(stack', proc), reentered' = reentered
  PROVE  StackInv'
BY DEF IInv, StackInv

LEMMA FinishStep ==
  ASSUME IInv, Finish
  PROVE  IInv'
<1>1. ~Free /\ Top.proc = "finish" /\ stack' = Rest /\ UNCHANGED <<exec, reentered>>
  BY DEF Finish, At
<1>2. IsStack(Rest) /\ Holds(stack, "finish")
      /\ \A proc : ~Holds(Rest, proc) /\ Grounded(Rest, proc)
  BY <1>1, LastReturns
<1>3. StackInv'
  BY <1>1, <1>2, SettledStackInv
<1>4. exec = "over" /\ (reentered = 0 => ~complete)
  BY <1>2 DEF IInv, HandleInv
<1>5. complete' /\ complete' \in BOOLEAN
  BY DEF Finish, Close, IInv, HandleInv
<1>6. /\ status' = "completed"
      /\ result' = IF result = "pending" THEN "resolved" ELSE result
  BY DEF Finish, SettleResult
<1>7. HandleInv'
  BY <1>1, <1>2, <1>4, <1>5, <1>6 DEF IInv, HandleInv
<1> QED
  BY <1>3, <1>7 DEF IInv

LEMMA FailCloseStep ==
  ASSUME IInv, FailClose
  PROVE  IInv'
<1>1. ~Free /\ Top.proc = "fail" /\ stack' = Rest /\ UNCHANGED <<exec, reentered, status>>
  BY DEF FailClose, At
<1>2. IsStack(Rest) /\ Holds(stack, "fail")
      /\ \A proc : ~Holds(Rest, proc) /\ Grounded(Rest, proc)
  BY <1>1, LastReturns
<1>3. StackInv'
  BY <1>1, <1>2, SettledStackInv
<1>4. exec = "over" /\ ~complete /\ result = "pending" /\ status \in {"failed", "cancelled"}
  BY <1>2 DEF IInv, HandleInv
<1>5. complete' /\ complete' \in BOOLEAN /\ result' = "rejected"
  BY <1>4 DEF FailClose, Close, SettleResult
<1>6. HandleInv'
  BY <1>1, <1>2, <1>4, <1>5 DEF IInv, HandleInv
<1> QED
  BY <1>3, <1>6 DEF IInv

\* The catch block of execute(): over, unless there is something to report.
LEMMA CatchStep ==
  ASSUME IInv, Free, exec # "over", NEW error, Catch(error),
         UNCHANGED <<complete, result, reentered>>
  PROVE  IInv'
<1>1. stack = <<>> /\ IsStack(stack) /\ \A proc : ~Holds(stack, proc)
  BY Emptied DEF Free
<1>2. exec' = "over" /\ status \in {"running", "cancelled"}
  BY DEF Catch, IInv, HandleInv
<1>3. CASE status = "cancelled"
  <2>1. UNCHANGED <<status, stack>>
    BY <1>3 DEF Catch
  <2> QED
    BY <1>2, <2>1, QuietStep, SameStack DEF IInv, StackInv
<1>4. CASE status = "running"
  <2> DEFINE e == IF signal = "timeout" THEN "timeout" ELSE error
             f == Frame("fail", IF e = "error" THEN "error" ELSE "aborted", 0, {})
             alone == <<f>> \o <<>>
  <2>1. stack' = <<f>> /\ status' \in {"failed", "cancelled"}
    BY <1>4 DEF Catch
  <2>2. f.proc = "fail" /\ <<f>> = alone
    BY DEF Frame
  <2> HIDE DEF f
  <2>3. /\ IsStack(alone)
        /\ \A proc : Holds(alone, proc) <=> proc = "fail"
        /\ \A proc : Grounded(alone, proc)
    BY <2>2, Emptied, Pushed
  <2> HIDE DEF alone
  <2>4. StackInv'
    <3>1. stack' = alone
      BY <2>1, <2>2
    <3>2. IsStack(stack') /\ \A proc : Grounded(stack', proc)
      BY <2>3, <3>1
    <3> QED
      BY <3>2, SettledStackInv
  <2>5. ~complete /\ result = "pending"
    BY <1>4 DEF IInv, HandleInv
  <2>6. HandleInv'
    BY <1>2, <2>1, <2>2, <2>3, <2>5 DEF IInv, HandleInv
  <2> QED
    BY <2>4, <2>6 DEF IInv
<1> QED
  BY <1>2, <1>3, <1>4

LEMMA ResumeEvaluatedStep ==
  ASSUME IInv, ResumeEvaluated
  PROVE  IInv'
<1>1. stack = <<>> /\ exec' = "over" /\ UNCHANGED <<status, complete, result, reentered>>
  BY DEF ResumeEvaluated, Free
<1>2. CASE status # "running"
  <2>1. UNCHANGED stack
    BY <1>2 DEF ResumeEvaluated
  <2> QED
    BY <1>1, <2>1, QuietStep, SameStack DEF IInv, StackInv
<1>3. CASE status = "running"
  <2> DEFINE f == Frame("finish", "settle", 0, {})
             callers == <<f>> \o <<>>
  <2>1. f.proc = "finish" /\ <<f>> = callers
    BY DEF Frame
  <2>2. Publish("final", <<f>>)
    BY <1>3 DEF ResumeEvaluated
  <2> HIDE DEF f
  <2>3. /\ IsStack(callers)
        /\ \A proc : Holds(callers, proc) <=> proc = "finish"
        /\ \A proc : Grounded(callers, proc)
    BY <2>1, Emptied, Pushed
  <2> HIDE DEF callers
  <2>4. SameCalls(callers, stack')
    BY <2>1, <2>2, <2>3, Published
  <2>5. /\ IsStack(stack')
        /\ \A proc \in Callers : Grounded(stack', proc) /\ (Holds(stack', proc) <=> proc = "finish")
    BY <2>3, <2>4 DEF SameCalls
  <2>6. StackInv'
    BY <1>1, <2>5 DEF IInv, StackInv, Callers
  <2>7. ~complete /\ result = "pending" /\ status = "running" /\ complete \in BOOLEAN
    BY <1>3 DEF IInv, HandleInv
  <2>8. ~Holds(stack', "fail") /\ ~Holds(stack', "cancel")
    BY <2>5 DEF Callers
  <2>9. HandleInv'
    BY <1>1, <2>7, <2>8 DEF HandleInv
  <2> QED
    BY <2>6, <2>9 DEF IInv
<1> QED
  BY <1>2, <1>3

LEMMA ResumeSteps ==
  ASSUME IInv, CatchThrown \/ ResumeRan \/ ResumeEvaluated
  PROVE  IInv'
<1>1. CASE CatchThrown
  BY <1>1, CatchStep DEF CatchThrown
<1>2. CASE ResumeRan
  <2>1. Free /\ exec # "over" /\ UNCHANGED <<complete, result, reentered>>
    BY <1>2 DEF ResumeRan
  <2>2. CASE \E e \in {"error", "timeout"} : Catch(e)
    BY <2>1, <2>2, CatchStep
  <2>3. CASE Catch(signal)
    BY <2>1, <2>3, CatchStep
  <2>4. CASE UNCHANGED <<status, stack>>
    BY <2>1, <2>4, QuietStep, SameStack DEF IInv, StackInv
  <2> QED
    BY <1>2, <2>2, <2>3, <2>4 DEF ResumeRan
<1> QED
  BY <1>1, <1>2, ResumeEvaluatedStep

-----------------------------------------------------------------------------
(* The theorem                                                             *)

LEMMA InitInv ==
  ASSUME Init
  PROVE  IInv
<1>1. StackInv
  BY Emptied DEF Init, StackInv
<1>2. HandleInv
  BY Emptied DEF Init, HandleInv
<1> QED
  BY <1>1, <1>2 DEF IInv

LEMMA NextInv ==
  ASSUME IInv, [Next]_vars
  PROVE  IInv'
<1>1. CASE Internal
  BY <1>1, StreamingSteps, BystanderSteps, ResumeSteps, CancelCloseStep, FinishStep,
     FailCloseStep DEF Internal
<1>2. CASE External
  BY <1>2, StreamingSteps, BystanderSteps, CancelStep DEF External
<1>3. CASE TimeoutFires \/ ConsumerNext \/ Finished \/ UNCHANGED vars
  BY <1>3, BystanderSteps DEF Finished
<1> QED
  BY <1>1, <1>2, <1>3 DEF Next

LEMMA InvSettles ==
  ASSUME IInv
  PROVE  SettledTogether
<1> SUFFICES ASSUME Free
             PROVE  SettledTogether!2
  BY DEF SettledTogether
<1> QED
  BY Emptied DEF IInv, HandleInv, Free

\* The invariant of the calls in progress holds of every stream.
THEOREM Invariance == Spec => []IInv
<1>1. Init => IInv
  BY InitInv
<1>2. IInv /\ [Next]_vars => IInv'
  BY NextInv
<1> QED
  BY <1>1, <1>2, PTL DEF Spec

\* Between any two tasks of the event loop, status, result and the closed flag of a stream
\* tell one story, whatever races and whatever callbacks did.
THEOREM OneStory == Spec => []SettledTogether
<1>1. IInv => SettledTogether
  BY InvSettles
<1> QED
  BY <1>1, Invariance, PTL

-----------------------------------------------------------------------------
(* Types                                                                   *)

\* The calls in progress; publish() has an event.
FramesOf(count) ==
  {f \in [proc : {"publish", "replay", "cancel", "finish", "fail"},
          step : {"deliver", "drain", "aborted", "error", "close", "settle"},
          event : 0..count, seen : SUBSET Subscriber] :
     f.proc = "publish" => f.event > 0}

Frames == FramesOf(Len(emitted))

FlagsOK ==
  /\ status \in {"running", "completed", "failed", "cancelled"}
  /\ complete \in BOOLEAN
  /\ attached \in [Subscriber -> {"no", "yes", "gone"}]
  /\ waiting \in BOOLEAN
  /\ ended \in BOOLEAN
  /\ exec \in {"run", "ran", "evaluate", "evaluated", "threw", "over"}
  /\ thrown \in {"none", "error", "aborted", "timeout"}
  /\ signal \in {"none", "aborted", "timeout"}
  /\ timer \in BOOLEAN
  /\ result \in {"pending", "resolved", "rejected", "cancelled"}
  /\ reentered \in 0..MaxReentrant

EventsOK ==
  /\ emitted \in Seq(Kinds)
  /\ subs \in Seq(Subscriber)
  /\ received \in [Subscriber -> Seq(1..Len(emitted))]
  /\ pending \in Seq(1..Len(emitted))
  /\ iterated \in Seq(1..Len(emitted))
  /\ stack \in Seq(Frames)

TypeInv == FlagsOK /\ EventsOK

LEMMA TypeInvTypes ==
  ASSUME TypeInv
  PROVE  TypeOK
<1>1. Frames \subseteq [proc : {"publish", "replay", "cancel", "finish", "fail"},
                        step : {"deliver", "drain", "aborted", "error", "close", "settle"},
                        event : 0..Len(emitted), seen : SUBSET Subscriber]
  BY DEF Frames, FramesOf
<1>2. stack \in Seq([proc : {"publish", "replay", "cancel", "finish", "fail"},
                     step : {"deliver", "drain", "aborted", "error", "close", "settle"},
                     event : 0..Len(emitted), seen : SUBSET Subscriber])
  BY <1>1, SeqMonotonic DEF TypeInv, EventsOK
<1> QED
  BY <1>2 DEF TypeInv, FlagsOK, EventsOK, TypeOK

\* A frame of a caller, of a replay and of publish().
LEMMA FrameTyped ==
  ASSUME NEW count \in Nat, NEW event \in 0..count, NEW seen \in SUBSET Subscriber,
         NEW step \in {"deliver", "drain", "aborted", "error", "close", "settle"},
         NEW proc \in {"publish", "replay", "cancel", "finish", "fail"},
         proc = "publish" => event > 0
  PROVE  Frame(proc, step, event, seen) \in FramesOf(count)
BY DEF Frame, FramesOf

\* Pushing a frame on typed frames, and taking the topmost away.
LEMMA PushTyped ==
  ASSUME NEW S, NEW f \in S, NEW s \in Seq(S)
  PROVE  <<f>> \o s \in Seq(S)
OBVIOUS

LEMMA TopTyped ==
  ASSUME EventsOK, ~Free
  PROVE  Top \in Frames /\ Rest \in Seq(Frames)
         /\ Top.proc \in {"publish", "replay", "cancel", "finish", "fail"}
         /\ Top.step \in {"deliver", "drain", "aborted", "error", "close", "settle"}
         /\ Top.event \in 0..Len(emitted) /\ Top.seen \in SUBSET Subscriber
         /\ (Top.proc = "publish" => Top.event > 0)
<1>1. Top \in Frames /\ Rest \in Seq(Frames)
  BY HeadTailProperties DEF EventsOK, Free, Top, Rest
<1> QED
  BY <1>1 DEF Frames, FramesOf

LEMMA ToTyped ==
  ASSUME EventsOK, ~Free, NEW step \in {"deliver", "drain", "aborted", "error", "close", "settle"}
  PROVE  To(step) \in Seq(Frames)
<1>1. Len(emitted) \in Nat
  BY DEF EventsOK
<1> DEFINE f == Frame(Top.proc, step, Top.event, Top.seen)
<1>2. f \in Frames
  BY <1>1, TopTyped, FrameTyped DEF Frames
<1> HIDE DEF f
<1> QED
  BY <1>2, TopTyped, PushTyped DEF To, f

\* What is typed stays so when events are added.
LEMMA MoreEvents ==
  ASSUME NEW m \in Nat, NEW n \in Nat, m <= n
  PROVE  /\ 1..m \subseteq 1..n
         /\ \A s \in Seq(1..m) : s \in Seq(1..n)
         /\ \A s \in Seq(FramesOf(m)) : s \in Seq(FramesOf(n))
<1>1. 1..m \subseteq 1..n /\ FramesOf(m) \subseteq FramesOf(n)
  BY DEF FramesOf
<1> QED
  BY <1>1, SeqMonotonic

LEMMA PublishTyped ==
  ASSUME EventsOK, NEW kind \in Kinds, NEW callers \in Seq(Frames), Publish(kind, callers),
         UNCHANGED <<subs, received, pending, iterated>>
  PROVE  EventsOK'
<1>1. CASE complete
  <2>1. stack' = callers /\ emitted' = emitted
    BY <1>1 DEF Publish
  <2> QED
    BY <2>1 DEF EventsOK, Frames
<1>2. CASE ~complete
  <2> DEFINE n == Len(emitted)
             f == Frame("publish", "deliver", n + 1, {})
  <2>1. n \in Nat /\ n + 1 \in Nat /\ n <= n + 1
    BY DEF EventsOK
  <2>2. emitted' = Append(emitted, kind) /\ stack' = <<f>> \o callers
    BY <1>2 DEF Publish
  <2>3. emitted' \in Seq(Kinds) /\ Len(emitted') = n + 1
    BY <2>2 DEF EventsOK
  <2>4. f \in FramesOf(n + 1) /\ callers \in Seq(FramesOf(n + 1))
    BY <2>1, FrameTyped, MoreEvents DEF Frames
  <2> HIDE DEF f, n
  <2>5. stack' \in Seq(FramesOf(n + 1))
    BY <2>2, <2>4, PushTyped
  <2>6. /\ pending \in Seq(1..(n + 1)) /\ iterated \in Seq(1..(n + 1))
        /\ received \in [Subscriber -> Seq(1..(n + 1))]
    BY <2>1, MoreEvents DEF EventsOK, n
  <2> QED
    BY <2>3, <2>5, <2>6 DEF EventsOK, Frames
<1> QED
  BY <1>1, <1>2

\* Calls of callbacks stay below their bound.
LEMMA UserCodeTyped ==
  ASSUME FlagsOK, UserCode
  PROVE  reentered' \in 0..MaxReentrant
<1>1. MaxReentrant \in Nat /\ reentered \in 0..MaxReentrant
  BY ConstantsAssumption DEF FlagsOK
<1> QED
  BY <1>1 DEF UserCode

LEMMA FlagsStep ==
  ASSUME TypeInv, [Next]_vars
  PROVE  FlagsOK'
<1> USE DEF TypeInv
<1>1. CASE Deliver \/ HandOver \/ Replay \/ CancelDrain \/ CancelReport \/ FailReport \/ EngineEmit
  <2>1. /\ UNCHANGED <<status, complete, attached, ended, run, result, reentered>>
        /\ waiting' \in BOOLEAN
    BY <1>1 DEF Deliver, HandOver, Replay, CancelDrain, CancelReport, FailReport, EngineEmit,
       FlagsOK, log, iterator
  <2> QED
    BY <2>1 DEF FlagsOK, run
<1>2. CASE CancelClose \/ Finish \/ FailClose
  <2>1. /\ UNCHANGED <<attached, exec, thrown, signal, reentered>>
        /\ status' \in {"running", "completed", "failed", "cancelled"}
        /\ result' \in {"pending", "resolved", "rejected", "cancelled"}
    BY <1>2 DEF CancelClose, Finish, FailClose, FlagsOK, SettleResult
  <2>2. complete' \in BOOLEAN /\ waiting' \in BOOLEAN /\ ended' \in BOOLEAN /\ timer' \in BOOLEAN
    BY <1>2 DEF CancelClose, Finish, FailClose, FlagsOK, Close
  <2> QED
    BY <2>1, <2>2 DEF FlagsOK
<1>3. CASE AbortWins \/ CatchThrown \/ ResumeRan \/ ResumeEvaluated \/ OperationReturns
           \/ OperationThrows \/ TimeoutFires
  <2>1. /\ UNCHANGED <<complete, attached, waiting, ended, result, reentered>>
        /\ timer' \in BOOLEAN
    BY <1>3 DEF AbortWins, CatchThrown, ResumeRan, ResumeEvaluated, OperationReturns,
       OperationThrows, TimeoutFires, FlagsOK, log, iterator
  <2>2. /\ status' \in {"running", "completed", "failed", "cancelled"}
        /\ exec' \in {"run", "ran", "evaluate", "evaluated", "threw", "over"}
    BY <1>3 DEF AbortWins, CatchThrown, ResumeRan, ResumeEvaluated, OperationReturns,
       OperationThrows, TimeoutFires, FlagsOK, Catch
  <2>3. thrown' \in {"none", "error", "aborted", "timeout"} /\ signal' \in {"none", "aborted", "timeout"}
    BY <1>3 DEF AbortWins, CatchThrown, ResumeRan, ResumeEvaluated, OperationReturns,
       OperationThrows, TimeoutFires, FlagsOK
  <2> QED
    BY <2>1, <2>2, <2>3 DEF FlagsOK
<1>4. CASE Cancel
  <2>1. /\ UNCHANGED <<status, complete, attached, iterator, exec, thrown, timer, result>>
        /\ signal' \in {"none", "aborted", "timeout"}
    BY <1>4 DEF Cancel, FlagsOK, log
  <2> QED
    BY <1>4, <2>1, UserCodeTyped DEF Cancel, FlagsOK, iterator
<1>5. ASSUME NEW s \in Subscriber, Subscribe(s) \/ Unsubscribe(s)
      PROVE  FlagsOK'
  <2>1. /\ UNCHANGED <<status, complete, iterator, run, result>>
        /\ attached' \in [Subscriber -> {"no", "yes", "gone"}]
    BY <1>5 DEF Subscribe, Unsubscribe, FlagsOK
  <2> QED
    BY <1>5, <2>1, UserCodeTyped DEF Subscribe, Unsubscribe, FlagsOK, iterator, run
<1>6. CASE ConsumerNext
  <2>1. /\ UNCHANGED <<status, complete, attached, run, result, reentered>>
        /\ waiting' \in BOOLEAN /\ ended' \in BOOLEAN
    BY <1>6 DEF ConsumerNext, FlagsOK, log
  <2> QED
    BY <2>1 DEF FlagsOK, run
<1>7. CASE UNCHANGED vars
  BY <1>7 DEF vars, FlagsOK, log, iterator, run
<1> QED
  BY <1>1, <1>2, <1>3, <1>4, <1>5, <1>6, <1>7 DEF Next, Internal, External, Finished

\* A subscriber is taken out of the list.
LEMMA Removed ==
  ASSUME NEW S, NEW s \in Seq(S), NEW k \in 1..Len(s)
  PROVE  /\ RemoveAt(s, k) \in Seq(S)
         /\ Len(RemoveAt(s, k)) = Len(s) - 1
         /\ \A j \in 1..(Len(s) - 1) : RemoveAt(s, k)[j] = IF j < k THEN s[j] ELSE s[j + 1]
<1> DEFINE before == SubSeq(s, 1, k - 1)
           after == SubSeq(s, k + 1, Len(s))
<1>1. Len(s) \in Nat /\ k \in Nat /\ k >= 1 /\ k <= Len(s) /\ \A j \in 1..Len(s) : s[j] \in S
  OBVIOUS
<1>2. /\ before \in Seq(S) /\ Len(before) = k - 1
      /\ \A j \in 1..(k - 1) : before[j] = s[j]
  BY <1>1, SubSeqProperties
<1>3. /\ after \in Seq(S) /\ Len(after) = Len(s) - k
      /\ \A j \in 1..(Len(s) - k) : after[j] = s[k + j]
  BY <1>1, SubSeqProperties
<1>4. RemoveAt(s, k) = before \o after
  BY DEF RemoveAt
<1> HIDE DEF before, after
<1>5. /\ before \o after \in Seq(S)
      /\ Len(before \o after) = Len(before) + Len(after)
      /\ \A j \in 1..(Len(before) + Len(after)) :
            (before \o after)[j] = IF j <= Len(before) THEN before[j] ELSE after[j - Len(before)]
  BY <1>2, <1>3, ConcatProperties
<1>6. ASSUME NEW j \in 1..(Len(s) - 1)
      PROVE  (before \o after)[j] = IF j < k THEN s[j] ELSE s[j + 1]
  <2>1. j \in 1..(Len(before) + Len(after))
    BY <1>1, <1>2, <1>3
  <2>2. CASE j < k
    <3>1. j <= Len(before) /\ before[j] = s[j]
      BY <1>1, <1>2, <2>2
    <3> QED
      BY <1>5, <2>1, <2>2, <3>1
  <2>3. CASE ~(j < k)
    <3>1. ~(j <= Len(before)) /\ j - (k - 1) \in 1..(Len(s) - k)
      BY <1>1, <1>2, <2>3
    <3>2. after[j - (k - 1)] = s[k + (j - (k - 1))] /\ k + (j - (k - 1)) = j + 1
      BY <1>1, <1>3, <3>1
    <3> QED
      BY <1>2, <1>5, <2>1, <2>3, <3>1, <3>2
  <2> QED
    BY <2>2, <2>3
<1>7. Len(before) + Len(after) = Len(s) - 1
  BY <1>1, <1>2, <1>3
<1> QED
  BY <1>4, <1>5, <1>6, <1>7

\* subs after a subscriber has detached.
LEMMA Unsubscribed ==
  ASSUME NEW s, Unsubscribe(s), subs \in Seq(Subscriber)
  PROVE  \/ subs' = subs /\ \A j \in 1..Len(subs) : subs[j] # s
         \/ \E k \in 1..Len(subs) : subs[k] = s /\ subs' = RemoveAt(subs, k)
<1>1. DOMAIN subs = 1..Len(subs)
  OBVIOUS
<1>2. CASE \E k \in DOMAIN subs : subs[k] = s
  <2> DEFINE k == CHOOSE k \in DOMAIN subs : subs[k] = s
  <2>1. k \in DOMAIN subs /\ subs[k] = s
    BY <1>2
  <2>2. subs' = RemoveAt(subs, k)
    BY <1>2 DEF Unsubscribe
  <2> QED
    BY <1>1, <2>1, <2>2
<1>3. CASE ~\E k \in DOMAIN subs : subs[k] = s
  BY <1>1, <1>3 DEF Unsubscribe
<1> QED
  BY <1>2, <1>3

LEMMA StreamingTyped ==
  ASSUME TypeInv, EngineEmit \/ CancelDrain \/ CancelReport \/ FailReport
  PROVE  EventsOK'
<1> USE DEF TypeInv
<1>1. "turn" \in Kinds /\ "drained" \in Kinds /\ "aborted" \in Kinds /\ "error" \in Kinds
  BY DEF Kinds
<1>2. UNCHANGED <<subs, received, pending, iterated>>
  BY DEF EngineEmit, CancelDrain, CancelReport, FailReport, iterator
<1>3. CASE EngineEmit
  <2>1. <<>> \in Seq(Frames) /\ Publish("turn", <<>>)
    BY <1>3 DEF EngineEmit
  <2> QED
    BY <1>1, <1>2, <2>1, PublishTyped
<1>4. CASE CancelDrain
  <2>1. ~Free /\ To("aborted") \in Seq(Frames)
    BY <1>4, ToTyped DEF CancelDrain, At
  <2>2. CASE stack' = To("aborted") /\ UNCHANGED emitted
    BY <1>2, <2>1, <2>2 DEF EventsOK, Frames
  <2>3. CASE Publish("drained", To("aborted"))
    BY <1>1, <1>2, <2>1, <2>3, PublishTyped
  <2> QED
    BY <1>4, <2>2, <2>3 DEF CancelDrain
<1>5. CASE CancelReport \/ FailReport
  <2>1. ~Free /\ To("error") \in Seq(Frames) /\ To("close") \in Seq(Frames)
    BY <1>5, ToTyped DEF CancelReport, FailReport, At
  <2>2. Publish("aborted", To("error")) \/ Publish("error", To("close"))
    BY <1>5 DEF CancelReport, FailReport
  <2> QED
    BY <1>1, <1>2, <2>1, <2>2, PublishTyped
<1> QED
  BY <1>3, <1>4, <1>5

LEMMA DeliveryTyped ==
  ASSUME TypeInv, Deliver \/ HandOver \/ Replay
  PROVE  EventsOK'
<1> USE DEF TypeInv
<1>1. ~Free
  BY DEF Deliver, HandOver, Replay
<1>2. /\ Rest \in Seq(Frames) /\ Top.event \in 0..Len(emitted) /\ Top.seen \in SUBSET Subscriber
      /\ Top.step \in {"deliver", "drain", "aborted", "error", "close", "settle"}
      /\ Top.proc = "publish" => Top.event \in 1..Len(emitted)
  BY <1>1, TopTyped
<1>3. Len(emitted) \in Nat
  BY DEF EventsOK
<1>4. CASE Deliver
  <2>1. PICK s \in Subscriber :
          /\ received' = [received EXCEPT ![s] = Append(@, Top.event)]
          /\ stack' = <<Frame("publish", Top.step, Top.event, Top.seen \cup {s})>> \o Rest
    BY <1>4 DEF Deliver
  <2>2. Top.event \in 1..Len(emitted) /\ Top.seen \cup {s} \in SUBSET Subscriber
    BY <1>2, <1>4 DEF Deliver
  <2> DEFINE f == Frame("publish", Top.step, Top.event, Top.seen \cup {s})
  <2>3. f \in Frames
    BY <1>2, <1>3, <2>2, FrameTyped DEF Frames
  <2> HIDE DEF f
  <2>4. stack' \in Seq(Frames)
    BY <1>2, <2>1, <2>3, PushTyped DEF f
  <2>5. received' \in [Subscriber -> Seq(1..Len(emitted))]
    <3>1. Append(received[s], Top.event) \in Seq(1..Len(emitted))
      BY <2>2, AppendProperties DEF EventsOK
    <3> QED
      BY <2>1, <3>1 DEF EventsOK
  <2> QED
    BY <1>4, <2>4, <2>5 DEF Deliver, EventsOK, Frames, iterator
<1>5. CASE HandOver
  <2>1. Top.event \in 1..Len(emitted)
    BY <1>2, <1>5 DEF HandOver
  <2>2. /\ Append(iterated, Top.event) \in Seq(1..Len(emitted))
        /\ Append(pending, Top.event) \in Seq(1..Len(emitted))
    BY <2>1, AppendProperties DEF EventsOK
  <2> QED
    BY <1>2, <1>5, <2>2 DEF HandOver, EventsOK, Frames, log
<1>6. CASE Replay
  <2>1. CASE Top.event < Len(emitted)
    <3>1. /\ stack' = <<Frame("replay", Top.step, Top.event + 1, Top.seen)>> \o Rest
          /\ received' = [s \in Subscriber |->
               IF s \in Top.seen THEN Append(received[s], Top.event + 1) ELSE received[s]]
      BY <1>6, <2>1 DEF Replay
    <3>2. Top.event + 1 \in 1..Len(emitted)
      BY <1>2, <1>3, <2>1
    <3> DEFINE f == Frame("replay", Top.step, Top.event + 1, Top.seen)
    <3>3. f \in Frames
      BY <1>2, <1>3, <3>2, FrameTyped DEF Frames
    <3> HIDE DEF f
    <3>4. stack' \in Seq(Frames)
      BY <1>2, <3>1, <3>3, PushTyped DEF f
    <3>5. \A s \in Subscriber : Append(received[s], Top.event + 1) \in Seq(1..Len(emitted))
      BY <3>2, AppendProperties DEF EventsOK
    <3>6. received' \in [Subscriber -> Seq(1..Len(emitted))]
      BY <3>1, <3>5 DEF EventsOK
    <3> QED
      BY <1>6, <3>4, <3>6 DEF Replay, EventsOK, Frames, iterator
  <2>2. CASE ~(Top.event < Len(emitted))
    BY <1>2, <1>6, <2>2 DEF Replay, EventsOK, Frames, iterator
  <2> QED
    BY <2>1, <2>2
<1> QED
  BY <1>4, <1>5, <1>6

\* A call on top of a stack whose frames are typed.
LEMMA CalledTyped ==
  ASSUME EventsOK, NEW f \in Frames, NEW s \in Seq(Frames), stack' = <<f>> \o s,
         UNCHANGED <<emitted, received, pending, iterated>>, subs' \in Seq(Subscriber)
  PROVE  EventsOK'
<1>1. stack' \in Seq(Frames)
  BY PushTyped
<1> QED
  BY <1>1 DEF EventsOK, Frames

LEMMA CatchTyped ==
  ASSUME EventsOK, Free, NEW error, Catch(error), UNCHANGED <<log, pending, iterated>>
  PROVE  EventsOK'
<1>1. CASE UNCHANGED stack
  BY <1>1 DEF EventsOK, Frames, log
<1>2. CASE stack' # stack
  <2> DEFINE e == IF signal = "timeout" THEN "timeout" ELSE error
             f == Frame("fail", IF e = "error" THEN "error" ELSE "aborted", 0, {})
  <2>1. stack' = <<f>>
    BY <1>2 DEF Catch
  <2>2. f \in Frames
    <3>1. Len(emitted) \in Nat /\ 0 \in 0..Len(emitted)
      BY DEF EventsOK
    <3> QED
      BY <3>1, FrameTyped DEF Frames
  <2> HIDE DEF f
  <2>3. stack' \in Seq(Frames)
    BY <2>1, <2>2
  <2> QED
    BY <2>3 DEF EventsOK, Frames, log
<1> QED
  BY <1>1, <1>2

LEMMA EventsStep ==
  ASSUME TypeInv, [Next]_vars
  PROVE  EventsOK'
<1> USE DEF TypeInv
<1>1. CASE EngineEmit \/ CancelDrain \/ CancelReport \/ FailReport \/ Deliver \/ HandOver \/ Replay
  BY <1>1, StreamingTyped, DeliveryTyped
<1>2. CASE CancelClose \/ Finish \/ FailClose
  <2>1. ~Free /\ stack' = Rest /\ UNCHANGED <<emitted, received, pending, iterated>>
    BY <1>2 DEF CancelClose, Finish, FailClose, At
  <2>2. subs' \in Seq(Subscriber)
    <3>1. Close /\ subs \in Seq(Subscriber)
      BY <1>2 DEF CancelClose, Finish, FailClose, EventsOK
    <3>2. subs' = subs \/ subs' = <<>>
      BY <3>1, Zenon DEF Close
    <3>3. <<>> \in Seq(Subscriber)
      OBVIOUS
    <3> QED
      BY <3>1, <3>2, <3>3
  <2> QED
    BY <2>1, <2>2, TopTyped DEF EventsOK, Frames
<1>3. CASE AbortWins \/ OperationReturns \/ OperationThrows \/ TimeoutFires
  BY <1>3 DEF AbortWins, OperationReturns, OperationThrows, TimeoutFires, EventsOK, Frames,
     log, iterator
<1>4. CASE CatchThrown \/ ResumeRan
  <2>1. Free /\ UNCHANGED <<log, pending, iterated>>
    BY <1>4 DEF CatchThrown, ResumeRan, iterator
  <2>2. CASE \E error : Catch(error)
    BY <2>1, <2>2, CatchTyped
  <2>3. CASE UNCHANGED stack
    BY <2>1, <2>3 DEF EventsOK, Frames, log
  <2> QED
    BY <1>4, <2>2, <2>3 DEF CatchThrown, ResumeRan
<1>5. CASE ResumeEvaluated
  <2>1. UNCHANGED <<subs, received, pending, iterated>>
    BY <1>5 DEF ResumeEvaluated, iterator
  <2>2. CASE UNCHANGED <<stack, emitted>>
    BY <2>1, <2>2 DEF EventsOK, Frames
  <2>3. CASE Publish("final", <<Frame("finish", "settle", 0, {})>>)
    <3>1. Frame("finish", "settle", 0, {}) \in Frames
      <4>1. Len(emitted) \in Nat /\ 0 \in 0..Len(emitted)
        BY DEF EventsOK
      <4> QED
        BY <4>1, FrameTyped DEF Frames
    <3>2. <<Frame("finish", "settle", 0, {})>> \in Seq(Frames) /\ "final" \in Kinds
      BY <3>1 DEF Kinds
    <3> QED
      BY <2>1, <2>3, <3>2, PublishTyped
  <2> QED
    BY <1>5, <2>2, <2>3 DEF ResumeEvaluated
<1>6. Len(emitted) \in Nat /\ 0 \in 0..Len(emitted)
  BY DEF EventsOK
<1>7. CASE Cancel
  <2> DEFINE f == Frame("cancel", "drain", 0, {})
  <2>1. stack' = <<f>> \o stack /\ UNCHANGED <<log, pending, iterated>>
    BY <1>7 DEF Cancel, iterator
  <2>2. f \in Frames
    BY <1>6, FrameTyped DEF Frames
  <2> HIDE DEF f
  <2> QED
    BY <2>1, <2>2, CalledTyped DEF log, EventsOK
<1>8. ASSUME NEW s \in Subscriber, Subscribe(s) PROVE EventsOK'
  <2> DEFINE f == Frame("replay", "deliver", 0, {s})
  <2>1. stack' = <<f>> \o stack /\ UNCHANGED <<emitted, received, pending, iterated>>
    BY <1>8 DEF Subscribe, iterator
  <2>2. f \in Frames
    BY <1>6, FrameTyped DEF Frames
  <2>3. subs' \in Seq(Subscriber)
    BY <1>8 DEF Subscribe, EventsOK
  <2> HIDE DEF f
  <2> QED
    BY <2>1, <2>2, <2>3, CalledTyped DEF EventsOK
<1>9. ASSUME NEW s \in Subscriber, Unsubscribe(s) PROVE EventsOK'
  <2>1. UNCHANGED <<emitted, received, pending, iterated, stack>>
    BY <1>9 DEF Unsubscribe, iterator
  <2>2. subs \in Seq(Subscriber) /\ Unsubscribe(s)
    BY <1>9 DEF EventsOK
  <2>3. subs' = subs \/ \E k \in 1..Len(subs) : subs' = RemoveAt(subs, k)
    BY <2>2, Unsubscribed
  <2>4. \A k \in 1..Len(subs) : RemoveAt(subs, k) \in Seq(Subscriber)
    BY <2>2, Removed
  <2>5. subs' \in Seq(Subscriber)
    BY <2>2, <2>3, <2>4
  <2> QED
    BY <2>1, <2>5 DEF EventsOK, Frames
<1>10. CASE ConsumerNext
  <2>1. UNCHANGED <<log, stack>>
    BY <1>10 DEF ConsumerNext
  <2>2. pending' \in Seq(1..Len(emitted)) /\ iterated' \in Seq(1..Len(emitted))
    <3>1. CASE pending # <<>>
      <4>1. Head(pending) \in 1..Len(emitted) /\ Tail(pending) \in Seq(1..Len(emitted))
        BY <3>1, HeadTailProperties DEF EventsOK
      <4>2. Append(iterated, Head(pending)) \in Seq(1..Len(emitted))
        BY <4>1, AppendProperties DEF EventsOK
      <4> QED
        BY <1>10, <3>1, <4>1, <4>2 DEF ConsumerNext
    <3>2. CASE pending = <<>>
      BY <1>10, <3>2 DEF ConsumerNext, EventsOK
    <3> QED
      BY <3>1, <3>2
  <2> QED
    BY <2>1, <2>2 DEF EventsOK, Frames, log
<1>11. CASE UNCHANGED vars
  BY <1>11 DEF vars, EventsOK, Frames, log, iterator
<1> QED
  BY <1>1, <1>2, <1>3, <1>4, <1>5, <1>7, <1>8, <1>9, <1>10, <1>11
     DEF Next, Internal, External, Finished

LEMMA InitTyped ==
  ASSUME Init
  PROVE  TypeInv
<1>1. FlagsOK
  <2>1. MaxReentrant \in Nat /\ HasTimeout \in BOOLEAN
    BY ConstantsAssumption
  <2>2. reentered \in 0..MaxReentrant /\ timer \in BOOLEAN
    BY <2>1 DEF Init
  <2> QED
    BY <2>2 DEF Init, FlagsOK
<1>2. EventsOK
  BY DEF Init, EventsOK
<1> QED
  BY <1>1, <1>2 DEF TypeInv

LEMMA TypeInvariance == Spec => []TypeInv
<1>1. Init => TypeInv
  BY InitTyped
<1>2. TypeInv /\ [Next]_vars => TypeInv'
  BY FlagsStep, EventsStep DEF TypeInv
<1> QED
  BY <1>1, <1>2, PTL DEF Spec

\* Every variable of a stream keeps its type; whatever reaches a subscriber, the queue of
\* the iterator or its consumer is an event that was emitted.
THEOREM TypeCorrect == Spec => []TypeOK
<1>1. TypeInv => TypeOK
  BY TypeInvTypes
<1> QED
  BY <1>1, TypeInvariance, PTL

-----------------------------------------------------------------------------
(* The iterator loses nothing                                              *)

\* publish() is in progress with event n.
Publishing(s, n) == \E k \in 1..Len(s) : s[k].proc = "publish" /\ s[k].event = n

\* No event is published twice at a time.
Distinct(s) ==
  \A j, k \in 1..Len(s) :
    s[j].proc = "publish" /\ s[k].proc = "publish" /\ s[j].event = s[k].event => j = k

\* What the consumer of the iterator has got or will get next.
Yielded == iterated \o pending

Occurs(n, s) == \E k \in 1..Len(s) : s[k] = n

\* Each event is either still being published or, once, with the iterator.
PlacedInv ==
  /\ waiting => pending = <<>>
  /\ Distinct(stack)
  /\ \A j, k \in 1..Len(Yielded) : Yielded[j] = Yielded[k] => j = k
  /\ \A n \in 1..Len(emitted) : Occurs(n, Yielded) <=> ~Publishing(stack, n)

LEMMA PushedEvents ==
  ASSUME NEW S, NEW s \in Seq(S), NEW f \in S
  PROVE  /\ \A n : Publishing(<<f>> \o s, n) <=>
                     (f.proc = "publish" /\ f.event = n) \/ Publishing(s, n)
         /\ Distinct(<<f>> \o s) <=>
              Distinct(s) /\ (f.proc = "publish" => ~Publishing(s, f.event))
<1> DEFINE t == <<f>> \o s
<1>1. /\ Len(t) = Len(s) + 1 /\ Len(s) \in Nat
      /\ t[1] = f /\ \A k \in 1..Len(s) : t[k + 1] = s[k]
  OBVIOUS
<1> HIDE DEF t
<1>2. 1 \in 1..Len(t) /\ \A k \in 1..Len(s) : k + 1 \in 1..Len(t)
  BY <1>1
<1>3. \A k \in 1..Len(t) : k = 1 \/ (k - 1 \in 1..Len(s) /\ t[k] = s[k - 1] /\ (k - 1) + 1 = k)
  BY <1>1
<1>4. ASSUME NEW n
      PROVE  Publishing(t, n) <=> (f.proc = "publish" /\ f.event = n) \/ Publishing(s, n)
  <2>1. ASSUME Publishing(s, n) PROVE Publishing(t, n)
    <3>1. PICK k \in 1..Len(s) : s[k].proc = "publish" /\ s[k].event = n
      BY <2>1 DEF Publishing
    <3>2. t[k + 1].proc = "publish" /\ t[k + 1].event = n
      BY <1>1, <3>1
    <3> QED
      BY <1>2, <3>2 DEF Publishing
  <2>2. ASSUME f.proc = "publish", f.event = n PROVE Publishing(t, n)
    BY <1>1, <1>2, <2>2 DEF Publishing
  <2>3. ASSUME Publishing(t, n) PROVE (f.proc = "publish" /\ f.event = n) \/ Publishing(s, n)
    BY <1>1, <1>3, <2>3 DEF Publishing
  <2> QED
    BY <2>1, <2>2, <2>3
<1>5. ASSUME Distinct(t) PROVE Distinct(s) /\ (f.proc = "publish" => ~Publishing(s, f.event))
  <2>1. ASSUME NEW j \in 1..Len(s), NEW k \in 1..Len(s),
               s[j].proc = "publish", s[k].proc = "publish", s[j].event = s[k].event
        PROVE  j = k
    <3>1. j + 1 = k + 1
      BY <1>1, <1>2, <1>5, <2>1 DEF Distinct
    <3> QED
      BY <3>1
  <2>2. ASSUME f.proc = "publish", Publishing(s, f.event) PROVE FALSE
    <3>1. PICK k \in 1..Len(s) : s[k].proc = "publish" /\ s[k].event = f.event
      BY <2>2 DEF Publishing
    <3>2. k + 1 = 1
      BY <1>1, <1>2, <1>5, <2>2, <3>1 DEF Distinct
    <3> QED
      BY <3>2
  <2> QED
    BY <2>1, <2>2 DEF Distinct
<1>6. ASSUME Distinct(s), f.proc = "publish" => ~Publishing(s, f.event) PROVE Distinct(t)
  <2> SUFFICES ASSUME NEW j \in 1..Len(t), NEW k \in 1..Len(t), t[j].proc = "publish",
                      t[k].proc = "publish", t[j].event = t[k].event
               PROVE  j = k
    BY DEF Distinct
  <2>1. CASE j = 1 /\ k # 1
    BY <1>1, <1>3, <1>6, <2>1 DEF Publishing
  <2>2. CASE j # 1 /\ k = 1
    BY <1>1, <1>3, <1>6, <2>2 DEF Publishing
  <2>3. CASE j # 1 /\ k # 1
    <3>1. /\ j - 1 \in 1..Len(s) /\ t[j] = s[j - 1] /\ (j - 1) + 1 = j
          /\ k - 1 \in 1..Len(s) /\ t[k] = s[k - 1] /\ (k - 1) + 1 = k
      BY <1>3, <2>3
    <3>2. j - 1 = k - 1
      BY <1>6, <3>1 DEF Distinct
    <3> QED
      BY <3>1, <3>2
  <2> QED
    BY <2>1, <2>2, <2>3
<1> QED
  BY <1>4, <1>5, <1>6 DEF t

LEMMA PoppedEvents ==
  ASSUME NEW S, NEW s \in Seq(S), s # <<>>
  PROVE  /\ \A n : Publishing(s, n) <=>
                     (Head(s).proc = "publish" /\ Head(s).event = n) \/ Publishing(Tail(s), n)
         /\ Distinct(s) <=>
              Distinct(Tail(s)) /\ (Head(s).proc = "publish" => ~Publishing(Tail(s), Head(s).event))
<1> DEFINE top == Head(s)
           rest == Tail(s)
<1>1. top \in S /\ rest \in Seq(S) /\ s = <<top>> \o rest
  OBVIOUS
<1> HIDE DEF top, rest
<1>2. /\ \A n : Publishing(<<top>> \o rest, n) <=>
                  (top.proc = "publish" /\ top.event = n) \/ Publishing(rest, n)
      /\ Distinct(<<top>> \o rest) <=>
              Distinct(rest) /\ (top.proc = "publish" => ~Publishing(rest, top.event))
  BY <1>1, PushedEvents
<1>3. /\ \A n : Publishing(s, n) <=>
                  (top.proc = "publish" /\ top.event = n) \/ Publishing(rest, n)
      /\ Distinct(s) <=>
              Distinct(rest) /\ (top.proc = "publish" => ~Publishing(rest, top.event))
  BY <1>1, <1>2
<1> QED
  BY <1>3 DEF top, rest

\* The same events are being published.
SameEvents(s, t) == Distinct(t) /\ \A n : Publishing(t, n) <=> Publishing(s, n)

LEMMA ReframedEvents ==
  ASSUME NEW S, NEW s \in Seq(S), s # <<>>, Distinct(s), NEW f \in S,
         f.proc = Head(s).proc, f.proc = "publish" => f.event = Head(s).event
  PROVE  SameEvents(s, <<f>> \o Tail(s))
<1> DEFINE rest == Tail(s)
           t == <<f>> \o rest
<1>1. rest \in Seq(S)
  OBVIOUS
<1>2. /\ \A n : Publishing(s, n) <=>
                  (Head(s).proc = "publish" /\ Head(s).event = n) \/ Publishing(rest, n)
      /\ Distinct(rest) /\ (Head(s).proc = "publish" => ~Publishing(rest, Head(s).event))
  BY PoppedEvents
<1> HIDE DEF rest
<1>3. /\ \A n : Publishing(t, n) <=> (f.proc = "publish" /\ f.event = n) \/ Publishing(rest, n)
      /\ Distinct(t) <=> Distinct(rest) /\ (f.proc = "publish" => ~Publishing(rest, f.event))
  BY <1>1, PushedEvents
<1> HIDE DEF t
<1>4. SameEvents(s, t)
  BY <1>2, <1>3 DEF SameEvents
<1> QED
  BY <1>4 DEF t, rest

\* A call other than publish() begins or ends.
LEMMA OtherCall ==
  ASSUME NEW S, NEW s \in Seq(S), Distinct(s), NEW f \in S, f.proc # "publish"
  PROVE  SameEvents(s, <<f>> \o s)
<1> DEFINE t == <<f>> \o s
<1>1. /\ \A n : Publishing(t, n) <=> (f.proc = "publish" /\ f.event = n) \/ Publishing(s, n)
      /\ Distinct(t) <=> Distinct(s) /\ (f.proc = "publish" => ~Publishing(s, f.event))
  BY PushedEvents
<1> HIDE DEF t
<1>2. SameEvents(s, t)
  BY <1>1 DEF SameEvents
<1> QED
  BY <1>2 DEF t

LEMMA OtherReturn ==
  ASSUME NEW S, NEW s \in Seq(S), s # <<>>, Distinct(s), Head(s).proc # "publish"
  PROVE  SameEvents(s, Tail(s))
BY PoppedEvents DEF SameEvents

\* Nothing is handed over.
LEMMA StillPlaced ==
  ASSUME PlacedInv, SameEvents(stack, stack'), Len(emitted') = Len(emitted),
         Yielded' = Yielded, waiting' => pending' = <<>>
  PROVE  PlacedInv'
<1>1. \A n \in 1..Len(emitted') : Occurs(n, Yielded') <=> ~Publishing(stack', n)
  BY DEF PlacedInv, SameEvents
<1> QED
  BY <1>1 DEF PlacedInv, SameEvents

\* An event begins its way through publish().
LEMMA PublishPlaced ==
  ASSUME TypeInv, PlacedInv, NEW kind \in Kinds, NEW callers \in Seq(Frames),
         SameEvents(stack, callers), Publish(kind, callers), UNCHANGED <<pending, iterated, waiting>>
  PROVE  PlacedInv'
<1>1. Yielded' = Yielded /\ (waiting' => pending' = <<>>)
  BY DEF Yielded, PlacedInv
<1>2. CASE complete
  BY <1>1, <1>2, StillPlaced DEF Publish
<1>3. CASE ~complete
  <2> DEFINE n == Len(emitted)
             f == Frame("publish", "deliver", n + 1, {})
             called == <<f>> \o callers
  <2>1. n \in Nat /\ Len(emitted') = n + 1 /\ stack' = called
    BY <1>3 DEF Publish, TypeInv, EventsOK
  <2>2. f \in FramesOf(n + 1) /\ callers \in Seq(FramesOf(n + 1))
    BY <2>1, FrameTyped, MoreEvents DEF Frames
  <2>3. f.proc = "publish" /\ f.event = n + 1
    BY DEF Frame
  <2> HIDE DEF f
  <2>4. /\ \A m : Publishing(called, m) <=> m = n + 1 \/ Publishing(callers, m)
        /\ Distinct(called) <=> Distinct(callers) /\ ~Publishing(callers, n + 1)
    <3>1. /\ \A m : Publishing(called, m) <=>
                      (f.proc = "publish" /\ f.event = m) \/ Publishing(callers, m)
          /\ Distinct(called) <=>
               Distinct(callers) /\ (f.proc = "publish" => ~Publishing(callers, f.event))
      BY <2>2, PushedEvents
    <3> HIDE DEF called
    <3> QED
      BY <2>3, <3>1
  <2>5. ~Publishing(callers, n + 1)
    <3>1. \A k \in 1..Len(callers) : callers[k] \in Frames
      OBVIOUS
    <3>2. \A k \in 1..Len(callers) : callers[k].event \in 0..n
      BY <3>1 DEF Frames, FramesOf
    <3> QED
      BY <2>1, <3>2 DEF Publishing
  <2>6. ~Occurs(n + 1, Yielded)
    <3>1. Yielded \in Seq(1..n)
      BY ConcatProperties DEF Yielded, TypeInv, EventsOK
    <3>2. \A k \in 1..Len(Yielded) : Yielded[k] \in 1..n
      BY <3>1
    <3> QED
      BY <2>1, <3>2 DEF Occurs
  <2> HIDE DEF called, n
  <2>7. ASSUME NEW m \in 1..(n + 1)
        PROVE  Occurs(m, Yielded) <=> ~Publishing(called, m)
    <3>1. CASE m = n + 1
      BY <2>4, <2>6, <3>1
    <3>2. CASE m # n + 1
      <4>1. m \in 1..n
        BY <2>1, <3>2
      <4> QED
        BY <2>4, <3>2, <4>1 DEF PlacedInv, SameEvents, n
    <3> QED
      BY <3>1, <3>2
  <2>8. Distinct(called)
    BY <2>4, <2>5 DEF SameEvents
  <2>9. \A m \in 1..Len(emitted') : Occurs(m, Yielded') <=> ~Publishing(stack', m)
    BY <1>1, <2>1, <2>7
  <2>10. /\ Distinct(stack')
         /\ \A j, k \in 1..Len(Yielded') : Yielded'[j] = Yielded'[k] => j = k
    BY <1>1, <2>1, <2>8 DEF PlacedInv
  <2> QED
    BY <1>1, <2>9, <2>10 DEF PlacedInv
<1> QED
  BY <1>2, <1>3

\* One more event is with the iterator.
LEMMA AppendOccurs ==
  ASSUME NEW S, NEW s \in Seq(S), NEW e \in S
  PROVE  /\ \A n : Occurs(n, Append(s, e)) <=> n = e \/ Occurs(n, s)
         /\ ~Occurs(e, s) /\ (\A j, k \in 1..Len(s) : s[j] = s[k] => j = k) =>
              \A j, k \in 1..Len(Append(s, e)) : Append(s, e)[j] = Append(s, e)[k] => j = k
<1> DEFINE t == Append(s, e)
<1>1. /\ Len(t) = Len(s) + 1 /\ Len(s) \in Nat
      /\ \A k \in 1..Len(s) : t[k] = s[k]
      /\ t[Len(s) + 1] = e
  BY AppendProperties
<1> HIDE DEF t
<1>2. /\ Len(s) + 1 \in 1..Len(t) /\ 1..Len(s) \subseteq 1..Len(t)
      /\ \A k \in 1..Len(t) : k = Len(s) + 1 \/ k \in 1..Len(s)
  BY <1>1
<1>3. ASSUME NEW n PROVE Occurs(n, t) <=> n = e \/ Occurs(n, s)
  BY <1>1, <1>2 DEF Occurs
<1>4. ASSUME ~Occurs(e, s), \A j, k \in 1..Len(s) : s[j] = s[k] => j = k,
             NEW j \in 1..Len(t), NEW k \in 1..Len(t), t[j] = t[k]
      PROVE  j = k
  BY <1>1, <1>2, <1>4 DEF Occurs
<1> QED
  BY <1>3, <1>4 DEF t

LEMMA HandOverYields ==
  ASSUME TypeInv, PlacedInv, HandOver
  PROVE  /\ ~Free /\ Top.proc = "publish" /\ stack' = Rest
         /\ Len(emitted') = Len(emitted) /\ Len(emitted) \in Nat /\ Top.event \in 1..Len(emitted)
         /\ Yielded \in Seq(1..Len(emitted)) /\ Yielded' = Append(Yielded, Top.event)
         /\ waiting' => pending' = <<>>
<1> DEFINE e == Top.event
<1>1. /\ ~Free /\ Top.proc = "publish" /\ stack' = Rest
      /\ Len(emitted') = Len(emitted) /\ e \in 1..Len(emitted) /\ Len(emitted) \in Nat
  <2>1. ~Free /\ Top.proc = "publish" /\ stack' = Rest /\ emitted' = emitted
    BY DEF HandOver, log
  <2>2. Top.event \in 0..Len(emitted) /\ Top.event > 0 /\ Len(emitted) \in Nat
    BY <2>1, TopTyped DEF TypeInv, EventsOK
  <2> QED
    BY <2>1, <2>2
<1>3. Yielded \in Seq(1..Len(emitted)) /\ iterated \in Seq(1..Len(emitted))
      /\ pending \in Seq(1..Len(emitted))
  BY ConcatProperties DEF Yielded, TypeInv, EventsOK
<1>4. Yielded' = Append(Yielded, e) /\ (waiting' => pending' = <<>>)
  <2>1. CASE waiting
    <3>1. pending = <<>> /\ iterated' = Append(iterated, e) /\ pending' = <<>>
      BY <2>1 DEF HandOver, PlacedInv
    <3>2. Yielded = iterated /\ Yielded' = Append(iterated, e)
      BY <1>1, <1>3, <3>1 DEF Yielded
    <3> QED
      BY <3>1, <3>2
  <2>2. CASE ~waiting
    <3>1. iterated' = iterated /\ pending' = Append(pending, e) /\ ~waiting'
      BY <2>2 DEF HandOver
    <3>2. iterated \o Append(pending, e) = Append(iterated \o pending, e)
      BY <1>1, <1>3, SMTT(30)
    <3> QED
      BY <3>1, <3>2 DEF Yielded
  <2> QED
    BY <2>1, <2>2
<1> QED
  BY <1>1, <1>3, <1>4

LEMMA HandOverPlaced ==
  ASSUME TypeInv, PlacedInv, HandOver
  PROVE  PlacedInv'
<1> DEFINE e == Top.event
<1>1. /\ ~Free /\ Top.proc = "publish" /\ stack' = Rest
      /\ Len(emitted') = Len(emitted) /\ e \in 1..Len(emitted) /\ Len(emitted) \in Nat
  BY HandOverYields
<1>2. /\ \A n : Publishing(stack, n) <=> e = n \/ Publishing(Rest, n)
      /\ Distinct(Rest) /\ ~Publishing(Rest, e)
  BY <1>1, PoppedEvents DEF TypeInv, EventsOK, PlacedInv, Free, Top, Rest
<1>3. Yielded \in Seq(1..Len(emitted))
  BY HandOverYields
<1>4. Yielded' = Append(Yielded, e) /\ (waiting' => pending' = <<>>)
  BY HandOverYields
<1> HIDE DEF e
<1>5. ~Occurs(e, Yielded)
  BY <1>1, <1>2 DEF PlacedInv
<1>6. /\ \A n : Occurs(n, Yielded') <=> n = e \/ Occurs(n, Yielded)
      /\ \A j, k \in 1..Len(Yielded') : Yielded'[j] = Yielded'[k] => j = k
  <2>1. \A j, k \in 1..Len(Yielded) : Yielded[j] = Yielded[k] => j = k
    BY DEF PlacedInv
  <2> DEFINE t == Append(Yielded, e)
  <2>2. /\ \A n : Occurs(n, t) <=> n = e \/ Occurs(n, Yielded)
        /\ \A j, k \in 1..Len(t) : t[j] = t[k] => j = k
    BY <1>1, <1>3, <1>5, <2>1, AppendOccurs
  <2>3. Yielded' = t
    BY <1>4
  <2> HIDE DEF t
  <2> QED
    BY <2>2, <2>3
<1>7. ASSUME NEW n \in 1..Len(emitted') PROVE Occurs(n, Yielded') <=> ~Publishing(stack', n)
  <2>1. Occurs(n, Yielded) <=> ~Publishing(stack, n)
    BY <1>1 DEF PlacedInv
  <2> QED
    BY <1>1, <1>2, <1>6, <2>1
<1> QED
  BY <1>1, <1>2, <1>4, <1>6, <1>7 DEF PlacedInv

\* The consumer takes the next event of the queue, or waits for one.
LEMMA ConsumerYields ==
  ASSUME TypeInv, ConsumerNext
  PROVE  Yielded' = Yielded /\ (waiting' => pending' = <<>>)
<1>1. CASE pending # <<>>
  <2>1. iterated' = Append(iterated, Head(pending)) /\ pending' = Tail(pending) /\ ~waiting'
    BY <1>1 DEF ConsumerNext
  <2>2. Append(iterated, Head(pending)) \o Tail(pending) = iterated \o pending
    <3> DEFINE S == 1..Len(emitted)
    <3>1. iterated \in Seq(S) /\ pending \in Seq(S)
      BY DEF TypeInv, EventsOK
    <3> HIDE DEF S
    <3>2. Head(pending) \in S /\ Tail(pending) \in Seq(S) /\ pending = <<Head(pending)>> \o Tail(pending)
      BY <1>1, <3>1
    <3>3. Append(iterated, Head(pending)) = iterated \o <<Head(pending)>>
      BY <3>1, <3>2
    <3>4. <<Head(pending)>> \in Seq(S)
      BY <3>2
    <3>5. (iterated \o <<Head(pending)>>) \o Tail(pending) = iterated \o (<<Head(pending)>> \o Tail(pending))
      BY <3>1, <3>2, <3>4, ConcatAssociative
    <3> QED
      BY <3>2, <3>3, <3>5
  <2> QED
    BY <2>1, <2>2 DEF Yielded
<1>2. CASE pending = <<>>
  BY <1>2 DEF ConsumerNext, Yielded
<1> QED
  BY <1>1, <1>2

LEMMA ConsumerPlaced ==
  ASSUME TypeInv, PlacedInv, ConsumerNext
  PROVE  PlacedInv'
<1>1. UNCHANGED <<stack, emitted>>
  BY DEF ConsumerNext, log
<1>2. SameEvents(stack, stack')
  BY <1>1 DEF SameEvents, PlacedInv
<1> QED
  BY <1>1, <1>2, ConsumerYields, StillPlaced

\* The frame on top of the stack moves on.
LEMMA ToEvents ==
  ASSUME TypeInv, PlacedInv, ~Free, Top.proc # "publish",
         NEW step \in {"deliver", "drain", "aborted", "error", "close", "settle"}
  PROVE  SameEvents(stack, To(step)) /\ To(step) \in Seq(Frames)
<1> DEFINE f == Frame(Top.proc, step, Top.event, Top.seen)
<1>1. f.proc = Head(stack).proc /\ f.proc # "publish"
  BY DEF Frame, Top
<1>2. f \in Frames
  <2>1. Len(emitted) \in Nat
    BY DEF TypeInv, EventsOK
  <2> QED
    BY <2>1, TopTyped, FrameTyped DEF Frames, TypeInv
<1> HIDE DEF f
<1>3. SameEvents(stack, <<f>> \o Tail(stack))
  BY <1>1, <1>2, ReframedEvents DEF TypeInv, EventsOK, PlacedInv, Free
<1> QED
  BY <1>3, ToTyped DEF To, f, Rest, TypeInv

LEMMA ReportsPlaced ==
  ASSUME TypeInv, PlacedInv, EngineEmit \/ CancelDrain \/ CancelReport \/ FailReport
  PROVE  PlacedInv'
<1>1. "turn" \in Kinds /\ "drained" \in Kinds /\ "aborted" \in Kinds /\ "error" \in Kinds
  BY DEF Kinds
<1>2. UNCHANGED <<pending, iterated, waiting>>
  BY DEF EngineEmit, CancelDrain, CancelReport, FailReport, iterator
<1>3. CASE EngineEmit
  <2>1. <<>> \in Seq(Frames) /\ SameEvents(stack, <<>>) /\ Publish("turn", <<>>)
    BY <1>3 DEF EngineEmit, Free, SameEvents, PlacedInv
  <2> QED
    BY <1>1, <1>2, <2>1, PublishPlaced
<1>4. CASE CancelDrain
  <2>1. SameEvents(stack, To("aborted")) /\ To("aborted") \in Seq(Frames)
    BY <1>4, ToEvents DEF CancelDrain, At
  <2>2. CASE stack' = To("aborted") /\ UNCHANGED emitted
    <3>1. Yielded' = Yielded /\ (waiting' => pending' = <<>>)
      BY <1>2 DEF Yielded, PlacedInv
    <3> QED
      BY <2>1, <2>2, <3>1, StillPlaced
  <2>3. CASE Publish("drained", To("aborted"))
    BY <1>1, <1>2, <2>1, <2>3, PublishPlaced
  <2> QED
    BY <1>4, <2>2, <2>3 DEF CancelDrain
<1>5. CASE CancelReport \/ FailReport
  <2>1. SameEvents(stack, To("error")) /\ To("error") \in Seq(Frames)
        /\ SameEvents(stack, To("close")) /\ To("close") \in Seq(Frames)
    BY <1>5, ToEvents DEF CancelReport, FailReport, At
  <2>2. Publish("aborted", To("error")) \/ Publish("error", To("close"))
    BY <1>5 DEF CancelReport, FailReport
  <2> QED
    BY <1>1, <1>2, <2>1, <2>2, PublishPlaced
<1> QED
  BY <1>3, <1>4, <1>5

\* Steps that hand nothing over.
LEMMA OthersPlaced ==
  ASSUME TypeInv, PlacedInv, SameEvents(stack, stack'), UNCHANGED <<emitted, pending, iterated>>,
         waiting' => waiting
  PROVE  PlacedInv'
<1>1. Yielded' = Yielded /\ (waiting' => pending' = <<>>)
  BY DEF Yielded, PlacedInv
<1> QED
  BY <1>1, StillPlaced

LEMMA SameStackEvents ==
  ASSUME PlacedInv
  PROVE  SameEvents(stack, stack)
BY DEF SameEvents, PlacedInv

LEMMA PlacedStep ==
  ASSUME TypeInv, PlacedInv, [Next]_vars
  PROVE  PlacedInv'
<1>1. stack \in Seq(Frames) /\ Distinct(stack) /\ Len(emitted) \in Nat /\ 0 \in 0..Len(emitted)
  BY DEF TypeInv, EventsOK, PlacedInv
<1>2. CASE Deliver \/ Replay
  <2>1. ~Free /\ UNCHANGED <<emitted, pending, iterated, waiting>>
    BY <1>2 DEF Deliver, Replay, iterator
  <2>2. SameEvents(stack, stack')
    <3>1. CASE Deliver
      <4>1. PICK s \in Subscriber :
              stack' = <<Frame("publish", Top.step, Top.event, Top.seen \cup {s})>> \o Rest
        BY <3>1 DEF Deliver
      <4> DEFINE f == Frame("publish", Top.step, Top.event, Top.seen \cup {s})
      <4>2. f.proc = Head(stack).proc /\ f.event = Head(stack).event
        BY <3>1 DEF Deliver, Frame, Top
      <4>3. f \in Frames
        BY <1>1, <2>1, <3>1, TopTyped, FrameTyped DEF Deliver, Frames, TypeInv
      <4> HIDE DEF f
      <4>4. SameEvents(stack, <<f>> \o Tail(stack))
        BY <1>1, <2>1, <4>2, <4>3, ReframedEvents DEF Free
      <4> QED
        BY <4>1, <4>4 DEF f, Rest
    <3>2. CASE Replay /\ Top.event < Len(emitted)
      <4> DEFINE f == Frame("replay", Top.step, Top.event + 1, Top.seen)
      <4>1. stack' = <<f>> \o Rest /\ Top.event + 1 \in 0..Len(emitted)
        BY <1>1, <2>1, <3>2, TopTyped DEF Replay, TypeInv
      <4>2. f.proc = Head(stack).proc /\ f.proc # "publish"
        BY <3>2 DEF Replay, Frame, Top
      <4>3. f \in Frames
        BY <1>1, <2>1, <4>1, TopTyped, FrameTyped DEF Frames, TypeInv
      <4> HIDE DEF f
      <4>4. SameEvents(stack, <<f>> \o Tail(stack))
        BY <1>1, <2>1, <4>2, <4>3, ReframedEvents DEF Free
      <4> QED
        BY <4>1, <4>4 DEF Rest
    <3>3. CASE Replay /\ ~(Top.event < Len(emitted))
      BY <1>1, <2>1, <3>3, OtherReturn DEF Replay, Free, Top, Rest
    <3> QED
      BY <1>2, <3>1, <3>2, <3>3
  <2> QED
    BY <2>1, <2>2, OthersPlaced
<1>3. CASE CancelClose \/ Finish \/ FailClose
  <2>1. /\ ~Free /\ Top.proc # "publish" /\ stack' = Rest /\ Close
        /\ UNCHANGED <<emitted, pending, iterated>>
    BY <1>3 DEF CancelClose, Finish, FailClose, At
  <2>2. waiting' => waiting
    BY <2>1, Zenon DEF Close
  <2>3. SameEvents(stack, stack')
    BY <1>1, <2>1, OtherReturn DEF Free, Top, Rest
  <2> QED
    BY <2>1, <2>2, <2>3, OthersPlaced
<1>4. CASE AbortWins \/ OperationReturns \/ OperationThrows \/ TimeoutFires \/ UNCHANGED vars
  <2>1. UNCHANGED <<emitted, pending, iterated, waiting, stack>>
    BY <1>4 DEF AbortWins, OperationReturns, OperationThrows, TimeoutFires, vars, log, iterator
  <2> QED
    BY <2>1, SameStackEvents, OthersPlaced
<1>5. ASSUME Free, NEW f \in Frames, stack' = <<f>>, f.proc # "publish"
      PROVE  SameEvents(stack, stack')
  <2>1. stack = <<>> /\ <<f>> = <<f>> \o stack
    BY <1>5 DEF Free
  <2> HIDE DEF Free
  <2>2. SameEvents(stack, <<f>> \o stack)
    BY <1>1, <1>5, OtherCall
  <2> QED
    BY <1>5, <2>1, <2>2
<1>6. CASE CatchThrown \/ ResumeRan
  <2>1. Free /\ UNCHANGED <<emitted, pending, iterated, waiting>>
    BY <1>6 DEF CatchThrown, ResumeRan, iterator, log
  <2>2. SameEvents(stack, stack')
    <3>1. ASSUME NEW error, Catch(error), stack' # stack PROVE SameEvents(stack, stack')
      <4> DEFINE e == IF signal = "timeout" THEN "timeout" ELSE error
                 f == Frame("fail", IF e = "error" THEN "error" ELSE "aborted", 0, {})
      <4>1. stack' = <<f>>
        BY <3>1 DEF Catch
      <4>2. f \in Frames
        BY <1>1, FrameTyped DEF Frames
      <4>3. f.proc # "publish"
        BY DEF Frame
      <4> HIDE DEF f
      <4> QED
        BY <1>5, <2>1, <4>1, <4>2, <4>3
    <3>2. stack' = stack \/ \E error : Catch(error)
      BY <1>6 DEF CatchThrown, ResumeRan
    <3> QED
      BY <3>1, <3>2, SameStackEvents
  <2> QED
    BY <2>1, <2>2, OthersPlaced
<1>7. CASE ResumeEvaluated
  <2>1. Free /\ UNCHANGED <<pending, iterated, waiting>>
    BY <1>7 DEF ResumeEvaluated, iterator
  <2>2. CASE UNCHANGED <<stack, emitted>>
    BY <2>1, <2>2, SameStackEvents, OthersPlaced
  <2>3. CASE Publish("final", <<Frame("finish", "settle", 0, {})>>)
    <3> DEFINE f == Frame("finish", "settle", 0, {})
    <3>1. f \in Frames
      BY <1>1, FrameTyped DEF Frames
    <3>2. f.proc # "publish"
      BY DEF Frame
    <3> HIDE DEF f
    <3>0. stack = <<>> /\ <<f>> \o stack = <<f>>
      BY <2>1 DEF Free
    <3>3. SameEvents(stack, <<f>> \o stack)
      BY <1>1, <3>1, <3>2, OtherCall
    <3>4. SameEvents(stack, <<f>>) /\ <<f>> \in Seq(Frames) /\ "final" \in Kinds
      BY <3>0, <3>1, <3>3 DEF Kinds
    <3>5. Publish("final", <<f>>)
      BY <2>3 DEF f
    <3> QED
      BY <2>1, <3>4, <3>5, PublishPlaced
  <2> QED
    BY <1>7, <2>2, <2>3 DEF ResumeEvaluated
<1>8. CASE Cancel
  <2> DEFINE f == Frame("cancel", "drain", 0, {})
  <2>1. stack' = <<f>> \o stack /\ UNCHANGED <<emitted, pending, iterated, waiting>>
    BY <1>8 DEF Cancel, iterator, log
  <2>2. f \in Frames
    BY <1>1, FrameTyped DEF Frames
  <2>3. f.proc # "publish"
    BY DEF Frame
  <2> HIDE DEF f
  <2> QED
    BY <1>1, <2>1, <2>2, <2>3, OtherCall, OthersPlaced
<1>9. ASSUME NEW s \in Subscriber, Subscribe(s) PROVE PlacedInv'
  <2> DEFINE f == Frame("replay", "deliver", 0, {s})
  <2>1. stack' = <<f>> \o stack /\ UNCHANGED <<emitted, pending, iterated, waiting>>
    BY <1>9 DEF Subscribe, iterator
  <2>2. f \in Frames
    BY <1>1, FrameTyped DEF Frames
  <2>3. f.proc # "publish"
    BY DEF Frame
  <2> HIDE DEF f
  <2> QED
    BY <1>1, <2>1, <2>2, <2>3, OtherCall, OthersPlaced
<1>10. ASSUME NEW s \in Subscriber, Unsubscribe(s) PROVE PlacedInv'
  <2>1. UNCHANGED <<emitted, pending, iterated, waiting, stack>>
    BY <1>10 DEF Unsubscribe, iterator
  <2> QED
    BY <2>1, SameStackEvents, OthersPlaced
<1> QED
  BY <1>2, <1>3, <1>4, <1>6, <1>7, <1>8, <1>9, <1>10, HandOverPlaced, ConsumerPlaced,
     ReportsPlaced DEF Next, Internal, External, Finished

LEMMA InitPlaced ==
  ASSUME Init
  PROVE  PlacedInv
<1>1. Yielded = <<>> /\ Len(Yielded) = 0 /\ Len(stack) = 0 /\ Len(emitted) = 0 /\ waiting = FALSE
  BY DEF Init, Yielded
<1>2. 1..0 = {}
  OBVIOUS
<1> QED
  BY <1>1, <1>2 DEF PlacedInv, Distinct

LEMMA PlacedInvariance == Spec => [](TypeInv /\ PlacedInv)
<1>1. Init => PlacedInv
  BY InitPlaced
<1>2. TypeInv /\ PlacedInv /\ [Next]_vars => PlacedInv'
  BY PlacedStep
<1> QED
  BY <1>1, <1>2, TypeInvariance, PTL DEF Spec

\* A sequence without repetitions of all numbers up to n has n elements.
LEMMA Enumeration ==
  ASSUME NEW n \in Nat, NEW s \in Seq(1..n), \A k \in 1..n : Occurs(k, s),
         \A j, k \in 1..Len(s) : s[j] = s[k] => j = k
  PROVE  Len(s) = n
<1>1. Len(s) \in Nat /\ s \in [1..Len(s) -> 1..n]
  OBVIOUS
<1>2. s \in Injection(1..Len(s), 1..n)
  BY <1>1 DEF Injection, IsInjective
<1>3. s \in Surjection(1..Len(s), 1..n)
  BY <1>1 DEF Surjection, Occurs
<1>4. ASSUME NEW m \in Nat PROVE IsFiniteSet(1..m) /\ Cardinality(1..m) = m
  <2>1. 1 \in Int /\ m \in Int
    OBVIOUS
  <2>2. IsFiniteSet(1..m) /\ Cardinality(1..m) = IF 1 > m THEN 0 ELSE m - 1 + 1
    BY <2>1, FS_Interval
  <2> QED
    BY <2>2
<1> QED
  BY <1>2, <1>3, <1>4, FS_Injection

LEMMA PlacedLosesNothing ==
  ASSUME TypeInv, PlacedInv
  PROVE  IteratorLosesNothing
<1> SUFFICES ASSUME Free
             PROVE  IteratorLosesNothing!2
  BY DEF IteratorLosesNothing
<1>1. Yielded \in Seq(1..Len(emitted)) /\ Len(emitted) \in Nat
  BY ConcatProperties DEF Yielded, TypeInv, EventsOK
<1>2. \A n \in 1..Len(emitted) : Occurs(n, Yielded)
  BY DEF PlacedInv, Publishing, Free
<1>3. Len(Yielded) = Len(emitted)
  BY <1>1, <1>2, Enumeration DEF PlacedInv
<1>4. DOMAIN Yielded = 1..Len(Yielded)
  BY <1>1
<1> HIDE DEF Free
<1> QED
  BY <1>2, <1>3, <1>4, Zenon DEF Occurs, Yielded

\* Whatever callbacks do between the parts of a publish() - cancel, subscribe, detach - the
\* consumer of the iterator is handed each emitted event, and each of them once.
THEOREM NothingLost == Spec => []IteratorLosesNothing
<1>1. TypeInv /\ PlacedInv => IteratorLosesNothing
  BY PlacedLosesNothing
<1> QED
  BY <1>1, PlacedInvariance, PTL

-----------------------------------------------------------------------------
(* How a stream ends                                                       *)

\* f is the innermost call in progress other than a publish() or a replay.
Innermost(s, f) ==
  \E k \in 1..Len(s) : /\ s[k] = f /\ f.proc \in Callers
                       /\ \A j \in 1..(k - 1) : s[j].proc \notin Callers

Ends == {"final", "error"}

EndedWith(kinds) == emitted # <<>> /\ emitted[Len(emitted)] \in kinds

\* A call that is about to close the stream has published the terminal event, and unless a
\* callback has made a call nothing comes after it.
EndInv ==
  /\ complete => EndedWith(Ends) /\ (EndedWith({"final"}) <=> result = "resolved")
  /\ ~complete => \A f : Innermost(stack, f) =>
       /\ f.step = "close" => EndedWith({"error"})
       /\ f.proc = "finish" => EndedWith({"final"})
  /\ reentered = 0 =>
       /\ \A k \in 1..(Len(emitted) - 1) : emitted[k] \notin Ends
       /\ EndedWith(Ends) /\ ~complete => \E f : Innermost(stack, f) /\ f.step \in {"close", "settle"}

LEMMA PushedInnermost ==
  ASSUME NEW S, NEW s \in Seq(S), NEW f \in S
  PROVE  \A g : Innermost(<<f>> \o s, g) <=>
                  IF f.proc \in Callers THEN g = f ELSE Innermost(s, g)
<1> SUFFICES ASSUME NEW g
             PROVE  Innermost(<<f>> \o s, g) <=>
                      IF f.proc \in Callers THEN g = f ELSE Innermost(s, g)
  OBVIOUS
<1> DEFINE t == <<f>> \o s
<1>1. /\ Len(t) = Len(s) + 1 /\ Len(s) \in Nat
      /\ t[1] = f /\ \A k \in 1..Len(s) : t[k + 1] = s[k]
  OBVIOUS
<1> HIDE DEF t
<1>2. 1 \in 1..Len(t) /\ \A k \in 1..Len(s) : k + 1 \in 1..Len(t)
  BY <1>1
<1>3. \A k \in 1..Len(t) : k = 1 \/ (k - 1 \in 1..Len(s) /\ t[k] = s[k - 1] /\ 1 \in 1..(k - 1))
  BY <1>1
<1>4. CASE f.proc \in Callers
  <2>1. Innermost(t, f)
    BY <1>1, <1>2, <1>4 DEF Innermost
  <2>2. ASSUME Innermost(t, g) PROVE g = f
    BY <1>1, <1>3, <1>4, <2>2 DEF Innermost
  <2> QED
    BY <1>4, <2>1, <2>2 DEF t
<1>5. CASE f.proc \notin Callers
  <2>1. ASSUME Innermost(s, g) PROVE Innermost(t, g)
    <3>1. PICK k \in 1..Len(s) : /\ s[k] = g /\ g.proc \in Callers
                                 /\ \A j \in 1..(k - 1) : s[j].proc \notin Callers
      BY <2>1 DEF Innermost
    <3>2. ASSUME NEW j \in 1..((k + 1) - 1) PROVE t[j].proc \notin Callers
      <4>1. CASE j = 1
        BY <1>1, <1>5, <4>1
      <4>2. CASE j # 1
        <5>1. j - 1 \in 1..(k - 1) /\ j \in 1..Len(t)
          BY <1>1, <4>2
        <5> QED
          BY <1>3, <3>1, <4>2, <5>1
      <4> QED
        BY <4>1, <4>2
    <3>3. t[k + 1] = g /\ k + 1 \in 1..Len(t)
      BY <1>1, <1>2, <3>1
    <3> QED
      BY <3>1, <3>2, <3>3 DEF Innermost
  <2>2. ASSUME Innermost(t, g) PROVE Innermost(s, g)
    <3>1. PICK k \in 1..Len(t) : /\ t[k] = g /\ g.proc \in Callers
                                 /\ \A j \in 1..(k - 1) : t[j].proc \notin Callers
      BY <2>2 DEF Innermost
    <3>2. k # 1
      BY <1>1, <1>5, <3>1
    <3>3. k - 1 \in 1..Len(s) /\ s[k - 1] = g
      BY <1>3, <3>1, <3>2
    <3>4. ASSUME NEW j \in 1..((k - 1) - 1) PROVE s[j].proc \notin Callers
      <4>1. j + 1 \in 1..(k - 1) /\ j \in 1..Len(s)
        BY <1>1, <3>3
      <4>2. t[j + 1] = s[j]
        BY <1>1, <4>1
      <4> QED
        BY <3>1, <4>1, <4>2
    <3> QED
      BY <3>1, <3>3, <3>4 DEF Innermost
  <2> QED
    BY <1>5, <2>1, <2>2 DEF t
<1> QED
  BY <1>4, <1>5

LEMMA PoppedInnermost ==
  ASSUME NEW S, NEW s \in Seq(S), s # <<>>
  PROVE  \A g : Innermost(s, g) <=>
                  IF Head(s).proc \in Callers THEN g = Head(s) ELSE Innermost(Tail(s), g)
<1> DEFINE top == Head(s)
           rest == Tail(s)
<1>1. top \in S /\ rest \in Seq(S) /\ s = <<top>> \o rest
  OBVIOUS
<1> HIDE DEF top, rest
<1>2. \A g : Innermost(<<top>> \o rest, g) <=>
               IF top.proc \in Callers THEN g = top ELSE Innermost(rest, g)
  BY <1>1, PushedInnermost
<1>3. \A g : Innermost(s, g) <=> IF top.proc \in Callers THEN g = top ELSE Innermost(rest, g)
  BY <1>1, <1>2
<1> QED
  BY <1>3 DEF top, rest

SameInnermost(s, t) == \A f : Innermost(t, f) <=> Innermost(s, f)

\* The stream and the call that will close it are as they were.
LEMMA EndKept ==
  ASSUME EndInv, SameInnermost(stack, stack'), UNCHANGED <<emitted, complete, result>>,
         reentered' = 0 => reentered = 0
  PROVE  EndInv'
<1>1. \A kinds : EndedWith(kinds)' <=> EndedWith(kinds)
  BY DEF EndedWith
<1> QED
  BY <1>1, Zenon DEF EndInv, SameInnermost

\* The code other than a caller's own: publish() and replays.
LEMMA ReframedInnermost ==
  ASSUME NEW S, NEW s \in Seq(S), s # <<>>, NEW f \in S, f.proc = Head(s).proc, f.proc \notin Callers
  PROVE  SameInnermost(s, <<f>> \o Tail(s))
<1> DEFINE rest == Tail(s)
           t == <<f>> \o rest
<1>1. rest \in Seq(S)
  OBVIOUS
<1>2. \A g : Innermost(s, g) <=> Innermost(rest, g)
  BY PoppedInnermost
<1> HIDE DEF rest
<1>3. \A g : Innermost(t, g) <=> Innermost(rest, g)
  BY <1>1, PushedInnermost
<1> HIDE DEF t
<1>4. SameInnermost(s, t)
  BY <1>2, <1>3 DEF SameInnermost
<1> QED
  BY <1>4 DEF t, rest

\* An event that is not dropped is the last one; the caller of publish() stays innermost.
LEMMA PublishLast ==
  ASSUME TypeInv, NEW kind \in Kinds, NEW callers \in Seq(Frames), Publish(kind, callers), ~complete
  PROVE  /\ Len(emitted') = Len(emitted) + 1 /\ Len(emitted) \in Nat
         /\ \A k \in 1..Len(emitted) : emitted'[k] = emitted[k]
         /\ \A kinds : EndedWith(kinds)' <=> kind \in kinds
         /\ SameInnermost(callers, stack')
<1> DEFINE n == Len(emitted)
           f == Frame("publish", "deliver", n + 1, {})
           t == <<f>> \o callers
<1>1. emitted' = Append(emitted, kind) /\ stack' = t
  BY DEF Publish
<1>2. n \in Nat /\ emitted' \in Seq(Kinds) /\ Len(emitted') = n + 1 /\ emitted' # <<>>
      /\ emitted'[n + 1] = kind /\ \A k \in 1..n : emitted'[k] = emitted[k]
  <2>1. emitted \in Seq(Kinds) /\ n \in Nat
    BY DEF TypeInv, EventsOK
  <2> HIDE DEF f, t
  <2> QED
    BY <1>1, <2>1, AppendProperties
<1>3. f \in FramesOf(n + 1) /\ callers \in Seq(FramesOf(n + 1))
  BY <1>2, FrameTyped, MoreEvents DEF Frames
<1>4. f.proc \notin Callers
  BY DEF Frame, Callers
<1> HIDE DEF f
<1>5. \A g : Innermost(t, g) <=> Innermost(callers, g)
  BY <1>3, <1>4, PushedInnermost
<1> HIDE DEF t
<1>6. SameInnermost(callers, stack')
  BY <1>1, <1>5 DEF SameInnermost
<1>7. \A kinds : EndedWith(kinds)' <=> kind \in kinds
  BY <1>2 DEF EndedWith
<1> QED
  BY <1>2, <1>6, <1>7

\* Nothing terminal has been published when an event is added to an open stream.
LEMMA NotEnded ==
  ASSUME TypeInv, EndInv, reentered = 0, ~complete,
         ~\E f : Innermost(stack, f) /\ f.step \in {"close", "settle"}
  PROVE  \A k \in 1..Len(emitted) : emitted[k] \notin Ends
<1>1. ~EndedWith(Ends) /\ \A k \in 1..(Len(emitted) - 1) : emitted[k] \notin Ends
  BY DEF EndInv
<1>2. Len(emitted) \in Nat /\ (emitted = <<>> <=> Len(emitted) = 0)
  BY DEF TypeInv, EventsOK
<1> QED
  BY <1>1, <1>2 DEF EndedWith

\* publish() by a call that does not close the stream yet, or that does so next.
LEMMA PublishEnds ==
  ASSUME TypeInv, EndInv, NEW kind \in Kinds, NEW callers \in Seq(Frames), Publish(kind, callers),
         UNCHANGED <<complete, result, reentered>>, ~complete,
         ~\E f : Innermost(stack, f) /\ f.step \in {"close", "settle"},
         kind \in Ends => \E f : Innermost(callers, f) /\ f.step \in {"close", "settle"},
         \A f : Innermost(callers, f) =>
           (f.step = "close" => kind = "error") /\ (f.proc = "finish" => kind = "final")
  PROVE  EndInv'
<1>1. /\ Len(emitted') = Len(emitted) + 1 /\ Len(emitted) \in Nat
      /\ \A k \in 1..Len(emitted) : emitted'[k] = emitted[k]
      /\ \A kinds : EndedWith(kinds)' <=> kind \in kinds
      /\ SameInnermost(callers, stack')
  BY PublishLast
<1>2. \A f : Innermost(stack', f) =>
         /\ f.step = "close" => EndedWith({"error"})'
         /\ f.proc = "finish" => EndedWith({"final"})'
  BY <1>1 DEF SameInnermost
<1>3. reentered' = 0 =>
         /\ \A k \in 1..(Len(emitted') - 1) : emitted'[k] \notin Ends
         /\ EndedWith(Ends)' => \E f : Innermost(stack', f) /\ f.step \in {"close", "settle"}
  <2>1. reentered = 0 => \A k \in 1..Len(emitted) : emitted[k] \notin Ends
    BY NotEnded
  <2>2. 1..(Len(emitted') - 1) = 1..Len(emitted)
    BY <1>1
  <2>3. EndedWith(Ends)' => \E f : Innermost(stack', f) /\ f.step \in {"close", "settle"}
    BY <1>1 DEF SameInnermost
  <2> QED
    BY <1>1, <2>1, <2>2, <2>3
<1> QED
  BY <1>2, <1>3 DEF EndInv

\* The call on top that moves on to another step.
LEMMA ToInnermost ==
  ASSUME TypeInv, ~Free, Top.proc \in Callers,
         NEW step \in {"deliver", "drain", "aborted", "error", "close", "settle"}
  PROVE  /\ \A g : Innermost(stack, g) <=> g = Top
         /\ \E h : /\ h.step = step /\ h.proc = Top.proc
                   /\ \A g : Innermost(To(step), g) <=> g = h
         /\ To(step) \in Seq(Frames)
<1> DEFINE h == Frame(Top.proc, step, Top.event, Top.seen)
<1>1. h.step = step /\ h.proc = Top.proc
  BY DEF Frame
<1>2. h \in Frames
  <2>1. Len(emitted) \in Nat
    BY DEF TypeInv, EventsOK
  <2>2. Top.proc # "publish"
    BY DEF Callers
  <2> QED
    BY <2>1, <2>2, TopTyped, FrameTyped DEF Frames, TypeInv
<1>3. Rest \in Seq(Frames) /\ To(step) \in Seq(Frames) /\ To(step) = <<h>> \o Rest
  BY TopTyped, ToTyped DEF TypeInv, To
<1> HIDE DEF h
<1>4. \A g : Innermost(<<h>> \o Rest, g) <=> g = h
  BY <1>1, <1>2, <1>3, PushedInnermost
<1>5. \A g : Innermost(stack, g) <=> g = Top
  BY PoppedInnermost DEF TypeInv, EventsOK, Free, Top
<1> QED
  BY <1>1, <1>3, <1>4, <1>5

LEMMA ReportEnds ==
  ASSUME TypeInv, EndInv, ~Free, Top.proc \in {"cancel", "fail"}, Top.step \notin {"close", "settle"},
         NEW step \in {"aborted", "error", "close"}, NEW kind \in Kinds, Publish(kind, To(step)),
         kind \in Ends => kind = "error" /\ step = "close", step = "close" => kind = "error",
         UNCHANGED <<complete, result, reentered>>
  PROVE  EndInv'
<1>1. Top.proc \in Callers /\ step \in {"deliver", "drain", "aborted", "error", "close", "settle"}
  BY DEF Callers
<1>2. PICK h : /\ h.step = step /\ h.proc = Top.proc
               /\ \A g : Innermost(To(step), g) <=> g = h
  BY <1>1, ToInnermost
<1>3. (\A g : Innermost(stack, g) <=> g = Top) /\ To(step) \in Seq(Frames)
  BY <1>1, ToInnermost
<1>4. CASE complete
  <2>1. emitted' = emitted
    BY <1>4 DEF Publish
  <2>2. \A kinds : EndedWith(kinds)' <=> EndedWith(kinds)
    BY <2>1 DEF EndedWith
  <2> QED
    BY <1>4, <2>1, <2>2 DEF EndInv
<1>5. CASE ~complete
  <2>1. ~\E f : Innermost(stack, f) /\ f.step \in {"close", "settle"}
    BY <1>3
  <2>2. kind \in Ends => \E f : Innermost(To(step), f) /\ f.step \in {"close", "settle"}
    BY <1>2
  <2>3. \A f : Innermost(To(step), f) =>
          (f.step = "close" => kind = "error") /\ (f.proc = "finish" => kind = "final")
    BY <1>2
  <2> QED
    BY <1>3, <1>5, <2>1, <2>2, <2>3, PublishEnds
<1> QED
  BY <1>4, <1>5

LEMMA ReportStepsEnd ==
  ASSUME TypeInv, EndInv, EngineEmit \/ CancelDrain \/ CancelReport \/ FailReport
  PROVE  EndInv'
<1>1. /\ "turn" \in Kinds /\ "drained" \in Kinds /\ "aborted" \in Kinds /\ "error" \in Kinds
      /\ "turn" \notin Ends /\ "drained" \notin Ends /\ "aborted" \notin Ends
  BY DEF Kinds, Ends
<1>2. UNCHANGED <<complete, result, reentered>>
  BY DEF EngineEmit, CancelDrain, CancelReport, FailReport
<1>3. CASE EngineEmit
  <2>1. stack = <<>> /\ Publish("turn", <<>>) /\ <<>> \in Seq(Frames)
    BY <1>3 DEF EngineEmit, Free
  <2>2. \A f : ~Innermost(<<>>, f)
    BY DEF Innermost
  <2>3. CASE complete
    <3>1. SameInnermost(stack, stack') /\ emitted' = emitted
      BY <2>1, <2>3 DEF Publish, SameInnermost
    <3> QED
      BY <1>2, <3>1, EndKept
  <2>4. CASE ~complete
    BY <1>1, <1>2, <2>1, <2>2, <2>4, PublishEnds
  <2> QED
    BY <2>3, <2>4
<1>4. CASE CancelDrain
  <2>1. ~Free /\ Top.proc = "cancel" /\ Top.step = "drain"
    BY <1>4 DEF CancelDrain, At
  <2>2. CASE stack' = To("aborted") /\ UNCHANGED emitted
    <3>1. Top.proc \in Callers
      BY <2>1 DEF Callers
    <3>2. PICK h : /\ h.step = "aborted" /\ h.proc = Top.proc
                   /\ \A g : Innermost(To("aborted"), g) <=> g = h
      BY <2>1, <3>1, ToInnermost
    <3>3. \A g : Innermost(stack, g) <=> g = Top
      BY <2>1, <3>1, ToInnermost
    <3>4. \A kinds : EndedWith(kinds)' <=> EndedWith(kinds)
      BY <2>2 DEF EndedWith
    <3>5. \A f : Innermost(stack', f) => f.step # "close" /\ f.proc # "finish"
      BY <2>1, <2>2, <3>2
    <3>6. reentered = 0 /\ ~complete => ~EndedWith(Ends)
      BY <2>1, <3>3 DEF EndInv
    <3>7. complete' => EndedWith(Ends)' /\ (EndedWith({"final"})' <=> result' = "resolved")
      BY <1>2, <3>4, Zenon DEF EndInv
    <3>8. reentered' = 0 => \A k \in 1..(Len(emitted') - 1) : emitted'[k] \notin Ends
      BY <1>2, <2>2 DEF EndInv
    <3> QED
      BY <1>2, <3>4, <3>5, <3>6, <3>7, <3>8, Zenon DEF EndInv
  <2>3. CASE Publish("drained", To("aborted"))
    BY <1>1, <1>2, <2>1, <2>3, ReportEnds
  <2> QED
    BY <1>4, <2>2, <2>3 DEF CancelDrain
<1>5. CASE CancelReport \/ FailReport
  <2>1. /\ ~Free /\ Top.proc \in {"cancel", "fail"} /\ Top.step \notin {"close", "settle"}
        /\ Publish("aborted", To("error")) \/ Publish("error", To("close"))
    BY <1>5 DEF CancelReport, FailReport, At
  <2>2. CASE Publish("aborted", To("error"))
    BY <1>1, <1>2, <2>1, <2>2, ReportEnds
  <2>3. CASE Publish("error", To("close"))
    BY <1>1, <1>2, <2>1, <2>3, ReportEnds
  <2> QED
    BY <2>1, <2>2, <2>3
<1> QED
  BY <1>3, <1>4, <1>5

\* The call on top closes the stream, unless it has been closed already.
LEMMA CloseStepsEnd ==
  ASSUME TypeInv, IInv, EndInv, CancelClose \/ Finish \/ FailClose
  PROVE  EndInv'
<1>1. ~Free /\ Top.proc \in Callers /\ UNCHANGED <<emitted, reentered>>
  BY DEF CancelClose, Finish, FailClose, At, Callers
<1>2. complete' = TRUE /\ complete \in BOOLEAN
  <2>1. Close /\ complete \in BOOLEAN
    BY DEF CancelClose, Finish, FailClose, TypeInv, FlagsOK
  <2> QED
    BY <2>1 DEF Close
<1>3. \A kinds : EndedWith(kinds)' <=> EndedWith(kinds)
  BY <1>1 DEF EndedWith
<1>4. result' = IF result = "pending"
                THEN IF Top.proc = "finish" THEN "resolved"
                     ELSE IF Top.proc = "cancel" THEN "cancelled" ELSE "rejected"
                ELSE result
  BY DEF CancelClose, Finish, FailClose, At, SettleResult
<1>5. complete <=> result # "pending"
  BY DEF IInv, HandleInv
<1>6. EndedWith(Ends) /\ (EndedWith({"final"}) <=> result' = "resolved")
  <2>1. CASE complete
    BY <1>4, <1>5, <2>1 DEF EndInv
  <2>2. CASE ~complete
    <3>1. Innermost(stack, Top)
      BY <1>1, ToInnermost
    <3>2. CASE Top.proc = "finish"
      <4>1. EndedWith({"final"})
        BY <2>2, <3>1, <3>2 DEF EndInv
      <4> QED
        BY <1>4, <1>5, <2>2, <3>2, <4>1 DEF EndedWith, Ends
    <3>3. CASE Top.proc # "finish"
      <4>1. Top.step = "close"
        BY <3>3 DEF CancelClose, Finish, FailClose, At
      <4>2. EndedWith({"error"})
        BY <2>2, <3>1, <4>1 DEF EndInv
      <4> QED
        BY <1>4, <1>5, <2>2, <3>3, <4>2 DEF EndedWith, Ends
    <3> QED
      BY <3>2, <3>3
  <2> QED
    BY <2>1, <2>2
<1>7. reentered' = 0 => \A k \in 1..(Len(emitted') - 1) : emitted'[k] \notin Ends
  BY <1>1 DEF EndInv
<1> QED
  BY <1>2, <1>3, <1>6, <1>7 DEF EndInv

\* Only publish() and replays begin, go on or end, and no event is added.
LEMMA CallbackStepsEnd ==
  ASSUME TypeInv, IInv, EndInv, Deliver \/ HandOver \/ Replay
                                \/ \E s \in Subscriber : Subscribe(s) \/ Unsubscribe(s)
  PROVE  EndInv'
<1>1. stack \in Seq(Frames) /\ Len(emitted) \in Nat /\ 0 \in 0..Len(emitted)
  BY DEF TypeInv, EventsOK
<1>2. "publish" \notin Callers /\ "replay" \notin Callers
  BY DEF Callers
<1>3. CASE Deliver
  <2>1. PICK s \in Subscriber :
          stack' = <<Frame("publish", Top.step, Top.event, Top.seen \cup {s})>> \o Rest
    BY <1>3 DEF Deliver
  <2>2. ~Free /\ Top.proc = "publish" /\ UNCHANGED <<emitted, complete, result, reentered>>
    BY <1>3 DEF Deliver
  <2> DEFINE f == Frame("publish", Top.step, Top.event, Top.seen \cup {s})
  <2>3. f.proc = Head(stack).proc /\ f.proc \notin Callers
    BY <1>2, <2>2 DEF Frame, Top
  <2>4. f \in Frames
    BY <1>1, <2>2, TopTyped, FrameTyped DEF Frames, TypeInv
  <2> HIDE DEF f
  <2>5. SameInnermost(stack, <<f>> \o Tail(stack))
    BY <1>1, <2>2, <2>3, <2>4, ReframedInnermost DEF Free
  <2> QED
    BY <2>1, <2>2, <2>5, EndKept DEF f, Rest
<1>4. ASSUME ~Free, Top.proc \notin Callers, stack' = Rest PROVE SameInnermost(stack, stack')
  BY <1>1, <1>4, PoppedInnermost DEF Free, Top, Rest, SameInnermost
<1>5. CASE HandOver
  <2>1. ~Free /\ Top.proc \notin Callers /\ stack' = Rest
        /\ UNCHANGED <<emitted, complete, result, reentered>>
    BY <1>2, <1>5 DEF HandOver, log
  <2> QED
    BY <1>4, <2>1, EndKept
<1>6. CASE Replay
  <2>1. ~Free /\ Top.proc = "replay" /\ UNCHANGED <<emitted, complete, result, reentered>>
    BY <1>6 DEF Replay
  <2>2. CASE Top.event < Len(emitted)
    <3> DEFINE f == Frame("replay", Top.step, Top.event + 1, Top.seen)
    <3>1. stack' = <<f>> \o Rest /\ Top.event + 1 \in 0..Len(emitted)
      BY <1>1, <1>6, <2>1, <2>2, TopTyped DEF Replay, TypeInv
    <3>2. f.proc = Head(stack).proc /\ f.proc \notin Callers
      BY <1>2, <2>1 DEF Frame, Top
    <3>3. f \in Frames
      BY <1>1, <2>1, <3>1, TopTyped, FrameTyped DEF Frames, TypeInv
    <3> HIDE DEF f
    <3>4. SameInnermost(stack, <<f>> \o Tail(stack))
      BY <1>1, <2>1, <3>2, <3>3, ReframedInnermost DEF Free
    <3> QED
      BY <2>1, <3>1, <3>4, EndKept DEF Rest
  <2>3. CASE ~(Top.event < Len(emitted))
    BY <1>2, <1>4, <1>6, <2>1, <2>3, EndKept DEF Replay
  <2> QED
    BY <2>2, <2>3
<1>7. ASSUME NEW s \in Subscriber, Subscribe(s) PROVE EndInv'
  <2> DEFINE f == Frame("replay", "deliver", 0, {s})
             t == <<f>> \o stack
  <2>1. stack' = t /\ UNCHANGED <<emitted, complete, result>>
    BY <1>7 DEF Subscribe
  <2>2. f \in Frames
    BY <1>1, FrameTyped DEF Frames
  <2>3. f.proc \notin Callers
    BY <1>2 DEF Frame
  <2> HIDE DEF f
  <2>4. \A g : Innermost(t, g) <=> Innermost(stack, g)
    BY <1>1, <2>2, <2>3, PushedInnermost
  <2> HIDE DEF t
  <2>5. SameInnermost(stack, stack')
    BY <2>1, <2>4 DEF SameInnermost
  <2> QED
    BY <1>7, <2>1, <2>5, EndKept, UserCodeCounts DEF Subscribe
<1>8. ASSUME NEW s \in Subscriber, Unsubscribe(s) PROVE EndInv'
  <2>1. SameInnermost(stack, stack') /\ UNCHANGED <<emitted, complete, result>>
    BY <1>8 DEF Unsubscribe, SameInnermost
  <2> QED
    BY <1>8, <2>1, EndKept, UserCodeCounts DEF Unsubscribe
<1> QED
  BY <1>3, <1>5, <1>6, <1>7, <1>8

\* A call that has published nothing yet.
LEMMA CallBegins ==
  ASSUME TypeInv, EndInv, NEW f \in Frames, f.proc \in Callers, f.step \notin {"close", "settle"},
         f.proc # "finish", stack' = <<f>> \o stack, UNCHANGED <<emitted, complete, result>>,
         reentered' = 0 => reentered = 0 /\ stack = <<>>
  PROVE  EndInv'
<1>1. \A g : Innermost(<<f>> \o stack, g) <=> g = f
  BY PushedInnermost DEF TypeInv, EventsOK
<1>2. \A g : Innermost(stack', g) <=> g = f
  BY <1>1
<1>3. \A kinds : EndedWith(kinds)' <=> EndedWith(kinds)
  BY DEF EndedWith
<1>4. reentered' = 0 =>
        reentered = 0 /\ \A g : ~Innermost(stack, g)
  BY DEF Innermost
<1>5. complete' => EndedWith(Ends)' /\ (EndedWith({"final"})' <=> result' = "resolved")
  BY <1>3, Zenon DEF EndInv
<1>6. ~complete' => \A g : Innermost(stack', g) =>
         /\ g.step = "close" => EndedWith({"error"})'
         /\ g.proc = "finish" => EndedWith({"final"})'
  BY <1>2
<1>7. reentered' = 0 => ~(EndedWith(Ends)' /\ ~complete')
  BY <1>3, <1>4, Zenon DEF EndInv
<1>8. reentered' = 0 => \A k \in 1..(Len(emitted') - 1) : emitted'[k] \notin Ends
  BY <1>4 DEF EndInv
<1> QED
  BY <1>5, <1>6, <1>7, <1>8 DEF EndInv

LEMMA CatchEnds ==
  ASSUME TypeInv, EndInv, Free, NEW error, Catch(error),
         UNCHANGED <<emitted, complete, result, reentered>>
  PROVE  EndInv'
<1>1. CASE stack' = stack
  <2>1. SameInnermost(stack, stack')
    BY <1>1 DEF SameInnermost
  <2> QED
    BY <2>1, EndKept
<1>2. CASE stack' # stack
  <2> DEFINE e == IF signal = "timeout" THEN "timeout" ELSE error
             f == Frame("fail", IF e = "error" THEN "error" ELSE "aborted", 0, {})
  <2>1. stack' = <<f>>
    BY <1>2 DEF Catch
  <2>2. f.proc = "fail" /\ f.step \notin {"close", "settle"}
    BY DEF Frame
  <2>3. f \in Frames
    <3>1. Len(emitted) \in Nat /\ 0 \in 0..Len(emitted)
      BY DEF TypeInv, EventsOK
    <3> QED
      BY <3>1, FrameTyped DEF Frames
  <2> HIDE DEF f
  <2>4. stack = <<>> /\ <<f>> = <<f>> \o stack /\ f.proc \in Callers
    BY <2>2 DEF Free, Callers
  <2> QED
    BY <2>1, <2>2, <2>3, <2>4, CallBegins
<1> QED
  BY <1>1, <1>2

\* The result of the run is there, and the final event is published.
LEMMA ResumeEvaluatedEnds ==
  ASSUME TypeInv, IInv, EndInv, ResumeEvaluated
  PROVE  EndInv'
<1>1. Free /\ UNCHANGED <<complete, result, reentered>>
  BY DEF ResumeEvaluated
<1>2. CASE status # "running"
  <2>1. UNCHANGED <<stack, emitted>>
    BY <1>2 DEF ResumeEvaluated
  <2>2. SameInnermost(stack, stack')
    BY <2>1 DEF SameInnermost
  <2> QED
    BY <1>1, <2>1, <2>2, EndKept
<1>3. CASE status = "running"
  <2> DEFINE f == Frame("finish", "settle", 0, {})
             t == <<f>> \o <<>>
  <2>1. Publish("final", <<f>>) /\ "final" \in Kinds
    BY <1>3 DEF ResumeEvaluated, Kinds
  <2>2. f \in Frames
    <3>1. Len(emitted) \in Nat /\ 0 \in 0..Len(emitted)
      BY DEF TypeInv, EventsOK
    <3> QED
      BY <3>1, FrameTyped DEF Frames
  <2>3. f.proc = "finish" /\ f.proc \in Callers /\ f.step = "settle"
    BY DEF Frame, Callers
  <2> HIDE DEF f
  <2>4. t = <<f>> /\ t \in Seq(Frames)
    BY <2>2
  <2>5. \A g : Innermost(t, g) <=> g = f
    <3>1. <<>> \in Seq(Frames)
      OBVIOUS
    <3>2. \A g : Innermost(t, g) <=> IF f.proc \in Callers THEN g = f ELSE Innermost(<<>>, g)
      BY <2>2, <3>1, PushedInnermost
    <3> HIDE DEF t
    <3> QED
      BY <2>3, <3>2
  <2>6. ~complete
    BY <1>3 DEF IInv, HandleInv
  <2>7. ~\E g : Innermost(stack, g) /\ g.step \in {"close", "settle"}
    BY <1>1 DEF Free, Innermost
  <2> HIDE DEF t
  <2>8. \A g : Innermost(t, g) => (g.step = "close" => "final" = "error") /\ (g.proc = "finish" => TRUE)
    BY <2>3, <2>5
  <2>9. \E g : Innermost(t, g) /\ g.step \in {"close", "settle"}
    BY <2>3, <2>5
  <2> QED
    BY <1>1, <2>1, <2>4, <2>6, <2>7, <2>8, <2>9, PublishEnds
<1> QED
  BY <1>2, <1>3

LEMMA EndStep ==
  ASSUME TypeInv, IInv, EndInv, [Next]_vars
  PROVE  EndInv'
<1>1. CASE TimeoutFires \/ OperationReturns \/ OperationThrows \/ AbortWins \/ ConsumerNext
           \/ UNCHANGED vars
  <2>1. UNCHANGED <<stack, emitted, complete, result, reentered>>
    BY <1>1 DEF TimeoutFires, OperationReturns, OperationThrows, AbortWins, ConsumerNext, vars, log
  <2>2. SameInnermost(stack, stack')
    BY <2>1 DEF SameInnermost
  <2> QED
    BY <2>1, <2>2, EndKept
<1>2. CASE CatchThrown \/ ResumeRan
  <2>1. Free /\ UNCHANGED <<emitted, complete, result, reentered>>
    BY <1>2 DEF CatchThrown, ResumeRan, log
  <2>2. CASE stack' = stack
    <3>1. SameInnermost(stack, stack')
      BY <2>2 DEF SameInnermost
    <3> QED
      BY <2>1, <3>1, EndKept
  <2>3. CASE \E error : Catch(error)
    BY <2>1, <2>3, CatchEnds
  <2> QED
    BY <1>2, <2>2, <2>3 DEF CatchThrown, ResumeRan
<1>3. CASE Cancel
  <2> DEFINE f == Frame("cancel", "drain", 0, {})
  <2>1. stack' = <<f>> \o stack /\ UNCHANGED <<emitted, complete, result>>
    BY <1>3 DEF Cancel, log
  <2>2. f \in Frames
    <3>1. Len(emitted) \in Nat /\ 0 \in 0..Len(emitted)
      BY DEF TypeInv, EventsOK
    <3> QED
      BY <3>1, FrameTyped DEF Frames
  <2>3. f.proc \in Callers /\ f.proc # "finish" /\ f.step \notin {"close", "settle"}
    BY DEF Frame, Callers
  <2> HIDE DEF f
  <2>4. reentered' = 0 => reentered = 0 /\ stack = <<>>
    BY <1>3, UserCodeCounts DEF Cancel
  <2> QED
    BY <2>1, <2>2, <2>3, <2>4, CallBegins
<1> QED
  BY <1>1, <1>2, <1>3, ReportStepsEnd, CloseStepsEnd, CallbackStepsEnd, ResumeEvaluatedEnds
     DEF Next, Internal, External, Finished

LEMMA InitEnds ==
  ASSUME Init
  PROVE  EndInv
<1>1. /\ complete = FALSE /\ emitted = <<>> /\ Len(emitted) = 0 /\ stack = <<>> /\ Len(stack) = 0
      /\ \A kinds : ~EndedWith(kinds)
  BY DEF Init, EndedWith
<1> QED
  BY <1>1 DEF EndInv, Innermost

LEMMA EndInvariance == Spec => [](TypeInv /\ EndInv)
<1>1. Init => EndInv
  BY InitEnds
<1>2. TypeInv /\ IInv /\ EndInv /\ [Next]_vars => EndInv'
  BY EndStep
<1> QED
  BY <1>1, <1>2, TypeInvariance, Invariance, PTL DEF Spec

\* However a stream came to its end - result, failure, timeout, cancel, or several of them
\* at once - its last event is a terminal one, final if and only if its result was resolved.
\* Only a cancel from a callback can make it the second one.
THEOREM TerminalLast == Spec => []TerminalEventLast
<1>1. TypeInv /\ EndInv => TerminalEventLast
  BY DEF EndInv, EndedWith, Ends, TerminalEventLast
<1> QED
  BY <1>1, EndInvariance, PTL

-----------------------------------------------------------------------------
(* All views of a stream agree                                             *)

Prefix(s) == \A k \in 1..Len(s) : s[k] = k

\* No publish() and no replay is in progress.
Settled(s) == ~Holds(s, "publish") /\ ~Holds(s, "replay")

\* What was delivered is a prefix of the events; the list has whom it should, each once.
DeliveredInOrder ==
  /\ Prefix(Yielded)
  /\ \A s \in Subscriber : Prefix(received[s])
  /\ \A s \in Subscriber : attached[s] = "no" => received[s] = <<>>
  /\ \A k \in 1..Len(subs) : attached[subs[k]] = "yes"
  /\ \A j, k \in 1..Len(subs) : subs[j] = subs[k] => j = k
  /\ ~complete => \A s \in Subscriber : attached[s] = "yes" => Occurs(s, subs)

\* How far every view is, between two deliveries, in a publish() and in a replay.
AllDelivered ==
  /\ Len(Yielded) = Len(emitted)
  /\ \A s \in Subscriber : attached[s] = "yes" => Len(received[s]) = Len(emitted)

PublishDelivers(frame) ==
  /\ frame.event = Len(emitted) /\ ~complete /\ Len(Yielded) = Len(emitted) - 1
  /\ \A s \in Subscriber : attached[s] = "yes" =>
       Len(received[s]) = IF s \in frame.seen THEN Len(emitted) ELSE Len(emitted) - 1

ReplayDelivers(frame) ==
  /\ Len(Yielded) = Len(emitted)
  /\ \A s \in Subscriber :
       /\ s \in frame.seen => attached[s] # "no" /\ Len(received[s]) = frame.event
       /\ attached[s] = "yes" /\ s \notin frame.seen => Len(received[s]) = Len(emitted)

\* Deliveries do not nest, and each view is as far as the one in progress implies.
ViewsInv ==
  /\ stack # <<>> => Settled(Rest)
  /\ DeliveredInOrder
  /\ Settled(stack) => AllDelivered
  /\ stack # <<>> /\ Top.proc = "publish" => PublishDelivers(Top)
  /\ stack # <<>> /\ Top.proc = "replay" => ReplayDelivers(Top)

\* After a step that leaves no delivery in progress, or begins or continues one.
LEMMA NowSettled ==
  ASSUME IsStack(stack'), Settled(stack)', DeliveredInOrder', AllDelivered'
  PROVE  ViewsInv'
<1>1. stack' # <<>> => /\ Settled(Rest)' /\ Top'.proc # "publish" /\ Top'.proc # "replay"
  BY Popped DEF Settled, Top, Rest
<1> QED
  BY <1>1 DEF ViewsInv

LEMMA NowDelivering ==
  ASSUME NEW f, NEW s, IsStack(s), Settled(s), stack' = <<f>> \o s, DeliveredInOrder',
         \/ f.proc = "publish" /\ PublishDelivers(f)'
         \/ f.proc = "replay" /\ ReplayDelivers(f)'
  PROVE  ViewsInv'
<1> DEFINE t == <<f>> \o s
<1>1. /\ t # <<>> /\ Head(t) = f /\ Tail(t) = s
      /\ \A proc : Holds(t, proc) <=> f.proc = proc \/ Holds(s, proc)
  BY Pushed
<1>2. stack' = t
  OBVIOUS
<1> HIDE DEF t
<1>3. Top' = f /\ Rest' = s /\ stack' # <<>>
  BY <1>1, <1>2 DEF Top, Rest
<1>4. ~Settled(stack)'
  BY <1>1, <1>2 DEF Settled
<1>5. Settled(Rest)'
  BY <1>3 DEF Settled
<1>6. (f.proc = "publish" => PublishDelivers(Top)') /\ (f.proc = "replay" => ReplayDelivers(Top)')
  BY <1>3 DEF PublishDelivers, ReplayDelivers
<1> QED
  BY <1>3, <1>4, <1>5, <1>6 DEF ViewsInv

LEMMA SettledTop ==
  ASSUME IInv, ViewsInv
  PROVE  /\ stack = <<>> => Settled(stack)
         /\ stack # <<>> /\ Top.proc \in Callers => Settled(stack)
         /\ stack # <<>> => Settled(Rest) /\ IsStack(Rest)
<1>1. stack = <<>> => Settled(stack)
  BY Emptied DEF Settled
<1>2. stack # <<>> => Settled(Rest) /\ IsStack(Rest)
  BY Popped DEF ViewsInv, IInv, StackInv, Rest
<1>3. ASSUME stack # <<>>, Top.proc \in Callers PROVE Settled(stack)
  <2>1. Top.proc # "publish" /\ Top.proc # "replay"
    BY <1>3 DEF Callers
  <2>2. \A proc : Holds(stack, proc) <=> Top.proc = proc \/ Holds(Rest, proc)
    BY <1>3, Popped DEF IInv, StackInv, Top, Rest
  <2> QED
    BY <1>2, <1>3, <2>1, <2>2 DEF Settled
<1> QED
  BY <1>1, <1>2, <1>3

\* A caller pushes its frame on settled calls, or moves on.
LEMMA CallerSettled ==
  ASSUME NEW s, IsStack(s), Settled(s), NEW f, f.proc \in Callers
  PROVE  IsStack(<<f>> \o s) /\ Settled(<<f>> \o s)
<1> DEFINE t == <<f>> \o s
<1>1. IsStack(t) /\ \A proc : Holds(t, proc) <=> f.proc = proc \/ Holds(s, proc)
  BY Pushed
<1>2. f.proc # "publish" /\ f.proc # "replay"
  BY DEF Callers
<1> HIDE DEF t
<1>3. Settled(t)
  BY <1>1, <1>2 DEF Settled
<1> QED
  BY <1>1, <1>3 DEF t

\* Nothing is delivered, and nobody comes or goes.
LEMMA ViewsKept ==
  ASSUME ViewsInv, Settled(stack), IsStack(stack'), Settled(stack)',
         UNCHANGED <<emitted, attached, received, pending, iterated>>,
         UNCHANGED <<subs, complete>> \/ (complete' /\ subs' \in {subs, <<>>})
  PROVE  ViewsInv'
<1>1. Yielded' = Yielded
  BY DEF Yielded
<1>2. AllDelivered'
  BY <1>1 DEF ViewsInv, AllDelivered
<1>3. DeliveredInOrder'
  <2>1. CASE UNCHANGED <<subs, complete>>
    BY <1>1, <2>1 DEF ViewsInv, DeliveredInOrder, Prefix, Occurs
  <2>2. CASE complete' /\ subs' = subs
    BY <1>1, <2>2 DEF ViewsInv, DeliveredInOrder, Prefix, Occurs
  <2>3. CASE complete' /\ subs' = <<>>
    <3>1. Len(subs') = 0 /\ 1..0 = {}
      BY <2>3
    <3> QED
      BY <1>1, <2>3, <3>1 DEF ViewsInv, DeliveredInOrder, Prefix
  <2> QED
    BY <2>1, <2>2, <2>3
<1> QED
  BY <1>2, <1>3, NowSettled

LEMMA PublishViews ==
  ASSUME TypeInv, ViewsInv, Settled(stack), NEW kind, NEW callers, IsStack(callers),
         Settled(callers), Publish(kind, callers), kind \in Kinds,
         UNCHANGED <<complete, subs, attached, received, pending, iterated>>
  PROVE  ViewsInv'
<1>1. CASE complete
  <2>1. stack' = callers /\ emitted' = emitted
    BY <1>1 DEF Publish
  <2>2. IsStack(stack') /\ Settled(stack)'
    BY <2>1 DEF Settled
  <2> QED
    BY <2>1, <2>2, ViewsKept
<1>2. CASE ~complete
  <2>0. PICK f : f = Frame("publish", "deliver", Len(emitted) + 1, {})
    OBVIOUS
  <2>1. emitted' = Append(emitted, kind) /\ stack' = <<f>> \o callers
    BY <1>2, <2>0 DEF Publish
  <2>2. f.proc = "publish" /\ f.event = Len(emitted) + 1 /\ f.seen = {}
    BY <2>0 DEF Frame
  <2>3. Len(emitted') = Len(emitted) + 1 /\ Len(emitted) \in Nat
    BY <2>1 DEF TypeInv, EventsOK
  <2>4. Yielded' = Yielded /\ AllDelivered
    BY DEF Yielded, ViewsInv
  <2>5. PublishDelivers(f)'
    BY <1>2, <2>2, <2>3, <2>4 DEF PublishDelivers, AllDelivered
  <2>6. DeliveredInOrder'
    BY <2>4 DEF ViewsInv, DeliveredInOrder, Prefix, Occurs
  <2> QED
    BY <2>1, <2>2, <2>5, <2>6, NowDelivering
<1> QED
  BY <1>1, <1>2

\* The next event is appended to a view that has all events before it.
LEMMA PrefixGrows ==
  ASSUME NEW n \in Nat, NEW s \in Seq(1..n), Prefix(s), NEW e \in 1..n, Len(s) = e - 1
  PROVE  Prefix(Append(s, e)) /\ Len(Append(s, e)) = e
<1> DEFINE t == Append(s, e)
<1>1. /\ Len(t) = Len(s) + 1 /\ Len(s) \in Nat
      /\ \A k \in 1..Len(s) : t[k] = s[k]
      /\ t[Len(s) + 1] = e
  BY AppendProperties
<1> HIDE DEF t
<1>2. \A k \in 1..Len(t) : k = e \/ k \in 1..Len(s)
  BY <1>1
<1>3. Prefix(t) /\ Len(t) = e
  BY <1>1, <1>2 DEF Prefix
<1> QED
  BY <1>3 DEF t

LEMMA DeliverViews ==
  ASSUME TypeInv, IInv, ViewsInv, Deliver
  PROVE  ViewsInv'
<1>1. PICK s \in Subscriber :
        /\ IsNext(s)
        /\ received' = [received EXCEPT ![s] = Append(@, Top.event)]
        /\ stack' = <<Frame("publish", Top.step, Top.event, Top.seen \cup {s})>> \o Rest
  BY DEF Deliver
<1>2. /\ stack # <<>> /\ Top.proc = "publish"
      /\ UNCHANGED <<emitted, complete, subs, attached, pending, iterated>>
  BY DEF Deliver, Free, iterator
<1>3. PICK f : f = Frame("publish", Top.step, Top.event, Top.seen \cup {s})
  OBVIOUS
<1>4. f.proc = "publish" /\ f.event = Top.event /\ f.seen = Top.seen \cup {s}
  BY <1>3 DEF Frame
<1>5. attached[s] = "yes" /\ s \notin Top.seen
  <2>1. PICK k \in DOMAIN subs : subs[k] \notin Top.seen /\ s = subs[k]
    BY <1>1 DEF IsNext, Unseen
  <2>2. DOMAIN subs = 1..Len(subs)
    BY DEF TypeInv, EventsOK
  <2> QED
    BY <2>1, <2>2 DEF ViewsInv, DeliveredInOrder
<1>6. PublishDelivers(Top) /\ DeliveredInOrder
  BY <1>2 DEF ViewsInv
<1>7. Top.event \in 1..Len(emitted) /\ Top.event = Len(emitted) /\ Len(emitted) \in Nat
  <2>1. Top.event \in 0..Len(emitted) /\ Top.event > 0 /\ Len(emitted) \in Nat
    BY <1>2, TopTyped DEF Free, TypeInv, EventsOK
  <2> QED
    BY <1>6, <2>1 DEF PublishDelivers
<1>8. /\ received[s] \in Seq(1..Len(emitted)) /\ Prefix(received[s])
      /\ Len(received[s]) = Top.event - 1
  BY <1>5, <1>6, <1>7 DEF TypeInv, EventsOK, PublishDelivers, DeliveredInOrder
<1>9. Prefix(Append(received[s], Top.event)) /\ Len(Append(received[s], Top.event)) = Top.event
  BY <1>7, <1>8, PrefixGrows
<1>10. /\ received'[s] = Append(received[s], Top.event)
       /\ \A t \in Subscriber : t # s => received'[t] = received[t]
  BY <1>1 DEF TypeInv, EventsOK
<1>11. Yielded' = Yielded
  BY <1>2 DEF Yielded
<1>12. DeliveredInOrder'
  <2>1. \A t \in Subscriber : Prefix(received'[t]) /\ (attached[t] = "no" => received'[t] = <<>>)
    BY <1>5, <1>6, <1>9, <1>10 DEF DeliveredInOrder
  <2>2. \A t : Occurs(t, subs') <=> Occurs(t, subs)
    BY <1>2
  <2> QED
    BY <1>2, <1>6, <1>11, <2>1, <2>2 DEF DeliveredInOrder
<1>13. \A t \in Subscriber : attached[t] = "yes" =>
         Len(received'[t]) = IF t \in f.seen THEN Len(emitted) ELSE Len(emitted) - 1
  BY <1>4, <1>6, <1>7, <1>9, <1>10 DEF PublishDelivers
<1>14. PublishDelivers(f)'
  BY <1>2, <1>4, <1>6, <1>11, <1>13 DEF PublishDelivers
<1>15. Settled(Rest) /\ IsStack(Rest)
  BY <1>2, SettledTop
<1>16. stack' = <<f>> \o Rest
  BY <1>1, <1>3
<1> QED
  BY <1>4, <1>12, <1>14, <1>15, <1>16, NowDelivering

\* All subscribers have been called when the iterator gets the event.
LEMMA HandOverViews ==
  ASSUME TypeInv, IInv, PlacedInv, ViewsInv, HandOver
  PROVE  ViewsInv'
<1>1. /\ ~Free /\ Top.proc = "publish" /\ stack' = Rest
      /\ Len(emitted) \in Nat /\ Top.event \in 1..Len(emitted)
      /\ Yielded \in Seq(1..Len(emitted)) /\ Yielded' = Append(Yielded, Top.event)
  BY HandOverYields
<1>2. UNCHANGED <<emitted, complete, subs, attached, received>> /\ Unseen = {}
  BY DEF HandOver, log
<1>3. PublishDelivers(Top) /\ DeliveredInOrder
  BY <1>1 DEF ViewsInv, Free
<1>4. Prefix(Yielded') /\ Len(Yielded') = Len(emitted)
  <2>1. Prefix(Yielded) /\ Len(Yielded) = Top.event - 1 /\ Top.event = Len(emitted)
    BY <1>3 DEF PublishDelivers, DeliveredInOrder
  <2>2. Prefix(Append(Yielded, Top.event)) /\ Len(Append(Yielded, Top.event)) = Top.event
    BY <1>1, <2>1, PrefixGrows
  <2> QED
    BY <1>1, <2>1, <2>2
<1>5. ASSUME NEW s \in Subscriber, attached[s] = "yes" PROVE Len(received[s]) = Len(emitted)
  <2>1. PICK k \in 1..Len(subs) : subs[k] = s
    BY <1>3, <1>5 DEF DeliveredInOrder, PublishDelivers, Occurs
  <2>2. DOMAIN subs = 1..Len(subs)
    BY DEF TypeInv, EventsOK
  <2>3. s \in Top.seen
    BY <1>2, <2>1, <2>2 DEF Unseen
  <2> QED
    BY <1>3, <1>5, <2>3 DEF PublishDelivers
<1>6. AllDelivered'
  BY <1>2, <1>4, <1>5 DEF AllDelivered
<1>7. DeliveredInOrder'
  BY <1>2, <1>3, <1>4 DEF DeliveredInOrder, Occurs
<1>8. IsStack(stack') /\ Settled(stack)'
  BY <1>1, SettledTop DEF Free, Settled
<1> QED
  BY <1>6, <1>7, <1>8, NowSettled

LEMMA ReplayViews ==
  ASSUME TypeInv, IInv, ViewsInv, Replay
  PROVE  ViewsInv'
<1>1. /\ stack # <<>> /\ Top.proc = "replay"
      /\ UNCHANGED <<emitted, complete, subs, attached, pending, iterated>>
  BY DEF Replay, Free, iterator
<1>2. ReplayDelivers(Top) /\ DeliveredInOrder
  BY <1>1 DEF ViewsInv
<1>3. Len(emitted) \in Nat /\ Top.event \in 0..Len(emitted)
  BY <1>1, TopTyped DEF TypeInv, EventsOK, Free
<1>4. Settled(Rest) /\ IsStack(Rest)
  BY <1>1, SettledTop
<1>5. Yielded' = Yielded
  BY <1>1 DEF Yielded
<1>6. CASE Top.event < Len(emitted)
  <2>1. /\ stack' = <<Frame("replay", Top.step, Top.event + 1, Top.seen)>> \o Rest
        /\ received' = [s \in Subscriber |->
             IF s \in Top.seen THEN Append(received[s], Top.event + 1) ELSE received[s]]
    BY <1>6 DEF Replay
  <2>2. PICK f : f = Frame("replay", Top.step, Top.event + 1, Top.seen)
    OBVIOUS
  <2>3. f.proc = "replay" /\ f.event = Top.event + 1 /\ f.seen = Top.seen
    BY <2>2 DEF Frame
  <2>4. Top.event + 1 \in 1..Len(emitted)
    BY <1>3, <1>6
  <2>5. ASSUME NEW s \in Subscriber, s \in Top.seen
        PROVE  /\ Prefix(received'[s]) /\ Len(received'[s]) = Top.event + 1
               /\ attached[s] # "no"
    <3>1. received[s] \in Seq(1..Len(emitted)) /\ Prefix(received[s])
      BY <1>2 DEF TypeInv, EventsOK, DeliveredInOrder
    <3>2. Len(received[s]) = (Top.event + 1) - 1 /\ attached[s] # "no"
      BY <1>2, <1>3, <2>5 DEF ReplayDelivers
    <3>3. /\ Prefix(Append(received[s], Top.event + 1))
          /\ Len(Append(received[s], Top.event + 1)) = Top.event + 1
      BY <1>3, <2>4, <3>1, <3>2, PrefixGrows
    <3> QED
      BY <2>1, <2>5, <3>2, <3>3
  <2>6. \A s \in Subscriber : s \notin Top.seen => received'[s] = received[s]
    BY <2>1
  <2>7. ReplayDelivers(f)'
    BY <1>1, <1>2, <1>5, <2>3, <2>5, <2>6 DEF ReplayDelivers
  <2>8. DeliveredInOrder'
    <3>1. \A s \in Subscriber : Prefix(received'[s]) /\ (attached[s] = "no" => received'[s] = <<>>)
      BY <1>2, <2>5, <2>6 DEF DeliveredInOrder
    <3>2. \A t : Occurs(t, subs') <=> Occurs(t, subs)
      BY <1>1
    <3> QED
      BY <1>1, <1>2, <1>5, <3>1, <3>2 DEF DeliveredInOrder
  <2> QED
    BY <1>4, <2>1, <2>2, <2>3, <2>7, <2>8, NowDelivering
<1>7. CASE ~(Top.event < Len(emitted))
  <2>1. stack' = Rest /\ UNCHANGED received
    BY <1>7 DEF Replay
  <2>2. Top.event = Len(emitted)
    BY <1>3, <1>7
  <2>3. AllDelivered'
    BY <1>1, <1>2, <1>5, <2>1, <2>2 DEF ReplayDelivers, AllDelivered
  <2>4. DeliveredInOrder'
    BY <1>1, <1>2, <1>5, <2>1 DEF DeliveredInOrder, Occurs
  <2>5. IsStack(stack') /\ Settled(stack)'
    BY <1>4, <2>1 DEF Settled
  <2> QED
    BY <2>3, <2>4, <2>5, NowSettled
<1> QED
  BY <1>6, <1>7

\* Steps of cancelRun(), execute() and the engine, which call publish() or deliver nothing.
LEMMA ReportViews ==
  ASSUME TypeInv, IInv, ViewsInv, EngineEmit \/ CancelDrain \/ CancelReport \/ FailReport
  PROVE  ViewsInv'
<1>1. "turn" \in Kinds /\ "drained" \in Kinds /\ "aborted" \in Kinds /\ "error" \in Kinds
  BY DEF Kinds
<1>2. UNCHANGED <<complete, subs, attached, received, pending, iterated>>
  BY DEF EngineEmit, CancelDrain, CancelReport, FailReport, iterator
<1>3. CASE EngineEmit
  <2>1. stack = <<>> /\ Settled(stack) /\ Publish("turn", <<>>)
    BY <1>3, SettledTop DEF EngineEmit, Free
  <2>2. IsStack(<<>>) /\ Settled(<<>>)
    BY Emptied DEF Settled
  <2> QED
    BY <1>1, <1>2, <2>1, <2>2, PublishViews
<1>4. ASSUME NEW step, ~Free, Top.proc \in {"cancel", "fail"}
      PROVE  Settled(stack) /\ IsStack(To(step)) /\ Settled(To(step))
  <2>1. stack # <<>> /\ Top.proc \in Callers
    BY <1>4 DEF Free, Callers
  <2>2. Settled(stack) /\ Settled(Rest) /\ IsStack(Rest)
    BY <2>1, SettledTop
  <2>3. PICK f : f = Frame(Top.proc, step, Top.event, Top.seen)
    OBVIOUS
  <2>4. f.proc \in Callers
    BY <2>1, <2>3 DEF Frame
  <2>5. IsStack(<<f>> \o Rest) /\ Settled(<<f>> \o Rest)
    BY <2>2, <2>4, CallerSettled
  <2> QED
    BY <2>2, <2>3, <2>5 DEF To
<1>5. CASE CancelDrain
  <2>1. Settled(stack) /\ IsStack(To("aborted")) /\ Settled(To("aborted"))
    BY <1>4, <1>5 DEF CancelDrain, At
  <2>2. CASE stack' = To("aborted") /\ UNCHANGED emitted
    <3>1. IsStack(stack') /\ Settled(stack)'
      BY <2>1, <2>2 DEF Settled
    <3> QED
      BY <1>2, <2>1, <2>2, <3>1, ViewsKept
  <2>3. CASE Publish("drained", To("aborted"))
    BY <1>1, <1>2, <2>1, <2>3, PublishViews
  <2> QED
    BY <1>5, <2>2, <2>3 DEF CancelDrain
<1>6. CASE CancelReport \/ FailReport
  <2>1. /\ ~Free /\ Top.proc \in {"cancel", "fail"}
        /\ Publish("aborted", To("error")) \/ Publish("error", To("close"))
    BY <1>6 DEF CancelReport, FailReport, At
  <2>2. /\ Settled(stack)
        /\ IsStack(To("error")) /\ Settled(To("error"))
        /\ IsStack(To("close")) /\ Settled(To("close"))
    BY <1>4, <2>1
  <2> QED
    BY <1>1, <1>2, <2>1, <2>2, PublishViews
<1> QED
  BY <1>3, <1>5, <1>6

LEMMA CloseViews ==
  ASSUME TypeInv, IInv, ViewsInv, CancelClose \/ Finish \/ FailClose
  PROVE  ViewsInv'
<1>1. /\ stack # <<>> /\ Top.proc \in Callers /\ stack' = Rest /\ Close
      /\ UNCHANGED <<emitted, attached, received, pending, iterated>>
  BY DEF CancelClose, Finish, FailClose, At, Free, Callers
<1>2. Settled(stack) /\ Settled(Rest) /\ IsStack(Rest)
  BY <1>1, SettledTop
<1>3. complete' /\ subs' \in {subs, <<>>}
  <2>1. complete \in BOOLEAN
    BY DEF TypeInv, FlagsOK
  <2>2. CASE complete
    BY <1>1, <2>2 DEF Close
  <2>3. CASE ~complete
    BY <1>1, <2>3 DEF Close
  <2> QED
    BY <2>2, <2>3
<1>4. IsStack(stack') /\ Settled(stack)'
  BY <1>1, <1>2 DEF Settled
<1> QED
  BY <1>1, <1>2, <1>3, <1>4, ViewsKept

\* A call that begins while the event loop is free.
LEMMA BeginViews ==
  ASSUME IInv, ViewsInv, stack = <<>>, NEW f, f.proc \in Callers, stack' = <<f>>,
         UNCHANGED <<emitted, complete, subs, attached, received, pending, iterated>>
  PROVE  ViewsInv'
<1>1. Settled(stack) /\ IsStack(stack)
  BY SettledTop DEF IInv, StackInv
<1>2. IsStack(<<f>> \o stack) /\ Settled(<<f>> \o stack)
  BY <1>1, CallerSettled
<1>3. <<f>> \o stack = <<f>>
  OBVIOUS
<1>4. IsStack(stack') /\ Settled(stack)'
  BY <1>2, <1>3 DEF Settled
<1> QED
  BY <1>1, <1>4, ViewsKept

LEMMA ExecuteViews ==
  ASSUME TypeInv, IInv, ViewsInv, CatchThrown \/ ResumeRan \/ ResumeEvaluated
  PROVE  ViewsInv'
<1>1. stack = <<>> /\ UNCHANGED <<complete, subs, attached, received, pending, iterated>>
  BY DEF CatchThrown, ResumeRan, ResumeEvaluated, Free, iterator, log
<1>2. Settled(stack) /\ IsStack(stack)
  BY <1>1, SettledTop DEF IInv, StackInv
<1>3. CASE UNCHANGED <<stack, emitted>>
  <2>1. IsStack(stack') /\ Settled(stack)'
    BY <1>2, <1>3 DEF Settled
  <2> QED
    BY <1>1, <1>2, <1>3, <2>1, ViewsKept
<1>4. ASSUME NEW error, Catch(error), emitted' = emitted, stack' # stack PROVE ViewsInv'
  <2>1. PICK f : f = Frame("fail", IF (IF signal = "timeout" THEN "timeout" ELSE error) = "error"
                                   THEN "error" ELSE "aborted", 0, {})
    OBVIOUS
  <2>2. stack' = <<f>>
    BY <1>4, <2>1 DEF Catch
  <2>3. f.proc \in Callers
    BY <2>1 DEF Frame, Callers
  <2> QED
    BY <1>1, <1>4, <2>2, <2>3, BeginViews
<1>5. CASE CatchThrown \/ ResumeRan
  <2>1. emitted' = emitted /\ (stack' = stack \/ \E error : Catch(error))
    BY <1>5 DEF CatchThrown, ResumeRan, log
  <2> QED
    BY <1>3, <1>4, <2>1
<1>6. CASE ResumeEvaluated /\ ~UNCHANGED <<stack, emitted>>
  <2>1. PICK f : f = Frame("finish", "settle", 0, {})
    OBVIOUS
  <2>2. Publish("final", <<f>>) /\ "final" \in Kinds
    BY <1>6, <2>1 DEF ResumeEvaluated, Kinds
  <2>3. f.proc \in Callers
    BY <2>1 DEF Frame, Callers
  <2>4. IsStack(<<f>> \o stack) /\ Settled(<<f>> \o stack)
    BY <1>2, <2>3, CallerSettled
  <2>5. <<f>> \o stack = <<f>>
    BY <1>1
  <2>6. IsStack(<<f>>) /\ Settled(<<f>>)
    BY <2>4, <2>5
  <2> QED
    BY <1>1, <1>2, <2>2, <2>6, PublishViews
<1> QED
  BY <1>3, <1>5, <1>6

\* The caller's own code, while no callback runs.
LEMMA SubscribeViews ==
  ASSUME TypeInv, IInv, ViewsInv, stack = <<>>, NEW s \in Subscriber, Subscribe(s)
  PROVE  ViewsInv'
<1>1. Settled(stack) /\ IsStack(stack) /\ AllDelivered /\ DeliveredInOrder
  BY SettledTop DEF IInv, StackInv, ViewsInv
<1>2. PICK f : f = Frame("replay", "deliver", 0, {s})
  OBVIOUS
<1>3. f.proc = "replay" /\ f.event = 0 /\ f.seen = {s}
  BY <1>2 DEF Frame
<1>4. /\ stack' = <<f>> \o stack /\ subs' = Append(subs, s)
      /\ attached' = [attached EXCEPT ![s] = "yes"] /\ attached[s] = "no"
      /\ UNCHANGED <<emitted, complete, received, pending, iterated>>
  BY <1>2 DEF Subscribe, iterator
<1>5. /\ attached'[s] = "yes"
      /\ \A t \in Subscriber : t # s => attached'[t] = attached[t]
  BY <1>4 DEF TypeInv, FlagsOK
<1>6. Yielded' = Yielded
  BY <1>4 DEF Yielded
<1>7. received[s] = <<>> /\ Len(received[s]) = 0
  BY <1>1, <1>4 DEF DeliveredInOrder
<1>8. ReplayDelivers(f)'
  BY <1>1, <1>3, <1>4, <1>5, <1>6, <1>7 DEF ReplayDelivers, AllDelivered
<1>9. /\ Len(subs') = Len(subs) + 1 /\ Len(subs) \in Nat /\ subs'[Len(subs) + 1] = s
      /\ \A k \in 1..Len(subs) : subs'[k] = subs[k] /\ subs[k] \in Subscriber
  BY <1>4, AppendProperties, ElementOfSeq DEF TypeInv, EventsOK
<1>10. \A k \in 1..Len(subs) : subs[k] # s
  BY <1>1, <1>4 DEF DeliveredInOrder
<1>11. \A k \in 1..Len(subs') : k = Len(subs) + 1 \/ k \in 1..Len(subs)
  BY <1>9
<1>12. \A k \in 1..Len(subs') : attached'[subs'[k]] = "yes"
  BY <1>1, <1>5, <1>9, <1>11 DEF DeliveredInOrder
<1>13. ASSUME NEW j \in 1..Len(subs'), NEW k \in 1..Len(subs'), subs'[j] = subs'[k]
       PROVE  j = k
  BY <1>1, <1>9, <1>10, <1>11, <1>13 DEF DeliveredInOrder
<1>14. \A t : Occurs(t, subs) \/ t = s => Occurs(t, subs')
  <2>1. Len(subs) + 1 \in 1..Len(subs') /\ 1..Len(subs) \subseteq 1..Len(subs')
    BY <1>9
  <2> QED
    BY <1>9, <2>1 DEF Occurs
<1>15. DeliveredInOrder'
  <2>1. \A t \in Subscriber : Prefix(received'[t]) /\ (attached'[t] = "no" => received'[t] = <<>>)
    BY <1>1, <1>4, <1>5 DEF DeliveredInOrder
  <2>2. ~complete' => \A t \in Subscriber : attached'[t] = "yes" => Occurs(t, subs')
    BY <1>1, <1>4, <1>5, <1>14 DEF DeliveredInOrder
  <2>3. Prefix(Yielded')
    BY <1>1, <1>6 DEF DeliveredInOrder
  <2> QED
    BY <1>12, <1>13, <2>1, <2>2, <2>3 DEF DeliveredInOrder
<1> QED
  BY <1>1, <1>3, <1>4, <1>8, <1>15, NowDelivering

LEMMA UnsubscribeViews ==
  ASSUME TypeInv, IInv, ViewsInv, stack = <<>>, NEW s \in Subscriber, Unsubscribe(s)
  PROVE  ViewsInv'
<1>1. Settled(stack) /\ IsStack(stack) /\ AllDelivered /\ DeliveredInOrder
  BY SettledTop DEF IInv, StackInv, ViewsInv
<1>2. /\ attached' = [attached EXCEPT ![s] = "gone"] /\ attached[s] = "yes"
      /\ UNCHANGED <<emitted, complete, received, stack, pending, iterated>>
  BY DEF Unsubscribe, iterator
<1>3. /\ attached'[s] = "gone"
      /\ \A t \in Subscriber : t # s => attached'[t] = attached[t]
  BY <1>2 DEF TypeInv, FlagsOK
<1>4. Yielded' = Yielded
  BY <1>2 DEF Yielded
<1>5. subs \in Seq(Subscriber) /\ Len(subs) \in Nat /\ \A k \in 1..Len(subs) : subs[k] \in Subscriber
  BY DEF TypeInv, EventsOK
<1>6. /\ \A k \in 1..Len(subs') : attached[subs'[k]] = "yes" /\ subs'[k] # s /\ subs'[k] \in Subscriber
      /\ \A j, k \in 1..Len(subs') : subs'[j] = subs'[k] => j = k
      /\ \A t : t # s /\ Occurs(t, subs) => Occurs(t, subs')
  <2>1. CASE subs' = subs /\ \A j \in 1..Len(subs) : subs[j] # s
    BY <1>1, <1>5, <2>1 DEF DeliveredInOrder
  <2>2. CASE \E k \in 1..Len(subs) : subs[k] = s /\ subs' = RemoveAt(subs, k)
    <3>0. PICK k \in 1..Len(subs) : subs[k] = s /\ subs' = RemoveAt(subs, k)
      BY <2>2
    <3>1. /\ Len(subs') = Len(subs) - 1
          /\ \A j \in 1..(Len(subs) - 1) : subs'[j] = IF j < k THEN subs[j] ELSE subs[j + 1]
      BY <1>5, <3>0, Removed
    <3>2. ASSUME NEW j \in 1..Len(subs')
          PROVE  \E i \in 1..Len(subs) : i # k /\ subs'[j] = subs[i] /\ i = IF j < k THEN j ELSE j + 1
      <4>1. CASE j < k
        <5>1. j \in 1..Len(subs)
          BY <1>5, <3>1
        <5> QED
          BY <3>1, <4>1, <5>1
      <4>2. CASE ~(j < k)
        <5>1. j + 1 \in 1..Len(subs) /\ j + 1 # k
          BY <1>5, <3>1, <4>2
        <5> QED
          BY <3>1, <4>2, <5>1
      <4> QED
        BY <4>1, <4>2
    <3>3. \A j \in 1..Len(subs') : attached[subs'[j]] = "yes" /\ subs'[j] # s /\ subs'[j] \in Subscriber
      BY <1>1, <1>5, <3>0, <3>2 DEF DeliveredInOrder
    <3>4. ASSUME NEW j \in 1..Len(subs'), NEW l \in 1..Len(subs'), subs'[j] = subs'[l] PROVE j = l
      <4>1. PICK i \in 1..Len(subs) : subs'[j] = subs[i] /\ i = IF j < k THEN j ELSE j + 1
        BY <3>2
      <4>2. PICK h \in 1..Len(subs) : subs'[l] = subs[h] /\ h = IF l < k THEN l ELSE l + 1
        BY <3>2
      <4>3. i = h
        BY <1>1, <3>4, <4>1, <4>2 DEF DeliveredInOrder
      <4> QED
        BY <4>1, <4>2, <4>3
    <3>5. ASSUME NEW t, t # s, Occurs(t, subs) PROVE Occurs(t, subs')
      <4>1. PICK i \in 1..Len(subs) : subs[i] = t
        BY <3>5 DEF Occurs
      <4>2. CASE i < k
        <5>1. i \in 1..Len(subs') /\ subs'[i] = t
          BY <1>5, <3>1, <4>1, <4>2
        <5> QED
          BY <5>1 DEF Occurs
      <4>3. CASE ~(i < k)
        <5>1. i - 1 \in 1..(Len(subs) - 1) /\ ~(i - 1 < k) /\ (i - 1) + 1 = i
          BY <1>5, <3>0, <3>5, <4>1, <4>3
        <5>2. i - 1 \in 1..Len(subs') /\ subs'[i - 1] = t
          BY <3>1, <4>1, <5>1
        <5> QED
          BY <5>2 DEF Occurs
      <4> QED
        BY <4>2, <4>3
    <3> QED
      BY <3>3, <3>4, <3>5
  <2> QED
    BY <1>5, <2>1, <2>2, Unsubscribed
<1>7. DeliveredInOrder'
  <2>1. \A t \in Subscriber : Prefix(received'[t]) /\ (attached'[t] = "no" => received'[t] = <<>>)
    BY <1>1, <1>2, <1>3 DEF DeliveredInOrder
  <2>2. ~complete' => \A t \in Subscriber : attached'[t] = "yes" => Occurs(t, subs')
    BY <1>1, <1>2, <1>3, <1>6 DEF DeliveredInOrder
  <2>3. Prefix(Yielded')
    BY <1>1, <1>4 DEF DeliveredInOrder
  <2>4. \A k \in 1..Len(subs') : attached'[subs'[k]] = "yes"
    BY <1>3, <1>6
  <2> QED
    BY <1>6, <2>1, <2>2, <2>3, <2>4 DEF DeliveredInOrder
<1>8. AllDelivered'
  BY <1>1, <1>2, <1>3, <1>4 DEF AllDelivered
<1>9. IsStack(stack') /\ Settled(stack)'
  BY <1>1, <1>2 DEF Settled
<1> QED
  BY <1>7, <1>8, <1>9, NowSettled

LEMMA OtherViews ==
  ASSUME TypeInv, IInv, ViewsInv, TimeoutFires \/ OperationReturns \/ OperationThrows \/ AbortWins
                                  \/ ConsumerNext \/ UNCHANGED vars
  PROVE  ViewsInv'
<1>1. UNCHANGED <<emitted, complete, subs, attached, received, stack>>
  BY DEF TimeoutFires, OperationReturns, OperationThrows, AbortWins, ConsumerNext, vars, log
<1>2. Yielded' = Yielded
  <2>1. CASE ConsumerNext
    BY <2>1, ConsumerYields
  <2>2. CASE UNCHANGED <<pending, iterated>>
    BY <2>2 DEF Yielded
  <2> QED
    BY <2>1, <2>2 DEF TimeoutFires, OperationReturns, OperationThrows, AbortWins, vars, iterator
<1>3. /\ UNCHANGED <<Top, Rest>> /\ (Settled(stack)' <=> Settled(stack))
      /\ stack' # <<>> => (Settled(Rest)' <=> Settled(Rest))
  BY <1>1 DEF Top, Rest, Settled
<1>4. DeliveredInOrder' <=> DeliveredInOrder
  BY <1>1, <1>2 DEF DeliveredInOrder
<1>5. AllDelivered' <=> AllDelivered
  BY <1>1, <1>2 DEF AllDelivered
<1>6. PublishDelivers(Top)' <=> PublishDelivers(Top)
  BY <1>1, <1>2, <1>3 DEF PublishDelivers
<1>7. ReplayDelivers(Top)' <=> ReplayDelivers(Top)
  BY <1>1, <1>2, <1>3 DEF ReplayDelivers
<1> QED
  BY <1>1, <1>3, <1>4, <1>5, <1>6, <1>7 DEF ViewsInv

LEMMA ViewsStep ==
  ASSUME TypeInv, IInv, PlacedInv, reentered = 0 => ViewsInv, [Next]_vars
  PROVE  reentered' = 0 => ViewsInv'
<1> SUFFICES ASSUME reentered' = 0 PROVE ViewsInv'
  OBVIOUS
<1>1. CASE Cancel \/ \E s \in Subscriber : Subscribe(s) \/ Unsubscribe(s)
  <2>1. UserCode
    BY <1>1 DEF Cancel, Subscribe, Unsubscribe
  <2>2. reentered = 0 /\ stack = <<>>
    BY <2>1, UserCodeCounts
  <2>3. CASE Cancel
    <3>1. PICK f : f = Frame("cancel", "drain", 0, {})
      OBVIOUS
    <3>2. f.proc \in Callers /\ stack' = <<f>> \o stack
      BY <2>3, <3>1 DEF Frame, Callers, Cancel
    <3>3. stack' = <<f>>
      BY <2>2, <3>2
    <3>4. UNCHANGED <<emitted, complete, subs, attached, received, pending, iterated>>
      BY <2>3 DEF Cancel, log, iterator
    <3> QED
      BY <2>2, <3>2, <3>3, <3>4, BeginViews
  <2> QED
    BY <1>1, <2>2, <2>3, SubscribeViews, UnsubscribeViews
<1>2. CASE \/ Internal \/ EngineEmit \/ OperationReturns \/ OperationThrows \/ TimeoutFires
           \/ ConsumerNext \/ Finished \/ UNCHANGED vars
  <2>1. reentered' = reentered
    BY <1>2 DEF Internal, Deliver, HandOver, Replay, CancelDrain, CancelReport, CancelClose,
       AbortWins, CatchThrown, ResumeRan, ResumeEvaluated, Finish, FailReport, FailClose,
       EngineEmit, OperationReturns, OperationThrows, TimeoutFires, ConsumerNext, Finished, vars
  <2> QED
    BY <1>2, <2>1, DeliverViews, HandOverViews, ReplayViews, ReportViews, CloseViews,
       ExecuteViews, OtherViews DEF Internal, Finished
<1> QED
  BY <1>1, <1>2 DEF Next, External

LEMMA InitViews ==
  ASSUME Init
  PROVE  ViewsInv
<1>1. /\ stack = <<>> /\ subs = <<>> /\ Len(subs) = 0 /\ emitted = <<>> /\ Len(emitted) = 0
      /\ Yielded = <<>> /\ Len(Yielded) = 0 /\ Settled(stack)
      /\ \A s \in Subscriber : attached[s] = "no" /\ received[s] = <<>> /\ Len(received[s]) = 0
  BY Emptied DEF Init, Yielded, Settled
<1>2. 1..0 = {}
  OBVIOUS
<1>3. DeliveredInOrder
  BY <1>1, <1>2 DEF DeliveredInOrder, Prefix
<1>4. AllDelivered
  BY <1>1 DEF AllDelivered
<1> QED
  BY <1>1, <1>3, <1>4 DEF ViewsInv

LEMMA ViewsInvariance == Spec => [](TypeInv /\ IInv /\ (reentered = 0 => ViewsInv))
<1>1. Init => ViewsInv
  BY InitViews
<1>2. TypeInv /\ IInv /\ PlacedInv /\ (reentered = 0 => ViewsInv) /\ [Next]_vars
        => (reentered = 0 => ViewsInv)'
  BY ViewsStep
<1> QED
  BY <1>1, <1>2, TypeInvariance, PlacedInvariance, Invariance, PTL DEF Spec

\* A view that is a prefix of all events and as long as they are is the list of all events.
LEMMA PrefixOfAll ==
  ASSUME NEW n \in Nat, NEW s \in Seq(1..n), Prefix(s)
  PROVE  /\ s = SubSeq([k \in 1..n |-> k], 1, Len(s))
         /\ Len(s) = n => s = [k \in 1..n |-> k]
<1> DEFINE all == [k \in 1..n |-> k]
<1>1. /\ all \in Seq(1..n) /\ Len(all) = n /\ \A k \in 1..n : all[k] = k
  OBVIOUS
<1>2. Len(s) \in Nat /\ \A k \in 1..Len(s) : s[k] = k /\ s[k] \in 1..n
  BY DEF Prefix
<1> HIDE DEF all
<1>3. \A k \in 1..Len(s) : k \in 1..n /\ all[k] \in 1..n
  BY <1>1, <1>2
<1> DEFINE part == SubSeq(all, 1, Len(s))
<1>4. /\ part \in Seq(1..n) /\ Len(part) = Len(s)
      /\ \A k \in 1..Len(s) : part[k] = all[k]
  <2>1. 1 \in Int /\ Len(s) \in Int /\ Len(s) - 1 + 1 = Len(s)
    BY <1>2
  <2>2. /\ part \in Seq(1..n) /\ Len(part) = IF 1 <= Len(s) THEN Len(s) - 1 + 1 ELSE 0
        /\ \A k \in 1..(Len(s) - 1 + 1) : part[k] = all[1 + k - 1]
    BY <1>3, <2>1, SubSeqProperties
  <2>3. \A k \in 1..Len(s) : 1 + k - 1 = k
    BY <1>2
  <2> HIDE DEF part
  <2> QED
    BY <1>2, <2>1, <2>2, <2>3
<1> HIDE DEF part
<1>5. s = part
  BY <1>1, <1>2, <1>3, <1>4, SeqEqual
<1>6. Len(s) = n => s = all
  BY <1>1, <1>2, <1>3, SeqEqual
<1> QED
  BY <1>5, <1>6 DEF part, all

LEMMA ViewsInvAgrees ==
  ASSUME TypeInv, IInv, reentered = 0 => ViewsInv
  PROVE  ViewsAgree
<1> SUFFICES ASSUME Free, reentered = 0
             PROVE  ViewsAgree!2
  BY DEF ViewsAgree
<1>1. AllDelivered /\ DeliveredInOrder
  BY SettledTop DEF ViewsInv, Free
<1>2. Len(emitted) \in Nat /\ Yielded \in Seq(1..Len(emitted))
      /\ \A s \in Subscriber : received[s] \in Seq(1..Len(emitted))
  BY ConcatProperties DEF Yielded, TypeInv, EventsOK
<1>3. \A s \in Subscriber :
        /\ received[s] = SubSeq(AllEvents, 1, Len(received[s]))
        /\ Len(received[s]) = Len(emitted) => received[s] = AllEvents
  BY <1>1, <1>2, PrefixOfAll DEF DeliveredInOrder, AllEvents
<1>4. Yielded = AllEvents
  BY <1>1, <1>2, PrefixOfAll DEF DeliveredInOrder, AllDelivered, AllEvents
<1> QED
  BY <1>1, <1>3, <1>4 DEF AllDelivered, Yielded

\* As long as no callback calls into the handle, a subscriber that is attached has got
\* every event once and in order, however late it came; one that has left has got the
\* first ones; and so has the iterator, with what is queued for it.
THEOREM ViewsAreOne == Spec => []ViewsAgree
<1>1. TypeInv /\ IInv /\ (reentered = 0 => ViewsInv) => ViewsAgree
  BY ViewsInvAgrees
<1> QED
  BY <1>1, ViewsInvariance, PTL
=============================================================================
