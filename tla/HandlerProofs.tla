---------------------------- MODULE HandlerProofs ----------------------------
(****************************************************************************)
(* Theorems about the programs that live in their signal handlers, for all  *)
(* values of their constants: the parent of cw04/zad2 and its children      *)
(* (WorkPermits), and the programs of cw04/zad1 that Ctrl-Z stops and       *)
(* continues (StopContinue).                                                *)
(****************************************************************************)
EXTENDS WorkPermits, StopContinue, SequenceTheorems, FiniteSetTheorems, TLAPS

-----------------------------------------------------------------------------
(* The parent and the children of cw04/zad2: signals and handlers.          *)

(* All the sets the flag is looked for in are finite.                       *)
LEMMA FiniteParts ==
    ASSUME TypeOK, NEW numbers
    PROVE  /\ IsFiniteSet(Signallers) /\ Cardinality(Signallers) \in Nat
           /\ IsFiniteSet(Workers) /\ Cardinality(Workers) \in Nat
           /\ IsFiniteSet(Pending(numbers)) /\ Cardinality(Pending(numbers)) \in Nat
           /\ IsFiniteSet(Running(numbers)) /\ Cardinality(Running(numbers)) \in Nat
  <1>1. /\ Signallers \subseteq Children /\ Workers \subseteq Children
        /\ Pending(numbers) \subseteq pending /\ Running(numbers) \subseteq 1..Len(frames)
    BY DEF Signallers, Workers, Pending, Running
  <1>2. IsFiniteSet(Children) /\ IsFiniteSet(pending) /\ IsFiniteSet(1..Len(frames))
    <2>1. Len(frames) \in Int
      BY DEF TypeOK
    <2>2. IsFiniteSet(1..Len(frames))
      BY <2>1, FS_Interval
    <2> QED
      BY <2>2, WorkPermitsAssumption DEF TypeOK
  <1> QED
    BY <1>1, <1>2, FS_Subset, FS_CardinalityType

(* A handler that begins is one more running handler.                       *)
LEMMA FramePushed ==
    ASSUME TypeOK, NEW f \in Frames, frames' = Append(frames, f), NEW numbers
    PROVE  /\ frames' \in Seq(Frames) /\ Len(frames') = Len(frames) + 1
           /\ \A i \in 1..Len(frames) : frames'[i] = frames[i]
           /\ frames'[Len(frames) + 1] = f
           /\ Cardinality(Running(numbers)') =
                IF f.signal.number \in numbers THEN Cardinality(Running(numbers)) + 1
                                               ELSE Cardinality(Running(numbers))
  <1> DEFINE m == Len(frames)
  <1>1. /\ frames \in Seq(Frames) /\ m \in Nat
        /\ frames' \in Seq(Frames) /\ Len(frames') = m + 1
        /\ \A i \in 1..m : frames'[i] = frames[i]
        /\ frames'[m + 1] = f
    BY AppendProperties DEF TypeOK
  <1> HIDE DEF m
  <1>2. m + 1 \notin Running(numbers) /\ \A i \in Running(numbers) : i \in 1..m
    BY <1>1 DEF Running, m
  <1>3. Running(numbers)' = IF f.signal.number \in numbers
                            THEN Running(numbers) \union {m + 1} ELSE Running(numbers)
    <2>1. \A i : i \in 1..(m + 1) <=> i \in 1..m \/ i = m + 1
      BY <1>1
    <2>2. \A i : i \in Running(numbers) <=> i \in 1..m /\ frames[i].signal.number \in numbers
      BY DEF Running, m
    <2>3. \A i : i \in Running(numbers)' <=>
              i \in 1..(m + 1) /\ frames'[i].signal.number \in numbers
      BY <1>1 DEF Running
    <2> QED
      BY <1>1, <2>1, <2>2, <2>3
  <1>4. IsFiniteSet(Running(numbers))
    BY FiniteParts
  <1>5. CASE f.signal.number \in numbers
    <2>1. Running(numbers)' = Running(numbers) \union {m + 1} /\ m + 1 \notin Running(numbers)
      BY <1>2, <1>3, <1>5
    <2>2. Cardinality(Running(numbers)') = Cardinality(Running(numbers)) + 1
      BY <1>4, <2>1, FS_AddElement
    <2> QED
      BY <1>1, <1>5, <2>2 DEF m
  <1>6. CASE f.signal.number \notin numbers
    BY <1>1, <1>3, <1>6 DEF m
  <1> QED
    BY <1>5, <1>6

(* A handler that returns is one less.                                      *)
LEMMA FramePopped ==
    ASSUME TypeOK, frames # <<>>, Return, NEW numbers
    PROVE  /\ frames' \in Seq(Frames) /\ Len(frames') = Len(frames) - 1
           /\ \A i \in 1..Len(frames') : /\ i \in 1..Len(frames) /\ i # Len(frames)
                                         /\ frames'[i] = frames[i]
           /\ Cardinality(Running(numbers)') =
                IF Top.signal.number \in numbers THEN Cardinality(Running(numbers)) - 1
                                                 ELSE Cardinality(Running(numbers))
  <1> DEFINE m == Len(frames)
  <1>1. frames \in Seq(Frames) /\ m \in Nat /\ m > 0
    BY DEF TypeOK
  <1>2. /\ frames' \in Seq(Frames) /\ Len(frames') = m - 1
        /\ \A i \in 1..(m - 1) : frames'[i] = frames[i]
    <2>1. \A i \in 1..(m - 1) : frames[i] \in Frames
      BY <1>1
    <2>2. frames' = SubSeq(frames, 1, m - 1) /\ m - 1 \in Int
      BY <1>1 DEF Return
    <2> HIDE DEF m
    <2>3. /\ SubSeq(frames, 1, m - 1) \in Seq(Frames)
          /\ Len(SubSeq(frames, 1, m - 1)) = IF 1 <= m - 1 THEN (m - 1) - 1 + 1 ELSE 0
          /\ \A i \in 1..((m - 1) - 1 + 1) : SubSeq(frames, 1, m - 1)[i] = frames[1 + i - 1]
      BY <2>1, <2>2, SubSeqProperties
    <2>4. (m - 1) - 1 + 1 = m - 1 /\ \A i \in 1..(m - 1) : 1 + i - 1 = i
      BY <1>1
    <2> QED
      BY <1>1, <2>2, <2>3, <2>4
  <1>3. Running(numbers)' = Running(numbers) \ {m}
    <2>1. \A i : i \in 1..(m - 1) <=> i \in 1..m /\ i # m
      BY <1>1
    <2> QED
      BY <1>1, <1>2, <2>1 DEF Running
  <1>4. m \in Running(numbers) <=> Top.signal.number \in numbers
    BY <1>1 DEF Running, Top
  <1>5. \A i \in 1..(m - 1) : i \in 1..m /\ i # m
    BY <1>1
  <1>6. Cardinality(Running(numbers)') =
            IF Top.signal.number \in numbers THEN Cardinality(Running(numbers)) - 1
                                             ELSE Cardinality(Running(numbers))
    BY <1>3, <1>4, FiniteParts, FS_RemoveElement
  <1> QED
    BY <1>2, <1>5, <1>6

(* The innermost handler goes on.                                           *)
LEMMA FrameMoved ==
    ASSUME TypeOK, frames # <<>>, NEW f \in Frames, f.signal = Top.signal,
           frames' = [frames EXCEPT ![Len(frames)] = f], NEW numbers
    PROVE  /\ frames' \in Seq(Frames)
           /\ Running(numbers)' = Running(numbers)
  <1>1. frames \in Seq(Frames) /\ Len(frames) \in 1..Len(frames)
    BY DEF TypeOK
  <1>2. /\ frames' \in Seq(Frames) /\ Len(frames') = Len(frames)
        /\ \A i \in 1..Len(frames) : frames'[i] = IF i = Len(frames) THEN f ELSE frames[i]
    BY <1>1, ExceptSeq
  <1> QED
    BY <1>2 DEF Running, Top

(* Whatever signal a child sends, the pending signals keep their shape.     *)
LEMMA SignalShape ==
    ASSUME TypeOK, NEW number \in RealTime \union Guarded, NEW c \in Children,
           Signal(number, c)
    PROVE  pending' \subseteq Signals /\ IsFiniteSet(pending')
  <1> DEFINE s == [number |-> number, from |-> c]
  <1>1. s \in Signals
    BY DEF Signals
  <1>2. pending' = pending \/ pending' = pending \union {s}
    BY DEF Signal
  <1> HIDE DEF s
  <1> QED
    BY <1>1, <1>2, FS_AddElement DEF TypeOK

(* A signal of which none is pending, or a real-time signal, is one more.   *)
LEMMA SignalSent ==
    ASSUME TypeOK, NEW number \in RealTime \union Guarded, NEW c \in Children,
           Signal(number, c), NEW numbers,
           number \in numbers =>
               \/ \A s \in pending : s.number # number
               \/ number \in RealTime /\ [number |-> number, from |-> c] \notin pending
    PROVE  Cardinality(Pending(numbers)') =
             IF number \in numbers THEN Cardinality(Pending(numbers)) + 1
                                   ELSE Cardinality(Pending(numbers))
  <1> DEFINE s == [number |-> number, from |-> c]
  <1>1. s \in Signals /\ s.number = number
    BY DEF Signals
  <1>2. pending' = pending \/ pending' = pending \union {s}
    BY DEF Signal
  <1>3. number \in numbers => pending' = pending \union {s} /\ s \notin pending
    BY <1>1 DEF Signal
  <1> HIDE DEF s
  <1>4. CASE number \in numbers
    <2>1. Pending(numbers)' = Pending(numbers) \union {s} /\ s \notin Pending(numbers)
      BY <1>1, <1>3, <1>4 DEF Pending
    <2> QED
      BY <1>4, <2>1, FiniteParts, FS_AddElement
  <1>5. CASE number \notin numbers
    <2>1. Pending(numbers)' = Pending(numbers)
      BY <1>1, <1>2, <1>5 DEF Pending
    <2> QED
      BY <1>5, <2>1
  <1> QED
    BY <1>4, <1>5

(* A signal that is caught is pending no more.                              *)
LEMMA SignalCaught ==
    ASSUME TypeOK, NEW s \in pending, pending' = pending \ {s}, NEW numbers
    PROVE  /\ pending' \subseteq Signals /\ IsFiniteSet(pending')
           /\ Cardinality(Pending(numbers)') =
                IF s.number \in numbers THEN Cardinality(Pending(numbers)) - 1
                                        ELSE Cardinality(Pending(numbers))
  <1>1. Pending(numbers)' = Pending(numbers) \ {s}
    BY DEF Pending
  <1>2. s \in Pending(numbers) <=> s.number \in numbers
    BY DEF Pending
  <1> QED
    BY <1>1, <1>2, FiniteParts, FS_RemoveElement DEF TypeOK

(* Where a child is decides whether it is about to signal.                  *)
LEMMA ChildMoved ==
    ASSUME TypeOK, NEW c \in Children, NEW to, child' = [child EXCEPT ![c] = to]
    PROVE  /\ child[c] \notin {"ask", "exit"} /\ to \in {"ask", "exit"} =>
                 Cardinality(Signallers') = Cardinality(Signallers) + 1
           /\ child[c] \in {"ask", "exit"} /\ to \notin {"ask", "exit"} =>
                 Cardinality(Signallers') = Cardinality(Signallers) - 1
           /\ child[c] \notin {"ask", "exit"} /\ to \notin {"ask", "exit"} =>
                 Signallers' = Signallers
  <1>1. Signallers' = IF to \in {"ask", "exit"} THEN Signallers \union {c}
                                                ELSE Signallers \ {c}
    BY DEF TypeOK, Signallers
  <1>2. c \in Signallers <=> child[c] \in {"ask", "exit"}
    BY DEF Signallers
  <1>3. c \notin Signallers => Signallers \ {c} = Signallers
    OBVIOUS
  <1> QED
    BY <1>1, <1>2, <1>3, FiniteParts, FS_AddElement, FS_RemoveElement

(* The same for the handler of a child.                                     *)
LEMMA HandlerMoved ==
    ASSUME TypeOK, NEW c \in Children, NEW to, handler' = [handler EXCEPT ![c] = to]
    PROVE  /\ handler[c] \notin {"work", "post"} /\ to \in {"work", "post"} =>
                 Cardinality(Workers') = Cardinality(Workers) + 1
           /\ handler[c] \in {"work", "post"} /\ to \notin {"work", "post"} =>
                 Cardinality(Workers') = Cardinality(Workers) - 1
           /\ (handler[c] \in {"work", "post"} <=> to \in {"work", "post"}) =>
                 Workers' = Workers
  <1>1. Workers' = IF to \in {"work", "post"} THEN Workers \union {c} ELSE Workers \ {c}
    BY DEF TypeOK, Workers
  <1>2. c \in Workers <=> handler[c] \in {"work", "post"}
    BY DEF Workers
  <1>3. /\ c \notin Workers => Workers \ {c} = Workers
        /\ c \in Workers => Workers \union {c} = Workers
    OBVIOUS
  <1> QED
    BY <1>1, <1>2, <1>3, FiniteParts, FS_AddElement, FS_RemoveElement

-----------------------------------------------------------------------------
(* The flag.                                                                *)

(* A frame of which only the place, the reading or the allowances change is *)
(* one of the same signal.                                                  *)
LEMMA TopIsFrame ==
    ASSUME TypeOK, frames # <<>>
    PROVE  /\ Len(frames) \in 1..Len(frames) /\ Top \in Frames /\ Top = frames[Len(frames)]
           /\ Top.signal \in Signals
  <1>1. frames \in Seq(Frames) /\ Len(frames) \in 1..Len(frames)
    BY DEF TypeOK
  <1>2. Top = frames[Len(frames)] /\ Top \in Frames
    BY <1>1 DEF Top
  <1> QED
    BY <1>1, <1>2 DEF Frames

(* The state keeps its shape.                                               *)
LEMMA NextTypeOK == TypeOK /\ [Next]_vars => TypeOK'
  <1> SUFFICES ASSUME TypeOK, [Next]_vars PROVE TypeOK'
    OBVIOUS
  <1> USE WorkPermitsAssumption DEF vars, parentVars, childVars, counters
  <1>1. CASE P_Post \/ P_Check \/ P_Pause \/ P_KillAll
    BY <1>1 DEF P_Post, P_Check, P_Pause, P_KillAll, P_Goto, SemPost, TypeOK
  <1>2. CASE P_Interrupted
    <2>1. PICK s \in pending :
              /\ pending' = pending \ {s}
              /\ frames' = Append(frames, [signal |-> s, place |-> "begin",
                                           allow |-> <<>>, read |-> 0])
              /\ parent' = IF parent = "pause" /\ frames = <<>> THEN "check" ELSE parent
              /\ UNCHANGED <<flag, counters, allowed, childVars>>
      BY <1>2 DEF P_Interrupted
    <2>2. [signal |-> s, place |-> "begin", allow |-> <<>>, read |-> 0] \in Frames
      BY DEF Frames, TypeOK
    <2>3. frames' \in Seq(Frames) /\ pending' \subseteq Signals /\ IsFiniteSet(pending')
      BY <2>1, <2>2, FramePushed, SignalCaught
    <2> QED
      BY <2>1, <2>3 DEF TypeOK
  <1>3. CASE U_Count
    <2> DEFINE c == Top.signal.from
               asked == IF k < K THEN Append(childBuf, c) ELSE childBuf
               a == CASE k + 1 > K -> <<c>> [] k + 1 = K -> asked [] OTHER -> <<>>
               f == [Top EXCEPT !.place = "allow", !.allow = a]
    <2>1. /\ frames # <<>> /\ k' = k + 1 /\ childBuf' = asked
          /\ frames' = [frames EXCEPT ![Len(frames)].place = "allow",
                                      ![Len(frames)].allow = a]
          /\ UNCHANGED <<flag, K, n, parent, pending, allowed, childVars>>
      BY <1>3 DEF U_Count, InHandler
    <2>2. c \in Children
      BY <2>1, TopIsFrame DEF Signals
    <2>3. asked \in Seq(Children)
      BY <2>2 DEF TypeOK
    <2>4. a \in Seq(Children)
      BY <2>2, <2>3 DEF TypeOK
    <2> HIDE DEF a, asked, c
    <2>5. f \in Frames /\ f.signal = Top.signal
      BY <2>1, <2>4, TopIsFrame DEF Frames
    <2>6. frames' = [frames EXCEPT ![Len(frames)] = f]
      BY <2>1, TopIsFrame
    <2> HIDE DEF f
    <2>7. frames' \in Seq(Frames)
      BY <2>1, <2>5, <2>6, FrameMoved
    <2> QED
      BY <2>1, <2>3, <2>7 DEF TypeOK
  <1>4. CASE U_Allow
    <2> DEFINE f == [Top EXCEPT !.allow = Tail(@)]
    <2>1. /\ frames # <<>> /\ Top.allow # <<>>
          /\ allowed' = allowed \union {Head(Top.allow)}
          /\ frames' = [frames EXCEPT ![Len(frames)].allow = Tail(@)]
          /\ UNCHANGED <<flag, counters, parent, pending, childVars>>
      BY <1>4 DEF U_Allow, InHandler
    <2>2. Top.allow \in Seq(Children)
      BY <2>1, TopIsFrame DEF Frames
    <2>3. Head(Top.allow) \in Children /\ Tail(Top.allow) \in Seq(Children)
      BY <2>1, <2>2, HeadTailProperties
    <2>4. f \in Frames /\ f.signal = Top.signal
      BY <2>1, <2>3, TopIsFrame DEF Frames
    <2>5. frames' = [frames EXCEPT ![Len(frames)] = f]
      BY <2>1, TopIsFrame
    <2> HIDE DEF f
    <2>6. frames' \in Seq(Frames)
      BY <2>1, <2>4, <2>5, FrameMoved
    <2> QED
      BY <2>1, <2>3, <2>6 DEF TypeOK
  <1>5. CASE U_Post \/ X_Post
    <2>1. frames # <<>> /\ Return /\ flag' = flag + 1
          /\ UNCHANGED <<counters, parent, pending, allowed, childVars>>
      BY <1>5 DEF U_Post, X_Post, InHandler, SemPost
    <2>2. frames' \in Seq(Frames)
      BY <2>1, FramePopped
    <2> QED
      BY <2>1, <2>2 DEF TypeOK
  <1>6. CASE R_Load
    <2> DEFINE f == [Top EXCEPT !.place = "store", !.read = n]
    <2>1. /\ frames # <<>>
          /\ frames' = [frames EXCEPT ![Len(frames)].place = "store",
                                      ![Len(frames)].read = n]
          /\ UNCHANGED <<flag, counters, parent, pending, allowed, childVars>>
      BY <1>6 DEF R_Load, InHandler
    <2>2. f \in Frames /\ f.signal = Top.signal
      BY <2>1, TopIsFrame DEF Frames, TypeOK
    <2>3. frames' = [frames EXCEPT ![Len(frames)] = f]
      BY <2>1, TopIsFrame
    <2> HIDE DEF f
    <2>4. frames' \in Seq(Frames)
      BY <2>1, <2>2, <2>3, FrameMoved
    <2> QED
      BY <2>1, <2>4 DEF TypeOK
  <1>7. CASE R_Store
    <2>1. /\ frames # <<>> /\ Return /\ n' = Top.read + 1
          /\ UNCHANGED <<flag, K, k, childBuf, parent, pending, allowed, childVars>>
      BY <1>7 DEF R_Store, InHandler
    <2>2. frames' \in Seq(Frames) /\ Top.read \in Nat
      BY <2>1, FramePopped, TopIsFrame DEF Frames
    <2> QED
      BY <2>1, <2>2 DEF TypeOK
  <1>8. ASSUME NEW c \in Children, ChildStep(c) PROVE TypeOK'
    <2>1. CASE C_WaitToAsk(c) \/ C_WaitToLeave(c) \/ C_Pause(c)
      <3>1. PICK to \in {"ask", "pause", "exit"} : child' = [child EXCEPT ![c] = to]
        BY <2>1 DEF C_WaitToAsk, C_WaitToLeave, C_Pause, C_Goto
      <3>2. child' \in [Children -> {"sleep", "ask", "asked", "pause", "leave", "exit", "exited"}]
        BY <3>1 DEF TypeOK
      <3>3. flag' \in Nat /\ UNCHANGED <<parentVars, pending, allowed, handler, drawn>>
        BY <2>1 DEF C_WaitToAsk, C_WaitToLeave, C_Pause, C_Goto, SemWait, TypeOK
      <3> QED
        BY <3>2, <3>3 DEF TypeOK, parentVars, counters
    <2>2. CASE C_Ask(c) \/ C_Exit(c)
      <3>1. PICK number \in Guarded : Signal(number, c)
        BY <2>2 DEF C_Ask, C_Exit, Guarded
      <3>2. pending' \subseteq Signals /\ IsFiniteSet(pending')
        BY <3>1, SignalShape
      <3> QED
        BY <2>2, <3>2 DEF C_Ask, C_Exit, C_Goto, TypeOK
    <2>3. CASE H_Allowed(c)
      BY <2>3 DEF H_Allowed, H_Goto, TypeOK
    <2>4. CASE H_Wait(c) \/ H_Post(c)
      BY <2>4 DEF H_Wait, H_Post, H_Goto, SemWait, SemPost, TypeOK
    <2>5. CASE H_Work(c)
      <3>1. PICK number \in RealTime :
               /\ Signal(number, c)
               /\ drawn' = [d \in DOMAIN drawn \union {c} |-> IF d = c THEN number
                                                                     ELSE drawn[d]]
        BY <2>5 DEF H_Work
      <3>2. pending' \subseteq Signals /\ IsFiniteSet(pending')
        BY <3>1, SignalShape
      <3>3. DOMAIN drawn' \subseteq Children /\ drawn' \in [DOMAIN drawn' -> RealTime]
        BY <3>1 DEF TypeOK
      <3> QED
        BY <2>5, <3>2, <3>3 DEF H_Work, H_Goto, TypeOK
    <2> QED
      BY <1>8, <2>1, <2>2, <2>3, <2>4, <2>5 DEF ChildStep
  <1>9. CASE UNCHANGED vars
    BY <1>9 DEF TypeOK
  <1> QED
    BY <1>1, <1>2, <1>3, <1>4, <1>5, <1>6, <1>7, <1>8, <1>9 DEF Next, ParentStep

(* At the start the parent has the flag.                                    *)
LEMMA InitFlag == Init => TypeOK /\ FlagIsPassedOn
  <1> SUFFICES ASSUME Init PROVE TypeOK /\ FlagIsPassedOn
    OBVIOUS
  <1>1. /\ Signallers = {} /\ Workers = {} /\ Pending(Guarded) = {}
        /\ Running(Guarded) = {}
    BY DEF Init, Signallers, Workers, Pending, Running
  <1>2. FlagIsPassedOn
    BY <1>1, FS_EmptySet DEF Init, FlagIsPassedOn
  <1>3. TypeOK
    BY FS_EmptySet, WorkPermitsAssumption DEF Init, TypeOK
  <1> QED
    BY <1>2, <1>3

(* A child that is about to signal has the flag: no signal is pending that  *)
(* its own could be merged with.                                            *)
LEMMA NothingToMergeWith ==
    ASSUME TypeOK, FlagIsPassedOn, NEW c \in Children, child[c] \in {"ask", "exit"}
    PROVE  \A s \in pending : s.number \notin Guarded
  <1>1. Cardinality(Signallers) # 0
    BY FiniteParts, FS_EmptySet DEF Signallers
  <1>2. Cardinality(Pending(Guarded)) = 0
    <2> DEFINE S == Cardinality(Signallers)
               W == Cardinality(Workers)
               P == Cardinality(Pending(Guarded))
               R == Cardinality(Running(Guarded))
               M == IF parent = "post" THEN 1 ELSE 0
    <2>1. S \in Nat /\ W \in Nat /\ P \in Nat /\ R \in Nat /\ M \in Nat /\ flag \in Nat
      BY FiniteParts DEF TypeOK
    <2>2. flag + M + S + W + P + R = 1 /\ S # 0
      BY <1>1 DEF FlagIsPassedOn
    <2> HIDE DEF S, W, P, R, M
    <2>3. P = 0
      BY <2>1, <2>2
    <2> QED
      BY <2>3 DEF P
  <1>3. Pending(Guarded) = {}
    BY <1>2, FiniteParts, FS_EmptySet
  <1> QED
    BY <1>3 DEF Pending

(* Every step leaves the flag where it is or passes it on.                  *)
LEMMA NextFlag == TypeOK /\ FlagIsPassedOn /\ [Next]_vars => FlagIsPassedOn'
  <1> SUFFICES ASSUME TypeOK, FlagIsPassedOn, [Next]_vars PROVE FlagIsPassedOn'
    OBVIOUS
  <1> DEFINE S == Cardinality(Signallers)
             W == Cardinality(Workers)
             P == Cardinality(Pending(Guarded))
             R == Cardinality(Running(Guarded))
             M == IF parent = "post" THEN 1 ELSE 0
  <1>0. S \in Nat /\ W \in Nat /\ P \in Nat /\ R \in Nat /\ M \in Nat /\ flag \in Nat
        /\ flag + M + S + W + P + R = 1
    BY FiniteParts DEF TypeOK, FlagIsPassedOn
  <1>a. flag' + M' + S' + W' + P' + R' = 1 => FlagIsPassedOn'
    BY DEF FlagIsPassedOn
  <1>b. /\ UNCHANGED child => S' = S
        /\ UNCHANGED handler => W' = W
        /\ UNCHANGED pending => P' = P
        /\ UNCHANGED frames => R' = R
        /\ UNCHANGED parent => M' = M
    BY DEF Signallers, Workers, Pending, Running
  <1>c. \A number \in RealTime : number \notin Guarded
    BY WorkPermitsAssumption DEF Guarded
  <1> HIDE DEF S, W, P, R, M
  <1> USE DEF vars, parentVars, childVars, counters
  <1>1. CASE P_Post
    <2>1. flag' = flag + 1 /\ M = 1 /\ M' = 0
      BY <1>1 DEF P_Post, P_Goto, SemPost, TypeOK, M
    <2>2. S' = S /\ W' = W /\ P' = P /\ R' = R
      BY <1>1, <1>b DEF P_Post, P_Goto
    <2> QED
      BY <1>0, <1>a, <2>1, <2>2
  <1>2. CASE P_Check \/ P_Pause \/ P_KillAll
    <2>1. flag' = flag /\ M' = M
      BY <1>2 DEF P_Check, P_Pause, P_KillAll, P_Goto, M
    <2>2. S' = S /\ W' = W /\ P' = P /\ R' = R
      BY <1>2, <1>b DEF P_Check, P_Pause, P_KillAll, P_Goto
    <2> QED
      BY <1>0, <1>a, <2>1, <2>2
  <1>3. CASE P_Interrupted
    <2>1. PICK s \in pending :
              /\ pending' = pending \ {s}
              /\ frames' = Append(frames, [signal |-> s, place |-> "begin",
                                           allow |-> <<>>, read |-> 0])
              /\ parent' = IF parent = "pause" /\ frames = <<>> THEN "check" ELSE parent
              /\ UNCHANGED <<flag, counters, allowed, childVars>>
      BY <1>3 DEF P_Interrupted
    <2> DEFINE f == [signal |-> s, place |-> "begin", allow |-> <<>>, read |-> 0]
    <2>2. f \in Frames /\ f.signal = s
      BY DEF Frames, TypeOK
    <2>3. frames' = Append(frames, f)
      BY <2>1
    <2> HIDE DEF f
    <2>4. R' = IF s.number \in Guarded THEN R + 1 ELSE R
      BY <2>2, <2>3, FramePushed DEF R
    <2>5. P' = IF s.number \in Guarded THEN P - 1 ELSE P
      BY <2>1, SignalCaught DEF P
    <2>6. S' = S /\ W' = W /\ M' = M /\ flag' = flag
      BY <2>1, <1>b DEF M
    <2> QED
      BY <1>0, <1>a, <2>4, <2>5, <2>6
  <1>4. CASE U_Count \/ U_Allow \/ R_Load
    <2>1. R' = R
      <3>1. frames # <<>> /\ Len(frames) \in 1..Len(frames)
        BY <1>4, TopIsFrame DEF U_Count, U_Allow, R_Load, InHandler
      <3>2. Len(frames') = Len(frames)
        BY <1>4, <3>1 DEF U_Count, U_Allow, R_Load, TypeOK
      <3>3. \A i \in 1..Len(frames) : frames'[i].signal = frames[i].signal
        <4>1. frames \in Seq(Frames)
          BY DEF TypeOK
        <4>2. CASE U_Count
          BY <4>1, <4>2, <3>1 DEF U_Count, Frames
        <4>3. CASE U_Allow
          BY <4>1, <4>3, <3>1 DEF U_Allow, Frames
        <4>4. CASE R_Load
          BY <4>1, <4>4, <3>1 DEF R_Load, Frames
        <4> QED
          BY <1>4, <4>2, <4>3, <4>4
      <3> QED
        BY <3>2, <3>3 DEF R, Running
    <2>2. S' = S /\ W' = W /\ P' = P /\ M' = M /\ flag' = flag
      BY <1>4, <1>b DEF U_Count, U_Allow, R_Load
    <2> QED
      BY <1>0, <1>a, <2>1, <2>2
  <1>5. CASE U_Post \/ X_Post
    <2>1. /\ frames # <<>> /\ Return /\ Top.signal.number \in Guarded
          /\ flag' = flag + 1
          /\ UNCHANGED <<counters, parent, pending, allowed, childVars>>
      BY <1>5 DEF U_Post, X_Post, InHandler, SemPost, Guarded
    <2>2. R' = R - 1
      BY <2>1, FramePopped DEF R
    <2>3. S' = S /\ W' = W /\ P' = P /\ M' = M
      BY <2>1, <1>b
    <2> QED
      BY <1>0, <1>a, <2>1, <2>2, <2>3
  <1>6. CASE R_Store
    <2>1. /\ frames # <<>> /\ Return /\ Top.signal.number \notin Guarded
          /\ UNCHANGED <<flag, parent, pending, childVars>>
      BY <1>6, <1>c DEF R_Store, InHandler
    <2>2. R' = R
      BY <2>1, FramePopped DEF R
    <2>3. S' = S /\ W' = W /\ P' = P /\ M' = M
      BY <2>1, <1>b
    <2> QED
      BY <1>0, <1>a, <2>1, <2>2, <2>3
  <1>7. ASSUME NEW c \in Children, ChildStep(c) PROVE FlagIsPassedOn'
    <2>1. CASE C_WaitToAsk(c) \/ C_WaitToLeave(c)
      <3>1. PICK to \in {"ask", "exit"} : /\ child[c] \notin {"ask", "exit"}
                                          /\ child' = [child EXCEPT ![c] = to]
        BY <2>1 DEF C_WaitToAsk, C_WaitToLeave, C_Goto
      <3>2. S' = S + 1
        BY <3>1, ChildMoved DEF S
      <3>3. flag' = flag - 1 /\ W' = W /\ P' = P /\ R' = R /\ M' = M
        BY <2>1, <1>b DEF C_WaitToAsk, C_WaitToLeave, C_Goto, SemWait
      <3> QED
        BY <1>0, <1>a, <3>2, <3>3
    <2>2. CASE C_Ask(c) \/ C_Exit(c)
      <3>1. PICK number \in Guarded, to \in {"asked", "exited"} :
                /\ child[c] \in {"ask", "exit"} /\ child' = [child EXCEPT ![c] = to]
                /\ Signal(number, c)
        BY <2>2 DEF C_Ask, C_Exit, C_Goto, Guarded
      <3>2. S' = S - 1
        BY <3>1, ChildMoved DEF S
      <3>3. P' = P + 1
        <4>1. \A s \in pending : s.number # number
          BY <3>1, NothingToMergeWith
        <4> QED
          BY <3>1, <4>1, SignalSent DEF P
      <3>4. flag' = flag /\ W' = W /\ R' = R /\ M' = M
        BY <2>2, <1>b DEF C_Ask, C_Exit, C_Goto
      <3> QED
        BY <1>0, <1>a, <3>2, <3>3, <3>4
    <2>3. CASE C_Pause(c)
      <3>1. child[c] = "asked" /\ child' = [child EXCEPT ![c] = "pause"]
        BY <2>3 DEF C_Pause, C_Goto
      <3>2. S' = S
        BY <3>1, ChildMoved DEF S
      <3>3. flag' = flag /\ W' = W /\ P' = P /\ R' = R /\ M' = M
        BY <2>3, <1>b DEF C_Pause, C_Goto
      <3> QED
        BY <1>0, <1>a, <3>2, <3>3
    <2>4. CASE H_Allowed(c)
      <3>1. /\ handler[c] = "none" /\ handler' = [handler EXCEPT ![c] = "wait"]
            /\ child' = [child EXCEPT ![c] = IF @ = "pause" THEN "leave" ELSE @]
            /\ UNCHANGED <<flag, parentVars, pending>>
        BY <2>4 DEF H_Allowed, H_Goto
      <3>2. W' = W
        BY <3>1, HandlerMoved DEF W
      <3>3. S' = S
        <4>1. Signallers' = Signallers
          BY <3>1 DEF Signallers, TypeOK
        <4> QED
          BY <4>1 DEF S
      <3>4. P' = P /\ R' = R /\ M' = M /\ flag' = flag
        BY <3>1, <1>b
      <3> QED
        BY <1>0, <1>a, <3>2, <3>3, <3>4
    <2>5. CASE H_Wait(c)
      <3>1. handler[c] = "wait" /\ handler' = [handler EXCEPT ![c] = "work"]
        BY <2>5 DEF H_Wait, H_Goto
      <3>2. W' = W + 1
        BY <3>1, HandlerMoved DEF W
      <3>3. flag' = flag - 1 /\ S' = S /\ P' = P /\ R' = R /\ M' = M
        BY <2>5, <1>b DEF H_Wait, H_Goto, SemWait
      <3> QED
        BY <1>0, <1>a, <3>2, <3>3
    <2>6. CASE H_Work(c)
      <3>1. PICK number \in RealTime :
                /\ Signal(number, c)
                /\ handler[c] = "work" /\ handler' = [handler EXCEPT ![c] = "post"]
                /\ UNCHANGED <<flag, parentVars, child>>
        BY <2>6 DEF H_Work, H_Goto
      <3>2. W' = W
        BY <3>1, HandlerMoved DEF W
      <3>3. P' = P
        BY <3>1, <1>c, SignalSent DEF P
      <3>4. S' = S /\ R' = R /\ M' = M /\ flag' = flag
        BY <3>1, <1>b
      <3> QED
        BY <1>0, <1>a, <3>2, <3>3, <3>4
    <2>7. CASE H_Post(c)
      <3>1. handler[c] = "post" /\ handler' = [handler EXCEPT ![c] = "none"]
        BY <2>7 DEF H_Post, H_Goto
      <3>2. W' = W - 1
        <4>1. handler[c] \in {"work", "post"} /\ "none" \notin {"work", "post"}
          BY <3>1
        <4> QED
          BY <3>1, <4>1, HandlerMoved DEF W
      <3>3. flag' = flag + 1 /\ S' = S /\ P' = P /\ R' = R /\ M' = M
        BY <2>7, <1>b DEF H_Post, H_Goto, SemPost
      <3> QED
        BY <1>0, <1>a, <3>2, <3>3
    <2> QED
      BY <1>7, <2>1, <2>2, <2>3, <2>4, <2>5, <2>6, <2>7 DEF ChildStep
  <1>8. CASE UNCHANGED vars
    <2>1. S' = S /\ W' = W /\ P' = P /\ R' = R /\ M' = M /\ flag' = flag
      BY <1>8, <1>b
    <2> QED
      BY <1>0, <1>a, <2>1
  <1> QED
    BY <1>1, <1>2, <1>3, <1>4, <1>5, <1>6, <1>7, <1>8 DEF Next, ParentStep

(* However the handlers interrupt each other and whoever is faster, the     *)
(* flag is in exactly one place: no request and no exit is ever lost by     *)
(* being merged with another one.                                           *)
THEOREM FlagPassed == Spec => []FlagIsPassedOn
  <1>1. TypeOK /\ FlagIsPassedOn /\ [Next]_vars => (TypeOK /\ FlagIsPassedOn)'
    BY NextTypeOK, NextFlag
  <1> QED
    BY <1>1, InitFlag, PTL DEF Spec

-----------------------------------------------------------------------------
(* The work.                                                                *)

(* The steps of the handlers that do not return change the innermost frame  *)
(* only, and never its signal.                                              *)
LEMMA InnermostMoves ==
    ASSUME TypeOK, U_Count \/ U_Allow \/ R_Load
    PROVE  /\ frames # <<>> /\ Len(frames) \in 1..Len(frames) /\ Len(frames') = Len(frames)
           /\ \A i \in 1..Len(frames) : frames'[i].signal = frames[i].signal
           /\ \A i \in 1..Len(frames) : i # Len(frames) => frames'[i] = frames[i]
  <1>1. frames # <<>> /\ Len(frames) \in 1..Len(frames) /\ frames \in Seq(Frames)
    BY TopIsFrame DEF U_Count, U_Allow, R_Load, InHandler, TypeOK
  <1>2. CASE U_Count
    BY <1>1, <1>2 DEF U_Count, Frames
  <1>3. CASE U_Allow
    BY <1>1, <1>3 DEF U_Allow, Frames
  <1>4. CASE R_Load
    BY <1>1, <1>4 DEF R_Load, Frames
  <1> QED
    BY <1>1, <1>2, <1>3, <1>4

(* A handler that begins is the only one of its signal.                     *)
LEMMA Interrupted ==
    ASSUME TypeOK, P_Interrupted
    PROVE  \E s \in pending, f \in Frames :
              /\ f = [signal |-> s, place |-> "begin", allow |-> <<>>, read |-> 0]
              /\ pending' = pending \ {s} /\ frames' = Append(frames, f)
              /\ \A i \in 1..Len(frames) : frames[i].signal.number # s.number
              /\ UNCHANGED <<flag, counters, allowed, childVars>>
  <1>1. PICK s \in pending :
            /\ \A i \in 1..Len(frames) : frames[i].signal.number # s.number
            /\ pending' = pending \ {s}
            /\ frames' = Append(frames, [signal |-> s, place |-> "begin",
                                         allow |-> <<>>, read |-> 0])
            /\ UNCHANGED <<flag, counters, allowed, childVars>>
    BY DEF P_Interrupted
  <1>2. [signal |-> s, place |-> "begin", allow |-> <<>>, read |-> 0] \in Frames
    BY DEF Frames, TypeOK
  <1> QED
    BY <1>1, <1>2

(* A step of a handler, of the parent's main or of a child: what becomes of *)
(* the frames.                                                              *)
LEMMA HowFramesChange ==
    ASSUME TypeOK, [Next]_vars
    PROVE  \/ P_Interrupted
           \/ U_Count \/ U_Allow \/ R_Load
           \/ (U_Post \/ X_Post \/ R_Store) /\ frames # <<>> /\ Return
           \/ UNCHANGED frames
  <1> USE DEF vars, parentVars
  <1>1. CASE P_Post \/ P_Check \/ P_Pause \/ P_KillAll
    BY <1>1 DEF P_Post, P_Check, P_Pause, P_KillAll, P_Goto
  <1>2. CASE U_Post \/ X_Post \/ R_Store
    BY <1>2 DEF U_Post, X_Post, R_Store, InHandler
  <1>3. ASSUME NEW c \in Children, ChildStep(c) PROVE UNCHANGED frames
    BY <1>3 DEF ChildStep, C_WaitToAsk, C_Ask, C_Pause, C_WaitToLeave, C_Exit, C_Goto,
                H_Allowed, H_Wait, H_Work, H_Post, H_Goto
  <1> QED
    BY <1>1, <1>2, <1>3 DEF Next, ParentStep

(* A handler does not interrupt itself.                                     *)
LEMMA NextOneFrame == TypeOK /\ OneFrameEach /\ [Next]_vars => OneFrameEach'
  <1> SUFFICES ASSUME TypeOK, OneFrameEach, [Next]_vars PROVE OneFrameEach'
    OBVIOUS
  <1>0. Len(frames) \in Nat
    BY DEF TypeOK
  <1>1. CASE P_Interrupted
    <2>1. PICK s \in pending, f \in Frames :
              /\ f = [signal |-> s, place |-> "begin", allow |-> <<>>, read |-> 0]
              /\ frames' = Append(frames, f)
              /\ \A i \in 1..Len(frames) : frames[i].signal.number # s.number
      BY <1>1, Interrupted
    <2>2. /\ Len(frames') = Len(frames) + 1 /\ frames'[Len(frames) + 1] = f
          /\ \A i \in 1..Len(frames) : frames'[i] = frames[i]
      BY <2>1, FramePushed
    <2>3. \A i \in 1..(Len(frames) + 1) : i \in 1..Len(frames) \/ i = Len(frames) + 1
      BY <1>0
    <2> QED
      BY <2>1, <2>2, <2>3 DEF OneFrameEach
  <1>2. CASE U_Count \/ U_Allow \/ R_Load
    BY <1>2, InnermostMoves DEF OneFrameEach
  <1>3. CASE frames # <<>> /\ Return
    BY <1>3, FramePopped DEF OneFrameEach
  <1>4. CASE UNCHANGED frames
    BY <1>4 DEF OneFrameEach
  <1> QED
    BY <1>1, <1>2, <1>3, <1>4, HowFramesChange

(* A child works once, so that what was drawn remains: every real-time      *)
(* signal is the work of the child it comes from.                           *)
LEMMA HowDrawnChanges ==
    ASSUME TypeOK, OnePermission, [Next]_vars
    PROVE  \/ UNCHANGED drawn /\ \A c \in Children : ~ H_Work(c)
           \/ \E c \in Children, number \in RealTime :
                 /\ handler[c] = "work" /\ handler' = [handler EXCEPT ![c] = "post"]
                 /\ Signal(number, c) /\ c \notin Worked
                 /\ Worked' = Worked \union {c} /\ drawn'[c] = number
                 /\ \A d \in Worked : drawn'[d] = drawn[d]
                 /\ UNCHANGED <<flag, parentVars, allowed, child>>
  <1> USE DEF vars, parentVars, childVars, counters
  <1>1. ASSUME ParentStep PROVE UNCHANGED drawn
    BY <1>1 DEF ParentStep, P_Post, P_Check, P_Pause, P_KillAll, P_Goto, P_Interrupted, U_Count,
                U_Allow, U_Post, R_Load, R_Store, X_Post
  <1>2. ASSUME NEW c \in Children, ChildStep(c), ~ H_Work(c) PROVE UNCHANGED drawn
    BY <1>2 DEF ChildStep, C_WaitToAsk, C_Ask, C_Pause, C_WaitToLeave, C_Exit, C_Goto,
                H_Allowed, H_Wait, H_Post, H_Goto
  <1>3. ASSUME NEW c \in Children, H_Work(c)
        PROVE  \E number \in RealTime :
                 /\ handler[c] = "work" /\ handler' = [handler EXCEPT ![c] = "post"]
                 /\ Signal(number, c) /\ c \notin Worked
                 /\ Worked' = Worked \union {c} /\ drawn'[c] = number
                 /\ \A d \in Worked : drawn'[d] = drawn[d]
                 /\ UNCHANGED <<flag, parentVars, allowed, child>>
    <2>1. PICK number \in RealTime :
              /\ Signal(number, c)
              /\ drawn' = [d \in DOMAIN drawn \union {c} |-> IF d = c THEN number
                                                                      ELSE drawn[d]]
      BY <1>3 DEF H_Work
    <2>2. /\ handler[c] = "work" /\ handler' = [handler EXCEPT ![c] = "post"]
          /\ UNCHANGED <<flag, parentVars, allowed, child>>
      BY <1>3 DEF H_Work, H_Goto
    <2>3. c \notin Worked
      <3>1. c \in At("handled")
        BY <2>2 DEF At
      <3>2. At("handled") \cap At("used") = {}
        BY DEF OnePermission, Stages
      <3> QED
        BY <3>1, <3>2 DEF At
    <2>4. Worked' = Worked \union {c} /\ drawn'[c] = number
          /\ \A d \in Worked : drawn'[d] = drawn[d]
      BY <2>1, <2>3 DEF Worked
    <2> QED
      BY <2>1, <2>2, <2>3, <2>4
  <1>4. CASE \A c \in Children : ~ H_Work(c)
    BY <1>1, <1>2, <1>4 DEF Next
  <1>5. CASE \E c \in Children : H_Work(c)
    BY <1>3, <1>5
  <1> QED
    BY <1>4, <1>5

(* What a step that is no work may do with the pending signals.             *)
LEMMA HowPendingChanges ==
    ASSUME [Next]_vars, \A c \in Children : ~ H_Work(c)
    PROVE  \/ pending' \subseteq pending
           \/ \E c \in Children, number \in Guarded :
                 /\ pending' \subseteq pending \union {[number |-> number, from |-> c]}
                 /\ UNCHANGED frames
  <1> USE DEF vars, parentVars, childVars, counters
  <1>1. CASE ParentStep
    BY <1>1 DEF ParentStep, P_Post, P_Check, P_Pause, P_KillAll, P_Goto, P_Interrupted, U_Count,
                U_Allow, U_Post, R_Load, R_Store, X_Post
  <1>2. ASSUME NEW c \in Children, ChildStep(c)
        PROVE  \/ pending' \subseteq pending
               \/ \E number \in Guarded :
                     /\ pending' \subseteq pending \union {[number |-> number, from |-> c]}
                     /\ UNCHANGED frames
    <2>1. CASE C_Ask(c)
      BY <2>1 DEF C_Ask, C_Goto, Signal, Guarded
    <2>2. CASE C_Exit(c)
      BY <2>2 DEF C_Exit, C_Goto, Signal, Guarded
    <2>3. CASE ~ (C_Ask(c) \/ C_Exit(c))
      BY <1>2, <2>3 DEF ChildStep, C_WaitToAsk, C_Pause, C_WaitToLeave, C_Goto,
                        H_Allowed, H_Wait, H_Post, H_Goto
    <2> QED
      BY <2>1, <2>2, <2>3
  <1> QED
    BY <1>1, <1>2 DEF Next

(* A real-time signal comes from a child that has drawn its number.         *)
LEMMA NextSignalsAreWork ==
    TypeOK /\ OnePermission /\ SignalsAreWork /\ [Next]_vars => SignalsAreWork'
  <1> SUFFICES ASSUME TypeOK, OnePermission, SignalsAreWork, [Next]_vars
               PROVE SignalsAreWork'
    OBVIOUS
  <1>1. ASSUME NEW s, IsWork(s) PROVE IsWork(s)'
    BY <1>1, HowDrawnChanges DEF IsWork, Worked
  <1>2. \A s \in pending' : IsWork(s)'
    <2>1. CASE \A c \in Children : ~ H_Work(c)
      <3>1. ASSUME NEW s \in pending' PROVE s \in pending \/ s.number \in Guarded
        BY <2>1, <3>1, HowPendingChanges
      <3>2. ASSUME NEW s, s.number \in Guarded PROVE IsWork(s)'
        BY <3>2, WorkPermitsAssumption DEF IsWork, Guarded
      <3> QED
        BY <1>1, <3>1, <3>2 DEF SignalsAreWork
    <2>2. CASE \E c \in Children : H_Work(c)
      <3>1. PICK c \in Children, number \in RealTime :
                /\ Signal(number, c) /\ c \in Worked' /\ drawn'[c] = number
        BY <2>2, HowDrawnChanges
      <3>2. pending' \subseteq pending \union {[number |-> number, from |-> c]}
        BY <3>1 DEF Signal
      <3>3. IsWork([number |-> number, from |-> c])'
        BY <3>1 DEF IsWork
      <3> QED
        BY <1>1, <3>2, <3>3 DEF SignalsAreWork
    <2> QED
      BY <2>1, <2>2
  <1>3. \A i \in 1..Len(frames)' : IsWork(frames[i].signal)'
    <2>0. \A i \in 1..Len(frames) : \A s : s = frames[i].signal => IsWork(s)'
      BY <1>1 DEF SignalsAreWork
    <2>1. CASE P_Interrupted
      <3>1. PICK s \in pending, f \in Frames : /\ f.signal = s
                                               /\ frames' = Append(frames, f)
        BY <2>1, Interrupted
      <3>2. /\ Len(frames') = Len(frames) + 1 /\ frames'[Len(frames) + 1] = f
            /\ \A i \in 1..Len(frames) : frames'[i] = frames[i]
        BY <3>1, FramePushed
      <3>3. \A i \in 1..(Len(frames) + 1) : i \in 1..Len(frames) \/ i = Len(frames) + 1
        BY DEF TypeOK
      <3>4. IsWork(s)'
        BY <1>1 DEF SignalsAreWork
      <3> QED
        BY <2>0, <3>1, <3>2, <3>3, <3>4
    <2>2. CASE U_Count \/ U_Allow \/ R_Load
      BY <2>0, <2>2, InnermostMoves
    <2>3. CASE frames # <<>> /\ Return
      BY <2>0, <2>3, FramePopped
    <2>4. CASE UNCHANGED frames
      BY <2>0, <2>4
    <2> QED
      BY <2>1, <2>2, <2>3, <2>4, HowFramesChange
  <1> QED
    BY <1>2, <1>3 DEF SignalsAreWork

(* As long as one number is drawn, it was so before.                        *)
LEMMA OneNumberBefore ==
    ASSUME TypeOK, OnePermission, [Next]_vars, OneNumber'
    PROVE  OneNumber
  BY HowDrawnChanges DEF OneNumber, Worked
(* If all draw the same number, catchSIGRT runs once at a time.             *)
LEMMA OneWorkFrame ==
    ASSUME SignalsAreWork, OneFrameEach, OneNumber,
           NEW i \in 1..Len(frames), NEW j \in 1..Len(frames),
           frames[i].signal.number \in RealTime, frames[j].signal.number \in RealTime
    PROVE  i = j
  <1>1. /\ frames[i].signal.from \in Worked /\ frames[j].signal.from \in Worked
        /\ frames[i].signal.number = drawn[frames[i].signal.from]
        /\ frames[j].signal.number = drawn[frames[j].signal.from]
    BY DEF SignalsAreWork, IsWork
  <1> QED
    BY <1>1 DEF OneNumber, OneFrameEach

(* Only catchSIGRT counts.                                                  *)
LEMMA OnlyStoreCounts ==
    ASSUME [Next]_vars, ~ R_Store
    PROVE  UNCHANGED n
  <1> USE DEF vars, parentVars, counters
  <1>1. ASSUME ParentStep PROVE UNCHANGED n
    BY <1>1 DEF ParentStep, P_Post, P_Check, P_Pause, P_KillAll, P_Goto, P_Interrupted, U_Count,
                U_Allow, U_Post, R_Load, X_Post
  <1>2. ASSUME NEW c \in Children, ChildStep(c) PROVE UNCHANGED n
    BY <1>2 DEF ChildStep, C_WaitToAsk, C_Ask, C_Pause, C_WaitToLeave, C_Exit, C_Goto,
                H_Allowed, H_Wait, H_Work, H_Post, H_Goto
  <1> QED
    BY <1>1, <1>2 DEF Next

(* Between the load and the store of n++ nobody else counts.                *)
LEMMA NextReadIsCurrent ==
    /\ TypeOK /\ OnePermission /\ OneFrameEach /\ SignalsAreWork /\ ReadIsCurrent
    /\ [Next]_vars
    => ReadIsCurrent'
  <1> SUFFICES ASSUME TypeOK, OnePermission, OneFrameEach, SignalsAreWork, ReadIsCurrent,
                      [Next]_vars
               PROVE  ReadIsCurrent'
    OBVIOUS
  <1>0. OneNumber' => OneNumber
    BY OneNumberBefore
  <1>1. CASE P_Interrupted
    <2>1. PICK s \in pending, f \in Frames :
              /\ f = [signal |-> s, place |-> "begin", allow |-> <<>>, read |-> 0]
              /\ frames' = Append(frames, f) /\ UNCHANGED n
      BY <1>1, Interrupted DEF counters
    <2>2. /\ Len(frames') = Len(frames) + 1 /\ frames'[Len(frames) + 1] = f
          /\ \A i \in 1..Len(frames) : frames'[i] = frames[i]
      BY <2>1, FramePushed
    <2>3. \A i \in 1..(Len(frames) + 1) : i \in 1..Len(frames) \/ i = Len(frames) + 1
      BY DEF TypeOK
    <2> QED
      BY <1>0, <2>1, <2>2, <2>3 DEF ReadIsCurrent
  <1>2. CASE U_Count
    <2>1. frames'[Len(frames)].place = "allow" /\ UNCHANGED n
      <3>1. Len(frames) \in 1..Len(frames) /\ frames \in Seq(Frames)
        BY <1>2, InnermostMoves DEF TypeOK
      <3> QED
        BY <1>2, <3>1 DEF U_Count, Frames
    <2> QED
      BY <1>0, <1>2, <2>1, InnermostMoves DEF ReadIsCurrent
  <1>3. CASE U_Allow
    <2>1. frames'[Len(frames)].place = "allow" /\ UNCHANGED n
      <3>1. Len(frames) \in 1..Len(frames) /\ frames \in Seq(Frames)
        BY <1>3, InnermostMoves DEF TypeOK
      <3> QED
        BY <1>3, <3>1 DEF U_Allow, InHandler, Top, Frames, counters
    <2> QED
      BY <1>0, <1>3, <2>1, InnermostMoves DEF ReadIsCurrent
  <1>4. CASE R_Load
    <2>1. /\ frames'[Len(frames)].read = n /\ UNCHANGED n
          /\ frames[Len(frames)].signal.number \in RealTime
      <3>1. Len(frames) \in 1..Len(frames) /\ frames \in Seq(Frames)
        BY <1>4, InnermostMoves DEF TypeOK
      <3> QED
        BY <1>4, <3>1 DEF R_Load, InHandler, Top, Frames, counters
    <2> QED
      BY <1>0, <1>4, <2>1, InnermostMoves DEF ReadIsCurrent
  <1>5. CASE R_Store
    <2>1. frames # <<>> /\ Return /\ Top.signal.number \in RealTime
      BY <1>5 DEF R_Store, InHandler
    <2>2. Len(frames) \in 1..Len(frames) /\ frames[Len(frames)].signal.number \in RealTime
      BY <2>1, TopIsFrame
    <2>3. ASSUME NEW i \in 1..Len(frames'), frames'[i].place = "store"
          PROVE  frames'[i].signal.number \in RealTime /\ ~ OneNumber'
      <3>1. i \in 1..Len(frames) /\ i # Len(frames) /\ frames'[i] = frames[i]
        BY <2>1, FramePopped
      <3>2. frames[i].signal.number \in RealTime
        BY <2>3, <3>1 DEF ReadIsCurrent
      <3> QED
        BY <1>0, <2>2, <3>1, <3>2, OneWorkFrame
    <2> QED
      BY <2>3 DEF ReadIsCurrent
  <1>6. CASE frames # <<>> /\ Return /\ ~ R_Store
    BY <1>0, <1>6, FramePopped, OnlyStoreCounts DEF ReadIsCurrent
  <1>7. CASE UNCHANGED frames
    <2>1. ~ R_Store
      <3>1. CASE R_Store
        <4>1. frames # <<>> /\ Return
          BY <3>1 DEF R_Store, InHandler
        <4>2. Len(frames') = Len(frames) - 1
          BY <4>1, FramePopped
        <4>3. Len(frames) \in Nat /\ Len(frames') = Len(frames)
          BY <1>7 DEF TypeOK
        <4> QED
          BY <4>2, <4>3
      <3> QED
        BY <3>1
    <2> QED
      BY <1>0, <1>7, <2>1, OnlyStoreCounts DEF ReadIsCurrent
  <1> QED
    BY <1>1, <1>2, <1>3, <1>4, <1>5, <1>6, <1>7, HowFramesChange

-----------------------------------------------------------------------------
(* The way of a permission.                                                 *)

(* If children come to one stage only, each of them from another one which  *)
(* it leaves, every child stays in one stage.                               *)
LEMMA PermissionMoves ==
    ASSUME OnePermission, NEW to \in Stages,
           \A p \in Stages : p # to => At(p)' \subseteq At(p),
           \A c \in At(to)' \ At(to) :
               \E p \in Stages : p # to /\ c \in At(p) /\ c \notin At(p)'
    PROVE  OnePermission'
  <1> SUFFICES ASSUME NEW p \in Stages, NEW q \in Stages, p # q, NEW c,
                      c \in At(p)', c \in At(q)'
               PROVE  FALSE
    BY DEF OnePermission
  <1>1. \A a, b \in Stages : c \in At(a) /\ c \in At(b) => a = b
    BY DEF OnePermission
  <1> HIDE DEF Stages
  <1>2. ASSUME NEW a \in Stages, NEW b \in Stages, a # b, c \in At(a)', c \in At(b)', b # to
        PROVE  FALSE
    <2>1. c \in At(b)
      BY <1>2
    <2>2. CASE c \in At(a)
      BY <1>1, <1>2, <2>1, <2>2
    <2>3. CASE c \notin At(a)
      <3>1. a = to
        BY <1>2, <2>3
      <3>2. PICK o \in Stages : o # to /\ c \in At(o) /\ c \notin At(o)'
        BY <1>2, <2>3, <3>1
      <3> QED
        BY <1>1, <1>2, <2>1, <3>2
    <2> QED
      BY <2>2, <2>3
  <1> QED
    BY <1>2

(* What each stage depends on.                                              *)
LEMMA StagesStay ==
    /\ (UNCHANGED child => At("unasked")' = At("unasked"))
    /\ (UNCHANGED pending => At("sent")' = At("sent"))
    /\ (UNCHANGED frames => /\ At("caught")' = At("caught")
                            /\ At("granted")' = At("granted"))
    /\ (UNCHANGED <<k, K, childBuf>> => At("buffered")' = At("buffered"))
    /\ (UNCHANGED allowed => At("allowed")' = At("allowed"))
    /\ (UNCHANGED handler => At("handled")' = At("handled"))
    /\ (UNCHANGED drawn => At("used")' = At("used"))
  BY DEF At, Worked

(* A step after which every stage has the children it had, or fewer.        *)
LEMMA StagesShrink ==
    ASSUME OnePermission, \A p \in Stages : At(p)' \subseteq At(p)
    PROVE  OnePermission'
  BY DEF OnePermission

(* A handler that returns takes nobody to another stage.                    *)
LEMMA ReturnStages ==
    ASSUME TypeOK, frames # <<>>, Return
    PROVE  At("caught")' \subseteq At("caught") /\ At("granted")' \subseteq At("granted")
  <1>1. \A i \in 1..Len(frames') : i \in 1..Len(frames) /\ frames'[i] = frames[i]
    BY FramePopped
  <1> QED
    BY <1>1 DEF At

(* catchUSR1 counts the request, remembers who asked as long as there are   *)
(* too few, and now allows nobody, everybody or the one who asked.          *)
LEMMA CountsRequest ==
    ASSUME TypeOK, U_Count
    PROVE  \E c \in Children, i \in 1..Len(frames) :
              /\ i = Len(frames) /\ Len(frames') = Len(frames)
              /\ frames[i].signal = [number |-> "USR1", from |-> c]
              /\ frames[i].place = "begin"
              /\ \A j \in 1..Len(frames) : j # i => frames'[j] = frames[j]
              /\ frames'[i].place = "allow"
              /\ k' = k + 1 /\ UNCHANGED <<flag, K, n, parent, pending, allowed, childVars>>
              /\ \/ /\ k + 1 < K /\ childBuf' = Append(childBuf, c)
                    /\ frames'[i].allow = <<>>
                 \/ /\ k + 1 = K /\ childBuf' = Append(childBuf, c)
                    /\ frames'[i].allow = Append(childBuf, c)
                 \/ /\ k + 1 > K /\ frames'[i].allow = <<c>>
  <1> DEFINE c == Top.signal.from
             asked == IF k < K THEN Append(childBuf, c) ELSE childBuf
             a == CASE k + 1 > K -> <<c>> [] k + 1 = K -> asked [] OTHER -> <<>>
  <1>1. /\ frames # <<>> /\ k' = k + 1 /\ childBuf' = asked
        /\ frames' = [frames EXCEPT ![Len(frames)].place = "allow",
                                    ![Len(frames)].allow = a]
        /\ UNCHANGED <<flag, K, n, parent, pending, allowed, childVars>>
        /\ Top.signal.number = "USR1" /\ Top.place = "begin"
    BY DEF U_Count, InHandler
  <1>2. frames \in Seq(Frames) /\ Len(frames) \in 1..Len(frames) /\ Top = frames[Len(frames)]
    BY <1>1, TopIsFrame DEF TypeOK
  <1>3. c \in Children /\ Top.signal = [number |-> "USR1", from |-> c]
    BY <1>1, TopIsFrame DEF Signals
  <1>4. \/ k + 1 < K /\ asked = Append(childBuf, c) /\ a = <<>>
        \/ k + 1 = K /\ asked = Append(childBuf, c) /\ a = Append(childBuf, c)
        \/ k + 1 > K /\ a = <<c>>
    <2>1. k \in Nat /\ K \in Nat
      BY DEF TypeOK
    <2>2. CASE k + 1 < K
      BY <2>1, <2>2
    <2>3. CASE k + 1 = K
      BY <2>1, <2>3
    <2>4. CASE k + 1 > K
      BY <2>1, <2>4
    <2> QED
      BY <2>1, <2>2, <2>3, <2>4
  <1> HIDE DEF a, asked, c
  <1>5. /\ frames'[Len(frames)].place = "allow" /\ frames'[Len(frames)].allow = a
        /\ Len(frames') = Len(frames)
        /\ \A j \in 1..Len(frames) : j # Len(frames) => frames'[j] = frames[j]
    BY <1>1, <1>2 DEF Frames
  <1> QED
    BY <1>1, <1>2, <1>3, <1>4, <1>5

(* The children that are remembered or allowed in bulk.                     *)
LEMMA BufferGrows ==
    ASSUME TypeOK, NEW c \in Children
    PROVE  /\ Len(Append(childBuf, c)) = Len(childBuf) + 1
           /\ \A j \in 1..Len(Append(childBuf, c)) :
                 \/ j \in 1..Len(childBuf) /\ Append(childBuf, c)[j] = childBuf[j]
                 \/ j = Len(childBuf) + 1 /\ Append(childBuf, c)[j] = c
  <1>1. childBuf \in Seq(Children)
    BY DEF TypeOK
  <1> QED
    BY <1>1, AppendProperties

(* A request that is counted is in the hands of catchUSR1, or remembered.   *)
LEMMA CountKeepsPermissions ==
    ASSUME TypeOK, OneFrameEach, OnePermission, U_Count
    PROVE  OnePermission'
  <1>1. PICK c \in Children, i \in 1..Len(frames) :
              /\ i = Len(frames) /\ Len(frames') = Len(frames)
              /\ frames[i].signal = [number |-> "USR1", from |-> c]
              /\ frames[i].place = "begin"
              /\ \A j \in 1..Len(frames) : j # i => frames'[j] = frames[j]
              /\ frames'[i].place = "allow"
              /\ k' = k + 1 /\ UNCHANGED <<flag, K, n, parent, pending, allowed, childVars>>
              /\ \/ /\ k + 1 < K /\ childBuf' = Append(childBuf, c)
                    /\ frames'[i].allow = <<>>
                 \/ /\ k + 1 = K /\ childBuf' = Append(childBuf, c)
                    /\ frames'[i].allow = Append(childBuf, c)
                 \/ /\ k + 1 > K /\ frames'[i].allow = <<c>>
    BY CountsRequest
  <1>2. k \in Nat /\ K \in Nat /\ Len(childBuf) \in Nat
    BY DEF TypeOK
  <1>3. c \in At("caught") /\ c \notin At("caught")'
    <2>1. c \in At("caught")
      BY <1>1 DEF At
    <2>2. ASSUME NEW j \in 1..Len(frames),
                 frames'[j].signal = [number |-> "USR1", from |-> c],
                 frames'[j].place = "begin"
          PROVE  FALSE
      BY <1>1, <2>2 DEF OneFrameEach
    <2>3. Len(frames') = Len(frames)
      BY <1>1
    <2> QED
      BY <2>1, <2>2, <2>3 DEF At
  <1>4. At("caught")' \subseteq At("caught")
    BY <1>1 DEF At
  <1>5. /\ At("unasked")' = At("unasked") /\ At("sent")' = At("sent")
        /\ At("allowed")' = At("allowed") /\ At("handled")' = At("handled")
        /\ At("used")' = At("used")
    BY <1>1, StagesStay DEF childVars
  <1>6. CASE k + 1 < K
    <2>1. At("granted")' \subseteq At("granted")
      BY <1>1, <1>2, <1>6 DEF At
    <2>2. At("buffered")' \subseteq At("buffered") \union {c}
      BY <1>1, <1>2, <1>6, BufferGrows DEF At
    <2> QED
      BY <1>3, <1>4, <1>5, <2>1, <2>2, PermissionMoves DEF Stages
  <1>7. CASE k + 1 = K
    <2>1. At("buffered")' = {}
      BY <1>1, <1>2, <1>7 DEF At
    <2>2. At("granted")' \subseteq At("granted") \union At("buffered") \union {c}
      <3> SUFFICES ASSUME NEW d \in Children, d # c, d \in At("granted")',
                          d \notin At("granted")
                   PROVE  d \in At("buffered")
        BY DEF At
      <3>0. PICK j \in 1..Len(frames) :
                \E l \in 1..Len(frames'[j].allow) : frames'[j].allow[l] = d
        BY <1>1 DEF At
      <3>1. PICK l \in 1..Len(frames'[j].allow) : frames'[j].allow[l] = d
        BY <3>0
      <3>2. j = i
        BY <1>1, <3>1 DEF At
      <3>3. l \in 1..Len(Append(childBuf, c)) /\ Append(childBuf, c)[l] = d
        <4>1. frames'[i].allow = Append(childBuf, c)
          BY <1>1, <1>2, <1>7
        <4> QED
          BY <3>1, <3>2, <4>1
      <3>4. l \in 1..Len(childBuf) /\ childBuf[l] = d
        BY <3>3, BufferGrows
      <3> QED
        BY <1>2, <1>7, <3>4 DEF At
    <2> QED
      BY <1>3, <1>4, <1>5, <2>1, <2>2, PermissionMoves DEF Stages
  <1>8. CASE k + 1 > K
    <2>1. At("buffered")' = {}
      BY <1>1, <1>2, <1>8 DEF At
    <2>2. At("granted")' \subseteq At("granted") \union {c}
      BY <1>1, <1>2, <1>8 DEF At
    <2> QED
      BY <1>3, <1>4, <1>5, <2>1, <2>2, PermissionMoves DEF Stages
  <1> QED
    BY <1>2, <1>6, <1>7, <1>8

(* catchUSR1 sends the first of the signals that are left to be sent.       *)
LEMMA AllowsFirst ==
    ASSUME TypeOK, U_Allow
    PROVE  \E c \in Children, i \in 1..Len(frames) :
              /\ i = Len(frames) /\ Len(frames') = Len(frames)
              /\ \A j \in 1..Len(frames) : j # i => frames'[j] = frames[j]
              /\ frames'[i].signal = frames[i].signal /\ frames'[i].place = frames[i].place
              /\ Len(frames[i].allow) \in Nat \ {0} /\ frames[i].allow[1] = c
              /\ Len(frames'[i].allow) = Len(frames[i].allow) - 1
              /\ \A l \in 1..Len(frames'[i].allow) :
                     frames'[i].allow[l] = frames[i].allow[l + 1]
              /\ allowed' = allowed \union {c}
              /\ UNCHANGED <<flag, counters, parent, pending, childVars>>
  <1>1. /\ frames # <<>> /\ Top.allow # <<>>
        /\ allowed' = allowed \union {Head(Top.allow)}
        /\ frames' = [frames EXCEPT ![Len(frames)].allow = Tail(@)]
        /\ UNCHANGED <<flag, counters, parent, pending, childVars>>
    BY DEF U_Allow, InHandler
  <1>2. frames \in Seq(Frames) /\ Len(frames) \in 1..Len(frames) /\ Top = frames[Len(frames)]
    BY <1>1, TopIsFrame DEF TypeOK
  <1>3. Top.allow \in Seq(Children)
    BY <1>1, TopIsFrame DEF Frames
  <1>4. /\ Len(Top.allow) \in Nat \ {0} /\ Head(Top.allow) = Top.allow[1]
        /\ Head(Top.allow) \in Children
        /\ Len(Tail(Top.allow)) = Len(Top.allow) - 1
        /\ \A l \in 1..Len(Tail(Top.allow)) : Tail(Top.allow)[l] = Top.allow[l + 1]
    BY <1>1, <1>3, HeadTailProperties
  <1>5. /\ frames'[Len(frames)].allow = Tail(Top.allow)
        /\ frames'[Len(frames)].signal = frames[Len(frames)].signal
        /\ frames'[Len(frames)].place = frames[Len(frames)].place
        /\ Len(frames') = Len(frames)
        /\ \A j \in 1..Len(frames) : j # Len(frames) => frames'[j] = frames[j]
    BY <1>1, <1>2 DEF Frames
  <1>6. allowed' = allowed \union {Head(Top.allow)}
        /\ UNCHANGED <<flag, counters, parent, pending, childVars>>
    BY <1>1
  <1> USE <1>2, <1>4
  <1> WITNESS Head(Top.allow) \in Children, Len(frames) \in 1..Len(frames)
  <1> QED
    BY <1>2, <1>4, <1>5, <1>6

(* A child that is allowed is not in the rest of those to be allowed.       *)
LEMMA AllowKeepsPermissions ==
    ASSUME TypeOK, OneFrameEach, OnePermission, NoRepeats, U_Allow
    PROVE  OnePermission'
  <1>1. PICK c \in Children, i \in 1..Len(frames) :
              /\ i = Len(frames) /\ Len(frames') = Len(frames)
              /\ \A j \in 1..Len(frames) : j # i => frames'[j] = frames[j]
              /\ frames'[i].signal = frames[i].signal /\ frames'[i].place = frames[i].place
              /\ Len(frames[i].allow) \in Nat \ {0} /\ frames[i].allow[1] = c
              /\ Len(frames'[i].allow) = Len(frames[i].allow) - 1
              /\ \A l \in 1..Len(frames'[i].allow) :
                     frames'[i].allow[l] = frames[i].allow[l + 1]
              /\ allowed' = allowed \union {c}
              /\ UNCHANGED <<flag, counters, parent, pending, childVars>>
    BY AllowsFirst
  <1>2. c \in At("granted")
    <2>1. 1 \in 1..Len(frames[i].allow)
      BY <1>1
    <2> QED
      BY <1>1, <2>1 DEF At
  <1>3. \A l \in 1..Len(frames'[i].allow) :
            l + 1 \in 1..Len(frames[i].allow) /\ l + 1 # 1 /\ 1 \in 1..Len(frames[i].allow)
    BY <1>1
  <1>4. c \notin At("granted")'
    <2>1. \A l \in 1..Len(frames'[i].allow) : frames'[i].allow[l] # c
      <3>1. \A a, b \in 1..Len(frames[i].allow) :
                frames[i].allow[a] = frames[i].allow[b] => a = b
        BY DEF NoRepeats, Once
      <3> QED
        BY <1>1, <1>3, <3>1
    <2>2. ASSUME NEW j \in 1..Len(frames), j # i, NEW l \in 1..Len(frames[j].allow)
          PROVE  FALSE
      <3>1. frames[j].allow # <<>> /\ frames[i].allow # <<>>
        <4>1. frames[i] \in Frames /\ frames[j] \in Frames
          BY DEF TypeOK
        <4>2. frames[i].allow \in Seq(Children) /\ frames[j].allow \in Seq(Children)
          BY <4>1 DEF Frames
        <4> QED
          BY <1>1, <2>2, <4>2
      <3> QED
        BY <2>2, <3>1 DEF NoRepeats, OneFrameEach
    <2> QED
      BY <1>1, <2>1, <2>2 DEF At
  <1>5. At("granted")' \subseteq At("granted")
    <2> SUFFICES ASSUME NEW d \in Children, NEW j \in 1..Len(frames),
                        NEW l \in 1..Len(frames'[j].allow), frames'[j].allow[l] = d
                 PROVE  \E o \in 1..Len(frames[j].allow) : frames[j].allow[o] = d
      BY <1>1 DEF At
    <2>1. CASE j = i
      BY <1>1, <1>3, <2>1
    <2>2. CASE j # i
      BY <1>1, <2>2
    <2> QED
      BY <2>1, <2>2
  <1>6. At("caught")' \subseteq At("caught")
    BY <1>1 DEF At
  <1>7. At("allowed")' \subseteq At("allowed") \union {c}
    BY <1>1 DEF At
  <1>8. /\ At("unasked")' = At("unasked") /\ At("sent")' = At("sent")
        /\ At("buffered")' = At("buffered") /\ At("handled")' = At("handled")
        /\ At("used")' = At("used")
    BY <1>1, StagesStay DEF childVars, counters
  <1> QED
    BY <1>2, <1>4, <1>5, <1>6, <1>7, <1>8, PermissionMoves DEF Stages

(* catchSIGRT has nobody to allow.                                          *)
LEMMA LoadKeepsPermissions ==
    ASSUME TypeOK, OnePermission, R_Load
    PROVE  OnePermission'
  <1>1. /\ Len(frames') = Len(frames) /\ UNCHANGED <<counters, pending, allowed, childVars>>
        /\ \A i \in 1..Len(frames) : frames'[i].signal = frames[i].signal
        /\ \A i \in 1..Len(frames) : frames'[i].place = "begin" => frames[i].place = "begin"
        /\ \A i \in 1..Len(frames) : frames'[i].allow = frames[i].allow
    <2>1. frames \in Seq(Frames) /\ Len(frames) \in 1..Len(frames)
      BY InnermostMoves DEF TypeOK
    <2> QED
      BY <2>1 DEF R_Load, Frames
  <1>2. At("caught")' \subseteq At("caught") /\ At("granted")' \subseteq At("granted")
    BY <1>1 DEF At
  <1> QED
    BY <1>1, <1>2, StagesStay, StagesShrink DEF Stages, childVars, counters

(* A request that is caught is pending no more.                             *)
LEMMA CatchKeepsPermissions ==
    ASSUME TypeOK, OnePermission, P_Interrupted
    PROVE  OnePermission'
  <1>1. PICK s \in pending, f \in Frames :
              /\ f = [signal |-> s, place |-> "begin", allow |-> <<>>, read |-> 0]
              /\ pending' = pending \ {s} /\ frames' = Append(frames, f)
              /\ UNCHANGED <<counters, allowed, childVars>>
    BY Interrupted
  <1>2. /\ Len(frames') = Len(frames) + 1 /\ frames'[Len(frames) + 1] = f
        /\ \A i \in 1..Len(frames) : frames'[i] = frames[i]
    BY <1>1, FramePushed
  <1>3. \A i \in 1..(Len(frames) + 1) : i \in 1..Len(frames) \/ i = Len(frames) + 1
    BY DEF TypeOK
  <1>4. \A l \in 1..Len(f.allow) : FALSE
    BY <1>1
  <1>5. At("granted")' \subseteq At("granted")
    BY <1>1, <1>2, <1>3, <1>4 DEF At
  <1>6. At("sent")' \subseteq At("sent")
    BY <1>1 DEF At
  <1>7. \A c \in At("caught")' \ At("caught") : c \in At("sent") /\ c \notin At("sent")'
    <2>1. SUFFICES ASSUME NEW c \in At("caught")', c \notin At("caught")
                   PROVE  s = [number |-> "USR1", from |-> c] /\ c \in Children
      BY <1>1 DEF At
    <2> QED
      BY <1>1, <1>2, <1>3, <2>1 DEF At
  <1>8. /\ At("unasked")' = At("unasked") /\ At("allowed")' = At("allowed")
        /\ At("buffered")' = At("buffered") /\ At("handled")' = At("handled")
        /\ At("used")' = At("used")
    BY <1>1, StagesStay DEF childVars, counters
  <1> QED
    BY <1>5, <1>6, <1>7, <1>8, PermissionMoves DEF Stages

(* A child asks, is allowed and works once.                                 *)
LEMMA ChildKeepsPermissions ==
    ASSUME TypeOK, OnePermission, NEW c \in Children, ChildStep(c)
    PROVE  OnePermission'
  <1> USE DEF parentVars, counters
  <1>1. CASE C_WaitToAsk(c) \/ C_Pause(c) \/ C_WaitToLeave(c)
    <2>1. UNCHANGED <<parentVars, pending, allowed, handler, drawn>>
      BY <1>1 DEF C_WaitToAsk, C_Pause, C_WaitToLeave, C_Goto
    <2>2. At("unasked")' \subseteq At("unasked")
      BY <1>1 DEF C_WaitToAsk, C_Pause, C_WaitToLeave, C_Goto, At, TypeOK
    <2> QED
      BY <2>1, <2>2, StagesStay, StagesShrink DEF Stages
  <1>2. CASE C_Ask(c)
    <2>1. /\ UNCHANGED <<parentVars, allowed, handler, drawn>>
          /\ child[c] = "ask" /\ child' = [child EXCEPT ![c] = "asked"]
          /\ pending' \subseteq pending \union {[number |-> "USR1", from |-> c]}
      BY <1>2 DEF C_Ask, C_Goto, Signal
    <2>2. At("unasked")' \subseteq At("unasked") /\ c \in At("unasked") /\ c \notin At("unasked")'
      BY <2>1 DEF At, TypeOK
    <2>3. At("sent")' \subseteq At("sent") \union {c}
      BY <2>1 DEF At
    <2> QED
      BY <2>1, <2>2, <2>3, StagesStay, PermissionMoves DEF Stages
  <1>3. CASE C_Exit(c)
    <2>1. /\ UNCHANGED <<parentVars, allowed, handler, drawn>>
          /\ child[c] = "exit" /\ child' = [child EXCEPT ![c] = "exited"]
          /\ pending' \subseteq pending \union {[number |-> "CHLD", from |-> c]}
      BY <1>3 DEF C_Exit, C_Goto, Signal
    <2>2. At("unasked")' \subseteq At("unasked") /\ At("sent")' \subseteq At("sent")
      BY <2>1 DEF At, TypeOK
    <2> QED
      BY <2>1, <2>2, StagesStay, StagesShrink DEF Stages
  <1>4. CASE H_Allowed(c)
    <2>1. /\ UNCHANGED <<parentVars, pending, drawn>>
          /\ c \in allowed /\ allowed' = allowed \ {c}
          /\ handler' = [handler EXCEPT ![c] = "wait"]
          /\ child' = [child EXCEPT ![c] = IF @ = "pause" THEN "leave" ELSE @]
      BY <1>4 DEF H_Allowed, H_Goto
    <2>2. At("unasked")' \subseteq At("unasked")
      BY <2>1 DEF At, TypeOK
    <2>3. /\ At("allowed")' \subseteq At("allowed")
          /\ c \in At("allowed") /\ c \notin At("allowed")'
      BY <2>1 DEF At
    <2>4. At("handled")' \subseteq At("handled") \union {c}
      BY <2>1 DEF At, TypeOK
    <2> QED
      BY <2>1, <2>2, <2>3, <2>4, StagesStay, PermissionMoves DEF Stages
  <1>5. CASE H_Wait(c) \/ H_Post(c)
    <2>1. UNCHANGED <<parentVars, pending, allowed, child, drawn>>
      BY <1>5 DEF H_Wait, H_Post, H_Goto
    <2>2. At("handled")' \subseteq At("handled")
      BY <1>5 DEF H_Wait, H_Post, H_Goto, At, TypeOK
    <2> QED
      BY <2>1, <2>2, StagesStay, StagesShrink DEF Stages
  <1>6. CASE H_Work(c)
    <2>1. PICK number \in RealTime :
              /\ Signal(number, c)
              /\ drawn' = [d \in DOMAIN drawn \union {c} |-> IF d = c THEN number
                                                                      ELSE drawn[d]]
      BY <1>6 DEF H_Work
    <2>2. /\ handler[c] = "work" /\ handler' = [handler EXCEPT ![c] = "post"]
          /\ UNCHANGED <<parentVars, allowed, child>>
      BY <1>6 DEF H_Work, H_Goto
    <2>3. pending' \subseteq pending \union {[number |-> number, from |-> c]}
      BY <2>1 DEF Signal
    <2>4. number # "USR1"
      BY WorkPermitsAssumption
    <2>5. At("sent")' \subseteq At("sent")
      BY <2>3, <2>4 DEF At
    <2>6. /\ At("handled")' \subseteq At("handled")
          /\ c \in At("handled") /\ c \notin At("handled")'
      BY <2>2 DEF At, TypeOK
    <2>7. At("used")' \subseteq At("used") \union {c}
      BY <2>1 DEF At, Worked
    <2> QED
      BY <2>2, <2>5, <2>6, <2>7, StagesStay, PermissionMoves DEF Stages
  <1> QED
    BY <1>1, <1>2, <1>3, <1>4, <1>5, <1>6 DEF ChildStep

(* No permission is in two places, and none comes a second time.            *)
LEMMA NextOnePermission ==
    TypeOK /\ OneFrameEach /\ OnePermission /\ NoRepeats /\ [Next]_vars => OnePermission'
  <1> SUFFICES ASSUME TypeOK, OneFrameEach, OnePermission, NoRepeats, [Next]_vars
               PROVE  OnePermission'
    OBVIOUS
  <1>1. CASE P_Post \/ P_Check \/ P_Pause \/ P_KillAll \/ UNCHANGED vars
    <2>1. UNCHANGED <<counters, frames, pending, allowed, childVars>>
      BY <1>1 DEF P_Post, P_Check, P_Pause, P_KillAll, P_Goto, vars, parentVars
    <2> QED
      BY <2>1, StagesStay, StagesShrink DEF Stages, counters, childVars
  <1>2. CASE U_Post \/ X_Post \/ R_Store
    <2>1. /\ frames # <<>> /\ Return
          /\ UNCHANGED <<K, k, childBuf, pending, allowed, childVars>>
      BY <1>2 DEF U_Post, X_Post, R_Store, InHandler, counters
    <2> QED
      BY <2>1, ReturnStages, StagesStay, StagesShrink DEF Stages, childVars
  <1> QED
    BY <1>1, <1>2, CatchKeepsPermissions, CountKeepsPermissions, AllowKeepsPermissions,
       LoadKeepsPermissions, ChildKeepsPermissions DEF Next, ParentStep

(* Only catchUSR1 remembers who asked.                                      *)
LEMMA OnlyCountRemembers ==
    ASSUME [Next]_vars, ~ U_Count
    PROVE  UNCHANGED <<K, k, childBuf>>
  <1> USE DEF vars, parentVars, counters
  <1>1. ASSUME ParentStep PROVE UNCHANGED <<K, k, childBuf>>
    BY <1>1 DEF ParentStep, P_Post, P_Check, P_Pause, P_KillAll, P_Goto, P_Interrupted,
                U_Allow, U_Post, R_Load, R_Store, X_Post
  <1>2. ASSUME NEW c \in Children, ChildStep(c) PROVE UNCHANGED <<K, k, childBuf>>
    BY <1>2 DEF ChildStep, C_WaitToAsk, C_Ask, C_Pause, C_WaitToLeave, C_Exit, C_Goto,
                H_Allowed, H_Wait, H_Work, H_Post, H_Goto
  <1> QED
    BY <1>1, <1>2 DEF Next

(* What a handler may hold: nobody twice, and only catchUSR1 anybody.       *)
Allows(f) == Once(f.allow) /\ (f.allow # <<>> => f.signal.number = "USR1")

(* Who asked is remembered once and allowed once.                           *)
LEMMA CountKeepsOnce ==
    ASSUME TypeOK, OnePermission, NoRepeats, U_Count
    PROVE  NoRepeats'
  <1>1. PICK c \in Children, i \in 1..Len(frames) :
              /\ i = Len(frames) /\ Len(frames') = Len(frames)
              /\ frames[i].signal = [number |-> "USR1", from |-> c]
              /\ frames[i].place = "begin"
              /\ \A j \in 1..Len(frames) : j # i => frames'[j] = frames[j]
              /\ frames'[i].place = "allow"
              /\ k' = k + 1 /\ UNCHANGED <<flag, K, n, parent, pending, allowed, childVars>>
              /\ \/ /\ k + 1 < K /\ childBuf' = Append(childBuf, c)
                    /\ frames'[i].allow = <<>>
                 \/ /\ k + 1 = K /\ childBuf' = Append(childBuf, c)
                    /\ frames'[i].allow = Append(childBuf, c)
                 \/ /\ k + 1 > K /\ frames'[i].allow = <<c>>
    BY CountsRequest
  <1>2. k \in Nat /\ K \in Nat /\ Len(childBuf) \in Nat
    BY DEF TypeOK
  <1>3. frames'[i].signal.number = "USR1"
    BY <1>1, InnermostMoves
  <1>4. k < K => Once(Append(childBuf, c))
    <2> SUFFICES ASSUME k < K PROVE Once(Append(childBuf, c))
      OBVIOUS
    <2>1. \A j \in 1..Len(childBuf) : childBuf[j] # c
      <3>1. c \in At("caught")
        BY <1>1 DEF At
      <3>2. At("caught") \cap At("buffered") = {}
        BY DEF OnePermission, Stages
      <3> QED
        BY <3>1, <3>2 DEF At
    <2>2. Once(childBuf)
      BY DEF NoRepeats
    <2> QED
      BY <2>1, <2>2, BufferGrows DEF Once
  <1>5. Once(<<c>>) /\ Once(<<>>)
    BY DEF Once
  <1>6. k' < K' => childBuf' = Append(childBuf, c) /\ k < K
    BY <1>1, <1>2
  <1>7. Once(frames'[i].allow)
    <2>1. CASE k + 1 < K
      BY <1>1, <1>2, <1>5, <2>1
    <2>2. CASE k + 1 = K
      <3>1. frames'[i].allow = Append(childBuf, c) /\ k < K
        BY <1>1, <1>2, <2>2
      <3> QED
        BY <1>4, <3>1
    <2>3. CASE k + 1 > K
      BY <1>1, <1>2, <1>5, <2>3
    <2> QED
      BY <1>2, <2>1, <2>2, <2>3
  <1>8. \A j \in 1..Len(frames) : j # i => Once(frames'[j].allow)
           /\ (frames'[j].allow # <<>> => frames'[j].signal.number = "USR1")
    BY <1>1 DEF NoRepeats
  <1> QED
    BY <1>1, <1>3, <1>4, <1>6, <1>7, <1>8 DEF NoRepeats, Once

(* The rest of those to be allowed has nobody twice either.                 *)
LEMMA AllowKeepsOnce ==
    ASSUME TypeOK, NoRepeats, U_Allow
    PROVE  \A i \in 1..Len(frames)' : Allows(frames[i])'
  <1>1. PICK c \in Children, i \in 1..Len(frames) :
              /\ i = Len(frames) /\ Len(frames') = Len(frames)
              /\ \A j \in 1..Len(frames) : j # i => frames'[j] = frames[j]
              /\ frames'[i].signal = frames[i].signal /\ frames'[i].place = frames[i].place
              /\ Len(frames[i].allow) \in Nat \ {0} /\ frames[i].allow[1] = c
              /\ Len(frames'[i].allow) = Len(frames[i].allow) - 1
              /\ \A l \in 1..Len(frames'[i].allow) :
                     frames'[i].allow[l] = frames[i].allow[l + 1]
              /\ allowed' = allowed \union {c}
              /\ UNCHANGED <<flag, counters, parent, pending, childVars>>
    BY AllowsFirst
  <1>2. \A a, b \in 1..Len(frames[i].allow) :
            frames[i].allow[a] = frames[i].allow[b] => a = b
    BY DEF NoRepeats, Once
  <1>3. \A l \in 1..Len(frames'[i].allow) : l + 1 \in 1..Len(frames[i].allow)
    BY <1>1
  <1>4. \A a, b \in 1..Len(frames'[i].allow) :
            frames'[i].allow[a] = frames'[i].allow[b] => a + 1 = b + 1
    BY <1>1, <1>2, <1>3
  <1>5. \A a, b \in 1..Len(frames'[i].allow) :
            frames'[i].allow[a] = frames'[i].allow[b] => a = b
    <2>1. \A a, b \in Int : a + 1 = b + 1 => a = b
      OBVIOUS
    <2> QED
      BY <1>4, <2>1
  <1>6. Once(frames'[i].allow)
    BY <1>5 DEF Once
  <1>7. frames[i].allow # <<>>
    <2>1. frames[i].allow \in Seq(Children)
      <3>1. frames[i] \in Frames
        BY DEF TypeOK
      <3> QED
        BY <3>1 DEF Frames
    <2> QED
      BY <1>1, <2>1
  <1>8. Allows(frames'[i])
    BY <1>1, <1>6, <1>7 DEF NoRepeats, Allows
  <1>9. \A j \in 1..Len(frames) : j # i => Allows(frames'[j])
    BY <1>1 DEF NoRepeats, Allows
  <1> QED
    BY <1>1, <1>8, <1>9 DEF Allows, Once

(* Nobody is remembered twice or allowed twice.                             *)
LEMMA NextNoRepeats ==
    TypeOK /\ OnePermission /\ NoRepeats /\ [Next]_vars => NoRepeats'
  <1> SUFFICES ASSUME TypeOK, OnePermission, NoRepeats, [Next]_vars
               PROVE  NoRepeats'
    OBVIOUS
  <1>0. \A i \in 1..Len(frames) : Allows(frames[i])
    BY DEF NoRepeats, Allows
  <1>1. CASE U_Count
    BY <1>1, CountKeepsOnce
  <1>2. ASSUME ~ U_Count, \A i \in 1..Len(frames)' : Allows(frames'[i])
        PROVE  NoRepeats'
    BY <1>2, OnlyCountRemembers DEF NoRepeats, Allows, Once
  <1>3. CASE P_Interrupted
    <2>1. PICK s \in pending, f \in Frames :
              /\ f = [signal |-> s, place |-> "begin", allow |-> <<>>, read |-> 0]
              /\ frames' = Append(frames, f)
      BY <1>3, Interrupted
    <2>2. /\ Len(frames') = Len(frames) + 1 /\ frames'[Len(frames) + 1] = f
          /\ \A i \in 1..Len(frames) : frames'[i] = frames[i]
      BY <2>1, FramePushed
    <2>3. \A i \in 1..(Len(frames) + 1) : i \in 1..Len(frames) \/ i = Len(frames) + 1
      BY DEF TypeOK
    <2>4. Allows(f)
      BY <2>1 DEF Allows, Once
    <2>5. \A i \in 1..Len(frames)' : Allows(frames'[i])
      BY <1>0, <2>2, <2>3, <2>4
    <2> QED
      BY <1>1, <1>2, <2>5
  <1>4. CASE U_Allow
    <2>1. \A i \in 1..Len(frames)' : Allows(frames'[i])
      BY <1>4, AllowKeepsOnce DEF Allows, Once
    <2> QED
      BY <1>1, <1>2, <2>1
  <1>5. CASE R_Load
    <2>1. \A i \in 1..Len(frames) : frames'[i].allow = frames[i].allow
      <3>1. frames \in Seq(Frames) /\ Len(frames) \in 1..Len(frames)
        BY <1>5, InnermostMoves DEF TypeOK
      <3> QED
        BY <1>5, <3>1 DEF R_Load, Frames
    <2>2. \A i \in 1..Len(frames)' : Allows(frames'[i])
      BY <1>0, <1>5, <2>1, InnermostMoves DEF Allows
    <2> QED
      BY <1>1, <1>2, <2>2
  <1>6. CASE frames # <<>> /\ Return
    <2>1. \A i \in 1..Len(frames)' : Allows(frames'[i])
      BY <1>0, <1>6, FramePopped
    <2> QED
      BY <1>1, <1>2, <2>1
  <1>7. CASE UNCHANGED frames
    BY <1>0, <1>1, <1>2, <1>7
  <1> QED
    BY <1>1, <1>3, <1>4, <1>5, <1>6, <1>7, HowFramesChange

(* Every work is on its way to the parent or counted.                       *)
LEMMA NextWorkIsCounted == IInv /\ [Next]_vars => WorkIsCounted'
  <1> SUFFICES ASSUME IInv, [Next]_vars, OneNumber' PROVE WorkIsCounted'
    BY DEF WorkIsCounted
  <1> DEFINE P == Cardinality(Pending(RealTime))
             R == Cardinality(Running(RealTime))
             D == Cardinality(Worked)
  <1>1. /\ TypeOK /\ OneFrameEach /\ SignalsAreWork /\ ReadIsCurrent
        /\ OnePermission /\ NoRepeats
    BY DEF IInv
  <1>2. OneNumber
    BY <1>1, OneNumberBefore
  <1>3. IsFiniteSet(Worked) /\ D \in Nat
    <2>1. Worked \subseteq Children
      BY <1>1 DEF TypeOK, Worked
    <2> QED
      BY <2>1, WorkPermitsAssumption, FS_Subset, FS_CardinalityType
  <1>4. P \in Nat /\ R \in Nat /\ n \in Nat /\ n + P + R = D
    BY <1>1, <1>2, FiniteParts DEF TypeOK, IInv, WorkIsCounted
  <1>5. n' + P' + R' = D' => WorkIsCounted'
    BY DEF WorkIsCounted
  <1>6. /\ UNCHANGED pending => P' = P
        /\ UNCHANGED frames => R' = R
        /\ UNCHANGED drawn => D' = D
    BY DEF Pending, Running, Worked
  <1>7. "USR1" \notin RealTime /\ "CHLD" \notin RealTime
    BY WorkPermitsAssumption
  <1> HIDE DEF P, R, D
  <1>8. CASE P_Post \/ P_Check \/ P_Pause \/ P_KillAll \/ UNCHANGED vars
    <2>1. UNCHANGED <<n, pending, frames, drawn>>
      BY <1>8 DEF P_Post, P_Check, P_Pause, P_KillAll, P_Goto, vars, parentVars, counters,
                  childVars
    <2> QED
      BY <1>4, <1>5, <1>6, <2>1
  <1>9. CASE P_Interrupted
    <2>1. PICK s \in pending, f \in Frames :
              /\ f.signal = s /\ pending' = pending \ {s} /\ frames' = Append(frames, f)
              /\ UNCHANGED <<n, drawn>>
      BY <1>1, <1>9, Interrupted DEF counters, childVars
    <2>2. R' = IF s.number \in RealTime THEN R + 1 ELSE R
      BY <1>1, <2>1, FramePushed DEF R
    <2>3. P' = IF s.number \in RealTime THEN P - 1 ELSE P
      BY <1>1, <2>1, SignalCaught DEF P
    <2> QED
      BY <1>4, <1>5, <1>6, <2>1, <2>2, <2>3
  <1>10. CASE U_Count \/ U_Allow \/ R_Load
    <2>1. R' = R
      BY <1>1, <1>10, InnermostMoves DEF R, Running
    <2>2. UNCHANGED <<n, pending, drawn>>
      BY <1>10 DEF U_Count, U_Allow, R_Load, counters, childVars
    <2> QED
      BY <1>4, <1>5, <1>6, <2>1, <2>2
  <1>11. CASE U_Post \/ X_Post
    <2>1. /\ frames # <<>> /\ Return /\ Top.signal.number \notin RealTime
          /\ UNCHANGED <<n, pending, drawn>>
      BY <1>7, <1>11 DEF U_Post, X_Post, InHandler, counters, childVars
    <2>2. R' = R
      BY <1>1, <2>1, FramePopped DEF R
    <2> QED
      BY <1>4, <1>5, <1>6, <2>1, <2>2
  <1>12. CASE R_Store
    <2>1. /\ frames # <<>> /\ Return /\ Top.signal.number \in RealTime
          /\ Top.place = "store" /\ n' = Top.read + 1 /\ UNCHANGED <<pending, drawn>>
      BY <1>12 DEF R_Store, InHandler, childVars
    <2>2. R' = R - 1
      BY <1>1, <2>1, FramePopped DEF R
    <2>3. Top.read = n
      BY <1>1, <1>2, <2>1, TopIsFrame DEF ReadIsCurrent
    <2> QED
      BY <1>4, <1>5, <1>6, <2>1, <2>2, <2>3
  <1>13. ASSUME NEW c \in Children, C_Ask(c) \/ C_Exit(c) PROVE WorkIsCounted'
    <2>1. PICK number \in Guarded : Signal(number, c)
      BY <1>13 DEF C_Ask, C_Exit, Guarded
    <2>2. number \notin RealTime
      BY <1>7 DEF Guarded
    <2>3. P' = P
      BY <1>1, <2>1, <2>2, SignalSent DEF P
    <2>4. UNCHANGED <<n, frames, drawn>>
      BY <1>13 DEF C_Ask, C_Exit, C_Goto, parentVars, counters
    <2> QED
      BY <1>4, <1>5, <1>6, <2>3, <2>4
  <1>14. ASSUME NEW c \in Children, H_Work(c) PROVE WorkIsCounted'
    <2>1. PICK d \in Children, number \in RealTime :
              /\ Signal(number, d) /\ d \notin Worked /\ Worked' = Worked \union {d}
              /\ UNCHANGED parentVars
      BY <1>1, <1>14, HowDrawnChanges
    <2>2. [number |-> number, from |-> d] \notin pending
      BY <1>1, <2>1 DEF SignalsAreWork, IsWork
    <2>3. P' = P + 1
      BY <1>1, <2>1, <2>2, SignalSent DEF P
    <2>4. D' = D + 1
      BY <1>3, <2>1, FS_AddElement DEF D
    <2>5. UNCHANGED <<n, frames>>
      BY <2>1 DEF parentVars, counters
    <2> QED
      BY <1>4, <1>5, <1>6, <2>3, <2>4, <2>5
  <1>15. ASSUME NEW c \in Children, ChildStep(c), ~ (C_Ask(c) \/ C_Exit(c) \/ H_Work(c))
         PROVE  WorkIsCounted'
    <2>1. UNCHANGED <<n, pending, frames, drawn>>
      BY <1>15 DEF ChildStep, C_WaitToAsk, C_Pause, C_WaitToLeave, C_Goto,
                   H_Allowed, H_Wait, H_Post, H_Goto, parentVars, counters
    <2> QED
      BY <1>4, <1>5, <1>6, <2>1
  <1> QED
    BY <1>8, <1>9, <1>10, <1>11, <1>12, <1>13, <1>14, <1>15 DEF Next, ParentStep

(* At the start nobody has asked.                                           *)
LEMMA InitWork == Init => IInv
  <1> SUFFICES ASSUME Init PROVE IInv
    OBVIOUS
  <1>1. /\ Pending(RealTime) = {} /\ Running(RealTime) = {} /\ Worked = {}
        /\ Len(frames) = 0 /\ Len(childBuf) = 0
    BY DEF Init, Pending, Running, Worked
  <1>2. \A i \in 1..0 : FALSE
    OBVIOUS
  <1>3. WorkIsCounted
    BY <1>1, FS_EmptySet DEF Init, WorkIsCounted
  <1>4. OneFrameEach /\ SignalsAreWork /\ ReadIsCurrent /\ NoRepeats
    BY <1>1, <1>2 DEF Init, OneFrameEach, SignalsAreWork, ReadIsCurrent, NoRepeats, Once
  <1>5. OnePermission
    <2>1. \A p \in Stages : p # "unasked" => At(p) = {}
      BY <1>1, <1>2 DEF Init, At
    <2> QED
      BY <2>1 DEF OnePermission
  <1> QED
    BY <1>3, <1>4, <1>5, InitFlag DEF IInv

(* Whatever the handlers interrupt, if the children draw the same number    *)
(* nobody's work is lost: all of it is counted in the end, which is what    *)
(* the parent waits for.                                                    *)
THEOREM WorkCounted == Spec => []WorkIsCounted
  <1>1. IInv /\ [Next]_vars => IInv'
    BY NextTypeOK, NextOneFrame, NextSignalsAreWork, NextReadIsCurrent, NextOnePermission,
       NextNoRepeats, NextWorkIsCounted DEF IInv
  <1>2. IInv => WorkIsCounted
    BY DEF IInv
  <1> QED
    BY <1>1, <1>2, InitWork, PTL DEF Spec

-----------------------------------------------------------------------------
(* The programs of cw04 that Ctrl-Z stops and continues.                    *)

Z_Places ==
    {"begin", "loop", "sleep", "forked", "armed", "pause"} \union
    {"first", "first killed", "first armed", "first pause"} \union
    {"second", "second forked", "second armed", "second pause"}

Z_TypeOK ==
    /\ Z_program \in Both /\ Z_frames \in Seq(Z_Places) /\ Z_frames # <<>>
    /\ Z_action \in {"default", "first", "second"} /\ Z_state \in {"runs", "stopped", "ended"}
    /\ Z_scripts \in Seq({"runs", "stopped", "killed"})
    /\ Z_early \in BOOLEAN

(* zad1a: main, on it catchSIGTSTP, and on that catch2ndSIGTSTP.  The       *)
(* second Ctrl-Z is handled before pause if and only if it came early, and  *)
(* then catchSIGTSTP never returns.                                         *)
ThreeFrames ==
    /\ Z_scripts = <<>>
    /\ Len(Z_frames) \in {1, 2, 3} /\ Z_frames[1] \in {"begin", "loop", "sleep"}
    /\ Len(Z_frames) = 1 => Z_action # "second" /\ ~ Z_early
    /\ Len(Z_frames) = 2 =>
          /\ Z_frames[2] \in {"first", "first armed", "first pause"} /\ Z_action # "first"
          /\ Z_frames[2] = "first" => Z_action = "default" /\ ~ Z_early
          /\ Z_frames[2] # "first" => Z_action = IF Z_early THEN "default" ELSE "second"
    /\ Len(Z_frames) = 3 =>
          /\ Z_frames[2] \in {"first armed", "first pause"} /\ Z_frames[3] = "second"
          /\ Z_action = "default"
          /\ Z_frames[2] = "first armed" <=> Z_early

(* zad1b: the handlers never return, so that only the last one counts.  It  *)
(* says what Ctrl-Z will do, and whether the last script is alive; all      *)
(* before that were killed.                                                 *)
LastFrame ==
    /\ \/ /\ Place \in {"begin", "forked", "first", "first killed", "second", "second forked"}
          /\ Z_action = "default"
       \/ Place \in {"armed", "pause", "second armed", "second pause"} /\ Z_action = "first"
       \/ Place \in {"first armed", "first pause"} /\ Z_action = "second"
    /\ Alive \subseteq {Len(Z_scripts)}
    /\ Place \in {"begin", "first killed", "first armed", "first pause", "second"} => Alive = {}
    /\ Place \in {"forked", "armed", "pause", "first", "second forked", "second armed",
                  "second pause"} /\ Z_state # "ended" => Alive # {}

Z_Inv ==
    /\ Z_TypeOK
    /\ Z_program = "zad1a" => ThreeFrames
    /\ Z_program = "zad1b" => LastFrame

(* What is below the last frame of a stack,                                 *)
LEMMA FrontOf ==
    ASSUME NEW S, NEW s \in Seq(S), s # <<>>
    PROVE  /\ Front(s) \in Seq(S) /\ Len(Front(s)) = Len(s) - 1
           /\ \A i \in 1..(Len(s) - 1) : Front(s)[i] = s[i]
  <1> DEFINE m == Len(s) - 1
             t == SubSeq(s, 1, m)
  <1>1. m \in Nat /\ Len(s) = m + 1 /\ 1 \in 1..(Len(s) + 1) /\ m \in 0..Len(s)
    OBVIOUS
  <1> HIDE DEF m
  <1>2. /\ t \in Seq(S) /\ Len(t) = IF 1 <= m THEN m - 1 + 1 ELSE 0
        /\ \A i \in 1..(m - 1 + 1) : t[i] = s[1 + i - 1]
    BY <1>1, SubSeqProperties
  <1> HIDE DEF t
  <1>3. Len(t) = m /\ \A i \in 1..m : t[i] = s[i]
    BY <1>1, <1>2
  <1> QED
    BY <1>2, <1>3 DEF Front, m, t

(* and what it is with another last frame.                                  *)
LEMMA OtherLast ==
    ASSUME NEW S, NEW s \in Seq(S), s # <<>>, NEW x \in S
    PROVE  LET t == Append(Front(s), x) IN
              /\ t \in Seq(S) /\ t # <<>> /\ Len(t) = Len(s) /\ Last(t) = x
              /\ \A i \in 1..(Len(s) - 1) : t[i] = s[i]
  <1>1. Len(s) \in Nat \ {0}
    OBVIOUS
  <1> QED
    BY <1>1, FrontOf DEF Last

(* What a step of the program itself does to the stack.                     *)
MovesOn(from, to) ==
    /\ Place = from /\ Place' = to /\ Z_state = "runs"
    /\ Z_frames' \in Seq(Z_Places) /\ Z_frames' # <<>> /\ Len(Z_frames') = Len(Z_frames)
    /\ Z_frames[Len(Z_frames)] = from /\ Z_frames'[Len(Z_frames)] = to
    /\ \A i \in 1..(Len(Z_frames) - 1) : Z_frames'[i] = Z_frames[i]
    /\ UNCHANGED <<Z_program, Z_state, Z_presses, Z_early>>

(* A step of a program changes the place of its last frame only.            *)
LEMMA StepMoves ==
    ASSUME Z_TypeOK, NEW programs, NEW from, NEW to \in Z_Places,
           Step(programs, from, to)
    PROVE  MovesOn(from, to)
  <1> DEFINE t == Append(Front(Z_frames), to)
  <1>1. /\ t \in Seq(Z_Places) /\ t # <<>> /\ Len(t) = Len(Z_frames) /\ Last(t) = to
        /\ \A i \in 1..(Len(Z_frames) - 1) : t[i] = Z_frames[i]
    BY OtherLast DEF Z_TypeOK
  <1>2. Z_frames' = t
    BY DEF Step
  <1> HIDE DEF t
  <1> QED
    BY <1>1, <1>2 DEF Step, Place, Last, MovesOn

(* The way of each of them.                                                 *)
LEMMA Ways ==
    ASSUME Z_TypeOK
    PROVE  /\ A_Begin => MovesOn("begin", "loop") /\ Z_program = "zad1a"
           /\ A_Arm   => MovesOn("loop", "sleep") /\ Z_program = "zad1a"
           /\ A_Sleep => MovesOn("sleep", "loop") /\ Z_program = "zad1a"
           /\ B_Fork  => MovesOn("begin", "forked") /\ Z_program = "zad1b"
           /\ B_Arm   => MovesOn("forked", "armed") /\ Z_program = "zad1b"
           /\ B_Pause => MovesOn("armed", "pause") /\ Z_program = "zad1b"
           /\ F_Kill  => MovesOn("first", "first killed") /\ Z_program = "zad1b"
           /\ F_Arm   => \/ MovesOn("first", "first armed") /\ Z_program = "zad1a"
                         \/ MovesOn("first killed", "first armed") /\ Z_program = "zad1b"
           /\ F_Pause => MovesOn("first armed", "first pause")
           /\ S_Fork  => MovesOn("second", "second forked") /\ Z_program = "zad1b"
           /\ S_Arm   => MovesOn("second forked", "second armed") /\ Z_program = "zad1b"
           /\ S_Pause => MovesOn("second armed", "second pause") /\ Z_program = "zad1b"
  <1>0. /\ \A to \in {"loop", "sleep", "forked", "armed", "pause"} : to \in Z_Places
        /\ \A to \in {"first killed", "first armed", "first pause"} : to \in Z_Places
        /\ \A to \in {"second forked", "second armed", "second pause"} : to \in Z_Places
    BY DEF Z_Places
  <1>1. /\ A_Begin => Step({"zad1a"}, "begin", "loop")
        /\ A_Arm => Step({"zad1a"}, "loop", "sleep")
        /\ A_Sleep => Step({"zad1a"}, "sleep", "loop")
        /\ B_Fork => Step({"zad1b"}, "begin", "forked")
        /\ B_Arm => Step({"zad1b"}, "forked", "armed")
        /\ B_Pause => Step({"zad1b"}, "armed", "pause")
        /\ F_Kill => Step({"zad1b"}, "first", "first killed")
        /\ F_Pause => Step(Both, "first armed", "first pause")
        /\ S_Fork => Step({"zad1b"}, "second", "second forked")
        /\ S_Arm => Step({"zad1b"}, "second forked", "second armed")
        /\ S_Pause => Step({"zad1b"}, "second armed", "second pause")
        /\ F_Arm => \/ Step({"zad1a"}, "first", "first armed")
                    \/ Step({"zad1b"}, "first killed", "first armed")
    BY DEF A_Begin, A_Arm, A_Sleep, B_Fork, B_Arm, B_Pause, F_Kill, F_Pause, S_Fork, S_Arm,
           S_Pause, F_Arm
  <1>2. A_Begin => MovesOn("begin", "loop") /\ Z_program = "zad1a"
    BY <1>0, <1>1, StepMoves DEF Step
  <1>3. A_Arm => MovesOn("loop", "sleep") /\ Z_program = "zad1a"
    BY <1>0, <1>1, StepMoves DEF Step
  <1>4. A_Sleep => MovesOn("sleep", "loop") /\ Z_program = "zad1a"
    BY <1>0, <1>1, StepMoves DEF Step
  <1>5. B_Fork => MovesOn("begin", "forked") /\ Z_program = "zad1b"
    BY <1>0, <1>1, StepMoves DEF Step
  <1>6. B_Arm => MovesOn("forked", "armed") /\ Z_program = "zad1b"
    BY <1>0, <1>1, StepMoves DEF Step
  <1>7. B_Pause => MovesOn("armed", "pause") /\ Z_program = "zad1b"
    BY <1>0, <1>1, StepMoves DEF Step
  <1>8. F_Kill => MovesOn("first", "first killed") /\ Z_program = "zad1b"
    BY <1>0, <1>1, StepMoves DEF Step
  <1>9. F_Pause => MovesOn("first armed", "first pause")
    BY <1>0, <1>1, StepMoves
  <1>10. S_Fork => MovesOn("second", "second forked") /\ Z_program = "zad1b"
    BY <1>0, <1>1, StepMoves DEF Step
  <1>11. S_Arm => MovesOn("second forked", "second armed") /\ Z_program = "zad1b"
    BY <1>0, <1>1, StepMoves DEF Step
  <1>12. S_Pause => MovesOn("second armed", "second pause") /\ Z_program = "zad1b"
    BY <1>0, <1>1, StepMoves DEF Step
  <1>13. F_Arm => \/ MovesOn("first", "first armed") /\ Z_program = "zad1a"
                  \/ MovesOn("first killed", "first armed") /\ Z_program = "zad1b"
    BY <1>0, <1>1, StepMoves DEF Step
  <1> QED
    BY <1>2, <1>3, <1>4, <1>5, <1>6, <1>7, <1>8, <1>9, <1>10, <1>11, <1>12, <1>13

(* The scripts after one is started or killed.                              *)
LEMMA ScriptsAfter ==
    ASSUME Z_TypeOK, Alive \subseteq {Len(Z_scripts)}
    PROVE  /\ NewScript /\ Alive = {} =>
                 /\ Z_scripts' \in Seq({"runs", "stopped", "killed"})
                 /\ Alive' = {Len(Z_scripts')}
           /\ Alive # {} /\ Z_scripts' = Append(Front(Z_scripts), "killed") =>
                 Z_scripts' \in Seq({"runs", "stopped", "killed"}) /\ Alive' = {}
  <1> DEFINE S == {"runs", "stopped", "killed"}
  <1>0. Z_scripts \in Seq(S)
    BY DEF Z_TypeOK
  <1>1. ASSUME NewScript, Alive = {}
        PROVE  Z_scripts' \in Seq(S) /\ Alive' = {Len(Z_scripts')}
    BY <1>0, <1>1 DEF NewScript, Alive
  <1>2. ASSUME Alive # {}, Z_scripts' = Append(Front(Z_scripts), "killed")
        PROVE  Z_scripts' \in Seq(S) /\ Alive' = {}
    <2>1. Z_scripts # <<>>
      BY <1>0, <1>2 DEF Alive
    <2>2. /\ Z_scripts' \in Seq(S) /\ Len(Z_scripts') = Len(Z_scripts)
          /\ Last(Z_scripts') = "killed"
          /\ \A i \in 1..(Len(Z_scripts) - 1) : Z_scripts'[i] = Z_scripts[i]
      <3>1. "killed" \in S
        OBVIOUS
      <3> HIDE DEF S
      <3> QED
        BY <1>0, <1>2, <2>1, <3>1, OtherLast
    <2> QED
      BY <1>0, <2>1, <2>2 DEF Alive, Last
  <1> QED
    BY <1>1, <1>2

(* Signals of the terminal and the shell, but Ctrl-C, kill no script.       *)
LEMMA ScriptsStay ==
    ASSUME Z_TypeOK, NEW from \in {"runs", "stopped"}, NEW to \in {"runs", "stopped", "killed"},
           ScriptsBecome(from, to)
    PROVE  /\ Z_scripts' \in Seq({"runs", "stopped", "killed"})
           /\ Len(Z_scripts') = Len(Z_scripts) /\ Alive' \subseteq Alive
           /\ to # "killed" => Alive' = Alive
  BY DEF ScriptsBecome, Z_TypeOK, Alive

(* catch2ndSIGTSTP of zad1a returns to the handler below it.                *)
LEMMA FramesOfReturn ==
    ASSUME Z_TypeOK, Z_program = "zad1a" => ThreeFrames, S_Return
    PROVE  Z_program = "zad1a" /\ ThreeFrames /\ Len(Z_frames) = 3 /\ Z_state = "runs"
  <1>1. ThreeFrames /\ Z_program = "zad1a" /\ Z_state = "runs" /\ Place = "second"
    BY DEF S_Return
  <1>2. Len(Z_frames) \in {1, 2, 3}
    BY <1>1 DEF ThreeFrames
  <1>3. Z_frames[Len(Z_frames)] = "second"
    BY <1>1 DEF Place, Last
  <1>4. Len(Z_frames) = 3
    BY <1>1, <1>2, <1>3 DEF ThreeFrames
  <1> QED
    BY <1>1, <1>4

(* Types, and the two programs.                                             *)
LEMMA NextZTypeOK == ASSUME Z_Inv, Z_Next PROVE Z_TypeOK'
  <1>0. Z_TypeOK
    BY DEF Z_Inv
  <1>1. CASE A_Begin \/ A_Arm \/ A_Sleep \/ B_Arm \/ B_Pause \/ F_Arm \/ F_Pause \/ S_Arm
             \/ S_Pause
    <2>1. /\ Z_frames' \in Seq(Z_Places) /\ Z_frames' # <<>>
          /\ UNCHANGED <<Z_program, Z_state, Z_early>>
      BY <1>0, <1>1, Ways DEF MovesOn
    <2>2. Z_action' \in {Z_action, "first", "second"} /\ UNCHANGED Z_scripts
      BY <1>1 DEF A_Begin, A_Arm, A_Sleep, B_Arm, B_Pause, F_Arm, F_Pause, S_Arm, S_Pause
    <2> QED
      BY <1>0, <2>1, <2>2 DEF Z_TypeOK
  <1>2. CASE B_Fork \/ S_Fork \/ F_Kill
    <2>1. /\ Z_frames' \in Seq(Z_Places) /\ Z_frames' # <<>>
          /\ UNCHANGED <<Z_program, Z_state, Z_early>> /\ Z_program = "zad1b"
          /\ Z_state = "runs" /\ (F_Kill => Place = "first")
          /\ (B_Fork \/ S_Fork => Place \in {"begin", "second"})
      BY <1>0, <1>2, Ways DEF MovesOn
    <2>2. Z_scripts' \in Seq({"runs", "stopped", "killed"})
      BY <1>0, <1>2, <2>1, ScriptsAfter DEF Z_Inv, LastFrame, F_Kill, B_Fork, S_Fork
    <2>3. UNCHANGED Z_action
      BY <1>2 DEF F_Kill, B_Fork, S_Fork
    <2> QED
      BY <1>0, <2>1, <2>2, <2>3 DEF Z_TypeOK
  <1>3. CASE S_Return
    <2>1. /\ Z_program = "zad1a" /\ Len(Z_frames) = 3
          /\ Z_frames[1] \in Z_Places /\ Z_frames # <<>>
      BY <1>0, <1>3, FramesOfReturn DEF Z_Inv, Z_TypeOK
    <2> DEFINE below == Front(Z_frames)
    <2>2. below \in Seq(Z_Places) /\ Len(below) = 2 /\ below[1] = Z_frames[1]
      <3>1. below \in Seq(Z_Places) /\ Len(below) = Len(Z_frames) - 1
            /\ \A i \in 1..(Len(Z_frames) - 1) : below[i] = Z_frames[i]
        BY <1>0, <2>1, FrontOf DEF Z_TypeOK
      <3> QED
        BY <2>1, <3>1
    <2>4. Z_frames' = below \/ Z_frames' = <<"loop">> \/ Z_frames' = <<Head(below)>>
      BY <1>3 DEF S_Return
    <2> HIDE DEF below
    <2>5. "loop" \in Z_Places
      BY DEF Z_Places
    <2>6. Head(below) \in Z_Places /\ below # <<>>
      BY <2>1, <2>2
    <2>3. Z_frames' \in Seq(Z_Places) /\ Z_frames' # <<>>
      <3>1. \A x \in Z_Places : <<x>> \in Seq(Z_Places) /\ <<x>> # <<>>
        OBVIOUS
      <3> HIDE DEF Z_Places
      <3> QED
        BY <2>2, <2>4, <2>5, <2>6, <3>1
    <2> QED
      BY <1>0, <1>3, <2>3 DEF S_Return, Z_TypeOK
  <1>4. CASE CtrlZ
    <2>1. Z_frames' \in Seq(Z_Places) /\ Z_frames' # <<>>
      <3>1. Z_action # "default" => Z_action \in Z_Places
        BY <1>0 DEF Z_TypeOK, Z_Places
      <3>2. /\ Z_frames \in Seq(Z_Places) /\ Z_frames # <<>>
            /\ \/ Z_frames' = Z_frames
               \/ Z_action \in Z_Places /\ Z_frames' = Append(Z_frames, Z_action)
        BY <1>0, <1>4, <3>1 DEF Z_TypeOK, CtrlZ
      <3> QED
        BY <3>2
    <2>2. Z_scripts' \in Seq({"runs", "stopped", "killed"})
      BY <1>0, <1>4, ScriptsStay DEF CtrlZ
    <2> QED
      BY <1>0, <1>4, <2>1, <2>2 DEF CtrlZ, Z_TypeOK
  <1>5. CASE Continue \/ CtrlC
    <2>1. Z_scripts' \in Seq({"runs", "stopped", "killed"})
      BY <1>0, <1>5, ScriptsStay DEF Continue, CtrlC
    <2> QED
      BY <1>0, <1>5, <2>1 DEF Continue, CtrlC, Z_TypeOK
  <1> QED
    BY <1>1, <1>2, <1>3, <1>4, <1>5 DEF Z_Next

(* The last frame of zad1a.                                                 *)
LEMMA PlaceOfThree ==
    ASSUME Z_TypeOK, ThreeFrames
    PROVE  /\ Len(Z_frames) \in {1, 2, 3} /\ Place = Z_frames[Len(Z_frames)]
           /\ Place \in {"begin", "loop", "sleep"} => Len(Z_frames) = 1
           /\ Place \in {"first", "first armed", "first pause"} => Len(Z_frames) = 2
           /\ Place \in {"begin", "loop", "sleep", "first", "first armed", "first pause",
                         "second"}
  <1>1. Len(Z_frames) \in {1, 2, 3}
    BY DEF ThreeFrames
  <1>2. Place = Z_frames[Len(Z_frames)]
    BY DEF Place, Last
  <1> QED
    BY <1>1, <1>2 DEF ThreeFrames

(* A step within one frame of zad1a.                                        *)
LEMMA MovesOfThree ==
    ASSUME Z_TypeOK, ThreeFrames, NEW from, NEW to, MovesOn(from, to), UNCHANGED Z_scripts
    PROVE  /\ from \in {"begin", "loop", "sleep"} /\ to \in {"begin", "loop", "sleep"}
              /\ Z_action' # "second" => ThreeFrames'
           /\ from = "first" /\ to = "first armed" /\ Z_action' = "second" => ThreeFrames'
           /\ from = "first armed" /\ to = "first pause" /\ UNCHANGED Z_action => ThreeFrames'
  <1>1. /\ Len(Z_frames) \in {1, 2, 3} /\ Place = from
        /\ Place \in {"begin", "loop", "sleep"} => Len(Z_frames) = 1
        /\ Place \in {"first", "first armed", "first pause"} => Len(Z_frames) = 2
    BY PlaceOfThree DEF MovesOn
  <1>2. /\ Len(Z_frames') = Len(Z_frames) /\ Z_frames[Len(Z_frames)] = from
        /\ Z_frames'[Len(Z_frames)] = to
        /\ \A i \in 1..(Len(Z_frames) - 1) : Z_frames'[i] = Z_frames[i]
        /\ UNCHANGED <<Z_early, Z_scripts>>
    BY DEF MovesOn
  <1>3. CASE from \in {"begin", "loop", "sleep"}
    <2>1. Len(Z_frames) = 1
      BY <1>1, <1>3
    <2> QED
      BY <1>2, <1>3, <2>1 DEF ThreeFrames
  <1>4. CASE from \in {"first", "first armed"}
    <2>1. Len(Z_frames) = 2
      BY <1>1, <1>4
    <2>2. Len(Z_frames') = 2 /\ Z_frames'[2] = to /\ Z_frames'[1] = Z_frames[1]
          /\ Z_frames[2] = from
      BY <1>2, <2>1
    <2> HIDE DEF MovesOn
    <2> QED
      BY <1>2, <1>4, <2>1, <2>2 DEF ThreeFrames
  <1> QED
    BY <1>3, <1>4

(* zad1a keeps its frames as they should be.                                *)
LEMMA NextThreeFrames ==
    ASSUME Z_Inv, Z_Next, Z_program = "zad1a"
    PROVE  Z_program' = "zad1a" /\ ThreeFrames'
  <1>0. Z_TypeOK /\ ThreeFrames /\ Z_scripts = <<>>
    BY DEF Z_Inv, ThreeFrames
  <1>1. CASE A_Begin \/ A_Arm \/ A_Sleep
    BY <1>0, <1>1, Ways, MovesOfThree, PlaceOfThree
       DEF A_Begin, A_Arm, A_Sleep, MovesOn, ThreeFrames
  <1>2. CASE F_Arm \/ F_Pause
    BY <1>0, <1>2, Ways, MovesOfThree DEF F_Arm, F_Pause, MovesOn
  <1>3. CASE B_Fork \/ B_Arm \/ B_Pause \/ F_Kill \/ S_Fork \/ S_Arm \/ S_Pause
    BY <1>0, <1>3, Ways
  <1>4. CASE S_Return
    <2>1. Len(Z_frames) = 3 /\ Z_frames # <<>>
      BY <1>0, <1>4, FramesOfReturn DEF Z_TypeOK
    <2> DEFINE below == Front(Z_frames)
    <2>2. below \in Seq(Z_Places) /\ Len(below) = 2 /\ below[1] = Z_frames[1]
          /\ below[2] = Z_frames[2]
      <3>1. below \in Seq(Z_Places) /\ Len(below) = Len(Z_frames) - 1
            /\ \A i \in 1..(Len(Z_frames) - 1) : below[i] = Z_frames[i]
        BY <1>0, <2>1, FrontOf DEF Z_TypeOK
      <3> QED
        BY <2>1, <3>1
    <2>3. /\ Z_frames' = IF Last(below) = "first pause"
                         THEN <<IF Head(below) = "sleep" THEN "loop" ELSE Head(below)>>
                         ELSE below
          /\ UNCHANGED <<Z_program, Z_action, Z_scripts, Z_early>>
      BY <1>4 DEF S_Return
    <2>4. Head(below) = below[1] /\ Last(below) = below[2]
      BY <2>2 DEF Last
    <2> HIDE DEF below
    <2>5. /\ Z_frames[1] \in {"begin", "loop", "sleep"} /\ Z_action = "default"
          /\ Z_frames[2] \in {"first armed", "first pause"}
          /\ Z_frames[2] = "first armed" <=> Z_early
      BY <1>0, <2>1 DEF ThreeFrames
    <2>8. Z_program' = "zad1a" /\ Z_scripts' = <<>> /\ Z_action' = "default" /\ Z_early' = Z_early
      BY <1>0, <2>3, <2>5
    <2>6. CASE Z_frames[2] = "first pause"
      <3>1. /\ Z_frames' = <<IF Z_frames[1] = "sleep" THEN "loop" ELSE Z_frames[1]>>
            /\ Len(Z_frames') = 1 /\ Z_frames'[1] \in {"begin", "loop", "sleep"}
        BY <2>2, <2>3, <2>4, <2>5, <2>6
      <3>2. Len(Z_frames') # 2 /\ Len(Z_frames') # 3
        BY <3>1
      <3> QED
        BY <2>5, <2>6, <2>8, <3>1, <3>2 DEF ThreeFrames
    <2>7. CASE Z_frames[2] = "first armed"
      <3>1. Len(Z_frames') = 2 /\ Z_frames'[1] = Z_frames[1] /\ Z_frames'[2] = "first armed"
        BY <2>2, <2>3, <2>4, <2>7
      <3>2. Len(Z_frames') # 1 /\ Len(Z_frames') # 3
        <4>1. Len(Z_frames') = 2
          BY <3>1
        <4> QED
          BY <4>1
      <3> QED
        BY <2>5, <2>7, <2>8, <3>1, <3>2 DEF ThreeFrames
    <2> QED
      BY <1>4, <2>3, <2>5, <2>6, <2>7
  <1>5. CASE CtrlZ
    <2>1. /\ Z_frames' = IF Z_action = "default" THEN Z_frames ELSE Append(Z_frames, Z_action)
          /\ Z_action' = "default" /\ Z_early' = (Z_early \/ Place = "first armed")
          /\ ScriptsBecome("runs", "stopped") /\ UNCHANGED Z_program
      BY <1>5 DEF CtrlZ
    <2>2. Z_scripts' = <<>>
      <3>1. Z_scripts' \in Seq({"runs", "stopped", "killed"}) /\ Len(Z_scripts') = Len(Z_scripts)
        BY <1>0, <2>1, ScriptsStay
      <3> QED
        BY <1>0, <3>1
    <2>3. CASE Z_action = "default"
      <3>1. Place = "first armed" => Z_early
        BY <1>0, <2>3, PlaceOfThree DEF ThreeFrames
      <3>2. UNCHANGED <<Z_frames, Z_action, Z_early, Z_scripts>>
        BY <1>0, <2>1, <2>2, <2>3, <3>1 DEF Z_TypeOK
      <3>3. ThreeFrames => ThreeFrames'
        BY <3>2 DEF ThreeFrames
      <3> QED
        BY <1>0, <2>1, <3>3
    <2>4. CASE Z_action # "default"
      <3>1. /\ Len(Z_frames) \in {1, 2, 3} /\ Place = Z_frames[Len(Z_frames)]
            /\ Z_frames \in Seq(Z_Places) /\ Z_action \in {"first", "second"}
            /\ Z_frames' = Append(Z_frames, Z_action)
        BY <1>0, <2>1, <2>4, PlaceOfThree DEF Z_TypeOK
      <3>2. /\ Len(Z_frames') = Len(Z_frames) + 1
            /\ \A i \in 1..Len(Z_frames) : Z_frames'[i] = Z_frames[i]
            /\ Z_frames'[Len(Z_frames) + 1] = Z_action
        BY <3>1
      <3>3. Len(Z_frames) # 3
        BY <1>0, <2>4 DEF ThreeFrames
      <3>4. CASE Len(Z_frames) = 1
        <4>1. Len(Z_frames') = 2 /\ Z_frames'[1] = Z_frames[1] /\ Z_frames'[2] = Z_action
          BY <3>2, <3>4
        <4> QED
          <5>1. Z_frames[1] \in {"begin", "loop", "sleep"} /\ Z_action = "first"
            BY <1>0, <2>4, <3>1, <3>4 DEF ThreeFrames
          <5>2. Len(Z_frames') # 1 /\ Len(Z_frames') # 3
            BY <4>1
          <5>3. ~ Z_early'
            BY <1>0, <2>1, <3>1, <3>4, <5>1 DEF ThreeFrames
          <5> QED
            BY <2>1, <2>2, <4>1, <5>1, <5>2, <5>3 DEF ThreeFrames
      <3>5. CASE Len(Z_frames) = 2
        <4>1. /\ Len(Z_frames') = 3 /\ Z_frames'[1] = Z_frames[1] /\ Z_frames'[2] = Z_frames[2]
              /\ Z_frames'[3] = Z_action
          BY <3>2, <3>5
        <4>2. /\ Z_frames[2] \in {"first armed", "first pause"} /\ Z_action = "second"
              /\ Z_frames[1] \in {"begin", "loop", "sleep"}
          BY <1>0, <2>4, <3>1, <3>5 DEF ThreeFrames
        <4>3. Z_frames[2] = "first armed" <=> Z_early'
          BY <1>0, <2>1, <3>1, <3>5, <4>2 DEF ThreeFrames
        <4> QED
          BY <2>1, <2>2, <4>1, <4>2, <4>3 DEF ThreeFrames
      <3> QED
        BY <3>1, <3>3, <3>4, <3>5
    <2> QED
      BY <2>3, <2>4
  <1>6. CASE Continue \/ CtrlC
    <2>1. /\ ScriptsBecome("stopped", "runs") \/ ScriptsBecome("runs", "killed")
          /\ UNCHANGED <<Z_program, Z_frames, Z_action, Z_early>>
      BY <1>6 DEF Continue, CtrlC
    <2>2. Z_scripts' = <<>>
      BY <1>0, <2>1, ScriptsStay
    <2> QED
      BY <1>0, <2>1, <2>2 DEF ThreeFrames
  <1> QED
    BY <1>1, <1>2, <1>3, <1>4, <1>5, <1>6 DEF Z_Next

(* zad1b keeps at most the last script alive.                               *)
LEMMA NextLastFrame ==
    ASSUME Z_Inv, Z_Next, Z_program = "zad1b"
    PROVE  Z_program' = "zad1b" /\ LastFrame'
  <1>0. Z_TypeOK /\ LastFrame
    BY DEF Z_Inv
  <1>1. CASE B_Arm \/ B_Pause \/ F_Arm \/ F_Pause \/ S_Arm \/ S_Pause
    <2>1. UNCHANGED Z_scripts /\ Alive' = Alive
      BY <1>1 DEF B_Arm, B_Pause, F_Arm, F_Pause, S_Arm, S_Pause, Alive
    <2> QED
      BY <1>0, <1>1, <2>1, Ways
         DEF B_Arm, B_Pause, F_Arm, F_Pause, S_Arm, S_Pause, MovesOn, LastFrame
  <1>2. CASE B_Fork \/ S_Fork \/ F_Kill
    BY <1>0, <1>2, Ways, ScriptsAfter DEF B_Fork, S_Fork, F_Kill, MovesOn, LastFrame
  <1>3. CASE A_Begin \/ A_Arm \/ A_Sleep \/ S_Return
    BY <1>0, <1>3, Ways DEF S_Return
  <1>4. CASE CtrlZ
    <2>1. /\ Z_frames' = IF Z_action = "default" THEN Z_frames ELSE Append(Z_frames, Z_action)
          /\ Z_action' = "default" /\ Z_state' \in {"runs", "stopped"} /\ Z_state = "runs"
          /\ ScriptsBecome("runs", "stopped") /\ UNCHANGED Z_program
      BY <1>4 DEF CtrlZ
    <2>2. Len(Z_scripts') = Len(Z_scripts) /\ Alive' = Alive
      BY <1>0, <2>1, ScriptsStay DEF ThreeFrames
    <2>3. Place' = IF Z_action = "default" THEN Place ELSE Z_action
      BY <1>0, <2>1 DEF Place, Last, Z_TypeOK
    <2> QED
      BY <1>0, <2>1, <2>2, <2>3 DEF LastFrame
  <1>5. CASE Continue
    <2>1. Len(Z_scripts') = Len(Z_scripts) /\ Alive' = Alive
      BY <1>0, <1>5, ScriptsStay DEF Continue
    <2> QED
      BY <1>0, <1>5, <2>1 DEF LastFrame, Continue, Place
  <1>6. CASE CtrlC
    <2>1. Len(Z_scripts') = Len(Z_scripts) /\ Alive' \subseteq Alive
      BY <1>0, <1>6, ScriptsStay DEF CtrlC
    <2> QED
      BY <1>0, <1>6, <2>1 DEF LastFrame, CtrlC, Place
  <1> QED
    BY <1>1, <1>2, <1>3, <1>4, <1>5, <1>6 DEF Z_Next

(* Nothing has been started yet.                                            *)
LEMMA InitStop == Z_Init => Z_Inv
  <1> SUFFICES ASSUME Z_Init PROVE Z_Inv
    OBVIOUS
  <1>1. /\ Z_program \in Both /\ Z_frames = <<"begin">> /\ Z_action = "default"
        /\ Z_state = "runs" /\ Z_scripts = <<>> /\ Z_early = FALSE
    BY DEF Z_Init, Both
  <1>2. Z_TypeOK
    <2>1. "begin" \in Z_Places
      BY DEF Z_Places
    <2>2. <<"begin">> \in Seq(Z_Places) /\ <<"begin">> # <<>>
      BY <2>1
    <2>3. Z_scripts \in Seq({"runs", "stopped", "killed"})
      BY <1>1
    <2> HIDE DEF Z_Places
    <2> QED
      BY <1>1, <2>2, <2>3 DEF Z_TypeOK
  <1>3. Place = "begin" /\ Alive = {}
    BY <1>1 DEF Place, Last, Alive
  <1> QED
    BY <1>1, <1>2, <1>3 DEF Z_Inv, ThreeFrames, LastFrame

(* Every step keeps the invariant.                                          *)
LEMMA NextStop == Z_Inv /\ [Z_Next]_Z_vars => Z_Inv'
  <1> SUFFICES ASSUME Z_Inv, [Z_Next]_Z_vars PROVE Z_Inv'
    OBVIOUS
  <1>1. CASE Z_Next
    BY <1>1, NextZTypeOK, NextThreeFrames, NextLastFrame DEF Z_Inv, Z_TypeOK, Both
  <1>2. CASE UNCHANGED Z_vars
    <2>1. Z_TypeOK'
      BY <1>2 DEF Z_vars, Z_Inv, Z_TypeOK
    <2>2. ThreeFrames => ThreeFrames'
      BY <1>2 DEF Z_vars, ThreeFrames
    <2>3. LastFrame => LastFrame'
      BY <1>2 DEF Z_vars, LastFrame, Place, Alive
    <2> QED
      BY <1>2, <2>1, <2>2, <2>3 DEF Z_vars, Z_Inv
  <1> QED
    BY <1>1, <1>2

(* The invariant says that Ctrl-Z stops and continues.                      *)
LEMMA StopInvImplies == Z_Inv => CtrlZToggles
  <1> SUFFICES ASSUME Z_Inv PROVE CtrlZToggles
    OBVIOUS
  <1>1. Cardinality({}) = 0 /\ Cardinality({Len(Z_scripts)}) = 1
    BY FS_EmptySet, FS_Singleton
  <1>2. CASE Z_program = "zad1a"
    <2>1. Z_TypeOK /\ ThreeFrames
      BY <1>2 DEF Z_Inv
    <2>3. Alive = {}
      <3>1. Z_scripts = <<>>
        BY <2>1 DEF ThreeFrames
      <3>2. DOMAIN Z_scripts = {}
        BY <3>1
      <3> QED
        BY <3>2 DEF Alive
    <2>2. /\ Place = Z_frames[Len(Z_frames)]
          /\ Place \notin {"pause", "second pause"}
          /\ Place = "first pause" => Len(Z_frames) = 2
      BY <2>1, PlaceOfThree
    <2>4. Cardinality(Alive) <= 1
      <3>1. Cardinality(Alive) = 0
        BY <1>1, <2>3, Zenon
      <3> QED
        BY <3>1
    <2> QED
      BY <1>2, <2>1, <2>2, <2>3, <2>4 DEF ThreeFrames, CtrlZToggles
  <1>3. CASE Z_program = "zad1b"
    <2>1. LastFrame
      BY <1>3 DEF Z_Inv
    <2>2. Alive = {} \/ Alive = {Len(Z_scripts)}
      BY <2>1 DEF LastFrame
    <2>3. Cardinality(Alive) <= 1
      <3>1. Cardinality(Alive) = 0 \/ Cardinality(Alive) = 1
        BY <1>1, <2>2, Zenon
      <3> QED
        BY <3>1
    <2> QED
      BY <1>3, <2>1, <2>3 DEF LastFrame, CtrlZToggles
  <1> QED
    BY <1>2, <1>3 DEF Z_Inv, Z_TypeOK, Both

(* However fast Ctrl-Z is pressed, at most one script is alive, none while  *)
(* the program says that it waits; and Ctrl-Z lets it go on, but in zad1a   *)
(* after an early one, when it stops the process.                           *)
THEOREM CtrlZStopsAndContinues == Z_Spec => []CtrlZToggles
  <1>1. Z_Spec => []Z_Inv
    BY InitStop, NextStop, PTL DEF Z_Spec
  <1> QED
    BY <1>1, StopInvImplies, PTL

(* After an early Ctrl-Z zad1a never leaves its pause.                      *)
THEOREM EarlyCtrlZIsMissed == Z_Spec => [][WaitsOn]_Z_vars
  <1>1. ASSUME Z_Inv, [Z_Next]_Z_vars, Missed
        PROVE  Missed' /\ UNCHANGED <<Z_frames, Z_action>>
    <2>1. /\ Z_TypeOK /\ ThreeFrames /\ Z_program = "zad1a" /\ Z_early
          /\ Place = "first pause" /\ Z_action = "default"
      <3>1. Z_TypeOK /\ ThreeFrames /\ Z_program = "zad1a" /\ Z_early /\ Place = "first pause"
        BY <1>1 DEF Z_Inv, Missed
      <3>2. Len(Z_frames) = 2 /\ Z_frames[2] = "first pause"
        BY <3>1, PlaceOfThree
      <3> QED
        BY <3>1, <3>2 DEF ThreeFrames
    <2>2. CASE CtrlZ \/ Continue \/ CtrlC
      BY <2>1, <2>2 DEF CtrlZ, Continue, CtrlC, Missed, Place
    <2>3. CASE UNCHANGED Z_vars
      BY <2>1, <2>3 DEF Z_vars, Missed, Place
    <2>4. ~ (A_Begin \/ A_Arm \/ A_Sleep \/ B_Fork \/ B_Arm \/ B_Pause)
      BY <2>1 DEF A_Begin, A_Arm, A_Sleep, B_Fork, B_Arm, B_Pause, Step
    <2>5. ~ (F_Kill \/ F_Arm \/ F_Pause \/ S_Return \/ S_Fork \/ S_Arm \/ S_Pause)
      BY <2>1 DEF F_Kill, F_Arm, F_Pause, S_Return, S_Fork, S_Arm, S_Pause, Step
    <2> QED
      BY <1>1, <2>2, <2>3, <2>4, <2>5 DEF Z_Next
  <1>2. Z_Inv /\ [Z_Next]_Z_vars => [WaitsOn]_Z_vars
    BY <1>1 DEF WaitsOn
  <1>3. Z_Spec => []Z_Inv
    BY InitStop, NextStop, PTL DEF Z_Spec
  <1> QED
    BY <1>2, <1>3, PTL DEF Z_Spec
=============================================================================
