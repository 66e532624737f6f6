-------------------------- MODULE RunEventsProofs --------------------------
(***************************************************************************)
(* Proofs about the event log of RunEvents, for every set of concurrent    *)
(* emitters, every number of events and every bound on the faults.         *)
(***************************************************************************)
EXTENDS RunEvents, SequenceTheorems, FiniteSetTheorems, TLAPS

\* The part of the state that appendRunEvent works on.
LogTypes ==
    /\ counter \in Nat
    /\ \A r \in log : r.seq \in Nat
    /\ pc \in [Emitters -> {"ready", "counted", "logged", "dead"}]
    /\ seq \in [Emitters -> Nat]

\* An open transaction holds the row, so its number is still the next one when it
\* commits, and no second transaction has been given the same.
LogInv ==
    /\ LogTypes
    /\ LogIsGapless
    /\ \A e \in Emitters : pc[e] = "counted" => holder = e /\ seq[e] = counter + 1

(* The row of an event is added under the number that its transaction holds, *)
(* which is one more than every number in the log.                           *)
LEMMA CommitKeepsGapless ==
    ASSUME LogInv, NEW e \in Emitters, pc[e] = "counted", CommitEvent(e)
    PROVE  /\ counter' = counter + 1 /\ LogIsGapless'
           /\ \A r \in log' : r.seq \in Nat
<1>1. seq[e] = counter + 1 /\ counter \in Nat
  BY DEF LogInv, LogTypes
<1>2. counter' = counter + 1
  BY <1>1 DEF CommitEvent
<1> DEFINE row == [seq |-> seq[e], event |-> Current(e)]
<1>3. log' = log \cup {row} /\ row.seq = counter + 1
  BY <1>1 DEF CommitEvent
<1> HIDE DEF row
<1>4. \A r \in log' : r.seq \in 1..counter'
  BY <1>1, <1>2, <1>3 DEF LogInv, LogIsGapless
<1>5. \A n \in 1..counter' : \E r \in log' : r.seq = n
  <2> SUFFICES ASSUME NEW n \in 1..counter' PROVE \E r \in log' : r.seq = n
    OBVIOUS
  <2>1. CASE n = counter + 1
    BY <2>1, <1>3
  <2>2. CASE n # counter + 1
    <3>1. n \in 1..counter
      BY <2>2, <1>1, <1>2
    <3> QED BY <3>1, <1>3 DEF LogInv, LogIsGapless
  <2> QED BY <2>1, <2>2
<1>6. \A r, s \in log' : r.seq = s.seq => r = s
  BY <1>1, <1>3 DEF LogInv, LogIsGapless
<1>7. \A r \in log' : r.seq \in Nat
  BY <1>1, <1>2, <1>4
<1> QED BY <1>2, <1>4, <1>5, <1>6, <1>7 DEF LogIsGapless

(* A step that neither commits an event nor opens a transaction leaves the  *)
(* numbering alone.                                                         *)
LEMMA LogUntouched ==
    ASSUME LogInv, UNCHANGED <<counter, log, seq>>,
           pc' \in [Emitters -> {"ready", "counted", "logged", "dead"}],
           \A e \in Emitters : pc'[e] = "counted" => pc[e] = "counted" /\ holder' = holder
    PROVE  LogInv'
<1>1. LogTypes' /\ LogIsGapless'
  BY DEF LogInv, LogTypes, LogIsGapless
<1>2. \A e \in Emitters : pc'[e] = "counted" => holder' = e /\ seq'[e] = counter' + 1
  BY DEF LogInv
<1> QED BY <1>1, <1>2 DEF LogInv

LEMMA LogStep == LogInv /\ [Next]_vars => LogInv'
<1> SUFFICES ASSUME LogInv, [Next]_vars PROVE LogInv'
  OBVIOUS
<1> USE DEF logVars, runVars, emitVars, connVars, handlerVars, clientVars, faultVars
<1>0. pc \in [Emitters -> {"ready", "counted", "logged", "dead"}] /\ seq \in [Emitters -> Nat]
  BY DEF LogInv, LogTypes
<1>1. ASSUME NEW e \in Emitters, SkipLog(e) PROVE LogInv'
  <2>1. /\ pc' = [pc EXCEPT ![e] = "logged"] /\ seq' = [seq EXCEPT ![e] = NoId]
        /\ UNCHANGED logVars /\ pc[e] = "ready"
    BY <1>1 DEF SkipLog, Logged, MayEmit
  <2>2. LogTypes' /\ LogIsGapless'
    BY <2>1, <1>0 DEF LogInv, LogTypes, LogIsGapless, NoId
  <2> QED BY <2>1, <2>2, <1>0 DEF LogInv
<1>2. ASSUME NEW e \in Emitters, BumpCounter(e) PROVE LogInv'
  <2>1. /\ pc' = [pc EXCEPT ![e] = "counted"] /\ seq' = [seq EXCEPT ![e] = counter + 1]
        /\ UNCHANGED <<counter, log>> /\ holder = Nobody /\ holder' = e
    BY <1>2 DEF BumpCounter
  <2>2. \A f \in Emitters : pc[f] # "counted"
    BY <2>1, RunEventsAssumption DEF LogInv, Emitters, Nobody
  <2>3. LogTypes' /\ LogIsGapless'
    BY <2>1, <1>0 DEF LogInv, LogTypes, LogIsGapless
  <2>4. \A f \in Emitters : pc'[f] = "counted" => holder' = f /\ seq'[f] = counter' + 1
    BY <2>1, <2>2, <1>0
  <2> QED BY <2>3, <2>4 DEF LogInv
<1>3. ASSUME NEW e \in Emitters, pc[e] = "counted", CommitEvent(e), NEW n \in Nat, Logged(e, n)
      PROVE  LogInv'
  <2>1. counter' = counter + 1 /\ LogIsGapless' /\ \A r \in log' : r.seq \in Nat
    BY <1>3, CommitKeepsGapless
  <2>2. pc' = [pc EXCEPT ![e] = "logged"] /\ seq' = [seq EXCEPT ![e] = n]
    BY <1>3 DEF Logged
  <2>3. LogTypes'
    BY <2>1, <2>2, <1>0 DEF LogInv, LogTypes
  <2>4. \A f \in Emitters : pc'[f] # "counted"
    BY <2>2, <1>0, <1>3 DEF LogInv
  <2> QED BY <2>1, <2>3, <2>4 DEF LogInv
<1>4. ASSUME NEW e \in Emitters, InsertEvent(e) PROVE LogInv'
  BY <1>4, <1>3, <1>0 DEF InsertEvent
<1>5. ASSUME NEW e \in Emitters, AppendThrows(e) PROVE LogInv'
  <2>1. pc[e] = "counted" /\ Logged(e, NoId) /\ NoId \in Nat
    BY <1>5 DEF AppendThrows, NoId
  <2>2. CASE CommitEvent(e)
    BY <2>1, <2>2, <1>3
  <2>3. CASE UNCHANGED <<counter, log>>
    <3>1. pc' = [pc EXCEPT ![e] = "logged"] /\ seq' = [seq EXCEPT ![e] = NoId]
      BY <2>1 DEF Logged
    <3>2. LogTypes' /\ LogIsGapless'
      BY <2>1, <2>3, <3>1, <1>0 DEF LogInv, LogTypes, LogIsGapless
    <3>3. \A f \in Emitters : pc'[f] # "counted"
      BY <2>1, <3>1, <1>0 DEF LogInv
    <3> QED BY <3>2, <3>3 DEF LogInv
  <2> QED BY <1>5, <2>2, <2>3 DEF AppendThrows
<1>6. ASSUME NEW e \in Emitters, SendFrame(e) PROVE LogInv'
  BY <1>6, <1>0, LogUntouched DEF SendFrame
<1>7. ASSUME UNCHANGED <<logVars, pc, seq>> PROVE LogInv'
  BY <1>7, <1>0, LogUntouched
<1>8. CASE CompleteRun \/ FailRun \/ DismissRun \/ ReapRun \/ CloseLive
  BY <1>8, <1>7 DEF CompleteRun, FailRun, DismissRun, ReapRun, CloseLive
<1>9. CASE HandlerStep \/ HandlerThrows
  BY <1>9, <1>7 DEF HandlerStep, HandlerThrows, CheckActive, ReplayActive, ReplayTerminal, TailLog,
                    LookAgain, LookFinished, Drain
<1>10. CASE ClientStep \/ StopByUser \/ Drop
  BY <1>10, <1>7 DEF ClientStep, ReadFrame, Resume, GiveUp, StopByUser, Drop
<1>11. CASE Crash
  BY <1>11, <1>0, LogUntouched DEF Crash
<1>12. CASE UNCHANGED vars
  BY <1>12, <1>7 DEF vars
<1> QED
  BY <1>1, <1>2, <1>4, <1>5, <1>6, <1>8, <1>9, <1>10, <1>11, <1>12 DEF Next, EmitStep

(* run_events is numbered from 1 without a gap or a double, whatever emits, *)
(* throws or crashes meanwhile: appendRunEvent.                             *)
THEOREM EventsAreNumberedGaplessly == Spec => []LogIsGapless
<1>1. Init => LogInv
  BY DEF Init, LogInv, LogTypes, LogIsGapless, NoId
<1>2. LogInv => LogIsGapless
  BY DEF LogInv
<1> QED BY <1>1, <1>2, LogStep, PTL DEF Spec

-----------------------------------------------------------------------------
(* What a response sends: the rows past the cursor, in order. *)

(* Numbered as it is, the log has b - a rows with numbers in a+1 .. b. *)
LEMMA RowsBetween ==
    ASSUME LogInv, NEW a \in Nat, NEW b \in 0..counter
    PROVE  /\ IsFiniteSet({r \in log : r.seq > a /\ r.seq <= b})
           /\ Cardinality({r \in log : r.seq > a /\ r.seq <= b}) = IF a < b THEN b - a ELSE 0
<1> DEFINE S == {r \in log : r.seq > a /\ r.seq <= b}
           T == (a + 1)..b
           f == [n \in T |-> CHOOSE r \in log : r.seq = n]
<1>0. counter \in Nat /\ \A r \in log : r.seq \in Nat
  BY DEF LogInv, LogTypes
<1>1. \A n \in T : f[n] \in log /\ f[n].seq = n
  <2> SUFFICES ASSUME NEW n \in T PROVE f[n] \in log /\ f[n].seq = n
    OBVIOUS
  <2>1. n \in 1..counter
    BY <1>0
  <2>2. \E r \in log : r.seq = n
    BY <2>1 DEF LogInv, LogIsGapless
  <2> HIDE DEF T
  <2>3. f[n] = CHOOSE r \in log : r.seq = n
    OBVIOUS
  <2> QED BY <2>2, <2>3
<1>2. f \in [T -> S]
  <2> SUFFICES ASSUME NEW n \in T PROVE (CHOOSE r \in log : r.seq = n) \in S
    OBVIOUS
  <2>1. f[n] \in log /\ f[n].seq = n /\ n > a /\ n <= b
    BY <1>1
  <2> QED BY <2>1
<1> HIDE DEF f
<1>3. \A m, n \in T : f[m] = f[n] => m = n
  BY <1>1
<1>4. \A r \in S : \E n \in T : f[n] = r
  <2> SUFFICES ASSUME NEW r \in S PROVE \E n \in T : f[n] = r
    OBVIOUS
  <2>1. r.seq \in T /\ r \in log
    BY <1>0
  <2>2. f[r.seq] \in log /\ f[r.seq].seq = r.seq
    BY <1>1, <2>1
  <2>3. f[r.seq] = r
    BY <2>1, <2>2 DEF LogInv, LogIsGapless
  <2> QED BY <2>1, <2>3
<1> HIDE DEF S, T
<1>5. f \in Bijection(T, S)
  BY <1>2, <1>3, <1>4 DEF Bijection, Injection, Surjection, IsInjective
<1>6. ExistsBijection(T, S)
  BY <1>5 DEF ExistsBijection
<1>7. IsFiniteSet(T) /\ Cardinality(T) = IF a + 1 > b THEN 0 ELSE b - (a + 1) + 1
  BY FS_Interval DEF T
<1>8. IsFiniteSet(S) /\ Cardinality(S) = Cardinality(T)
  BY <1>6, <1>7, FS_Bijection
<1> QED BY <1>7, <1>8, <1>0 DEF S

Ahead == IF lastSeq < counter THEN counter - lastSeq ELSE 0

(* Unsent is the rest of the log: its i-th row has the i-th number past the *)
(* cursor.                                                                  *)
LEMMA UnsentIsTheRest ==
    ASSUME LogInv, lastSeq \in Nat
    PROVE  /\ Ahead \in Nat /\ Unsent \in [1..Ahead -> log]
           /\ \A i \in 1..Ahead : Unsent[i].seq = lastSeq + i
<1> DEFINE rows == {r \in log : r.seq > lastSeq}
           UpTo(n) == Cardinality({r \in rows : r.seq <= n})
           row(i) == CHOOSE r \in rows : UpTo(r.seq - 1) < i /\ i <= UpTo(r.seq)
<1>0. counter \in Nat /\ (\A r \in log : r.seq \in 1..counter) /\ Ahead \in Nat
  BY DEF LogInv, LogTypes, LogIsGapless, Ahead
<1>1. \A n \in 0..counter : UpTo(n) = IF lastSeq < n THEN n - lastSeq ELSE 0
  <2> SUFFICES ASSUME NEW n \in 0..counter
               PROVE  UpTo(n) = IF lastSeq < n THEN n - lastSeq ELSE 0
    OBVIOUS
  <2>1. {r \in rows : r.seq <= n} = {r \in log : r.seq > lastSeq /\ r.seq <= n}
    OBVIOUS
  <2> QED BY <2>1, RowsBetween
<1>2. Cardinality(rows) = Ahead
  <2>1. rows = {r \in log : r.seq > lastSeq /\ r.seq <= counter}
    BY <1>0
  <2>2. counter \in 0..counter
    BY <1>0
  <2> HIDE DEF rows
  <2> QED BY <2>1, <2>2, RowsBetween DEF Ahead
<1>3. Unsent = [i \in 1..Ahead |-> row(i)]
  BY <1>2 DEF Unsent
<1>4. ASSUME NEW i \in 1..Ahead PROVE row(i) \in log /\ row(i).seq = lastSeq + i
  <2>1. lastSeq + i \in 1..counter /\ lastSeq + i > lastSeq
    BY <1>0 DEF Ahead
  <2>2. PICK r \in log : r.seq = lastSeq + i
    BY <2>1 DEF LogInv, LogIsGapless
  <2>3. r \in rows
    BY <2>1, <2>2
  <2>4. \A s \in rows : /\ s.seq \in 1..counter /\ s.seq > lastSeq
                        /\ UpTo(s.seq) = s.seq - lastSeq /\ UpTo(s.seq - 1) = s.seq - 1 - lastSeq
    <3> SUFFICES ASSUME NEW s \in rows
                 PROVE  /\ s.seq \in 1..counter /\ s.seq > lastSeq
                        /\ UpTo(s.seq) = s.seq - lastSeq /\ UpTo(s.seq - 1) = s.seq - 1 - lastSeq
      OBVIOUS
    <3>1. s.seq \in 1..counter /\ s.seq > lastSeq
      BY <1>0
    <3>2. s.seq \in 0..counter /\ s.seq - 1 \in 0..counter
      BY <3>1, <1>0
    <3> HIDE DEF rows, UpTo
    <3>3. UpTo(s.seq) = s.seq - lastSeq
      BY <3>1, <3>2, <1>0, <1>1
    <3>4. UpTo(s.seq - 1) = s.seq - 1 - lastSeq
      BY <3>1, <3>2, <1>0, <1>1
    <3> QED BY <3>1, <3>3, <3>4
  <2> HIDE DEF rows, UpTo
  <2>5. UpTo(r.seq - 1) < i /\ i <= UpTo(r.seq)
    BY <2>2, <2>3, <2>4, <1>0
  <2>6. row(i) \in rows /\ UpTo(row(i).seq - 1) < i /\ i <= UpTo(row(i).seq)
    BY <2>3, <2>5
  <2> HIDE DEF row
  <2>7. row(i).seq = lastSeq + i
    <3>1. /\ row(i).seq \in 1..counter
          /\ UpTo(row(i).seq) = row(i).seq - lastSeq /\ UpTo(row(i).seq - 1) = row(i).seq - 1 - lastSeq
      BY <2>4, <2>6
    <3> QED BY <3>1, <2>6, <1>0
  <2> QED BY <2>6, <2>7 DEF rows
<1> HIDE DEF row
<1> QED BY <1>0, <1>3, <1>4

-----------------------------------------------------------------------------
(* Types. *)

\* An emit that is under way is one of its emitter's events.
StreamTypes ==
    /\ TypeOK /\ LogInv
    /\ \A e \in Emitters : pc[e] \in {"counted", "logged"} => next[e] <= LastOf(e)

LEMMA EmittersAreApart ==
    /\ "loop" \in Emitters /\ Nobody \notin Emitters /\ "resume" \notin Emitters
    /\ \A e \in Emitters : LastOf(e) \in 1..(Rounds + 2)
    /\ Done \in Events /\ SyntheticDone \notin Events /\ ErrorDone \notin Events
BY RunEventsAssumption DEF Emitters, Nobody, LastOf, Done, Events, SyntheticDone, ErrorDone

LEMMA CurrentIsEvent ==
    ASSUME StreamTypes, NEW e \in Emitters, next[e] <= LastOf(e)
    PROVE  Current(e) \in Events
<1>1. next[e] \in 1..(Rounds + 3) /\ LastOf(e) \in 1..(Rounds + 2) /\ Rounds \in Nat
  BY EmittersAreApart, RunEventsAssumption DEF StreamTypes, TypeOK
<1>2. next[e] \in 1..(Rounds + 2)
  BY <1>1
<1> QED BY <1>2 DEF Current, Events

(* The frames that SendUnsent and ReplayTerminal put on the connection. *)
LEMMA FramesOfTheRest ==
    ASSUME StreamTypes
    PROVE  /\ Ahead \in Nat /\ Frames(Unsent) \in Seq(Frame) /\ Len(Frames(Unsent)) = Ahead
           /\ \A i \in 1..Ahead :
                \E r \in log : /\ r.seq = lastSeq + i
                               /\ Frames(Unsent)[i].event = r.event /\ Frames(Unsent)[i].id = r.seq
<1>1. LogInv /\ lastSeq \in Nat /\ log \subseteq Row
  BY DEF StreamTypes, TypeOK
<1>2. /\ Ahead \in Nat /\ Unsent \in [1..Ahead -> log]
      /\ \A i \in 1..Ahead : Unsent[i].seq = lastSeq + i
  BY <1>1, UnsentIsTheRest
<1> HIDE DEF Ahead
<1>3. Frames(Unsent) = [i \in 1..Ahead |-> [event |-> Unsent[i].event, id |-> Unsent[i].seq]]
  BY <1>2 DEF Frames
<1>4. \A i \in 1..Ahead : Unsent[i] \in Row
  BY <1>1, <1>2
<1>5. Frames(Unsent) \in [1..Ahead -> Frame]
  BY <1>3, <1>4 DEF Row, Frame
<1>6. Frames(Unsent) \in Seq(Frame) /\ Len(Frames(Unsent)) = Ahead
  BY <1>2, <1>5
<1>7. \A i \in 1..Ahead : /\ Frames(Unsent)[i].event = Unsent[i].event
                          /\ Frames(Unsent)[i].id = Unsent[i].seq /\ Unsent[i] \in log
  BY <1>2, <1>3
<1> QED BY <1>2, <1>6, <1>7

\* channel' is channel with the rest of the log and `extra' more frames behind it.
RestIsSent(extra) ==
    /\ channel' \in Seq(Frame) /\ Len(channel) \in Nat /\ Ahead \in Nat
    /\ Len(channel') = Len(channel) + Ahead + extra
    /\ \A i \in 1..Len(channel) : channel'[i] = channel[i]
    /\ \A i \in 1..Ahead :
         \E r \in log : /\ r.seq = lastSeq + i
                        /\ channel'[Len(channel) + i].event = r.event
                        /\ channel'[Len(channel) + i].id = r.seq

LEMMA SendUnsentSends ==
    ASSUME StreamTypes, SendUnsent
    PROVE  RestIsSent(0)
<1>1. channel \in Seq(Frame)
  BY DEF StreamTypes, TypeOK
<1> DEFINE F == Frames(Unsent)
<1>2. /\ Ahead \in Nat /\ F \in Seq(Frame) /\ Len(F) = Ahead
      /\ \A i \in 1..Ahead :
           \E r \in log : r.seq = lastSeq + i /\ F[i].event = r.event /\ F[i].id = r.seq
  BY FramesOfTheRest
<1>3. channel' = channel \o F
  BY DEF SendUnsent
<1> HIDE DEF F
<1>4. /\ channel' \in Seq(Frame) /\ Len(channel') = Len(channel) + Ahead
      /\ \A i \in 1..(Len(channel) + Ahead) :
           channel'[i] = IF i <= Len(channel) THEN channel[i] ELSE F[i - Len(channel)]
  BY <1>1, <1>2, <1>3, ConcatProperties
<1>5. Len(channel) \in Nat
  BY <1>1, LenProperties
<1>6. \A i \in 1..Len(channel) : channel'[i] = channel[i]
  BY <1>2, <1>4, <1>5
<1>7. \A i \in 1..Ahead : channel'[Len(channel) + i] = F[i]
  BY <1>2, <1>4, <1>5
<1>8. Len(channel') = Len(channel) + Ahead + 0
  BY <1>2, <1>4, <1>5
<1>9. \A i \in 1..Ahead :
        \E r \in log : /\ r.seq = lastSeq + i
                       /\ channel'[Len(channel) + i].event = r.event
                       /\ channel'[Len(channel) + i].id = r.seq
  BY <1>2, <1>7
<1> QED BY <1>2, <1>4, <1>5, <1>6, <1>8, <1>9 DEF RestIsSent

LEMMA ReplayTerminalSends ==
    ASSUME StreamTypes, ReplayTerminal
    PROVE  /\ RestIsSent(1)
           /\ channel'[Len(channel) + Ahead + 1] = [event |-> SyntheticDone, id |-> NoId]
<1>1. channel \in Seq(Frame)
  BY DEF StreamTypes, TypeOK
<1> DEFINE F == Frames(Unsent)
           d == [event |-> SyntheticDone, id |-> NoId]
           G == Append(F, d)
<1>2. /\ Ahead \in Nat /\ F \in Seq(Frame) /\ Len(F) = Ahead
      /\ \A i \in 1..Ahead :
           \E r \in log : r.seq = lastSeq + i /\ F[i].event = r.event /\ F[i].id = r.seq
  BY FramesOfTheRest
<1>3. channel' = channel \o G
  BY DEF ReplayTerminal
<1>4. d \in Frame
  BY DEF Frame, NoId
<1> HIDE DEF F, d
<1>5. /\ G \in Seq(Frame) /\ Len(G) = Ahead + 1
      /\ \A i \in 1..Ahead : G[i] = F[i]
      /\ G[Ahead + 1] = d
  BY <1>2, <1>4, AppendProperties
<1>g. G \in Seq(Frame)
  BY <1>5
<1> HIDE DEF G
<1>6. /\ channel' \in Seq(Frame) /\ Len(channel') = Len(channel) + Len(G)
      /\ \A i \in 1..(Len(channel) + Len(G)) :
           channel'[i] = IF i <= Len(channel) THEN channel[i] ELSE G[i - Len(channel)]
  BY <1>1, <1>3, <1>g, ConcatProperties
<1>7. Len(channel) \in Nat
  BY <1>1, LenProperties
<1>8. \A i \in 1..Len(channel) : channel'[i] = channel[i]
  BY <1>2, <1>5, <1>6, <1>7
<1>9. \A i \in 1..(Ahead + 1) : channel'[Len(channel) + i] = G[i]
  BY <1>2, <1>5, <1>6, <1>7
<1>10. \A i \in 1..Ahead : channel'[Len(channel) + i] = F[i]
  BY <1>2, <1>5, <1>9
<1>11. channel'[Len(channel) + Ahead + 1] = d
  BY <1>2, <1>5, <1>7, <1>9
<1>12. Len(channel') = Len(channel) + Ahead + 1
  BY <1>2, <1>5, <1>6, <1>7
<1>13. \A i \in 1..Ahead :
         \E r \in log : /\ r.seq = lastSeq + i
                        /\ channel'[Len(channel) + i].event = r.event
                        /\ channel'[Len(channel) + i].id = r.seq
  BY <1>2, <1>10
<1> QED BY <1>2, <1>6, <1>7, <1>8, <1>11, <1>12, <1>13 DEF RestIsSent, d

LEMMA SendFrameSends ==
    ASSUME StreamTypes, NEW e \in Emitters, SendFrame(e), source = "live"
    PROVE  /\ channel' \in Seq(Frame) /\ Len(channel) \in Nat /\ Len(channel') = Len(channel) + 1
           /\ \A i \in 1..Len(channel) : channel'[i] = channel[i]
           /\ channel'[Len(channel) + 1] = [event |-> Current(e), id |-> seq[e]]
<1> DEFINE f == [event |-> Current(e), id |-> seq[e]]
<1>1. channel \in Seq(Frame) /\ seq[e] \in Nat /\ pc[e] = "logged" /\ next[e] <= LastOf(e)
  BY DEF StreamTypes, TypeOK, SendFrame
<1>2. f \in Frame
  BY <1>1, CurrentIsEvent DEF Frame
<1>3. channel' = Append(channel, f)
  BY DEF SendFrame
<1> HIDE DEF f
<1>4. Len(channel) \in Nat
  BY <1>1, LenProperties
<1> QED BY <1>1, <1>2, <1>3, <1>4, AppendProperties DEF f

LEMMA ReadFrameReads ==
    ASSUME StreamTypes, ReadFrame
    PROVE  /\ channel' \in Seq(Frame) /\ Len(channel) \in Nat \ {0} /\ Len(channel') = Len(channel) - 1
           /\ \A i \in 1..Len(channel') : channel'[i] = channel[i + 1]
           /\ Head(channel) = channel[1] /\ channel[1] \in Frame
<1>1. channel \in Seq(Frame) /\ channel # <<>> /\ channel' = Tail(channel)
  BY DEF StreamTypes, TypeOK, ReadFrame
<1>2. Len(channel) \in Nat \ {0}
  BY <1>1, EmptySeq
<1>3. Head(channel) = channel[1]
  BY <1>1
<1> QED BY <1>1, <1>2, <1>3, HeadTailProperties

(* Where the cursor goes, it goes to the end of the log: the numbers are *)
(* 1..counter, so their greatest is the counter.                         *)
LEMMA CursorReachesEnd ==
    ASSUME LogInv, lastSeq \in Nat, MoveCursor
    PROVE  lastSeq' = IF lastSeq < counter THEN counter ELSE lastSeq
<1> DEFINE S == {lastSeq} \cup {r.seq : r \in log}
<1>1. counter \in Nat /\ \A r \in log : r.seq \in 1..counter
  BY DEF LogInv, LogTypes, LogIsGapless
<1>2. S \subseteq Nat /\ \A y \in S : y <= counter \/ y = lastSeq
  BY <1>1
<1>3. (counter = 0 \/ counter \in S) /\ lastSeq \in S
  BY <1>1 DEF LogInv, LogIsGapless
<1>4. lastSeq' = Max(S)
  BY DEF MoveCursor
<1> HIDE DEF S
<1>5. \E x \in S : \A y \in S : x >= y
  <2>1. CASE lastSeq >= counter
    BY <2>1, <1>1, <1>2, <1>3
  <2>2. CASE lastSeq < counter
    BY <2>2, <1>1, <1>2, <1>3
  <2> QED BY <2>1, <2>2, <1>1
<1>6. Max(S) \in S /\ \A y \in S : Max(S) >= y
  BY <1>5 DEF Max
<1> DEFINE m == Max(S)
<1> HIDE DEF m
<1>7. m \in S /\ m >= lastSeq /\ (counter = 0 \/ m >= counter)
  BY <1>3, <1>6 DEF m
<1>8. m \in Nat /\ (m <= counter \/ m = lastSeq)
  BY <1>2, <1>7
<1>9. lastSeq' = m
  BY <1>4 DEF m
<1> QED BY <1>1, <1>7, <1>8, <1>9

LEMMA TypesInit == Init => StreamTypes
<1> SUFFICES ASSUME Init PROVE StreamTypes
  OBVIOUS
<1>1. Rounds \in Nat /\ MaxResumes \in Nat /\ MaxDrops \in Nat /\ MaxDbErrors \in Nat /\ MaxCrashes \in Nat
  BY RunEventsAssumption
<1>2. LogInv
  BY DEF Init, LogInv, LogTypes, LogIsGapless, NoId
<1>3. TypeOK
  <2>1. channel \in Seq(Frame)
    BY EmptySeq DEF Init
  <2>2. pc \in [Emitters -> {"ready", "counted", "logged", "dead"}] /\ seq \in [Emitters -> Nat]
    BY DEF Init, NoId
  <2>3. next \in [Emitters -> 1..(Rounds + 3)]
    BY <1>1 DEF Init
  <2>4. /\ counter \in Nat /\ flip \in Nat /\ lastSeq \in Nat /\ lastSeen \in Nat
        /\ attempts \in 0..MaxResumes /\ drops \in 0..MaxDrops
        /\ dbErrors \in 0..MaxDbErrors /\ crashes \in 0..MaxCrashes
    BY <1>1 DEF Init
  <2>5. /\ log \subseteq Row /\ unsure \subseteq Events /\ holder \in Emitters \cup {Nobody}
        /\ received \subseteq Events \cup {SyntheticDone, ErrorDone} /\ repeated \subseteq received
    BY DEF Init
  <2>6. /\ finished \in BOOLEAN /\ ended \in BOOLEAN /\ wasActive \in BOOLEAN
        /\ source \in {"live", "resume", "closed", "broken"}
        /\ handler \in {"none", "check", "replay", "tail", "look", "drain"}
        /\ client \in {"reading", "done", "stopped", "gaveUp"}
    BY DEF Init
  <2> QED BY <2>1, <2>2, <2>3, <2>4, <2>5, <2>6 DEF TypeOK
<1> QED BY <1>2, <1>3 DEF StreamTypes, Init

LEMMA TypesStep == StreamTypes /\ [Next]_vars => StreamTypes'
<1> SUFFICES ASSUME StreamTypes, [Next]_vars PROVE StreamTypes'
  OBVIOUS
<1> USE DEF logVars, runVars, emitVars, connVars, handlerVars, clientVars, faultVars
<1>0. /\ LogInv' /\ TypeOK
      /\ \A e \in Emitters : pc[e] \in {"counted", "logged"} => next[e] <= LastOf(e)
  BY LogStep DEF StreamTypes
<1>b. Rounds \in Nat /\ MaxResumes \in Nat /\ MaxDrops \in Nat /\ MaxDbErrors \in Nat /\ MaxCrashes \in Nat
  BY RunEventsAssumption
<1>c. \A e \in Emitters : LastOf(e) \in 1..(Rounds + 2) /\ next[e] \in 1..(Rounds + 3)
  BY EmittersAreApart, <1>0 DEF TypeOK
<1>1. ASSUME NEW e \in Emitters, SkipLog(e) PROVE StreamTypes'
  BY <1>0, <1>1 DEF StreamTypes, TypeOK, SkipLog, MayEmit, Logged, NoId
<1>2. ASSUME NEW e \in Emitters, BumpCounter(e) PROVE StreamTypes'
  BY <1>0, <1>2 DEF StreamTypes, TypeOK, BumpCounter, MayEmit
<1>3. ASSUME NEW e \in Emitters, pc[e] = "counted", CommitEvent(e), NEW n \in Nat, Logged(e, n)
      PROVE  /\ counter' \in Nat /\ log' \subseteq Row /\ holder' \in Emitters \cup {Nobody}
             /\ pc' \in [Emitters -> {"ready", "counted", "logged", "dead"}]
             /\ seq' \in [Emitters -> Nat]
             /\ Current(e) \in Events
             /\ \A f \in Emitters : pc'[f] \in {"counted", "logged"} => next[f] <= LastOf(f)
  <2>1. Current(e) \in Events
    BY <1>0, <1>3, CurrentIsEvent
  <2> QED BY <2>1, <1>0, <1>3 DEF TypeOK, CommitEvent, Logged, Row
<1>4. ASSUME NEW e \in Emitters, InsertEvent(e) PROVE StreamTypes'
  <2>1. pc[e] = "counted" /\ CommitEvent(e) /\ Logged(e, seq[e]) /\ seq[e] \in Nat
    BY <1>0, <1>4 DEF InsertEvent, TypeOK
  <2> QED BY <2>1, <1>3, <1>0, <1>4 DEF InsertEvent, StreamTypes, TypeOK
<1>5. ASSUME NEW e \in Emitters, AppendThrows(e) PROVE StreamTypes'
  <2>1. pc[e] = "counted" /\ Logged(e, 0)
    BY <1>5 DEF AppendThrows, NoId
  <2>2. CASE CommitEvent(e) /\ unsure' = unsure \cup {Current(e)}
    <3>1. dbErrors' \in 0..MaxDbErrors
      BY <1>0, <1>b, <1>5 DEF AppendThrows, TypeOK
    <3> QED BY <3>1, <2>1, <2>2, <1>3, <1>0, <1>5 DEF AppendThrows, StreamTypes, TypeOK
  <2>3. CASE holder' = Nobody /\ UNCHANGED <<counter, log, unsure>>
    <3>1. dbErrors' \in 0..MaxDbErrors
      BY <1>0, <1>b, <1>5 DEF AppendThrows, TypeOK
    <3> QED BY <3>1, <2>1, <2>3, <1>0, <1>5 DEF AppendThrows, StreamTypes, TypeOK, Logged
  <2> QED BY <1>5, <2>2, <2>3 DEF AppendThrows
<1>6. ASSUME NEW e \in Emitters, SendFrame(e) PROVE StreamTypes'
  <2>1. channel' \in Seq(Frame)
    BY <1>0, <1>6, SendFrameSends DEF SendFrame, TypeOK
  <2>2. next' \in [Emitters -> 1..(Rounds + 3)]
    BY <1>0, <1>b, <1>c, <1>6 DEF SendFrame, TypeOK
  <2>3. pc' \in [Emitters -> {"ready", "counted", "logged", "dead"}]
        /\ \A f \in Emitters : pc'[f] \in {"counted", "logged"} => next'[f] <= LastOf(f)
    BY <1>0, <1>6 DEF SendFrame, TypeOK
  <2> QED BY <2>1, <2>2, <2>3, <1>0, <1>6 DEF SendFrame, StreamTypes, TypeOK
<1>7. CASE CompleteRun \/ DismissRun \/ ReapRun \/ CloseLive
  <2>1. ASSUME LeaveActive PROVE finished' \in BOOLEAN /\ flip' \in Nat
    BY <2>1, <1>0 DEF LeaveActive, TypeOK
  <2>2. CASE CompleteRun
    BY <2>1, <2>2, <1>0 DEF CompleteRun, StreamTypes, TypeOK
  <2>3. CASE DismissRun
    BY <2>1, <2>3, <1>0 DEF DismissRun, StreamTypes, TypeOK
  <2>4. CASE ReapRun
    BY <2>1, <2>4, <1>0 DEF ReapRun, DismissRun, StreamTypes, TypeOK
  <2>5. CASE CloseLive
    BY <2>5, <1>0 DEF CloseLive, StreamTypes, TypeOK
  <2> QED BY <1>7, <2>2, <2>3, <2>4, <2>5
<1>8. CASE FailRun
  <2>0. Rounds + 2 \in 1..(Rounds + 3) /\ next \in [Emitters -> 1..(Rounds + 3)]
    BY <1>0, <1>b DEF TypeOK
  <2>1. next' \in [Emitters -> 1..(Rounds + 3)]
    BY <2>0, <1>8 DEF FailRun
  <2>2. \A f \in Emitters : pc'[f] \in {"counted", "logged"} => next'[f] <= LastOf(f)
    BY <1>0, <1>8 DEF FailRun, TypeOK
  <2> QED BY <2>1, <2>2, <1>0, <1>8 DEF FailRun, LeaveActive, StreamTypes, TypeOK
<1>9. CASE CheckActive \/ LookAgain \/ LookFinished
  BY <1>0, <1>9 DEF CheckActive, LookAgain, LookFinished, StreamTypes, TypeOK
<1>10. ASSUME MoveCursor PROVE lastSeq' \in Nat
  BY <1>0, <1>10, CursorReachesEnd DEF StreamTypes, TypeOK, LogInv, LogTypes
<1>11. CASE ReplayActive \/ TailLog \/ Drain
  <2>1. channel' \in Seq(Frame) /\ MoveCursor
    BY <1>11, SendUnsentSends DEF ReplayActive, TailLog, Drain, SendUnsent, RestIsSent
  <2> QED BY <2>1, <1>10, <1>0, <1>11 DEF ReplayActive, TailLog, Drain, StreamTypes, TypeOK
<1>12. CASE ReplayTerminal
  <2>1. channel' \in Seq(Frame) /\ MoveCursor
    BY <1>12, ReplayTerminalSends DEF ReplayTerminal, RestIsSent
  <2> QED BY <2>1, <1>10, <1>0, <1>12 DEF ReplayTerminal, StreamTypes, TypeOK
<1>13. CASE HandlerThrows
  <2>1. [event |-> ErrorDone, id |-> NoId] \in Frame /\ channel \in Seq(Frame)
    BY <1>0 DEF Frame, NoId, TypeOK
  <2>2. channel' \in Seq(Frame)
    <3>1. CASE handler = "replay"
      BY <3>1, <2>1, <1>13, AppendProperties DEF HandlerThrows
    <3>2. CASE handler # "replay"
      BY <3>2, <1>13, EmptySeq DEF HandlerThrows
    <3> QED BY <3>1, <3>2
  <2>3. dbErrors' \in 0..MaxDbErrors
    BY <1>0, <1>b, <1>13 DEF HandlerThrows, TypeOK
  <2> QED BY <2>2, <2>3, <1>0, <1>13 DEF HandlerThrows, StreamTypes, TypeOK
<1>14. CASE ReadFrame
  <2>1. channel' \in Seq(Frame) /\ Head(channel) \in Frame
    BY <1>14, ReadFrameReads
  <2>2. lastSeen' \in Nat /\ client' \in {"reading", "done", "stopped", "gaveUp"}
    BY <2>1, <1>0, <1>14 DEF ReadFrame, TypeOK, Frame
  <2>3. received' \subseteq Events \cup {SyntheticDone, ErrorDone} /\ repeated' \subseteq received'
    BY <2>1, <1>0, <1>14 DEF ReadFrame, TypeOK, Frame
  <2> QED BY <2>1, <2>2, <2>3, <1>0, <1>14 DEF ReadFrame, StreamTypes, TypeOK
<1>15. CASE Resume
  <2>1. attempts' \in 0..MaxResumes
    BY <1>0, <1>b, <1>15 DEF Resume, TypeOK
  <2> QED BY <2>1, <1>0, <1>15 DEF Resume, StreamTypes, TypeOK
<1>16. CASE GiveUp \/ StopByUser
  BY <1>0, <1>16 DEF GiveUp, StopByUser, StreamTypes, TypeOK
<1>17. CASE Drop
  <2>1. drops' \in 0..MaxDrops /\ channel' \in Seq(Frame)
    BY <1>0, <1>b, <1>17, EmptySeq DEF Drop, Disconnect, TypeOK
  <2> QED BY <2>1, <1>0, <1>17 DEF Drop, Disconnect, StreamTypes, TypeOK
<1>18. CASE Crash
  <2>1. crashes' \in 0..MaxCrashes /\ channel' \in Seq(Frame)
    BY <1>0, <1>b, <1>18, EmptySeq DEF Crash, Disconnect, TypeOK
  <2> QED BY <2>1, <1>0, <1>18 DEF Crash, Disconnect, StreamTypes, TypeOK
<1>19. CASE UNCHANGED vars
  BY <1>0, <1>19 DEF vars, StreamTypes, TypeOK
<1> QED
  BY <1>1, <1>2, <1>4, <1>5, <1>6, <1>7, <1>8, <1>9, <1>11, <1>12, <1>13, <1>14, <1>15, <1>16, <1>17,
     <1>18, <1>19 DEF Next, EmitStep, HandlerStep, ClientStep

(* Every variable keeps its type, whatever emits, throws, drops or crashes: *)
(* the numbers and frames of events.server.ts and sse.server.ts.            *)
THEOREM StreamTypesAlways == Spec => []TypeOK
<1>1. StreamTypes => TypeOK
  BY DEF StreamTypes
<1> QED BY <1>1, TypesInit, TypesStep, PTL DEF Spec

-----------------------------------------------------------------------------
(* Which events the log can hold. *)

Past(x)    == x[2] < next[x[1]]
Emitted(x) == Past(x) \/ (x[2] = next[x[1]] /\ pc[x[1]] \in {"logged", "dead"})

\* An event is appended once, by its own emit, which knows its number.
LogOfEvents ==
    /\ \A r \in log : Emitted(r.event)
    /\ \A r, s \in log : r.event = s.event => r = s
    /\ \A e \in Emitters : pc[e] = "logged" =>
         /\ \A r \in log : r.event = Current(e) => r.seq = seq[e] \/ r.event \in unsure
         /\ seq[e] # NoId => \E r \in log : r.event = Current(e) /\ r.seq = seq[e]

LEMMA EventParts ==
    /\ \A x \in Events : x[1] \in Emitters /\ x[2] \in Nat /\ x = <<x[1], x[2]>>
    /\ \A e \in Emitters : Current(e)[1] = e /\ Current(e)[2] = next[e]
    /\ \A e, f \in Emitters : e # f => Current(e) # Current(f)
BY RunEventsAssumption DEF Events, Current

\* An emitter goes forward only, and what it has logged it sends or dies with.
Progress(e) ==
    /\ next'[e] >= next[e]
    /\ pc[e] \in {"logged", "dead"} /\ next'[e] = next[e] => pc'[e] \in {"logged", "dead"}

LEMMA EmittersProgress ==
    ASSUME StreamTypes, [Next]_vars, NEW f \in Emitters
    PROVE  Progress(f)
<1> USE DEF logVars, runVars, emitVars, connVars, handlerVars, clientVars, faultVars
<1>0. /\ pc \in [Emitters -> {"ready", "counted", "logged", "dead"}]
      /\ next \in [Emitters -> 1..(Rounds + 3)] /\ Rounds \in Nat /\ next[f] \in Nat
  BY RunEventsAssumption DEF StreamTypes, TypeOK
<1>1. ASSUME UNCHANGED <<pc, next>> PROVE Progress(f)
  BY <1>0, <1>1 DEF Progress
<1>2. ASSUME NEW e \in Emitters, EmitStep(e) PROVE Progress(f)
  <2>1. CASE SkipLog(e) \/ BumpCounter(e)
    BY <2>1, <1>0 DEF SkipLog, BumpCounter, MayEmit, Logged, Progress
  <2>2. CASE InsertEvent(e) \/ AppendThrows(e)
    BY <2>2, <1>0 DEF InsertEvent, AppendThrows, Logged, Progress
  <2>3. CASE SendFrame(e)
    BY <2>3, <1>0 DEF SendFrame, Progress
  <2> QED BY <1>2, <2>1, <2>2, <2>3 DEF EmitStep
<1>3. CASE FailRun
  BY <1>3, <1>0 DEF FailRun, Progress
<1>4. CASE Crash
  BY <1>4, <1>0 DEF Crash, Progress
<1>5. CASE CompleteRun \/ DismissRun \/ ReapRun \/ CloseLive
  BY <1>5, <1>1 DEF CompleteRun, DismissRun, ReapRun, CloseLive
<1>6. CASE HandlerStep \/ HandlerThrows
  BY <1>6, <1>1 DEF HandlerStep, HandlerThrows, CheckActive, ReplayActive, ReplayTerminal, TailLog,
                    LookAgain, LookFinished, Drain
<1>7. CASE ClientStep \/ StopByUser \/ Drop
  BY <1>7, <1>1 DEF ClientStep, ReadFrame, Resume, GiveUp, StopByUser, Drop
<1>8. CASE UNCHANGED vars
  BY <1>8, <1>1 DEF vars
<1> QED BY <1>2, <1>3, <1>4, <1>5, <1>6, <1>7, <1>8 DEF Next

LEMMA EmittedStays ==
    ASSUME StreamTypes, [Next]_vars, NEW x \in Events
    PROVE  (Past(x) => Past(x)') /\ (Emitted(x) => Emitted(x)')
<1> DEFINE e == x[1]
<1>1. e \in Emitters /\ x[2] \in Nat
  BY EventParts
<1>2. Progress(e)
  BY <1>1, EmittersProgress
<1>3. next[e] \in Nat /\ next'[e] \in Nat
  <2>1. StreamTypes' /\ Rounds \in Nat
    BY TypesStep, RunEventsAssumption
  <2>2. next \in [Emitters -> 1..(Rounds + 3)] /\ next' \in [Emitters -> 1..(Rounds + 3)]
    BY <2>1 DEF StreamTypes, TypeOK
  <2> QED BY <1>1, <2>1, <2>2
<1> HIDE DEF e
<1>4. /\ Past(x) <=> x[2] < next[e]
      /\ Emitted(x) <=> x[2] < next[e] \/ (x[2] = next[e] /\ pc[e] \in {"logged", "dead"})
      /\ Past(x)' <=> x[2] < next'[e]
      /\ Emitted(x)' <=> x[2] < next'[e] \/ (x[2] = next'[e] /\ pc'[e] \in {"logged", "dead"})
  BY DEF Past, Emitted, e
<1>5. x[2] < next[e] => x[2] < next'[e]
  BY <1>1, <1>2, <1>3 DEF Progress
<1>6. ASSUME x[2] = next[e], pc[e] \in {"logged", "dead"}
      PROVE  x[2] < next'[e] \/ (x[2] = next'[e] /\ pc'[e] \in {"logged", "dead"})
  BY <1>1, <1>2, <1>3, <1>6 DEF Progress
<1> QED BY <1>4, <1>5, <1>6

LEMMA LogOfEventsStep ==
    ASSUME StreamTypes, LogOfEvents, [Next]_vars
    PROVE  LogOfEvents'
<1> USE DEF logVars, runVars, emitVars, connVars, handlerVars, clientVars, faultVars
<1>0. /\ TypeOK /\ pc \in [Emitters -> {"ready", "counted", "logged", "dead"}]
      /\ seq \in [Emitters -> Nat] /\ next \in [Emitters -> 1..(Rounds + 3)]
      /\ \A r \in log : r.event \in Events
  BY DEF StreamTypes, TypeOK, Row
<1>1. \A r \in log : Emitted(r.event)'
  BY <1>0, EmittedStays DEF LogOfEvents
<1>2. ASSUME NEW e \in Emitters, pc[e] \in {"ready", "counted"}
      PROVE  \A r \in log : r.event # Current(e)
  <2> SUFFICES ASSUME NEW r \in log, r.event = Current(e) PROVE FALSE
    OBVIOUS
  <2>1. Emitted(Current(e))
    BY DEF LogOfEvents
  <2>2. next[e] \in Nat
    BY <1>0, RunEventsAssumption
  <2> QED BY <1>2, <2>1, <2>2, EventParts DEF Emitted, Past
<1>3. ASSUME UNCHANGED log,
             \A f \in Emitters : pc'[f] = "logged" =>
                pc[f] = "logged" /\ next'[f] = next[f] /\ seq'[f] = seq[f],
             unsure' = unsure
      PROVE  LogOfEvents'
  <2>1. \A f \in Emitters : pc'[f] = "logged" => Current(f)' = Current(f)
    BY <1>3 DEF Current
  <2> QED BY <1>1, <1>3, <2>1 DEF LogOfEvents
<1>4. ASSUME NEW e \in Emitters, SkipLog(e) PROVE LogOfEvents'
  <2>1. /\ pc[e] = "ready" /\ pc' = [pc EXCEPT ![e] = "logged"] /\ seq' = [seq EXCEPT ![e] = NoId]
        /\ UNCHANGED <<log, next, unsure>>
    BY <1>4 DEF SkipLog, MayEmit, Logged
  <2>2. \A f \in Emitters : Current(f)' = Current(f)
    BY <2>1 DEF Current
  <2>3. \A r \in log : r.event # Current(e)
    BY <2>1, <1>2
  <2>4. pc'[e] = "logged" /\ seq'[e] = NoId /\ \A f \in Emitters \ {e} : pc'[f] = pc[f] /\ seq'[f] = seq[f]
    BY <2>1, <1>0
  <2> QED BY <1>1, <2>1, <2>2, <2>3, <2>4 DEF LogOfEvents
<1>5. ASSUME NEW e \in Emitters, pc[e] = "counted", CommitEvent(e), NEW n, Logged(e, n),
             UNCHANGED next, unsure \subseteq unsure',
             \/ n = seq[e]
             \/ n = NoId /\ Current(e) \in unsure'
      PROVE  LogOfEvents'
  <2> DEFINE row == [seq |-> seq[e], event |-> Current(e)]
  <2>1. log' = log \cup {row} /\ row.event = Current(e) /\ row.seq = seq[e]
    BY <1>5 DEF CommitEvent
  <2> HIDE DEF row
  <2>2. pc' = [pc EXCEPT ![e] = "logged"] /\ seq' = [seq EXCEPT ![e] = n]
    BY <1>5 DEF Logged
  <2>3. pc'[e] = "logged" /\ seq'[e] = n /\ \A f \in Emitters \ {e} : pc'[f] = pc[f] /\ seq'[f] = seq[f]
    BY <2>2, <1>0
  <2>4. \A r \in log : r.event # Current(e)
    BY <1>2, <1>5
  <2>5. \A f \in Emitters : Current(f)' = Current(f)
    BY <1>5 DEF Current
  <2>6. \A r \in log' : Emitted(r.event)'
    <3>1. ASSUME NEW x, x = Current(e) PROVE Emitted(x)'
      BY <1>5, <2>3, <3>1, EventParts DEF Emitted
    <3> QED BY <1>1, <2>1, <3>1
  <2>7. \A r, s \in log' : r.event = s.event => r = s
    BY <2>1, <2>4 DEF LogOfEvents
  <2>8. ASSUME NEW f \in Emitters, pc'[f] = "logged"
        PROVE  /\ \A r \in log' : r.event = Current(f) => r.seq = seq'[f] \/ r.event \in unsure'
               /\ seq'[f] # NoId => \E r \in log' : r.event = Current(f) /\ r.seq = seq'[f]
    <3>1. CASE f = e
      BY <3>1, <1>5, <2>1, <2>3, <2>4
    <3>2. CASE f # e
      <4>1. pc[f] = "logged" /\ seq'[f] = seq[f] /\ Current(e) # Current(f)
        BY <3>2, <2>3, <2>8, EventParts
      <4> QED BY <4>1, <1>5, <2>1 DEF LogOfEvents
    <3> QED BY <3>1, <3>2
  <2> QED BY <2>5, <2>6, <2>7, <2>8 DEF LogOfEvents
<1>6. ASSUME NEW e \in Emitters, EmitStep(e) PROVE LogOfEvents'
  <2>1. CASE BumpCounter(e)
    <3>1. pc' = [pc EXCEPT ![e] = "counted"] /\ seq' = [seq EXCEPT ![e] = counter + 1]
          /\ UNCHANGED <<log, next, unsure>>
      BY <2>1 DEF BumpCounter
    <3> QED BY <3>1, <1>0, <1>3
  <2>2. CASE InsertEvent(e)
    BY <2>2, <1>5 DEF InsertEvent
  <2>3. CASE AppendThrows(e)
    <3>1. CASE CommitEvent(e) /\ unsure' = unsure \cup {Current(e)}
      BY <3>1, <2>3, <1>5 DEF AppendThrows
    <3>2. CASE UNCHANGED <<counter, log, unsure>>
      <4>1. /\ pc[e] = "counted" /\ pc' = [pc EXCEPT ![e] = "logged"] /\ seq' = [seq EXCEPT ![e] = NoId]
            /\ UNCHANGED <<log, next, unsure>>
        BY <2>3, <3>2 DEF AppendThrows, Logged
      <4>2. \A f \in Emitters : Current(f)' = Current(f)
        BY <4>1 DEF Current
      <4>3. \A r \in log : r.event # Current(e)
        BY <4>1, <1>2
      <4>4. /\ pc'[e] = "logged" /\ seq'[e] = NoId
            /\ \A f \in Emitters \ {e} : pc'[f] = pc[f] /\ seq'[f] = seq[f]
        BY <4>1, <1>0
      <4> QED BY <1>1, <4>1, <4>2, <4>3, <4>4 DEF LogOfEvents
    <3> QED BY <2>3, <3>1, <3>2 DEF AppendThrows
  <2>4. CASE SendFrame(e)
    <3>1. /\ pc' = [pc EXCEPT ![e] = "ready"] /\ next' = [next EXCEPT ![e] = @ + 1]
          /\ UNCHANGED <<log, seq, unsure>>
      BY <2>4 DEF SendFrame
    <3> QED BY <3>1, <1>0, <1>3
  <2> QED BY <1>4, <1>6, <2>1, <2>2, <2>3, <2>4 DEF EmitStep
<1>7. CASE FailRun
  <2>1. /\ pc["loop"] = "ready" /\ next' = [next EXCEPT !["loop"] = Rounds + 2]
        /\ UNCHANGED <<log, pc, seq, unsure>>
    BY <1>7 DEF FailRun
  <2> QED BY <2>1, <1>0, <1>3
<1>8. CASE Crash
  BY <1>8, <1>0, <1>3 DEF Crash
<1>9. CASE UNCHANGED <<log, pc, next, seq, unsure>>
  BY <1>9, <1>3
<1>10. CASE CompleteRun \/ DismissRun \/ ReapRun \/ CloseLive
  BY <1>10, <1>9 DEF CompleteRun, DismissRun, ReapRun, CloseLive
<1>11. CASE HandlerStep \/ HandlerThrows
  BY <1>11, <1>9 DEF HandlerStep, HandlerThrows, CheckActive, ReplayActive, ReplayTerminal, TailLog,
                     LookAgain, LookFinished, Drain
<1>12. CASE ClientStep \/ StopByUser \/ Drop
  BY <1>12, <1>9 DEF ClientStep, ReadFrame, Resume, GiveUp, StopByUser, Drop
<1>13. CASE UNCHANGED vars
  BY <1>13, <1>9 DEF vars
<1> QED BY <1>6, <1>7, <1>8, <1>10, <1>11, <1>12, <1>13 DEF Next

-----------------------------------------------------------------------------
(* The cursors of the page and of the resume request. *)

CursorInv ==
    /\ flip <= counter /\ lastSeq <= counter /\ lastSeen <= counter
    /\ \A i \in 1..Len(channel) : channel[i].id <= counter

LEMMA CursorStep ==
    ASSUME StreamTypes, LogOfEvents, CursorInv, [Next]_vars
    PROVE  CursorInv'
<1> USE DEF logVars, runVars, emitVars, connVars, handlerVars, clientVars, faultVars
<1>0. /\ counter \in Nat /\ flip \in Nat /\ lastSeq \in Nat /\ lastSeen \in Nat
      /\ channel \in Seq(Frame) /\ Len(channel) \in Nat
      /\ \A i \in 1..Len(channel) : channel[i] \in Frame /\ channel[i].id \in Nat
      /\ \A r \in log : r.seq \in 1..counter
  <2>1. channel \in Seq(Frame) /\ LogInv
    BY DEF StreamTypes, TypeOK
  <2>2. \A i \in 1..Len(channel) : channel[i] \in Frame
    BY <2>1, ElementOfSeq
  <2> QED BY <2>1, <2>2, LenProperties DEF StreamTypes, TypeOK, Frame, LogInv, LogIsGapless
<1>1. ASSUME counter' \in Nat, counter' >= counter, UNCHANGED <<flip, lastSeq, lastSeen, channel>>
      PROVE  CursorInv'
  BY <1>0, <1>1 DEF CursorInv
<1>2. ASSUME NEW e \in Emitters, pc[e] = "counted", CommitEvent(e) PROVE counter' = counter + 1
  BY <1>2, CommitKeepsGapless DEF StreamTypes
<1>3. ASSUME NEW e \in Emitters, EmitStep(e) PROVE CursorInv'
  <2>1. CASE SkipLog(e) \/ BumpCounter(e)
    BY <2>1, <1>0, <1>1 DEF SkipLog, BumpCounter
  <2>2. CASE InsertEvent(e)
    BY <2>2, <1>0, <1>1, <1>2 DEF InsertEvent
  <2>3. CASE AppendThrows(e)
    BY <2>3, <1>0, <1>1, <1>2 DEF AppendThrows
  <2>4. CASE SendFrame(e) /\ source # "live"
    BY <2>4, <1>0, <1>1 DEF SendFrame
  <2>5. CASE SendFrame(e) /\ source = "live"
    <3>1. /\ Len(channel') = Len(channel) + 1
          /\ \A i \in 1..Len(channel) : channel'[i] = channel[i]
          /\ channel'[Len(channel) + 1] = [event |-> Current(e), id |-> seq[e]]
      BY <2>5, SendFrameSends
    <3>2. seq[e] <= counter
      BY <2>5, <1>0 DEF SendFrame, LogOfEvents, NoId
    <3>3. \A i \in 1..Len(channel') : channel'[i].id <= counter
      <4> SUFFICES ASSUME NEW i \in 1..Len(channel') PROVE channel'[i].id <= counter
        OBVIOUS
      <4>1. i \in 1..Len(channel) \/ i = Len(channel) + 1
        BY <3>1, <1>0
      <4> QED BY <4>1, <3>1, <3>2 DEF CursorInv
    <3> QED BY <2>5, <3>3 DEF SendFrame, CursorInv
  <2> QED BY <1>3, <2>1, <2>2, <2>3, <2>4, <2>5 DEF EmitStep
<1>4. CASE CompleteRun \/ FailRun \/ DismissRun \/ ReapRun
  BY <1>4, <1>0 DEF CompleteRun, FailRun, DismissRun, ReapRun, LeaveActive, CursorInv
<1>5. CASE CloseLive \/ CheckActive \/ LookAgain \/ LookFinished
  BY <1>5, <1>0, <1>1 DEF CloseLive, CheckActive, LookAgain, LookFinished
<1>6. ASSUME MoveCursor PROVE lastSeq' <= counter
  BY <1>0, <1>6, CursorReachesEnd DEF StreamTypes, CursorInv
<1>7. ASSUME NEW n \in {0, 1}, RestIsSent(n), UNCHANGED counter,
             n = 1 => channel'[Len(channel) + Ahead + 1].id = NoId
      PROVE  \A i \in 1..Len(channel') : channel'[i].id <= counter'
  <2> SUFFICES ASSUME NEW i \in 1..Len(channel') PROVE channel'[i].id <= counter
    BY <1>7
  <2>1. Ahead \in Nat /\ Len(channel') = Len(channel) + Ahead + n
    BY <1>7 DEF RestIsSent
  <2> HIDE DEF Ahead
  <2>2. CASE i \in 1..Len(channel)
    BY <2>2, <1>7 DEF RestIsSent, CursorInv
  <2>3. CASE i - Len(channel) \in 1..Ahead
    <3>1. Len(channel) + (i - Len(channel)) = i
      BY <2>1, <1>0
    <3>2. \E r \in log : channel'[i].id = r.seq
      BY <2>3, <3>1, <1>7 DEF RestIsSent
    <3> QED BY <3>2, <1>0
  <2>4. CASE i = Len(channel) + Ahead + 1
    BY <2>4, <2>1, <1>0, <1>7 DEF NoId
  <2> QED BY <2>1, <2>2, <2>3, <2>4, <1>0
<1>8. CASE ReplayActive \/ TailLog \/ Drain
  <2>1. /\ SendUnsent /\ RestIsSent(0) /\ UNCHANGED <<counter, flip, lastSeen>>
    BY <1>8, SendUnsentSends DEF ReplayActive, TailLog, Drain
  <2>2. MoveCursor
    BY <2>1 DEF SendUnsent
  <2>3. \A i \in 1..Len(channel') : channel'[i].id <= counter'
    BY <2>1, <1>7
  <2> QED BY <2>1, <2>2, <2>3, <1>6 DEF CursorInv
<1>9. CASE ReplayTerminal
  <2>0. /\ RestIsSent(1)
        /\ channel'[Len(channel) + Ahead + 1] = [event |-> SyntheticDone, id |-> NoId]
    BY <1>9, ReplayTerminalSends
  <2>1. /\ RestIsSent(1) /\ channel'[Len(channel) + Ahead + 1].id = NoId
        /\ MoveCursor /\ UNCHANGED <<counter, flip, lastSeen>>
    BY <2>0, <1>9 DEF ReplayTerminal
  <2>3. \A i \in 1..Len(channel') : channel'[i].id <= counter'
    BY <2>1, <1>7
  <2> QED BY <2>1, <2>3, <1>6 DEF CursorInv
<1>10. ASSUME channel' = <<>>, UNCHANGED <<counter, flip, lastSeq, lastSeen>> PROVE CursorInv'
  BY <1>10 DEF CursorInv
<1>11. CASE HandlerThrows
  <2>1. CASE handler = "replay"
    <3> DEFINE d == [event |-> ErrorDone, id |-> NoId]
    <3>1. channel' = Append(channel, d) /\ UNCHANGED <<counter, flip, lastSeq, lastSeen>>
      BY <2>1, <1>11 DEF HandlerThrows
    <3>2. d \in Frame /\ d.id = 0
      BY DEF Frame, NoId
    <3> HIDE DEF d
    <3>3. /\ Len(channel') = Len(channel) + 1
          /\ \A i \in 1..Len(channel) : channel'[i] = channel[i]
          /\ channel'[Len(channel) + 1] = d
      BY <3>1, <3>2, <1>0, AppendProperties
    <3>4. \A i \in 1..Len(channel') : channel'[i].id <= counter
      <4> SUFFICES ASSUME NEW i \in 1..Len(channel') PROVE channel'[i].id <= counter
        OBVIOUS
      <4>1. i \in 1..Len(channel) \/ i = Len(channel) + 1
        BY <3>3, <1>0
      <4> QED BY <4>1, <3>2, <3>3, <1>0 DEF CursorInv
    <3> QED BY <3>1, <3>4 DEF CursorInv
  <2>2. CASE handler # "replay"
    BY <2>2, <1>10, <1>11 DEF HandlerThrows
  <2> QED BY <2>1, <2>2
<1>12. CASE ReadFrame
  <2>1. /\ Len(channel) \in Nat \ {0} /\ Len(channel') = Len(channel) - 1
        /\ \A i \in 1..Len(channel') : channel'[i] = channel[i + 1]
        /\ Head(channel) = channel[1]
    BY <1>12, ReadFrameReads
  <2>2. \A i \in 1..Len(channel') : channel'[i].id <= counter
    <3> SUFFICES ASSUME NEW i \in 1..Len(channel') PROVE channel'[i].id <= counter
      OBVIOUS
    <3>1. i + 1 \in 1..Len(channel)
      BY <2>1
    <3> QED BY <3>1, <2>1 DEF CursorInv
  <2>3. lastSeen' <= counter
    <3>1. 1 \in 1..Len(channel)
      BY <2>1
    <3>2. lastSeen' = IF channel[1].id > lastSeen THEN channel[1].id ELSE lastSeen
      BY <2>1, <1>12 DEF ReadFrame
    <3> QED BY <3>1, <3>2 DEF CursorInv
  <2> QED BY <2>2, <2>3, <1>12 DEF ReadFrame, CursorInv
<1>13. CASE Resume
  BY <1>13 DEF Resume, CursorInv
<1>14. CASE GiveUp \/ StopByUser
  BY <1>14, <1>0, <1>1 DEF GiveUp, StopByUser
<1>15. CASE Drop \/ Crash
  BY <1>15, <1>10 DEF Drop, Crash, Disconnect
<1>16. CASE UNCHANGED vars
  BY <1>16, <1>0, <1>1 DEF vars
<1> QED
  BY <1>3, <1>4, <1>5, <1>8, <1>9, <1>11, <1>12, <1>13, <1>14, <1>15, <1>16
     DEF Next, HandlerStep, ClientStep

\* What the theorems below rest on.
StreamInv == StreamTypes /\ LogOfEvents /\ CursorInv

LEMMA StreamInvariant == Spec => []StreamInv
<1>1. Init => StreamInv
  <2> SUFFICES ASSUME Init PROVE LogOfEvents /\ CursorInv
    BY TypesInit DEF StreamInv
  <2>1. log = {} /\ \A e \in Emitters : pc[e] = "ready"
    BY DEF Init
  <2>2. channel = <<>> /\ counter = 0 /\ flip = 0 /\ lastSeq = 0 /\ lastSeen = 0
    BY DEF Init
  <2> QED BY <2>1, <2>2 DEF LogOfEvents, CursorInv
<1>2. StreamInv /\ [Next]_vars => StreamInv'
  BY TypesStep, LogOfEventsStep, CursorStep DEF StreamInv
<1> QED BY <1>1, <1>2, PTL DEF Spec

(* A resume response that ends without an error has sent everything that was *)
(* in the log when the run left the active states: resume/+server.ts drains  *)
(* after it has seen the run over, and the log it drains has no gap.         *)
THEOREM ResumeClosesCaughtUp == Spec => ClosesCaughtUp
<1> USE DEF logVars, runVars, emitVars, connVars, handlerVars, clientVars, faultVars
<1>1. ASSUME StreamInv, [Next]_vars, source = "resume", source' = "closed", UNCHANGED dbErrors
      PROVE  lastSeq' >= flip
  <2>0. /\ counter \in Nat /\ flip \in Nat /\ flip <= counter /\ LogInv /\ lastSeq \in Nat
        /\ dbErrors \in Nat
    BY <1>1, RunEventsAssumption DEF StreamInv, StreamTypes, TypeOK, CursorInv
  <2>1. ASSUME MoveCursor PROVE lastSeq' >= flip
    BY <2>0, <2>1, CursorReachesEnd
  <2>2. ASSUME NEW e \in Emitters, EmitStep(e) PROVE FALSE
    BY <1>1, <2>2 DEF EmitStep, SkipLog, BumpCounter, InsertEvent, AppendThrows, SendFrame
  <2>3. CASE CompleteRun \/ FailRun \/ DismissRun \/ ReapRun \/ CloseLive
    BY <1>1, <2>3 DEF CompleteRun, FailRun, DismissRun, ReapRun, CloseLive
  <2>4. CASE HandlerStep
    <3>1. CASE Drain \/ ReplayTerminal
      BY <3>1, <2>1 DEF Drain, ReplayTerminal, SendUnsent
    <3>2. CASE CheckActive \/ ReplayActive \/ TailLog \/ LookAgain \/ LookFinished
      BY <1>1, <3>2 DEF CheckActive, ReplayActive, TailLog, LookAgain, LookFinished
    <3> QED BY <2>4, <3>1, <3>2 DEF HandlerStep
  <2>5. CASE HandlerThrows
    BY <1>1, <2>0, <2>5 DEF HandlerThrows
  <2>6. CASE ClientStep \/ StopByUser \/ Drop \/ Crash \/ UNCHANGED vars
    BY <1>1, <2>6 DEF ClientStep, ReadFrame, Resume, GiveUp, StopByUser, Drop, Crash, Disconnect, vars
  <2> QED BY <1>1, <2>2, <2>3, <2>4, <2>5, <2>6 DEF Next
<1>2. StreamInv /\ [Next]_vars
        => [source = "resume" /\ source' = "closed" /\ UNCHANGED dbErrors => lastSeq' >= flip]_vars
  BY <1>1
<1> QED BY <1>2, StreamInvariant, PTL DEF Spec, ClosesCaughtUp

-----------------------------------------------------------------------------
(* What reaches the page. *)

\* The page has the event, or one of the first n frames on its way brings it.
Held(x, n) == x \in received \/ \E j \in 1..n : channel[j].event = x

LoopAlone == \A r \in log : r.event[1] = "loop"

\* A frame on its way is not there twice and has not been read, unless its append
\* was reported as failed; while the resume request goes on, the connection holds
\* rows up to its cursor only.
FramesInv ==
    /\ handler # "none" => source = "resume" /\ lastSeen <= lastSeq
    /\ \A i \in 1..Len(channel) :
         /\ channel[i].event \in Events =>
              Emitted(channel[i].event) /\ (source = "live" => Past(channel[i].event))
         /\ \A r \in log : r.event = channel[i].event => r.event \in unsure \/ r.seq = channel[i].id
         /\ handler # "none" =>
              \E r \in log : r.event = channel[i].event /\ r.seq = channel[i].id /\ r.seq <= lastSeq
         /\ channel[i].event \in received => channel[i].event \in unsure
         /\ \A j \in 1..Len(channel) :
              j # i /\ channel[j].event = channel[i].event => channel[i].event \in unsure

\* What the page has read is not past its cursor.
ReceivedInv ==
    \A x \in received :
        /\ x \in Events /\ Emitted(x) /\ (source = "live" => Past(x))
        /\ \A r \in log : r.event = x => x \in unsure \/ r.seq <= lastSeen

\* When the loop alone emits, whatever comes before a frame's number has been read
\* or comes before the frame.
GapInv ==
    /\ \A i \in 1..Len(channel), r \in log : r.seq <= channel[i].id => Held(r.event, i)
    /\ source = "live" =>
         \A r \in log : \/ Held(r.event, Len(channel))
                        \/ r.event = Current("loop") /\ pc["loop"] = "logged"
    /\ handler # "none" => \A r \in log : r.seq <= lastSeq => Held(r.event, Len(channel))

PageInv ==
    /\ NoEventTwice /\ NothingSkipped
    /\ client = "reading" => FramesInv /\ ReceivedInv /\ (LoopAlone => GapInv)

LEMMA LoopWasAlone ==
    ASSUME log \subseteq log', LoopAlone'
    PROVE  LoopAlone
BY DEF LoopAlone

(* The page is left alone, and so is the log. *)
LEMMA PageUntouched ==
    ASSUME StreamInv, PageInv, [Next]_vars,
           UNCHANGED <<log, channel, received, repeated, lastSeen, lastSeq, unsure>>,
           client' = "reading" => client = "reading",
           client' = "reading" /\ handler' # "none" => handler # "none" /\ source' = source,
           source' = "live" => source = "live",
           source' = "live" /\ pc["loop"] = "logged" => pc'["loop"] = "logged" /\ next'["loop"] = next["loop"]
    PROVE  PageInv'
<1>1. NoEventTwice' /\ NothingSkipped'
  BY DEF PageInv, NoEventTwice, NothingSkipped, CursorCovers
<1>2. StreamTypes
  BY DEF StreamInv
<1>3. \A x \in Events : (Past(x) => Past(x)') /\ (Emitted(x) => Emitted(x)')
  BY <1>2, EmittedStays
<1>4. ASSUME client' = "reading" PROVE FramesInv'
  BY <1>3, <1>4 DEF PageInv, FramesInv
<1>5. ASSUME client' = "reading" PROVE ReceivedInv'
  BY <1>3, <1>5 DEF PageInv, ReceivedInv
<1>6. ASSUME client' = "reading", LoopAlone' PROVE GapInv'
  <2>1. GapInv
    BY <1>6, LoopWasAlone DEF PageInv
  <2>2. \A x, n : Held(x, n)' <=> Held(x, n)
    BY DEF Held
  <2>3. source' = "live" /\ pc["loop"] = "logged" => Current("loop")' = Current("loop")
    BY DEF Current
  <2> QED BY <1>6, <2>1, <2>2, <2>3 DEF GapInv
<1> QED BY <1>1, <1>4, <1>5, <1>6 DEF PageInv

(* An event is added to the log: it has never been sent. *)
LEMMA PageAfterCommit ==
    ASSUME StreamInv, PageInv, [Next]_vars, NEW e \in Emitters, pc[e] = "counted", CommitEvent(e),
           pc' = [pc EXCEPT ![e] = "logged"],
           UNCHANGED <<next, channel, received, repeated, lastSeen, lastSeq, client, handler, source>>,
           unsure \subseteq unsure'
    PROVE  PageInv'
<1> DEFINE row == [seq |-> seq[e], event |-> Current(e)]
<1>0. /\ StreamTypes /\ LogOfEvents /\ CursorInv /\ counter \in Nat /\ seq[e] = counter + 1
      /\ next[e] \in Nat /\ lastSeen \in Nat /\ lastSeq \in Nat /\ channel \in Seq(Frame)
      /\ \A r \in log : r.seq \in 1..counter
      /\ pc \in [Emitters -> {"ready", "counted", "logged", "dead"}]
  <2>1. next \in [Emitters -> 1..(Rounds + 3)] /\ Rounds \in Nat
    BY RunEventsAssumption DEF StreamInv, StreamTypes, TypeOK
  <2>2. next[e] \in Nat
    BY <2>1
  <2> QED BY <2>2 DEF StreamInv, StreamTypes, TypeOK, LogInv, LogIsGapless
<1>1. log' = log \cup {row} /\ row.event = Current(e) /\ row.seq = counter + 1
  BY <1>0 DEF CommitEvent
<1> HIDE DEF row
<1>2. Current(e) \in Events /\ ~ Emitted(Current(e))
  <2>1. next[e] <= LastOf(e)
    BY <1>0 DEF StreamTypes
  <2> QED BY <1>0, <2>1, CurrentIsEvent, EventParts DEF Emitted, Past
<1>3. \A x \in Events : (Past(x) => Past(x)') /\ (Emitted(x) => Emitted(x)')
  BY <1>0, EmittedStays
<1>4. \A i \in 1..Len(channel) : channel[i] \in Frame /\ channel[i].id \in Nat /\ channel[i].id <= counter
  <2>1. \A i \in 1..Len(channel) : channel[i] \in Frame
    BY <1>0, ElementOfSeq
  <2> QED BY <2>1, <1>0 DEF Frame, CursorInv
<1>5. NoEventTwice' /\ NothingSkipped'
  BY <1>0, <1>1 DEF PageInv, NoEventTwice, NothingSkipped, CursorCovers, CursorInv
<1>6. ASSUME client = "reading" PROVE FramesInv'
  <2>1. \A i \in 1..Len(channel) : channel[i].event # Current(e)
    BY <1>2, <1>6 DEF PageInv, FramesInv
  <2> QED BY <1>1, <1>3, <1>6, <2>1 DEF PageInv, FramesInv
<1>7. ASSUME client = "reading" PROVE ReceivedInv'
  <2>1. Current(e) \notin received
    BY <1>2, <1>7 DEF PageInv, ReceivedInv
  <2> QED BY <1>1, <1>3, <1>7, <2>1 DEF PageInv, ReceivedInv
<1>8. ASSUME client = "reading", LoopAlone' PROVE GapInv'
  <2>1. GapInv /\ e = "loop"
    BY <1>1, <1>8, LoopWasAlone, EventParts DEF PageInv, LoopAlone
  <2>2. \A x, n : Held(x, n)' <=> Held(x, n)
    BY DEF Held
  <2>3. Current("loop")' = Current("loop") /\ pc'["loop"] = "logged" /\ pc["loop"] # "logged"
    BY <1>0, <2>1 DEF Current
  <2>4. \A i \in 1..Len(channel), r \in log' : r.seq <= channel[i].id => Held(r.event, i)'
    BY <1>0, <1>1, <1>4, <2>1, <2>2 DEF GapInv
  <2>5. source = "live" =>
          \A r \in log' : \/ Held(r.event, Len(channel))'
                          \/ r.event = Current("loop")' /\ pc'["loop"] = "logged"
    BY <1>1, <2>1, <2>2, <2>3 DEF GapInv
  <2>6. handler # "none" => \A r \in log' : r.seq <= lastSeq => Held(r.event, Len(channel))'
    BY <1>0, <1>1, <2>1, <2>2 DEF GapInv, CursorInv
  <2> QED BY <2>4, <2>5, <2>6 DEF GapInv
<1> QED BY <1>5, <1>6, <1>7, <1>8 DEF PageInv

(* The resume request sends the rest of the log, and perhaps a done of its own. *)
LEMMA PageAfterRest ==
    ASSUME StreamInv, PageInv, [Next]_vars, handler # "none", MoveCursor, NEW n \in {0, 1}, RestIsSent(n),
           n = 1 => /\ handler' = "none"
                    /\ channel'[Len(channel) + Ahead + 1] = [event |-> SyntheticDone, id |-> NoId],
           UNCHANGED <<log, received, repeated, lastSeen, unsure, client, pc, next, counter>>,
           source' = source \/ (source' = "closed" /\ handler' = "none")
    PROVE  PageInv'
<1> DEFINE L == Len(channel)
           M == Len(channel')
<1>0. /\ StreamTypes /\ LogOfEvents /\ CursorInv /\ LogInv /\ counter \in Nat
      /\ lastSeen \in Nat /\ lastSeq \in Nat /\ lastSeq <= counter
      /\ \A r \in log : r.seq \in 1..counter /\ r.event \in Events
      /\ \A r, s \in log : r.seq = s.seq => r = s
      /\ \A r, s \in log : r.event = s.event => r = s
  BY DEF StreamInv, StreamTypes, TypeOK, LogInv, LogIsGapless, LogOfEvents, CursorInv, Row
<1>1. /\ L \in Nat /\ Ahead \in Nat /\ M = L + Ahead + n
      /\ \A i \in 1..L : channel'[i] = channel[i]
      /\ \A k \in 1..Ahead :
           \E r \in log : r.seq = lastSeq + k /\ channel'[L + k].event = r.event /\ channel'[L + k].id = r.seq
  BY DEF RestIsSent
<1>2. /\ lastSeq' \in Nat /\ lastSeq' >= lastSeq /\ lastSeq' <= lastSeq + Ahead /\ lastSeq + Ahead <= lastSeq'
      /\ lastSeq' >= counter
  BY <1>0, CursorReachesEnd DEF Ahead
<1>3. n = 1 => channel'[L + Ahead + 1].event \notin Events /\ channel'[L + Ahead + 1].id = 0
  BY EmittersAreApart DEF NoId
<1>4. handler' # "none" => n = 0 /\ source' = source
  BY <1>1
<1> HIDE DEF L, M, Ahead
<1>5. \A i \in 1..M : i \in 1..L \/ (\E k \in 1..Ahead : i = L + k) \/ (n = 1 /\ i = L + Ahead + 1)
  <2> SUFFICES ASSUME NEW i \in 1..M, ~(i \in 1..L), ~(n = 1 /\ i = L + Ahead + 1)
               PROVE  \E k \in 1..Ahead : i = L + k
    OBVIOUS
  <2>1. i - L \in 1..Ahead /\ i = L + (i - L)
    BY <1>1
  <2> QED BY <2>1
<1>6. NoEventTwice' /\ NothingSkipped'
  BY DEF PageInv, NoEventTwice, NothingSkipped, CursorCovers
<1>7. \A x \in Events : Emitted(x)' <=> Emitted(x)
  BY DEF Emitted, Past
<1>8. ASSUME client = "reading" PROVE FramesInv'
  <2>0. source = "resume" /\ source' # "live" /\ lastSeen <= lastSeq
    BY <1>8 DEF PageInv, FramesInv
  <2>o. \A i \in 1..L :
          /\ channel[i].event \in Events => Emitted(channel[i].event)
          /\ \A r \in log : r.event = channel[i].event => r.event \in unsure \/ r.seq = channel[i].id
          /\ \E r \in log : r.event = channel[i].event /\ r.seq = channel[i].id /\ r.seq <= lastSeq
          /\ channel[i].event \in received => channel[i].event \in unsure
          /\ \A j \in 1..L : j # i /\ channel[j].event = channel[i].event => channel[i].event \in unsure
    BY <1>8 DEF PageInv, FramesInv, L
  <2>1. handler' # "none" => source' = "resume" /\ lastSeen <= lastSeq'
    BY <2>0, <1>0, <1>2, <1>4
  <2>n. \A k \in 1..Ahead : channel'[L + k].event \notin received \/ channel'[L + k].event \in unsure
    <3> SUFFICES ASSUME NEW k \in 1..Ahead, channel'[L + k].event \in received
                 PROVE  channel'[L + k].event \in unsure
      OBVIOUS
    <3>1. PICK r \in log : r.seq = lastSeq + k /\ channel'[L + k].event = r.event
      BY <1>1
    <3>2. r.event \in unsure \/ r.seq <= lastSeen
      BY <1>8, <3>1 DEF PageInv, ReceivedInv
    <3> QED BY <3>1, <3>2, <2>0, <1>0, <1>1
  <2>2. ASSUME NEW i \in 1..M
        PROVE  /\ channel'[i].event \in Events => Emitted(channel'[i].event)
               /\ \A r \in log : r.event = channel'[i].event => r.event \in unsure \/ r.seq = channel'[i].id
               /\ handler' # "none" =>
                    \E r \in log : /\ r.event = channel'[i].event /\ r.seq = channel'[i].id
                                   /\ r.seq <= lastSeq'
               /\ channel'[i].event \in received => channel'[i].event \in unsure
    <3>1. CASE i \in 1..L
      <4>1. channel'[i] = channel[i]
        BY <3>1, <1>1
      <4>2. \A r \in log : r.seq <= lastSeq => r.seq <= lastSeq'
        BY <1>0, <1>2
      <4>3. channel[i].event \in Events => Emitted(channel'[i].event)
        BY <4>1, <3>1, <2>o
      <4> QED BY <3>1, <4>1, <4>2, <4>3, <2>o
    <3>2. CASE \E k \in 1..Ahead : i = L + k
      <4>1. PICK k \in 1..Ahead : i = L + k
        BY <3>2
      <4>2. PICK r \in log : r.seq = lastSeq + k /\ channel'[i].event = r.event /\ channel'[i].id = r.seq
        BY <4>1, <1>1
      <4>3. r.seq <= lastSeq'
        BY <4>2, <1>0, <1>2
      <4>4. channel'[i].event \in received => channel'[i].event \in unsure
        BY <4>1, <2>n
      <4>5. Emitted(r.event)
        BY <4>2, <1>0 DEF LogOfEvents
      <4>6. Emitted(channel'[i].event)
        BY <4>2, <4>5
      <4> QED BY <4>2, <4>3, <4>4, <4>6, <1>0
    <3>3. CASE n = 1 /\ i = L + Ahead + 1
      <4>1. channel'[i].event \notin received
        BY <3>3, <1>3, <1>8 DEF PageInv, ReceivedInv
      <4> QED BY <3>3, <4>1, <1>0, <1>3, <1>4
    <3> QED BY <3>1, <3>2, <3>3, <1>5
  <2>3. ASSUME NEW i \in 1..M, NEW j \in 1..M, j # i, channel'[j].event = channel'[i].event
        PROVE  channel'[i].event \in unsure
    <3>r. \A k \in 1..Ahead : \E r \in log : r.seq = lastSeq + k /\ channel'[L + k].event = r.event
      BY <1>1
    <3>1. ASSUME NEW a \in 1..L, NEW k \in 1..Ahead, channel'[a].event = channel'[L + k].event PROVE FALSE
      <4>1. PICK r \in log : r.seq = lastSeq + k /\ channel'[L + k].event = r.event
        BY <3>r
      <4>2. PICK s \in log : s.event = channel[a].event /\ s.seq <= lastSeq
        BY <2>o
      <4>3. channel'[a] = channel[a]
        BY <1>1
      <4>4. r = s
        BY <3>1, <4>1, <4>2, <4>3, <1>0
      <4> QED BY <4>1, <4>2, <4>4, <1>0, <1>1
    <3>2. ASSUME NEW k \in 1..Ahead, NEW m \in 1..Ahead, k # m, channel'[L + k].event = channel'[L + m].event
          PROVE  FALSE
      <4>1. PICK r \in log : r.seq = lastSeq + k /\ channel'[L + k].event = r.event
        BY <3>r
      <4>2. PICK s \in log : s.seq = lastSeq + m /\ channel'[L + m].event = s.event
        BY <3>r
      <4>3. r = s
        BY <3>2, <4>1, <4>2, <1>0
      <4> QED BY <3>2, <4>1, <4>2, <4>3, <1>0, <1>1
    <3>3. \A a \in 1..L : channel'[a].event \in Events
      <4> SUFFICES ASSUME NEW a \in 1..L PROVE channel'[a].event \in Events
        OBVIOUS
      <4>1. PICK s \in log : s.event = channel[a].event
        BY <2>o
      <4> QED BY <4>1, <1>0, <1>1
    <3>4. \A k \in 1..Ahead : channel'[L + k].event \in Events
      BY <3>r, <1>0
    <3>5. CASE i \in 1..L /\ j \in 1..L
      <4>1. channel'[i] = channel[i] /\ channel'[j] = channel[j]
        BY <3>5, <1>1
      <4> QED BY <3>5, <4>1, <2>3, <2>o
    <3>6. CASE n = 1 /\ (i = L + Ahead + 1 \/ j = L + Ahead + 1)
      <4>1. (i \in 1..L \/ \E k \in 1..Ahead : i = L + k) \/ (j \in 1..L \/ \E k \in 1..Ahead : j = L + k)
        BY <2>3, <3>6, <1>5
      <4>2. channel'[i].event \in Events /\ channel'[j].event \in Events
        BY <4>1, <2>3, <3>3, <3>4
      <4> QED BY <3>6, <4>2, <1>3
    <3>7. CASE (i \in 1..L /\ \E k \in 1..Ahead : j = L + k) \/ (j \in 1..L /\ \E k \in 1..Ahead : i = L + k)
      BY <3>7, <2>3, <3>1
    <3>8. CASE (\E k \in 1..Ahead : i = L + k) /\ (\E k \in 1..Ahead : j = L + k)
      <4>1. PICK k \in 1..Ahead : i = L + k
        BY <3>8
      <4>2. PICK m \in 1..Ahead : j = L + m
        BY <3>8
      <4>3. k # m
        BY <4>1, <4>2, <2>3
      <4> QED BY <4>1, <4>2, <4>3, <2>3, <3>2
    <3> QED BY <3>5, <3>6, <3>7, <3>8, <1>5
  <2>4. \A i \in 1..M : Emitted(channel'[i].event) => Emitted(channel[i].event)'
    BY DEF Emitted, Past
  <2> QED BY <2>0, <2>1, <2>2, <2>3, <2>4 DEF FramesInv, M
<1>9. ASSUME client = "reading" PROVE ReceivedInv'
  <2>1. source = "resume" /\ source' # "live"
    BY <1>9 DEF PageInv, FramesInv
  <2>2. ReceivedInv
    BY <1>9 DEF PageInv
  <2>3. \A x \in received : Emitted(x)'
    BY <2>2, <1>7 DEF ReceivedInv
  <2> QED BY <2>1, <2>2, <2>3 DEF ReceivedInv
<1>10. ASSUME client = "reading", LoopAlone' PROVE GapInv'
  <2>0. GapInv /\ source' # "live"
    BY <1>10, LoopWasAlone DEF PageInv, FramesInv
  <2>1. ASSUME NEW x, NEW a \in 0..L, NEW b \in 1..M, a <= b, Held(x, a) PROVE Held(x, b)'
    <3>1. CASE x \in received
      BY <3>1 DEF Held
    <3>2. CASE \E j \in 1..a : channel[j].event = x
      <4>1. PICK j \in 1..a : channel[j].event = x
        BY <3>2
      <4>2. j \in 1..L /\ j \in 1..b
        BY <2>1, <1>1
      <4>3. channel'[j].event = x
        BY <4>1, <4>2, <1>1
      <4> QED BY <4>2, <4>3 DEF Held
    <3> QED BY <2>1, <3>1, <3>2 DEF Held
  <2>2. ASSUME NEW r \in log, NEW k \in 1..Ahead, r.seq = lastSeq + k, NEW b \in 1..M, L + k <= b
        PROVE  Held(r.event, b)'
    <3>1. PICK s \in log : s.seq = lastSeq + k /\ channel'[L + k].event = s.event
      BY <1>1
    <3>2. s = r
      BY <2>2, <3>1, <1>0
    <3>3. L + k \in 1..b
      BY <2>2, <1>1
    <3> QED BY <3>1, <3>2, <3>3 DEF Held
  <2>3. ASSUME NEW r \in log, r.seq <= lastSeq, NEW b \in 1..M, L <= b PROVE Held(r.event, b)'
    <3>1. Held(r.event, L)
      BY <2>0, <2>3 DEF GapInv, L
    <3>2. L \in 0..L
      BY <1>1
    <3> QED BY <2>1, <2>3, <3>1, <3>2
  <2>4. ASSUME NEW i \in 1..M, NEW r \in log, r.seq <= channel'[i].id PROVE Held(r.event, i)'
    <3>1. CASE i \in 1..L
      <4>1. Held(r.event, i)
        BY <2>0, <2>4, <3>1, <1>1 DEF GapInv, L
      <4>2. i \in 0..L /\ i <= i
        BY <3>1, <1>1
      <4> QED BY <2>1, <4>1, <4>2
    <3>2. CASE \E k \in 1..Ahead : i = L + k
      <4>1. PICK k \in 1..Ahead : i = L + k
        BY <3>2
      <4>2. channel'[i].id = lastSeq + k
        BY <4>1, <1>1
      <4>3. CASE r.seq <= lastSeq
        <5>1. L <= i
          BY <4>1, <1>1
        <5> QED BY <5>1, <4>3, <2>3
      <4>4. CASE r.seq > lastSeq
        <5>0. r.seq <= lastSeq + k /\ r.seq \in Nat /\ k \in 1..Ahead
          BY <4>1, <4>2, <2>4, <1>0
        <5>1. r.seq - lastSeq \in 1..Ahead /\ r.seq = lastSeq + (r.seq - lastSeq) /\ L + (r.seq - lastSeq) <= i
          BY <5>0, <4>1, <4>4, <1>0, <1>1
        <5> QED BY <5>1, <2>2
      <4> QED BY <4>3, <4>4, <1>0
    <3>3. CASE n = 1 /\ i = L + Ahead + 1
      BY <3>3, <2>4, <1>0, <1>3
    <3> QED BY <3>1, <3>2, <3>3, <1>5
  <2>5. ASSUME NEW r \in log, r.seq <= lastSeq', handler' # "none", NEW m, m = M PROVE Held(r.event, m)'
    <3>0. CASE L = 0 /\ r.seq <= lastSeq
      <4>1. Held(r.event, 0)
        BY <3>0, <2>0, <2>5, <1>4, <1>10 DEF GapInv, L
      <4> QED BY <4>1 DEF Held
    <3>1. CASE L # 0 /\ r.seq <= lastSeq
      <4>1. m \in 1..M /\ L <= m
        BY <3>1, <2>5, <1>1
      <4> QED BY <3>1, <4>1, <2>3
    <3>2. CASE r.seq > lastSeq
      <4>1. r.seq - lastSeq \in 1..Ahead /\ r.seq = lastSeq + (r.seq - lastSeq) /\ L + (r.seq - lastSeq) <= m
        BY <3>2, <2>5, <1>0, <1>1, <1>2
      <4>2. m \in 1..M
        BY <4>1, <2>5, <1>1
      <4> QED BY <4>1, <4>2, <2>2
    <3> QED BY <3>0, <3>1, <3>2, <1>0
  <2>6. \A i \in 1..M, r \in log : r.seq <= channel'[i].id => Held(r.event, i)'
    BY <2>4
  <2>7. handler' # "none" => \A r \in log : r.seq <= lastSeq' => \A m : m = M => Held(r.event, m)'
    BY <2>5
  <2> QED BY <2>0, <2>6, <2>7 DEF GapInv, M, Held
<1> QED BY <1>6, <1>8, <1>9, <1>10 DEF PageInv

(* A live frame: its event has not been sent before. *)
LEMMA PageAfterSend ==
    ASSUME StreamInv, PageInv, [Next]_vars, NEW e \in Emitters, SendFrame(e), source = "live"
    PROVE  PageInv'
<1> USE DEF logVars, runVars, emitVars, connVars, handlerVars, clientVars, faultVars
<1> DEFINE L == Len(channel)
           M == Len(channel')
<1>0. /\ StreamTypes /\ LogOfEvents /\ LogInv /\ pc[e] = "logged"
      /\ UNCHANGED <<log, received, repeated, lastSeen, lastSeq, unsure, client, handler, source, seq>>
      /\ pc' = [pc EXCEPT ![e] = "ready"] /\ next' = [next EXCEPT ![e] = @ + 1]
      /\ pc \in [Emitters -> {"ready", "counted", "logged", "dead"}]
      /\ \A r \in log : r.seq \in Nat \ {0} /\ r.event \in Events
  <2>1. /\ StreamTypes /\ LogOfEvents /\ LogInv /\ counter \in Nat
        /\ pc \in [Emitters -> {"ready", "counted", "logged", "dead"}]
    BY DEF StreamInv, StreamTypes, TypeOK
  <2>2. \A r \in log : r.seq \in Nat \ {0}
    BY <2>1 DEF LogInv, LogIsGapless
  <2>3. \A r \in log : r.event \in Events
    BY <2>1 DEF StreamTypes, TypeOK, Row
  <2> QED BY <2>1, <2>2, <2>3 DEF SendFrame
<1>n. next[e] \in Nat /\ next'[e] = next[e] + 1 /\ next[e] <= LastOf(e)
      /\ \A f \in Emitters \ {e} : next'[f] = next[f] /\ pc'[f] = pc[f]
  <2>1. next \in [Emitters -> 1..(Rounds + 3)] /\ Rounds \in Nat
    BY <1>0, RunEventsAssumption DEF StreamTypes, TypeOK
  <2> QED BY <2>1, <1>0 DEF StreamTypes
<1>1. /\ L \in Nat /\ M = L + 1 /\ \A i \in 1..L : channel'[i] = channel[i]
      /\ channel'[L + 1].event = Current(e) /\ channel'[L + 1].id = seq[e]
  <2>1. /\ Len(channel) \in Nat /\ Len(channel') = Len(channel) + 1
        /\ \A i \in 1..Len(channel) : channel'[i] = channel[i]
        /\ channel'[Len(channel) + 1] = [event |-> Current(e), id |-> seq[e]]
    BY <1>0, SendFrameSends
  <2> QED BY <2>1
<1> HIDE DEF L, M
<1>2. \A i \in 1..M : i \in 1..L \/ i = L + 1
  BY <1>1
<1>3. Current(e) \in Events /\ ~ Past(Current(e))
  BY <1>0, <1>n, CurrentIsEvent, EventParts DEF Past
<1>4. \A x \in Events : (Past(x) => Past(x)') /\ (Emitted(x) => Emitted(x)')
  BY <1>0, EmittedStays
<1>5. \A x : x = Current(e) => Past(x)' /\ Emitted(x)'
  BY <1>n, EventParts DEF Past, Emitted
<1>6. NoEventTwice' /\ NothingSkipped'
  BY <1>0 DEF PageInv, NoEventTwice, NothingSkipped, CursorCovers
<1>7. ASSUME client = "reading" PROVE FramesInv'
  <2>1. handler = "none"
    BY <1>7 DEF PageInv, FramesInv
  <2>2. \A i \in 1..L : channel[i].event # Current(e)
    BY <1>3, <1>7 DEF PageInv, FramesInv, L
  <2>3. Current(e) \notin received
    BY <1>3, <1>7 DEF PageInv, ReceivedInv
  <2>4. \A r \in log : r.event = Current(e) => r.event \in unsure \/ r.seq = seq[e]
    BY <1>0 DEF LogOfEvents
  <2>5. ASSUME NEW i \in 1..M
        PROVE  /\ \A x : x = channel'[i].event /\ x \in Events => Emitted(x)' /\ Past(x)'
               /\ \A r \in log : r.event = channel'[i].event => r.event \in unsure \/ r.seq = channel'[i].id
               /\ channel'[i].event \in received => channel'[i].event \in unsure
               /\ \A j \in 1..M :
                    j # i /\ channel'[j].event = channel'[i].event => channel'[i].event \in unsure
    <3>1. CASE i \in 1..L
      <4>1. channel'[i] = channel[i]
        BY <3>1, <1>1
      <4>2. \A x : x = channel[i].event /\ x \in Events => Emitted(x)' /\ Past(x)'
        BY <3>1, <1>4, <1>7 DEF PageInv, FramesInv, L
      <4>3. \A j \in 1..M : j # i /\ channel'[j].event = channel'[i].event => channel'[i].event \in unsure
        <5> SUFFICES ASSUME NEW j \in 1..M, j # i, channel'[j].event = channel'[i].event
                     PROVE  channel'[i].event \in unsure
          OBVIOUS
        <5>1. j \in 1..L
          BY <4>1, <3>1, <1>1, <1>2, <2>2
        <5>2. channel'[j] = channel[j]
          BY <5>1, <1>1
        <5> QED BY <3>1, <4>1, <5>1, <5>2, <1>7 DEF PageInv, FramesInv, L
      <4> QED BY <3>1, <4>1, <4>2, <4>3, <1>7 DEF PageInv, FramesInv, L
    <3>2. CASE i = L + 1
      <4>1. \A j \in 1..M : j # i => channel'[j].event # Current(e)
        BY <3>2, <1>1, <1>2, <2>2
      <4> QED BY <3>2, <4>1, <1>1, <1>5, <2>3, <2>4
    <3> QED BY <3>1, <3>2, <1>2
  <2> QED BY <2>1, <2>5, <1>0 DEF FramesInv, M
<1>8. ASSUME client = "reading" PROVE ReceivedInv'
  BY <1>0, <1>4, <1>8 DEF PageInv, ReceivedInv
<1>9. ASSUME client = "reading", LoopAlone' PROVE GapInv'
  <2>0. LoopAlone /\ GapInv /\ handler = "none"
    BY <1>0, <1>9, LoopWasAlone DEF PageInv, FramesInv
  <2>1. ASSUME NEW x, NEW a \in 0..L, NEW b \in 1..M, a <= b, Held(x, a) PROVE Held(x, b)'
    <3>1. CASE x \in received
      BY <3>1, <1>0 DEF Held
    <3>2. CASE \E j \in 1..a : channel[j].event = x
      <4>1. PICK j \in 1..a : channel[j].event = x
        BY <3>2
      <4>2. j \in 1..L /\ j \in 1..b
        BY <2>1, <1>1
      <4>3. channel'[j].event = x
        BY <4>1, <4>2, <1>1
      <4> QED BY <4>2, <4>3 DEF Held
    <3> QED BY <2>1, <3>1, <3>2 DEF Held
  <2>2. ASSUME NEW m, m = M PROVE /\ \A x : Held(x, L) => Held(x, m)'
                                  /\ \A x : x = Current(e) => Held(x, m)'
    <3>1. m \in 1..M /\ L \in 0..L /\ L <= m
      BY <2>2, <1>1
    <3>2. L + 1 \in 1..m /\ channel'[L + 1].event = Current(e)
      BY <2>2, <1>1
    <3> QED BY <3>1, <3>2, <2>1 DEF Held
  <2>3. \A r \in log : Held(r.event, L) \/ (r.event = Current("loop") /\ pc["loop"] = "logged")
    BY <2>0 DEF GapInv, L
  <2>4. ASSUME NEW i \in 1..M, NEW r \in log, r.seq <= channel'[i].id PROVE Held(r.event, i)'
    <3>1. CASE i \in 1..L
      <4>1. Held(r.event, i)
        BY <2>0, <2>4, <3>1, <1>1 DEF GapInv, L
      <4>2. i \in 0..L /\ i <= i
        BY <3>1, <1>1
      <4> QED BY <2>1, <4>1, <4>2
    <3>2. CASE i = L + 1
      <4>1. r.seq <= seq[e] /\ i = M
        BY <2>4, <3>2, <1>1
      <4>2. seq[e] # NoId
        BY <4>1, <1>0 DEF NoId
      <4>3. \E s \in log : s.event = Current(e)
        BY <4>2, <1>0 DEF LogOfEvents
      <4>4. e = "loop"
        BY <4>3, <2>0, EventParts DEF LoopAlone
      <4> QED BY <4>1, <4>4, <2>2, <2>3
    <3> QED BY <3>1, <3>2, <1>2
  <2>5. ASSUME NEW r \in log, NEW m, m = M
        PROVE  Held(r.event, m)' \/ (r.event = Current("loop")' /\ pc'["loop"] = "logged")
    <3>1. CASE e = "loop"
      BY <3>1, <2>2, <2>3, <2>5
    <3>2. CASE e # "loop"
      <4>1. Current("loop")' = Current("loop") /\ pc'["loop"] = pc["loop"]
        BY <3>2, <1>n, EmittersAreApart DEF Current
      <4> QED BY <4>1, <2>2, <2>3, <2>5
    <3> QED BY <3>1, <3>2
  <2>6. \A i \in 1..M, r \in log : r.seq <= channel'[i].id => Held(r.event, i)'
    BY <2>4
  <2>7. \A r \in log : \A m : m = M =>
            Held(r.event, m)' \/ (r.event = Current("loop")' /\ pc'["loop"] = "logged")
    BY <2>5
  <2> QED BY <2>0, <2>6, <2>7, <1>0 DEF GapInv, M, Held
<1> QED BY <1>0, <1>6, <1>7, <1>8, <1>9 DEF PageInv

(* The resume request answers an error of its replay with a done. *)
LEMMA PageAfterError ==
    ASSUME StreamInv, PageInv, [Next]_vars, HandlerThrows, handler = "replay"
    PROVE  PageInv'
<1> USE DEF logVars, runVars, emitVars, connVars, handlerVars, clientVars, faultVars
<1> DEFINE L == Len(channel)
           M == Len(channel')
           d == [event |-> ErrorDone, id |-> NoId]
<1>0. /\ StreamTypes /\ LogInv /\ channel \in Seq(Frame)
      /\ UNCHANGED <<log, received, repeated, lastSeen, lastSeq, unsure, client, pc, next>>
      /\ handler' = "none" /\ source' = "closed" /\ channel' = Append(channel, d)
      /\ \A r \in log : r.seq \in Nat \ {0} /\ r.event \in Events
  BY DEF StreamInv, StreamTypes, TypeOK, HandlerThrows, LogInv, LogIsGapless, Row
<1>1. d \in Frame /\ d.event \notin Events /\ d.id = 0
  BY EmittersAreApart DEF Frame, NoId
<1> HIDE DEF d
<1>2. /\ L \in Nat /\ M = L + 1 /\ (\A i \in 1..L : channel'[i] = channel[i]) /\ channel'[L + 1] = d
  BY <1>0, <1>1, AppendProperties, LenProperties
<1> HIDE DEF L, M
<1>3. \A i \in 1..M : i \in 1..L \/ i = L + 1
  BY <1>2
<1>4. NoEventTwice' /\ NothingSkipped'
  BY <1>0 DEF PageInv, NoEventTwice, NothingSkipped, CursorCovers
<1>5. ASSUME client = "reading" PROVE FramesInv'
  <2>1. d.event \notin received
    BY <1>1, <1>5 DEF PageInv, ReceivedInv
  <2>2. \A i \in 1..L : channel[i].event # d.event
    BY <1>0, <1>1, <1>5 DEF PageInv, FramesInv, L
  <2>3. ASSUME NEW i \in 1..M
        PROVE  /\ \A x : x = channel'[i].event /\ x \in Events => Emitted(x)'
               /\ \A r \in log : r.event = channel'[i].event => r.event \in unsure \/ r.seq = channel'[i].id
               /\ channel'[i].event \in received => channel'[i].event \in unsure
               /\ \A j \in 1..M :
                    j # i /\ channel'[j].event = channel'[i].event => channel'[i].event \in unsure
    <3>1. CASE i \in 1..L
      <4>1. channel'[i] = channel[i]
        BY <3>1, <1>2
      <4>2. \A x : x = channel[i].event /\ x \in Events => Emitted(x)'
        BY <3>1, <1>0, <1>5 DEF PageInv, FramesInv, L, Emitted, Past
      <4>3. \A j \in 1..M : j # i /\ channel'[j].event = channel'[i].event => channel'[i].event \in unsure
        <5> SUFFICES ASSUME NEW j \in 1..M, j # i, channel'[j].event = channel'[i].event
                     PROVE  channel'[i].event \in unsure
          OBVIOUS
        <5>1. j \in 1..L
          BY <4>1, <3>1, <1>2, <1>3, <2>2
        <5>2. channel'[j] = channel[j]
          BY <5>1, <1>2
        <5> QED BY <3>1, <4>1, <5>1, <5>2, <1>5 DEF PageInv, FramesInv, L
      <4> QED BY <3>1, <4>1, <4>2, <4>3, <1>5 DEF PageInv, FramesInv, L
    <3>2. CASE i = L + 1
      <4>1. \A j \in 1..M : j # i => channel'[j].event # d.event
        BY <3>2, <1>2, <1>3, <2>2
      <4> QED BY <3>2, <4>1, <1>0, <1>1, <1>2, <2>1
    <3> QED BY <3>1, <3>2, <1>3
  <2> QED BY <2>3, <1>0 DEF FramesInv, M
<1>6. ASSUME client = "reading" PROVE ReceivedInv'
  BY <1>0, <1>6 DEF PageInv, ReceivedInv, Emitted, Past
<1>7. ASSUME client = "reading", LoopAlone' PROVE GapInv'
  <2>0. GapInv
    BY <1>0, <1>7, LoopWasAlone DEF PageInv
  <2>1. ASSUME NEW i \in 1..M, NEW r \in log, r.seq <= channel'[i].id PROVE Held(r.event, i)'
    <3>1. CASE i \in 1..L
      <4>1. Held(r.event, i)
        BY <2>0, <2>1, <3>1, <1>2 DEF GapInv, L
      <4>2. \A j \in 1..i : channel'[j] = channel[j]
        BY <3>1, <1>2
      <4> QED BY <4>1, <4>2, <1>0 DEF Held
    <3>2. CASE i = L + 1
      BY <3>2, <2>1, <1>0, <1>1, <1>2
    <3> QED BY <3>1, <3>2, <1>3
  <2>2. \A i \in 1..M, r \in log : r.seq <= channel'[i].id => Held(r.event, i)'
    BY <2>1
  <2> QED BY <2>2, <1>0 DEF GapInv, M, Held
<1> QED BY <1>0, <1>4, <1>5, <1>6, <1>7 DEF PageInv

(* A connection is lost with what was on it. *)
LEMMA PageAfterCut ==
    ASSUME StreamInv, PageInv, [Next]_vars, channel' = <<>>, handler' = "none", source' = "broken",
           UNCHANGED <<log, received, repeated, lastSeen, unsure, client>>
    PROVE  PageInv'
<1>1. NoEventTwice' /\ NothingSkipped'
  BY DEF PageInv, NoEventTwice, NothingSkipped, CursorCovers
<1>2. \A x \in Events : Emitted(x) => Emitted(x)'
  BY EmittedStays DEF StreamInv
<1>3. FramesInv' /\ GapInv'
  <2>1. \A i \in 1..Len(channel') : FALSE
    OBVIOUS
  <2> QED BY <2>1 DEF FramesInv, GapInv
<1>4. ASSUME client = "reading" PROVE ReceivedInv'
  BY <1>2, <1>4 DEF PageInv, ReceivedInv
<1> QED BY <1>1, <1>3, <1>4 DEF PageInv

(* The page asks for the rest, from where its own cursor is. *)
LEMMA PageAfterResume ==
    ASSUME StreamInv, PageInv, [Next]_vars, Resume
    PROVE  PageInv'
<1> USE DEF logVars, runVars, emitVars, connVars, handlerVars, clientVars, faultVars
<1>0. /\ UNCHANGED <<log, received, repeated, lastSeen, unsure, client, pc, next, channel>>
      /\ channel = <<>> /\ handler' = "check" /\ source' = "resume" /\ lastSeq' = lastSeen
      /\ client = "reading" /\ lastSeen \in Nat
  BY DEF StreamInv, StreamTypes, TypeOK, Resume, StreamEnded
<1>1. NoEventTwice' /\ NothingSkipped'
  BY <1>0 DEF PageInv, NoEventTwice, NothingSkipped, CursorCovers
<1>e. \A i \in 1..Len(channel') : FALSE
  BY <1>0
<1>2. FramesInv'
  <2>1. lastSeen' <= lastSeq'
    BY <1>0
  <2> QED BY <2>1, <1>0, <1>e DEF FramesInv
<1>3. ReceivedInv'
  BY <1>0 DEF PageInv, ReceivedInv, Emitted, Past
<1>4. ASSUME LoopAlone' PROVE GapInv'
  <2>1. CursorCovers
    BY <1>0, <1>4, LoopWasAlone DEF PageInv, NothingSkipped, LoopAlone
  <2> QED BY <2>1, <1>0, <1>e DEF GapInv, CursorCovers, Held
<1> QED BY <1>1, <1>2, <1>3, <1>4 DEF PageInv

(* The page reads a frame: what it has read is now up to the frame's number. *)
LEMMA PageAfterRead ==
    ASSUME StreamInv, PageInv, [Next]_vars, ReadFrame
    PROVE  PageInv'
<1> USE DEF logVars, runVars, emitVars, connVars, handlerVars, clientVars, faultVars
<1> DEFINE f == channel[1]
           L == Len(channel)
           M == Len(channel')
<1>0. /\ StreamTypes /\ LogInv /\ lastSeen \in Nat /\ lastSeq \in Nat
      /\ FramesInv /\ ReceivedInv /\ (LoopAlone => GapInv) /\ NoEventTwice /\ NothingSkipped
      /\ UNCHANGED <<log, unsure, source, handler, lastSeq, pc, next>>
      /\ \A r \in log : r.seq \in Nat /\ r.event \in Events
  BY DEF StreamInv, StreamTypes, TypeOK, ReadFrame, LogInv, LogTypes, Row, PageInv
<1>1. L \in Nat \ {0} /\ M = L - 1 /\ (\A i \in 1..M : channel'[i] = channel[i + 1]) /\ f \in Frame
  BY <1>0, ReadFrameReads
<1>2. /\ lastSeen' = IF f.id > lastSeen THEN f.id ELSE lastSeen
      /\ received' = received \cup {f.event}
      /\ repeated' = repeated \cup ({f.event} \cap received)
      /\ client' = IF IsDone(f.event) THEN "done" ELSE client
  BY <1>0, ReadFrameReads DEF ReadFrame
<1>3. 1 \in 1..L /\ \A i \in 1..M : i + 1 \in 1..L
  BY <1>1
<1>4. f.id \in Nat
  BY <1>1 DEF Frame
<1> HIDE DEF f, L, M
<1>5. /\ f.event \in Events => Emitted(f.event) /\ (source = "live" => Past(f.event))
      /\ \A r \in log : r.event = f.event => r.event \in unsure \/ r.seq = f.id
      /\ handler # "none" => \E r \in log : r.event = f.event /\ r.seq = f.id /\ r.seq <= lastSeq
      /\ f.event \in received => f.event \in unsure
      /\ \A j \in 1..L : j # 1 /\ channel[j].event = f.event => f.event \in unsure
  BY <1>0, <1>3 DEF FramesInv, f, L
<1>6. NoEventTwice'
  BY <1>0, <1>2, <1>5 DEF NoEventTwice
<1>h. \A x, n : n \in Nat /\ n + 1 \in 1..L => (Held(x, n + 1) => Held(x, n)')
  <2> SUFFICES ASSUME NEW x, NEW n \in Nat, n + 1 \in 1..L, Held(x, n + 1) PROVE Held(x, n)'
    OBVIOUS
  <2>1. CASE x \in received \/ x = f.event
    BY <2>1, <1>2 DEF Held
  <2>2. CASE \E j \in 1..(n + 1) : j # 1 /\ channel[j].event = x
    <3>1. PICK j \in 1..(n + 1) : j # 1 /\ channel[j].event = x
      BY <2>2
    <3>2. j - 1 \in 1..n /\ j - 1 \in 1..M /\ (j - 1) + 1 = j
      BY <3>1, <1>1
    <3>3. channel'[j - 1] = channel[j]
      BY <3>2, <1>1
    <3> QED BY <3>1, <3>2, <3>3 DEF Held
  <2> QED BY <2>1, <2>2 DEF Held, f
<1>7. ASSUME LoopAlone PROVE CursorCovers'
  <2> SUFFICES ASSUME NEW r \in log, r.seq <= lastSeen' PROVE r.event \in received'
    BY <1>0 DEF CursorCovers
  <2>1. CASE r.seq <= lastSeen
    BY <2>1, <1>0, <1>2, <1>7 DEF NothingSkipped, LoopAlone, CursorCovers
  <2>2. CASE r.seq <= f.id
    <3>1. Held(r.event, 1)
      BY <2>2, <1>0, <1>3, <1>7 DEF GapInv, f, L
    <3> QED BY <3>1, <1>2 DEF Held, f
  <2> QED BY <2>1, <2>2, <1>2
<1>8. NothingSkipped'
  BY <1>0, <1>7 DEF NothingSkipped, LoopAlone
<1>9. ASSUME client' = "reading" PROVE FramesInv'
  <2>1. handler # "none" => source = "resume" /\ lastSeen' <= lastSeq
    <3>1. ASSUME handler # "none" PROVE f.id <= lastSeq
      BY <3>1, <1>5
    <3> QED BY <3>1, <1>0, <1>2 DEF FramesInv
  <2>2. ASSUME NEW i \in 1..M
        PROVE  /\ channel'[i].event \in Events =>
                    Emitted(channel'[i].event) /\ (source = "live" => Past(channel'[i].event))
               /\ \A r \in log : r.event = channel'[i].event => r.event \in unsure \/ r.seq = channel'[i].id
               /\ handler # "none" =>
                    \E r \in log : /\ r.event = channel'[i].event /\ r.seq = channel'[i].id
                                   /\ r.seq <= lastSeq
               /\ channel'[i].event \in received' => channel'[i].event \in unsure
               /\ \A j \in 1..M :
                    j # i /\ channel'[j].event = channel'[i].event => channel'[i].event \in unsure
    <3>1. i + 1 \in 1..L /\ channel'[i] = channel[i + 1] /\ i + 1 # 1
      BY <1>1, <1>3
    <3>2. /\ channel[i + 1].event \in Events =>
               Emitted(channel[i + 1].event) /\ (source = "live" => Past(channel[i + 1].event))
          /\ \A r \in log : r.event = channel[i + 1].event => r.event \in unsure \/ r.seq = channel[i + 1].id
          /\ handler # "none" =>
               \E r \in log : /\ r.event = channel[i + 1].event /\ r.seq = channel[i + 1].id
                              /\ r.seq <= lastSeq
          /\ channel[i + 1].event \in received => channel[i + 1].event \in unsure
          /\ \A j \in 1..L :
               j # i + 1 /\ channel[j].event = channel[i + 1].event => channel[i + 1].event \in unsure
      BY <3>1, <1>0 DEF FramesInv, L
    <3>3. channel'[i].event = f.event => channel'[i].event \in unsure
      BY <3>1, <1>5
    <3>4. \A j \in 1..M : j # i /\ channel'[j].event = channel'[i].event => channel'[i].event \in unsure
      <4> SUFFICES ASSUME NEW j \in 1..M, j # i, channel'[j].event = channel'[i].event
                   PROVE  channel'[i].event \in unsure
        OBVIOUS
      <4>1. j + 1 \in 1..L /\ channel'[j] = channel[j + 1] /\ j + 1 # i + 1
        BY <1>1, <1>3
      <4> QED BY <4>1, <3>1, <3>2
    <3> QED BY <3>1, <3>2, <3>3, <3>4, <1>2
  <2>3. \A x : (Emitted(x) => Emitted(x)') /\ (Past(x) => Past(x)')
    BY <1>0 DEF Emitted, Past
  <2>4. \A i \in 1..M : \A x : x = channel'[i].event =>
          (x \in Events => Emitted(x)' /\ (source = "live" => Past(x)'))
    BY <2>2, <2>3
  <2> QED BY <2>1, <2>2, <2>4, <1>0 DEF FramesInv, M
<1>10. ASSUME client' = "reading" PROVE ReceivedInv'
  <2>1. f.event \in Events
    BY <1>1, <1>2, <1>10 DEF Frame, IsDone
  <2>2. ASSUME NEW x \in received'
        PROVE  /\ x \in Events /\ Emitted(x)' /\ (source = "live" => Past(x)')
               /\ \A r \in log : r.event = x => x \in unsure \/ r.seq <= lastSeen'
    <3>0. Emitted(x)' = Emitted(x) /\ Past(x)' = Past(x)
      BY <1>0 DEF Emitted, Past
    <3>1. CASE x = f.event
      BY <3>0, <3>1, <2>1, <1>0, <1>2, <1>4, <1>5
    <3>2. CASE x \in received
      BY <3>0, <3>2, <1>0, <1>2, <1>4 DEF ReceivedInv
    <3> QED BY <2>2, <3>1, <3>2, <1>2
  <2> QED BY <2>2, <1>0 DEF ReceivedInv
<1>11. ASSUME LoopAlone' PROVE GapInv'
  <2>0. GapInv
    BY <1>0, <1>11, LoopWasAlone
  <2>m. \A m : m = M => m \in Nat /\ m + 1 = L /\ m + 1 \in 1..L
    BY <1>1
  <2>1. \A i \in 1..M, r \in log : r.seq <= channel'[i].id => Held(r.event, i)'
    <3> SUFFICES ASSUME NEW i \in 1..M, NEW r \in log, r.seq <= channel'[i].id PROVE Held(r.event, i)'
      OBVIOUS
    <3>1. i \in Nat /\ i + 1 \in 1..L /\ channel'[i] = channel[i + 1]
      BY <1>1, <1>3
    <3>2. Held(r.event, i + 1)
      BY <3>1, <2>0 DEF GapInv, L
    <3> QED BY <3>1, <3>2, <1>h
  <2>2. source = "live" =>
          \A r \in log : \A m : m = M =>
             Held(r.event, m)' \/ (r.event = Current("loop")' /\ pc'["loop"] = "logged")
    <3>1. Current("loop")' = Current("loop")
      BY <1>0 DEF Current
    <3> QED BY <3>1, <2>0, <2>m, <1>0, <1>h DEF GapInv, L
  <2>3. handler # "none" => \A r \in log : r.seq <= lastSeq => \A m : m = M => Held(r.event, m)'
    BY <2>0, <2>m, <1>h DEF GapInv, L
  <2> QED BY <2>1, <2>2, <2>3, <1>0 DEF GapInv, M, Held
<1> QED BY <1>6, <1>8, <1>9, <1>10, <1>11 DEF PageInv

LEMMA PageStep == StreamInv /\ PageInv /\ [Next]_vars => PageInv'
<1> SUFFICES ASSUME StreamInv, PageInv, [Next]_vars PROVE PageInv'
  OBVIOUS
<1> USE DEF logVars, runVars, emitVars, connVars, handlerVars, clientVars, faultVars
<1>0. pc \in [Emitters -> {"ready", "counted", "logged", "dead"}] /\ seq \in [Emitters -> Nat]
      /\ "loop" \in Emitters
  BY EmittersAreApart DEF StreamInv, StreamTypes, TypeOK
<1>1. ASSUME NEW e \in Emitters, EmitStep(e) PROVE PageInv'
  <2>1. CASE SkipLog(e) \/ BumpCounter(e)
    <3>1. /\ UNCHANGED <<log, channel, received, repeated, lastSeen, lastSeq, unsure, client, handler,
                         source, next>>
          /\ pc["loop"] = "logged" => pc'["loop"] = "logged"
      BY <2>1, <1>0 DEF SkipLog, BumpCounter, MayEmit, Logged
    <3> QED BY <3>1, PageUntouched
  <2>2. CASE InsertEvent(e)
    BY <2>2, PageAfterCommit DEF InsertEvent, Logged
  <2>3. CASE AppendThrows(e)
    <3>1. CASE CommitEvent(e) /\ unsure' = unsure \cup {Current(e)}
      BY <2>3, <3>1, PageAfterCommit DEF AppendThrows, Logged
    <3>2. CASE UNCHANGED <<counter, log, unsure>>
      <4>1. /\ UNCHANGED <<log, channel, received, repeated, lastSeen, lastSeq, unsure, client, handler,
                           source, next>>
            /\ pc["loop"] = "logged" => pc'["loop"] = "logged"
        BY <2>3, <3>2, <1>0 DEF AppendThrows, Logged
      <4> QED BY <4>1, PageUntouched
    <3> QED BY <2>3, <3>1, <3>2 DEF AppendThrows
  <2>4. CASE SendFrame(e) /\ source = "live"
    BY <2>4, PageAfterSend
  <2>5. CASE SendFrame(e) /\ source # "live"
    BY <2>5, PageUntouched DEF SendFrame
  <2> QED BY <1>1, <2>1, <2>2, <2>3, <2>4, <2>5 DEF EmitStep
<1>2. CASE CompleteRun \/ DismissRun \/ ReapRun
  BY <1>2, PageUntouched DEF CompleteRun, DismissRun, ReapRun
<1>3. CASE FailRun
  BY <1>3, PageUntouched DEF FailRun
<1>4. CASE CloseLive
  <2>1. client = "reading" => handler = "none"
    BY <1>4 DEF CloseLive, PageInv, FramesInv
  <2> QED BY <1>4, <2>1, PageUntouched DEF CloseLive
<1>5. CASE CheckActive \/ LookAgain \/ LookFinished
  BY <1>5, PageUntouched DEF CheckActive, LookAgain, LookFinished
<1>6. CASE ReplayActive \/ TailLog \/ Drain
  <2>1. RestIsSent(0)
    BY <1>6, SendUnsentSends DEF ReplayActive, TailLog, Drain, StreamInv
  <2> QED BY <1>6, <2>1, PageAfterRest DEF ReplayActive, TailLog, Drain, SendUnsent
<1>7. CASE ReplayTerminal
  <2>1. /\ RestIsSent(1)
        /\ channel'[Len(channel) + Ahead + 1] = [event |-> SyntheticDone, id |-> NoId]
    BY <1>7, ReplayTerminalSends DEF StreamInv
  <2> QED BY <1>7, <2>1, PageAfterRest DEF ReplayTerminal
<1>8. CASE HandlerThrows
  BY <1>8, PageAfterError, PageAfterCut DEF HandlerThrows
<1>9. CASE ReadFrame
  BY <1>9, PageAfterRead
<1>10. CASE Resume
  BY <1>10, PageAfterResume
<1>11. CASE GiveUp \/ StopByUser
  BY <1>11, PageUntouched DEF GiveUp, StopByUser
<1>12. CASE Drop \/ Crash
  BY <1>12, PageAfterCut DEF Drop, Crash, Disconnect
<1>13. CASE UNCHANGED vars
  BY <1>13, PageUntouched DEF vars
<1> QED
  BY <1>1, <1>2, <1>3, <1>4, <1>5, <1>6, <1>7, <1>8, <1>9, <1>10, <1>11, <1>12, <1>13
     DEF Next, HandlerStep, ClientStep

(* Resuming with the last id seen delivers no event again and leaves none out,  *)
(* however often the connection, the process or a database call fails: what the *)
(* resume endpoint and consumeSseStream promise each other (a repeated event is *)
(* one whose append was reported as failed; gaps need a second emitter).        *)
THEOREM ReplayIsExactAlways == Spec => []ReplayIsExact
<1>1. Init => PageInv
  <2> SUFFICES ASSUME Init PROVE PageInv
    OBVIOUS
  <2>1. /\ log = {} /\ received = {} /\ repeated = {} /\ channel = <<>> /\ handler = "none"
    BY DEF Init
  <2>2. \A i \in 1..Len(channel) : FALSE
    BY <2>1
  <2> QED BY <2>1, <2>2 DEF PageInv, NoEventTwice, NothingSkipped, CursorCovers, FramesInv, ReceivedInv, GapInv
<1>2. StreamInv /\ PageInv /\ [Next]_vars => PageInv'
  BY PageStep
<1>3. PageInv => ReplayIsExact
  BY DEF PageInv, ReplayIsExact
<1> QED BY <1>1, <1>2, <1>3, StreamInvariant, PTL DEF Spec
=============================================================================
