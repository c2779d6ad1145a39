------------------------ MODULE RecoveredStoreProofs ------------------------
(* Proofs about replay and the durable store: what replay_decisions makes of  *)
(* every sequence of decisions, what survives with any number of processes    *)
(* that share a store, and with one process at a time that its four files     *)
(* behave as one atomic history.                                              *)
EXTENDS RecoveredStore, TLAPS, WellFoundedInduction, FiniteSetTheorems, SequenceTheorems

\* What one accepted decision makes of a well-typed record is well typed.
LEMMA ApplyType ==
    ASSUME NEW s \in StateType, NEW d \in DecisionType
    PROVE  Apply(s, d) \in StateType
<1>1. NextWait(s, d) \in Optional(Waits)
  BY DEF NextWait, StateType, DecisionType, Optional
<1>2. NextBlocker(s, d) \in Optional(Blockers)
  BY DEF NextBlocker, StateType, DecisionType, Optional
<1> QED
  BY <1>1, <1>2 DEF Apply, StateType, DecisionType, Optional

-----------------------------------------------------------------------------
(* The replay loop.  The induction theorems of the library take an operator; *)
(* that every set of naturals has a least element says the same of sets.     *)

\* A non-empty set of naturals has a least element.
LEMMA LeastNatural ==
    ASSUME NEW T, T \subseteq Nat, T # {}
    PROVE  \E n \in T : \A m \in T : n <= m
<1>1. PICK n \in T : \A m \in T : ~ (<<m, n>> \in OpToRel(<, Nat))
  BY WFMin, NatLessThanWellFounded
<1>2. \A m \in T : ~ (m < n)
  BY <1>1 DEF OpToRel
<1> QED
  BY <1>2

\* `run` holds the records of the replay loop after each of n decisions.
IsRun(run, n, s, decisions, kept) ==
    run = [i \in 0..n |->
              IF i = 0 THEN {s}
              ELSE IF i \in kept THEN After(run[i - 1], decisions[i])
              ELSE run[i - 1]]

\* The loop has a run of every length.
LEMMA RunExists ==
    ASSUME NEW s, NEW decisions, NEW kept, NEW n \in Nat
    PROVE  \E run : IsRun(run, n, s, decisions, kept)
<1> DEFINE T == {k \in Nat : ~ \E run : IsRun(run, k, s, decisions, kept)}
<1> SUFFICES ASSUME T # {} PROVE FALSE
  OBVIOUS
<1>1. PICK k \in T : \A m \in T : k <= m
  BY LeastNatural
<1>2. CASE k = 0
  <2> DEFINE r == [i \in 0..0 |-> {s}]
  <2>1. IsRun(r, 0, s, decisions, kept)
    BY DEF IsRun
  <2> QED
    BY <1>1, <1>2, <2>1
<1>3. CASE k # 0
  <2>1. k - 1 \in Nat /\ k - 1 \notin T
    BY <1>1, <1>3
  <2>2. PICK run : IsRun(run, k - 1, s, decisions, kept)
    BY <2>1
  <2> DEFINE r == [i \in 0..k |->
                      IF i < k THEN run[i]
                      ELSE IF k \in kept THEN After(run[k - 1], decisions[k])
                      ELSE run[k - 1]]
  <2>3. ASSUME NEW i \in 0..k
        PROVE  r[i] = IF i = 0 THEN {s}
                      ELSE IF i \in kept THEN After(r[i - 1], decisions[i])
                      ELSE r[i - 1]
    <3>1. CASE i = k
      BY <1>3, <2>1, <3>1
    <3>2. CASE i # k
      <4>1. i \in 0..(k - 1) /\ (i # 0 => i - 1 \in 0..(k - 1))
        BY <2>1, <3>2
      <4>2. r[i] = run[i] /\ (i # 0 => r[i - 1] = run[i - 1])
        BY <2>1, <4>1
      <4>3. run[i] = IF i = 0 THEN {s}
                     ELSE IF i \in kept THEN After(run[i - 1], decisions[i])
                     ELSE run[i - 1]
        BY <2>2, <4>1 DEF IsRun
      <4> HIDE DEF r
      <4>4. CASE i = 0
        BY <4>2, <4>3, <4>4
      <4>5. CASE i # 0
        BY <4>2, <4>3, <4>5
      <4> QED
        BY <4>4, <4>5
    <3> QED
      BY <3>1, <3>2
  <2>4. IsRun(r, k, s, decisions, kept)
    BY <2>3 DEF IsRun
  <2> QED
    BY <1>1, <2>4
<1> QED
  BY <1>2, <1>3

\* Two runs agree as far as both reach.
LEMMA RunUnique ==
    ASSUME NEW s, NEW f, NEW g, NEW e, NEW h, NEW kept, NEW also,
           NEW m \in Nat, NEW n \in Nat, m <= n,
           IsRun(f, m, s, e, kept), IsRun(g, n, s, h, also),
           \A i \in 1..m : e[i] = h[i] /\ (i \in kept <=> i \in also)
    PROVE  \A i \in 0..m : f[i] = g[i]
<1> DEFINE T == {i \in 0..m : f[i] # g[i]}
<1> SUFFICES ASSUME T # {} PROVE FALSE
  OBVIOUS
<1>1. PICK i \in T : \A j \in T : i <= j
  <2>1. T \subseteq Nat
    OBVIOUS
  <2> HIDE DEF T
  <2> QED
    BY <2>1, LeastNatural
<1>2. i \in 0..m /\ i \in 0..n
  BY <1>1
<1>3. /\ f[i] = IF i = 0 THEN {s}
                ELSE IF i \in kept THEN After(f[i - 1], e[i]) ELSE f[i - 1]
      /\ g[i] = IF i = 0 THEN {s}
                ELSE IF i \in also THEN After(g[i - 1], h[i]) ELSE g[i - 1]
  BY <1>2 DEF IsRun
<1>4. f[i] # g[i]
  BY <1>1
<1>5. i # 0
  BY <1>3, <1>4
<1>6. f[i - 1] = g[i - 1]
  <2>1. i - 1 \in 0..m /\ ~ (i <= i - 1)
    BY <1>2, <1>5
  <2> QED
    BY <1>1, <2>1
<1>7. e[i] = h[i] /\ (i \in kept <=> i \in also)
  BY <1>2, <1>5
<1> HIDE DEF T
<1> QED
  BY <1>3, <1>4, <1>5, <1>6, <1>7

Final(S) == IF S = {} THEN None ELSE CHOOSE t \in S : TRUE

\* What ReplayOnly computes is the end of a run.
LEMMA ReplayIsRun ==
    ASSUME NEW s, NEW h, Len(h) \in Nat, NEW kept
    PROVE  \E run : IsRun(run, Len(h), s, h, kept) /\ ReplayOnly(s, h, kept) = Final(run[Len(h)])
<1> DEFINE run[i \in 0..Len(h)] ==
            IF i = 0 THEN {s}
            ELSE IF i \in kept THEN After(run[i - 1], h[i])
            ELSE run[i - 1]
<1>1. \E r : IsRun(r, Len(h), s, h, kept)
  BY RunExists
<1>2. run = CHOOSE r : IsRun(r, Len(h), s, h, kept)
  BY Zenon DEF IsRun
<1>3. IsRun(run, Len(h), s, h, kept)
  BY <1>1, <1>2, Zenon
<1>4. ReplayOnly(s, h, kept) = Final(run[Len(h)])
  BY DEF ReplayOnly, Final
<1> QED
  BY <1>3, <1>4

\* Every record of a run is the replayed one, or there is none any more.
LEMMA RunRecords ==
    ASSUME NEW s \in StateType, NEW h \in Seq(DecisionType), NEW kept, NEW run,
           IsRun(run, Len(h), s, h, kept)
    PROVE  \A i \in 0..Len(h) : run[i] = {} \/ \E t \in StateType : run[i] = {t}
<1> DEFINE Fine(i) == run[i] = {} \/ \E t \in StateType : run[i] = {t}
           T == {i \in 0..Len(h) : ~ Fine(i)}
<1> SUFFICES ASSUME T # {} PROVE FALSE
  OBVIOUS
<1>1. PICK i \in T : \A j \in T : i <= j
  <2>1. T \subseteq Nat
    OBVIOUS
  <2> HIDE DEF T
  <2> QED
    BY <2>1, LeastNatural
<1>2. i \in 0..Len(h) /\ ~ Fine(i)
  BY <1>1
<1>3. run[i] = IF i = 0 THEN {s}
               ELSE IF i \in kept THEN After(run[i - 1], h[i]) ELSE run[i - 1]
  BY <1>2 DEF IsRun
<1>4. i # 0
  BY <1>2, <1>3
<1>5. i - 1 \in 0..Len(h) /\ ~ (i <= i - 1)
  BY <1>2, <1>4
<1>6. Fine(i - 1)
  BY <1>1, <1>5
<1>7. h[i] \in DecisionType
  BY <1>2, <1>4
<1>8. Fine(i)
  <2>1. CASE i \notin kept
    BY <1>3, <1>4, <1>6, <2>1
  <2>2. CASE i \in kept /\ run[i - 1] = {}
    BY <1>3, <1>4, <2>2 DEF After
  <2>3. ASSUME i \in kept, NEW t \in StateType, run[i - 1] = {t} PROVE Fine(i)
    <3>1. run[i] = After({t}, h[i])
      BY <1>3, <1>4, <2>3
    <3>2. CASE CanApply(t, h[i])
      BY <3>1, <3>2, <1>7, ApplyType DEF After
    <3>3. CASE ~ CanApply(t, h[i])
      BY <3>1, <3>3 DEF After
    <3> QED
      BY <3>2, <3>3
  <2> QED
    BY <1>6, <2>1, <2>2, <2>3
<1> QED
  BY <1>2, <1>8

\* Replaying nothing gives the record itself.
LEMMA ReplayNothing ==
    ASSUME NEW s, NEW kept
    PROVE  ReplayOnly(s, <<>>, kept) = s
<1>1. PICK run : IsRun(run, 0, s, <<>>, kept) /\ ReplayOnly(s, <<>>, kept) = Final(run[0])
  <2>1. Len(<<>>) = 0
    OBVIOUS
  <2> QED
    BY <2>1, ReplayIsRun
<1>2. run[0] = {s}
  BY <1>1 DEF IsRun
<1> QED
  BY <1>1, <1>2 DEF Final

\* Replay looks only at the indices of the decisions it is given.
LEMMA ReplaySame ==
    ASSUME NEW s, NEW X, NEW h \in Seq(X), NEW kept, NEW also,
           kept \cap DOMAIN h = also \cap DOMAIN h
    PROVE  ReplayOnly(s, h, kept) = ReplayOnly(s, h, also)
<1>1. PICK f : IsRun(f, Len(h), s, h, kept) /\ ReplayOnly(s, h, kept) = Final(f[Len(h)])
  BY ReplayIsRun
<1>2. PICK g : IsRun(g, Len(h), s, h, also) /\ ReplayOnly(s, h, also) = Final(g[Len(h)])
  BY ReplayIsRun
<1>3. f[Len(h)] = g[Len(h)]
  BY <1>1, <1>2, RunUnique
<1> QED
  BY <1>1, <1>2, <1>3

\* One turn of the loop on what it has so far.
Turn(r, d) == IF r # None /\ CanApply(r, d) THEN Apply(r, d) ELSE None

\* A decision more is one turn more, if it is among those that are kept.
LEMMA ReplayOneMore ==
    ASSUME NEW s \in StateType, NEW h \in Seq(DecisionType), NEW d \in DecisionType, NEW kept
    PROVE  ReplayOnly(s, Append(h, d), kept) =
               IF Len(h) + 1 \in kept THEN Turn(ReplayOnly(s, h, kept), d)
               ELSE ReplayOnly(s, h, kept)
<1> DEFINE n == Len(h)
           hd == Append(h, d)
<1>1. /\ n \in Nat /\ n = Len(h)
      /\ hd \in Seq(DecisionType) /\ Len(hd) = n + 1 /\ hd[n + 1] = d
  OBVIOUS
<1>2. \A i \in 1..n : h[i] = hd[i]
  OBVIOUS
<1>3. PICK f : IsRun(f, n, s, h, kept) /\ ReplayOnly(s, h, kept) = Final(f[n])
  BY ReplayIsRun
<1> HIDE DEF n, hd
<1>4. PICK g : IsRun(g, n + 1, s, hd, kept) /\ ReplayOnly(s, hd, kept) = Final(g[n + 1])
  <2>1. Len(hd) \in Nat
    BY <1>1
  <2>2. PICK g : IsRun(g, Len(hd), s, hd, kept) /\ ReplayOnly(s, hd, kept) = Final(g[Len(hd)])
    BY <2>1, ReplayIsRun
  <2> QED
    BY <1>1, <2>2
<1>5. f[n] = g[n]
  <2>1. n + 1 \in Nat /\ n <= n + 1 /\ n \in 0..n
    BY <1>1
  <2>2. \A i \in 0..n : f[i] = g[i]
    <3>1. \A i \in 1..n : h[i] = hd[i] /\ (i \in kept <=> i \in kept)
      BY <1>2
    <3>2. PICK k \in Nat : k = n + 1
      BY <2>1
    <3>3. n <= k /\ IsRun(f, n, s, h, kept) /\ IsRun(g, k, s, hd, kept)
      BY <1>3, <1>4, <2>1, <3>2
    <3> QED
      BY <1>1, <3>1, <3>2, <3>3, RunUnique
  <2> QED
    BY <2>1, <2>2
<1>6. g[n + 1] = IF n + 1 \in kept THEN After(g[n], d) ELSE g[n]
  <2>1. n + 1 \in 0..(n + 1) /\ n + 1 # 0 /\ (n + 1) - 1 = n
    BY <1>1
  <2> QED
    BY <1>1, <1>4, <2>1 DEF IsRun
<1>7. f[n] = {} \/ \E t \in StateType : f[n] = {t}
  BY <1>1, <1>3, RunRecords DEF n
<1>8. CASE n + 1 \notin kept
  BY <1>3, <1>4, <1>5, <1>6, <1>8 DEF n, hd
<1>9. CASE n + 1 \in kept
  <2>1. ReplayOnly(s, hd, kept) = Final(After(f[n], d))
    BY <1>4, <1>5, <1>6, <1>9
  <2>2. CASE f[n] = {}
    <3>1. After(f[n], d) = {}
      BY <2>2 DEF After
    <3> QED
      BY <1>3, <2>1, <2>2, <3>1, <1>9 DEF Final, Turn, n, hd
  <2>3. ASSUME NEW t \in StateType, f[n] = {t}
        PROVE  ReplayOnly(s, hd, kept) = Turn(ReplayOnly(s, h, kept), d)
    <3>1. ReplayOnly(s, h, kept) = t
      BY <1>3, <2>3 DEF Final
    <3>2. t # None
      BY RecordAssumption
    <3>3. CASE CanApply(t, d)
      <4>1. After(f[n], d) = {Apply(t, d)}
        BY <2>3, <3>3 DEF After
      <4> QED
        BY <2>1, <3>1, <3>2, <3>3, <4>1 DEF Final, Turn
    <3>4. CASE ~ CanApply(t, d)
      <4>1. After(f[n], d) = {}
        BY <2>3, <3>4 DEF After
      <4> QED
        BY <2>1, <3>1, <3>4, <4>1 DEF Final, Turn
    <3> QED
      BY <3>3, <3>4
  <2> QED
    BY <1>7, <1>9, <2>2, <2>3 DEF n, hd
<1> QED
  BY <1>8, <1>9

\* Replay ends with a well-typed record, or raises.
LEMMA ReplayType ==
    ASSUME NEW s \in StateType, NEW h \in Seq(DecisionType), NEW kept
    PROVE  ReplayOnly(s, h, kept) \in Optional(StateType)
<1>1. PICK f : IsRun(f, Len(h), s, h, kept) /\ ReplayOnly(s, h, kept) = Final(f[Len(h)])
  BY ReplayIsRun
<1>2. f[Len(h)] = {} \/ \E t \in StateType : f[Len(h)] = {t}
  BY <1>1, RunRecords
<1> QED
  BY <1>1, <1>2 DEF Final, Optional
-----------------------------------------------------------------------------
(* The same for all the decisions. *)

\* replay_decisions of an empty log is the initial record.
THEOREM ReplayOfNothing ==
    ASSUME NEW s
    PROVE  Replay(s, <<>>) = s
BY ReplayNothing DEF Replay

\* A decision more in the log is one apply_decision more on the replayed record,
\* and replay raises if it does not apply or if replay raised before it.
THEOREM ReplayOfAppend ==
    ASSUME NEW s \in StateType, NEW h \in Seq(DecisionType), NEW d \in DecisionType
    PROVE  Replay(s, Append(h, d)) = Turn(Replay(s, h), d)
<1> DEFINE all == DOMAIN Append(h, d)
<1>1. Len(h) + 1 \in all /\ all \cap DOMAIN h = (DOMAIN h) \cap DOMAIN h
  OBVIOUS
<1> HIDE DEF all
<1>2. ReplayOnly(s, Append(h, d), all) = Turn(ReplayOnly(s, h, all), d)
  BY <1>1, ReplayOneMore
<1>3. ReplayOnly(s, h, all) = ReplayOnly(s, h, DOMAIN h)
  BY <1>1, ReplaySame
<1> QED
  BY <1>2, <1>3 DEF Replay, all

\* A replay that does not raise ends with a well-typed record.
THEOREM ReplayTyped ==
    ASSUME NEW s \in StateType, NEW h \in Seq(DecisionType)
    PROVE  Replay(s, h) \in Optional(StateType)
BY ReplayType DEF Replay

-----------------------------------------------------------------------------
(* The strengthened type invariant, for every use of the store. *)

\* A process that works on a record has one, one that appends has its line.
Working(p) ==
    /\ pc[p] # "idle" => draft[p] # None
    /\ pc[p] = "append" => line[p] # None

TypeInv == TypeOK /\ \A p \in Procs : Working(p)

-----------------------------------------------------------------------------
(* Lines of decisions.jsonl *)

\* The decisions of a readable log are decisions.
LEMMA DecisionsInType ==
    ASSUME NEW lines \in Seq(LineType), Readable(lines)
    PROVE  DecisionsIn(lines) \in Seq(Submissions) /\ DecisionsIn(lines) \in Seq(DecisionType)
<1>1. \A i \in DOMAIN lines : lines[i] \in LineType
  OBVIOUS
<1>2. \A i \in DOMAIN lines : lines[i].dec \in Submissions
  BY <1>1 DEF Readable, LineType
<1>3. DecisionsIn(lines) \in [1..Len(lines) -> Submissions] /\ Len(lines) \in Nat
  BY <1>2 DEF DecisionsIn
<1>4. DecisionsIn(lines) \in Seq(Submissions)
  BY <1>3, SeqDef
<1> QED
  BY <1>4, ModelAssumption, SeqMonotonic

\* The decision of a line more is one decision more.
LEMMA DecisionsInAppend ==
    ASSUME NEW lines \in Seq(LineType), NEW l \in LineType
    PROVE  DecisionsIn(Append(lines, l)) = Append(DecisionsIn(lines), l.dec)
<1> DEFINE D == Submissions \cup {Garbage}
<1>1. \A i \in DOMAIN lines : lines[i].dec \in D
  <2>1. \A i \in DOMAIN lines : lines[i] \in LineType
    OBVIOUS
  <2> QED
    BY <2>1 DEF LineType
<1>2. DecisionsIn(lines) \in [1..Len(lines) -> D] /\ Len(lines) \in Nat
  BY <1>1 DEF DecisionsIn
<1>3. DecisionsIn(lines) \in Seq(D) /\ Len(DecisionsIn(lines)) = Len(lines)
  BY <1>2, SeqDef
<1>4. l.dec \in D
  BY DEF LineType
<1> DEFINE ds == DecisionsIn(lines)
           n == Len(lines)
<1>5. n \in Nat /\ ds \in Seq(D) /\ Len(ds) = n /\ \A i \in 1..n : ds[i] = lines[i].dec
  BY <1>3 DEF DecisionsIn
<1> HIDE DEF D, ds, n
<1>6. /\ Append(ds, l.dec) = [i \in 1..(n + 1) |-> IF i <= n THEN lines[i].dec ELSE l.dec]
  <2>1. Append(ds, l.dec) \in Seq(D) /\ Len(Append(ds, l.dec)) = n + 1
    BY <1>4, <1>5
  <2>2. \A i \in 1..(n + 1) : Append(ds, l.dec)[i] = IF i <= n THEN lines[i].dec ELSE l.dec
    BY <1>4, <1>5
  <2> QED
    BY <2>1, <2>2
<1>7. /\ DOMAIN Append(lines, l) = 1..(n + 1)
      /\ \A i \in 1..(n + 1) : Append(lines, l)[i] = IF i <= n THEN lines[i] ELSE l
  BY <1>5 DEF n
<1> QED
  BY <1>6, <1>7 DEF DecisionsIn, ds

\* A line added to the log adds a decision, or spoils an unterminated line.
LEMMA AddTextType ==
    ASSUME NEW lines \in Seq(LineType), NEW d \in Submissions \cup {Garbage}, NEW end \in BOOLEAN
    PROVE  AddText(lines, d, end) \in Seq(LineType)
<1>1. [dec |-> d, end |-> end] \in LineType /\ [dec |-> Garbage, end |-> end] \in LineType
  BY DEF LineType
<1>2. lines # <<>> => Front(lines) \in Seq(LineType)
  BY DEF Front
<1> QED
  BY <1>1, <1>2 DEF AddText

-----------------------------------------------------------------------------

\* What a reader takes for the log is a sequence of lines.
LEMMA LinesType == TypeOK => Lines \in Seq(LineType)
BY DEF TypeOK, Lines

\* Each step of a process keeps the types and what the process knows.
LEMMA TypeStep ==
    ASSUME TypeInv, [Next]_vars
    PROVE  TypeInv'
<1> USE DEF TypeInv
<1>1. ASSUME NEW p \in Procs, NEW d \in Submissions, BeginAppend(p, d) PROVE TypeInv'
  <2>1. snap \in StateType /\ d \in DecisionType
    BY <1>1, ModelAssumption DEF BeginAppend, IsRecord, TypeOK, Files
  <2>2. Apply(snap, d) \in StateType
    BY <2>1, ApplyType
  <2>3. TypeOK'
    BY <1>1, <2>2 DEF BeginAppend, TypeOK, Goto, files, history, Steps, Optional
  <2>4. \A q \in Procs : Working(q)'
    BY <1>1, <2>2, RecordAssumption, ModelAssumption DEF BeginAppend, TypeOK, Goto, Working
  <2> QED
    BY <2>3, <2>4
<1>2. ASSUME NEW p \in Procs, NEW s \in Seeds, BeginInit(p, s) PROVE TypeInv'
  <2>1. s \in StateType
    BY ModelAssumption
  <2>2. TypeOK'
    BY <1>2, <2>1 DEF BeginInit, TypeOK, Goto, files, history, Steps, Optional
  <2>3. \A q \in Procs : Working(q)'
    BY <1>2, <2>1, RecordAssumption DEF BeginInit, TypeOK, Goto, Working
  <2> QED
    BY <2>2, <2>3
<1>3. ASSUME NEW p \in Procs, BeginReplay(p) PROVE TypeInv'
  <2>1. seed \in StateType
    BY <1>3 DEF BeginReplay, IsRecord, TypeOK, Files
  <2>2. TypeOK'
    BY <1>3, <2>1 DEF BeginReplay, TypeOK, Goto, files, history, Steps, Optional
  <2>3. \A q \in Procs : Working(q)'
    BY <1>3, <2>1, RecordAssumption DEF BeginReplay, TypeOK, Goto, Working
  <2> QED
    BY <2>2, <2>3
<1>4. ASSUME NEW p \in Procs, NEW e \in Events, AppendEvent(p, e) PROVE TypeInv'
  <2>1. TypeOK'
    BY <1>4 DEF AppendEvent, TypeOK, procs, history
  <2>2. \A q \in Procs : Working(q)'
    BY <1>4 DEF AppendEvent, Working, procs
  <2> QED
    BY <2>1, <2>2
<1>5. ASSUME NEW p \in Procs, AppendLine(p) PROVE TypeInv'
  <2>1. line[p] \in Submissions
    BY <1>5 DEF AppendLine, TypeOK, Optional, Working
  <2>2. log' \in Seq(LineType)
    BY <1>5, <2>1, LinesType, AddTextType DEF AppendLine
  <2>3. TypeOK'
    BY <1>5, <2>2 DEF AppendLine, TypeOK, Goto, history, Steps
  <2>4. \A q \in Procs : Working(q)'
    BY <1>5 DEF AppendLine, TypeOK, Goto, Working
  <2> QED
    BY <2>3, <2>4
<1>6. ASSUME NEW p \in Procs, ReadLog(p) PROVE TypeInv'
  <2> DEFINE replayed == IF Readable(Lines) THEN Replay(draft[p], DecisionsIn(Lines)) ELSE None
  <2>1. draft[p] \in StateType
    BY <1>6 DEF ReadLog, TypeOK, Optional, Working
  <2>2. replayed \in Optional(StateType)
    BY <2>1, LinesType, DecisionsInType, ReplayTyped DEF Optional
  <2>3. /\ draft' = [draft EXCEPT ![p] = replayed]
        /\ Goto(p, IF replayed = None THEN "idle" ELSE "snap_open")
        /\ UNCHANGED <<files, line, history>>
    BY <1>6 DEF ReadLog
  <2> HIDE DEF replayed
  <2>4. TypeOK'
    BY <2>2, <2>3 DEF TypeOK, Goto, files, history, Steps
  <2>5. \A q \in Procs : Working(q)'
    BY <2>2, <2>3 DEF TypeOK, Goto, Working
  <2> QED
    BY <2>4, <2>5
<1>7. ASSUME NEW p \in Procs, OpenSeed(p) \/ ResetEvents(p) \/ ResetLog(p) \/ OpenSnapshot(p)
      PROVE TypeInv'
  <2>1. /\ seed' \in Files(StateType) /\ snap' \in Files(StateType)
        /\ log' = Absent \/ log' \in Seq(LineType)
        /\ events' \in Seq(Events)
    <3>1. CASE OpenSeed(p)
      BY <3>1 DEF OpenSeed, TypeOK, Files
    <3>2. CASE ResetEvents(p)
      BY <3>2, EmptySeq DEF ResetEvents, TypeOK
    <3>3. CASE ResetLog(p)
      BY <3>3, EmptySeq DEF ResetLog, TypeOK
    <3>4. CASE OpenSnapshot(p)
      BY <3>4 DEF OpenSnapshot, TypeOK, Files
    <3> QED
      BY <1>7, <3>1, <3>2, <3>3, <3>4
  <2>2. /\ pc' \in [Procs -> Steps]
        /\ UNCHANGED <<draft, line, history>>
    BY <1>7 DEF OpenSeed, ResetEvents, ResetLog, OpenSnapshot, TypeOK, Goto, Steps
  <2>3. TypeOK'
    BY <2>1, <2>2 DEF TypeOK, history
  <2>4. \A q \in Procs : Working(q)'
    BY <1>7 DEF OpenSeed, ResetEvents, ResetLog, OpenSnapshot, TypeOK, Goto, Working
  <2> QED
    BY <2>3, <2>4
<1>8. ASSUME NEW p \in Procs, WriteSeed(p) PROVE TypeInv'
  <2>1. draft[p] \in StateType
    BY <1>8 DEF WriteSeed, TypeOK, Optional, Working
  <2>2. seed' \in Files(StateType)
    BY <1>8, <2>1 DEF WriteSeed, Overlay, Files
  <2>3. TypeOK'
    BY <1>8, <2>2 DEF WriteSeed, TypeOK, Goto, Steps
  <2>4. \A q \in Procs : Working(q)'
    BY <1>8 DEF WriteSeed, TypeOK, Goto, Working
  <2> QED
    BY <2>3, <2>4
<1>9. ASSUME NEW p \in Procs, WriteSnapshot(p) PROVE TypeInv'
  <2>1. draft[p] \in StateType
    BY <1>9 DEF WriteSnapshot, TypeOK, Optional, Working
  <2>2. snap' \in Files(StateType)
    BY <1>9, <2>1 DEF WriteSnapshot, Overlay, Files
  <2>3. acked' \in Seq(Submissions) /\ stale' \in BOOLEAN
    BY <1>9 DEF WriteSnapshot, TypeOK, Optional
  <2>4. TypeOK'
    BY <1>9, <2>2, <2>3 DEF WriteSnapshot, Returned, TypeOK, Goto, Steps, Optional
  <2>5. \A q \in Procs : Working(q)'
    BY <1>9 DEF WriteSnapshot, Returned, TypeOK, Goto, Working
  <2> QED
    BY <2>4, <2>5
<1>10. ASSUME NEW p \in Procs, Crash(p) PROVE TypeInv'
  <2>1. log' = Absent \/ log' \in Seq(LineType)
    <3>1. CASE log' = log
      BY <3>1 DEF TypeOK
    <3>2. ASSUME pc[p] = "append", NEW d \in {line[p], Garbage}, log' = AddText(Lines, d, FALSE)
          PROVE  log' \in Seq(LineType)
      <4>1. d \in Submissions \cup {Garbage}
        BY <3>2 DEF TypeOK, Optional, Working
      <4> QED
        BY <3>2, <4>1, LinesType, AddTextType
    <3> QED
      BY <1>10, <3>1, <3>2 DEF Crash
  <2>2. TypeOK'
    BY <1>10, <2>1 DEF Crash, Returned, TypeOK, Goto, Steps, Optional
  <2>3. \A q \in Procs : Working(q)'
    BY <1>10 DEF Crash, Returned, TypeOK, Goto, Working
  <2> QED
    BY <2>2, <2>3
<1>11. CASE UNCHANGED vars
  BY <1>11 DEF vars, files, procs, history, TypeOK, Working
<1> QED
  BY <1>1, <1>2, <1>3, <1>4, <1>5, <1>6, <1>7, <1>8, <1>9, <1>10, <1>11 DEF Next, Continue

\* The files of a new store are well typed.
LEMMA TypeInit == FreshInit \/ ReadyInit => TypeInv
<1> SUFFICES ASSUME FreshInit \/ ReadyInit PROVE TypeInv
  OBVIOUS
<1>1. /\ seed \in Files(StateType) /\ snap \in Files(StateType)
      /\ log = Absent \/ log = <<>>
      /\ events = <<>> /\ ProcInit
  BY ModelAssumption DEF FreshInit, ReadyInit, Files
<1>2. /\ log = Absent \/ log \in Seq(LineType)
      /\ events \in Seq(Events) /\ acked \in Seq(Submissions)
  BY <1>1, EmptySeq DEF ProcInit
<1> QED
  BY <1>1, <1>2 DEF ProcInit, TypeInv, TypeOK, Working, Optional, Steps

\* A run of the recovered store is a run of the store.
LEMMA RecoveredIsNext == RecoveredNext => Next
BY DEF RecoveredNext, Next

\* The files, the drafts and the histories keep their types in every use of the
\* store: from a fresh directory or an initialized one, with any number of
\* processes, with or without torn lines and --overwrite, and however it is
\* recovered.  (state_store.py:65-110)
THEOREM StoreTypeCorrect ==
    /\ Spec => []TypeOK
    /\ ReadySpec => []TypeOK
    /\ RecoveredSpec => []TypeOK
<1>1. TypeInv /\ [Next]_vars => TypeInv'
  BY TypeStep
<1>2. TypeInv => TypeOK
  BY DEF TypeInv
<1>3. [RecoveredNext]_vars => [Next]_vars
  BY RecoveredIsNext
<1> QED
  BY <1>1, <1>2, <1>3, TypeInit, PTL DEF Spec, ReadySpec, RecoveredSpec

-----------------------------------------------------------------------------
(* The invariant of one process at a time that replays after a crash. *)

\* One CLI process, init without --overwrite, appends that are not cut short.
Serial ==
    /\ \E cli : Procs = {cli}
    /\ ~Overwrite /\ ~TornWrites

CleanLog == \A i \in DOMAIN Lines : Lines[i].dec # Garbage /\ Lines[i].end

\* The store has no seed, and nothing else, or one seed and a log that replays.
SeedInv ==
    IF IsRecord(seed) THEN seeded <= 1 /\ LogReplay # None
    ELSE seed \in {Absent, Empty} /\ seeded = 0 /\ log = Absent /\ snap = Absent

\* What a process knows at each of its steps.
ProcInv(p) ==
    /\ pc[p] = "idle" => draft[p] = None
    /\ line[p] # None => pc[p] \in {"append", "snap_open", "snap_write"} /\ ~stale
    /\ pc[p] = "append" => draft[p] = Apply(snap, line[p]) /\ CanApply(snap, line[p])
    /\ pc[p] = "seed_open" => seed = Absent /\ draft[p] \in Seeds
    /\ pc[p] = "seed_write" => seed = Empty /\ draft[p] \in Seeds
    /\ pc[p] \in {"events_reset", "log_reset", "read_log"} => draft[p] = seed
    /\ pc[p] \in {"events_reset", "log_reset"} => log = Absent
    /\ pc[p] \in {"snap_open", "snap_write"} => draft[p] = LogReplay
    /\ pc[p] = "snap_write" => snap = Empty
    /\ pc[p] \notin {"idle", "seed_open", "seed_write"} => IsRecord(seed)
    /\ IsRecord(seed) /\ ~stale /\ pc[p] \in {"idle", "append", "read_log"} => snap = LogReplay

StoreInv == TypeInv /\ CleanLog /\ SeedInv /\ \A p \in Procs : ProcInv(p)

\* The log replays to the same record while the seed and the log are left alone.
LEMMA ReplayFrame ==
    ASSUME UNCHANGED <<seed, log>>
    PROVE  LogReplay' = LogReplay /\ (CleanLog => CleanLog') /\ (IsRecord(seed) <=> IsRecord(seed'))
BY DEF LogReplay, CleanLog, Lines, IsRecord

\* A clean log is readable, and replays to a record or not at all.
LEMMA CleanReplay ==
    ASSUME TypeOK, CleanLog, IsRecord(seed)
    PROVE  /\ Readable(Lines) /\ DecisionsIn(Lines) \in Seq(DecisionType)
           /\ seed \in StateType
           /\ LogReplay = Replay(seed, DecisionsIn(Lines))
           /\ LogReplay \in Optional(StateType)
<1>1. Readable(Lines)
  BY DEF CleanLog, Readable
<1>2. seed \in StateType
  BY DEF TypeOK, Files, IsRecord
<1>3. DecisionsIn(Lines) \in Seq(DecisionType)
  BY <1>1, LinesType, DecisionsInType
<1> QED
  BY <1>1, <1>2, <1>3, ReplayTyped DEF LogReplay

\* An empty log holds no decisions, and replays to the seed.
LEMMA EmptyReplay ==
    Readable(<<>>) /\ DecisionsIn(<<>>) = <<>> /\ \A s : Replay(s, DecisionsIn(<<>>)) = s
<1>1. Readable(<<>>) /\ DecisionsIn(<<>>) = <<>>
  BY DEF Readable, DecisionsIn
<1> QED
  BY <1>1, ReplayOfNothing

\* A terminated line goes to the end of a clean log, and replay makes one more
\* decision of it.
LEMMA AppendReplay ==
    ASSUME TypeOK, CleanLog, IsRecord(seed), UNCHANGED seed,
           NEW d \in Submissions, log' = AddText(Lines, d, TRUE)
    PROVE  /\ CleanLog'
           /\ Lines' = Append(Lines, [dec |-> d, end |-> TRUE])
           /\ DecisionsIn(Lines)' = Append(DecisionsIn(Lines), d)
           /\ LogReplay' = Turn(LogReplay, d)
<1>0. PICK l \in LineType : l = [dec |-> d, end |-> TRUE]
  BY DEF LineType
<1>1. Lines \in Seq(LineType)
  BY LinesType
<1>2. Lines # <<>> => Last(Lines).end
  BY <1>1 DEF CleanLog, Last
<1>3. log' = Append(Lines, l)
  BY <1>0, <1>2 DEF AddText
<1>4. log' \in Seq(LineType)
  BY <1>1, <1>3, AppendProperties
<1>5. Lines' = Append(Lines, l)
  BY <1>3, <1>4, LogAssumption DEF Lines
<1>6. DecisionsIn(Lines)' = Append(DecisionsIn(Lines), d)
  BY <1>0, <1>1, <1>5, DecisionsInAppend
<1>7. CleanLog'
  <2>1. \A i \in DOMAIN Lines' : IF i \in DOMAIN Lines THEN Lines'[i] = Lines[i] ELSE Lines'[i] = l
    BY <1>1, <1>5
  <2>2. d # Garbage
    BY FileAssumption
  <2> QED
    BY <1>0, <2>1, <2>2 DEF CleanLog
<1>8. Readable(Lines)' /\ IsRecord(seed)'
  BY <1>7 DEF CleanLog, Readable, IsRecord
<1>9. LogReplay' = Replay(seed, Append(DecisionsIn(Lines), d))
  BY <1>6, <1>8 DEF LogReplay
<1>10. LogReplay' = Turn(LogReplay, d)
  BY <1>9, CleanReplay, ReplayOfAppend, ModelAssumption
<1> QED
  BY <1>0, <1>5, <1>6, <1>7, <1>10

-----------------------------------------------------------------------------
(* One process at a time. *)

\* A store starts settled, empty or freshly initialized.
LEMMA StoreInit == FreshInit \/ ReadyInit => StoreInv
<1> SUFFICES ASSUME FreshInit \/ ReadyInit PROVE StoreInv
  OBVIOUS
<1>1. TypeInv
  BY TypeInit
<1>2. Lines = <<>> /\ CleanLog /\ ProcInit
  <2>1. Lines = <<>> /\ ProcInit
    BY DEF FreshInit, ReadyInit, Lines
  <2> QED
    BY <2>1 DEF CleanLog
<1>3. CASE FreshInit
  <2>1. ~IsRecord(seed) /\ seed = Absent /\ log = Absent /\ snap = Absent
    BY <1>3 DEF FreshInit, IsRecord
  <2> QED
    BY <1>1, <1>2, <2>1 DEF ProcInit, StoreInv, SeedInv, ProcInv
<1>4. CASE ReadyInit
  <2>1. IsRecord(seed) /\ snap = seed /\ seed \in StateType
    BY <1>4, ModelAssumption, FileAssumption DEF ReadyInit, IsRecord
  <2>2. LogReplay = seed /\ seed # None
    BY <1>2, <2>1, EmptyReplay, RecordAssumption DEF LogReplay
  <2> QED
    BY <1>1, <1>2, <2>1, <2>2 DEF ProcInit, StoreInv, SeedInv, ProcInv
<1> QED
  BY <1>3, <1>4

\* What one step of the one process keeps, besides the types.
LEMMA StoreStepOf ==
    ASSUME Serial, StoreInv, NEW p \in Procs,
           \/ ~stale /\ \E d \in Submissions : BeginAppend(p, d)
           \/ \E s \in Seeds : BeginInit(p, s)
           \/ BeginReplay(p)
           \/ \E e \in Events : AppendEvent(p, e)
           \/ Continue(p)
           \/ Crash(p)
    PROVE  CleanLog' /\ SeedInv' /\ ProcInv(p)'
<1> DEFINE Good == CleanLog' /\ SeedInv' /\ ProcInv(p)'
<1>0. /\ TypeOK /\ Working(p) /\ CleanLog /\ SeedInv /\ ProcInv(p)
      /\ pc \in [Procs -> Steps] /\ draft \in [Procs -> Optional(StateType)]
      /\ line \in [Procs -> Optional(Submissions)]
  BY DEF StoreInv, TypeInv, TypeOK
<1>1. ASSUME ~stale, NEW d \in Submissions, BeginAppend(p, d) PROVE Good
  <2>1. UNCHANGED <<seed, log>> /\ UNCHANGED <<snap, seeded, stale>>
    BY <1>1 DEF BeginAppend, files, history
  <2>2. CleanLog' /\ SeedInv'
    BY <1>0, <2>1, ReplayFrame DEF SeedInv
  <2>3. IsRecord(seed)
    BY <1>0, <1>1 DEF BeginAppend, SeedInv, IsRecord
  <2>4. ProcInv(p)'
    BY <1>0, <1>1, <2>1, <2>3, ReplayFrame DEF BeginAppend, ProcInv, Goto
  <2> QED
    BY <2>2, <2>4
<1>2. ASSUME NEW s \in Seeds, BeginInit(p, s) PROVE Good
  <2>1. UNCHANGED <<seed, log>> /\ UNCHANGED <<snap, seeded, stale, line>>
    BY <1>2 DEF BeginInit, files, history
  <2>2. CleanLog' /\ SeedInv'
    BY <1>0, <2>1, ReplayFrame DEF SeedInv
  <2>3. seed = Absent
    BY <1>2 DEF BeginInit, Serial
  <2>4. ProcInv(p)'
    BY <1>0, <1>2, <2>1, <2>3, ReplayFrame DEF BeginInit, ProcInv, Goto, IsRecord
  <2> QED
    BY <2>2, <2>4
<1>3. ASSUME BeginReplay(p) PROVE Good
  <2>1. UNCHANGED <<seed, log>> /\ UNCHANGED <<snap, seeded, stale, line>>
    BY <1>3 DEF BeginReplay, files, history
  <2>2. CleanLog' /\ SeedInv'
    BY <1>0, <2>1, ReplayFrame DEF SeedInv
  <2>3. ProcInv(p)'
    BY <1>0, <1>3, <2>1, ReplayFrame DEF BeginReplay, ProcInv, Goto
  <2> QED
    BY <2>2, <2>3
<1>4. ASSUME NEW e \in Events, AppendEvent(p, e) PROVE Good
  <2>1. UNCHANGED <<seed, log>> /\ UNCHANGED <<snap, seeded, stale, pc, draft, line>>
    BY <1>4 DEF AppendEvent, procs, history
  <2> QED
    BY <1>0, <2>1, ReplayFrame DEF SeedInv, ProcInv
<1>5. ASSUME AppendLine(p) PROVE Good
  <2>1. /\ line[p] \in Submissions /\ ~stale /\ IsRecord(seed)
        /\ draft[p] = Apply(snap, line[p]) /\ CanApply(snap, line[p]) /\ snap = LogReplay
    BY <1>0, <1>5 DEF AppendLine, Working, ProcInv, Optional
  <2>2. UNCHANGED <<seed, snap, draft, line, seeded, stale>>
    BY <1>5 DEF AppendLine, history
  <2>3. CleanLog' /\ LogReplay' = Turn(LogReplay, line[p])
    BY <1>0, <1>5, <2>1, <2>2, AppendReplay DEF AppendLine
  <2>4. LogReplay # None
    BY <1>0, <2>1 DEF SeedInv
  <2>5. LogReplay' = draft[p] /\ draft[p] # None
    BY <1>0, <1>5, <2>1, <2>3, <2>4 DEF Turn, Working, AppendLine
  <2>6. SeedInv'
    BY <1>0, <2>1, <2>2, <2>5 DEF SeedInv, IsRecord
  <2>7. ProcInv(p)'
    BY <1>0, <1>5, <2>1, <2>2, <2>5 DEF AppendLine, ProcInv, Goto, IsRecord
  <2> QED
    BY <2>3, <2>6, <2>7
<1>6. ASSUME ReadLog(p) PROVE Good
  <2>1. IsRecord(seed) /\ draft[p] = seed /\ line[p] = None
    BY <1>0, <1>6 DEF ReadLog, ProcInv
  <2>2. LogReplay = Replay(draft[p], DecisionsIn(Lines)) /\ Readable(Lines) /\ LogReplay # None
    BY <1>0, <2>1, CleanReplay DEF SeedInv
  <2>3. UNCHANGED <<seed, log>> /\ UNCHANGED <<snap, seeded, stale, line>>
    BY <1>6 DEF ReadLog, files, history
  <2>4. draft' = [draft EXCEPT ![p] = LogReplay] /\ Goto(p, "snap_open")
    BY <1>6, <2>2 DEF ReadLog
  <2>5. CleanLog' /\ SeedInv'
    BY <1>0, <2>3, ReplayFrame DEF SeedInv
  <2>6. ProcInv(p)'
    BY <1>0, <2>1, <2>3, <2>4, ReplayFrame DEF ProcInv, Goto
  <2> QED
    BY <2>5, <2>6
<1>7. ASSUME OpenSeed(p) PROVE Good
  <2>1. seed = Absent /\ ~IsRecord(seed) /\ ~IsRecord(seed)'
    BY <1>0, <1>7 DEF OpenSeed, ProcInv, IsRecord
  <2>2. UNCHANGED <<log, snap, draft, line, seeded, stale>> /\ seed' = Empty
    BY <1>7 DEF OpenSeed, history
  <2>3. CleanLog' /\ SeedInv'
    BY <1>0, <2>1, <2>2 DEF SeedInv, CleanLog, Lines
  <2>4. ProcInv(p)'
    BY <1>0, <1>7, <2>1, <2>2 DEF OpenSeed, ProcInv, Goto
  <2> QED
    BY <2>3, <2>4
<1>8. ASSUME WriteSeed(p) PROVE Good
  <2>1. seed = Empty /\ draft[p] \in Seeds /\ line[p] = None /\ ~IsRecord(seed)
    BY <1>0, <1>8 DEF WriteSeed, ProcInv, IsRecord
  <2>2. seed' = draft[p] /\ seed' \in StateType
    BY <1>8, <2>1, ModelAssumption DEF WriteSeed, Overlay
  <2>3. IsRecord(seed)' /\ seed' # None
    BY <2>2, FileAssumption, RecordAssumption DEF IsRecord
  <2>4. log = Absent /\ snap = Absent /\ seeded = 0
    BY <1>0, <2>1 DEF SeedInv
  <2>5. UNCHANGED <<log, snap, draft, line, stale>> /\ seeded' = 1
    BY <1>8, <2>4 DEF WriteSeed
  <2>6. LogReplay' = seed' /\ CleanLog'
    BY <2>4, <2>5, EmptyReplay DEF Lines, LogReplay, CleanLog
  <2>7. SeedInv'
    BY <2>3, <2>5, <2>6 DEF SeedInv
  <2>8. ProcInv(p)'
    BY <1>0, <1>8, <2>1, <2>2, <2>3, <2>4, <2>5 DEF WriteSeed, ProcInv, Goto
  <2> QED
    BY <2>6, <2>7, <2>8
<1>9. ASSUME ResetEvents(p) PROVE Good
  <2>1. UNCHANGED <<seed, log>> /\ UNCHANGED <<snap, draft, line, seeded, stale>>
    BY <1>9 DEF ResetEvents, history
  <2>2. CleanLog' /\ SeedInv'
    BY <1>0, <2>1, ReplayFrame DEF SeedInv
  <2>3. ProcInv(p)'
    BY <1>0, <1>9, <2>1, ReplayFrame DEF ResetEvents, ProcInv, Goto
  <2> QED
    BY <2>2, <2>3
<1>10. ASSUME ResetLog(p) PROVE Good
  <2>1. IsRecord(seed) /\ draft[p] = seed /\ line[p] = None
    BY <1>0, <1>10 DEF ResetLog, ProcInv
  <2>2. UNCHANGED <<seed, snap, draft, line, seeded, stale>> /\ log' = <<>>
    BY <1>10 DEF ResetLog, history
  <2>3. LogReplay' = seed /\ CleanLog'
    BY <2>2, EmptyReplay DEF Lines, LogReplay, CleanLog
  <2>4. seed # None
    BY <1>0, <2>1, CleanReplay, RecordAssumption
  <2>5. SeedInv'
    BY <1>0, <2>1, <2>2, <2>3, <2>4 DEF SeedInv, IsRecord
  <2>6. ProcInv(p)'
    BY <1>0, <1>10, <2>1, <2>2, <2>3 DEF ResetLog, ProcInv, Goto, IsRecord
  <2> QED
    BY <2>3, <2>5, <2>6
<1>11. ASSUME OpenSnapshot(p) PROVE Good
  <2>1. IsRecord(seed)
    BY <1>0, <1>11 DEF OpenSnapshot, ProcInv
  <2>2. UNCHANGED <<seed, log>> /\ UNCHANGED <<draft, line, seeded, stale>> /\ snap' = Empty
    BY <1>11 DEF OpenSnapshot, history
  <2>3. CleanLog' /\ SeedInv'
    BY <1>0, <2>1, <2>2, ReplayFrame DEF SeedInv
  <2>4. ProcInv(p)'
    BY <1>0, <1>11, <2>1, <2>2, ReplayFrame DEF OpenSnapshot, ProcInv, Goto
  <2> QED
    BY <2>3, <2>4
<1>12. ASSUME WriteSnapshot(p) PROVE Good
  <2>1. IsRecord(seed) /\ draft[p] = LogReplay /\ snap = Empty /\ (line[p] # None => ~stale)
    BY <1>0, <1>12 DEF WriteSnapshot, ProcInv
  <2>2. UNCHANGED <<seed, log>> /\ UNCHANGED seeded /\ snap' = LogReplay /\ stale' = FALSE
    BY <1>0, <1>12, <2>1 DEF WriteSnapshot, Overlay, TypeOK
  <2>3. CleanLog' /\ SeedInv'
    BY <1>0, <2>1, <2>2, ReplayFrame DEF SeedInv
  <2>4. pc'[p] = "idle" /\ draft'[p] = None /\ line'[p] = None
    BY <1>0, <1>12 DEF WriteSnapshot, Returned, Goto
  <2>5. ProcInv(p)'
    BY <2>1, <2>2, <2>4, ReplayFrame DEF ProcInv
  <2> QED
    BY <2>3, <2>5
<1>13. ASSUME Crash(p) PROVE Good
  <2>1. UNCHANGED <<seed, log>> /\ UNCHANGED <<snap, seeded>> /\ stale' = TRUE
    BY <1>13 DEF Crash, Serial
  <2>2. CleanLog' /\ SeedInv'
    BY <1>0, <2>1, ReplayFrame DEF SeedInv
  <2>3. pc'[p] = "idle" /\ draft'[p] = None /\ line'[p] = None
    BY <1>0, <1>13 DEF Crash, Returned, Goto
  <2>4. ProcInv(p)'
    BY <2>1, <2>3 DEF ProcInv
  <2> QED
    BY <2>2, <2>4
<1> QED
  BY <1>1, <1>2, <1>3, <1>4, <1>5, <1>6, <1>7, <1>8, <1>9, <1>10, <1>11, <1>12, <1>13 DEF Continue

\* Every file operation and every crash of a single process keeps StoreInv.
LEMMA StoreStep == Serial /\ StoreInv /\ [RecoveredNext]_vars => StoreInv'
<1> SUFFICES ASSUME Serial, StoreInv, [RecoveredNext]_vars PROVE StoreInv'
  OBVIOUS
<1>1. TypeInv'
  BY TypeStep, RecoveredIsNext DEF StoreInv
<1>2. CASE RecoveredNext
  <2>1. PICK p \in Procs : CleanLog' /\ SeedInv' /\ ProcInv(p)'
    BY <1>2, StoreStepOf DEF RecoveredNext
  <2>2. \A q \in Procs : q = p
    BY DEF Serial
  <2> QED
    BY <1>1, <2>1, <2>2 DEF StoreInv
<1>3. CASE UNCHANGED vars
  <2>1. UNCHANGED <<seed, log>> /\ UNCHANGED <<snap, pc, draft, line, seeded, stale>>
    BY <1>3 DEF vars, files, procs, history
  <2> QED
    BY <1>1, <2>1, ReplayFrame DEF StoreInv, SeedInv, ProcInv
<1> QED
  BY <1>2, <1>3

\* The one process keeps the seed, the log, the snapshot and its own draft in step.
THEOREM StoreInvariant ==
    ASSUME Serial
    PROVE  RecoveredSpec => []StoreInv
<1>1. StoreInv /\ [RecoveredNext]_vars => StoreInv'
  BY StoreStep
<1> QED
  BY <1>1, StoreInit, PTL DEF RecoveredSpec

\* One process at a time never gives a store a second seed, wherever its
\* initialization was interrupted.  (state_store.py:68-69)
THEOREM OneSeedEver ==
    ASSUME Serial
    PROVE  RecoveredSpec => []OneSeed
<1>1. StoreInv => OneSeed
  BY DEF StoreInv, SeedInv, OneSeed
<1> QED
  BY <1>1, StoreInvariant, PTL

\* As long as a crash is followed by a replay, every decision one process logs
\* applies to the replay of those before it.  (state_store.py:94-108)
THEOREM LogReplays ==
    ASSUME Serial
    PROVE  RecoveredSpec => []LogIsReplayable
<1>1. StoreInv => LogIsReplayable
  BY DEF StoreInv, SeedInv, LogIsReplayable
<1> QED
  BY <1>1, StoreInvariant, PTL

\* Once the process is idle and every crash has been recovered from, the snapshot
\* is the replay of the log.  (docs/workflow_contract.md:198-200)
THEOREM SnapshotSettles ==
    ASSUME Serial
    PROVE  RecoveredSpec => []SettledSnapshotIsReplay
<1>1. StoreInv => SettledSnapshotIsReplay
  BY DEF StoreInv, ProcInv, SettledSnapshotIsReplay, Idle, Serial
<1> QED
  BY <1>1, StoreInvariant, PTL

-----------------------------------------------------------------------------
(* The refinement of DurableHistory. *)

\* What a reader sees is always the replay of the log.
LEMMA VisibleIsReplay ==
    ASSUME Serial
    PROVE  StoreInv => Visible = IF IsRecord(seed) THEN LogReplay ELSE None
<1> SUFFICES ASSUME StoreInv, IsRecord(seed) PROVE Visible = LogReplay
  BY DEF Visible
<1>1. PICK p : Procs = {p} /\ p \in Procs
  BY DEF Serial
<1>2. ProcInv(p)
  BY <1>1 DEF StoreInv
<1>3. CASE pc[p] \in {"snap_open", "snap_write"}
  <2>1. (CHOOSE q \in Procs : pc[q] \in {"snap_open", "snap_write"}) = p
    BY <1>1, <1>3
  <2> QED
    BY <1>1, <1>2, <1>3, <2>1 DEF Visible, ProcInv
<1>4. CASE pc[p] \notin {"snap_open", "snap_write"}
  BY <1>1, <1>2, <1>4 DEF Visible, ProcInv
<1> QED
  BY <1>3, <1>4

\* The contract's operators are the same in the abstract history.
LEMMA SameContract ==
    ASSUME NEW s, NEW d
    PROVE  /\ History!CanApply(s, d) <=> CanApply(s, d)
           /\ History!Apply(s, d) = Apply(s, d)
BY DEF History!CanApply, CanApply, History!ResumesFromBlock, ResumesFromBlock,
       History!Apply, Apply, History!NextWait, NextWait, History!NextBlocker, NextBlocker,
       History!ClearsBlocker, ClearsBlocker, History!IsObservation, IsObservation

\* Each step of the store is a step of the history, or none.
LEMMA HistoryStep ==
    ASSUME Serial, StoreInv, [RecoveredNext]_vars,
           Visible = (IF IsRecord(seed) THEN LogReplay ELSE None),
           Visible' = (IF IsRecord(seed)' THEN LogReplay' ELSE None)
    PROVE  [History!HistoryNext]_(History!historyVars)
<1> USE DEF History!HistoryNext, History!historyVars
<1> DEFINE Hidden == UNCHANGED <<IF IsRecord(seed) THEN seed ELSE None, DecisionsIn(Lines), Visible>>
<1>1. ASSUME UNCHANGED <<seed, log>> PROVE Hidden
  BY <1>1, ReplayFrame DEF Lines
<1>2. ASSUME NEW p \in Procs, AppendLine(p) PROVE History!HistoryNext
  <2>1. /\ line[p] \in Submissions /\ IsRecord(seed) /\ UNCHANGED seed
        /\ CanApply(LogReplay, line[p])
    BY <1>2 DEF AppendLine, StoreInv, TypeInv, TypeOK, Working, ProcInv, Optional
  <2>2. LogReplay # None
    BY <2>1 DEF StoreInv, SeedInv
  <2>3. /\ DecisionsIn(Lines)' = Append(DecisionsIn(Lines), line[p])
        /\ LogReplay' = Apply(LogReplay, line[p])
    BY <1>2, <2>1, <2>2, AppendReplay DEF AppendLine, StoreInv, TypeInv, Turn
  <2>4. seed # None
    BY <2>1, CleanReplay, RecordAssumption DEF StoreInv, TypeInv
  <2>5. IsRecord(seed)'
    BY <2>1 DEF IsRecord
  <2>6. History!Record(line[p])
    BY <2>1, <2>3, <2>4, <2>5, SameContract DEF History!Record
  <2> QED
    BY <2>1, <2>6
<1>3. ASSUME NEW p \in Procs, WriteSeed(p) PROVE History!HistoryNext
  <2>1. seed = Empty /\ ~IsRecord(seed) /\ draft[p] \in Seeds /\ Lines = <<>>
    BY <1>3 DEF WriteSeed, StoreInv, ProcInv, SeedInv, IsRecord, Lines
  <2>2. seed' = draft[p] /\ seed' \in StateType /\ log' = log
    BY <1>3, <2>1, ModelAssumption DEF WriteSeed, Overlay
  <2>3. IsRecord(seed)' /\ Lines' = <<>>
    BY <2>1, <2>2, FileAssumption DEF IsRecord, Lines
  <2>4. LogReplay' = seed' /\ UNCHANGED DecisionsIn(Lines)
    BY <2>1, <2>3, EmptyReplay DEF LogReplay
  <2>5. History!Create(seed')
    BY <2>1, <2>3, <2>4 DEF History!Create
  <2> QED
    BY <2>1, <2>2, <2>5
<1>4. ASSUME NEW p \in Procs, ResetLog(p) PROVE Hidden
  <2>1. Lines = <<>> /\ Lines' = <<>> /\ UNCHANGED seed
    BY <1>4 DEF ResetLog, StoreInv, ProcInv, Lines
  <2> QED
    BY <2>1 DEF LogReplay, IsRecord
<1>5. ASSUME NEW p \in Procs, OpenSeed(p) PROVE Hidden
  <2>1. ~IsRecord(seed) /\ ~IsRecord(seed)' /\ UNCHANGED Lines
    BY <1>5 DEF OpenSeed, StoreInv, ProcInv, IsRecord, Lines
  <2> QED
    BY <2>1
<1>6. CASE UNCHANGED vars
  BY <1>1, <1>6 DEF vars, files
<1>7. ASSUME NEW p \in Procs,
             \/ \E d \in Submissions : BeginAppend(p, d)
             \/ \E s \in Seeds : BeginInit(p, s)
             \/ BeginReplay(p)
             \/ \E e \in Events : AppendEvent(p, e)
             \/ ReadLog(p) \/ ResetEvents(p) \/ OpenSnapshot(p) \/ WriteSnapshot(p)
             \/ Crash(p)
      PROVE  UNCHANGED <<seed, log>>
  BY <1>7 DEF BeginAppend, BeginInit, BeginReplay, AppendEvent, ReadLog, ResetEvents,
              OpenSnapshot, WriteSnapshot, Crash, files, Serial
<1> QED
  BY <1>1, <1>2, <1>3, <1>4, <1>5, <1>6, <1>7 DEF RecoveredNext, Continue

\* With one process at a time, and a replay after each crash, the four files
\* behave as one atomic history: what is logged applies to what readers see, and
\* crashes, replays and half-written files are invisible.  (state_store.py:65-110)
THEOREM StoreImplementsHistory ==
    ASSUME Serial
    PROVE  RecoveredSpec => ImplementsHistory
<1>1. FreshInit => History!HistoryInit
  <2> SUFFICES ASSUME FreshInit PROVE History!HistoryInit
    OBVIOUS
  <2>1. ~IsRecord(seed) /\ Lines = <<>>
    BY DEF FreshInit, IsRecord, Lines
  <2> QED
    BY <2>1, EmptyReplay DEF History!HistoryInit, Visible
<1> DEFINE Seen == Visible = IF IsRecord(seed) THEN LogReplay ELSE None
<1>2. StoreInv => Seen
  BY VisibleIsReplay
<1>3. StoreInv /\ Seen /\ Seen' /\ [RecoveredNext]_vars => [History!HistoryNext]_(History!historyVars)
  BY HistoryStep
<1> HIDE DEF Seen
<1>4. RecoveredSpec => [][History!HistoryNext]_(History!historyVars)
  BY <1>2, <1>3, StoreInvariant, PTL DEF RecoveredSpec
<1> QED
  BY <1>1, <1>4, PTL DEF RecoveredSpec, ImplementsHistory, History!HistorySpec

-----------------------------------------------------------------------------
(* Any number of processes on one initialized store, without --overwrite. *)

\* No process initializes the store again, and each knows which line is its own.
Shares(p) ==
    /\ pc[p] \in {"idle", "append", "read_log", "snap_open", "snap_write"}
    /\ line[p] # None => pc[p] \in {"append", "snap_open", "snap_write"}
    /\ pc[p] = "read_log" => draft[p] = seed

SharedInv ==
    /\ TypeInv
    /\ seed \in StateType /\ log \in Seq(LineType)
    /\ \A p \in Procs : Shares(p)

AckedFor(d)   == {i \in DOMAIN acked : acked[i] = d}
LoggedFor(d)  == {i \in DOMAIN Lines : Lines[i].dec = d}
PendingFor(d) == {p \in Procs : pc[p] \in {"snap_open", "snap_write"} /\ line[p] = d}

\* A readable log holds the acknowledged decisions and those whose process is
\* still to write its snapshot.
AckedInv ==
    Readable(Lines) => \A d \in Submissions :
        Cardinality(AckedFor(d)) + Cardinality(PendingFor(d)) <= Cardinality(LoggedFor(d))

\* The records that a replay of some of the lines ends with.
Partial(s, lines) == {ReplayOnly(s, DecisionsIn(lines), kept) : kept \in SUBSET DOMAIN lines}

\* Every record a process may still write to the snapshot is such a replay, or is
\* one as soon as the process has logged its line.
ExplainedInv ==
    Readable(Lines) =>
        /\ IsRecord(snap) => snap \in Partial(seed, Lines)
        /\ \A p \in Procs :
              /\ pc[p] \in {"snap_open", "snap_write"} => draft[p] \in Partial(seed, Lines)
              /\ pc[p] = "append" => \E r \in Partial(seed, Lines) : draft[p] = Turn(r, line[p])

\* The log of an initialized store is there to be read.
LEMMA SharedLines == log \in Seq(LineType) => Lines = log
BY LogAssumption DEF Lines

\* A line that leaves the log readable is a line more, and a decision.
LEMMA ReadableText ==
    ASSUME NEW lines \in Seq(LineType), NEW d \in Submissions \cup {Garbage}, NEW end \in BOOLEAN,
           Readable(AddText(lines, d, end))
    PROVE  /\ Readable(lines) /\ d \in Submissions
           /\ AddText(lines, d, end) = Append(lines, [dec |-> d, end |-> end])
<1>1. PICK l \in LineType : l = [dec |-> d, end |-> end]
  BY DEF LineType
<1>2. PICK g \in LineType : g = [dec |-> Garbage, end |-> end]
  BY DEF LineType
<1>3. ~ (lines # <<>> /\ ~Last(lines).end)
  <2> SUFFICES ASSUME lines # <<>>, ~Last(lines).end PROVE FALSE
    OBVIOUS
  <2>1. AddText(lines, d, end) = Append(Front(lines), g)
    BY <1>2 DEF AddText
  <2>2. Front(lines) \in Seq(LineType)
    BY DEF Front
  <2>3. Append(Front(lines), g)[Len(Front(lines)) + 1] = g
        /\ Len(Front(lines)) + 1 \in DOMAIN Append(Front(lines), g)
    BY <2>2
  <2> QED
    BY <1>2, <2>1, <2>3 DEF Readable
<1>4. AddText(lines, d, end) = Append(lines, l)
  BY <1>1, <1>3 DEF AddText
<1>5. Len(lines) \in Nat /\ DOMAIN lines = 1..Len(lines)
      /\ DOMAIN Append(lines, l) = 1..(Len(lines) + 1)
      /\ \A i \in 1..Len(lines) : Append(lines, l)[i] = lines[i]
      /\ Append(lines, l)[Len(lines) + 1] = l
  OBVIOUS
<1>6. l.dec # Garbage /\ Readable(lines)
  BY <1>4, <1>5 DEF Readable
<1> QED
  BY <1>1, <1>4, <1>6

\* A step leaves the seed alone, and the log as it is or with more text.
LEMMA SharedStep ==
    ASSUME ~Overwrite, SharedInv, [Next]_vars
    PROVE  /\ SharedInv' /\ UNCHANGED seed
           /\ \/ log' = log
              \/ \E d \in Submissions \cup {Garbage}, end \in BOOLEAN : log' = AddText(log, d, end)
<1> DEFINE Text == \/ log' = log
                   \/ \E d \in Submissions \cup {Garbage}, end \in BOOLEAN : log' = AddText(log, d, end)
           Good == UNCHANGED seed /\ Text /\ \A q \in Procs : Shares(q)'
<1>0. /\ TypeInv' /\ Lines = log /\ seed # Absent
      /\ pc \in [Procs -> Steps] /\ draft \in [Procs -> Optional(StateType)]
      /\ line \in [Procs -> Optional(Submissions)]
  BY TypeStep, SharedLines, FileAssumption DEF SharedInv, TypeInv, TypeOK
<1>1. ASSUME NEW p \in Procs, NEW d \in Submissions, BeginAppend(p, d) PROVE Good
  BY <1>0, <1>1 DEF BeginAppend, SharedInv, Shares, Goto, files
<1>2. ASSUME NEW p \in Procs, NEW s \in Seeds, BeginInit(p, s) PROVE Good
  BY <1>0, <1>2 DEF BeginInit
<1>3. ASSUME NEW p \in Procs, BeginReplay(p) PROVE Good
  BY <1>0, <1>3 DEF BeginReplay, SharedInv, Shares, Goto, files
<1>4. ASSUME NEW p \in Procs, NEW e \in Events, AppendEvent(p, e) PROVE Good
  BY <1>0, <1>4 DEF AppendEvent, SharedInv, Shares, procs
<1>5. ASSUME NEW p \in Procs, AppendLine(p) PROVE Good
  <2>1. line[p] \in Submissions
    BY <1>5 DEF AppendLine, SharedInv, TypeInv, TypeOK, Working, Optional
  <2>2. UNCHANGED seed /\ Text
    BY <1>0, <1>5, <2>1 DEF AppendLine
  <2>3. \A q \in Procs : Shares(q)'
    BY <1>0, <1>5 DEF AppendLine, SharedInv, Shares, Goto
  <2> QED
    BY <2>2, <2>3
<1>6. ASSUME NEW p \in Procs, ReadLog(p) PROVE Good
  <2>1. /\ \E step \in {"idle", "snap_open"} : Goto(p, step)
        /\ \A q \in Procs \ {p} : draft'[q] = draft[q]
        /\ line[p] = None /\ UNCHANGED <<files, line>>
    BY <1>0, <1>6 DEF ReadLog, SharedInv, Shares
  <2> QED
    BY <1>0, <2>1 DEF SharedInv, Shares, Goto, files
<1>7. ASSUME NEW p \in Procs, OpenSeed(p) \/ WriteSeed(p) \/ ResetEvents(p) \/ ResetLog(p) PROVE Good
  BY <1>7 DEF OpenSeed, WriteSeed, ResetEvents, ResetLog, SharedInv, Shares
<1>8. ASSUME NEW p \in Procs, OpenSnapshot(p) PROVE Good
  BY <1>0, <1>8 DEF OpenSnapshot, SharedInv, Shares, Goto
<1>9. ASSUME NEW p \in Procs, WriteSnapshot(p) PROVE Good
  BY <1>0, <1>9 DEF WriteSnapshot, Returned, SharedInv, Shares, Goto
<1>10. ASSUME NEW p \in Procs, Crash(p) PROVE Good
  <2>1. UNCHANGED seed /\ \A q \in Procs : Shares(q)'
    BY <1>0, <1>10 DEF Crash, Returned, SharedInv, Shares, Goto
  <2>2. pc[p] = "append" => line[p] \in Submissions
    BY DEF SharedInv, TypeInv, TypeOK, Working, Optional
  <2>3. Text
    BY <1>0, <1>10, <2>2 DEF Crash
  <2> QED
    BY <2>1, <2>3
<1>11. ASSUME UNCHANGED vars PROVE Good
  BY <1>11 DEF vars, files, procs, SharedInv, Shares
<1>12. Good
  BY <1>1, <1>2, <1>3, <1>4, <1>5, <1>6, <1>7, <1>8, <1>9, <1>10, <1>11 DEF Next, Continue
<1>13. seed \in StateType /\ log \in Seq(LineType)
  BY DEF SharedInv
<1>14. log' \in Seq(LineType)
  <2>1. CASE log' = log
    BY <1>13, <2>1
  <2>2. ASSUME NEW d \in Submissions \cup {Garbage}, NEW end \in BOOLEAN,
               log' = AddText(log, d, end)
        PROVE  log' \in Seq(LineType)
    BY <1>13, <2>2, AddTextType
  <2> QED
    BY <1>12, <2>1, <2>2
<1>15. SharedInv'
  BY <1>0, <1>12, <1>13, <1>14 DEF SharedInv
<1> QED
  BY <1>12, <1>15

\* A ready store shares one seed and an empty log.
LEMMA SharedInit == ReadyInit => SharedInv
<1> SUFFICES ASSUME ReadyInit PROVE SharedInv
  OBVIOUS
<1>1. TypeInv
  BY TypeInit
<1>2. seed \in StateType /\ log \in Seq(LineType)
  BY ModelAssumption, EmptySeq DEF ReadyInit
<1> QED
  BY <1>1, <1>2 DEF ReadyInit, ProcInit, SharedInv, Shares

\* Of the processes that share an initialized store none initializes it again, and
\* each replay of theirs starts from its one seed.  (state_store.py:68-69, 106-110)
THEOREM SharedStore ==
    ASSUME ~Overwrite
    PROVE  ReadySpec => []SharedInv
<1>1. SharedInv /\ [Next]_vars => SharedInv'
  BY SharedStep
<1> QED
  BY <1>1, SharedInit, PTL DEF ReadySpec

-----------------------------------------------------------------------------
(* What was acknowledged is in the log. *)

\* The sets that are counted are finite.
LEMMA FiniteCounts ==
    ASSUME TypeOK, NEW d
    PROVE  /\ IsFiniteSet(AckedFor(d)) /\ IsFiniteSet(LoggedFor(d)) /\ IsFiniteSet(PendingFor(d))
           /\ Cardinality(AckedFor(d)) \in Nat /\ Cardinality(LoggedFor(d)) \in Nat
           /\ Cardinality(PendingFor(d)) \in Nat
<1>1. IsFiniteSet(AckedFor(d))
  <2>1. Len(acked) \in Nat /\ AckedFor(d) \subseteq 1..Len(acked)
    BY DEF TypeOK, AckedFor
  <2>2. IsFiniteSet(1..Len(acked))
    BY <2>1, FS_Interval
  <2> QED
    BY <2>1, <2>2, FS_Subset
<1>2. IsFiniteSet(LoggedFor(d))
  <2>1. Len(Lines) \in Nat /\ LoggedFor(d) \subseteq 1..Len(Lines)
    BY LinesType DEF LoggedFor
  <2>2. IsFiniteSet(1..Len(Lines))
    BY <2>1, FS_Interval
  <2> QED
    BY <2>1, <2>2, FS_Subset
<1>3. IsFiniteSet(PendingFor(d))
  <2>1. PendingFor(d) \subseteq Procs /\ IsFiniteSet(Procs)
    BY StoreAssumption DEF PendingFor
  <2> QED
    BY <2>1, FS_Subset
<1> QED
  BY <1>1, <1>2, <1>3, FS_CardinalityType

\* Text that leaves the log readable is one line more of the decision it holds,
\* and no line of any other is lost.
LEMMA LoggedText ==
    ASSUME NEW lines \in Seq(LineType), NEW e \in Submissions \cup {Garbage}, NEW end \in BOOLEAN,
           Lines = lines, Lines' = AddText(lines, e, end), Readable(Lines)', NEW d \in Submissions
    PROVE  /\ Readable(Lines)
           /\ LoggedFor(d)' = IF e = d THEN LoggedFor(d) \cup {Len(lines) + 1} ELSE LoggedFor(d)
           /\ Len(lines) + 1 \notin LoggedFor(d)
<1>1. PICK l \in LineType : l = [dec |-> e, end |-> end]
  BY DEF LineType
<1>2. Readable(lines) /\ Lines' = Append(lines, l)
  BY <1>1, ReadableText
<1>3. Len(lines) \in Nat /\ DOMAIN lines = 1..Len(lines)
      /\ DOMAIN Append(lines, l) = 1..(Len(lines) + 1)
      /\ \A i \in 1..Len(lines) : Append(lines, l)[i] = lines[i]
      /\ Append(lines, l)[Len(lines) + 1] = l
  OBVIOUS
<1>4. l.dec = e
  BY <1>1
<1>5. LoggedFor(d) = {i \in 1..Len(lines) : lines[i].dec = d}
  BY <1>3 DEF LoggedFor
<1>6. LoggedFor(d)' = {i \in 1..(Len(lines) + 1) : Append(lines, l)[i].dec = d}
  BY <1>2, <1>3 DEF LoggedFor
<1> QED
  BY <1>2, <1>3, <1>4, <1>5, <1>6

\* No file operation of anybody takes an acknowledged decision from a readable
\* log.
LEMMA AckedStep == ~Overwrite /\ SharedInv /\ AckedInv /\ [Next]_vars => AckedInv'
<1> SUFFICES ASSUME ~Overwrite, SharedInv, AckedInv, [Next]_vars,
                    Readable(Lines)', NEW d \in Submissions
             PROVE  Cardinality(AckedFor(d)') + Cardinality(PendingFor(d)')
                        <= Cardinality(LoggedFor(d)')
  BY DEF AckedInv
<1> DEFINE A == Cardinality(AckedFor(d))
           P == Cardinality(PendingFor(d))
           L == Cardinality(LoggedFor(d))
           Goal == Cardinality(AckedFor(d)') + Cardinality(PendingFor(d)') <= Cardinality(LoggedFor(d)')
<1>1. /\ Lines = log /\ Lines' = log' /\ log \in Seq(LineType) /\ TypeOK /\ d # None
      /\ pc \in [Procs -> Steps] /\ line \in [Procs -> Optional(Submissions)]
  BY SharedStep, SharedLines, LogAssumption, ModelAssumption DEF SharedInv, TypeInv, TypeOK, Lines
<1>2. /\ IsFiniteSet(AckedFor(d)) /\ IsFiniteSet(LoggedFor(d)) /\ IsFiniteSet(PendingFor(d))
      /\ A \in Nat /\ P \in Nat /\ L \in Nat
  BY <1>1, FiniteCounts
<1>3. Readable(Lines) /\ L <= Cardinality(LoggedFor(d)')
  <2>1. CASE log' = log
    <3>1. LoggedFor(d)' = LoggedFor(d) /\ Readable(Lines)
      BY <1>1, <2>1 DEF LoggedFor
    <3> QED
      BY <1>2, <3>1
  <2>2. ASSUME NEW e \in Submissions \cup {Garbage}, NEW end \in BOOLEAN,
               log' = AddText(log, e, end)
        PROVE  Readable(Lines) /\ L <= Cardinality(LoggedFor(d)')
    <3>1. Readable(Lines) /\ (LoggedFor(d)' = LoggedFor(d) \/ LoggedFor(d)' = LoggedFor(d) \cup {Len(log) + 1})
      BY <1>1, <2>2, LoggedText
    <3>2. Cardinality(LoggedFor(d) \cup {Len(log) + 1}) \in {L, L + 1}
      <4>1. CASE Len(log) + 1 \in LoggedFor(d)
        <5>1. LoggedFor(d) \cup {Len(log) + 1} = LoggedFor(d)
          BY <4>1
        <5> QED
          BY <5>1
      <4>2. CASE Len(log) + 1 \notin LoggedFor(d)
        BY <1>2, <4>2, FS_AddElement
      <4> QED
        BY <4>1, <4>2
    <3>3. Cardinality(LoggedFor(d)') \in {L, L + 1}
      BY <3>1, <3>2
    <3> QED
      BY <1>2, <3>1, <3>3
  <2> QED
    BY <2>1, <2>2, SharedStep
<1>4. A + P <= L
  BY <1>3 DEF AckedInv
<1>5. ASSUME UNCHANGED acked, PendingFor(d)' \subseteq PendingFor(d) PROVE Goal
  <2>1. Cardinality(PendingFor(d)') \in Nat /\ Cardinality(PendingFor(d)') <= P
    BY <1>2, <1>5, FS_Subset, FS_CardinalityType
  <2>2. AckedFor(d)' = AckedFor(d)
    BY <1>5 DEF AckedFor
  <2>3. Cardinality(LoggedFor(d)') \in Nat
    <3>1. log' \in Seq(LineType)
      BY SharedStep DEF SharedInv
    <3>2. PICK n \in Nat : DOMAIN Lines' = 1..n
      BY <1>1, <3>1
    <3>3. LoggedFor(d)' \in SUBSET (1..n)
      BY <3>2 DEF LoggedFor
    <3>4. IsFiniteSet(1..n)
      BY FS_Interval
    <3>5. IsFiniteSet(LoggedFor(d)')
      BY <3>3, <3>4, FS_Subset
    <3>6. \A S : IsFiniteSet(S) => Cardinality(S) \in Nat
      BY FS_CardinalityType
    <3> QED
      BY <3>5, <3>6
  <2> QED
    BY <1>2, <1>3, <1>4, <2>1, <2>2, <2>3
<1>6. ASSUME NEW p \in Procs, AppendLine(p) PROVE Goal
  <2>1. /\ line[p] \in Submissions /\ p \notin PendingFor(d)
        /\ AckedFor(d)' = AckedFor(d)
    BY <1>1, <1>6 DEF AppendLine, SharedInv, TypeInv, Working, Optional, PendingFor, AckedFor, history
  <2>2. PendingFor(d)' = IF line[p] = d THEN PendingFor(d) \cup {p} ELSE PendingFor(d)
    BY <1>1, <1>6 DEF AppendLine, PendingFor, Goto
  <2>3. /\ LoggedFor(d)' = IF line[p] = d THEN LoggedFor(d) \cup {Len(log) + 1} ELSE LoggedFor(d)
        /\ Len(log) + 1 \notin LoggedFor(d)
    BY <1>1, <1>6, <2>1, LoggedText DEF AppendLine
  <2>4. CASE line[p] = d
    <3>1. Cardinality(PendingFor(d) \cup {p}) = P + 1
      BY <1>2, <2>1, FS_AddElement
    <3>2. Cardinality(LoggedFor(d) \cup {Len(log) + 1}) = L + 1
      BY <1>2, <2>3, FS_AddElement
    <3>3. /\ PendingFor(d)' = PendingFor(d) \cup {p}
          /\ LoggedFor(d)' = LoggedFor(d) \cup {Len(log) + 1}
      BY <2>2, <2>3, <2>4
    <3> QED
      BY <1>2, <1>4, <2>1, <3>1, <3>2, <3>3
  <2>5. CASE line[p] # d
    BY <1>2, <1>4, <2>1, <2>2, <2>3, <2>5
  <2> QED
    BY <2>4, <2>5
<1>7. ASSUME NEW p \in Procs, WriteSnapshot(p) PROVE Goal
  <2>1. LoggedFor(d)' = LoggedFor(d)
    BY <1>7 DEF WriteSnapshot, LoggedFor, Lines
  <2>2. PendingFor(d)' = PendingFor(d) \ {p}
    BY <1>1, <1>7 DEF WriteSnapshot, Returned, PendingFor, Goto
  <2>3. CASE line[p] = d
    <3>1. acked' = Append(acked, d) /\ acked \in Seq(Submissions) /\ p \in PendingFor(d)
      BY <1>1, <1>7, <2>3 DEF WriteSnapshot, TypeOK, PendingFor
    <3>2. Len(acked) \in Nat /\ DOMAIN acked = 1..Len(acked)
          /\ DOMAIN Append(acked, d) = 1..(Len(acked) + 1)
          /\ \A i \in 1..Len(acked) : Append(acked, d)[i] = acked[i]
          /\ Append(acked, d)[Len(acked) + 1] = d
      BY <3>1
    <3>3. AckedFor(d)' = AckedFor(d) \cup {Len(acked) + 1} /\ Len(acked) + 1 \notin AckedFor(d)
      BY <3>1, <3>2 DEF AckedFor
    <3>4. Cardinality(AckedFor(d) \cup {Len(acked) + 1}) = A + 1
      BY <1>2, <3>3, FS_AddElement
    <3>5. Cardinality(PendingFor(d) \ {p}) = P - 1
      BY <1>2, <3>1, FS_RemoveElement
    <3> QED
      BY <1>2, <1>4, <2>1, <2>2, <3>3, <3>4, <3>5
  <2>4. CASE line[p] # d
    <3>1. p \notin PendingFor(d)
      BY <2>4 DEF PendingFor
    <3>2. AckedFor(d)' = AckedFor(d)
      <4>1. CASE line[p] = None
        BY <1>7, <4>1 DEF WriteSnapshot, AckedFor
      <4>2. CASE line[p] # None
        <5>1. acked' = Append(acked, line[p]) /\ acked \in Seq(Submissions)
          BY <1>1, <1>7, <4>2 DEF WriteSnapshot, TypeOK
        <5>2. line[p] \in Submissions
          BY <1>1, <4>2 DEF Optional
        <5>3. \A e \in Submissions :
                  /\ Len(acked) \in Nat /\ DOMAIN acked = 1..Len(acked)
                  /\ DOMAIN Append(acked, e) = 1..(Len(acked) + 1)
                  /\ \A i \in 1..Len(acked) : Append(acked, e)[i] = acked[i]
                  /\ Append(acked, e)[Len(acked) + 1] = e
          BY <5>1
        <5>4. /\ Len(acked) \in Nat /\ DOMAIN acked = 1..Len(acked)
              /\ DOMAIN acked' = 1..(Len(acked) + 1)
              /\ \A i \in 1..Len(acked) : acked'[i] = acked[i]
              /\ acked'[Len(acked) + 1] = line[p]
          BY <5>1, <5>2, <5>3
        <5> QED
          BY <2>4, <5>4 DEF AckedFor
      <4> QED
        BY <4>1, <4>2
    <3>3. PendingFor(d)' = PendingFor(d)
      BY <2>2, <3>1
    <3> QED
      BY <1>2, <1>4, <2>1, <3>2, <3>3
  <2> QED
    BY <2>3, <2>4
<1>8. ASSUME NEW p \in Procs,
             \/ \E e \in Submissions : BeginAppend(p, e)
             \/ \E s \in Seeds : BeginInit(p, s)
             \/ BeginReplay(p)
             \/ \E e \in Events : AppendEvent(p, e)
             \/ OpenSeed(p) \/ WriteSeed(p) \/ ResetEvents(p) \/ ResetLog(p)
             \/ OpenSnapshot(p) \/ Crash(p)
      PROVE  UNCHANGED acked /\ PendingFor(d)' \subseteq PendingFor(d)
  <2>1. UNCHANGED acked
    BY <1>8 DEF BeginAppend, BeginInit, BeginReplay, AppendEvent, OpenSeed, WriteSeed, ResetEvents,
                ResetLog, OpenSnapshot, Crash, history
  <2>2. ~OpenSeed(p) /\ ~WriteSeed(p) /\ ~ResetEvents(p) /\ ~ResetLog(p)
    BY DEF SharedInv, Shares, OpenSeed, WriteSeed, ResetEvents, ResetLog
  <2>3. CASE \E e \in Submissions : BeginAppend(p, e)
    BY <1>1, <2>1, <2>3 DEF BeginAppend, PendingFor, Goto
  <2>4. CASE \E s \in Seeds : BeginInit(p, s)
    BY <1>1, <2>1, <2>4 DEF BeginInit, PendingFor, Goto
  <2>5. CASE BeginReplay(p)
    BY <1>1, <2>1, <2>5 DEF BeginReplay, PendingFor, Goto
  <2>6. CASE \E e \in Events : AppendEvent(p, e)
    BY <2>1, <2>6 DEF AppendEvent, PendingFor, procs
  <2>7. CASE OpenSnapshot(p)
    BY <1>1, <2>1, <2>7 DEF OpenSnapshot, PendingFor, Goto
  <2>8. CASE Crash(p)
    BY <1>1, <2>1, <2>8 DEF Crash, Returned, PendingFor, Goto
  <2> QED
    BY <1>8, <2>1, <2>2, <2>3, <2>4, <2>5, <2>6, <2>7, <2>8
<1>9. ASSUME NEW p \in Procs, ReadLog(p) PROVE UNCHANGED acked /\ PendingFor(d)' \subseteq PendingFor(d)
  <2>1. line[p] = None
    BY <1>9 DEF ReadLog, SharedInv, Shares
  <2>2. UNCHANGED <<acked, line>> /\ \A q \in Procs \ {p} : pc'[q] = pc[q]
    BY <1>1, <1>9 DEF ReadLog, Goto, history
  <2> QED
    BY <1>1, <2>1, <2>2 DEF PendingFor
<1>10. CASE UNCHANGED vars
  <2>1. UNCHANGED acked /\ PendingFor(d)' = PendingFor(d)
    BY <1>10 DEF vars, procs, history, PendingFor
  <2> QED
    BY <1>5, <2>1
<1> QED
  BY <1>5, <1>6, <1>7, <1>8, <1>9, <1>10 DEF Next, Continue

\* No acknowledged decision is ever lost from a log that still can be read, with
\* any number of processes, crashes and torn lines.  (state_store.py:99-101, 147-149)
THEOREM AckedStaysLogged ==
    ASSUME ~Overwrite
    PROVE  ReadySpec => []AckedIsDurable
<1>1. ReadyInit => AckedInv
  <2> SUFFICES ASSUME ReadyInit, NEW d \in Submissions
               PROVE  Cardinality(AckedFor(d)) + Cardinality(PendingFor(d)) <= Cardinality(LoggedFor(d))
    BY DEF AckedInv
  <2>1. AckedFor(d) = {} /\ PendingFor(d) = {} /\ LoggedFor(d) = {}
    BY DEF ReadyInit, ProcInit, AckedFor, PendingFor, LoggedFor, Lines
  <2> QED
    BY <2>1, FS_EmptySet
<1>2. SharedInv /\ AckedInv /\ [Next]_vars => AckedInv'
  BY AckedStep
<1>3. SharedInv /\ AckedInv => AckedIsDurable
  <2> SUFFICES ASSUME SharedInv, AckedInv, Readable(Lines), NEW d \in Submissions
               PROVE  Cardinality(AckedFor(d)) <= Cardinality(LoggedFor(d))
    BY DEF AckedIsDurable, AckedFor, LoggedFor
  <2>1. Cardinality(AckedFor(d)) + Cardinality(PendingFor(d)) <= Cardinality(LoggedFor(d))
    BY DEF AckedInv
  <2> QED
    BY <2>1, FiniteCounts DEF SharedInv, TypeInv
<1> QED
  BY <1>1, <1>2, <1>3, SharedStore, PTL DEF ReadySpec

-----------------------------------------------------------------------------
(* Every snapshot is the replay of some of the log. *)

\* A line more explains what was explained, and what its decision makes of it.
LEMMA PartialGrows ==
    ASSUME NEW s \in StateType, NEW lines \in Seq(LineType), NEW l \in LineType,
           Readable(lines), l.dec \in Submissions, NEW r \in Partial(s, lines)
    PROVE  r \in Partial(s, Append(lines, l)) /\ Turn(r, l.dec) \in Partial(s, Append(lines, l))
<1> DEFINE n == Len(lines)
           ds == DecisionsIn(lines)
<1>1. PICK kept \in SUBSET DOMAIN lines : r = ReplayOnly(s, ds, kept)
  BY DEF Partial
<1>2. n \in Nat /\ DOMAIN lines = 1..n /\ DOMAIN Append(lines, l) = 1..(n + 1)
  OBVIOUS
<1>3. ds \in Seq(DecisionType) /\ l.dec \in DecisionType
  BY DecisionsInType, ModelAssumption
<1>4. DecisionsIn(Append(lines, l)) = Append(ds, l.dec)
  BY DecisionsInAppend
<1>5. Len(ds) = n
  BY <1>2, <1>3 DEF DecisionsIn
<1>6. DOMAIN ds = 1..n
  BY <1>2 DEF DecisionsIn
<1> HIDE DEF n, ds
<1>7. r \in Partial(s, Append(lines, l))
  <2>1. n + 1 \notin kept /\ kept \in SUBSET DOMAIN Append(lines, l)
    BY <1>2
  <2>2. r = ReplayOnly(s, Append(ds, l.dec), kept)
    BY <1>1, <1>3, <1>5, <2>1, ReplayOneMore
  <2> QED
    BY <1>4, <2>1, <2>2 DEF Partial
<1>8. Turn(r, l.dec) \in Partial(s, Append(lines, l))
  <2> DEFINE also == kept \cup {n + 1}
  <2>1. n + 1 \in also /\ also \in SUBSET DOMAIN Append(lines, l)
    BY <1>2
  <2>2. kept \cap DOMAIN ds = also \cap DOMAIN ds
    BY <1>2, <1>6
  <2> HIDE DEF also
  <2>3. r = ReplayOnly(s, ds, also)
    BY <1>1, <1>3, <2>2, ReplaySame
  <2>4. Turn(r, l.dec) = ReplayOnly(s, Append(ds, l.dec), also)
    BY <1>3, <1>5, <2>1, <2>3, ReplayOneMore
  <2> QED
    BY <1>4, <2>1, <2>4 DEF Partial
<1> QED
  BY <1>7, <1>8

\* The whole replay is one of them.
LEMMA ReplayIsPartial ==
    ASSUME NEW s, NEW lines
    PROVE  Replay(s, DecisionsIn(lines)) \in Partial(s, lines)
<1>1. DOMAIN DecisionsIn(lines) = DOMAIN lines
  BY DEF DecisionsIn
<1> QED
  BY <1>1 DEF Replay, Partial

\* Every snapshot anybody writes is the replay of some logged decisions.
LEMMA ExplainedStep == ~Overwrite /\ SharedInv /\ ExplainedInv /\ [Next]_vars => ExplainedInv'
<1> SUFFICES ASSUME ~Overwrite, SharedInv, ExplainedInv, [Next]_vars, Readable(Lines)'
             PROVE  /\ IsRecord(snap)' => snap' \in Partial(seed, Lines')
                    /\ \A p \in Procs :
                          /\ pc'[p] \in {"snap_open", "snap_write"} => draft'[p] \in Partial(seed, Lines')
                          /\ pc'[p] = "append" => \E r \in Partial(seed, Lines') : draft'[p] = Turn(r, line'[p])
  BY SharedStep DEF ExplainedInv
<1> DEFINE Old == Partial(seed, Lines)
           Now == Partial(seed, Lines')
           Fine(q) == /\ pc'[q] \in {"snap_open", "snap_write"} => draft'[q] \in Now
                      /\ pc'[q] = "append" => \E r \in Now : draft'[q] = Turn(r, line'[q])
           Good == (IsRecord(snap)' => snap' \in Now) /\ \A q \in Procs : Fine(q)
<1>1. /\ Lines = log /\ Lines' = log' /\ log \in Seq(LineType) /\ seed \in StateType
      /\ pc \in [Procs -> Steps] /\ draft \in [Procs -> Optional(StateType)]
      /\ line \in [Procs -> Optional(Submissions)] /\ snap \in Files(StateType)
  BY SharedStep, SharedLines, LogAssumption DEF SharedInv, TypeInv, TypeOK, Lines
<1>2. Readable(Lines) /\ \A r \in Old : r \in Now
  <2>1. CASE log' = log
    BY <1>1, <2>1
  <2>2. ASSUME NEW e \in Submissions \cup {Garbage}, NEW end \in BOOLEAN,
               log' = AddText(log, e, end)
        PROVE  Readable(Lines) /\ \A r \in Old : r \in Now
    <3>1. PICK l \in LineType : l = [dec |-> e, end |-> end]
      BY DEF LineType
    <3>2. Readable(log) /\ e \in Submissions /\ log' = Append(log, l)
      BY <1>1, <2>2, <3>1, ReadableText
    <3>3. l.dec \in Submissions
      BY <3>1, <3>2
    <3> QED
      BY <1>1, <3>2, <3>3, PartialGrows
  <2> QED
    BY <2>1, <2>2, SharedStep
<1>3. /\ IsRecord(snap) => snap \in Old
      /\ \A q \in Procs : /\ pc[q] \in {"snap_open", "snap_write"} => draft[q] \in Old
                          /\ pc[q] = "append" => \E r \in Old : draft[q] = Turn(r, line[q])
  BY <1>2 DEF ExplainedInv
<1> HIDE DEF Old, Now
<1>4. ASSUME NEW p \in Procs,
             \A q \in Procs \ {p} : pc'[q] = pc[q] /\ draft'[q] = draft[q] /\ line'[q] = line[q],
             Fine(p), IsRecord(snap)' => snap' \in Now
      PROVE  Good
  <2>1. \A q \in Procs \ {p} : Fine(q)
    BY <1>2, <1>3, <1>4
  <2> QED
    BY <1>4, <2>1
<1>5. ASSUME NEW p \in Procs, NEW d \in Submissions, BeginAppend(p, d) PROVE Good
  <2>1. /\ UNCHANGED snap /\ IsRecord(snap) /\ CanApply(snap, d)
        /\ pc'[p] = "append" /\ draft'[p] = Apply(snap, d) /\ line'[p] = d
        /\ \A q \in Procs \ {p} : pc'[q] = pc[q] /\ draft'[q] = draft[q] /\ line'[q] = line[q]
    BY <1>1, <1>5 DEF BeginAppend, Goto, files
  <2>2. snap \in Now
    BY <1>2, <1>3, <2>1
  <2>3. snap # None
    BY <1>1, <2>1, RecordAssumption DEF IsRecord, Files
  <2>4. draft'[p] = Turn(snap, line'[p])
    BY <2>1, <2>3 DEF Turn
  <2>5. Fine(p)
    BY <2>1, <2>2, <2>4
  <2> QED
    BY <1>4, <2>1, <2>2, <2>5
<1>6. ASSUME NEW p \in Procs, BeginReplay(p) PROVE Good
  <2>1. /\ UNCHANGED snap /\ pc'[p] = "read_log"
        /\ \A q \in Procs \ {p} : pc'[q] = pc[q] /\ draft'[q] = draft[q] /\ line'[q] = line[q]
    BY <1>1, <1>6 DEF BeginReplay, Goto, files
  <2>2. IsRecord(snap)' => snap' \in Now
    BY <1>2, <1>3, <2>1 DEF IsRecord
  <2> QED
    BY <1>4, <2>1, <2>2
<1>7. ASSUME NEW p \in Procs, NEW e \in Events, AppendEvent(p, e) PROVE Good
  BY <1>2, <1>3, <1>7 DEF AppendEvent, procs, IsRecord
<1>8. ASSUME NEW p \in Procs, AppendLine(p) PROVE Good
  <2>1. /\ UNCHANGED snap /\ pc[p] = "append" /\ pc'[p] = "snap_open" /\ draft'[p] = draft[p]
        /\ \A q \in Procs \ {p} : pc'[q] = pc[q] /\ draft'[q] = draft[q] /\ line'[q] = line[q]
        /\ log' = AddText(log, line[p], TRUE) /\ line[p] \in Submissions
    BY <1>1, <1>8 DEF AppendLine, Goto, SharedInv, TypeInv, TypeOK, Working, Optional
  <2>2. PICK l \in LineType : l = [dec |-> line[p], end |-> TRUE]
    BY <2>1 DEF LineType
  <2>3. Readable(log) /\ log' = Append(log, l) /\ l.dec = line[p]
    BY <1>1, <2>1, <2>2, ReadableText
  <2>4. PICK r \in Old : draft[p] = Turn(r, line[p])
    BY <1>3, <2>1
  <2>5. draft[p] \in Now
    <3>1. r \in Partial(seed, log) /\ l.dec \in Submissions
      BY <1>1, <2>1, <2>3, <2>4 DEF Old
    <3>2. Turn(r, l.dec) \in Partial(seed, Append(log, l))
      BY <1>1, <2>3, <3>1, PartialGrows
    <3>3. Now = Partial(seed, Append(log, l))
      BY <1>1, <2>3 DEF Now
    <3> QED
      BY <2>3, <2>4, <3>2, <3>3
  <2>6. IsRecord(snap)' => snap' \in Now
    BY <1>2, <1>3, <2>1 DEF IsRecord
  <2> QED
    BY <1>4, <2>1, <2>5, <2>6
<1>9. ASSUME NEW p \in Procs, ReadLog(p) PROVE Good
  <2>1. /\ UNCHANGED <<snap, log>> /\ pc[p] = "read_log"
        /\ draft'[p] = Replay(draft[p], DecisionsIn(Lines))
        /\ pc'[p] \in {"idle", "snap_open"}
        /\ \A q \in Procs \ {p} : pc'[q] = pc[q] /\ draft'[q] = draft[q] /\ line'[q] = line[q]
    BY <1>1, <1>2, <1>9 DEF ReadLog, Goto, files
  <2>2. draft[p] = seed
    BY <2>1 DEF SharedInv, Shares
  <2>3. draft'[p] \in Now
    BY <1>2, <2>1, <2>2, ReplayIsPartial DEF Old
  <2>4. IsRecord(snap)' => snap' \in Now
    BY <1>2, <1>3, <2>1 DEF IsRecord
  <2> QED
    BY <1>4, <2>1, <2>3, <2>4
<1>10. ASSUME NEW p \in Procs, OpenSnapshot(p) PROVE Good
  <2>1. /\ ~IsRecord(snap)' /\ pc[p] = "snap_open" /\ pc'[p] = "snap_write" /\ draft'[p] = draft[p]
        /\ \A q \in Procs \ {p} : pc'[q] = pc[q] /\ draft'[q] = draft[q] /\ line'[q] = line[q]
    BY <1>1, <1>10 DEF OpenSnapshot, Goto, IsRecord
  <2> QED
    BY <1>2, <1>3, <1>4, <2>1
<1>11. ASSUME NEW p \in Procs, WriteSnapshot(p) PROVE Good
  <2>1. /\ snap' \in {draft[p], Garbage} /\ pc[p] = "snap_write" /\ pc'[p] = "idle"
        /\ \A q \in Procs \ {p} : pc'[q] = pc[q] /\ draft'[q] = draft[q] /\ line'[q] = line[q]
    BY <1>1, <1>11 DEF WriteSnapshot, Returned, Goto, Overlay
  <2>2. IsRecord(snap)' => snap' \in Now
    BY <1>2, <1>3, <2>1 DEF IsRecord
  <2> QED
    BY <1>4, <2>1, <2>2
<1>12. ASSUME NEW p \in Procs, Crash(p) PROVE Good
  <2>1. /\ UNCHANGED snap /\ pc'[p] = "idle"
        /\ \A q \in Procs \ {p} : pc'[q] = pc[q] /\ draft'[q] = draft[q] /\ line'[q] = line[q]
    BY <1>1, <1>12 DEF Crash, Returned, Goto
  <2>2. IsRecord(snap)' => snap' \in Now
    BY <1>2, <1>3, <2>1 DEF IsRecord
  <2> QED
    BY <1>4, <2>1, <2>2
<1>13. ASSUME NEW p \in Procs,
              \/ \E s \in Seeds : BeginInit(p, s)
              \/ OpenSeed(p) \/ WriteSeed(p) \/ ResetEvents(p) \/ ResetLog(p)
       PROVE  FALSE
  BY <1>1, <1>13, FileAssumption DEF BeginInit, OpenSeed, WriteSeed, ResetEvents, ResetLog, SharedInv, Shares
<1>14. ASSUME UNCHANGED vars PROVE Good
  BY <1>2, <1>3, <1>14 DEF vars, files, procs, IsRecord
<1>15. Good
  BY <1>5, <1>6, <1>7, <1>8, <1>9, <1>10, <1>11, <1>12, <1>13, <1>14 DEF Next, Continue
<1> QED
  BY <1>15 DEF Now

\* Processes may overwrite each other's snapshots, lose each other's updates and
\* die at any step: a readable snapshot beside a readable log is still the replay
\* of some of the logged decisions, in log order.  (state_store.py:94-110)
THEOREM SnapshotExplained ==
    ASSUME ~Overwrite
    PROVE  ReadySpec => []SnapshotIsExplained
<1>1. ReadyInit => ExplainedInv
  <2> SUFFICES ASSUME ReadyInit PROVE ExplainedInv
    OBVIOUS
  <2>1. snap = seed /\ Lines = <<>> /\ \A p \in Procs : pc[p] = "idle"
    BY LogAssumption, EmptySeq DEF ReadyInit, ProcInit, Lines
  <2>2. Replay(seed, DecisionsIn(<<>>)) = seed
    BY EmptyReplay
  <2>3. seed \in Partial(seed, Lines)
    BY <2>1, <2>2, ReplayIsPartial
  <2> QED
    BY <2>1, <2>3 DEF ExplainedInv
<1>2. SharedInv /\ ExplainedInv /\ [Next]_vars => ExplainedInv'
  BY ExplainedStep
<1>3. ExplainedInv => SnapshotIsExplained
  BY DEF ExplainedInv, SnapshotIsExplained, Partial
<1> QED
  BY <1>1, <1>2, <1>3, SharedStore, PTL DEF ReadySpec
=============================================================================
