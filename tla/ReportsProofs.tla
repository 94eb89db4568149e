---------------------------- MODULE ReportsProofs ----------------------------
(***************************************************************************)
(* Proofs about the report files, for any scripts, agents, tasks and days. *)
(***************************************************************************)
EXTENDS Reports, FiniteSetTheorems, SequenceTheorems, TLAPS

(* The reports that script s can have made of the first n tasks. *)
Made(s, n) ==
  [task : {TaskFiles[i].id : i \in {i \in DOMAIN TaskFiles : i < n}},
   agent : {agent[s]}, date : 1..Days, outcomes : {o \in UNION
     {Observed[TaskFiles[i].id][agent[s]] :
        i \in {i \in DOMAIN TaskFiles : TaskFiles[i].kind = "synthetic"}} : IsCount(o)}]

(* A script goes through its tasks in order, one report each. *)
ScriptInv(s) ==
  /\ nextTask[s] \in 1..(Len(TaskFiles) + 1)
  /\ reports[s] \in Seq(Made(s, nextTask[s])) /\ Len(reports[s]) < nextTask[s]
  /\ step[s] = "write" =>
       /\ nextTask[s] \in DOMAIN TaskFiles
       /\ report[s] \in Made(s, nextTask[s] + 1)
       /\ report[s].task = TaskFiles[nextTask[s]].id

ScriptsInv ==
  /\ date \in 1..Days
  /\ agent \in Assignments
  /\ step \in [Scripts -> {"loop", "write", "done"}] /\ DOMAIN nextTask = Scripts
  /\ DOMAIN report = Scripts /\ DOMAIN reports = Scripts
  /\ \A s \in Scripts : ScriptInv(s)

IsEvidence(content) == content \in Unreadable \/ IsCount(content.outcomes)

(* What is on disk is evidence, or cannot be read. *)
FilesInv ==
  /\ \A path \in DOMAIN files : IsEvidence(files[path])
  /\ DOMAIN versions \subseteq DOMAIN files

ReaderInv ==
  /\ reading \in {"idle", "reading", "done", "failed"}
  /\ unread \subseteq DOMAIN versions
  /\ \A v \in DOMAIN posterior : posterior[v] \in (Nat \ {0}) \X (Nat \ {0})

(* What a script without a rival has finished is on disk. *)
DiskInv ==
  \A s \in Scripts :
    (\A other \in Scripts \ {s} : agent[other] # agent[s]) =>
      \A i \in DOMAIN reports[s] :
        /\ FileOf(reports[s][i]) \in DOMAIN files
        /\ files[FileOf(reports[s][i])] = reports[s][i]

IInv == ScriptsInv /\ FilesInv /\ ReaderInv /\ DiskInv

-----------------------------------------------------------------------------
(* Finite sets and sums over them.  Induction takes an operator as a       *)
(* parameter; that among finite sets there is a smallest one does not: the *)
(* smallest counterexample to a claim.                                     *)

(* Among finite sets there is a smallest one. *)
LEMMA SmallestSet ==
  ASSUME NEW S, IsFiniteSet(S), NEW T, T \subseteq SUBSET S, T # {}
  PROVE  \E s \in T : \A t \in T : t \subseteq s => t = s
<1> DEFINE R == StrictSubsetOrdering(S)
<1>1. IsWellFoundedOn(R, SUBSET S)
  BY FS_StrictSubsetOrderingWellFounded, FS_FiniteSubsetsOfFinite
<1>2. PICK s \in T : \A t \in T : <<t, s>> \notin R
  <2> HIDE DEF R
  <2> QED
    BY <1>1, WFMin
<1>3. ASSUME NEW t \in T, t \subseteq s PROVE t = s
  <2>1. <<t, s>> \in (SUBSET S) \X (SUBSET S)
    OBVIOUS
  <2> QED
    BY <1>2, <1>3, <2>1 DEF StrictSubsetOrdering
<1> QED
  BY <1>3

First(s) == CHOOSE x \in s : TRUE

LEMMA FirstProperties ==
  ASSUME NEW s, s # {}
  PROVE  First(s) \in s /\ s \ {First(s)} # s /\ s \ {First(s)} \subseteq s
BY DEF First

(* The equation that defines the sums over the subsets of S. *)
Sums(g, n, S) ==
  g = [s \in SUBSET S |-> IF s = {} THEN 0
                          ELSE n[CHOOSE x \in s : TRUE] + g[s \ {CHOOSE x \in s : TRUE}]]

LEMMA SumsStep ==
  ASSUME NEW g, NEW n, NEW S, Sums(g, n, S), NEW s \in SUBSET S
  PROVE  g[s] = IF s = {} THEN 0 ELSE n[First(s)] + g[s \ {First(s)}]
<1>1. g[s] = IF s = {} THEN 0
             ELSE n[CHOOSE x \in s : TRUE] + g[s \ {CHOOSE x \in s : TRUE}]
  BY DEF Sums
<1> QED
  BY <1>1 DEF First

(* Two solutions agree where both are defined. *)
LEMMA SumsAgree ==
  ASSUME NEW S, IsFiniteSet(S), NEW n, NEW g, Sums(g, n, S),
         NEW T \in SUBSET S, NEW h, Sums(h, n, T)
  PROVE  \A s \in SUBSET T : g[s] = h[s]
<1> DEFINE Bad == {s \in SUBSET T : g[s] # h[s]}
<1> SUFFICES ASSUME Bad # {} PROVE FALSE
  OBVIOUS
<1>1. PICK s \in Bad : \A t \in Bad : t \subseteq s => t = s
  <2>1. Bad \subseteq SUBSET S
    OBVIOUS
  <2> HIDE DEF Bad
  <2> QED
    BY <2>1, SmallestSet
<1>2. /\ g[s] = IF s = {} THEN 0 ELSE n[First(s)] + g[s \ {First(s)}]
      /\ h[s] = IF s = {} THEN 0 ELSE n[First(s)] + h[s \ {First(s)}]
  BY <1>1, SumsStep
<1>3. CASE s = {}
  BY <1>1, <1>2, <1>3
<1>4. CASE s # {}
  <2>1. s \ {First(s)} # s /\ s \ {First(s)} \subseteq s
    BY <1>4, FirstProperties
  <2>2. s \ {First(s)} \notin Bad /\ s \ {First(s)} \in SUBSET T
    BY <1>1, <2>1
  <2>3. g[s \ {First(s)}] = h[s \ {First(s)}]
    BY <2>2
  <2> QED
    BY <1>1, <1>2, <1>4, <2>3
<1> QED
  BY <1>3, <1>4

(* There is a solution: no smallest set is without one. *)
LEMMA SumsExist ==
  ASSUME NEW S, IsFiniteSet(S), NEW n
  PROVE  \E g : Sums(g, n, S)
<1> DEFINE Bad == {s \in SUBSET S : ~ \E g : Sums(g, n, s)}
<1> SUFFICES ASSUME Bad # {} PROVE FALSE
  <2>1. S \in SUBSET S
    OBVIOUS
  <2> QED
    BY <2>1
<1>1. PICK s \in Bad : \A t \in Bad : t \subseteq s => t = s
  <2>1. Bad \subseteq SUBSET S
    OBVIOUS
  <2> HIDE DEF Bad
  <2> QED
    BY <2>1, SmallestSet
<1> DEFINE G(t) == CHOOSE g : Sums(g, n, t)
           h == [t \in SUBSET s |->
                   IF t = {} THEN 0 ELSE n[First(t)] + G(t \ {First(t)})[t \ {First(t)}]]
<1>2. \A t \in SUBSET s : t # s => Sums(G(t), n, t)
  <2> SUFFICES ASSUME NEW t \in SUBSET s, t # s PROVE Sums(G(t), n, t)
    OBVIOUS
  <2>1. \E g : Sums(g, n, t)
    BY <1>1
  <2> QED
    BY <2>1
<1> HIDE DEF G
<1>3. ASSUME NEW t \in SUBSET s, t # s PROVE h[t] = G(t)[t]
  <2>1. Sums(G(t), n, t) /\ t \in SUBSET t /\ IsFiniteSet(t)
    BY <1>2, <1>3, <1>1, FS_Subset
  <2>2. G(t)[t] = IF t = {} THEN 0 ELSE n[First(t)] + G(t)[t \ {First(t)}]
    BY <2>1, SumsStep
  <2>3. CASE t # {}
    <3> DEFINE u == t \ {First(t)}
    <3>1. u \in SUBSET t /\ u # t
      BY <2>3, FirstProperties
    <3>2. u \in SUBSET s /\ u # s
      BY <3>1
    <3>3. Sums(G(u), n, u) /\ u \in SUBSET u
      BY <3>2, <1>2
    <3> HIDE DEF u
    <3>4. G(t)[u] = G(u)[u]
      BY <2>1, <3>1, <3>3, SumsAgree
    <3> QED
      BY <2>2, <2>3, <3>4 DEF u
  <2> QED
    BY <2>2, <2>3
<1>4. \A t \in SUBSET s :
        h[t] = IF t = {} THEN 0 ELSE n[First(t)] + h[t \ {First(t)}]
  <2> SUFFICES ASSUME NEW t \in SUBSET s, t # {}
               PROVE  h[t] = n[First(t)] + h[t \ {First(t)}]
    OBVIOUS
  <2>1. t \ {First(t)} \in SUBSET s /\ t \ {First(t)} # s
    BY FirstProperties
  <2>2. h[t \ {First(t)}] = G(t \ {First(t)})[t \ {First(t)}]
    BY <1>3, <2>1
  <2> QED
    BY <2>2
<1>5. h = [t \in SUBSET s |-> h[t]]
  OBVIOUS
<1> HIDE DEF h
<1>6. Sums(h, n, s)
  BY <1>4, <1>5 DEF Sums, First
<1> QED
  BY <1>1, <1>6

LEMMA SumStep ==
  ASSUME NEW S, IsFiniteSet(S), NEW n
  PROVE  SumFunctionOnSet(n, S) =
           IF S = {} THEN 0 ELSE n[First(S)] + SumFunctionOnSet(n, S \ {First(S)})
<1> DEFINE G(t) == CHOOSE g : Sums(g, n, t)
<1>1. \A t : IsFiniteSet(t) => Sums(G(t), n, t)
  BY SumsExist
<1>2. \A t : SumFunctionOnSet(n, t) = G(t)[t]
  BY DEF SumFunctionOnSet, FoldFunctionOnSet, MapThenFoldSet, Sums
<1> HIDE DEF G
<1>3. G(S)[S] = IF S = {} THEN 0 ELSE n[First(S)] + G(S)[S \ {First(S)}]
  BY <1>1, SumsStep
<1>4. CASE S # {}
  <2> DEFINE u == S \ {First(S)}
  <2>1. u \in SUBSET S /\ u \in SUBSET u /\ IsFiniteSet(u)
    BY FS_Subset
  <2> HIDE DEF u
  <2>2. G(S)[u] = G(u)[u]
    BY <1>1, <2>1, SumsAgree
  <2> QED
    BY <1>2, <1>3, <2>2 DEF u
<1> QED
  BY <1>2, <1>3, <1>4

LEMMA SumIsANumber ==
  ASSUME NEW S, IsFiniteSet(S), NEW n, \A x \in S : n[x] \in Nat
  PROVE  SumFunctionOnSet(n, S) \in Nat
<1> DEFINE Bad == {s \in SUBSET S : SumFunctionOnSet(n, s) \notin Nat}
<1> SUFFICES ASSUME Bad # {} PROVE FALSE
  OBVIOUS
<1>1. PICK s \in Bad : \A t \in Bad : t \subseteq s => t = s
  <2>1. Bad \subseteq SUBSET S
    OBVIOUS
  <2> HIDE DEF Bad
  <2> QED
    BY <2>1, SmallestSet
<1>2. IsFiniteSet(s)
  BY <1>1, FS_Subset
<1>3. CASE s = {}
  <2>1. SumFunctionOnSet(n, s) = 0
    BY <1>2, <1>3, SumStep
  <2> QED
    BY <1>1, <2>1
<1>4. CASE s # {}
  <2>1. First(s) \in s /\ s \ {First(s)} # s /\ s \ {First(s)} \subseteq s
    BY <1>4, FirstProperties
  <2>2. SumFunctionOnSet(n, s \ {First(s)}) \in Nat
    BY <1>1, <2>1
  <2>3. SumFunctionOnSet(n, s) = n[First(s)] + SumFunctionOnSet(n, s \ {First(s)})
    BY <1>2, <1>4, SumStep
  <2> QED
    BY <1>1, <2>1, <2>2, <2>3
<1> QED
  BY <1>3, <1>4

(* The order in which a sum takes its terms does not matter. *)
LEMMA SumRemove ==
  ASSUME NEW S, IsFiniteSet(S), NEW n, \A x \in S : n[x] \in Nat, NEW x \in S
  PROVE  SumFunctionOnSet(n, S) = n[x] + SumFunctionOnSet(n, S \ {x})
<1> DEFINE Sum(s) == SumFunctionOnSet(n, s)
           Bad == {s \in SUBSET S : \E y \in s : Sum(s) # n[y] + Sum(s \ {y})}
<1>1. ASSUME NEW s \in SUBSET S
      PROVE  Sum(s) \in Nat /\ (s # {} => Sum(s) = n[First(s)] + Sum(s \ {First(s)}))
  BY FS_Subset, SumIsANumber, SumStep
<1> HIDE DEF Sum
<1> SUFFICES ASSUME Bad # {} PROVE FALSE
  <2>1. S \notin Bad => Sum(S) = n[x] + Sum(S \ {x})
    OBVIOUS
  <2> QED
    BY <2>1 DEF Sum
<1>2. PICK s \in Bad : \A t \in Bad : t \subseteq s => t = s
  <2>1. Bad \subseteq SUBSET S
    OBVIOUS
  <2> HIDE DEF Bad
  <2> QED
    BY <2>1, SmallestSet
<1>3. PICK y \in s : Sum(s) # n[y] + Sum(s \ {y})
  BY <1>2
<1> DEFINE c == First(s)
<1>4. c \in s /\ Sum(s) = n[c] + Sum(s \ {c}) /\ c # y
  BY <1>1, <1>2, <1>3, FirstProperties
<1> HIDE DEF c
<1>5. /\ s \ {c} \in SUBSET S /\ s \ {c} \notin Bad /\ y \in s \ {c}
      /\ s \ {y} \in SUBSET S /\ s \ {y} \notin Bad /\ c \in s \ {y}
  BY <1>2, <1>3, <1>4
<1>6. /\ Sum(s \ {c}) = n[y] + Sum((s \ {c}) \ {y})
      /\ Sum(s \ {y}) = n[c] + Sum((s \ {y}) \ {c})
  BY <1>5
<1>7. (s \ {c}) \ {y} = (s \ {y}) \ {c} /\ (s \ {y}) \ {c} \in SUBSET S
  BY <1>2
<1>8. n[y] \in Nat /\ n[c] \in Nat /\ Sum((s \ {y}) \ {c}) \in Nat
  BY <1>1, <1>2, <1>3, <1>4, <1>7
<1> HIDE DEF Bad
<1>9. Sum(s) = n[c] + (n[y] + Sum((s \ {y}) \ {c}))
  BY <1>4, <1>6, <1>7
<1>10. n[y] + Sum(s \ {y}) = n[y] + (n[c] + Sum((s \ {y}) \ {c}))
  BY <1>6
<1> QED
  BY <1>3, <1>8, <1>9, <1>10

(* A sum of smaller terms is smaller. *)
LEMMA SumGrows ==
  ASSUME NEW S, IsFiniteSet(S), NEW m, NEW n,
         \A x \in S : m[x] \in Nat /\ n[x] \in Nat /\ m[x] <= n[x]
  PROVE  SumFunctionOnSet(m, S) <= SumFunctionOnSet(n, S)
<1> DEFINE SumM(s) == SumFunctionOnSet(m, s)
           SumN(s) == SumFunctionOnSet(n, s)
           Bad == {s \in SUBSET S : ~(SumM(s) <= SumN(s))}
<1>1. ASSUME NEW s \in SUBSET S
      PROVE  /\ SumM(s) \in Nat /\ SumN(s) \in Nat
             /\ SumM(s) = IF s = {} THEN 0 ELSE m[First(s)] + SumM(s \ {First(s)})
             /\ SumN(s) = IF s = {} THEN 0 ELSE n[First(s)] + SumN(s \ {First(s)})
  <2>1. IsFiniteSet(s) /\ \A x \in s : m[x] \in Nat /\ n[x] \in Nat
    BY FS_Subset
  <2> QED
    BY <2>1, SumIsANumber, SumStep
<1> HIDE DEF SumM, SumN
<1> SUFFICES ASSUME Bad # {} PROVE FALSE
  <2>1. S \notin Bad => SumM(S) <= SumN(S)
    OBVIOUS
  <2> QED
    BY <2>1 DEF SumM, SumN
<1>2. PICK s \in Bad : \A t \in Bad : t \subseteq s => t = s
  <2>1. Bad \subseteq SUBSET S
    OBVIOUS
  <2> HIDE DEF Bad
  <2> QED
    BY <2>1, SmallestSet
<1>3. CASE s = {}
  <2>1. SumM(s) = 0 /\ SumN(s) = 0
    BY <1>1, <1>2, <1>3
  <2> QED
    BY <1>2, <2>1
<1>4. CASE s # {}
  <2> DEFINE u == s \ {First(s)}
  <2>1. First(s) \in s /\ u \in SUBSET S /\ u \notin Bad
    BY <1>2, <1>4, FirstProperties
  <2>2. /\ SumM(s) = m[First(s)] + SumM(u) /\ SumN(s) = n[First(s)] + SumN(u)
        /\ m[First(s)] \in Nat /\ n[First(s)] \in Nat /\ m[First(s)] <= n[First(s)]
    BY <1>1, <1>2, <1>4, <2>1
  <2>3. SumM(u) <= SumN(u) /\ SumM(u) \in Nat /\ SumN(u) \in Nat
    BY <1>1, <2>1
  <2> HIDE DEF u
  <2> QED
    BY <1>2, <2>2, <2>3
<1> QED
  BY <1>3, <1>4

LEMMA SumOfEquals ==
  ASSUME NEW S, IsFiniteSet(S), NEW m, NEW n,
         \A x \in S : m[x] \in Nat /\ n[x] = m[x]
  PROVE  SumFunctionOnSet(m, S) = SumFunctionOnSet(n, S)
<1>1. /\ SumFunctionOnSet(m, S) \in Nat /\ SumFunctionOnSet(n, S) \in Nat
  BY SumIsANumber
<1>2. SumFunctionOnSet(m, S) <= SumFunctionOnSet(n, S)
  BY SumGrows
<1>3. SumFunctionOnSet(n, S) <= SumFunctionOnSet(m, S)
  BY SumGrows
<1> QED
  BY <1>1, <1>2, <1>3

LEMMA SumOfZeros ==
  ASSUME NEW S, IsFiniteSet(S), NEW n, \A x \in S : n[x] = 0
  PROVE  SumFunctionOnSet(n, S) = 0
<1> DEFINE Bad == {s \in SUBSET S : SumFunctionOnSet(n, s) # 0}
<1> SUFFICES ASSUME Bad # {} PROVE FALSE
  OBVIOUS
<1>1. PICK s \in Bad : \A t \in Bad : t \subseteq s => t = s
  <2>1. Bad \subseteq SUBSET S
    OBVIOUS
  <2> HIDE DEF Bad
  <2> QED
    BY <2>1, SmallestSet
<1>2. IsFiniteSet(s)
  BY <1>1, FS_Subset
<1>3. CASE s = {}
  <2>1. SumFunctionOnSet(n, s) = 0
    BY <1>2, <1>3, SumStep
  <2> QED
    BY <1>1, <2>1
<1>4. CASE s # {}
  <2>1. First(s) \in s /\ s \ {First(s)} # s /\ s \ {First(s)} \subseteq s
    BY <1>4, FirstProperties
  <2>2. SumFunctionOnSet(n, s \ {First(s)}) = 0
    BY <1>1, <2>1
  <2>3. SumFunctionOnSet(n, s) = n[First(s)] + SumFunctionOnSet(n, s \ {First(s)})
    BY <1>2, <1>4, SumStep
  <2> QED
    BY <1>1, <2>1, <2>2, <2>3
<1> QED
  BY <1>3, <1>4

Bounded(s) == \E l, m \in s : \A x \in s : l <= x /\ x <= m

LEMMA BoundedWithOneMore ==
  ASSUME NEW s, s \subseteq Nat, NEW y \in s, s \ {y} # {} => Bounded(s \ {y})
  PROVE  Bounded(s)
<1>1. CASE s \ {y} = {}
  <2>1. \A x \in s : x = y /\ y \in Nat
    BY <1>1
  <2> QED
    BY <2>1 DEF Bounded
<1>2. CASE s \ {y} # {}
  <2>1. PICK l, m \in s \ {y} : \A x \in s \ {y} : l <= x /\ x <= m
    BY <1>2 DEF Bounded
  <2>2. l \in Nat /\ m \in Nat /\ y \in Nat /\ l \in s /\ m \in s /\ y \in s
    OBVIOUS
  <2>3. \A x \in s : x \in Nat /\ (x = y \/ (l <= x /\ x <= m))
    BY <2>1
  <2>4. CASE l <= y /\ y <= m
    BY <2>2, <2>3, <2>4 DEF Bounded
  <2>5. CASE ~(l <= y)
    <3>1. \A x \in s : y <= x /\ x <= m
      BY <2>1, <2>2, <2>3, <2>5
    <3> QED
      BY <2>2, <3>1 DEF Bounded
  <2>6. CASE ~(y <= m)
    <3>1. \A x \in s : l <= x /\ x <= y
      BY <2>1, <2>2, <2>3, <2>6
    <3> QED
      BY <2>2, <3>1 DEF Bounded
  <2> QED
    BY <2>4, <2>5, <2>6
<1> QED
  BY <1>1, <1>2

(* A finite set of numbers has a least and a greatest one. *)
LEMMA MinMax ==
  ASSUME NEW S, IsFiniteSet(S), S \subseteq Nat, S # {}
  PROVE  /\ Min(S) \in S /\ \A x \in S : Min(S) <= x
         /\ Max(S) \in S /\ \A x \in S : x <= Max(S)
<1> DEFINE Bad == {s \in SUBSET S : s # {} /\ ~Bounded(s)}
<1>1. Bad = {}
  <2> SUFFICES ASSUME Bad # {} PROVE FALSE
    OBVIOUS
  <2>1. PICK s \in Bad : \A t \in Bad : t \subseteq s => t = s
    <3>1. Bad \subseteq SUBSET S /\ Bad # {} /\ IsFiniteSet(S)
      OBVIOUS
    <3> HIDE DEF Bad
    <3> QED
      BY ONLY <3>1, SmallestSet
  <2>2. PICK y \in s : TRUE
    BY <2>1
  <2>3. s \ {y} \in SUBSET S /\ s \ {y} # s /\ s \ {y} \notin Bad
    BY <2>1, <2>2
  <2> QED
    BY <2>1, <2>2, <2>3, BoundedWithOneMore
<1>2. PICK l, m \in S : \A x \in S : l <= x /\ x <= m
  BY <1>1 DEF Bounded
<1>3. Min(S) \in S /\ \A x \in S : Min(S) <= x
  BY <1>2 DEF Min
<1>4. \E y \in S : \A x \in S : y >= x
  BY <1>2
<1>5. Max(S) \in S /\ \A x \in S : Max(S) >= x
  BY <1>4 DEF Max
<1>6. \A x \in S : x <= Max(S)
  BY <1>5
<1> QED
  BY <1>3, <1>5, <1>6

-----------------------------------------------------------------------------
(* A report of one task is no report of another *)

LEMMA MadeProperties ==
  ASSUME NEW s, NEW n \in Nat, NEW r \in Made(s, n)
  PROVE  /\ r.agent = agent[s] /\ r.date \in 1..Days /\ IsCount(r.outcomes)
         /\ \E i \in DOMAIN TaskFiles : i < n /\ r.task = TaskFiles[i].id
         /\ Made(s, n) \subseteq Made(s, n + 1)
<1>1. r.task \in {TaskFiles[i].id : i \in {i \in DOMAIN TaskFiles : i < n}}
  BY DEF Made
<1>2. {TaskFiles[i].id : i \in {i \in DOMAIN TaskFiles : i < n}}
        \subseteq {TaskFiles[i].id : i \in {i \in DOMAIN TaskFiles : i < n + 1}}
  BY ReportsAssumption
<1> QED
  BY <1>1, <1>2 DEF Made

(* The file of the task a script is at is none of its earlier ones, and    *)
(* none of another agent's.                                                *)
LEMMA FilesAreDistinct ==
  ASSUME ScriptsInv, NEW s \in Scripts, NEW r, r.agent = agent[s],
         nextTask[s] \in DOMAIN TaskFiles, r.task = TaskFiles[nextTask[s]].id,
         NEW other \in Scripts, other = s \/ agent[other] # agent[s],
         NEW i \in DOMAIN reports[other]
  PROVE  FileOf(reports[other][i]) # FileOf(r)
<1> DEFINE e == reports[other][i]
<1>1. /\ e \in Made(other, nextTask[other]) /\ nextTask[other] \in Nat
  BY ElementOfSeq, LenProperties, ReportsAssumption DEF ScriptsInv, ScriptInv
<1> HIDE DEF e
<1>2. e.agent = agent[other]
      /\ \E j \in DOMAIN TaskFiles : j < nextTask[other] /\ e.task = TaskFiles[j].id
  BY <1>1, MadeProperties
<1>3. CASE agent[other] # agent[s]
  BY <1>2, <1>3 DEF FileOf, e
<1>4. CASE other = s
  <2>1. PICK j \in DOMAIN TaskFiles : j < nextTask[s] /\ e.task = TaskFiles[j].id
    BY <1>2, <1>4
  <2>2. e.task # r.task
    BY <2>1, ReportsAssumption
  <2> QED
    BY <2>2 DEF FileOf, e
<1> QED
  BY <1>3, <1>4

-----------------------------------------------------------------------------
(* The scripts *)

LEMMA ScriptKeeps ==
  ASSUME NEW s, ScriptInv(s), UNCHANGED agent, step'[s] = step[s],
         nextTask'[s] = nextTask[s], report'[s] = report[s], reports'[s] = reports[s]
  PROVE  ScriptInv(s)'
BY DEF ScriptInv, Made

(* The invariants of the scripts, from that of the one that steps. *)
LEMMA OneScriptSteps ==
  ASSUME ScriptsInv, NEW s \in Scripts, UNCHANGED <<agent, date>>,
         \A t \in Scripts \ {s} :
           /\ step'[t] = step[t] /\ nextTask'[t] = nextTask[t]
           /\ report'[t] = report[t] /\ reports'[t] = reports[t],
         step' \in [Scripts -> {"loop", "write", "done"}], DOMAIN nextTask' = Scripts,
         DOMAIN report' = Scripts, DOMAIN reports' = Scripts,
         ScriptInv(s)'
  PROVE  ScriptsInv'
<1>1. ASSUME NEW t \in Scripts PROVE ScriptInv(t)'
  BY ScriptKeeps DEF ScriptsInv
<1> QED
  BY <1>1 DEF ScriptsInv

LEMMA PutProperties ==
  ASSUME NEW path, NEW content, Put(path, content)
  PROVE  /\ DOMAIN files' = DOMAIN files \cup {path}
         /\ files'[path] = content
         /\ \A p \in DOMAIN files : p # path => files'[p] = files[p]
         /\ DOMAIN versions' = DOMAIN versions
BY DEF Put

LEMMA PutKeepsFiles ==
  ASSUME FilesInv, NEW path, NEW content, IsEvidence(content), Put(path, content)
  PROVE  FilesInv'
<1>1. /\ DOMAIN files' = DOMAIN files \cup {path} /\ files'[path] = content
      /\ \A p \in DOMAIN files : p # path => files'[p] = files[p]
      /\ DOMAIN versions' = DOMAIN versions
  BY PutProperties
<1>2. ASSUME NEW p \in DOMAIN files' PROVE IsEvidence(files'[p])
  BY <1>1 DEF FilesInv, IsEvidence
<1>3. (\A p \in DOMAIN files : IsEvidence(files[p]))'
  BY <1>2 DEF IsEvidence, IsCount, Unreadable
<1>4. DOMAIN versions' \subseteq DOMAIN files'
  BY <1>1 DEF FilesInv
<1> QED
  BY <1>3, <1>4 DEF FilesInv

(* Where a finished report is, it stays, if the path that is written to is *)
(* not its own.                                                            *)
LEMMA PutKeepsReport ==
  ASSUME NEW path, NEW content, Put(path, content), NEW r,
         FileOf(r) \in DOMAIN files, files[FileOf(r)] = r, FileOf(r) # path
  PROVE  FileOf(r) \in DOMAIN files' /\ files'[FileOf(r)] = r
BY PutProperties

LEMMA QuietKeeps ==
  ASSUME FilesInv, ReaderInv, DiskInv, Quiet, UNCHANGED reports
  PROVE  FilesInv' /\ ReaderInv' /\ DiskInv'
BY DEF FilesInv, ReaderInv, DiskInv, Quiet, readerVars, IsEvidence, IsCount, FileOf

LEMMA MovesIInv ==
  ASSUME IInv, NEW s \in Scripts,
         ReturnEmpty(s) \/ SkipTask(s) \/ Finish(s) \/ Stop(s)
  PROVE  IInv'
<1>1. Quiet /\ UNCHANGED reports /\ UNCHANGED <<agent, date>>
  BY DEF ReturnEmpty, SkipTask, Finish, Stop, Quiet
<1>2. FilesInv' /\ ReaderInv' /\ DiskInv'
  BY <1>1, QuietKeeps DEF IInv
<1>3. /\ nextTask[s] \in 1..(Len(TaskFiles) + 1) /\ Len(reports[s]) < nextTask[s]
      /\ reports[s] \in Seq(Made(s, nextTask[s])) /\ Len(reports[s]) \in Nat
  BY LenProperties DEF IInv, ScriptsInv, ScriptInv
<1>4. CASE SkipTask(s)
  <2>1. /\ nextTask'[s] = nextTask[s] + 1 /\ step'[s] = "loop"
        /\ nextTask[s] \in 1..Len(TaskFiles) /\ UNCHANGED step
        /\ DOMAIN nextTask' = Scripts /\ UNCHANGED report
        /\ \A t \in Scripts \ {s} : nextTask'[t] = nextTask[t]
    BY <1>4, ReportsAssumption DEF SkipTask, IInv, ScriptsInv
  <2>2. Seq(Made(s, nextTask[s])) \subseteq Seq(Made(s, nextTask[s] + 1))
    BY <1>3, MadeProperties, SeqMonotonic
  <2>3. Made(s, nextTask[s] + 1) = Made(s, nextTask[s])'
    BY <1>1, <2>1 DEF Made
  <2>4. ScriptInv(s)'
    BY <1>1, <1>3, <2>1, <2>2, <2>3, ReportsAssumption DEF ScriptInv
  <2>5. ScriptsInv'
    BY <1>1, <2>1, <2>4, OneScriptSteps DEF IInv, ScriptsInv
  <2> QED
    BY <1>2, <2>5 DEF IInv
<1>5. CASE ReturnEmpty(s) \/ Finish(s) \/ Stop(s)
  <2>1. /\ step'[s] = "done" /\ UNCHANGED nextTask
        /\ step' \in [Scripts -> {"loop", "write", "done"}] /\ DOMAIN report' = Scripts
        /\ \A t \in Scripts \ {s} : step'[t] = step[t] /\ report'[t] = report[t]
    BY <1>5 DEF ReturnEmpty, Finish, Stop, Goto, IInv, ScriptsInv
  <2>2. ScriptInv(s)'
    BY <1>1, <1>3, <2>1 DEF ScriptInv, Made
  <2>3. ScriptsInv'
    BY <1>1, <2>1, <2>2, OneScriptSteps DEF IInv, ScriptsInv
  <2> QED
    BY <1>2, <2>3 DEF IInv
<1> QED
  BY <1>4, <1>5

(* run_eval has returned; the file of the report is empty for now. *)
LEMMA EvaluateIInv ==
  ASSUME IInv, NEW s \in Scripts, Evaluate(s)
  PROVE  IInv'
<1> DEFINE n == nextTask[s]
           r == report'[s]
<1>1. /\ n \in DOMAIN TaskFiles /\ n \in Nat /\ TaskFiles[n].kind = "synthetic"
      /\ UNCHANGED <<date, agent, nextTask, reports, reading, unread, posterior>>
      /\ Put(FileOf(r), Torn) /\ step' = [step EXCEPT ![s] = "write"]
      /\ step[s] = "loop"
  BY ReportsAssumption DEF Evaluate, Goto, readerVars
<1>2. PICK o \in Observed[TaskFiles[n].id][agent[s]] :
        report' = [report EXCEPT ![s] =
          [task |-> TaskFiles[n].id, agent |-> agent[s], date |-> date, outcomes |-> o]]
  BY DEF Evaluate
<1>3. r = [task |-> TaskFiles[n].id, agent |-> agent[s], date |-> date, outcomes |-> o]
  BY <1>2 DEF IInv, ScriptsInv
<1>4. IsCount(o) /\ date \in 1..Days
  BY <1>1, EvidenceAssumption DEF IInv, ScriptsInv
<1>5. r \in Made(s, n + 1)
  <2>1. n \in {i \in DOMAIN TaskFiles : i < n + 1}
    BY <1>1
  <2>2. o \in UNION {Observed[TaskFiles[i].id][agent[s]] :
                       i \in {i \in DOMAIN TaskFiles : TaskFiles[i].kind = "synthetic"}}
    BY <1>1
  <2> HIDE DEF n, r
  <2> QED
    BY <1>3, <1>4, <2>1, <2>2 DEF Made
<1>6. ScriptsInv'
  <2>1. ScriptInv(s)
    BY DEF IInv, ScriptsInv
  <2>2. step'[s] = "write" /\ r.task = TaskFiles[n].id
    BY <1>1, <1>3 DEF IInv, ScriptsInv
  <2>3. \A k : Made(s, k)' = Made(s, k)
    BY <1>1 DEF Made
  <2>4. ScriptInv(s)'
    BY <1>1, <1>5, <2>1, <2>2, <2>3 DEF ScriptInv
  <2> QED
    BY <1>1, <1>2, <2>4, OneScriptSteps DEF IInv, ScriptsInv
<1>7. FilesInv'
  <2>1. IsEvidence(Torn)
    BY DEF IsEvidence, Unreadable
  <2> QED
    BY <1>1, <2>1, PutKeepsFiles DEF IInv
<1>8. ReaderInv'
  BY <1>1, PutProperties DEF IInv, ReaderInv
<1>9. DiskInv'
  <2> SUFFICES ASSUME NEW t \in Scripts, \A other \in Scripts \ {t} : agent[other] # agent[t],
                      NEW i \in DOMAIN reports[t]
               PROVE  /\ FileOf(reports[t][i]) \in DOMAIN files'
                      /\ files'[FileOf(reports[t][i])] = reports[t][i]
    BY <1>1 DEF DiskInv, FileOf
  <2>1. FileOf(reports[t][i]) # FileOf(r)
    BY <1>1, <1>3, FilesAreDistinct DEF IInv
  <2>2. FileOf(reports[t][i]) \in DOMAIN files /\ files[FileOf(reports[t][i])] = reports[t][i]
    BY DEF IInv, DiskInv
  <2> QED
    BY <1>1, <2>1, <2>2, PutKeepsReport
<1> QED
  BY <1>6, <1>7, <1>8, <1>9 DEF IInv

(* The report is written, and is one of the reports of its script. *)
LEMMA WriteIInv ==
  ASSUME IInv, NEW s \in Scripts, Write(s)
  PROVE  IInv'
<1> DEFINE n == nextTask[s]
           r == report[s]
<1>1. /\ step[s] = "write"
      /\ UNCHANGED <<date, agent, reading, unread, posterior>>
      /\ Put(FileOf(r), r)
      /\ step' = [step EXCEPT ![s] = "loop"] /\ nextTask' = [nextTask EXCEPT ![s] = n + 1]
      /\ report' = [report EXCEPT ![s] = NoReport]
      /\ reports' = [reports EXCEPT ![s] = Append(reports[s], r)]
  BY DEF Write, Goto, readerVars
<1>2. /\ n \in 1..Len(TaskFiles) /\ n \in DOMAIN TaskFiles /\ r \in Made(s, n + 1)
      /\ r.task = TaskFiles[n].id
      /\ reports[s] \in Seq(Made(s, n)) /\ Len(reports[s]) < n /\ Len(reports[s]) \in Nat
  BY <1>1, ReportsAssumption, LenProperties DEF IInv, ScriptsInv, ScriptInv
<1>3. /\ step'[s] = "loop" /\ nextTask'[s] = n + 1 /\ reports'[s] = Append(reports[s], r)
  BY <1>1 DEF IInv, ScriptsInv
<1>4. r.agent = agent[s] /\ IsCount(r.outcomes)
  BY <1>2, MadeProperties
<1> HIDE DEF r, n
<1>5. /\ Append(reports[s], r) \in Seq(Made(s, n + 1))
      /\ Len(Append(reports[s], r)) = Len(reports[s]) + 1
      /\ Append(reports[s], r)[Len(reports[s]) + 1] = r
      /\ \A i \in 1..Len(reports[s]) : Append(reports[s], r)[i] = reports[s][i]
      /\ DOMAIN reports[s] = 1..Len(reports[s])
      /\ DOMAIN Append(reports[s], r) = 1..(Len(reports[s]) + 1)
  <2>1. n \in Nat
    BY <1>2, ReportsAssumption
  <2>2. reports[s] \in Seq(Made(s, n + 1))
    <3>1. CASE reports[s] = << >>
      BY <3>1
    <3>2. CASE reports[s] # << >>
      <4>1. PICK e \in Made(s, n) : TRUE
        BY <1>2, <3>2, ElementOfSeq, EmptySeq, LenProperties
      <4> QED
        BY <1>2, <2>1, <4>1, MadeProperties, SeqMonotonic
    <3> QED
      BY <3>1, <3>2
  <2> QED
    BY <1>2, <2>2, AppendProperties, LenProperties
<1>6. ScriptsInv'
  <2>1. \A k : Made(s, k)' = Made(s, k)
    BY <1>1 DEF Made
  <2>2. n + 1 \in 1..(Len(TaskFiles) + 1) /\ Len(reports'[s]) < n + 1
    BY <1>2, <1>3, <1>5, ReportsAssumption
  <2>3. ScriptInv(s)'
    BY <1>3, <1>5, <2>1, <2>2 DEF ScriptInv
  <2> QED
    BY <1>1, <2>3, OneScriptSteps DEF IInv, ScriptsInv
<1>7. FilesInv'
  <2>1. IsEvidence(r)
    BY <1>4 DEF IsEvidence
  <2> QED
    BY <1>1, <2>1, PutKeepsFiles DEF IInv
<1>8. ReaderInv'
  BY <1>1, PutProperties DEF IInv, ReaderInv
<1>9. DiskInv'
  <2> SUFFICES ASSUME NEW t \in Scripts, \A other \in Scripts \ {t} : agent[other] # agent[t],
                      NEW i \in DOMAIN reports'[t]
               PROVE  /\ FileOf(reports'[t][i]) \in DOMAIN files'
                      /\ files'[FileOf(reports'[t][i])] = reports'[t][i]
    BY <1>1 DEF DiskInv, FileOf
  <2>1. CASE t = s /\ i = Len(reports[s]) + 1
    <3>1. reports'[t][i] = r
      BY <1>3, <1>5, <2>1
    <3>2. Put(FileOf(r), r)
      BY <1>1
    <3>3. FileOf(r) \in DOMAIN files' /\ files'[FileOf(r)] = r
      BY <3>2, PutProperties
    <3> QED
      BY <3>1, <3>3
  <2>2. CASE ~(t = s /\ i = Len(reports[s]) + 1)
    <3>1. i \in DOMAIN reports[t] /\ reports'[t][i] = reports[t][i]
      BY <1>1, <1>2, <1>3, <1>5, <2>2 DEF IInv, ScriptsInv
    <3>2. FileOf(reports[t][i]) # FileOf(r)
      BY <1>2, <1>4, <3>1, FilesAreDistinct DEF IInv, n
    <3>3. FileOf(reports[t][i]) \in DOMAIN files /\ files[FileOf(reports[t][i])] = reports[t][i]
      BY <3>1 DEF IInv, DiskInv
    <3> QED
      BY <1>1, <3>1, <3>2, <3>3, PutKeepsReport
  <2> QED
    BY <2>1, <2>2
<1> QED
  BY <1>6, <1>7, <1>8, <1>9 DEF IInv

-----------------------------------------------------------------------------
(* The reliability report, and the calendar *)

LEMMA ScriptsKeep ==
  ASSUME ScriptsInv, UNCHANGED scriptVars, date' \in 1..Days
  PROVE  ScriptsInv'
BY ScriptKeeps DEF ScriptsInv, scriptVars

LEMMA DiskKeeps ==
  ASSUME DiskInv, UNCHANGED <<files, scriptVars>>
  PROVE  DiskInv'
BY DEF DiskInv, FileOf, scriptVars

(* A vendor's posterior stays one. *)
LEMMA UpdateProperties ==
  ASSUME ReaderInv, NEW outcomes, IsCount(outcomes), NEW v \in DOMAIN Update(outcomes)
  PROVE  Update(outcomes)[v] \in (Nat \ {0}) \X (Nat \ {0})
<1> DEFINE before == IF v \in DOMAIN posterior THEN posterior[v] ELSE Prior
<1>1. before \in (Nat \ {0}) \X (Nat \ {0})
  BY DEF ReaderInv, Prior
<1>2. /\ v \in DOMAIN posterior \cup DOMAIN outcomes
      /\ Update(outcomes)[v] =
           IF v \in DOMAIN outcomes
           THEN <<before[1] + outcomes[v].successes, before[2] + outcomes[v].failures>>
           ELSE before
  BY DEF Update
<1> HIDE DEF before
<1>3. CASE v \in DOMAIN outcomes
  <2>1. outcomes[v].successes \in Nat /\ outcomes[v].failures \in Nat
    BY <1>3 DEF IsCount
  <2>2. /\ before[1] + outcomes[v].successes \in Nat \ {0}
        /\ before[2] + outcomes[v].failures \in Nat \ {0}
    BY <1>1, <2>1
  <2> QED
    BY <1>2, <1>3, <2>2
<1>4. CASE v \notin DOMAIN outcomes
  BY <1>1, <1>2, <1>4
<1> QED
  BY <1>3, <1>4

LEMMA ReaderIInv ==
  ASSUME IInv, Midnight \/ Glob \/ ReaderStep \/ UNCHANGED vars
  PROVE  IInv'
<1>1. UNCHANGED <<files, scriptVars>> /\ date' \in 1..Days
  BY ReportsAssumption
  DEF Midnight, Glob, ReaderStep, Score, SkipFile, FoldFile, ReadFails, vars, IInv, ScriptsInv
<1>2. ScriptsInv' /\ DiskInv'
  BY <1>1, ScriptsKeep, DiskKeeps DEF IInv
<1>3. /\ DOMAIN versions' \subseteq DOMAIN files
      /\ reading' \in {"idle", "reading", "done", "failed"}
      /\ unread' \subseteq DOMAIN versions'
  BY DEF Midnight, Glob, ReaderStep, Score, SkipFile, FoldFile, ReadFails,
     vars, readerVars, IInv, FilesInv, ReaderInv
<1>4. FilesInv'
  BY <1>1, <1>3 DEF IInv, FilesInv, IsEvidence, IsCount
<1>5. \A v \in DOMAIN posterior' : posterior'[v] \in (Nat \ {0}) \X (Nat \ {0})
  <2>1. CASE UNCHANGED posterior
    BY <2>1 DEF IInv, ReaderInv
  <2>2. ASSUME NEW path \in unread, FoldFile(path)
        PROVE  \A v \in DOMAIN posterior' : posterior'[v] \in (Nat \ {0}) \X (Nat \ {0})
    <3>1. posterior' = Update(files[path].outcomes) /\ files[path] \notin Unreadable
      BY <2>2 DEF FoldFile
    <3>2. IsCount(files[path].outcomes)
      BY <3>1 DEF IInv, FilesInv, ReaderInv, IsEvidence
    <3> QED
      BY <3>1, <3>2, UpdateProperties DEF IInv
  <2> QED
    BY <2>1, <2>2 DEF Midnight, Glob, ReaderStep, Score, SkipFile, ReadFails, vars, readerVars
<1> QED
  BY <1>2, <1>3, <1>4, <1>5 DEF IInv, ReaderInv

-----------------------------------------------------------------------------
(* The invariant is inductive *)

LEMMA InitIInv == Init => IInv
<1> SUFFICES ASSUME Init PROVE IInv
  OBVIOUS
<1>1. ScriptsInv
  <2>1. ASSUME NEW s \in Scripts PROVE ScriptInv(s)
    <3>1. step[s] = "loop" /\ nextTask[s] = 1 /\ reports[s] = << >>
      BY DEF Init
    <3>2. << >> \in Seq(Made(s, 1)) /\ Len(<< >>) = 0
      BY EmptySeq
    <3> QED
      BY <3>1, <3>2, ReportsAssumption DEF ScriptInv
  <2> QED
    BY <2>1, ReportsAssumption DEF Init, ScriptsInv
<1>2. FilesInv
  BY EvidenceAssumption DEF Init, FilesInv, IsEvidence
<1>3. ReaderInv /\ DiskInv
  BY DEF Init, ReaderInv, DiskInv
<1> QED
  BY <1>1, <1>2, <1>3 DEF IInv

LEMMA NextIInv == IInv /\ [Next]_vars => IInv'
<1>1. ASSUME IInv, NEW s \in Scripts, ScriptStep(s) PROVE IInv'
  BY <1>1, MovesIInv, EvaluateIInv, WriteIInv DEF ScriptStep
<1>2. ASSUME IInv, Midnight \/ Glob \/ ReaderStep \/ UNCHANGED vars PROVE IInv'
  BY <1>2, ReaderIInv
<1> QED
  BY <1>1, <1>2 DEF Next

(* Every reachable state of the report files satisfies it. *)
THEOREM Invariance == Spec => []IInv
BY InitIInv, NextIInv, PTL DEF Spec

(* Every variable keeps its type: a posterior counts up from the prior. *)
THEOREM TypeCorrect == Spec => []TypeOK
<1>1. IInv => TypeOK
  BY DEF IInv, ScriptsInv, ScriptInv, ReaderInv, TypeOK
<1> QED
  BY <1>1, Invariance, PTL

(* A report that was paid for and finished is on disk: no script of        *)
(* another agent, no later task and no crash takes it away.                *)
THEOREM FinishedReportsStay == Spec => []EvidenceOnDisk
<1>1. IInv => EvidenceOnDisk
  BY DEF IInv, DiskInv, EvidenceOnDisk
<1> QED
  BY <1>1, Invariance, PTL

-----------------------------------------------------------------------------
(* The evidence the reader has counted *)

(* What is known of a listed file: the contents it has had, the present    *)
(* one among them while the reader reads.                                  *)
VersionsInv ==
  /\ IsFiniteSet(DOMAIN files)
  /\ \A path \in DOMAIN versions :
       /\ IsFiniteSet(versions[path])
       /\ \A content \in versions[path] : IsEvidence(content)
       /\ reading = "reading" => files[path] \in versions[path]
  /\ reading = "idle" => DOMAIN versions = {} /\ DOMAIN posterior = {}
  /\ reading = "done" => unread = {}

Observations(seen, v, kind) ==
  SumFunction([path \in DOMAIN seen |-> Holds(seen[path], v, kind)])

(* The posterior is the prior and what the files that were read held when  *)
(* they were.                                                              *)
Counted(seen) ==
  /\ DOMAIN seen = DOMAIN versions \ unread
  /\ \A path \in DOMAIN seen :
       /\ seen[path] \in versions[path]
       /\ seen[path] \notin Unreadable => DOMAIN seen[path].outcomes \subseteq DOMAIN posterior
  /\ \A v \in DOMAIN posterior :
       /\ posterior[v][1] = Prior[1] + Observations(seen, v, "successes")
       /\ posterior[v][2] = Prior[2] + Observations(seen, v, "failures")

ScoreInv == VersionsInv /\ \E seen : Counted(seen)

Kinds == {"successes", "failures"}

LEMMA HoldsANumber ==
  ASSUME NEW content, IsEvidence(content), NEW v, NEW kind \in Kinds
  PROVE  Holds(content, v, kind) \in Nat
BY DEF IsEvidence, IsCount, Holds, Lists, Kinds

(* Another file adds what it holds. *)
LEMMA ObservationsGrow ==
  ASSUME NEW seen, IsFiniteSet(DOMAIN seen), \A p \in DOMAIN seen : IsEvidence(seen[p]),
         NEW path, path \notin DOMAIN seen, NEW content, IsEvidence(content),
         NEW v, NEW kind \in Kinds,
         NEW more, DOMAIN more = DOMAIN seen \cup {path}, more[path] = content,
         \A p \in DOMAIN seen : more[p] = seen[p]
  PROVE  /\ Observations(seen, v, kind) \in Nat
         /\ Observations(more, v, kind) =
              Observations(seen, v, kind) + Holds(content, v, kind)
<1> DEFINE D == DOMAIN seen
           E == D \cup {path}
           m == [p \in D |-> Holds(seen[p], v, kind)]
           n == [p \in E |-> Holds(more[p], v, kind)]
<1>1. /\ Observations(seen, v, kind) = SumFunctionOnSet(m, D)
      /\ Observations(more, v, kind) = SumFunctionOnSet(n, E)
  <2>1. DOMAIN m = D /\ DOMAIN n = E /\ DOMAIN more = E
    OBVIOUS
  <2> QED
    BY <2>1 DEF Observations, SumFunction
<1>2. IsFiniteSet(D) /\ IsFiniteSet(E) /\ E \ {path} = D /\ path \in E
  BY FS_AddElement
<1>3. \A p \in D : m[p] \in Nat /\ n[p] = m[p]
  BY HoldsANumber
<1>4. n[path] = Holds(content, v, kind) /\ n[path] \in Nat
  BY HoldsANumber
<1>5. \A p \in E : n[p] \in Nat
  BY <1>3, <1>4
<1> HIDE DEF m, n, D, E
<1>6. SumFunctionOnSet(m, D) \in Nat
  BY <1>2, <1>3, SumIsANumber
<1>7. SumFunctionOnSet(n, E) = n[path] + SumFunctionOnSet(n, D)
  BY <1>2, <1>5, SumRemove
<1>8. SumFunctionOnSet(m, D) = SumFunctionOnSet(n, D)
  BY <1>2, <1>3, SumOfEquals
<1> QED
  BY <1>1, <1>4, <1>6, <1>7, <1>8

LEMMA NoObservations ==
  ASSUME NEW seen, IsFiniteSet(DOMAIN seen), NEW v, NEW kind,
         \A p \in DOMAIN seen : Holds(seen[p], v, kind) = 0
  PROVE  Observations(seen, v, kind) = 0
<1> DEFINE m == [p \in DOMAIN seen |-> Holds(seen[p], v, kind)]
<1>1. Observations(seen, v, kind) = SumFunctionOnSet(m, DOMAIN seen)
  BY DEF Observations, SumFunction
<1>2. \A p \in DOMAIN seen : m[p] = 0
  OBVIOUS
<1> HIDE DEF m
<1> QED
  BY <1>1, <1>2, SumOfZeros

(* The reader has read a file, or skipped it. *)
LEMMA SeenGrows ==
  ASSUME FilesInv, ReaderInv, VersionsInv, NEW seen, Counted(seen),
         NEW path \in unread, reading = "reading",
         unread' = unread \ {path}, UNCHANGED <<files, versions>>,
         \/ files[path] \in Unreadable /\ UNCHANGED posterior
         \/ files[path] \notin Unreadable /\ posterior' = Update(files[path].outcomes)
  PROVE  \E more : Counted(more)'
<1> DEFINE content == files[path]
           more == [p \in DOMAIN seen \cup {path} |-> IF p = path THEN content ELSE seen[p]]
<1>1. path \in DOMAIN versions /\ path \notin DOMAIN seen /\ content \in versions[path]
  BY DEF ReaderInv, VersionsInv, Counted
<1>2. IsEvidence(content) /\ \A p \in DOMAIN seen : IsEvidence(seen[p])
  BY <1>1 DEF VersionsInv, Counted
<1>3. IsFiniteSet(DOMAIN seen)
  <2>1. DOMAIN seen \in SUBSET (DOMAIN files)
    BY DEF Counted, FilesInv
  <2> QED
    BY <2>1, FS_Subset DEF VersionsInv
<1>4. /\ DOMAIN more = DOMAIN seen \cup {path} /\ more[path] = content
      /\ \A p \in DOMAIN seen : more[p] = seen[p]
  BY <1>1
<1> HIDE DEF content, more
<1>5. ASSUME NEW v, NEW kind \in Kinds
      PROVE  /\ Observations(seen, v, kind) \in Nat
             /\ Holds(content, v, kind) \in Nat
             /\ Observations(more, v, kind) =
                  Observations(seen, v, kind) + Holds(content, v, kind)
  BY <1>1, <1>2, <1>3, <1>4, ObservationsGrow, HoldsANumber
<1>6. DOMAIN more = DOMAIN versions' \ unread'
  BY <1>1, <1>4 DEF Counted
<1>7. DOMAIN posterior \subseteq DOMAIN posterior'
      /\ (content \notin Unreadable => DOMAIN content.outcomes \subseteq DOMAIN posterior')
  BY DEF content, Update
<1>8. \A p \in DOMAIN more :
        /\ more[p] \in versions'[p]
        /\ more[p] \notin Unreadable => DOMAIN more[p].outcomes \subseteq DOMAIN posterior'
  BY <1>1, <1>4, <1>7 DEF Counted
<1>9. ASSUME NEW v \in DOMAIN posterior'
      PROVE  /\ posterior'[v][1] = Prior[1] + Observations(more, v, "successes")
             /\ posterior'[v][2] = Prior[2] + Observations(more, v, "failures")
  <2> DEFINE before == IF v \in DOMAIN posterior THEN posterior[v] ELSE Prior
  <2>1. /\ before[1] = Prior[1] + Observations(seen, v, "successes")
        /\ before[2] = Prior[2] + Observations(seen, v, "failures")
    <3>1. CASE v \in DOMAIN posterior
      BY <3>1 DEF Counted
    <3>2. CASE v \notin DOMAIN posterior
      <4>1. \A p \in DOMAIN seen : \A kind \in Kinds : Holds(seen[p], v, kind) = 0
        BY <3>2 DEF Counted, Holds, Lists
      <4>2. \A kind \in Kinds : Observations(seen, v, kind) = 0
        BY <1>3, <4>1, NoObservations
      <4> QED
        BY <3>2, <4>2 DEF Kinds, Prior
    <3> QED
      BY <3>1, <3>2
  <2>2. /\ posterior'[v][1] = before[1] + Holds(content, v, "successes")
        /\ posterior'[v][2] = before[2] + Holds(content, v, "failures")
    <3>1. before[1] \in Nat /\ before[2] \in Nat
      BY DEF ReaderInv, Prior
    <3>2. CASE content \in Unreadable
      BY <3>1, <3>2 DEF content, Holds, Lists
    <3>3. CASE content \notin Unreadable
      <4>1. /\ v \in DOMAIN posterior \cup DOMAIN content.outcomes
            /\ posterior'[v] = IF v \in DOMAIN content.outcomes
                               THEN <<before[1] + content.outcomes[v].successes,
                                      before[2] + content.outcomes[v].failures>>
                               ELSE before
        BY <3>3 DEF content, Update
      <4> HIDE DEF before
      <4> QED
        BY <3>1, <3>3, <4>1 DEF Holds, Lists
    <3> QED
      BY <3>2, <3>3
  <2> HIDE DEF before
  <2>3. /\ Prior[1] \in Nat /\ Prior[2] \in Nat
        /\ "successes" \in Kinds /\ "failures" \in Kinds
    BY DEF Prior, Kinds
  <2> QED
    BY <1>5, <2>1, <2>2, <2>3
<1>10. PICK all : all = more
  OBVIOUS
<1>11. Counted(all)'
  <2>1. \A v, kind : Observations(all, v, kind)' = Observations(all, v, kind)
    BY DEF Observations, Holds, Lists, Unreadable
  <2> QED
    BY <1>6, <1>8, <1>9, <1>10, <2>1 DEF Counted, Prior, Unreadable
<1> QED
  BY <1>11

LEMMA PutKeepsEvidence ==
  ASSUME FilesInv, VersionsInv, NEW seen, Counted(seen), UNCHANGED readerVars,
         NEW path, NEW content, IsEvidence(content), Put(path, content)
  PROVE  VersionsInv' /\ Counted(seen)'
<1>1. DOMAIN files' = DOMAIN files \cup {path} /\ files'[path] = content
      /\ (\A p \in DOMAIN files : p # path => files'[p] = files[p])
      /\ DOMAIN versions' = DOMAIN versions
  BY PutProperties
<1>2. UNCHANGED <<reading, unread, posterior>>
  BY DEF readerVars
<1>3. IsFiniteSet(DOMAIN files')
  BY <1>1, FS_AddElement DEF VersionsInv
<1>4. ASSUME NEW p \in DOMAIN versions'
      PROVE  /\ IsFiniteSet(versions'[p]) /\ versions[p] \subseteq versions'[p]
             /\ \A c \in versions'[p] : c \in versions[p] \/ c = content
             /\ p = path /\ reading = "reading" => content \in versions'[p]
  <2>1. versions'[p] = versions[p] \cup
                         (IF p = path /\ reading = "reading" THEN {content} ELSE {})
    BY <1>1 DEF Put
  <2>2. IsFiniteSet(versions[p]) /\ IsFiniteSet(versions[p] \cup {content})
    BY <1>1, FS_AddElement DEF VersionsInv
  <2>3. versions'[p] = versions[p] \/ versions'[p] = versions[p] \cup {content}
    BY <2>1
  <2> QED
    BY <2>1, <2>2, <2>3
<1>5. ASSUME NEW p \in DOMAIN versions'
      PROVE  /\ IsFiniteSet(versions'[p])
             /\ \A c \in versions'[p] : IsEvidence(c)
             /\ reading = "reading" => files'[p] \in versions'[p]
  <2>1. p \in DOMAIN files
    BY <1>1 DEF FilesInv
  <2>2. \A c \in versions[p] : IsEvidence(c)
    BY <1>1 DEF VersionsInv
  <2>3. \A c \in versions'[p] : IsEvidence(c)
    BY <1>4, <2>2
  <2>4. reading = "reading" => files'[p] \in versions'[p]
    BY <1>1, <1>4, <2>1 DEF VersionsInv
  <2> QED
    BY <1>4, <2>3, <2>4
<1>6. \A c : IsEvidence(c)' = IsEvidence(c)
  BY DEF IsEvidence, IsCount, Unreadable
<1>7. VersionsInv'
  BY <1>1, <1>2, <1>3, <1>5, <1>6 DEF VersionsInv
<1>8. Counted(seen)'
  <2>1. \A v, kind : Observations(seen, v, kind)' = Observations(seen, v, kind)
    BY DEF Observations, Holds, Lists, Unreadable
  <2>2. \A p \in DOMAIN seen : p \in DOMAIN versions'
    BY <1>1 DEF Counted
  <2>3. \A p \in DOMAIN seen : seen[p] \in versions'[p]
    BY <1>4, <2>2 DEF Counted
  <2> QED
    BY <1>1, <1>2, <2>1, <2>3 DEF Counted, Prior, Unreadable
<1> QED
  BY <1>7, <1>8

LEMMA NothingReadOrWritten ==
  ASSUME VersionsInv, NEW seen, Counted(seen), UNCHANGED <<files, readerVars, versions>>
  PROVE  VersionsInv' /\ Counted(seen)'
<1>1. \A v, kind : Observations(seen, v, kind)' = Observations(seen, v, kind)
  BY DEF Observations, Holds, Lists, Unreadable
<1>2. Counted(seen)'
  BY <1>1 DEF Counted, Prior, Unreadable, readerVars
<1>3. VersionsInv'
  BY DEF VersionsInv, IsEvidence, IsCount, Unreadable, readerVars
<1> QED
  BY <1>2, <1>3

LEMMA ScriptKeepsScores ==
  ASSUME IInv, ScoreInv, NEW s \in Scripts, ScriptStep(s)
  PROVE  ScoreInv'
<1>1. PICK seen : Counted(seen)
  BY DEF ScoreInv
<1>2. CASE ReturnEmpty(s) \/ SkipTask(s) \/ Finish(s) \/ Stop(s)
  <2>1. UNCHANGED <<files, readerVars, versions>>
    BY <1>2 DEF ReturnEmpty, SkipTask, Finish, Stop, Quiet
  <2> QED
    BY <1>1, <2>1, NothingReadOrWritten DEF ScoreInv
<1>3. CASE Evaluate(s)
  <2>1. UNCHANGED readerVars /\ \E path : Put(path, Torn)
    BY <1>3 DEF Evaluate
  <2>2. IsEvidence(Torn)
    BY DEF IsEvidence, Unreadable
  <2> QED
    BY <1>1, <2>1, <2>2, PutKeepsEvidence DEF IInv, ScoreInv
<1>4. CASE Write(s)
  <2>1. /\ UNCHANGED readerVars /\ step[s] = "write"
        /\ \E path : Put(path, report[s])
    BY <1>4 DEF Write
  <2>2. report[s] \in Made(s, nextTask[s] + 1) /\ nextTask[s] + 1 \in Nat
    BY <2>1, ReportsAssumption DEF IInv, ScriptsInv, ScriptInv
  <2>3. IsEvidence(report[s])
    BY <2>2, MadeProperties DEF IsEvidence
  <2> QED
    BY <1>1, <2>1, <2>3, PutKeepsEvidence DEF IInv, ScoreInv
<1> QED
  BY <1>2, <1>3, <1>4 DEF ScriptStep

LEMMA ReaderKeepsScores ==
  ASSUME IInv, ScoreInv, Midnight \/ Glob \/ ReaderStep \/ UNCHANGED vars
  PROVE  ScoreInv'
<1>1. PICK seen : Counted(seen)
  BY DEF ScoreInv
<1>2. CASE Midnight \/ UNCHANGED vars
  <2>1. UNCHANGED <<files, readerVars, versions>>
    BY <1>2 DEF Midnight, vars
  <2> QED
    BY <1>1, <2>1, NothingReadOrWritten DEF ScoreInv
<1>3. CASE Glob
  <2>1. /\ reading' = "reading" /\ unread' = DOMAIN files /\ reading = "idle"
        /\ versions' = [path \in DOMAIN files |-> {files[path]}]
        /\ UNCHANGED <<files, posterior>>
    BY <1>3 DEF Glob
  <2>2. \A c : IsEvidence(c)' = IsEvidence(c)
    BY DEF IsEvidence, IsCount, Unreadable
  <2>3. \A path \in DOMAIN files :
          /\ versions'[path] = {files[path]}
          /\ IsFiniteSet(versions'[path]) /\ IsEvidence(files[path])
    BY <2>1, FS_Singleton DEF IInv, FilesInv
  <2>4. VersionsInv'
    BY <2>1, <2>2, <2>3 DEF ScoreInv, VersionsInv
  <2>5. DOMAIN posterior = {}
    BY <2>1 DEF ScoreInv, VersionsInv
  <2> DEFINE none == [path \in {} |-> Torn]
  <2>6. Counted(none)'
    BY <2>1, <2>5 DEF Counted
  <2> QED
    BY <2>4, <2>6 DEF ScoreInv
<1>4. CASE Score \/ \E path \in unread : ReadFails(path)
  <2>1. /\ \/ reading' = "done" /\ unread = {}
           \/ reading' = "failed"
        /\ reading = "reading"
        /\ UNCHANGED <<files, unread, posterior, versions>>
    BY <1>4 DEF Score, ReadFails, IsNext
  <2>2. VersionsInv'
    BY <2>1 DEF ScoreInv, VersionsInv, IsEvidence, IsCount, Unreadable
  <2>3. \A v, kind : Observations(seen, v, kind)' = Observations(seen, v, kind)
    BY DEF Observations, Holds, Lists, Unreadable
  <2>4. Counted(seen)'
    BY <1>1, <2>1, <2>3 DEF Counted, Prior, Unreadable
  <2> QED
    BY <2>2, <2>4 DEF ScoreInv
<1>5. ASSUME NEW path \in unread, SkipFile(path) \/ FoldFile(path)
      PROVE  ScoreInv'
  <2>1. /\ reading = "reading" /\ unread' = unread \ {path}
        /\ UNCHANGED <<files, versions, reading>>
        /\ \/ files[path] \in Unreadable /\ UNCHANGED posterior
           \/ files[path] \notin Unreadable /\ posterior' = Update(files[path].outcomes)
    BY <1>5 DEF SkipFile, FoldFile, IsNext
  <2>2. VersionsInv'
    BY <2>1 DEF ScoreInv, VersionsInv, IsEvidence, IsCount, Unreadable
  <2>3. \E more : Counted(more)'
    BY <1>1, <2>1, SeenGrows DEF IInv, ScoreInv
  <2> QED
    BY <2>2, <2>3 DEF ScoreInv
<1> QED
  BY <1>2, <1>3, <1>4, <1>5 DEF ReaderStep

LEMMA InitScores == Init => ScoreInv
<1> SUFFICES ASSUME Init PROVE ScoreInv
  OBVIOUS
<1>1. DOMAIN versions = {} /\ DOMAIN posterior = {} /\ reading = "idle" /\ unread = {}
  BY DEF Init
<1>2. VersionsInv
  BY <1>1, EvidenceAssumption DEF Init, VersionsInv
<1> DEFINE none == [path \in {} |-> Torn]
<1>3. Counted(none)
  BY <1>1 DEF Counted
<1> QED
  BY <1>2, <1>3 DEF ScoreInv

(* What a listed file held when it was read is between the least and the   *)
(* most that it has held.                                                  *)
LEMMA HeldProperties ==
  ASSUME VersionsInv, NEW path \in DOMAIN versions, NEW c \in versions[path],
         NEW v, NEW kind \in Kinds
  PROVE  /\ Min(Held(path, v, kind)) \in Nat /\ Max(Held(path, v, kind)) \in Nat
         /\ Holds(c, v, kind) \in Nat
         /\ Min(Held(path, v, kind)) <= Holds(c, v, kind)
         /\ Holds(c, v, kind) <= Max(Held(path, v, kind))
<1> DEFINE f == [d \in versions[path] |-> Holds(d, v, kind)]
<1>1. f \in Surjection(versions[path], Held(path, v, kind))
  BY DEF Surjection, Held
<1>2. IsFiniteSet(Held(path, v, kind))
  BY <1>1, FS_Surjection DEF VersionsInv
<1>3. Held(path, v, kind) \subseteq Nat /\ Holds(c, v, kind) \in Held(path, v, kind)
  BY HoldsANumber DEF Held, VersionsInv
<1> QED
  BY <1>2, <1>3, MinMax

LEMMA CountedIsWithin ==
  ASSUME FilesInv, VersionsInv, NEW seen, Counted(seen), unread = {}, NEW v, NEW kind \in Kinds
  PROVE  Observations(seen, v, kind) \in Nat /\ Within(Observations(seen, v, kind), v, kind)
<1> DEFINE D == DOMAIN versions
           l == [path \in D |-> Min(Held(path, v, kind))]
           n == [path \in D |-> Holds(seen[path], v, kind)]
           m == [path \in D |-> Max(Held(path, v, kind))]
<1>1. DOMAIN seen = D /\ IsFiniteSet(D)
  <2>1. D \in SUBSET (DOMAIN files)
    BY DEF FilesInv
  <2> QED
    BY <2>1, FS_Subset DEF Counted, VersionsInv
<1>2. \A path \in D : /\ l[path] \in Nat /\ n[path] \in Nat /\ m[path] \in Nat
                      /\ l[path] <= n[path] /\ n[path] <= m[path]
  BY <1>1, HeldProperties DEF Counted
<1>3. /\ Observations(seen, v, kind) = SumFunctionOnSet(n, D)
      /\ SumFunction(l) = SumFunctionOnSet(l, D)
      /\ SumFunction(m) = SumFunctionOnSet(m, D)
  <2>1. DOMAIN l = D /\ DOMAIN m = D /\ DOMAIN n = D
    OBVIOUS
  <2> QED
    BY <1>1, <2>1 DEF Observations, SumFunction
<1>4. Within(Observations(seen, v, kind), v, kind) <=>
        /\ Observations(seen, v, kind) >= SumFunction(l)
        /\ Observations(seen, v, kind) <= SumFunction(m)
  BY DEF Within
<1> HIDE DEF l, n, m, D
<1>5. /\ SumFunctionOnSet(l, D) <= SumFunctionOnSet(n, D)
      /\ SumFunctionOnSet(n, D) <= SumFunctionOnSet(m, D)
      /\ SumFunctionOnSet(l, D) \in Nat /\ SumFunctionOnSet(n, D) \in Nat
  BY <1>1, <1>2, SumGrows, SumIsANumber
<1> QED
  BY <1>3, <1>4, <1>5

(* When the reader is done, every score is the prior and what each file    *)
(* held at some moment since it was listed, each file counted once; and a  *)
(* file that could always be read is in the scores.                        *)
THEOREM ScoresCountTheEvidence == Spec => []ScoresAreWithinEvidence
<1>1. IInv /\ ScoreInv => ScoresAreWithinEvidence
  <2> SUFFICES ASSUME IInv, ScoreInv, reading = "done" PROVE ScoresAreWithinEvidence
    BY DEF ScoresAreWithinEvidence
  <2>1. PICK seen : Counted(seen)
    BY DEF ScoreInv
  <2>2. unread = {} /\ DOMAIN seen = DOMAIN versions
    BY <2>1 DEF ScoreInv, VersionsInv, Counted
  <2>3. ASSUME NEW v \in DOMAIN posterior
        PROVE  /\ Within(posterior[v][1] - Prior[1], v, "successes")
               /\ Within(posterior[v][2] - Prior[2], v, "failures")
    <3>1. \A kind \in Kinds : /\ Observations(seen, v, kind) \in Nat
                              /\ Within(Observations(seen, v, kind), v, kind)
      BY <2>1, <2>2, CountedIsWithin DEF IInv, ScoreInv
    <3>2. /\ posterior[v][1] = Prior[1] + Observations(seen, v, "successes")
          /\ posterior[v][2] = Prior[2] + Observations(seen, v, "failures")
      BY <2>1 DEF Counted
    <3>3. /\ Prior[1] \in Nat /\ Prior[2] \in Nat
          /\ "successes" \in Kinds /\ "failures" \in Kinds
      BY DEF Prior, Kinds
    <3>4. /\ posterior[v][1] - Prior[1] = Observations(seen, v, "successes")
          /\ posterior[v][2] - Prior[2] = Observations(seen, v, "failures")
      BY <3>1, <3>2, <3>3
    <3> QED
      BY <3>1, <3>3, <3>4
  <2>4. ASSUME NEW path \in DOMAIN versions, versions[path] \cap Unreadable = {}
        PROVE  \E c \in versions[path] : DOMAIN c.outcomes \subseteq DOMAIN posterior
    BY <2>1, <2>2, <2>4 DEF Counted
  <2> QED
    BY <2>3, <2>4 DEF ScoresAreWithinEvidence
<1>2. IInv /\ ScoreInv /\ [Next]_vars => IInv' /\ ScoreInv'
  <2>1. ASSUME IInv, ScoreInv, [Next]_vars PROVE ScoreInv'
    BY <2>1, ScriptKeepsScores, ReaderKeepsScores DEF Next
  <2> QED
    BY <2>1, NextIInv
<1>3. Init => IInv /\ ScoreInv
  BY InitIInv, InitScores
<1> QED
  BY <1>1, <1>2, <1>3, PTL DEF Spec
=============================================================================
