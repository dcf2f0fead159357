--------------------------- MODULE PurchaseLoopProofs ---------------------------
(***************************************************************************)
(* The purchase loop for any number of threads, texts, rules, purchases,   *)
(* requests and faults: the cache of the rules, the verdict of the policy, *)
(* and what is bought under it.                                            *)
(***************************************************************************)
EXTENDS PurchaseLoop, SharedLemmas

--------------------------------------------------------------------------------
(* The cache of the rules.  Requests may start at any time here; each step that  *)
(* the loop lets the repository take is one of these.                            *)

CacheNext ==
  \/ EditFile
  \/ \E thread \in Threads : StartLoad(thread) \/ LoadStep(thread) \/ EndLoad(thread)

CacheSpec == CacheInit /\ [][CacheNext]_cacheVars

\* Times come from the file, which does not go back.
TimesPast ==
  /\ cache.mtime <= file.mtime
  /\ \A thread \in Threads :
       load[thread].pc \in {"read", "set_mtime", "set_loaded"} =>
         load[thread].mtime <= file.mtime

\* A load with the time of the file has read what is in the file: an edit between its
\* look at the time and its reading has moved the file's time on.
LoadedIsCurrent ==
  \A thread \in Threads :
    /\ load[thread].pc \in {"set_mtime", "set_loaded"}
    /\ load[thread].mtime = file.mtime
    => load[thread].text = file.text

\* The inductive invariant.
CacheIInv ==
  /\ CacheTypeOK
  /\ TimesPast
  /\ LoadedIsCurrent
  /\ CachedRulesCurrent

--------------------------------------------------------------------------------
\* What a load holds at each of its steps.
LEMMA LoadType ==
  ASSUME CacheTypeOK, NEW thread \in Threads
  PROVE  /\ load[thread] \in Load
         /\ load[thread].pc = "read" => load[thread].mtime \in Times
         /\ load[thread].pc \in {"set_mtime", "set_loaded"} =>
              /\ load[thread].mtime \in Times
              /\ load[thread].text \in ValidTexts
              /\ load[thread] = [pc |-> load[thread].pc, mtime |-> load[thread].mtime,
                                 text |-> load[thread].text]
<1>1. load[thread] \in Load
  BY DEF CacheTypeOK
<1>2. CASE load[thread].pc = "read"
  <2>1. load[thread] \in [pc: {"read"}, mtime: Times]
    BY <1>1, <1>2 DEF Load, Idle
  <2> QED
    BY <1>1, <1>2, <2>1
<1>3. CASE load[thread].pc \in {"set_mtime", "set_loaded"}
  <2>1. load[thread] \in [pc: {"set_mtime", "set_loaded"}, mtime: Times, text: ValidTexts]
    BY <1>1, <1>3 DEF Load, Idle
  <2> QED
    BY <1>1, <1>3, <2>1
<1> QED
  BY <1>1, <1>2, <1>3

\* Nothing is cached and nothing is being loaded at the start.
LEMMA InitCacheIInv == CacheInit => CacheIInv
<1> SUFFICES ASSUME CacheInit PROVE CacheIInv
  OBVIOUS
<1>1. 0 \in Times
  BY CacheAssumption DEF Times
<1>2. CacheTypeOK
  <2>1. PICK edit \in Edits : file = [text |-> edit[1], mtime |-> 0]
    BY DEF CacheInit
  <2>2. edit[1] \in Texts
    BY CacheAssumption
  <2>3. Idle \in Load
    BY DEF Load
  <2>4. load \in [Threads -> Load]
    BY <2>3 DEF CacheInit
  <2> QED
    BY <1>1, <2>1, <2>2, <2>4 DEF CacheInit, CacheTypeOK
<1>3. \A thread \in Threads : load[thread].pc = "idle"
  BY DEF CacheInit, Idle
<1>4. TimesPast /\ LoadedIsCurrent
  BY <1>3 DEF CacheInit, TimesPast, LoadedIsCurrent
<1>5. CachedRulesCurrent
  BY DEF CacheInit, CachedRulesCurrent
<1> QED
  BY <1>2, <1>4, <1>5 DEF CacheIInv

\* After an edit nothing cached or loaded has the time of the file.
LEMMA EditKeepsCacheIInv == CacheIInv /\ EditFile => CacheIInv'
<1> SUFFICES ASSUME CacheIInv, EditFile PROVE CacheIInv'
  OBVIOUS
<1>1. PICK text \in Texts : file' = [text |-> text, mtime |-> file.mtime + 1]
  BY DEF EditFile
<1>2. file.mtime \in Times /\ file.mtime < MaxEdits /\ cache.mtime \in Times
  BY DEF CacheIInv, CacheTypeOK, EditFile
<1>3. file.mtime + 1 \in Times /\ file'.mtime = file.mtime + 1 /\ file.mtime \in Nat
  BY <1>1, <1>2, CacheAssumption DEF Times
<1>4. CacheTypeOK'
  BY <1>1, <1>3 DEF CacheIInv, CacheTypeOK, EditFile
<1>5. cache' = cache /\ load' = load
  BY DEF EditFile
<1>6. ASSUME NEW thread \in Threads,
             load[thread].pc \in {"read", "set_mtime", "set_loaded"}
      PROVE  load[thread].mtime < file'.mtime
  <2>1. load[thread].mtime \in Times
    BY <1>6, LoadType DEF CacheIInv
  <2>2. load[thread].mtime \in Nat /\ load[thread].mtime <= file.mtime
    BY <1>6, <2>1 DEF Times, CacheIInv, TimesPast
  <2> QED
    BY <1>3, <2>2
<1>7. cache.mtime < file'.mtime
  <2>1. cache.mtime \in Nat /\ cache.mtime <= file.mtime
    BY <1>2 DEF Times, CacheIInv, TimesPast
  <2> QED
    BY <1>3, <2>1
<1>8. file'.mtime \in Nat /\ cache.mtime \in Nat
  BY <1>2, <1>3 DEF Times
<1>9. ASSUME NEW thread \in Threads,
             load[thread].pc \in {"read", "set_mtime", "set_loaded"}
      PROVE  load[thread].mtime \in Nat
  <2>1. CacheTypeOK
    BY DEF CacheIInv
  <2>2. load[thread].mtime \in Times
    BY <1>9, <2>1, LoadType
  <2> QED
    BY <2>2 DEF Times
<1>10. TimesPast'
  BY <1>5, <1>6, <1>7, <1>8, <1>9 DEF TimesPast
<1>11. LoadedIsCurrent'
  BY <1>5, <1>6, <1>8, <1>9 DEF LoadedIsCurrent
<1>12. CachedRulesCurrent'
  BY <1>5, <1>7, <1>8 DEF CachedRulesCurrent
<1> QED
  BY <1>4, <1>10, <1>11, <1>12 DEF CacheIInv

\* A step of a load that assigns nothing, to a load that holds what it may hold.
LEMMA ReadingKeepsCacheIInv ==
  ASSUME CacheIInv, NEW thread \in Threads, NEW new \in Load,
         load' = [load EXCEPT ![thread] = new],
         UNCHANGED <<file, cache, raced>>,
         load[thread].pc # "set_loaded",
         new.pc # "set_loaded",
         new.pc \in {"read", "set_mtime"} => new.mtime <= file.mtime,
         new.pc = "set_mtime" /\ new.mtime = file.mtime => new.text = file.text
  PROVE  CacheIInv'
<1>1. load \in [Threads -> Load]
  BY DEF CacheIInv, CacheTypeOK
<1>2. /\ load'[thread] = new
      /\ \A other \in Threads : other # thread => load'[other] = load[other]
  BY <1>1
<1>3. CacheTypeOK'
  BY <1>1 DEF CacheIInv, CacheTypeOK
<1>4. TimesPast'
  BY <1>2 DEF CacheIInv, TimesPast
<1>5. LoadedIsCurrent'
  BY <1>2 DEF CacheIInv, LoadedIsCurrent
<1>6. CachedRulesCurrent'
  <2>1. (\A other \in Threads : load'[other].pc # "set_loaded") =>
           \A other \in Threads : load[other].pc # "set_loaded"
    BY <1>2
  <2> QED
    BY <2>1 DEF CacheIInv, CachedRulesCurrent
<1> QED
  BY <1>3, <1>4, <1>5, <1>6 DEF CacheIInv

\* The steps of a load up to its assignments, and its end.
LEMMA LookingKeepsCacheIInv ==
  ASSUME CacheIInv, NEW thread \in Threads,
         StartLoad(thread) \/ StatFile(thread) \/ ReadFile(thread) \/ EndLoad(thread)
  PROVE  CacheIInv'
<1>1. /\ file \in [text: Texts, mtime: Times]
      /\ cache \in [mtime: Times, loaded: ValidTexts \cup {NoText}]
      /\ load[thread] \in Load
      /\ file.mtime \in Nat
  BY DEF CacheIInv, CacheTypeOK, Times
<1>2. CASE StartLoad(thread)
  <2> DEFINE new == [pc |-> "stat"]
  <2>1. new \in Load /\ new.pc = "stat"
    BY DEF Load
  <2>2. /\ load' = [load EXCEPT ![thread] = new]
        /\ UNCHANGED <<file, cache, raced>>
        /\ load[thread].pc = "idle"
    BY <1>2 DEF StartLoad, Idle
  <2> HIDE DEF new
  <2>3. /\ load[thread].pc # "set_loaded"
        /\ new.pc # "set_loaded"
        /\ new.pc \notin {"read", "set_mtime"}
    BY <2>1, <2>2
  <2> QED
    BY <2>1, <2>2, <2>3, ReadingKeepsCacheIInv
<1>3. CASE StatFile(thread)
  <2> DEFINE new == IF cache.loaded # NoText /\ cache.mtime = file.mtime
                    THEN [pc |-> "loaded", text |-> cache.loaded]
                    ELSE [pc |-> "read", mtime |-> file.mtime]
  <2>1. new \in Load
    BY <1>1 DEF Load
  <2>2. new.pc \in {"loaded", "read"} /\ (new.pc = "read" => new.mtime = file.mtime)
    OBVIOUS
  <2>3. /\ load' = [load EXCEPT ![thread] = new]
        /\ UNCHANGED <<file, cache, raced>>
        /\ load[thread].pc = "stat"
    BY <1>3 DEF StatFile
  <2> HIDE DEF new
  <2>4. /\ load[thread].pc # "set_loaded"
        /\ new.pc # "set_loaded"
        /\ new.pc # "set_mtime"
        /\ new.pc \in {"read", "set_mtime"} => new.mtime <= file.mtime
    BY <1>1, <2>2, <2>3
  <2> QED
    BY <2>1, <2>3, <2>4, ReadingKeepsCacheIInv
<1>4. CASE ReadFile(thread)
  <2> DEFINE new == IF file.text \in ValidTexts
                    THEN [pc |-> "set_mtime", mtime |-> load[thread].mtime,
                          text |-> file.text]
                    ELSE [pc |-> "failed"]
  <2>1. load[thread].pc = "read" /\ load[thread].mtime \in Times
    BY <1>4, LoadType DEF ReadFile, CacheIInv
  <2>2. new \in Load
    BY <2>1 DEF Load
  <2>3. /\ new.pc \in {"set_mtime", "failed"}
        /\ new.pc = "set_mtime" => new.mtime = load[thread].mtime /\ new.text = file.text
    OBVIOUS
  <2>4. load[thread].mtime <= file.mtime
    BY <2>1 DEF CacheIInv, TimesPast
  <2>5. /\ load' = [load EXCEPT ![thread] = new]
        /\ UNCHANGED <<file, cache, raced>>
    BY <1>4 DEF ReadFile
  <2> HIDE DEF new
  <2> QED
    BY <2>1, <2>2, <2>3, <2>4, <2>5, ReadingKeepsCacheIInv
<1>5. CASE EndLoad(thread)
  <2>1. Idle \in Load /\ Idle.pc = "idle"
    BY DEF Load, Idle
  <2> QED
    BY <1>5, <2>1, ReadingKeepsCacheIInv DEF EndLoad
<1> QED
  BY <1>2, <1>3, <1>4, <1>5

\* The first assignment: the load that makes it is between the two from then on.
LEMMA SetMtimeKeepsCacheIInv ==
  ASSUME CacheIInv, NEW thread \in Threads, SetMtime(thread)
  PROVE  CacheIInv'
<1>1. /\ load[thread].pc = "set_mtime"
      /\ load[thread].mtime \in Times
      /\ load[thread].text \in ValidTexts
      /\ load[thread] = [pc |-> "set_mtime", mtime |-> load[thread].mtime,
                         text |-> load[thread].text]
  BY LoadType DEF SetMtime, CacheIInv
<1>2. load[thread].mtime <= file.mtime
  BY <1>1 DEF CacheIInv, TimesPast
<1>3. /\ load \in [Threads -> Load]
      /\ cache \in [mtime: Times, loaded: ValidTexts \cup {NoText}]
  BY DEF CacheIInv, CacheTypeOK
<1>4. /\ load'[thread] = [pc |-> "set_loaded", mtime |-> load[thread].mtime,
                          text |-> load[thread].text]
      /\ \A other \in Threads : other # thread => load'[other] = load[other]
  BY <1>1, <1>3 DEF SetMtime
<1>5. UNCHANGED <<file, raced>> /\ cache' = [cache EXCEPT !.mtime = load[thread].mtime]
  BY DEF SetMtime
<1>6. load'[thread] \in Load
  BY <1>1, <1>4 DEF Load
<1>7. CacheTypeOK'
  <2>1. load' \in [Threads -> Load]
    BY <1>3, <1>6 DEF SetMtime
  <2> QED
    BY <1>1, <1>3, <1>5, <2>1 DEF CacheIInv, CacheTypeOK
<1>8. TimesPast'
  BY <1>1, <1>2, <1>3, <1>4, <1>5 DEF CacheIInv, TimesPast
<1>9. LoadedIsCurrent'
  BY <1>1, <1>4, <1>5 DEF CacheIInv, LoadedIsCurrent
<1>10. CachedRulesCurrent'
  BY <1>4 DEF CachedRulesCurrent
<1> QED
  BY <1>7, <1>8, <1>9, <1>10 DEF CacheIInv

\* The second assignment: unless another load was between them, the rules go with the
\* time that was stored first.
LEMMA SetLoadedKeepsCacheIInv ==
  ASSUME CacheIInv, NEW thread \in Threads, SetLoaded(thread)
  PROVE  CacheIInv'
<1>1. /\ load[thread].pc = "set_loaded"
      /\ load[thread].mtime \in Times
      /\ load[thread].text \in ValidTexts
  BY LoadType DEF SetLoaded, CacheIInv
<1>2. /\ load \in [Threads -> Load]
      /\ cache \in [mtime: Times, loaded: ValidTexts \cup {NoText}]
  BY DEF CacheIInv, CacheTypeOK
<1>3. /\ load'[thread] = [pc |-> "loaded", text |-> load[thread].text]
      /\ \A other \in Threads : other # thread => load'[other] = load[other]
  BY <1>2 DEF SetLoaded
<1>4. /\ file' = file
      /\ cache' = [cache EXCEPT !.loaded = load[thread].text]
      /\ raced' = (cache.mtime # load[thread].mtime)
  BY DEF SetLoaded
<1>5. cache'.mtime = cache.mtime /\ cache'.loaded = load[thread].text
  BY <1>2, <1>4
<1>6. load'[thread] \in Load
  BY <1>1, <1>3 DEF Load
<1>7. CacheTypeOK'
  <2>1. load' \in [Threads -> Load]
    BY <1>2, <1>6 DEF SetLoaded
  <2>2. raced' \in BOOLEAN
    BY <1>4
  <2> QED
    BY <1>1, <1>2, <1>4, <2>1, <2>2 DEF CacheIInv, CacheTypeOK
<1>8. TimesPast'
  BY <1>3, <1>4, <1>5 DEF CacheIInv, TimesPast
<1>9. LoadedIsCurrent'
  BY <1>3, <1>4 DEF CacheIInv, LoadedIsCurrent
<1>10. CachedRulesCurrent'
  <2>1. ~ raced' /\ cache.mtime = file.mtime => load[thread].text = file.text
    BY <1>1, <1>4 DEF CacheIInv, LoadedIsCurrent
  <2> QED
    BY <1>4, <1>5, <2>1 DEF CachedRulesCurrent
<1> QED
  BY <1>7, <1>8, <1>9, <1>10 DEF CacheIInv

\* Every step keeps the inductive invariant.
LEMMA NextCacheIInv == CacheIInv /\ [CacheNext]_cacheVars => CacheIInv'
<1> SUFFICES ASSUME CacheIInv, [CacheNext]_cacheVars PROVE CacheIInv'
  OBVIOUS
<1>1. CASE EditFile
  BY <1>1, EditKeepsCacheIInv
<1>2. ASSUME NEW thread \in Threads,
             StartLoad(thread) \/ LoadStep(thread) \/ EndLoad(thread)
      PROVE  CacheIInv'
  BY <1>2, LookingKeepsCacheIInv, SetMtimeKeepsCacheIInv, SetLoadedKeepsCacheIInv
  DEF LoadStep
<1>3. CASE UNCHANGED cacheVars
  BY <1>3 DEF cacheVars, CacheIInv, CacheTypeOK, TimesPast, LoadedIsCurrent,
              CachedRulesCurrent
<1> QED
  BY <1>1, <1>2, <1>3 DEF CacheNext

\* The inductive invariant holds throughout.
THEOREM CacheInvariant == CacheSpec => []CacheIInv
<1> QED
  BY InitCacheIInv, NextCacheIInv, PTL DEF CacheSpec

\* The cache and the loads keep their types.
THEOREM CacheTyped == CacheSpec => []CacheTypeOK
<1>1. CacheIInv => CacheTypeOK
  BY DEF CacheIInv
<1> QED
  BY <1>1, CacheInvariant, PTL

\* An edit of the rules takes effect however many threads load them: rules cached under
\* the time of the file are the file's, unless two loads interleaved their assignments.
THEOREM CacheCurrent == CacheSpec => []CachedRulesCurrent
<1>1. CacheIInv => CachedRulesCurrent
  BY DEF CacheIInv
<1> QED
  BY <1>1, CacheInvariant, PTL

--------------------------------------------------------------------------------
(* Conditions *)

\* A condition whose operators the evaluator takes.
Supported(when) ==
  IsCondition(when) /\ \A node \in Nodes(when) : node.op \in SupportedOps

\* The outcome of a node depends on those of its children only.
LEMMA NodeLocal ==
  ASSUME NEW when, Supported(when), NEW inputs, NEW k \in 1..Len(when), NEW one, NEW other,
         \A j \in 1..(k - 1) : one[j] = other[j]
  PROVE  /\ EvalNode(when[k], one, inputs) = EvalNode(when[k], other, inputs)
         /\ Says(when[k], one, inputs) = Says(when[k], other, inputs)
<1> DEFINE node == when[k]
<1>1. /\ node.op \in SupportedOps
      /\ node.op \notin {"literal", "attribute"} =>
           \A i \in DOMAIN node.args : node.args[i] \in 1..(k - 1)
      /\ node.op = "not" => 1 \in DOMAIN node.args
      /\ node.op \in {"==", ">"} => {1, 2} \subseteq DOMAIN node.args
  BY DEF Supported, IsCondition, IsList, Nodes
<1> HIDE DEF node
<1>2. node.op \notin {"literal", "attribute"} =>
        \A i \in DOMAIN node.args : one[node.args[i]] = other[node.args[i]]
  BY <1>1
<1>3. CASE node.op \in {"literal", "attribute"}
  BY <1>3 DEF EvalNode, Says, node
<1>4. CASE node.op = "not"
  BY <1>1, <1>2, <1>4 DEF EvalNode, Says, node
<1>5. CASE node.op \in {"and", "or"}
  <2>1. [i \in DOMAIN node.args |-> one[node.args[i]]] =
          [i \in DOMAIN node.args |-> other[node.args[i]]]
    BY <1>2, <1>5
  <2>2. EvalNode(node, one, inputs) = EvalNode(node, other, inputs)
    BY <1>5, <2>1 DEF EvalNode
  <2>3. Says(node, one, inputs) = Says(node, other, inputs)
    BY <1>2, <1>5 DEF Says
  <2> QED
    BY <2>2, <2>3 DEF node
<1>6. CASE node.op \in {"==", ">"}
  <2>1. one[node.args[1]] = other[node.args[1]] /\ one[node.args[2]] = other[node.args[2]]
    BY <1>1, <1>2, <1>6
  <2>2. EvalNode(node, one, inputs) = EvalNode(node, other, inputs)
    BY <1>6, <2>1 DEF EvalNode
  <2>3. Says(node, one, inputs) = Says(node, other, inputs)
    BY <1>6, <2>1 DEF Says
  <2> QED
    BY <2>2, <2>3 DEF node
<1> QED
  BY <1>1, <1>3, <1>4, <1>5, <1>6 DEF SupportedOps, node

\* The table of outcomes is the one that its definition describes: it exists up to
\* each node in turn.
LEMMA EvalTable ==
  ASSUME NEW when, Supported(when), NEW inputs, NEW k \in 1..Len(when)
  PROVE  Eval(when, inputs)[k] = EvalNode(when[k], Eval(when, inputs), inputs)
<1> DEFINE n == Len(when)
           IsTable(g) == g = [j \in 1..n |-> EvalNode(when[j], g, inputs)]
           IsTableTo(g, m) ==
             /\ g = [j \in 1..n |-> g[j]]
             /\ \A j \in 1..n : j <= m => g[j] = EvalNode(when[j], g, inputs)
           reached == {m \in Nat : m <= n => \E g : IsTableTo(g, m)}
<1>1. n \in Nat
  BY DEF Supported, IsCondition, IsList
<1> HIDE DEF n
<1>2. 0 \in reached
  <2>1. IsTableTo([j \in 1..n |-> 0], 0)
    OBVIOUS
  <2> HIDE DEF IsTableTo
  <2> QED
    BY <2>1
<1>3. ASSUME NEW m \in Nat, m \in reached PROVE m + 1 \in reached
  <2>1. SUFFICES ASSUME m + 1 <= n PROVE \E g : IsTableTo(g, m + 1)
    OBVIOUS
  <2>2. PICK g : IsTableTo(g, m)
    BY <1>1, <1>3, <2>1
  <2> DEFINE h == [j \in 1..n |->
                     IF j = m + 1 THEN EvalNode(when[j], g, inputs) ELSE g[j]]
  <2>3. ASSUME NEW j \in 1..n, j <= m + 1 PROVE h[j] = EvalNode(when[j], h, inputs)
    <3>1. \A i \in 1..(j - 1) : g[i] = h[i]
      BY <1>1, <2>3
    <3>2. EvalNode(when[j], g, inputs) = EvalNode(when[j], h, inputs)
      BY <3>1, NodeLocal DEF n
    <3>3. h[j] = EvalNode(when[j], g, inputs)
      BY <2>2, <2>3, <1>1
    <3> QED
      BY <3>2, <3>3
  <2>4. h = [j \in 1..n |-> h[j]]
    OBVIOUS
  <2> HIDE DEF h
  <2>5. IsTableTo(h, m + 1)
    BY <2>3, <2>4
  <2> HIDE DEF IsTableTo
  <2> QED
    BY <2>5
<1> HIDE DEF reached
<1>4. \E g : IsTable(g)
  <2>1. Nat \subseteq reached
    BY <1>2, <1>3, NatSetInduction
  <2>2. PICK g : IsTableTo(g, n)
    <3> HIDE DEF IsTableTo
    <3>1. n \in reached
      BY <1>1, <2>1
    <3> QED
      BY <1>1, <3>1 DEF reached
  <2>3. \A j \in 1..n : g[j] = EvalNode(when[j], g, inputs)
    BY <1>1, <2>2
  <2>4. IsTable(g)
    BY <2>2, <2>3
  <2> HIDE DEF IsTable
  <2> QED
    BY <2>4
<1>5. Eval(when, inputs) = CHOOSE g : IsTable(g)
  BY DEF Eval, n
<1>6. IsTable(Eval(when, inputs))
  <2> HIDE DEF IsTable
  <2> QED
    BY <1>4, <1>5
<1> QED
  BY <1>6 DEF n

\* And so is the table of meanings.
LEMMA MeaningTable ==
  ASSUME NEW when, Supported(when), NEW inputs, NEW k \in 1..Len(when)
  PROVE  Meaning(when, inputs)[k] = Says(when[k], Meaning(when, inputs), inputs)
<1> DEFINE n == Len(when)
           IsTable(g) == g = [j \in 1..n |-> Says(when[j], g, inputs)]
           IsTableTo(g, m) ==
             /\ g = [j \in 1..n |-> g[j]]
             /\ \A j \in 1..n : j <= m => g[j] = Says(when[j], g, inputs)
           reached == {m \in Nat : m <= n => \E g : IsTableTo(g, m)}
<1>1. n \in Nat
  BY DEF Supported, IsCondition, IsList
<1> HIDE DEF n
<1>2. 0 \in reached
  <2>1. IsTableTo([j \in 1..n |-> 0], 0)
    OBVIOUS
  <2> HIDE DEF IsTableTo
  <2> QED
    BY <2>1
<1>3. ASSUME NEW m \in Nat, m \in reached PROVE m + 1 \in reached
  <2>1. SUFFICES ASSUME m + 1 <= n PROVE \E g : IsTableTo(g, m + 1)
    OBVIOUS
  <2>2. PICK g : IsTableTo(g, m)
    BY <1>1, <1>3, <2>1
  <2> DEFINE h == [j \in 1..n |-> IF j = m + 1 THEN Says(when[j], g, inputs) ELSE g[j]]
  <2>3. ASSUME NEW j \in 1..n, j <= m + 1 PROVE h[j] = Says(when[j], h, inputs)
    <3>1. \A i \in 1..(j - 1) : g[i] = h[i]
      BY <1>1, <2>3
    <3>2. Says(when[j], g, inputs) = Says(when[j], h, inputs)
      BY <3>1, NodeLocal DEF n
    <3>3. h[j] = Says(when[j], g, inputs)
      BY <2>2, <2>3, <1>1
    <3> QED
      BY <3>2, <3>3
  <2>4. h = [j \in 1..n |-> h[j]]
    OBVIOUS
  <2> HIDE DEF h
  <2>5. IsTableTo(h, m + 1)
    BY <2>3, <2>4
  <2> HIDE DEF IsTableTo
  <2> QED
    BY <2>5
<1> HIDE DEF reached
<1>4. \E g : IsTable(g)
  <2>1. Nat \subseteq reached
    BY <1>2, <1>3, NatSetInduction
  <2>2. PICK g : IsTableTo(g, n)
    <3> HIDE DEF IsTableTo
    <3>1. n \in reached
      BY <1>1, <2>1
    <3> QED
      BY <1>1, <3>1 DEF reached
  <2>3. \A j \in 1..n : g[j] = Says(when[j], g, inputs)
    BY <1>1, <2>2
  <2>4. IsTable(g)
    BY <2>2, <2>3
  <2> HIDE DEF IsTable
  <2> QED
    BY <2>4
<1>5. Meaning(when, inputs) = CHOOSE g : IsTable(g)
  BY DEF Meaning, n
<1>6. IsTable(Meaning(when, inputs))
  <2> HIDE DEF IsTable
  <2> QED
    BY <1>4, <1>5
<1> QED
  BY <1>6 DEF n

\* A result of a node, and an error of one: an input is missing only if the condition
\* names one that is not there.
IsMissing(when, inputs) ==
  \E node \in Nodes(when) :
    /\ node.op = "attribute"
    /\ node.of \in DOMAIN inputs
    /\ node.name \notin DOMAIN inputs[node.of]

Raises(outcome, when, inputs) ==
  \/ outcome = Failure("RULE_EXPRESSION_ERROR")
  \/ outcome = Failure("RULE_INPUT_ERROR") /\ IsMissing(when, inputs)

\* What is sent are values, and part of all inputs.
IsPart(sent, inputs) ==
  \A of \in DOMAIN sent : \A name \in DOMAIN sent[of] :
    IsValue(sent[of][name]) /\ inputs[of][name] = sent[of][name]

\* all() and any(): what they return is what the terms say, also when a term after the
\* one that decides would raise.
LEMMA TermsMean ==
  ASSUME NEW op \in {"and", "or"}, NEW terms, NEW meant, DOMAIN terms \in SUBSET Nat,
         \A i \in DOMAIN terms : IsError(terms[i]) \/ terms[i] = meant[i]
  PROVE  \/ \E i \in DOMAIN terms : IsError(terms[i]) /\ EvalTerms(op, terms) = terms[i]
         \/ EvalTerms(op, terms) =
              IF op = "and" THEN Boolean(\A i \in DOMAIN terms : Truth(meant[i]))
              ELSE Boolean(\E i \in DOMAIN terms : Truth(meant[i]))
<1> DEFINE last  == {i \in DOMAIN terms : IsError(terms[i]) \/ Truth(terms[i]) # (op = "and")}
           first == CHOOSE i \in last : \A k \in last : i <= k
<1>1. EvalTerms(op, terms) = IF last = {} THEN Boolean(op = "and")
                             ELSE IF IsError(terms[first]) THEN terms[first]
                             ELSE Boolean(op # "and")
  BY DEF EvalTerms
<1>2. CASE last = {}
  <2>1. \A i \in DOMAIN terms : terms[i] = meant[i] /\ (Truth(terms[i]) <=> op = "and")
    BY <1>2
  <2>2. CASE op = "and"
    <3>1. \A i \in DOMAIN terms : Truth(meant[i])
      BY <2>1, <2>2
    <3> QED
      BY <1>1, <1>2, <2>2, <3>1 DEF Boolean
  <2>3. CASE op = "or"
    <3>1. ~ \E i \in DOMAIN terms : Truth(meant[i])
      BY <2>1, <2>3
    <3> QED
      BY <1>1, <1>2, <2>3, <3>1 DEF Boolean
  <2> QED
    BY <2>2, <2>3
<1>3. CASE last # {}
  <2>1. first \in last
    <3>1. last \in SUBSET Nat
      OBVIOUS
    <3> HIDE DEF last
    <3> QED
      BY <1>3, <3>1, LeastOf
  <2>2. first \in DOMAIN terms
    BY <2>1
  <2>3. CASE IsError(terms[first])
    BY <1>1, <1>3, <2>2, <2>3
  <2>4. CASE ~ IsError(terms[first])
    <3>1. terms[first] = meant[first] /\ (Truth(terms[first]) <=> op # "and")
      <4>1. IsError(terms[first]) \/ Truth(terms[first]) # (op = "and")
        BY <2>1
      <4> HIDE DEF first, last
      <4> QED
        BY <2>2, <2>4, <4>1 DEF Truth
    <3>2. EvalTerms(op, terms) = Boolean(op # "and")
      BY <1>1, <1>3, <2>4
    <3> HIDE DEF first, last
    <3>3. CASE op = "and"
      <4>1. ~ \A i \in DOMAIN terms : Truth(meant[i])
        BY <2>2, <3>1, <3>3
      <4> QED
        BY <3>2, <3>3, <4>1 DEF Boolean
    <3>4. CASE op = "or"
      <4>1. \E i \in DOMAIN terms : Truth(meant[i])
        BY <2>2, <3>1, <3>4
      <4> QED
        BY <3>2, <3>4, <4>1 DEF Boolean
    <3> QED
      BY <3>3, <3>4
  <2> QED
    BY <2>3, <2>4
<1> QED
  BY <1>2, <1>3

\* One node: if each of its children raises or gives the value it means, so does it.
LEMMA NodeMeans ==
  ASSUME NEW when, Supported(when), NEW sent, NEW inputs, IsPart(sent, inputs),
         NEW k \in 1..Len(when), NEW outcome, NEW value,
         \A j \in 1..(k - 1) :
           \/ Raises(outcome[j], when, sent)
           \/ outcome[j] = value[j] /\ IsValue(outcome[j])
  PROVE  LET it == EvalNode(when[k], outcome, sent)
         IN  \/ Raises(it, when, sent)
             \/ it = Says(when[k], value, inputs) /\ IsValue(it)
<1> DEFINE node == when[k]
           it == EvalNode(node, outcome, sent)
           meant == Says(node, value, inputs)
<1>1. /\ node \in Nodes(when)
      /\ node.op \in SupportedOps
      /\ node.op = "literal" => IsValue(node.value)
      /\ node.op \notin {"literal", "attribute"} =>
           /\ IsList(node.args)
           /\ \A i \in DOMAIN node.args : node.args[i] \in 1..(k - 1)
      /\ node.op = "not" => 1 \in DOMAIN node.args
      /\ node.op \in {"==", ">"} => {1, 2} \subseteq DOMAIN node.args
  BY DEF Supported, IsCondition, IsList, Nodes
<1> SUFFICES Raises(it, when, sent) \/ (it = meant /\ IsValue(it))
  OBVIOUS
<1> HIDE DEF node
<1>2. \A i \in DOMAIN node.args :
        node.op \notin {"literal", "attribute"} =>
          \/ Raises(outcome[node.args[i]], when, sent)
          \/ /\ outcome[node.args[i]] = value[node.args[i]]
             /\ IsValue(outcome[node.args[i]])
  BY <1>1
<1>3. \A o : Raises(o, when, sent) => IsError(o)
  BY DEF Raises, Failure, IsError
<1>4. \A o : IsValue(o) => ~ IsError(o)
  BY DEF IsValue, IsError
<1>5. \A b : IsValue(Boolean(b))
  BY DEF IsValue, Boolean
<1>6. CASE node.op = "literal"
  BY <1>1, <1>6 DEF EvalNode, Says
<1>7. CASE node.op = "attribute"
  <2>1. CASE node.of \notin DOMAIN sent
    BY <1>7, <2>1 DEF EvalNode, Raises
  <2>2. CASE node.of \in DOMAIN sent /\ node.name \in DOMAIN sent[node.of]
    <3>1. it = sent[node.of][node.name] /\ meant = inputs[node.of][node.name]
      BY <1>7, <2>2 DEF EvalNode, Says
    <3> QED
      BY <2>2, <3>1 DEF IsPart
  <2>3. CASE node.of \in DOMAIN sent /\ node.name \notin DOMAIN sent[node.of]
    <3>1. it = Failure("RULE_INPUT_ERROR")
      BY <1>7, <2>3 DEF EvalNode
    <3> QED
      BY <1>1, <1>7, <2>3, <3>1 DEF Raises, IsMissing
  <2> QED
    BY <2>1, <2>2, <2>3
<1>8. CASE node.op = "not"
  <2> DEFINE arg == outcome[node.args[1]]
  <2>1. it = IF IsError(arg) THEN arg ELSE Boolean(~ Truth(arg))
    BY <1>8 DEF EvalNode
  <2>2. meant = Boolean(~ Truth(value[node.args[1]]))
    BY <1>8 DEF Says
  <2>3. Raises(arg, when, sent) \/ (arg = value[node.args[1]] /\ IsValue(arg))
    BY <1>1, <1>2, <1>8
  <2> HIDE DEF it, meant, arg
  <2> QED
    BY <1>3, <1>4, <1>5, <2>1, <2>2, <2>3
<1>9. CASE node.op \in {"and", "or"}
  <2> DEFINE terms == [i \in DOMAIN node.args |-> outcome[node.args[i]]]
             said  == [i \in DOMAIN node.args |-> value[node.args[i]]]
  <2>1. it = EvalTerms(node.op, terms)
    BY <1>9 DEF EvalNode
  <2>2. meant = IF node.op = "and" THEN Boolean(\A i \in DOMAIN terms : Truth(said[i]))
                ELSE Boolean(\E i \in DOMAIN terms : Truth(said[i]))
    BY <1>9 DEF Says, Boolean
  <2>3. DOMAIN terms \in SUBSET Nat
    BY <1>1, <1>9 DEF IsList
  <2>4. \A i \in DOMAIN terms :
          \/ Raises(terms[i], when, sent)
          \/ terms[i] = said[i] /\ IsValue(terms[i])
    BY <1>2, <1>9
  <2> HIDE DEF it, meant, terms, said
  <2>5. \A i \in DOMAIN terms : IsError(terms[i]) \/ terms[i] = said[i]
    BY <1>3, <2>4
  <2>6. \/ \E i \in DOMAIN terms : IsError(terms[i]) /\ EvalTerms(node.op, terms) = terms[i]
        \/ EvalTerms(node.op, terms) =
             IF node.op = "and" THEN Boolean(\A i \in DOMAIN terms : Truth(said[i]))
             ELSE Boolean(\E i \in DOMAIN terms : Truth(said[i]))
    BY <1>9, <2>3, <2>5, TermsMean
  <2>7. CASE \E i \in DOMAIN terms :
               IsError(terms[i]) /\ EvalTerms(node.op, terms) = terms[i]
    BY <1>4, <2>1, <2>4, <2>7
  <2>8. CASE EvalTerms(node.op, terms) = meant
    <3>1. IsValue(meant)
      BY <1>5, <2>2
    <3> QED
      BY <2>1, <2>8, <3>1
  <2> QED
    BY <2>2, <2>6, <2>7, <2>8
<1>10. CASE node.op \in {"==", ">"}
  <2> DEFINE left  == outcome[node.args[1]]
             right == outcome[node.args[2]]
             alike(a, b) == (a.kind = "text") <=> (b.kind = "text")
             said(a, b) == IF node.op = "==" THEN Boolean(alike(a, b) /\ a.value = b.value)
                           ELSE Boolean(alike(a, b) /\ a.value > b.value)
  <2>1. it = IF IsError(left) THEN left
             ELSE IF IsError(right) THEN right
             ELSE CompareValues(left, node.op, right)
    BY <1>10 DEF EvalNode
  <2>2. meant = said(value[node.args[1]], value[node.args[2]])
    BY <1>10 DEF Says
  <2>3. /\ Raises(left, when, sent) \/ (left = value[node.args[1]] /\ IsValue(left))
        /\ Raises(right, when, sent) \/ (right = value[node.args[2]] /\ IsValue(right))
    BY <1>1, <1>2, <1>10
  <2>4. \/ CompareValues(left, node.op, right) = Failure("RULE_EXPRESSION_ERROR")
        \/ CompareValues(left, node.op, right) = said(left, right)
    BY <1>10 DEF CompareValues, Boolean
  <2>5. IsValue(said(left, right))
    BY <1>5
  <2>6. Raises(Failure("RULE_EXPRESSION_ERROR"), when, sent)
    BY DEF Raises
  <2> HIDE DEF it, meant, left, right, said
  <2>7. CASE IsError(left) \/ IsError(right)
    BY <1>4, <2>1, <2>3, <2>7
  <2>8. CASE ~ IsError(left) /\ ~ IsError(right)
    <3>1. left = value[node.args[1]] /\ right = value[node.args[2]]
      BY <1>3, <2>3, <2>8
    <3>2. it = CompareValues(left, node.op, right) /\ meant = said(left, right)
      BY <2>1, <2>2, <2>8, <3>1
    <3> QED
      BY <2>4, <2>5, <2>6, <3>2
  <2> QED
    BY <2>7, <2>8
<1> QED
  BY <1>1, <1>6, <1>7, <1>8, <1>9, <1>10 DEF SupportedOps

\* So, from the leaves to the root, whatever the evaluator does not look at.
LEMMA EvaluateMeans ==
  ASSUME NEW when, IsCondition(when), NEW sent, NEW inputs, IsPart(sent, inputs)
  PROVE  LET it == Evaluate(when, sent)
         IN  \/ Raises(it, when, sent) /\ IsError(it)
             \/ ~ IsError(it) /\ (Truth(it) <=> Holds(when, inputs))
<1> DEFINE it == Evaluate(when, sent)
           bad == Failure("RULE_EXPRESSION_ERROR")
<1>1. Raises(bad, when, sent) /\ IsError(bad)
  BY DEF Raises, Failure, IsError
<1>2. CASE \E node \in Nodes(when) : node.op \notin SupportedOps
  BY <1>1, <1>2 DEF Evaluate
<1>3. CASE Supported(when)
  <2> DEFINE n == Len(when)
             outcome == Eval(when, sent)
             value == Meaning(when, inputs)
             right(k) == \/ Raises(outcome[k], when, sent)
                         \/ outcome[k] = value[k] /\ IsValue(outcome[k])
             reached == {m \in Nat : \A k \in 1..n : k <= m => right(k)}
  <2>1. n \in Nat /\ n # 0
    BY DEF IsCondition, IsList
  <2> HIDE DEF n
  <2>2. 0 \in reached
    OBVIOUS
  <2>3. ASSUME NEW m \in Nat, m \in reached PROVE m + 1 \in reached
    <3>1. ASSUME NEW k \in 1..n, k <= m + 1 PROVE right(k)
      <4>1. \A j \in 1..(k - 1) : right(j)
        <5>1. \A j \in 1..(k - 1) : j \in 1..n /\ j <= m
          BY <2>1, <3>1
        <5> QED
          BY <2>3, <5>1
      <4>2. /\ outcome[k] = EvalNode(when[k], outcome, sent)
            /\ value[k] = Says(when[k], value, inputs)
        BY <1>3, EvalTable, MeaningTable DEF n
      <4> HIDE DEF outcome, value
      <4>3. k \in 1..Len(when)
        BY DEF n
      <4>4. LET o == EvalNode(when[k], outcome, sent)
            IN  \/ Raises(o, when, sent)
                \/ o = Says(when[k], value, inputs) /\ IsValue(o)
        BY ONLY <1>3, <4>1, <4>3, IsPart(sent, inputs), NodeMeans
      <4> QED
        BY <4>2, <4>4
    <3> QED
      BY <3>1
  <2> HIDE DEF reached
  <2>4. Nat \subseteq reached
    BY <2>2, <2>3, NatSetInduction
  <2>5. right(n)
    BY <2>1, <2>4 DEF reached
  <2> HIDE DEF outcome, value
  <2>6. /\ it = IF IsError(outcome[n]) \/ outcome[n].kind = "bool" THEN outcome[n] ELSE bad
        /\ Holds(when, inputs) = Truth(value[n])
    BY <1>3 DEF Evaluate, Holds, Supported, outcome, value, n
  <2>7. Raises(outcome[n], when, sent) => IsError(outcome[n])
    BY DEF Raises, Failure, IsError
  <2>8. IsValue(outcome[n]) => ~ IsError(outcome[n])
    BY DEF IsValue, IsError
  <2> HIDE DEF bad, it
  <2> QED
    BY <1>1, <2>5, <2>6, <2>7, <2>8 DEF it
<1> QED
  BY <1>2, <1>3 DEF Supported

--------------------------------------------------------------------------------
(* Rules *)

\* The loop of _winner_rule ends with the place of a matched rule that none of the
\* matched rules outranks.
LEMMA WinnerOutranked ==
  ASSUME NEW rules, IsList(rules), NEW matched \in SUBSET DOMAIN rules, matched # {}
  PROVE  \E w \in matched :
           /\ WinnerRule(rules, matched) = rules[w]
           /\ \A i \in matched :
                ActionPriority(rules[i].action) <= ActionPriority(rules[w].action)
<1> DEFINE n == Len(rules)
           rank(i) == ActionPriority(rules[i].action)
           Turned(i, best) == IF i \in matched /\ (best = 0 \/ rank(i) > rank(best))
                              THEN i ELSE best
           IsLoop(g) == g = [i \in 0..n |-> IF i = 0 THEN 0 ELSE Turned(i, g[i - 1])]
           IsLoopTo(g, m) ==
             /\ g = [i \in 0..n |-> g[i]]
             /\ g[0] = 0
             /\ \A i \in 1..n : i <= m => g[i] = Turned(i, g[i - 1])
           loop == CHOOSE g : IsLoop(g)
           reached == {m \in Nat : m <= n => \E g : IsLoopTo(g, m)}
<1>1. n \in Nat /\ matched \in SUBSET (1..n)
  BY DEF IsList
<1>2. WinnerRule(rules, matched) = rules[loop[n]]
  BY Zenon DEF WinnerRule
<1>3. \A i : rank(i) \in {1, 2, 3}
  BY DEF ActionPriority
<1> HIDE DEF n, rank
<1>4. 0 \in reached
  <2>1. IsLoopTo([i \in 0..n |-> 0], 0)
    BY <1>1
  <2> HIDE DEF IsLoopTo
  <2> QED
    BY <2>1
<1>5. ASSUME NEW m \in Nat, m \in reached PROVE m + 1 \in reached
  <2>1. SUFFICES ASSUME m + 1 <= n PROVE \E g : IsLoopTo(g, m + 1)
    OBVIOUS
  <2>2. PICK g : IsLoopTo(g, m)
    <3> HIDE DEF IsLoopTo
    <3> QED
      BY <1>1, <1>5, <2>1
  <2> DEFINE h == [i \in 0..n |-> IF i = m + 1 THEN Turned(i, g[m]) ELSE g[i]]
  <2> HIDE DEF Turned
  <2>3. ASSUME NEW i \in 1..n, i <= m + 1 PROVE h[i] = Turned(i, h[i - 1])
    <3>1. CASE i = m + 1
      <4>1. i \in 0..n /\ i - 1 = m /\ m \in 0..n /\ m # m + 1
        BY <1>1, <2>1, <3>1
      <4>2. h[i] = Turned(i, g[m]) /\ h[m] = g[m]
        BY <3>1, <4>1
      <4> QED
        BY <4>1, <4>2
    <3>2. CASE i # m + 1
      <4>1. i <= m /\ i \in 0..n /\ i - 1 \in 0..n /\ i - 1 # m + 1
        BY <1>1, <2>3, <3>2
      <4>2. h[i] = g[i] /\ h[i - 1] = g[i - 1]
        BY <3>2, <4>1
      <4>3. g[i] = Turned(i, g[i - 1])
        BY <2>2, <4>1
      <4> QED
        BY <4>2, <4>3
    <3> QED
      BY <3>1, <3>2
  <2>4. h = [i \in 0..n |-> h[i]]
    OBVIOUS
  <2>5. h[0] = 0
    <3>1. 0 \in 0..n /\ 0 # m + 1
      BY <1>1
    <3> QED
      BY <2>2, <3>1
  <2> HIDE DEF h
  <2>6. IsLoopTo(h, m + 1)
    BY <2>3, <2>4, <2>5
  <2> HIDE DEF IsLoopTo
  <2> QED
    BY <2>6
<1> HIDE DEF reached
<1>6. \E g : IsLoop(g)
  <2>1. n \in reached
    BY <1>1, <1>4, <1>5, NatSetInduction
  <2>2. PICK g : IsLoopTo(g, n)
    <3> HIDE DEF IsLoopTo
    <3> QED
      BY <1>1, <2>1 DEF reached
  <2> HIDE DEF Turned
  <2>3. \A i \in 0..n : g[i] = IF i = 0 THEN 0 ELSE Turned(i, g[i - 1])
    <3>1. \A i \in 0..n : i # 0 => i \in 1..n /\ i <= n
      BY <1>1
    <3> QED
      BY <2>2, <3>1
  <2>4. IsLoop(g)
    BY <2>2, <2>3
  <2> HIDE DEF IsLoop
  <2> QED
    BY <2>4
<1>7. IsLoop(loop)
  <2> HIDE DEF IsLoop
  <2> QED
    BY <1>6
<1> HIDE DEF loop
<1>8. \A i \in 0..n : loop[i] = IF i = 0 THEN 0 ELSE Turned(i, loop[i - 1])
  <2> HIDE DEF Turned
  <2> QED
    BY <1>7
<1> DEFINE Best(b, m) ==
             \/ b = 0 /\ \A i \in matched : i > m
             \/ b \in matched /\ \A i \in matched : i <= m => rank(i) <= rank(b)
           found == {m \in Nat : m <= n => Best(loop[m], m)}
<1>9. 0 \in found
  <2>1. loop[0] = 0
    BY <1>1, <1>8
  <2> QED
    BY <1>1, <2>1
<1>10. ASSUME NEW m \in Nat, m \in found PROVE m + 1 \in found
  <2>1. SUFFICES ASSUME m + 1 <= n PROVE Best(loop[m + 1], m + 1)
    OBVIOUS
  <2>2. Best(loop[m], m)
    BY <1>1, <1>10, <2>1
  <2>3. loop[m + 1] = Turned(m + 1, loop[m])
    <3> HIDE DEF Turned
    <3>1. m + 1 \in 0..n /\ m + 1 # 0 /\ m + 1 - 1 = m
      BY <1>1, <2>1
    <3> QED
      BY <1>8, <3>1
  <2>4. \A i \in matched : i \in Nat /\ (i <= m + 1 => i <= m \/ i = m + 1)
    BY <1>1
  <2>5. 0 \notin matched
    BY <1>1
  <2>6. CASE loop[m] = 0
    <3>1. \A i \in matched : i > m
      BY <2>2, <2>5, <2>6
    <3>2. CASE m + 1 \in matched
      <4>1. loop[m + 1] = m + 1
        BY <2>3, <2>6, <3>2
      <4> QED
        BY <1>3, <2>4, <3>1, <3>2, <4>1
    <3>3. CASE m + 1 \notin matched
      <4>1. loop[m + 1] = 0
        BY <2>3, <2>6, <3>3
      <4> QED
        BY <2>4, <3>1, <3>3, <4>1
    <3> QED
      BY <3>2, <3>3
  <2>7. CASE loop[m] # 0
    <3>1. loop[m] \in matched /\ \A i \in matched : i <= m => rank(i) <= rank(loop[m])
      BY <2>2, <2>7
    <3>2. CASE m + 1 \in matched /\ rank(m + 1) > rank(loop[m])
      <4>1. loop[m + 1] = m + 1
        BY <2>3, <3>2
      <4>2. \A i \in matched : i <= m + 1 => rank(i) <= rank(m + 1)
        BY <1>3, <2>4, <3>1, <3>2
      <4> QED
        BY <3>2, <4>1, <4>2
    <3>3. CASE ~ (m + 1 \in matched /\ rank(m + 1) > rank(loop[m]))
      <4>1. loop[m + 1] = loop[m]
        BY <2>3, <2>7, <3>3
      <4>2. \A i \in matched : i <= m + 1 => rank(i) <= rank(loop[m])
        BY <1>3, <2>4, <3>1, <3>3
      <4> QED
        BY <3>1, <4>1, <4>2
    <3> QED
      BY <3>2, <3>3
  <2> QED
    BY <2>6, <2>7
<1> HIDE DEF found
<1>11. n \in found
  BY <1>1, <1>9, <1>10, NatSetInduction
<1>12. Best(loop[n], n)
  BY <1>1, <1>11 DEF found
<1>13. loop[n] \in matched /\ \A i \in matched : rank(i) <= rank(loop[n])
  <2>1. \A i \in matched : i \in Nat /\ i <= n
    BY <1>1
  <2> QED
    BY <1>1, <1>12, <2>1
<1> QED
  BY <1>2, <1>13 DEF rank

\* evaluate_authorize_action: an error of one of the rules for the action, or what the
\* strictest of those that hold asks for.
LEMMA DecideMeans ==
  ASSUME NEW rules, IsList(rules),
         \A i \in DOMAIN rules : IsCondition(rules[i].when) /\ rules[i].action \in RuleActions,
         NEW action, NEW sent, NEW inputs, IsPart(sent, inputs)
  PROVE  LET it == Decide(rules, action, sent)
         IN  \/ /\ IsError(it)
                /\ \E i \in Applicable(rules, action) : Raises(it, rules[i].when, sent)
             \/ it = Verdict(Strictest(rules, action, inputs))
<1> DEFINE places == Applicable(rules, action)
           outcome(i) == Evaluate(rules[i].when, sent)
           failing == {i \in places : IsError(outcome(i))}
           first == CHOOSE i \in failing : \A k \in failing : i <= k
           matched == {i \in places : Truth(outcome(i))}
           it == Decide(rules, action, sent)
<1> SUFFICES \/ IsError(it) /\ \E i \in places : Raises(it, rules[i].when, sent)
             \/ it = Verdict(Strictest(rules, action, inputs))
  OBVIOUS
<1>1. places \in SUBSET DOMAIN rules /\ DOMAIN rules \in SUBSET Nat
  BY DEF Applicable, IsList
<1>2. \A i \in places :
        \/ IsError(outcome(i)) /\ Raises(outcome(i), rules[i].when, sent)
        \/ ~ IsError(outcome(i)) /\ (Truth(outcome(i)) <=> Holds(rules[i].when, inputs))
  <2> SUFFICES ASSUME NEW i \in places
               PROVE  \/ IsError(outcome(i)) /\ Raises(outcome(i), rules[i].when, sent)
                      \/ /\ ~ IsError(outcome(i))
                         /\ Truth(outcome(i)) <=> Holds(rules[i].when, inputs)
    OBVIOUS
  <2>1. IsCondition(rules[i].when)
    BY <1>1
  <2> QED
    BY <2>1, EvaluateMeans
<1>3. it = IF failing # {} THEN outcome(first)
           ELSE IF matched = {} THEN Verdict("allow")
           ELSE Verdict(DecisionStateForAction(WinnerRule(rules, matched).action))
  BY Zenon DEF Decide
<1> HIDE DEF places, outcome, it
<1>4. CASE failing # {}
  <2>1. first \in failing
    <3>1. failing \in SUBSET Nat
      BY <1>1
    <3> HIDE DEF failing
    <3> QED
      BY <1>4, <3>1, LeastOf
  <2> HIDE DEF first
  <2> QED
    BY <1>2, <1>3, <1>4, <2>1
<1>5. CASE failing = {}
  <2>1. \A i \in places : i \in matched <=> Holds(rules[i].when, inputs)
    BY <1>2, <1>5
  <2> HIDE DEF failing, first
  <2>2. it = IF matched = {} THEN Verdict("allow")
             ELSE Verdict(DecisionStateForAction(WinnerRule(rules, matched).action))
    BY <1>3, <1>5
  <2>3. matched \in SUBSET places
    OBVIOUS
  <2> HIDE DEF matched
  <2>4. Strictest(rules, action, inputs) =
          IF \E i \in matched : rules[i].action = "deny" THEN "deny"
          ELSE IF \E i \in matched : rules[i].action = "require_approval"
          THEN "requires_approval" ELSE "allow"
    BY <2>1, <2>3 DEF Strictest, places
  <2>5. CASE matched = {}
    BY <2>2, <2>4, <2>5
  <2>6. CASE matched # {}
    <3>1. matched \in SUBSET DOMAIN rules
      BY <1>1, <2>3
    <3>2. PICK w \in matched :
            /\ WinnerRule(rules, matched) = rules[w]
            /\ \A i \in matched :
                 ActionPriority(rules[i].action) <= ActionPriority(rules[w].action)
      BY <2>6, <3>1, WinnerOutranked
    <3>3. \A i \in matched : rules[i].action \in RuleActions
      BY <3>1
    <3>4. DecisionStateForAction(rules[w].action) = Strictest(rules, action, inputs)
      <4>1. CASE rules[w].action = "deny"
        BY <2>4, <4>1 DEF DecisionStateForAction
      <4>2. CASE rules[w].action = "require_approval"
        <5>1. \A i \in matched : rules[i].action # "deny"
          BY <3>2, <4>2 DEF ActionPriority
        <5> QED
          BY <2>4, <4>2, <5>1 DEF DecisionStateForAction
      <4>3. CASE rules[w].action = "allow"
        <5>1. \A i \in matched :
                rules[i].action # "deny" /\ rules[i].action # "require_approval"
          BY <3>2, <4>3 DEF ActionPriority
        <5> QED
          BY <2>4, <4>3, <5>1 DEF DecisionStateForAction
      <4> QED
        BY <3>3, <4>1, <4>2, <4>3 DEF RuleActions
    <3> QED
      BY <2>2, <2>6, <3>2, <3>4
  <2> QED
    BY <2>5, <2>6
<1> QED
  BY <1>4, <1>5

--------------------------------------------------------------------------------
(* The approvals in the loop *)

\* The events that the loop appends: receipts, requests, and the answers of a person.
LoopEvents ==
  {event \in Gate!Event :
     /\ event.id \in ServiceIds
     /\ event.answers = None => ~ Gate!IsResolutionSignal(event)
     /\ event.answers # None =>
          event.type = "approval_resolved" /\ event.status \in {"approved", "rejected"}}

LoopCall ==
  [pc: {"append"}, run: Runs, event: LoopEvents, after: EventIds \cup {None}]

\* The event answers a request among the events and names its decision.
Requested(events, event) ==
  \E i \in DOMAIN events :
    /\ events[i].id = event.answers
    /\ events[i].decision_id = event.decision_id
    /\ Gate!IsPendingSignal(events[i])

GateTyped ==
  /\ timeline \in [Runs -> Seq(LoopEvents)]
  /\ call \in [Threads -> {Gate!Idle} \cup LoopCall]

IdsUnique ==
  \A run \in Runs : \A i, k \in DOMAIN timeline[run] :
    timeline[run][i].id = timeline[run][k].id => i = k

AnswersRequested ==
  /\ \A run \in Runs : \A k \in DOMAIN timeline[run] :
       timeline[run][k].answers # None => Requested(timeline[run], timeline[run][k])
  /\ \A t \in Threads :
       call[t] # Gate!Idle /\ call[t].event.answers # None =>
         Requested(timeline[call[t].run], call[t].event)

GateInv == GateTyped /\ IdsUnique /\ AnswersRequested

LEMMA LoopEventFields ==
  ASSUME NEW event \in LoopEvents
  PROVE  /\ event.id \in ServiceIds /\ event.id \in EventIds
         /\ event.decision_id \in DecisionIds \cup {None}
         /\ event.answers \in EventIds \cup {None}
         /\ event \in Gate!Event
BY DEF LoopEvents, Gate!Event

LEMMA LoopCallFields ==
  ASSUME GateTyped, NEW t \in Threads, call[t] # Gate!Idle
  PROVE  /\ call[t] \in LoopCall
         /\ call[t].pc = "append"
         /\ call[t].run \in Runs
         /\ call[t].event \in LoopEvents
<1>1. call[t] \in LoopCall
  BY DEF GateTyped
<1> QED
  BY <1>1 DEF LoopCall

\* What a handler begins: an append to a run, of a receipt, a request or an answer.
Begins(t, next) ==
  /\ Gate!Handle(t, next)
  /\ next \in LoopCall
  /\ next # Gate!Idle
  /\ next.event.answers # None => Requested(timeline[next.run], next.event)

LEMMA DrawnId ==
  ASSUME Gate!IdsLeft
  PROVE  Gate!FreshId \in ServiceIds /\ Gate!FreshId \in EventIds
BY LoopAssumption DEF Gate!IdsLeft, Gate!FreshId

LEMMA LastIdKnown ==
  ASSUME NEW events \in Seq(LoopEvents)
  PROVE  Gate!LastId(events) \in EventIds \cup {None}
<1>1. CASE events = << >>
  BY <1>1 DEF Gate!LastId
<1>2. CASE events # << >>
  <2>1. events[Len(events)] \in LoopEvents
    BY <1>2
  <2> QED
    BY <1>2, <2>1, LoopEventFields DEF Gate!LastId
<1> QED
  BY <1>1, <1>2

LEMMA ReceiptBegins ==
  ASSUME GateTyped, NEW t \in Threads, Gate!AppendRuntimeReceipt(t, BotRun, BotDecision)
  PROVE  \E next : Begins(t, next) /\ next.run = BotRun /\ next.event.answers = None
<1> DEFINE event == Gate!Receipt(Gate!FreshId, "action", "other", BotDecision)
           next == Gate!Appending("append", BotRun, event, Gate!LastId(timeline[BotRun]))
<1>1. Gate!IdsLeft /\ Gate!Handle(t, next)
  BY DEF Gate!AppendRuntimeReceipt
<1>2. Gate!FreshId \in ServiceIds /\ Gate!FreshId \in EventIds
  BY <1>1, DrawnId
<1>3. event \in LoopEvents /\ event.answers = None
  BY <1>2, LoopAssumption
  DEF Gate!Receipt, LoopEvents, Gate!Event, Gate!EventTypes, Gate!Steps,
      Gate!ApprovalStatuses, Gate!IsResolutionSignal
<1> HIDE DEF event
<1>4. Gate!LastId(timeline[BotRun]) \in EventIds \cup {None}
  BY LastIdKnown, LoopAssumption DEF GateTyped
<1>5. /\ next \in LoopCall /\ next # Gate!Idle
      /\ next.run = BotRun /\ next.event = event
  BY <1>3, <1>4, LoopAssumption DEF Gate!Appending, LoopCall, Gate!Idle
<1> HIDE DEF next
<1> QED
  BY <1>1, <1>3, <1>5 DEF Begins

LEMMA RegisterBegins ==
  ASSUME GateTyped, NEW t \in Threads, Gate!RegisterApprovalRequest(t, BotRun, BotDecision)
  PROVE  \E next : Begins(t, next) /\ next.run = BotRun /\ next.event.answers = None
<1> DEFINE event == Gate!RequestEvent(BotDecision)
           blank == Gate!Receipt(Gate!FreshId, "approval_requested", "other", BotDecision)
           next == Gate!Appending("append", BotRun, event, Gate!LastId(timeline[BotRun]))
<1>1. Gate!IdsLeft /\ Gate!Handle(t, next)
  BY DEF Gate!RegisterApprovalRequest
<1>2. Gate!FreshId \in ServiceIds /\ Gate!FreshId \in EventIds
  BY <1>1, DrawnId
<1>3. blank \in Gate!Event
  BY <1>2, LoopAssumption
  DEF Gate!Receipt, Gate!Event, Gate!EventTypes, Gate!Steps, Gate!ApprovalStatuses
<1>4. event \in LoopEvents /\ event.answers = None
  <2>1. /\ event = [blank EXCEPT !.requires_approval = TRUE, !.status = "pending"]
        /\ blank.id = Gate!FreshId /\ blank.type = "approval_requested"
        /\ blank.answers = None
    BY DEF Gate!RequestEvent, Gate!Receipt
  <2> HIDE DEF blank, event
  <2>2. /\ event \in Gate!Event
        /\ event.id = Gate!FreshId /\ event.type = "approval_requested"
        /\ event.status = "pending" /\ event.answers = None
    BY <1>3, <2>1 DEF Gate!Event, Gate!ApprovalStatuses
  <2> QED
    BY <1>2, <2>2 DEF LoopEvents, Gate!IsResolutionSignal
<1> HIDE DEF event
<1>5. Gate!LastId(timeline[BotRun]) \in EventIds \cup {None}
  BY LastIdKnown, LoopAssumption DEF GateTyped
<1>6. /\ next \in LoopCall /\ next # Gate!Idle
      /\ next.run = BotRun /\ next.event = event
  BY <1>4, <1>5, LoopAssumption DEF Gate!Appending, LoopCall, Gate!Idle
<1> HIDE DEF next
<1> QED
  BY <1>1, <1>4, <1>6 DEF Begins

\* A verdict on a decision begins with an answer to its one pending request, which
\* nothing in the run has answered.
LEMMA ResolveBegins ==
  ASSUME GateInv, NEW t \in Threads, NEW decision, NEW verdict \in {"approved", "rejected"},
         Gate!ResolveByDecisionId(t, decision, verdict)
  PROVE  \E next :
           /\ Begins(t, next)
           /\ next.event.answers # None
           /\ next.event.decision_id = decision
           /\ Gate!Resolvable(next.run, next.event.answers)
           /\ \A run \in Runs : \A i \in DOMAIN timeline[run] :
                /\ timeline[run][i].decision_id = decision
                /\ Gate!IsPendingSignal(timeline[run][i])
                => run = next.run /\ timeline[run][i].id = next.event.answers
<1>1. PICK place \in Gate!PendingEvents(decision) :
        /\ Gate!PendingEvents(decision) = {place}
        /\ Gate!ResolvePendingApproval(t, place[1], timeline[place[1]][place[2]].id, verdict)
  BY DEF Gate!ResolveByDecisionId
<1> DEFINE run == place[1]
           k == place[2]
           id == timeline[run][k].id
           target == Gate!EventOf(timeline[run], id)
           event == Gate!ResolutionEvent(target, verdict)
           next == Gate!Appending("append", run, event, Gate!LastId(timeline[run]))
<1>2. /\ run \in Runs /\ k \in DOMAIN timeline[run]
      /\ timeline[run][k].decision_id = decision
      /\ Gate!IsPendingSignal(timeline[run][k])
  BY <1>1 DEF Gate!PendingEvents, Gate!LifecycleEvents
<1>3. ASSUME NEW r \in Runs, NEW i \in DOMAIN timeline[r],
             timeline[r][i].decision_id = decision, Gate!IsPendingSignal(timeline[r][i])
      PROVE  r = run /\ timeline[r][i].id = id
  <2>1. <<r, i>> \in Gate!PendingEvents(decision)
    BY <1>3 DEF Gate!PendingEvents, Gate!LifecycleEvents
  <2> QED
    BY <1>1, <2>1
<1>4. Gate!IdsLeft /\ Gate!Resolvable(run, id) /\ Gate!Handle(t, next)
  BY <1>1 DEF Gate!ResolvePendingApproval
<1> HIDE DEF run, k
<1>5. timeline[run] \in Seq(LoopEvents) /\ timeline[run][k] \in LoopEvents
  <2>1. timeline[run] \in Seq(LoopEvents)
    BY <1>2 DEF GateInv, GateTyped
  <2> QED
    BY <1>2, <2>1
<1>6. target = timeline[run][k]
  <2> DEFINE there == CHOOSE i \in DOMAIN timeline[run] : timeline[run][i].id = id
  <2>1. there \in DOMAIN timeline[run] /\ timeline[run][there].id = id
    BY <1>2
  <2>2. target = timeline[run][there]
    BY DEF Gate!EventOf
  <2> HIDE DEF there, target
  <2>3. there = k
    BY <1>2, <2>1 DEF GateInv, IdsUnique
  <2> QED
    BY <2>2, <2>3
<1> HIDE DEF target
<1>7. Gate!FreshId \in ServiceIds /\ Gate!FreshId \in EventIds
  BY <1>4, DrawnId
<1>8. target.id = id /\ target.decision_id = decision /\ id \in EventIds
      /\ decision \in DecisionIds \cup {None}
  BY <1>2, <1>5, <1>6, LoopEventFields
<1>9. id # None
  BY <1>8, LoopAssumption
<1> DEFINE step == IF verdict = "rejected" THEN "approval_rejected" ELSE "other"
           blank == Gate!Receipt(Gate!FreshId, "approval_resolved", step, target.decision_id)
<1>10. blank \in Gate!Event
  BY <1>7, <1>8
  DEF Gate!Receipt, Gate!Event, Gate!EventTypes, Gate!Steps, Gate!TerminalSteps,
      Gate!ApprovalStatuses
<1>11. /\ event \in Gate!Event /\ event.id \in ServiceIds
       /\ event.answers = id /\ event.decision_id = decision
       /\ event.type = "approval_resolved" /\ event.status = verdict
  <2>1. /\ event = [blank EXCEPT !.requires_approval = TRUE, !.status = verdict,
                      !.resolved_by = TRUE, !.resolved_at = TRUE, !.answers = target.id]
        /\ blank.id = Gate!FreshId /\ blank.type = "approval_resolved"
        /\ blank.decision_id = target.decision_id
    BY DEF Gate!ResolutionEvent, Gate!Receipt
  <2> HIDE DEF blank, event, id
  <2> QED
    BY <1>7, <1>10, <1>8, <2>1 DEF Gate!Event, Gate!ApprovalStatuses
<1> HIDE DEF event
<1>12. event \in LoopEvents
  BY <1>9, <1>11 DEF LoopEvents
<1>13. Gate!LastId(timeline[run]) \in EventIds \cup {None}
  BY <1>5, LastIdKnown
<1>14. next \in LoopCall /\ next # Gate!Idle /\ next.run = run /\ next.event = event
  BY <1>2, <1>12, <1>13 DEF Gate!Appending, LoopCall, Gate!Idle
<1> HIDE DEF next
<1>15. Requested(timeline[run], event)
  BY <1>2, <1>11 DEF Requested, id
<1>16. Begins(t, next)
  BY <1>4, <1>14, <1>15 DEF Begins
<1> QED
  BY <1>3, <1>4, <1>9, <1>11, <1>14, <1>16


--------------------------------------------------------------------------------
\* The end of an append in the loop: no continuation follows, as the demo's gate is a
\* client's id and an answer names the request of a service.
LEMMA NothingFollows ==
  ASSUME GateInv, NEW t \in Threads, call[t] # Gate!Idle
  PROVE  Gate!Continue(call[t]) = Gate!Idle /\ Gate!Abort(call[t]) = Gate!Idle
<1> DEFINE c == call[t]
<1>1. c.pc = "append" /\ c.run \in Runs /\ c.event \in LoopEvents
  BY LoopCallFields DEF GateInv
<1>2. c.event.answers # DemoGate
  <2>1. SUFFICES ASSUME c.event.answers = DemoGate PROVE FALSE
    OBVIOUS
  <2>2. c.event.answers # None
    BY <2>1, LoopAssumption
  <2>3. Requested(timeline[c.run], c.event)
    BY <2>2 DEF GateInv, AnswersRequested
  <2>4. PICK i \in DOMAIN timeline[c.run] : timeline[c.run][i].id = c.event.answers
    BY <2>3 DEF Requested
  <2>5. timeline[c.run] \in Seq(LoopEvents)
    BY <1>1 DEF GateInv, GateTyped
  <2>6. timeline[c.run][i].id \in ServiceIds
    <3>1. timeline[c.run][i] \in LoopEvents
      BY <2>4, <2>5
    <3> QED
      BY <3>1, LoopEventFields
  <2> QED
    BY <2>1, <2>4, <2>6, LoopAssumption
<1> HIDE DEF c
<1>3. Gate!Continue(c) = Gate!Idle /\ Gate!Abort(c) = Gate!Idle
  BY <1>1, <1>2 DEF Gate!Continue, Gate!Abort
<1> QED
  BY <1>3 DEF c

\* What an append does: at place i the run has the event, and the others of the run are
\* where they were or one place further on.
Lands(t, i) ==
  LET run == call[t].run
      n   == Len(timeline[run])
  IN  /\ i \in 1..(n + 1)
      /\ n \in Nat
      /\ DOMAIN timeline[run] = 1..n
      /\ DOMAIN timeline'[run] = 1..(n + 1)
      /\ timeline'[run][i] = call[t].event
      /\ \A k \in 1..n : k < i => timeline'[run][k] = timeline[run][k]
      /\ \A k \in 1..(n + 1) : k > i => k - 1 \in 1..n /\ timeline'[run][k] = timeline[run][k - 1]

LEMMA LoopStore ==
  ASSUME GateInv, NEW t \in Threads, Gate!StoreEvent(t)
  PROVE  /\ call[t] # Gate!Idle
         /\ call' = [call EXCEPT ![t] = Gate!Idle]
         /\ timeline' \in [Runs -> Seq(LoopEvents)]
         /\ ~ Gate!HasId(timeline[call[t].run], call[t].event.id)
         /\ \A r \in Runs : r # call[t].run => timeline'[r] = timeline[r]
         /\ \E i \in Nat : Lands(t, i)
<1> DEFINE run == call[t].run
           event == call[t].event
           list == timeline[run]
           n == Len(list)
<1>1. /\ call[t] # Gate!Idle
      /\ call' = [call EXCEPT ![t] = Gate!Continue(call[t])]
      /\ ~ Gate!HasId(list, event.id)
      /\ \E i \in Gate!Landings(call[t]) :
           timeline' = [timeline EXCEPT ![run] = Gate!InsertAt(list, i, event)]
  BY DEF Gate!StoreEvent
<1>2. PICK i \in Gate!Landings(call[t]) :
        timeline' = [timeline EXCEPT ![run] = Gate!InsertAt(list, i, event)]
  BY <1>1
<1>3. run \in Runs /\ event \in LoopEvents
  BY <1>1, LoopCallFields DEF GateInv
<1>4. list \in Seq(LoopEvents) /\ i \in 1..(n + 1)
  BY <1>3 DEF GateInv, GateTyped, Gate!Landings
<1> DEFINE landed == Inserted(list, i, event)
<1>5. Gate!InsertAt(list, i, event) = landed
  BY DEF Gate!InsertAt, Inserted
<1>6. timeline' = [timeline EXCEPT ![run] = landed]
  BY <1>2, <1>5
<1>7. /\ n \in Nat
      /\ DOMAIN list = 1..n
      /\ DOMAIN landed = 1..(n + 1)
      /\ landed \in Seq(LoopEvents)
      /\ landed[i] = event
      /\ \A k \in 1..n : k < i => landed[k] = list[k]
      /\ \A k \in 1..(n + 1) : k > i => k - 1 \in 1..n /\ landed[k] = list[k - 1]
  <2> HIDE DEF list, event
  <2>1. LET m == Len(list)
            l == Inserted(list, i, event)
        IN  /\ m \in Nat
            /\ DOMAIN list = 1..m
            /\ DOMAIN l = 1..(m + 1)
            /\ l \in Seq(LoopEvents)
            /\ l[i] = event
            /\ \A k \in 1..m : k < i => l[k] = list[k]
            /\ \A k \in 1..(m + 1) : k > i => k - 1 \in 1..m /\ l[k] = list[k - 1]
            /\ i = m + 1 => l = Append(list, event)
    BY ONLY <1>3, <1>4, InsertPositions, SMT
  <2> QED
    BY ONLY <2>1
<1> HIDE DEF landed
<1>8. /\ timeline'[run] = landed
      /\ timeline' \in [Runs -> Seq(LoopEvents)]
      /\ \A r \in Runs : r # run => timeline'[r] = timeline[r]
  BY <1>3, <1>6, <1>7 DEF GateInv, GateTyped
<1>9. Lands(t, i) /\ i \in Nat
  BY <1>4, <1>7, <1>8 DEF Lands
<1>10. Gate!Continue(call[t]) = Gate!Idle
  BY <1>1, NothingFollows
<1> QED
  BY <1>1, <1>8, <1>9, <1>10

\* Every event stays, and every event but the one appended was there: of two places
\* that hold events of before, the places before differ too.
LEMMA LoopStoreMoves ==
  ASSUME GateInv, NEW t \in Threads, Gate!StoreEvent(t)
  PROVE  /\ \A r \in Runs : \A k \in DOMAIN timeline[r] :
              \E m \in DOMAIN timeline'[r] : timeline'[r][m] = timeline[r][k]
         /\ \E i \in DOMAIN timeline'[call[t].run] :
              /\ timeline'[call[t].run][i] = call[t].event
              /\ \E before :
                   /\ \A r \in Runs : \A m \in DOMAIN timeline'[r] :
                        <<r, m>> # <<call[t].run, i>> =>
                          /\ before[<<r, m>>] \in DOMAIN timeline[r]
                          /\ timeline'[r][m] = timeline[r][before[<<r, m>>]]
                   /\ \A r \in Runs : \A m, k \in DOMAIN timeline'[r] :
                        /\ <<r, m>> # <<call[t].run, i>>
                        /\ <<r, k>> # <<call[t].run, i>>
                        /\ before[<<r, m>>] = before[<<r, k>>]
                        => m = k
<1> DEFINE run == call[t].run
           n == Len(timeline[run])
<1>1. /\ run \in Runs
      /\ \A r \in Runs : r # run => timeline'[r] = timeline[r]
      /\ timeline' \in [Runs -> Seq(LoopEvents)]
  BY LoopStore, LoopCallFields DEF GateInv
<1>2. PICK i \in Nat : Lands(t, i)
  BY LoopStore
<1>3. /\ n \in Nat /\ i \in 1..(n + 1)
      /\ DOMAIN timeline[run] = 1..n
      /\ DOMAIN timeline'[run] = 1..(n + 1)
      /\ timeline'[run][i] = call[t].event
      /\ \A k \in 1..n : k < i => timeline'[run][k] = timeline[run][k]
      /\ \A k \in 1..(n + 1) : k > i =>
           k - 1 \in 1..n /\ timeline'[run][k] = timeline[run][k - 1]
  BY <1>2 DEF Lands
<1> DEFINE all == UNION {{<<r, m>> : m \in DOMAIN timeline'[r]} : r \in Runs}
           before == [place \in all |-> IF place[1] = run /\ place[2] > i THEN place[2] - 1
                                        ELSE place[2]]
<1> HIDE DEF n, run
<1>4. ASSUME NEW r \in Runs, NEW k \in DOMAIN timeline[r]
      PROVE  \E m \in DOMAIN timeline'[r] : timeline'[r][m] = timeline[r][k]
  <2>1. CASE r # run
    BY <1>1, <2>1
  <2>2. CASE r = run /\ k < i
    <3>1. k \in 1..(n + 1) /\ timeline'[run][k] = timeline[run][k]
      BY <1>3, <2>2
    <3> QED
      BY <1>3, <2>2, <3>1
  <2>3. CASE r = run /\ k >= i
    <3> DEFINE j == k + 1
    <3>1. j \in 1..(n + 1) /\ j > i /\ j - 1 = k
      BY <1>3, <2>3
    <3> HIDE DEF j
    <3>2. timeline'[run][j] = timeline[run][k]
      BY <1>3, <3>1
    <3> QED
      BY <1>3, <2>3, <3>1, <3>2
  <2>4. r # run \/ (r = run /\ k \in 1..n)
    BY <1>3
  <2> QED
    BY <1>3, <2>1, <2>2, <2>3, <2>4
<1>5. \A r \in Runs : \A m \in DOMAIN timeline'[r] :
        before[<<r, m>>] = IF r = run /\ m > i THEN m - 1 ELSE m
  <2>1. ASSUME NEW r \in Runs, NEW m \in DOMAIN timeline'[r]
        PROVE  before[<<r, m>>] = IF r = run /\ m > i THEN m - 1 ELSE m
    <3>1. <<r, m>> \in all
      BY <2>1
    <3> HIDE DEF all
    <3> QED
      BY <3>1
  <2> QED
    BY <2>1
<1> HIDE DEF before, all
<1>6. ASSUME NEW r \in Runs, NEW m \in DOMAIN timeline'[r], <<r, m>> # <<run, i>>
      PROVE  /\ before[<<r, m>>] \in DOMAIN timeline[r]
             /\ timeline'[r][m] = timeline[r][before[<<r, m>>]]
  <2>1. CASE r # run
    BY <1>1, <1>5, <2>1
  <2>2. CASE r = run /\ m < i
    <3>1. m \in 1..n /\ timeline'[run][m] = timeline[run][m] /\ ~ (m > i)
      BY <1>3, <2>2
    <3> QED
      BY <1>3, <1>5, <2>2, <3>1
  <2>3. CASE r = run /\ m > i
    <3>1. m \in 1..(n + 1) /\ m - 1 \in 1..n /\ timeline'[run][m] = timeline[run][m - 1]
      BY <1>3, <2>3
    <3> QED
      BY <1>3, <1>5, <2>3, <3>1
  <2>4. r # run \/ (r = run /\ m \in 1..(n + 1) /\ m # i)
    BY <1>3, <1>6
  <2> QED
    BY <1>3, <2>1, <2>2, <2>3, <2>4
<1>7. ASSUME NEW r \in Runs, NEW m \in DOMAIN timeline'[r], NEW k \in DOMAIN timeline'[r],
             <<r, m>> # <<run, i>>, <<r, k>> # <<run, i>>,
             before[<<r, m>>] = before[<<r, k>>]
      PROVE  m = k
  <2>1. CASE r # run
    BY <1>5, <1>7, <2>1
  <2>2. CASE r = run
    <3>1. m \in 1..(n + 1) /\ k \in 1..(n + 1) /\ m # i /\ k # i
      BY <1>3, <1>7, <2>2
    <3>2. before[<<r, m>>] = (IF m > i THEN m - 1 ELSE m)
      BY <1>5, <2>2
    <3>3. before[<<r, k>>] = (IF k > i THEN k - 1 ELSE k)
      BY <1>5, <2>2
    <3>4. (IF m > i THEN m - 1 ELSE m) = (IF k > i THEN k - 1 ELSE k)
      BY ONLY <1>7, <3>2, <3>3
    <3>5. n \in Nat /\ i \in 1..(n + 1)
      BY <1>3
    <3> QED
      BY ONLY <3>1, <3>4, <3>5
  <2> QED
    BY <2>1, <2>2
<1>8. i \in DOMAIN timeline'[run] /\ timeline'[run][i] = call[t].event
  BY <1>3
<1> QED
  BY <1>4, <1>6, <1>7, <1>8 DEF run

\* What is requested stays so while events stay.
LEMMA StaysRequested ==
  ASSUME NEW events, NEW event, Requested(events, event), NEW later,
         \A k \in DOMAIN events : \E m \in DOMAIN later : later[m] = events[k]
  PROVE  Requested(later, event)
BY DEF Requested

\* A step of the loop on the timelines and the requests under way.
GateMove ==
  \/ UNCHANGED gateVars
  \/ \E t \in Threads, next \in LoopCall : Begins(t, next)
  \/ \E t \in Threads : Gate!StoreEvent(t) \/ Gate!StoreFails(t)

LEMMA GateMoveKeepsInv == GateInv /\ GateMove => GateInv'
<1> SUFFICES ASSUME GateInv, GateMove PROVE GateInv'
  OBVIOUS
<1>1. CASE UNCHANGED gateVars
  BY <1>1 DEF gateVars, GateInv, GateTyped, IdsUnique, AnswersRequested, Requested
<1>2. ASSUME NEW t \in Threads, NEW next \in LoopCall, Begins(t, next) PROVE GateInv'
  <2>1. timeline' = timeline /\ call' = [call EXCEPT ![t] = next]
    BY <1>2 DEF Begins, Gate!Handle
  <2>2. GateTyped' /\ IdsUnique'
    BY <2>1 DEF GateInv, GateTyped, IdsUnique
  <2>3. \A u \in Threads : call'[u] = IF u = t THEN next ELSE call[u]
    BY <2>1 DEF GateInv, GateTyped
  <2>4. ASSUME NEW u \in Threads, call'[u] # Gate!Idle, call'[u].event.answers # None
        PROVE  Requested(timeline[call'[u].run], call'[u].event)
    <3>1. CASE u = t
      BY <1>2, <2>3, <2>4, <3>1 DEF Begins
    <3>2. CASE u # t
      BY <2>3, <2>4, <3>2 DEF GateInv, AnswersRequested
    <3> QED
      BY <3>1, <3>2
  <2>5. AnswersRequested'
    BY <2>1, <2>4 DEF GateInv, AnswersRequested
  <2> QED
    BY <2>2, <2>5 DEF GateInv
<1>3. ASSUME NEW t \in Threads, Gate!StoreFails(t) PROVE GateInv'
  <2>1. timeline' = timeline /\ call' = [call EXCEPT ![t] = Gate!Idle]
    BY <1>3, NothingFollows DEF Gate!StoreFails
  <2>2. GateTyped' /\ IdsUnique'
    BY <2>1 DEF GateInv, GateTyped, IdsUnique
  <2>3. \A u \in Threads : call'[u] = IF u = t THEN Gate!Idle ELSE call[u]
    BY <2>1 DEF GateInv, GateTyped
  <2>4. AnswersRequested'
    BY <2>1, <2>3 DEF GateInv, AnswersRequested, Requested
  <2> QED
    BY <2>2, <2>4 DEF GateInv
<1>4. ASSUME NEW t \in Threads, Gate!StoreEvent(t) PROVE GateInv'
  <2> DEFINE run == call[t].run
             event == call[t].event
  <2>1. /\ call[t] # Gate!Idle
        /\ call' = [call EXCEPT ![t] = Gate!Idle]
        /\ timeline' \in [Runs -> Seq(LoopEvents)]
        /\ ~ Gate!HasId(timeline[run], event.id)
        /\ run \in Runs
    BY <1>4, LoopStore, LoopCallFields DEF GateInv
  <2>2. /\ \A r \in Runs : \A k \in DOMAIN timeline[r] :
             \E m \in DOMAIN timeline'[r] : timeline'[r][m] = timeline[r][k]
        /\ \E i \in DOMAIN timeline'[run] :
             /\ timeline'[run][i] = event
             /\ \E before :
                  /\ \A r \in Runs : \A m \in DOMAIN timeline'[r] :
                       <<r, m>> # <<run, i>> =>
                         /\ before[<<r, m>>] \in DOMAIN timeline[r]
                         /\ timeline'[r][m] = timeline[r][before[<<r, m>>]]
                  /\ \A r \in Runs : \A m, k \in DOMAIN timeline'[r] :
                       /\ <<r, m>> # <<run, i>>
                       /\ <<r, k>> # <<run, i>>
                       /\ before[<<r, m>>] = before[<<r, k>>]
                       => m = k
    BY <1>4, LoopStoreMoves
  <2>3. PICK i \in DOMAIN timeline'[run] :
             /\ timeline'[run][i] = event
             /\ \E before :
                  /\ \A r \in Runs : \A m \in DOMAIN timeline'[r] :
                       <<r, m>> # <<run, i>> =>
                         /\ before[<<r, m>>] \in DOMAIN timeline[r]
                         /\ timeline'[r][m] = timeline[r][before[<<r, m>>]]
                  /\ \A r \in Runs : \A m, k \in DOMAIN timeline'[r] :
                       /\ <<r, m>> # <<run, i>>
                       /\ <<r, k>> # <<run, i>>
                       /\ before[<<r, m>>] = before[<<r, k>>]
                       => m = k
    BY <2>2
  <2>4. PICK before :
                  /\ \A r \in Runs : \A m \in DOMAIN timeline'[r] :
                       <<r, m>> # <<run, i>> =>
                         /\ before[<<r, m>>] \in DOMAIN timeline[r]
                         /\ timeline'[r][m] = timeline[r][before[<<r, m>>]]
                  /\ \A r \in Runs : \A m, k \in DOMAIN timeline'[r] :
                       /\ <<r, m>> # <<run, i>>
                       /\ <<r, k>> # <<run, i>>
                       /\ before[<<r, m>>] = before[<<r, k>>]
                       => m = k
    BY <2>3
  <2>5. GateTyped'
    BY <2>1 DEF GateInv, GateTyped
  <2>6. \A u \in Threads : call'[u] = IF u = t THEN Gate!Idle ELSE call[u]
    BY <2>1 DEF GateInv, GateTyped
  <2> HIDE DEF run, event
  <2>7. ASSUME NEW r \in Runs, NEW m \in DOMAIN timeline'[r], NEW k \in DOMAIN timeline'[r],
               timeline'[r][m].id = timeline'[r][k].id
        PROVE  m = k
    <3>1. ASSUME NEW x \in DOMAIN timeline'[r], r = run, x # i,
                 timeline'[r][x].id = event.id
          PROVE  FALSE
      <4>1. <<r, x>> # <<run, i>>
        BY <3>1
      <4>2. /\ before[<<r, x>>] \in DOMAIN timeline[r]
            /\ timeline'[r][x] = timeline[r][before[<<r, x>>]]
        BY <2>4, <4>1
      <4> QED
        BY <2>1, <3>1, <4>2 DEF Gate!HasId
    <3>2. CASE <<r, m>> = <<run, i>> \/ <<r, k>> = <<run, i>>
      BY <2>3, <2>7, <3>1, <3>2
    <3>3. CASE <<r, m>> # <<run, i>> /\ <<r, k>> # <<run, i>>
      <4>1. /\ before[<<r, m>>] \in DOMAIN timeline[r]
            /\ timeline'[r][m] = timeline[r][before[<<r, m>>]]
            /\ before[<<r, k>>] \in DOMAIN timeline[r]
            /\ timeline'[r][k] = timeline[r][before[<<r, k>>]]
        BY <2>4, <3>3
      <4>2. before[<<r, m>>] = before[<<r, k>>]
        BY <2>7, <4>1 DEF GateInv, IdsUnique
      <4> QED
        BY <2>4, <3>3, <4>2
    <3> QED
      BY <3>2, <3>3
  <2>8. IdsUnique'
    BY <2>7 DEF IdsUnique
  <2>9. ASSUME NEW r \in Runs, NEW m \in DOMAIN timeline'[r], timeline'[r][m].answers # None
        PROVE  Requested(timeline'[r], timeline'[r][m])
    <3>1. Requested(timeline[r], timeline'[r][m])
      <4>1. CASE <<r, m>> = <<run, i>>
        BY <2>1, <2>3, <2>9, <4>1 DEF GateInv, AnswersRequested, run, event
      <4>2. CASE <<r, m>> # <<run, i>>
        <5>1. PICK k \in DOMAIN timeline[r] : timeline'[r][m] = timeline[r][k]
          BY <2>4, <4>2
        <5> QED
          BY <2>9, <5>1 DEF GateInv, AnswersRequested
      <4> QED
        BY <4>1, <4>2
    <3> QED
      BY <2>2, <3>1, StaysRequested
  <2>10. ASSUME NEW u \in Threads, call'[u] # Gate!Idle, call'[u].event.answers # None
         PROVE  Requested(timeline'[call'[u].run], call'[u].event)
    <3>1. call'[u] = call[u] /\ call[u] # Gate!Idle
      BY <2>6, <2>10
    <3>2. Requested(timeline[call[u].run], call[u].event) /\ call[u].run \in Runs
      BY <2>10, <3>1, LoopCallFields DEF GateInv, AnswersRequested
    <3> QED
      BY <2>2, <3>1, <3>2, StaysRequested
  <2>11. AnswersRequested'
    BY <2>9, <2>10 DEF AnswersRequested
  <2> QED
    BY <2>5, <2>8, <2>11 DEF GateInv
<1> QED
  BY <1>1, <1>2, <1>3, <1>4 DEF GateMove

--------------------------------------------------------------------------------
(* The page in the loop *)

ListStates ==
  {Page!Unused} \cup [state: {"sent"}, for: DecisionIds \cup {None}]
    \cup [state: {"answered"}, for: DecisionIds \cup {None}, items: SUBSET DecisionIds]
    \cup [state: {"failed"}, for: DecisionIds \cup {None}]

PostStates ==
  {Page!Unused}
    \cup [state: {"sent"}, item: DecisionIds, awaited: BOOLEAN, verdict: Page!Verdicts]
    \cup [state: {"served"}, item: DecisionIds, awaited: BOOLEAN]
    \cup [state: {"accepted", "refused"}, item: DecisionIds, awaited: {TRUE}]

PageStates == [shown: SUBSET DecisionIds, ready: BOOLEAN, submitting: SUBSET DecisionIds]

LEMMA PageTypes ==
  Page!PageTypeOK <=> /\ page \in PageStates
                      /\ lists \in [Lists -> ListStates]
                      /\ posts \in [Posts -> PostStates]
                      /\ faults \in 0..MaxFaults
BY DEF Page!PageTypeOK, PageStates, ListStates, PostStates

LEMMA PostFields ==
  ASSUME NEW p \in PostStates
  PROVE  /\ p.state = "unused" <=> p = Page!Unused
         /\ p.state \in {"unused", "sent", "served", "accepted", "refused"}
         /\ p # Page!Unused => p.item \in DecisionIds /\ p.awaited \in BOOLEAN
         /\ p.state = "sent" =>
              p \in [state: {"sent"}, item: DecisionIds, awaited: BOOLEAN, verdict: Page!Verdicts]
         /\ p.state = "served" =>
              p \in [state: {"served"}, item: DecisionIds, awaited: BOOLEAN]
         /\ p.state \in {"accepted", "refused"} =>
              p \in [state: {"accepted", "refused"}, item: DecisionIds, awaited: {TRUE}]
<1>1. Page!Unused.state = "unused"
  BY DEF Page!Unused
<1>2. CASE p = Page!Unused
  BY <1>1, <1>2
<1>3. CASE p # Page!Unused
  <2>1. \/ p \in [state: {"sent"}, item: DecisionIds, awaited: BOOLEAN, verdict: Page!Verdicts]
        \/ p \in [state: {"served"}, item: DecisionIds, awaited: BOOLEAN]
        \/ p \in [state: {"accepted", "refused"}, item: DecisionIds, awaited: {TRUE}]
    BY <1>3 DEF PostStates
  <2> QED
    BY <1>3, <2>1
<1> QED
  BY <1>2, <1>3

LEMMA ListFields ==
  ASSUME NEW l \in ListStates
  PROVE  /\ l.state = "unused" <=> l = Page!Unused
         /\ l # Page!Unused => l.for \in DecisionIds \cup {None}
         /\ l.state = "answered" => l.items \in SUBSET DecisionIds
<1>1. Page!Unused.state = "unused"
  BY DEF Page!Unused
<1>2. CASE l = Page!Unused
  BY <1>1, <1>2
<1>3. CASE l # Page!Unused
  <2>1. \/ l \in [state: {"sent"}, for: DecisionIds \cup {None}]
        \/ l \in [state: {"answered"}, for: DecisionIds \cup {None}, items: SUBSET DecisionIds]
        \/ l \in [state: {"failed"}, for: DecisionIds \cup {None}]
    BY <1>3 DEF ListStates
  <2> QED
    BY <1>3, <2>1
<1> QED
  BY <1>2, <1>3

\* What the page and its connection do by themselves.
OnPage ==
  \/ \E post \in Posts, item \in DecisionIds, verdict \in Page!Verdicts :
       Page!Click(post, item, verdict)
  \/ \E list \in Lists :
       \/ Page!Refresh(list)
       \/ Page!ShowList(list)
       \/ Page!ShowListError(list)
       \/ \E items \in SUBSET DecisionIds : Page!AnswerList(list, items)
       \/ Page!ListFails(list) /\ (UNCHANGED faults \/ Page!Fault)
  \/ \E post \in Posts :
       \/ Page!Accepted(post)
       \/ Page!Refused(post)
       \/ Page!PostFails(post)

\* The server takes a submission, or answers one.
Serves(post) ==
  posts[post].state = "sent" /\ Page!Served(post) /\ UNCHANGED <<page, lists, faults>>

Answers(post) ==
  /\ posts[post].state \in {"sent", "served"}
  /\ \E state \in {"accepted", "refused"} : Page!Answered(post, state)
  /\ UNCHANGED <<page, lists>>
  /\ UNCHANGED faults \/ Page!Fault

PageMove ==
  \/ UNCHANGED pageVars
  \/ OnPage
  \/ \E post \in Posts : Serves(post) \/ Answers(post)
  \/ Page!Fault /\ UNCHANGED <<page, lists, posts>>

LEMMA FaultType ==
  ASSUME faults \in 0..MaxFaults, Page!Fault
  PROVE  faults' \in 0..MaxFaults /\ faults' # 0
BY LoopAssumption DEF Page!Fault

LEMMA PageMoveKeepsTypes == Page!PageTypeOK /\ PageMove => Page!PageTypeOK'
<1> SUFFICES ASSUME Page!PageTypeOK, PageMove PROVE Page!PageTypeOK'
  OBVIOUS
<1> DEFINE Typed ==
             /\ page' \in PageStates
             /\ lists' \in [Lists -> ListStates]
             /\ posts' \in [Posts -> PostStates]
             /\ faults' \in 0..MaxFaults
<1> SUFFICES Typed
  BY DEF Page!PageTypeOK, PageStates, ListStates, PostStates
<1>1. /\ page \in PageStates
      /\ lists \in [Lists -> ListStates]
      /\ posts \in [Posts -> PostStates]
      /\ faults \in 0..MaxFaults
  BY PageTypes
<1>2. Page!Unused \in ListStates /\ Page!Unused \in PostStates
  BY DEF ListStates, PostStates
<1>3. ASSUME NEW post \in Posts, NEW item \in DecisionIds, NEW verdict \in Page!Verdicts,
             Page!Click(post, item, verdict)
      PROVE  Typed
  <2>1. [state |-> "sent", item |-> item, awaited |-> TRUE, verdict |-> verdict] \in PostStates
    BY DEF PostStates
  <2>2. page' \in PageStates
    BY <1>1, <1>3 DEF Page!Click, PageStates
  <2> QED
    BY <1>1, <1>3, <2>1, <2>2 DEF Page!Click, Page!Send
<1>4. ASSUME NEW list \in Lists, NEW for \in DecisionIds \cup {None}, Page!SendList(list, for)
      PROVE  lists' \in [Lists -> ListStates]
  <2>1. [state |-> "sent", for |-> for] \in ListStates
    BY DEF ListStates
  <2> QED
    BY <1>1, <1>4, <2>1 DEF Page!SendList
<1>5. ASSUME NEW list \in Lists, Page!Refresh(list) PROVE Typed
  <2>1. page' \in PageStates
    BY <1>1, <1>5 DEF Page!Refresh, PageStates
  <2> QED
    BY <1>1, <1>4, <1>5, <2>1 DEF Page!Refresh
<1>6. ASSUME NEW list \in Lists, Page!ShowList(list) PROVE Typed
  <2>1. lists[list].items \in SUBSET DecisionIds
    BY <1>1, <1>6, ListFields DEF Page!ShowList
  <2>2. page' \in PageStates
    BY <1>1, <1>6, <2>1 DEF Page!ShowList, PageStates
  <2> QED
    BY <1>1, <1>2, <1>6, <2>2 DEF Page!ShowList
<1>7. ASSUME NEW list \in Lists, Page!ShowListError(list) PROVE Typed
  <2>1. page' \in PageStates
    BY <1>1, <1>7 DEF Page!ShowListError, PageStates
  <2> QED
    BY <1>1, <1>2, <1>7, <2>1 DEF Page!ShowListError
<1>8. ASSUME NEW list \in Lists, lists[list].state = "sent"
      PROVE  lists[list].for \in DecisionIds \cup {None}
  BY <1>1, <1>8, ListFields DEF Page!Unused
<1>9. ASSUME NEW list \in Lists, NEW items \in SUBSET DecisionIds, Page!AnswerList(list, items)
      PROVE  Typed
  <2>1. [state |-> "answered", for |-> lists[list].for, items |-> items] \in ListStates
    BY <1>8, <1>9 DEF ListStates, Page!AnswerList
  <2> QED
    BY <1>1, <1>9, <2>1 DEF Page!AnswerList
<1>10. ASSUME NEW list \in Lists, Page!ListFails(list), UNCHANGED faults \/ Page!Fault
       PROVE  Typed
  <2>1. [state |-> "failed", for |-> lists[list].for] \in ListStates
    BY <1>8, <1>10 DEF ListStates, Page!ListFails
  <2> QED
    BY <1>1, <1>10, <2>1, FaultType DEF Page!ListFails
<1>11. ASSUME NEW post \in Posts, Page!Accepted(post) PROVE Typed
  <2>1. posts[post].item \in DecisionIds
    BY <1>1, <1>11, PostFields DEF Page!Accepted, Page!Unused
  <2>2. page' \in PageStates
    BY <1>1, <1>11 DEF Page!Accepted, PageStates
  <2>3. lists' \in [Lists -> ListStates]
    BY <1>4, <1>11, <2>1 DEF Page!Accepted
  <2> QED
    BY <1>1, <1>2, <1>11, <2>2, <2>3 DEF Page!Accepted
<1>12. ASSUME NEW post \in Posts, Page!Refused(post) PROVE Typed
  <2>1. page' \in PageStates
    BY <1>1, <1>12 DEF Page!Refused, PageStates
  <2> QED
    BY <1>1, <1>2, <1>12, <2>1 DEF Page!Refused
<1>13. ASSUME NEW post \in Posts, Page!PostFails(post) PROVE Typed
  <2>1. page' \in PageStates
    BY <1>1, <1>13 DEF Page!PostFails, PageStates
  <2>2. posts[post].state \in {"sent", "served"} =>
          [posts[post] EXCEPT !.awaited = FALSE] \in PostStates
    <3>1. CASE posts[post].state = "sent"
      BY <1>1, <3>1, PostFields DEF PostStates
    <3>2. CASE posts[post].state = "served"
      BY <1>1, <3>2, PostFields DEF PostStates
    <3> QED
      BY <3>1, <3>2
  <2>3. posts' \in [Posts -> PostStates]
    BY <1>1, <1>2, <1>13, <2>2 DEF Page!PostFails
  <2> QED
    BY <1>1, <1>13, <2>1, <2>3, FaultType DEF Page!PostFails
<1>14. ASSUME NEW post \in Posts, posts[post].state \in {"sent", "served"}
       PROVE  posts[post].item \in DecisionIds /\ posts[post].awaited \in BOOLEAN
  BY <1>1, <1>14, PostFields DEF Page!Unused
<1>15. ASSUME NEW post \in Posts, Serves(post) PROVE Typed
  <2>1. [state |-> "served", item |-> posts[post].item, awaited |-> posts[post].awaited]
          \in PostStates
    BY <1>14, <1>15 DEF PostStates, Serves
  <2> QED
    BY <1>1, <1>15, <2>1 DEF Serves, Page!Served
<1>16. ASSUME NEW post \in Posts, Answers(post) PROVE Typed
  <2>1. PICK state \in {"accepted", "refused"} : Page!Answered(post, state)
    BY <1>16 DEF Answers
  <2>2. [state |-> state, item |-> posts[post].item, awaited |-> TRUE] \in PostStates
    BY <1>14, <1>16 DEF PostStates, Answers
  <2>3. posts' \in [Posts -> PostStates]
    BY <1>1, <1>2, <2>1, <2>2 DEF Page!Answered
  <2> QED
    BY <1>1, <1>16, <2>3, FaultType DEF Answers
<1>17. CASE UNCHANGED pageVars
  BY <1>1, <1>17 DEF pageVars
<1>18. CASE Page!Fault /\ UNCHANGED <<page, lists, posts>>
  BY <1>1, <1>18, FaultType
<1> HIDE DEF Typed
<1> QED
  BY <1>3, <1>5, <1>6, <1>7, <1>9, <1>10, <1>11, <1>12, <1>13, <1>15, <1>16, <1>17, <1>18
  DEF PageMove, OnPage

\* By itself the page keeps what the server has taken; the server's answer concerns
\* one submission.
LEMMA ServedStays ==
  ASSUME Page!PageTypeOK, OnPage, NEW q \in Posts, posts[q].state = "served"
  PROVE  posts'[q].state = "served" /\ posts'[q].item = posts[q].item
<1>1. posts \in [Posts -> PostStates] /\ posts[q] # Page!Unused
  BY PageTypes DEF Page!Unused
<1>2. posts[q] \in [state: {"served"}, item: DecisionIds, awaited: BOOLEAN]
  BY <1>1, PostFields
<1>3. ASSUME NEW post \in Posts, NEW item \in DecisionIds, NEW verdict \in Page!Verdicts,
             Page!Click(post, item, verdict)
      PROVE  posts'[q] = posts[q]
  BY <1>1, <1>3 DEF Page!Click, Page!Send
<1>4. ASSUME NEW post \in Posts, Page!Accepted(post) \/ Page!Refused(post)
      PROVE  posts'[q] = posts[q]
  BY <1>1, <1>4 DEF Page!Accepted, Page!Refused
<1>5. ASSUME NEW post \in Posts, Page!PostFails(post)
      PROVE  posts'[q].state = "served" /\ posts'[q].item = posts[q].item
  BY <1>1, <1>2, <1>5 DEF Page!PostFails
<1>6. ASSUME NEW list \in Lists,
             \/ Page!Refresh(list)
             \/ Page!ShowList(list)
             \/ Page!ShowListError(list)
             \/ \E items \in SUBSET DecisionIds : Page!AnswerList(list, items)
             \/ Page!ListFails(list)
      PROVE  posts' = posts
  BY <1>6 DEF Page!Refresh, Page!ShowList, Page!ShowListError, Page!AnswerList, Page!ListFails
<1> QED
  BY <1>3, <1>4, <1>5, <1>6 DEF OnPage

\* While nothing has broken, each submission in flight is awaited and the only one for
\* its item; so is the list that reloads the page after one, and until that list has
\* come no other submission for the item is sent.
InFlight(post) == posts[post] # Page!Unused

Reloads(list) == lists[list] # Page!Unused /\ lists[list].for # None

PostsAwaited ==
  \A p \in Posts : InFlight(p) => posts[p].awaited /\ posts[p].item \in page.submitting

PostsApart ==
  \A p, q \in Posts : InFlight(p) /\ InFlight(q) /\ posts[p].item = posts[q].item => p = q

ReloadsAwaited ==
  \A l \in Lists : Reloads(l) =>
    /\ lists[l].for \in page.submitting
    /\ \A p \in Posts : InFlight(p) => posts[p].item # lists[l].for

ReloadsApart ==
  \A l, m \in Lists : Reloads(l) /\ Reloads(m) /\ lists[l].for = lists[m].for => l = m

Submissions == PostsAwaited /\ PostsApart /\ ReloadsAwaited /\ ReloadsApart

SubmissionsInv == faults = 0 => Submissions

LEMMA PageMoveKeepsSubmissions ==
  Page!PageTypeOK /\ SubmissionsInv /\ PageMove => SubmissionsInv'
<1> SUFFICES ASSUME Page!PageTypeOK, SubmissionsInv, PageMove, faults' = 0
             PROVE  Submissions'
  BY DEF SubmissionsInv
<1>1. /\ page \in PageStates
      /\ lists \in [Lists -> ListStates]
      /\ posts \in [Posts -> PostStates]
      /\ faults \in 0..MaxFaults
  BY PageTypes
<1>2. ~ Page!Fault
  BY <1>1, FaultType
<1>3. faults = 0 /\ Submissions
  <2>1. faults' = faults
    BY <1>2 DEF PageMove, OnPage, pageVars, Page!Click, Page!Refresh, Page!ShowList,
                Page!ShowListError, Page!AnswerList, Page!Accepted, Page!Refused,
                Page!PostFails, Serves, Answers
  <2> QED
    BY <2>1 DEF SubmissionsInv
<1>4. /\ \A p \in Posts : InFlight(p) => posts[p].item \in DecisionIds
      /\ \A l \in Lists : lists[l] # Page!Unused => lists[l].for \in DecisionIds \cup {None}
      /\ None \notin DecisionIds
  BY <1>1, PostFields, ListFields, LoopAssumption DEF InFlight
<1>5. /\ \A p \in Posts : posts[p].state # "unused" => InFlight(p)
      /\ \A l \in Lists : lists[l].state # "unused" => lists[l] # Page!Unused
  BY DEF InFlight, Page!Unused
<1>6. ASSUME NEW post \in Posts, NEW item \in DecisionIds, NEW verdict \in Page!Verdicts,
             Page!Click(post, item, verdict)
      PROVE  Submissions'
  <2> DEFINE new == [state |-> "sent", item |-> item, awaited |-> TRUE, verdict |-> verdict]
  <2>1. /\ posts' = [posts EXCEPT ![post] = new]
        /\ posts[post] = Page!Unused
        /\ item \notin page.submitting
        /\ page'.submitting = page.submitting \cup {item}
        /\ lists' = lists
    BY <1>1, <1>6 DEF Page!Click, Page!Send, PageStates
  <2>2. new.item = item /\ new.awaited = TRUE /\ new # Page!Unused
    BY DEF Page!Unused
  <2> HIDE DEF new
  <2>3. \A p \in Posts : posts'[p] = IF p = post THEN new ELSE posts[p]
    BY <1>1, <2>1
  <2>4. \A p \in Posts : InFlight(p) => posts[p].item # item
    BY <1>3, <2>1 DEF Submissions, PostsAwaited
  <2>5. PostsAwaited'
    BY <1>3, <2>1, <2>2, <2>3 DEF Submissions, PostsAwaited, InFlight
  <2>6. PostsApart'
    BY <1>3, <2>2, <2>3, <2>4 DEF Submissions, PostsApart, InFlight
  <2>7. ReloadsAwaited'
    BY <1>3, <2>1, <2>2, <2>3 DEF Submissions, ReloadsAwaited, Reloads, InFlight
  <2>8. ReloadsApart'
    BY <1>3, <2>1 DEF Submissions, ReloadsApart, Reloads
  <2> QED
    BY <2>5, <2>6, <2>7, <2>8 DEF Submissions
<1>7. ASSUME NEW list \in Lists, Page!Refresh(list) PROVE Submissions'
  <2> DEFINE new == [state |-> "sent", for |-> None]
  <2>1. /\ lists' = [lists EXCEPT ![list] = new]
        /\ page'.submitting = page.submitting
        /\ posts' = posts
    BY <1>1, <1>7 DEF Page!Refresh, Page!SendList, PageStates
  <2>2. new.for = None
    OBVIOUS
  <2> HIDE DEF new
  <2>3. \A l \in Lists : lists'[l] = IF l = list THEN new ELSE lists[l]
    BY <1>1, <2>1
  <2> QED
    BY <1>3, <2>1, <2>2, <2>3
    DEF Submissions, PostsAwaited, PostsApart, ReloadsAwaited, ReloadsApart, Reloads, InFlight
<1>8. ASSUME NEW list \in Lists, Page!ShowList(list) \/ Page!ShowListError(list)
      PROVE  Submissions'
  <2>1. /\ lists' = [lists EXCEPT ![list] = Page!Unused]
        /\ page'.submitting = page.submitting \ {lists[list].for}
        /\ posts' = posts
        /\ lists[list] # Page!Unused
    <3>1. CASE Page!ShowList(list)
      BY <1>1, <1>5, <3>1 DEF Page!ShowList, PageStates
    <3>2. CASE Page!ShowListError(list)
      BY <1>1, <1>5, <3>2 DEF Page!ShowListError, PageStates
    <3> QED
      BY <1>8, <3>1, <3>2
  <2>2. \A l \in Lists : lists'[l] = IF l = list THEN Page!Unused ELSE lists[l]
    BY <1>1, <2>1
  <2>3. \A p \in Posts : InFlight(p) => posts[p].item # lists[list].for
    BY <1>3, <1>4, <2>1 DEF Submissions, ReloadsAwaited, Reloads
  <2>4. \A l \in Lists : Reloads(l) /\ l # list => lists[l].for # lists[list].for
    BY <1>3, <2>1 DEF Submissions, ReloadsApart, Reloads
  <2>5. PostsAwaited' /\ PostsApart'
    BY <1>3, <2>1, <2>3 DEF Submissions, PostsAwaited, PostsApart, InFlight
  <2>6. ReloadsAwaited' /\ ReloadsApart'
    BY <1>3, <2>1, <2>2, <2>4 DEF Submissions, ReloadsAwaited, ReloadsApart, Reloads, InFlight
  <2> QED
    BY <2>5, <2>6 DEF Submissions
<1>9. ASSUME NEW list \in Lists, NEW new,
             lists[list].state = "sent",
             lists' = [lists EXCEPT ![list] = new],
             new.for = lists[list].for,
             UNCHANGED <<page, posts>>
      PROVE  Submissions'
  <2>1. \A l \in Lists : lists'[l] = IF l = list THEN new ELSE lists[l]
    BY <1>1, <1>9
  <2>2. \A l \in Lists : Reloads(l)' => Reloads(l) /\ lists'[l].for = lists[l].for
    BY <1>5, <1>9, <2>1 DEF Reloads
  <2> QED
    BY <1>3, <1>9, <2>2
    DEF Submissions, PostsAwaited, PostsApart, ReloadsAwaited, ReloadsApart, InFlight
<1>10. ASSUME NEW list \in Lists, NEW items \in SUBSET DecisionIds, Page!AnswerList(list, items)
       PROVE  Submissions'
  <2> DEFINE new == [state |-> "answered", for |-> lists[list].for, items |-> items]
  <2>1. /\ lists[list].state = "sent"
        /\ lists' = [lists EXCEPT ![list] = new]
        /\ new.for = lists[list].for
        /\ UNCHANGED <<page, posts>>
    BY <1>10 DEF Page!AnswerList
  <2> HIDE DEF new
  <2> QED
    BY <1>9, <2>1
<1>11. ASSUME NEW list \in Lists, Page!ListFails(list) PROVE Submissions'
  <2> DEFINE new == [state |-> "failed", for |-> lists[list].for]
  <2>1. /\ lists[list].state = "sent"
        /\ lists' = [lists EXCEPT ![list] = new]
        /\ new.for = lists[list].for
        /\ UNCHANGED <<page, posts>>
    BY <1>11 DEF Page!ListFails
  <2> HIDE DEF new
  <2> QED
    BY <1>9, <2>1
<1>12. ASSUME NEW post \in Posts, Page!Accepted(post) PROVE Submissions'
  <2> DEFINE item == posts[post].item
             new == [state |-> "sent", for |-> item]
  <2>1. PICK list \in Lists : Page!SendList(list, item)
    BY <1>12 DEF Page!Accepted
  <2>2. /\ posts' = [posts EXCEPT ![post] = Page!Unused]
        /\ lists' = [lists EXCEPT ![list] = new]
        /\ lists[list] = Page!Unused
        /\ page'.submitting = page.submitting
        /\ InFlight(post)
    BY <1>1, <1>5, <1>12, <2>1 DEF Page!Accepted, Page!SendList, PageStates
  <2>3. new.for = item
    OBVIOUS
  <2> HIDE DEF new, item
  <2>4. /\ \A p \in Posts : posts'[p] = IF p = post THEN Page!Unused ELSE posts[p]
        /\ \A l \in Lists : lists'[l] = IF l = list THEN new ELSE lists[l]
    BY <1>1, <2>2
  <2>5. item \in page.submitting
    BY <1>3, <2>2 DEF Submissions, PostsAwaited, item
  <2>6. \A p \in Posts : InFlight(p) /\ p # post => posts[p].item # item
    BY <1>3, <2>2 DEF Submissions, PostsApart, item
  <2>7. \A l \in Lists : Reloads(l) => lists[l].for # item
    BY <1>3, <2>2 DEF Submissions, ReloadsAwaited, item
  <2>8. PostsAwaited' /\ PostsApart'
    BY <1>3, <2>2, <2>4 DEF Submissions, PostsAwaited, PostsApart, InFlight
  <2>9. ASSUME NEW l \in Lists, Reloads(l)'
        PROVE  /\ lists'[l].for \in page'.submitting
               /\ \A p \in Posts : InFlight(p)' => posts'[p].item # lists'[l].for
    <3>1. CASE l = list
      BY <2>2, <2>3, <2>4, <2>5, <2>6, <3>1 DEF InFlight
    <3>2. CASE l # list
      BY <1>3, <2>2, <2>4, <2>9, <3>2 DEF Submissions, ReloadsAwaited, Reloads, InFlight
    <3> QED
      BY <3>1, <3>2
  <2>10. ReloadsAwaited'
    BY <2>9 DEF ReloadsAwaited
  <2>11. ReloadsApart'
    BY <1>3, <2>3, <2>4, <2>7 DEF Submissions, ReloadsApart, Reloads
  <2> QED
    BY <2>8, <2>10, <2>11 DEF Submissions
<1>13. ASSUME NEW post \in Posts, Page!Refused(post) PROVE Submissions'
  <2> DEFINE item == posts[post].item
  <2>1. /\ posts' = [posts EXCEPT ![post] = Page!Unused]
        /\ page'.submitting = page.submitting \ {item}
        /\ lists' = lists
        /\ InFlight(post)
    BY <1>1, <1>5, <1>13 DEF Page!Refused, PageStates
  <2>2. \A p \in Posts : posts'[p] = IF p = post THEN Page!Unused ELSE posts[p]
    BY <1>1, <2>1
  <2>3. \A p \in Posts : InFlight(p) /\ p # post => posts[p].item # item
    BY <1>3, <2>1 DEF Submissions, PostsApart
  <2>4. \A l \in Lists : Reloads(l) => lists[l].for # item
    BY <1>3, <2>1 DEF Submissions, ReloadsAwaited
  <2> HIDE DEF item
  <2>5. PostsAwaited' /\ PostsApart'
    BY <1>3, <2>1, <2>2, <2>3 DEF Submissions, PostsAwaited, PostsApart, InFlight
  <2>6. ReloadsAwaited' /\ ReloadsApart'
    BY <1>3, <2>1, <2>2, <2>4 DEF Submissions, ReloadsAwaited, ReloadsApart, Reloads, InFlight
  <2> QED
    BY <2>5, <2>6 DEF Submissions
<1>14. ASSUME NEW post \in Posts, NEW new,
              InFlight(post),
              posts' = [posts EXCEPT ![post] = new],
              new.item = posts[post].item /\ new.awaited = posts[post].awaited,
              UNCHANGED <<page, lists>>
       PROVE  Submissions'
  <2>1. \A p \in Posts : posts'[p] = IF p = post THEN new ELSE posts[p]
    BY <1>1, <1>14
  <2>2. \A p \in Posts : InFlight(p)' =>
          InFlight(p) /\ posts'[p].item = posts[p].item /\ posts'[p].awaited = posts[p].awaited
    BY <1>14, <2>1 DEF InFlight
  <2> QED
    BY <1>3, <1>14, <2>2
    DEF Submissions, PostsAwaited, PostsApart, ReloadsAwaited, ReloadsApart, Reloads
<1>15. ASSUME NEW post \in Posts, Serves(post) PROVE Submissions'
  <2> DEFINE new == [state |-> "served", item |-> posts[post].item,
                     awaited |-> posts[post].awaited]
  <2>1. /\ InFlight(post)
        /\ posts' = [posts EXCEPT ![post] = new]
        /\ new.item = posts[post].item /\ new.awaited = posts[post].awaited
        /\ UNCHANGED <<page, lists>>
    BY <1>5, <1>15 DEF Serves, Page!Served
  <2> HIDE DEF new
  <2> QED
    BY <1>14, <2>1
<1>16. ASSUME NEW post \in Posts, Answers(post) PROVE Submissions'
  <2>1. PICK state \in {"accepted", "refused"} : Page!Answered(post, state)
    BY <1>16 DEF Answers
  <2> DEFINE new == [state |-> state, item |-> posts[post].item, awaited |-> TRUE]
  <2>2. InFlight(post) /\ posts[post].awaited
    BY <1>3, <1>5, <1>16 DEF Answers, Submissions, PostsAwaited
  <2>3. posts[post].awaited = TRUE
    BY <1>1, <2>2, PostFields DEF InFlight
  <2>4. /\ posts' = [posts EXCEPT ![post] = new]
        /\ new.item = posts[post].item /\ new.awaited = posts[post].awaited
        /\ UNCHANGED <<page, lists>>
    BY <1>16, <2>1, <2>3 DEF Answers, Page!Answered
  <2> HIDE DEF new
  <2> QED
    BY <1>14, <2>2, <2>4
<1>17. CASE UNCHANGED pageVars
  BY <1>3, <1>17 DEF pageVars, Submissions, PostsAwaited, PostsApart, ReloadsAwaited,
                     ReloadsApart, Reloads, InFlight
<1>18. ASSUME NEW post \in Posts, Page!PostFails(post) PROVE FALSE
  BY <1>2, <1>18 DEF Page!PostFails
<1> QED
  BY <1>2, <1>6, <1>7, <1>8, <1>10, <1>11, <1>12, <1>13, <1>15, <1>16, <1>17, <1>18
  DEF PageMove, OnPage

--------------------------------------------------------------------------------
(* The steps of the loop, by what they change *)

BesideUnchanged == UNCHANGED <<cacheVars, gateVars, job, bot>>

LEMMA StepCases ==
  ASSUME Next
  PROVE  \/ Edit \/ Poll \/ RefuseToMint
         \/ \E t \in Threads :
              \/ LoadRules(t) \/ ReadCatalog(t) \/ AnswerReader(t)
              \/ FetchCatalog(t) \/ AnswerCatalog(t) \/ Authorize(t) \/ AnswerAuthorize(t)
              \/ Register(t) \/ Mint(t) \/ StoreForBot(t) \/ StoreFails(t)
              \/ \E post \in Posts : StoreForPage(t, post) \/ Resolve(t, post)
         \/ \E post \in Posts : RefuseToResolve(post)
         \/ OnPage /\ BesideUnchanged
<1>1. ASSUME NEW item \in DecisionIds, PageSends(item) PROVE OnPage /\ BesideUnchanged
  BY <1>1 DEF PageSends, OnPage, BesidePage, BesideUnchanged
<1>2. ASSUME NEW list \in Lists, Refresh(list) PROVE OnPage /\ BesideUnchanged
  BY <1>2 DEF Refresh, OnPage, BesidePage, BesideUnchanged
<1>3. ASSUME NEW list \in Lists, Page!ListStep(list) /\ BesidePage
      PROVE  OnPage /\ BesideUnchanged
  BY <1>3 DEF Page!ListStep, OnPage, BesidePage, BesideUnchanged
<1>4. ASSUME NEW list \in Lists, ListPending(list) PROVE OnPage /\ BesideUnchanged
  <2>1. PendingDecisions \in SUBSET DecisionIds
    BY DEF PendingDecisions
  <2> QED
    BY <1>4, <2>1 DEF ListPending, OnPage, BesideUnchanged
<1>5. ASSUME NEW list \in Lists, ListUnreadable(list) PROVE OnPage /\ BesideUnchanged
  BY <1>5 DEF ListUnreadable, OnPage, BesideUnchanged
<1>6. ASSUME NEW post \in Posts, Page!PostStep(post) /\ BesidePage
      PROVE  OnPage /\ BesideUnchanged
  BY <1>6 DEF Page!PostStep, OnPage, BesidePage, BesideUnchanged
<1>7. ASSUME NEW post \in Posts, Page!PostFails(post) /\ BesidePage
      PROVE  OnPage /\ BesideUnchanged
  BY <1>7 DEF OnPage, BesidePage, BesideUnchanged
<1>8. ASSUME NEW list \in Lists, Page!Fault /\ Page!ListFails(list) /\ BesidePage
      PROVE  OnPage /\ BesideUnchanged
  BY <1>8 DEF OnPage, BesidePage, BesideUnchanged
<1> QED
  BY <1>1, <1>2, <1>3, <1>4, <1>5, <1>6, <1>7, <1>8
  DEF Next, Handler, BotStep, ListStep, PostStep, Breaks

\* Each step of the loop is a step of the cache, or leaves it alone.
LEMMA LoopCacheMove == Next => [CacheNext]_cacheVars
<1> SUFFICES ASSUME Next PROVE [CacheNext]_cacheVars
  OBVIOUS
<1>1. CASE Edit
  BY <1>1 DEF Edit, CacheNext
<1>2. CASE \E t \in Threads :
             \/ LoadRules(t) \/ ReadCatalog(t) \/ AnswerReader(t)
             \/ FetchCatalog(t) \/ AnswerCatalog(t) \/ Authorize(t) \/ AnswerAuthorize(t)
  BY <1>2 DEF LoadRules, ReadCatalog, AnswerReader, FetchCatalog, AnswerCatalog, Authorize,
              AnswerAuthorize, CacheNext
<1>3. CASE \E t \in Threads :
             \/ Register(t) \/ Mint(t) \/ StoreForBot(t) \/ StoreFails(t)
             \/ \E post \in Posts : StoreForPage(t, post) \/ Resolve(t, post)
  BY <1>3 DEF Register, Mint, StoreForBot, StoreFails, StoreForPage, Resolve, cacheVars
<1>4. CASE Poll \/ RefuseToMint \/ (\E post \in Posts : RefuseToResolve(post))
           \/ (OnPage /\ BesideUnchanged)
  BY <1>4 DEF Poll, RefuseToMint, RefuseToResolve, BesideUnchanged, cacheVars
<1> QED
  BY <1>1, <1>2, <1>3, <1>4, StepCases

\* An answer of the policy begins a receipt, or ends the request.
JudgeEnds(t, text) ==
  /\ IsError(Outcome(text))
  /\ bot' = [bot EXCEPT !.answer = [text |-> text, outcome |-> Outcome(text)],
                        !.pc = "failed"]
  /\ End(t)
  /\ UNCHANGED gateVars

JudgeGoesOn(t, text) ==
  /\ ~ IsError(Outcome(text))
  /\ bot' = [bot EXCEPT !.answer = [text |-> text, outcome |-> Outcome(text)],
                        !.pc = "receipt"]
  /\ Gate!AppendRuntimeReceipt(t, BotRun, BotDecision)
  /\ UNCHANGED job

LEMMA AuthorizeAnswers ==
  ASSUME NEW t \in Threads, AnswerAuthorize(t)
  PROVE  /\ Serving(t, "bot") /\ bot.pc = "authorize" /\ UNCHANGED pageVars
         /\ \/ /\ bot' = [bot EXCEPT !.pc = "failed"] \/ bot' = [bot EXCEPT !.pc = "catalog", !.facts = None]
               /\ End(t)
               /\ UNCHANGED gateVars
            \/ JudgeEnds(t, bot.pinned)
            \/ JudgeGoesOn(t, bot.pinned)
BY DEF AnswerAuthorize, EndRequest, Judge, JudgeEnds, JudgeGoesOn

\* Each is a step of the handlers of the approvals, or leaves the timelines alone.
LEMMA LoopGateNext == Page!PageTypeOK /\ Next => [Gate!Next]_gateVars
<1> SUFFICES ASSUME Page!PageTypeOK, Next PROVE [Gate!Next]_gateVars
  OBVIOUS
<1>1. ASSUME NEW t \in Threads, Gate!AppendRuntimeReceipt(t, BotRun, BotDecision)
      PROVE  Gate!Next
  BY <1>1, LoopAssumption DEF Gate!Next, Gate!Begin, Gate!Serve, Gate!AppendRuntimeReceipt,
                              Gate!Handle
<1>2. CASE \E t \in Threads : AnswerAuthorize(t)
  BY <1>1, <1>2, AuthorizeAnswers DEF JudgeEnds, JudgeGoesOn
<1>3. CASE \E t \in Threads : Mint(t)
  BY <1>1, <1>3 DEF Mint
<1>4. CASE \E t \in Threads : Register(t)
  BY <1>4, LoopAssumption DEF Register, Gate!Next, Gate!Begin, Gate!Serve,
                              Gate!RegisterApprovalRequest, Gate!Handle
<1>5. CASE \E t \in Threads : StoreForBot(t) \/ StoreFails(t)
                               \/ \E post \in Posts : StoreForPage(t, post)
  BY <1>5 DEF StoreForBot, StoreFails, StoreForPage, Gate!Next
<1>6. ASSUME NEW t \in Threads, NEW post \in Posts, Resolve(t, post)
      PROVE  Gate!Next
  <2>1. posts[post] \in PostStates /\ posts[post].state = "sent"
    BY <1>6, PageTypes DEF Resolve
  <2>2. posts[post].item \in DecisionIds /\ posts[post].verdict \in {"approved", "rejected"}
    BY <2>1, PostFields DEF Page!Verdicts, Page!Unused
  <2> QED
    BY <1>6, <2>2 DEF Resolve, Gate!Next, Gate!Begin, Gate!ResolveByDecisionId,
                      Gate!ResolvePendingApproval, Gate!Handle
<1>7. CASE \E t \in Threads :
             \/ LoadRules(t) \/ ReadCatalog(t) \/ AnswerReader(t)
             \/ FetchCatalog(t) \/ AnswerCatalog(t) \/ Authorize(t)
  BY <1>7 DEF LoadRules, ElsewhereUnchanged, ReadCatalog, AnswerReader, FetchCatalog,
              AnswerCatalog, Authorize
<1>8. CASE \/ Edit \/ Poll \/ RefuseToMint
           \/ \E post \in Posts : RefuseToResolve(post)
           \/ OnPage /\ BesideUnchanged
  BY <1>8 DEF Edit, ElsewhereUnchanged, Poll, RefuseToMint, RefuseToResolve, BesideUnchanged
<1> QED
  BY <1>2, <1>3, <1>4, <1>5, <1>6, <1>7, <1>8, StepCases

--------------------------------------------------------------------------------
(* Which thread serves whom *)

Clients == {"bot", "reader"} \cup Posts

ServesOne ==
  \A t, u \in Threads : job[t] = job[u] /\ job[t] # None => t = u

ServedPosts ==
  \A t \in Threads : job[t] \in Posts => posts[job[t]].state = "served"

\* Only a submission and the agent have an append under way, and the agent only in
\* the states in which it waits for one.
Appenders ==
  \A t \in Threads : call[t] # Gate!Idle =>
    job[t] \in Posts \/ (job[t] = "bot" /\ bot.pc \in {"receipt", "register", "mint"})

ServingInv ==
  /\ job \in [Threads -> {None} \cup Clients]
  /\ ServesOne
  /\ ServedPosts
  /\ Appenders

LEMMA ClientsAreNotNone == None \notin Clients /\ "bot" \notin Posts /\ "reader" \notin Posts
BY LoopAssumption DEF Clients

\* A step of one thread: it goes on for a client that no other serves.
LEMMA ThreadKeepsServing ==
  ASSUME ServingInv, call \in [Threads -> {Gate!Idle} \cup LoopCall],
         NEW t \in Threads, NEW client \in {None} \cup Clients, NEW next,
         job' = [job EXCEPT ![t] = client],
         call' = [call EXCEPT ![t] = next],
         client # None => client = job[t] \/ Waiting(client),
         client \in Posts => posts'[client].state = "served",
         next # Gate!Idle =>
           client \in Posts \/ (client = "bot" /\ bot'.pc \in {"receipt", "register", "mint"}),
         \A u \in Threads : u # t /\ job[u] \in Posts => posts'[job[u]].state = "served",
         \A u \in Threads : u # t /\ job[u] = "bot" =>
           bot'.pc = bot.pc \/ call[u] = Gate!Idle
  PROVE  ServingInv'
<1>1. \A u \in Threads : /\ job'[u] = IF u = t THEN client ELSE job[u]
                         /\ call'[u] = IF u = t THEN next ELSE call[u]
  BY DEF ServingInv
<1>2. job' \in [Threads -> {None} \cup Clients]
  BY DEF ServingInv
<1>3. ServesOne'
  <2>1. ASSUME NEW u \in Threads, u # t, client # None PROVE job[u] # client
    BY <2>1 DEF ServingInv, ServesOne, Waiting, Serving
  <2> QED
    BY <1>1, <2>1 DEF ServingInv, ServesOne
<1>4. ServedPosts'
  BY <1>1 DEF ServingInv, ServedPosts
<1>5. Appenders'
  BY <1>1 DEF ServingInv, Appenders
<1> QED
  BY <1>2, <1>3, <1>4, <1>5 DEF ServingInv

\* A step of none of them.
LEMMA OtherKeepsServing ==
  ASSUME ServingInv, UNCHANGED <<job, call>>,
         \A u \in Threads : job[u] \in Posts => posts'[job[u]].state = "served",
         \A u \in Threads : job[u] = "bot" => bot'.pc = bot.pc \/ call[u] = Gate!Idle
  PROVE  ServingInv'
<1>1. job' \in [Threads -> {None} \cup Clients] /\ ServesOne'
  BY DEF ServingInv, ServesOne
<1>2. ServedPosts' /\ Appenders'
  BY DEF ServingInv, ServedPosts, Appenders
<1> QED
  BY <1>1, <1>2 DEF ServingInv

\* The submission of an append is served, and one that the server answers is served by
\* no other thread.
LEMMA PostOfCall ==
  ASSUME ServingInv, NEW t \in Threads, call[t] # Gate!Idle, job[t] # "bot"
  PROVE  job[t] \in Posts /\ posts[job[t]].state = "served"
BY DEF ServingInv, Appenders, ServedPosts

LEMMA AnswerKeepsOthers ==
  ASSUME ServingInv, Page!PageTypeOK, NEW post \in Posts, NEW state,
         Page!Answered(post, state),
         NEW u \in Threads, job[u] \in Posts, job[u] # post
  PROVE  posts'[job[u]] = posts[job[u]]
BY PageTypes DEF Page!Answered

\* What the loop does is a move of the page.
LEMMA LoopPageMove ==
  ASSUME ServingInv, Next
  PROVE  PageMove
<1>1. CASE Edit \/ Poll \/ RefuseToMint
  BY <1>1 DEF Edit, ElsewhereUnchanged, Poll, RefuseToMint, PageMove
<1>2. CASE \E t \in Threads :
             \/ LoadRules(t) \/ ReadCatalog(t) \/ AnswerReader(t)
             \/ FetchCatalog(t) \/ AnswerCatalog(t) \/ Authorize(t) \/ AnswerAuthorize(t)
             \/ Register(t) \/ Mint(t) \/ StoreForBot(t)
  BY <1>2 DEF LoadRules, ElsewhereUnchanged, ReadCatalog, AnswerReader, FetchCatalog,
              AnswerCatalog, Authorize, AnswerAuthorize, Register, Mint, StoreForBot, PageMove
<1>3. ASSUME NEW t \in Threads, StoreFails(t) PROVE PageMove
  <2>1. call[t] # Gate!Idle
    BY <1>3 DEF StoreFails, Gate!StoreFails
  <2>2. CASE Serving(t, "bot")
    BY <1>3, <2>2 DEF StoreFails, PageMove
  <2>3. CASE ~ Serving(t, "bot")
    <3>1. job[t] \in Posts /\ posts[job[t]].state = "served"
      BY <2>1, <2>3, PostOfCall DEF Serving
    <3>2. Page!Answered(job[t], "refused") /\ UNCHANGED <<page, lists>> /\ Page!Fault
      BY <1>3, <2>3 DEF StoreFails
    <3>3. Answers(job[t])
      BY <3>1, <3>2 DEF Answers
    <3> QED
      BY <3>1, <3>3 DEF PageMove
  <2> QED
    BY <2>2, <2>3
<1>4. ASSUME NEW t \in Threads, NEW post \in Posts, StoreForPage(t, post) PROVE PageMove
  <2>1. posts[post].state = "served"
    BY <1>4 DEF StoreForPage, Serving, ServingInv, ServedPosts
  <2>2. Answers(post)
    BY <1>4, <2>1 DEF StoreForPage, Answers
  <2> QED
    BY <2>2 DEF PageMove
<1>5. ASSUME NEW t \in Threads, NEW post \in Posts, Resolve(t, post) PROVE PageMove
  BY <1>5 DEF Resolve, Serves, PageMove
<1>6. ASSUME NEW post \in Posts, RefuseToResolve(post) PROVE PageMove
  <2>1. Answers(post)
    BY <1>6 DEF RefuseToResolve, Answers
  <2> QED
    BY <2>1 DEF PageMove
<1>7. CASE OnPage /\ BesideUnchanged
  BY <1>7 DEF PageMove
<1> QED
  BY <1>1, <1>2, <1>3, <1>4, <1>5, <1>6, <1>7, StepCases

--------------------------------------------------------------------------------
(* The agent: what it was told, and what has happened until then *)

AgentStates ==
  [purchase: Purchases, pc: BotStates, pinned: ValidTexts \cup {NoText},
   facts: Facts \cup {None}, answer: [text: ValidTexts, outcome: Outcomes] \cup {None}]

\* The policy's answer to an agent's request.
Judged(agent) ==
  Decide(RulesForUser(RulesOf[agent.pinned], agent.purchase.user), agent.purchase.action,
         [context |-> SentContext(agent.purchase, agent.pinned), run |-> agent.facts])

\* Nothing is written before the policy has answered.
Resting ==
  PolicyInPlay => /\ \A run \in Runs : timeline[run] = << >>
                  /\ \A t \in Threads : call[t] = Gate!Idle

\* The answer is the policy's, under the rules that the agent has seen and on the facts
\* of its run.
JudgedInv ==
  /\ PolicyInPlay => bot.answer = None
  /\ bot.pc = "authorize" =>
       /\ bot.pinned \in ValidTexts
       /\ \A t \in Threads : job[t] = "bot" => bot.facts \in Facts
  /\ ~ PolicyInPlay /\ (bot.pc # "failed" \/ bot.answer # None) =>
       /\ bot.pinned \in ValidTexts
       /\ bot.facts \in Facts
       /\ bot.answer = [text |-> bot.pinned, outcome |-> Judged(bot)]
  /\ ~ PolicyInPlay /\ bot.pc # "failed" => ~ IsError(bot.answer.outcome)

BotInv == bot \in AgentStates /\ Resting /\ JudgedInv

\* The handlers' first steps begin an append of the loop's.
LEMMA LoopBegins ==
  ASSUME GateInv, Page!PageTypeOK, NEW t \in Threads
  PROVE  /\ JudgeGoesOn(t, bot.pinned) \/ Register(t) \/ Mint(t) =>
              \E next \in LoopCall : Begins(t, next) /\ next.event.answers = None
         /\ \A post \in Posts : Resolve(t, post) =>
              \E next \in LoopCall :
                /\ Begins(t, next)
                /\ next.event.answers # None
                /\ next.event.decision_id = posts[post].item
                /\ Gate!Resolvable(next.run, next.event.answers)
                /\ \A run \in Runs : \A i \in DOMAIN timeline[run] :
                     /\ timeline[run][i].decision_id = posts[post].item
                     /\ Gate!IsPendingSignal(timeline[run][i])
                     => run = next.run /\ timeline[run][i].id = next.event.answers
<1>1. ASSUME JudgeGoesOn(t, bot.pinned) \/ Mint(t)
      PROVE  \E next \in LoopCall : Begins(t, next) /\ next.event.answers = None
  BY <1>1, ReceiptBegins DEF GateInv, JudgeGoesOn, Mint, Begins
<1>2. ASSUME Register(t)
      PROVE  \E next \in LoopCall : Begins(t, next) /\ next.event.answers = None
  BY <1>2, RegisterBegins DEF GateInv, Register, Begins
<1>3. ASSUME NEW post \in Posts, Resolve(t, post)
      PROVE  \E next \in LoopCall :
                /\ Begins(t, next)
                /\ next.event.answers # None
                /\ next.event.decision_id = posts[post].item
                /\ Gate!Resolvable(next.run, next.event.answers)
                /\ \A run \in Runs : \A i \in DOMAIN timeline[run] :
                     /\ timeline[run][i].decision_id = posts[post].item
                     /\ Gate!IsPendingSignal(timeline[run][i])
                     => run = next.run /\ timeline[run][i].id = next.event.answers
  <2>1. posts[post] \in PostStates /\ posts[post].state = "sent"
    BY <1>3, PageTypes DEF Resolve
  <2>2. posts[post].verdict \in {"approved", "rejected"}
    BY <2>1, PostFields DEF Page!Verdicts
  <2>3. Gate!ResolveByDecisionId(t, posts[post].item, posts[post].verdict)
    BY <1>3 DEF Resolve
  <2> DEFINE decision == posts[post].item
             verdict == posts[post].verdict
  <2> HIDE DEF decision, verdict
  <2>4. \E next :
           /\ Begins(t, next)
           /\ next.event.answers # None
           /\ next.event.decision_id = decision
           /\ Gate!Resolvable(next.run, next.event.answers)
           /\ \A run \in Runs : \A i \in DOMAIN timeline[run] :
                /\ timeline[run][i].decision_id = decision
                /\ Gate!IsPendingSignal(timeline[run][i])
                => run = next.run /\ timeline[run][i].id = next.event.answers
    <3>1. verdict \in {"approved", "rejected"} /\ Gate!ResolveByDecisionId(t, decision, verdict)
      BY <2>2, <2>3 DEF decision, verdict
    <3> QED
      BY <3>1, ResolveBegins
  <2> QED
    BY <2>4 DEF Begins, decision
<1> QED
  BY <1>1, <1>2, <1>3

LEMMA LoopGateMove ==
  ASSUME GateInv, Page!PageTypeOK, Next
  PROVE  GateMove
<1>1. CASE Edit \/ Poll \/ RefuseToMint \/ (OnPage /\ BesideUnchanged)
           \/ \E post \in Posts : RefuseToResolve(post)
  BY <1>1 DEF Edit, ElsewhereUnchanged, Poll, RefuseToMint, RefuseToResolve,
              BesideUnchanged, GateMove
<1>2. CASE \E t \in Threads :
             \/ LoadRules(t) \/ ReadCatalog(t) \/ AnswerReader(t)
             \/ FetchCatalog(t) \/ AnswerCatalog(t) \/ Authorize(t)
  BY <1>2 DEF LoadRules, ElsewhereUnchanged, ReadCatalog, AnswerReader, FetchCatalog,
              AnswerCatalog, Authorize, GateMove
<1>3. ASSUME NEW t \in Threads, AnswerAuthorize(t) PROVE GateMove
  <2>1. CASE UNCHANGED gateVars
    BY <2>1 DEF GateMove
  <2>2. CASE JudgeGoesOn(t, bot.pinned)
    BY <2>2, LoopBegins DEF GateMove
  <2> QED
    BY <1>3, <2>1, <2>2, AuthorizeAnswers DEF JudgeEnds
<1>4. ASSUME NEW t \in Threads, Register(t) \/ Mint(t) PROVE GateMove
  BY <1>4, LoopBegins DEF GateMove
<1>5. ASSUME NEW t \in Threads, NEW post \in Posts, Resolve(t, post) PROVE GateMove
  <2>1. \E next \in LoopCall : Begins(t, next)
    BY <1>5, LoopBegins
  <2> QED
    BY <2>1 DEF GateMove
<1>6. ASSUME NEW t \in Threads,
             StoreForBot(t) \/ StoreFails(t) \/ \E post \in Posts : StoreForPage(t, post)
      PROVE  GateMove
  BY <1>6 DEF StoreForBot, StoreFails, StoreForPage, GateMove
<1> QED
  BY <1>1, <1>2, <1>3, <1>4, <1>5, <1>6, StepCases

\* An append that ends leaves its thread idle.
LEMMA AppendEnds ==
  ASSUME GateInv, NEW t \in Threads, Gate!StoreEvent(t) \/ Gate!StoreFails(t)
  PROVE  call[t] # Gate!Idle /\ call' = [call EXCEPT ![t] = Gate!Idle]
<1>1. CASE Gate!StoreEvent(t)
  BY <1>1, LoopStore
<1>2. CASE Gate!StoreFails(t)
  BY <1>2, NothingFollows DEF Gate!StoreFails
<1> QED
  BY <1>1, <1>2

\* The threads serve one client each, and clients one thread.
LEMMA NextKeepsServing ==
  ASSUME GateInv, Page!PageTypeOK, ServingInv, BotInv, Next
  PROVE  ServingInv'
<1>1. /\ call \in [Threads -> {Gate!Idle} \cup LoopCall]
      /\ job \in [Threads -> {None} \cup Clients]
      /\ bot \in AgentStates
  BY DEF GateInv, GateTyped, ServingInv, BotInv
<1>2. \A t \in Threads : call[t] # Gate!Idle => job[t] # None /\ job[t] # "reader"
  BY ClientsAreNotNone DEF ServingInv, Appenders, Clients
<1>3. ASSUME UNCHANGED <<job, call>>, UNCHANGED bot,
             \A u \in Threads : job[u] \in Posts => posts'[job[u]].state = "served"
      PROVE  ServingInv'
  BY <1>3, OtherKeepsServing
<1>4. UNCHANGED posts =>
        \A u \in Threads : job[u] \in Posts => posts'[job[u]].state = "served"
  BY DEF ServingInv, ServedPosts
<1>5. CASE Edit \/ \E t \in Threads : LoadRules(t)
  BY <1>3, <1>4, <1>5 DEF Edit, LoadRules, ElsewhereUnchanged, gateVars, pageVars
<1>6. CASE OnPage /\ BesideUnchanged
  <2>1. UNCHANGED <<job, call>> /\ UNCHANGED bot
    BY <1>6 DEF BesideUnchanged, gateVars
  <2>2. \A u \in Threads : job[u] \in Posts => posts'[job[u]].state = "served"
    BY <1>6, ServedStays DEF ServingInv, ServedPosts
  <2> QED
    BY <1>3, <2>1, <2>2
<1>7. ASSUME NEW post \in Posts, RefuseToResolve(post) PROVE ServingInv'
  <2>1. ASSUME NEW u \in Threads, job[u] \in Posts PROVE posts'[job[u]].state = "served"
    <3>1. posts[job[u]].state = "served" /\ posts[post].state = "sent"
      BY <1>7, <2>1 DEF ServingInv, ServedPosts, RefuseToResolve
    <3>2. Page!Answered(post, "refused") /\ job[u] # post
      BY <1>7, <3>1 DEF RefuseToResolve
    <3> QED
      BY <2>1, <3>1, <3>2, AnswerKeepsOthers
  <2> QED
    BY <1>3, <1>7, <2>1 DEF RefuseToResolve, gateVars
<1>8. CASE Poll \/ RefuseToMint
  <2>1. ASSUME NEW u \in Threads, job[u] = "bot" PROVE call[u] = Gate!Idle
    BY <1>8, <2>1, ClientsAreNotNone
    DEF ServingInv, Appenders, Poll, RefuseToMint, Waiting, Serving
  <2>2. UNCHANGED <<job, call>> /\ UNCHANGED posts
    BY <1>8 DEF Poll, RefuseToMint, gateVars, pageVars
  <2> QED
    BY <1>4, <2>1, <2>2, OtherKeepsServing
<1>9. ASSUME NEW t \in Threads, NEW client \in {None, "bot", "reader"},
             UNCHANGED <<posts, call>>,
             job' = [job EXCEPT ![t] = client],
             call[t] = Gate!Idle,
             client # None => Waiting(client),
             bot' = bot \/ PolicyInPlay
      PROVE  ServingInv'
  <2>1. call' = [call EXCEPT ![t] = Gate!Idle]
    BY <1>1, <1>9
  <2>2. \A u \in Threads : job[u] = "bot" => bot'.pc = bot.pc \/ call[u] = Gate!Idle
    BY <1>9 DEF BotInv, Resting
  <2>3. client \in {None} \cup Clients /\ client \notin Posts
    BY ClientsAreNotNone DEF Clients
  <2> QED
    BY <1>1, <1>4, <1>9, <2>1, <2>2, <2>3, ThreadKeepsServing
<1>10. ASSUME NEW t \in Threads,
              \/ ReadCatalog(t) \/ AnswerReader(t)
              \/ FetchCatalog(t) \/ AnswerCatalog(t) \/ Authorize(t)
       PROVE  ServingInv'
  <2>1. UNCHANGED <<posts, call>>
    BY <1>10 DEF ReadCatalog, AnswerReader, FetchCatalog, AnswerCatalog, Authorize, gateVars,
                 pageVars
  <2>2. CASE ReadCatalog(t)
    <3>1. job[t] = None /\ job' = [job EXCEPT ![t] = "reader"] /\ Waiting("reader")
          /\ bot' = bot
      BY <2>2 DEF ReadCatalog, Begin, Free
    <3> QED
      BY <1>2, <1>9, <2>1, <3>1, ClientsAreNotNone DEF Clients
  <2>3. CASE AnswerReader(t)
    <3>1. job[t] = "reader" /\ job' = [job EXCEPT ![t] = None] /\ bot' = bot
      BY <2>3 DEF AnswerReader, Serving, End
    <3> QED
      BY <1>2, <1>9, <2>1, <3>1
  <2>4. CASE FetchCatalog(t) \/ Authorize(t)
    <3>1. job[t] = None /\ job' = [job EXCEPT ![t] = "bot"] /\ Waiting("bot") /\ PolicyInPlay
      BY <2>4 DEF FetchCatalog, Authorize, Begin, Free, PolicyInPlay
    <3> QED
      BY <1>2, <1>9, <2>1, <3>1, ClientsAreNotNone DEF Clients
  <2>5. CASE AnswerCatalog(t)
    <3>1. PolicyInPlay /\ job' = [job EXCEPT ![t] = None]
      BY <2>5 DEF AnswerCatalog, End, PolicyInPlay
    <3>2. call[t] = Gate!Idle
      BY <3>1 DEF BotInv, Resting
    <3> QED
      BY <1>9, <2>1, <3>1, <3>2
  <2> QED
    BY <1>10, <2>2, <2>3, <2>4, <2>5
<1>11. ASSUME NEW t \in Threads, NEW next \in LoopCall, Begins(t, next),
              UNCHANGED posts,
              bot.pc = "authorize" \/ bot'.pc = bot.pc,
              bot'.pc \in {"receipt", "register", "mint"},
              \/ job[t] = "bot" /\ UNCHANGED job
              \/ Waiting("bot") /\ job' = [job EXCEPT ![t] = "bot"]
       PROVE  ServingInv'
  <2>1. call' = [call EXCEPT ![t] = next]
    BY <1>11 DEF Begins, Gate!Handle
  <2>2. job' = [job EXCEPT ![t] = "bot"] /\ ("bot" = job[t] \/ Waiting("bot"))
    BY <1>1, <1>11
  <2>3. \A u \in Threads : job[u] = "bot" => bot'.pc = bot.pc \/ call[u] = Gate!Idle
    BY <1>11 DEF BotInv, Resting, PolicyInPlay
  <2>4. "bot" \in Clients /\ "bot" \notin Posts
    BY ClientsAreNotNone DEF Clients
  <2> QED
    BY <1>1, <1>4, <1>11, <2>1, <2>2, <2>3, <2>4, ThreadKeepsServing
<1>12. ASSUME NEW t \in Threads, AnswerAuthorize(t) PROVE ServingInv'
  <2>1. /\ job[t] = "bot" /\ bot.pc = "authorize" /\ UNCHANGED posts
        /\ call[t] = Gate!Idle
    BY <1>12, AuthorizeAnswers DEF Serving, pageVars, BotInv, Resting, PolicyInPlay
  <2>2. CASE End(t) /\ UNCHANGED gateVars
    BY <1>9, <2>1, <2>2 DEF End, gateVars, PolicyInPlay
  <2>3. CASE JudgeGoesOn(t, bot.pinned)
    <3>1. PICK next \in LoopCall : Begins(t, next)
      BY <2>3, LoopBegins
    <3>2. bot'.pc = "receipt" /\ UNCHANGED job
      BY <1>1, <2>3 DEF JudgeGoesOn, AgentStates
    <3> QED
      BY <1>11, <2>1, <3>1, <3>2
  <2> QED
    BY <1>12, <2>2, <2>3, AuthorizeAnswers DEF JudgeEnds
<1>13. ASSUME NEW t \in Threads, Register(t) \/ Mint(t) PROVE ServingInv'
  <2>1. PICK next \in LoopCall : Begins(t, next)
    BY <1>13, LoopBegins
  <2>2. /\ UNCHANGED posts /\ bot' = bot /\ bot.pc \in {"register", "mint"}
        /\ \/ job[t] = "bot" /\ UNCHANGED job
           \/ Waiting("bot") /\ job' = [job EXCEPT ![t] = "bot"]
    BY <1>13 DEF Register, Mint, Begin, Serving, pageVars
  <2> QED
    BY <1>11, <2>1, <2>2
<1>14. ASSUME NEW t \in Threads, NEW post \in Posts, Resolve(t, post) PROVE ServingInv'
  <2>1. PICK next \in LoopCall : Begins(t, next)
    BY <1>14, LoopBegins
  <2>2. /\ call' = [call EXCEPT ![t] = next]
        /\ job' = [job EXCEPT ![t] = post] /\ Waiting(post) /\ bot' = bot
        /\ posts' = [posts EXCEPT ![post] =
                       [state |-> "served", item |-> posts[post].item,
                        awaited |-> posts[post].awaited]]
    BY <1>14, <2>1 DEF Begins, Gate!Handle, Resolve, Begin, Page!Served
  <2>3. \A q \in Posts : posts'[q].state = "served" \/ (q # post /\ posts'[q] = posts[q])
    BY <2>2, PageTypes
  <2>4. posts'[post].state = "served" /\ post \in Clients
    BY <2>2, <2>3 DEF Clients
  <2>5. \A u \in Threads : job[u] \in Posts => posts'[job[u]].state = "served"
    BY <2>3 DEF ServingInv, ServedPosts
  <2> QED
    BY <1>1, <2>2, <2>4, <2>5, ThreadKeepsServing
<1>15. ASSUME NEW t \in Threads, StoreForBot(t) PROVE ServingInv'
  <2>1. /\ call' = [call EXCEPT ![t] = Gate!Idle]
        /\ job[t] = "bot" /\ UNCHANGED posts
        /\ job' = job \/ job' = [job EXCEPT ![t] = None]
    BY <1>15, AppendEnds DEF StoreForBot, Serving, End, pageVars
  <2>2. PICK client \in {None, "bot"} : job' = [job EXCEPT ![t] = client]
    BY <1>1, <2>1
  <2>3. \A u \in Threads : u # t => job[u] # "bot"
    BY <2>1, ClientsAreNotNone DEF ServingInv, ServesOne, Clients
  <2>4. client \notin Posts /\ client \in {None} \cup Clients
    BY ClientsAreNotNone DEF Clients
  <2> QED
    BY <1>1, <1>4, <2>1, <2>2, <2>3, <2>4, ThreadKeepsServing
<1>16. ASSUME NEW t \in Threads, NEW post \in Posts, NEW state,
              job[t] = post, Page!Answered(post, state), bot' = bot,
              call' = [call EXCEPT ![t] = Gate!Idle], job' = [job EXCEPT ![t] = None]
       PROVE  ServingInv'
  <2>1. ASSUME NEW u \in Threads, u # t, job[u] \in Posts PROVE posts'[job[u]].state = "served"
    <3>1. job[u] # post /\ posts[job[u]].state = "served"
      BY <1>16, <2>1, ClientsAreNotNone DEF ServingInv, ServesOne, ServedPosts, Clients
    <3> QED
      BY <1>16, <2>1, <3>1, AnswerKeepsOthers
  <2> QED
    BY <1>1, <1>16, <2>1, ClientsAreNotNone, ThreadKeepsServing DEF Clients
<1>17. ASSUME NEW t \in Threads, NEW post \in Posts, StoreForPage(t, post) PROVE ServingInv'
  <2>1. call' = [call EXCEPT ![t] = Gate!Idle]
    BY <1>17, AppendEnds DEF StoreForPage
  <2> QED
    BY <1>16, <1>17, <2>1 DEF StoreForPage, Serving, End
<1>18. ASSUME NEW t \in Threads, StoreFails(t) PROVE ServingInv'
  <2>1. /\ call[t] # Gate!Idle /\ call' = [call EXCEPT ![t] = Gate!Idle]
        /\ job' = [job EXCEPT ![t] = None]
    BY <1>18, AppendEnds DEF StoreFails, End
  <2>2. CASE job[t] = "bot"
    <3>1. UNCHANGED posts
      BY <1>18, <2>2 DEF StoreFails, Serving
    <3>2. \A u \in Threads : u # t => job[u] # "bot"
      BY <2>2, ClientsAreNotNone DEF ServingInv, ServesOne, Clients
    <3> QED
      BY <1>1, <1>4, <2>1, <3>1, <3>2, ClientsAreNotNone, ThreadKeepsServing DEF Clients
  <2>3. CASE job[t] # "bot"
    <3>1. job[t] \in Posts /\ Page!Answered(job[t], "refused") /\ bot' = bot
      BY <1>18, <2>1, <2>3, PostOfCall DEF StoreFails, Serving
    <3> QED
      BY <1>16, <2>1, <3>1
  <2> QED
    BY <2>2, <2>3
<1> QED
  BY <1>5, <1>6, <1>7, <1>8, <1>10, <1>12, <1>13, <1>14, <1>15, <1>17, <1>18, StepCases

\* The rules of a user in a text that parses, and what the agent sends.
RulesSeen(agent) == RulesForUser(RulesOf[agent.pinned], agent.purchase.user)

Sent(agent) ==
  [context |-> SentContext(agent.purchase, agent.pinned), run |-> agent.facts]

AllInputs(agent) == [context |-> agent.purchase.context, run |-> agent.facts]

LEMMA RulesAreWellFormed ==
  ASSUME NEW text \in ValidTexts, NEW user
  PROVE  LET rules == RulesForUser(RulesOf[text], user)
         IN  /\ IsList(rules)
             /\ \A i \in DOMAIN rules :
                  IsCondition(rules[i].when) /\ rules[i].action \in RuleActions
<1> DEFINE catalog == RulesOf[text]
           rules == RulesForUser(catalog, user)
<1>1. CASE user \notin DOMAIN catalog
  <2>1. rules = << >>
    BY <1>1 DEF RulesForUser
  <2>2. Len(<< >>) = 0 /\ DOMAIN << >> = 1..0
    OBVIOUS
  <2>3. IsList(<< >>)
    BY <2>2 DEF IsList
  <2> QED
    BY <2>1, <2>2, <2>3
<1>2. CASE user \in DOMAIN catalog
  <2>1. rules = catalog[user]
    BY <1>2 DEF RulesForUser
  <2>2. /\ ~ IsError(ParseRulesCatalog(catalog))
        /\ IsList(catalog[user])
        /\ \A i \in DOMAIN catalog[user] : IsCondition(catalog[user][i].when)
    BY <1>2, RulesAssumption
  <2> HIDE DEF catalog
  <2>3. IsError(Failure("RULE_CONFIGURATION_ERROR"))
    BY DEF IsError, Failure
  <2>4. \A i \in DOMAIN catalog[user] : WellFormedRule(catalog[user][i])
    BY <1>2, <2>2, <2>3 DEF ParseRulesCatalog
  <2>5. \A i \in DOMAIN catalog[user] : catalog[user][i].action \in RuleActions
    BY <2>4 DEF WellFormedRule
  <2> HIDE DEF rules
  <2> QED
    BY <2>1, <2>2, <2>5 DEF rules, catalog
<1> QED
  BY <1>1, <1>2

LEMMA FactsAreValues ==
  ASSUME NEW facts \in Facts
  PROVE  /\ DOMAIN facts = {"event_count", "has_pending_approval"}
         /\ \A name \in DOMAIN facts : IsValue(facts[name])
<1>1. /\ DOMAIN facts = {"event_count", "has_pending_approval"}
      /\ facts.event_count \in {Number(n) : n \in 0..MaxEvents}
      /\ facts.has_pending_approval \in {Boolean(FALSE), Boolean(TRUE)}
  BY DEF Facts
<1>2. IsValue(facts.event_count)
  BY <1>1 DEF Number, IsValue
<1>3. IsValue(facts.has_pending_approval)
  BY <1>1 DEF Boolean, IsValue
<1> QED
  BY <1>1, <1>2, <1>3

\* What is sent is part of the purchase.
LEMMA SentIsPart ==
  ASSUME NEW agent \in AgentStates, agent.facts \in Facts
  PROVE  IsPart(Sent(agent), AllInputs(agent))
<1> DEFINE context == SentContext(agent.purchase, agent.pinned)
           sent == Sent(agent)
           inputs == AllInputs(agent)
<1>1. agent.purchase \in Purchases
  BY DEF AgentStates
<1>2. \A name \in DOMAIN context :
        name \in Fields \cup AlwaysSent /\ context[name] = agent.purchase.context[name]
  BY DEF SentContext
<1>3. \A name \in DOMAIN context : IsValue(context[name])
  BY <1>1, <1>2, PurchasesAssumption
<1> HIDE DEF context
<1>4. /\ DOMAIN sent = {"context", "run"}
      /\ sent["context"] = context /\ sent["run"] = agent.facts
      /\ inputs["context"] = agent.purchase.context /\ inputs["run"] = agent.facts
  BY DEF Sent, AllInputs, context
<1> HIDE DEF sent, inputs
<1>5. \A name \in DOMAIN sent["run"] : IsValue(sent["run"][name])
  BY <1>4, FactsAreValues
<1>6. \A of \in DOMAIN sent : \A name \in DOMAIN sent[of] :
        IsValue(sent[of][name]) /\ inputs[of][name] = sent[of][name]
  BY <1>2, <1>3, <1>4, <1>5
<1> QED
  BY <1>6 DEF IsPart, sent, inputs

\* The answer of the policy is an error that the rules raise on what is sent, or the
\* strictest of those that match.
LEMMA JudgedMeans ==
  ASSUME NEW agent \in AgentStates, agent.pinned \in ValidTexts, agent.facts \in Facts
  PROVE  LET rules == RulesSeen(agent)
             it == Judged(agent)
         IN  \/ /\ IsError(it)
                /\ \E i \in Applicable(rules, agent.purchase.action) :
                     Raises(it, rules[i].when, Sent(agent))
             \/ it = Verdict(Strictest(rules, agent.purchase.action, AllInputs(agent)))
<1> DEFINE rules == RulesSeen(agent)
           sent == Sent(agent)
           inputs == AllInputs(agent)
           action == agent.purchase.action
<1>1. /\ IsList(rules)
      /\ \A i \in DOMAIN rules : IsCondition(rules[i].when) /\ rules[i].action \in RuleActions
  BY RulesAreWellFormed DEF RulesSeen
<1>2. IsPart(sent, inputs)
  BY SentIsPart
<1>3. Judged(agent) = Decide(rules, action, sent)
  BY DEF Judged, RulesSeen, Sent
<1> HIDE DEF rules, sent, inputs, action
<1>4. LET it == Decide(rules, action, sent)
      IN  \/ /\ IsError(it)
             /\ \E i \in Applicable(rules, action) : Raises(it, rules[i].when, sent)
          \/ it = Verdict(Strictest(rules, action, inputs))
  BY ONLY <1>1, <1>2, DecideMeans
<1> QED
  BY <1>3, <1>4 DEF rules, sent, inputs, action

LEMMA JudgedTyped ==
  ASSUME NEW agent \in AgentStates, agent.pinned \in ValidTexts, agent.facts \in Facts
  PROVE  Judged(agent) \in Outcomes
<1> DEFINE it == Judged(agent)
<1>1. CASE it = Failure("RULE_EXPRESSION_ERROR") \/ it = Failure("RULE_INPUT_ERROR")
  BY <1>1 DEF Outcomes, Failure
<1>2. ASSUME NEW rules, NEW action, NEW inputs, it = Verdict(Strictest(rules, action, inputs))
      PROVE  it \in Outcomes
  BY <1>2 DEF Strictest, Verdict, Outcomes
<1>3. CASE \E i \in Applicable(RulesSeen(agent), agent.purchase.action) :
             Raises(it, RulesSeen(agent)[i].when, Sent(agent))
  BY <1>1, <1>3 DEF Raises
<1> QED
  BY <1>2, <1>3, JudgedMeans

\* The table of judgements has the policy's answer.
LEMMA OutcomeIsJudged ==
  ASSUME bot \in AgentStates, bot.pinned \in ValidTexts, bot.facts \in Facts
  PROVE  Outcome(bot.pinned) = Judged(bot)
<1> DEFINE Wanted(j) == /\ j.text = bot.pinned
                        /\ j.pinned = bot.pinned
                        /\ j.purchase = bot.purchase
                        /\ j.facts = bot.facts
           row == [text |-> bot.pinned, pinned |-> bot.pinned, purchase |-> bot.purchase,
                   facts |-> bot.facts, outcome |-> Judged(bot)]
           found == CHOOSE j \in Judgements : Wanted(j)
<1>1. bot.purchase \in Purchases
  BY DEF AgentStates
<1>2. row \in Judgements
  BY <1>1 DEF Judgements, Judged
<1>3. Wanted(row)
  OBVIOUS
<1>4. ASSUME NEW j \in Judgements, Wanted(j) PROVE j.outcome = Judged(bot)
  <2>1. j \in Judgements
    BY <1>4
  <2>2. PICK text \in ValidTexts, pinned \in ValidTexts, purchase \in Purchases,
             facts \in Facts :
          j = [text |-> text, pinned |-> pinned, purchase |-> purchase, facts |-> facts,
               outcome |-> Decide(RulesForUser(RulesOf[text], purchase.user), purchase.action,
                                  [context |-> SentContext(purchase, pinned), run |-> facts])]
    BY ONLY <2>1 DEF Judgements
  <2>3. text = bot.pinned /\ pinned = bot.pinned /\ purchase = bot.purchase /\ facts = bot.facts
    BY <1>4, <2>2
  <2>4. j.outcome = Decide(RulesForUser(RulesOf[text], purchase.user), purchase.action,
                           [context |-> SentContext(purchase, pinned), run |-> facts])
    BY <2>2
  <2> QED
    BY <2>3, <2>4 DEF Judged
<1> HIDE DEF row
<1>5. found \in Judgements /\ Wanted(found)
  <2> HIDE DEF Wanted
  <2> QED
    BY <1>2, <1>3
<1>6. found.outcome = Judged(bot)
  <2> HIDE DEF Wanted, found
  <2> QED
    BY <1>4, <1>5
<1>7. Outcome(bot.pinned) = found.outcome
  BY DEF Outcome
<1> QED
  BY <1>6, <1>7

\* Before anything is written the run has no events.
LEMMA RunFactsTyped ==
  ASSUME Resting, PolicyInPlay
  PROVE  RunFacts(BotRun) \in Facts
<1> DEFINE waits == Gate!ProjectRunStatus(timeline[BotRun]).pending # None
<1>1. timeline[BotRun] = << >>
  BY LoopAssumption DEF Resting
<1>2. Len(timeline[BotRun]) = 0 /\ 0 \in 0..MaxEvents
  BY <1>1, LoopAssumption
<1>3. Number(Len(timeline[BotRun])) \in {Number(n) : n \in 0..MaxEvents}
  BY <1>2
<1>4. Boolean(waits) \in {Boolean(FALSE), Boolean(TRUE)}
  <2>1. waits = TRUE \/ waits = FALSE
    OBVIOUS
  <2> HIDE DEF waits
  <2> QED
    BY <2>1
<1> QED
  BY <1>3, <1>4 DEF RunFacts, Facts

\* After the policy's answer the agent goes on to the mint if that allowed, or if the
\* approval is given, and to the purchase from there.
GoesOn(pc) ==
  /\ bot' = [bot EXCEPT !.pc = pc]
  /\ pc = "mint" => Allowed \/ DecisionStatus(BotDecision) = "approved"
  /\ pc = "bought" => bot.pc = "mint"

\* The agent's request ends, begins or goes on.
LEMMA AgentMoves ==
  ASSUME CacheTypeOK, GateInv, Page!PageTypeOK, ServingInv, BotInv, Next
  PROVE  \/ /\ bot' = bot
            /\ PolicyInPlay => /\ UNCHANGED gateVars
                               /\ bot.pc = "authorize" =>
                                    \A u \in Threads : job'[u] = "bot" => job[u] = "bot"
         \/ /\ bot.pc \in {"receipt", "register", "poll", "mint"}
            /\ \E pc \in BotDone \cup {"mint", "register", "poll"} : GoesOn(pc)
         \/ /\ PolicyInPlay
            /\ UNCHANGED gateVars
            /\ \A u \in Threads : job'[u] # "bot"
            /\ \/ bot' = [bot EXCEPT !.pc = "failed"]
               \/ bot' = [bot EXCEPT !.pc = "catalog", !.facts = None]
               \/ \E text \in ValidTexts : bot' = [bot EXCEPT !.pc = "authorize", !.pinned = text]
         \/ /\ bot.pc = "authorize"
            /\ UNCHANGED gateVars
            /\ bot' = [bot EXCEPT !.facts = RunFacts(BotRun)]
         \/ /\ bot.pc = "authorize"
            /\ \E u \in Threads : job[u] = "bot"
            /\ bot' = [bot EXCEPT !.answer = [text |-> bot.pinned, outcome |-> Outcome(bot.pinned)],
                                  !.pc = IF IsError(Outcome(bot.pinned)) THEN "failed" ELSE "receipt"]
<1>1. \A t, u \in Threads : job[t] = "bot" /\ job[u] = "bot" => t = u
  BY ClientsAreNotNone DEF ServingInv, ServesOne, Clients
<1>2. job \in [Threads -> {None} \cup Clients] /\ None # "bot" /\ "reader" # "bot"
  BY ClientsAreNotNone DEF ServingInv, Clients
<1>3. ASSUME NEW t \in Threads, job[t] = "bot", End(t)
      PROVE  \A u \in Threads : job'[u] # "bot"
  BY <1>1, <1>2, <1>3 DEF End
<1>4. CASE Edit \/ (\E t \in Threads : LoadRules(t)) \/ (OnPage /\ BesideUnchanged)
           \/ \E post \in Posts : RefuseToResolve(post)
  BY <1>4 DEF Edit, LoadRules, ElsewhereUnchanged, BesideUnchanged, RefuseToResolve, gateVars
<1>5. ASSUME NEW t \in Threads, ReadCatalog(t) \/ AnswerReader(t)
      PROVE  bot' = bot /\ UNCHANGED gateVars /\ \A u \in Threads : job'[u] = "bot" => job[u] = "bot"
  <2>1. job' = [job EXCEPT ![t] = "reader"] \/ job' = [job EXCEPT ![t] = None]
    BY <1>5 DEF ReadCatalog, AnswerReader, Begin, End
  <2>2. bot' = bot /\ UNCHANGED gateVars
    BY <1>5 DEF ReadCatalog, AnswerReader
  <2> QED
    BY <1>2, <2>1, <2>2
<1>6. ASSUME NEW t \in Threads, FetchCatalog(t)
      PROVE  bot' = bot /\ UNCHANGED gateVars /\ bot.pc = "catalog"
  BY <1>6 DEF FetchCatalog
<1>7. ASSUME NEW t \in Threads, AnswerCatalog(t)
      PROVE  /\ PolicyInPlay /\ UNCHANGED gateVars /\ (\A u \in Threads : job'[u] # "bot")
             /\ \/ bot' = [bot EXCEPT !.pc = "failed"]
                \/ \E text \in ValidTexts :
                     bot' = [bot EXCEPT !.pc = "authorize", !.pinned = text]
  <2>1. /\ job[t] = "bot" /\ bot.pc = "catalog" /\ UNCHANGED gateVars /\ End(t)
        /\ load[t].pc \in {"loaded", "failed"}
        /\ bot' = IF load[t].pc = "failed" THEN [bot EXCEPT !.pc = "failed"]
                  ELSE [bot EXCEPT !.pc = "authorize", !.pinned = load[t].text]
    BY <1>7 DEF AnswerCatalog, Serving, EndLoad
  <2>2. load[t].pc = "loaded" => load[t].text \in ValidTexts
    <3>1. load[t] \in Load
      BY DEF CacheTypeOK
    <3>2. load[t].pc = "loaded" => load[t] \in [pc: {"loaded"}, text: ValidTexts]
      BY <3>1 DEF Load, Idle
    <3> QED
      BY <3>2
  <2> QED
    BY <1>3, <2>1, <2>2 DEF PolicyInPlay
<1>8. ASSUME NEW t \in Threads, Authorize(t)
      PROVE  /\ bot.pc = "authorize" /\ UNCHANGED gateVars
             /\ bot' = [bot EXCEPT !.facts = RunFacts(BotRun)]
  BY <1>8 DEF Authorize
<1>9. ASSUME NEW t \in Threads, AnswerAuthorize(t)
      PROVE  \/ /\ PolicyInPlay
                /\ UNCHANGED gateVars
                /\ \A u \in Threads : job'[u] # "bot"
                /\ \/ bot' = [bot EXCEPT !.pc = "failed"]
                   \/ bot' = [bot EXCEPT !.pc = "catalog", !.facts = None]
             \/ /\ bot.pc = "authorize"
                /\ \E u \in Threads : job[u] = "bot"
                /\ bot' = [bot EXCEPT
                             !.answer = [text |-> bot.pinned, outcome |-> Outcome(bot.pinned)],
                             !.pc = IF IsError(Outcome(bot.pinned)) THEN "failed" ELSE "receipt"]
  <2>1. job[t] = "bot" /\ bot.pc = "authorize"
    BY <1>9, AuthorizeAnswers DEF Serving
  <2>2. CASE (bot' = [bot EXCEPT !.pc = "failed"] \/ bot' = [bot EXCEPT !.pc = "catalog", !.facts = None])
             /\ End(t) /\ UNCHANGED gateVars
    BY <1>3, <2>1, <2>2 DEF PolicyInPlay
  <2>3. CASE JudgeEnds(t, bot.pinned)
    BY <2>1, <2>3 DEF JudgeEnds
  <2>4. CASE JudgeGoesOn(t, bot.pinned)
    BY <2>1, <2>4 DEF JudgeGoesOn
  <2> QED
    BY <1>9, <2>2, <2>3, <2>4, AuthorizeAnswers
<1>10. ASSUME NEW t \in Threads, Register(t) \/ Mint(t) PROVE bot' = bot /\ ~ PolicyInPlay
  BY <1>10 DEF Register, Mint, PolicyInPlay
<1>11. ASSUME NEW t \in Threads, NEW post \in Posts, Resolve(t, post)
       PROVE  bot' = bot /\ ~ PolicyInPlay
  <2>1. bot' = bot /\ Gate!PendingEvents(posts[post].item) # {}
    BY <1>11 DEF Resolve, Gate!ResolveByDecisionId
  <2>2. \E run \in Runs : DOMAIN timeline[run] # {}
    BY <2>1 DEF Gate!PendingEvents, Gate!LifecycleEvents
  <2>3. DOMAIN << >> = {}
    OBVIOUS
  <2> QED
    BY <2>1, <2>2, <2>3 DEF BotInv, Resting
<1>12. ASSUME NEW t \in Threads, Gate!StoreEvent(t) \/ Gate!StoreFails(t)
       PROVE  /\ ~ PolicyInPlay
              /\ job[t] = "bot" => bot.pc \in {"receipt", "register", "mint"}
  <2>1. call[t] # Gate!Idle
    BY <1>12, AppendEnds
  <2> QED
    BY <2>1, ClientsAreNotNone DEF BotInv, Resting, ServingInv, Appenders
<1>13. ASSUME NEW t \in Threads, StoreForBot(t)
       PROVE  /\ bot.pc \in {"receipt", "register", "mint"}
              /\ \E pc \in BotDone \cup {"mint", "register", "poll"} : GoesOn(pc)
  <2>1. bot.pc \in {"receipt", "register", "mint"} /\ bot' = [bot EXCEPT !.pc = AfterAppend]
    BY <1>12, <1>13 DEF StoreForBot, Serving
  <2>2. AfterAppend \in BotDone \cup {"mint", "register", "poll"}
    BY <2>1 DEF AfterAppend, BotDone
  <2>3. /\ AfterAppend = "mint" => Allowed
        /\ AfterAppend = "bought" => bot.pc = "mint"
    BY <2>1 DEF AfterAppend, Allowed
  <2> QED
    BY <2>1, <2>2, <2>3 DEF GoesOn
<1>14. ASSUME NEW t \in Threads, StoreFails(t)
       PROVE  \/ bot' = bot /\ ~ PolicyInPlay
              \/ /\ bot.pc \in {"receipt", "register", "mint"}
                 /\ \E pc \in BotDone \cup {"mint", "register", "poll"} : GoesOn(pc)
  <2>1. "failed" \in BotDone
    BY DEF BotDone
  <2> QED
    BY <1>12, <1>14, <2>1 DEF StoreFails, Serving, GoesOn
<1>15. ASSUME NEW t \in Threads, NEW post \in Posts, StoreForPage(t, post)
       PROVE  bot' = bot /\ ~ PolicyInPlay
  BY <1>12, <1>15 DEF StoreForPage
<1>16. CASE Poll \/ RefuseToMint
  BY <1>16 DEF Poll, RefuseToMint, BotDone, GoesOn
<1> QED
  BY <1>4, <1>5, <1>6, <1>7, <1>8, <1>9, <1>10, <1>11, <1>13, <1>14, <1>15, <1>16, StepCases
  DEF PolicyInPlay

\* What the agent knows is kept.
LEMMA NextKeepsBotInv ==
  ASSUME CacheTypeOK, GateInv, Page!PageTypeOK, ServingInv, BotInv, Next
  PROVE  BotInv'
<1>1. bot \in AgentStates /\ Resting /\ JudgedInv
  BY DEF BotInv
<1>2. CASE /\ bot' = bot
           /\ PolicyInPlay => /\ UNCHANGED gateVars
                              /\ bot.pc = "authorize" =>
                                   \A u \in Threads : job'[u] = "bot" => job[u] = "bot"
  <2>1. bot' \in AgentStates
    BY <1>1, <1>2
  <2>2. Resting'
    BY <1>1, <1>2 DEF Resting, PolicyInPlay, gateVars
  <2>3. JudgedInv'
    BY <1>1, <1>2 DEF JudgedInv, PolicyInPlay, Judged, SentContext
  <2> QED
    BY <2>1, <2>2, <2>3 DEF BotInv
<1>3. ASSUME bot.pc \in {"receipt", "register", "poll", "mint"},
             NEW pc \in BotDone \cup {"mint", "register", "poll"},
             GoesOn(pc)
      PROVE  BotInv'
  <2>1. /\ bot'.pc = pc /\ bot'.pinned = bot.pinned /\ bot'.facts = bot.facts
        /\ bot'.purchase = bot.purchase /\ bot'.answer = bot.answer
        /\ bot' \in AgentStates
    BY <1>1, <1>3 DEF AgentStates, BotStates, GoesOn
  <2>2. ~ PolicyInPlay /\ ~ PolicyInPlay' /\ bot.pc # "failed" /\ bot'.pc # "authorize"
    BY <1>3, <2>1 DEF PolicyInPlay, BotDone
  <2>3. Resting'
    BY <2>2 DEF Resting
  <2>4. Judged(bot)' = Judged(bot)
    BY <2>1 DEF Judged, SentContext
  <2>5. JudgedInv'
    BY <1>1, <2>1, <2>2, <2>4 DEF JudgedInv
  <2> QED
    BY <2>1, <2>3, <2>5 DEF BotInv
<1>4. CASE /\ PolicyInPlay
           /\ UNCHANGED gateVars
           /\ \A u \in Threads : job'[u] # "bot"
           /\ \/ bot' = [bot EXCEPT !.pc = "failed"]
              \/ bot' = [bot EXCEPT !.pc = "catalog", !.facts = None]
              \/ \E text \in ValidTexts : bot' = [bot EXCEPT !.pc = "authorize", !.pinned = text]
  <2>1. /\ bot'.answer = None
        /\ bot'.pc \in {"failed", "catalog", "authorize"}
        /\ bot'.pc = "authorize" => bot'.pinned \in ValidTexts
        /\ bot' \in AgentStates
    BY <1>1, <1>4 DEF AgentStates, BotStates, BotDone, JudgedInv
  <2>2. Resting'
    BY <1>1, <1>4 DEF Resting, gateVars
  <2>3. JudgedInv'
    BY <1>4, <2>1 DEF JudgedInv, PolicyInPlay
  <2> QED
    BY <2>1, <2>2, <2>3 DEF BotInv
<1>5. CASE /\ bot.pc = "authorize"
           /\ UNCHANGED gateVars
           /\ bot' = [bot EXCEPT !.facts = RunFacts(BotRun)]
  <2>1. RunFacts(BotRun) \in Facts
    BY <1>1, <1>5, RunFactsTyped DEF PolicyInPlay
  <2>2. /\ bot'.pc = "authorize" /\ bot'.pinned = bot.pinned /\ bot'.answer = bot.answer
        /\ bot'.facts \in Facts
        /\ bot' \in AgentStates
    BY <1>1, <1>5, <2>1 DEF AgentStates
  <2>3. Resting'
    BY <1>1, <1>5 DEF Resting, PolicyInPlay, gateVars
  <2>4. JudgedInv'
    BY <1>1, <1>5, <2>2 DEF JudgedInv, PolicyInPlay
  <2> QED
    BY <2>2, <2>3, <2>4 DEF BotInv
<1>6. CASE /\ bot.pc = "authorize"
           /\ \E u \in Threads : job[u] = "bot"
           /\ bot' = [bot EXCEPT !.answer = [text |-> bot.pinned, outcome |-> Outcome(bot.pinned)],
                                 !.pc = IF IsError(Outcome(bot.pinned)) THEN "failed" ELSE "receipt"]
  <2>1. bot.pinned \in ValidTexts /\ bot.facts \in Facts
    BY <1>1, <1>6 DEF JudgedInv
  <2>2. Outcome(bot.pinned) = Judged(bot) /\ Judged(bot) \in Outcomes
    BY <1>1, <2>1, OutcomeIsJudged, JudgedTyped
  <2> DEFINE outcome == Judged(bot)
  <2>3. bot' = [bot EXCEPT !.answer = [text |-> bot.pinned, outcome |-> outcome],
                           !.pc = IF IsError(outcome) THEN "failed" ELSE "receipt"]
    BY <1>6, <2>2
  <2> HIDE DEF outcome
  <2>4. /\ bot'.pc = (IF IsError(outcome) THEN "failed" ELSE "receipt")
        /\ bot'.answer = [text |-> bot.pinned, outcome |-> outcome]
        /\ bot'.pinned = bot.pinned /\ bot'.facts = bot.facts /\ bot'.purchase = bot.purchase
        /\ bot' \in AgentStates
    <3>1. [text |-> bot.pinned, outcome |-> outcome] \in [text: ValidTexts, outcome: Outcomes]
      BY <2>1, <2>2 DEF outcome
    <3> QED
      BY <1>1, <2>3, <3>1 DEF AgentStates, BotStates, BotDone
  <2>5. ~ PolicyInPlay' /\ bot'.pc # "authorize"
    BY <2>4 DEF PolicyInPlay
  <2>6. Resting'
    BY <2>5 DEF Resting
  <2>7. Judged(bot)' = outcome
    BY <2>4 DEF Judged, SentContext, outcome
  <2>8. bot'.pc # "failed" => ~ IsError(bot'.answer.outcome)
    BY <2>4
  <2>9. JudgedInv'
    BY <2>1, <2>4, <2>5, <2>7, <2>8 DEF JudgedInv
  <2> QED
    BY <2>4, <2>6, <2>9 DEF BotInv
<1> QED
  BY <1>2, <1>3, <1>4, <1>5, <1>6, AgentMoves

--------------------------------------------------------------------------------
(* What is bought *)

\* A person has approved the agent's decision.
Approved ==
  \E run \in Runs : \E i \in DOMAIN timeline[run] :
    /\ timeline[run][i].decision_id = BotDecision
    /\ timeline[run][i].answers # None
    /\ timeline[run][i].status = "approved"

\* An agent that has or will have its token was allowed to, or has its approval.
BuyInv == bot.pc \in {"mint", "bought"} => Allowed \/ Approved

\* The state of a decision is read from an answer of a person.
LEMMA ApprovedByPerson ==
  ASSUME GateInv, DecisionStatus(BotDecision) = "approved"
  PROVE  Approved
<1> DEFINE events == timeline[BotRun]
           n == Len(events)
           resolving == {i \in DOMAIN events :
                           events[i].decision_id = BotDecision /\ Gate!IsResolutionSignal(events[i])}
           last == CHOOSE i \in resolving : \A k \in resolving : k <= i
<1>1. DecisionStatus(BotDecision) = IF resolving = {} THEN "pending" ELSE events[last].status
  BY DEF DecisionStatus
<1>2. BotRun \in Runs /\ events \in Seq(LoopEvents)
  BY LoopAssumption DEF GateInv, GateTyped
<1> HIDE DEF events
<1>3. n \in Nat /\ resolving \in SUBSET (0..n)
  BY <1>2
<1> HIDE DEF last, resolving
<1>4. resolving # {} /\ events[last].status = "approved"
  BY <1>1
<1>5. last \in resolving
  <2>1. \E i \in resolving : \A k \in resolving : k <= i
    <3> HIDE DEF n
    <3> QED
      BY <1>3, <1>4, GreatestOf
  <2> QED
    BY <2>1 DEF last
<1>6. /\ last \in DOMAIN events
      /\ events[last].decision_id = BotDecision
      /\ Gate!IsResolutionSignal(events[last])
  BY <1>5 DEF resolving
<1>7. events[last] \in LoopEvents
  BY <1>2, <1>6
<1>8. events[last].answers # None
  BY <1>6, <1>7 DEF LoopEvents
<1> QED
  BY <1>2, <1>4, <1>6, <1>8 DEF Approved, events

\* Events stay.
LEMMA ApprovedStays == GateInv /\ GateMove /\ Approved => Approved'
<1> SUFFICES ASSUME GateInv, GateMove, Approved PROVE Approved'
  OBVIOUS
<1>1. CASE timeline' = timeline
  BY <1>1 DEF Approved
<1>2. ASSUME NEW t \in Threads, Gate!StoreEvent(t) PROVE Approved'
  <2>1. \A r \in Runs : \A k \in DOMAIN timeline[r] :
          \E m \in DOMAIN timeline'[r] : timeline'[r][m] = timeline[r][k]
    BY <1>2, LoopStoreMoves
  <2> QED
    BY <2>1 DEF Approved
<1> QED
  BY <1>1, <1>2 DEF GateMove, gateVars, Begins, Gate!Handle, Gate!StoreFails

LEMMA NextKeepsBuyInv ==
  ASSUME CacheTypeOK, GateInv, Page!PageTypeOK, ServingInv, BotInv, BuyInv, Next
  PROVE  BuyInv'
<1>1. bot \in AgentStates /\ (Approved => Approved')
  BY LoopGateMove, ApprovedStays DEF BotInv
<1>2. CASE bot' = bot
  BY <1>1, <1>2 DEF BuyInv, Allowed
<1>3. ASSUME NEW pc, GoesOn(pc) PROVE BuyInv'
  <2>1. bot'.pc = pc /\ bot'.answer = bot.answer
    BY <1>1, <1>3 DEF GoesOn, AgentStates
  <2>2. pc \in {"mint", "bought"} => Allowed \/ Approved
    BY <1>3, ApprovedByPerson DEF GoesOn, BuyInv
  <2> QED
    BY <1>1, <2>1, <2>2 DEF BuyInv, Allowed
<1>4. CASE \/ bot' = [bot EXCEPT !.pc = "failed"]
           \/ bot' = [bot EXCEPT !.pc = "catalog", !.facts = None]
           \/ \E text \in ValidTexts : bot' = [bot EXCEPT !.pc = "authorize", !.pinned = text]
  <2>1. bot'.pc \in {"failed", "catalog", "authorize"}
    BY <1>1, <1>4 DEF AgentStates
  <2> QED
    BY <2>1 DEF BuyInv
<1>5. CASE bot.pc = "authorize" /\ bot' = [bot EXCEPT !.facts = RunFacts(BotRun)]
  <2>1. bot'.pc = "authorize"
    BY <1>1, <1>5 DEF AgentStates
  <2> QED
    BY <2>1 DEF BuyInv
<1>6. CASE bot' = [bot EXCEPT !.answer = [text |-> bot.pinned, outcome |-> Outcome(bot.pinned)],
                              !.pc = IF IsError(Outcome(bot.pinned)) THEN "failed" ELSE "receipt"]
  <2>1. bot'.pc \in {"failed", "receipt"}
    BY <1>1, <1>6 DEF AgentStates
  <2> QED
    BY <2>1 DEF BuyInv
<1> QED
  BY <1>2, <1>3, <1>4, <1>5, <1>6, AgentMoves

--------------------------------------------------------------------------------
(* One verdict *)

Answering(t) == call[t] # Gate!Idle /\ call[t].event.answers # None

\* An answer under way is that of the submission that its thread serves.
AnswerOfPost ==
  \A t \in Threads : Answering(t) =>
    job[t] \in Posts /\ posts[job[t]].item = call[t].event.decision_id

\* While nothing has broken, its decision has none yet,
NoneYet ==
  \A t \in Threads : Answering(t) =>
    \A run \in Runs : \A i \in DOMAIN timeline[run] :
      timeline[run][i].answers # None =>
        timeline[run][i].decision_id # call[t].event.decision_id

\* and no decision has two.
VerdictsApart ==
  \A r, s \in Runs : \A i \in DOMAIN timeline[r], k \in DOMAIN timeline[s] :
    /\ timeline[r][i].answers # None
    /\ timeline[s][k].answers # None
    /\ timeline[r][i].decision_id = timeline[s][k].decision_id
    => r = s /\ i = k

VerdictInv == AnswerOfPost /\ (faults = 0 => NoneYet /\ VerdictsApart)

LEMMA FaultsGrow ==
  ASSUME Page!PageTypeOK, PageMove, faults' = 0
  PROVE  faults = 0
<1>1. faults \in 0..MaxFaults /\ ~ Page!Fault
  BY PageTypes, FaultType
<1> QED
  BY <1>1 DEF PageMove, OnPage, pageVars, Page!Click, Page!Refresh, Page!ShowList,
              Page!ShowListError, Page!AnswerList, Page!Accepted, Page!Refused,
              Page!PostFails, Serves, Answers

\* A step that stores nothing and begins no answer.
LEMMA NothingStored ==
  ASSUME VerdictInv, timeline' = timeline, faults' = 0 => faults = 0,
         \A u \in Threads : Answering(u)' =>
           /\ Answering(u)
           /\ call'[u] = call[u]
           /\ job'[u] = job[u]
           /\ job[u] \in Posts => posts'[job[u]].item = posts[job[u]].item
  PROVE  VerdictInv'
<1>1. AnswerOfPost'
  BY DEF VerdictInv, AnswerOfPost
<1>2. CASE faults' = 0
  <2>1. NoneYet /\ VerdictsApart
    BY <1>2 DEF VerdictInv
  <2>2. NoneYet'
    BY <2>1 DEF NoneYet
  <2>3. VerdictsApart'
    BY <2>1 DEF VerdictsApart
  <2> QED
    BY <1>1, <2>2, <2>3 DEF VerdictInv
<1> QED
  BY <1>1, <1>2 DEF VerdictInv

\* A verdict begins: nobody has answered the one request of its decision.
LEMMA ResolveKeepsVerdicts ==
  ASSUME GateInv, Page!PageTypeOK, ServingInv, VerdictInv,
         NEW t \in Threads, NEW post \in Posts, Resolve(t, post)
  PROVE  VerdictInv'
<1>1. /\ posts[post].state = "sent"
      /\ job' = [job EXCEPT ![t] = post]
      /\ posts' = [posts EXCEPT ![post] =
                     [state |-> "served", item |-> posts[post].item,
                      awaited |-> posts[post].awaited]]
      /\ faults' = faults
  BY DEF Resolve, Begin, Page!Served
<1>2. PICK next \in LoopCall :
        /\ Begins(t, next)
        /\ next.event.answers # None
        /\ next.event.decision_id = posts[post].item
        /\ Gate!Resolvable(next.run, next.event.answers)
        /\ \A run \in Runs : \A i \in DOMAIN timeline[run] :
             /\ timeline[run][i].decision_id = posts[post].item
             /\ Gate!IsPendingSignal(timeline[run][i])
             => run = next.run /\ timeline[run][i].id = next.event.answers
  BY LoopBegins
<1>3. timeline' = timeline /\ call' = [call EXCEPT ![t] = next]
  BY <1>2 DEF Begins, Gate!Handle
<1>4. \A u \in Threads : /\ call'[u] = IF u = t THEN next ELSE call[u]
                         /\ job'[u] = IF u = t THEN post ELSE job[u]
  BY <1>1, <1>3 DEF GateInv, GateTyped, ServingInv
<1>5. \A q \in Posts : posts'[q].item = posts[q].item
  BY <1>1, PageTypes
<1>6. AnswerOfPost'
  <2>1. ASSUME NEW u \in Threads, Answering(u)'
        PROVE  job'[u] \in Posts /\ posts'[job'[u]].item = call'[u].event.decision_id
    <3>1. CASE u = t
      BY <1>2, <1>4, <1>5, <3>1
    <3>2. CASE u # t
      BY <1>4, <1>5, <2>1, <3>2 DEF VerdictInv, AnswerOfPost, Answering
    <3> QED
      BY <3>1, <3>2
  <2> QED
    BY <2>1 DEF AnswerOfPost
<1>7. ASSUME NEW run \in Runs, NEW i \in DOMAIN timeline[run],
             timeline[run][i].answers # None,
             timeline[run][i].decision_id = next.event.decision_id
      PROVE  FALSE
  <2> DEFINE event == timeline[run][i]
  <2>1. event \in LoopEvents
    BY DEF GateInv, GateTyped
  <2>2. PICK k \in DOMAIN timeline[run] :
          /\ timeline[run][k].id = event.answers
          /\ timeline[run][k].decision_id = event.decision_id
          /\ Gate!IsPendingSignal(timeline[run][k])
    BY <1>7 DEF GateInv, AnswersRequested, Requested
  <2>3. run = next.run /\ event.answers = next.event.answers
    BY <1>2, <1>7, <2>2
  <2>4. Gate!IsResolutionSignal(event) /\ ~ Gate!IsPendingSignal(event)
    BY <1>7, <2>1 DEF LoopEvents, Gate!IsResolutionSignal, Gate!IsPendingSignal
  <2>5. Gate!WasEventResolved(timeline[run], next.event.answers)
    BY <2>3, <2>4 DEF Gate!WasEventResolved
  <2> QED
    BY <1>2, <2>3, <2>5 DEF Gate!Resolvable
<1>8. CASE faults' = 0
  <2>1. NoneYet /\ VerdictsApart
    BY <1>1, <1>8 DEF VerdictInv
  <2>2. ASSUME NEW u \in Threads, Answering(u)', NEW run \in Runs, NEW i \in DOMAIN timeline[run],
               timeline[run][i].answers # None
        PROVE  timeline[run][i].decision_id # call'[u].event.decision_id
    <3>1. CASE u = t
      BY <1>4, <1>7, <2>2, <3>1
    <3>2. CASE u # t
      BY <1>4, <2>1, <2>2, <3>2 DEF NoneYet, Answering
    <3> QED
      BY <3>1, <3>2
  <2>3. NoneYet'
    BY <1>3, <2>2 DEF NoneYet
  <2>4. VerdictsApart'
    BY <1>3, <2>1 DEF VerdictsApart
  <2> QED
    BY <1>6, <2>3, <2>4 DEF VerdictInv
<1> QED
  BY <1>6, <1>8 DEF VerdictInv

\* An event is stored: if it is an answer, the others under way are of other decisions.
LEMMA StoreKeepsVerdicts ==
  ASSUME GateInv, Page!PageTypeOK, ServingInv, SubmissionsInv, VerdictInv,
         NEW t \in Threads, Gate!StoreEvent(t), faults' = 0 => faults = 0,
         \A u \in Threads : u # t =>
           /\ job'[u] = job[u]
           /\ job[u] \in Posts => posts'[job[u]].item = posts[job[u]].item
  PROVE  VerdictInv'
<1> DEFINE event == call[t].event
           home == call[t].run
<1>1. /\ call[t] # Gate!Idle
      /\ call' = [call EXCEPT ![t] = Gate!Idle]
      /\ home \in Runs
  BY LoopStore, LoopCallFields DEF GateInv
<1>2. \A u \in Threads : call'[u] = IF u = t THEN Gate!Idle ELSE call[u]
  BY <1>1 DEF GateInv, GateTyped
<1>3. \A u \in Threads : Answering(u)' => u # t /\ Answering(u) /\ call'[u] = call[u]
  BY <1>2 DEF Answering
<1>4. AnswerOfPost'
  BY <1>3 DEF VerdictInv, AnswerOfPost
<1>5. \E i \in DOMAIN timeline'[home] :
        /\ timeline'[home][i] = event
        /\ \E before :
             /\ \A r \in Runs : \A m \in DOMAIN timeline'[r] :
                  <<r, m>> # <<home, i>> =>
                    /\ before[<<r, m>>] \in DOMAIN timeline[r]
                    /\ timeline'[r][m] = timeline[r][before[<<r, m>>]]
             /\ \A r \in Runs : \A m, k \in DOMAIN timeline'[r] :
                  /\ <<r, m>> # <<home, i>>
                  /\ <<r, k>> # <<home, i>>
                  /\ before[<<r, m>>] = before[<<r, k>>]
                  => m = k
  BY LoopStoreMoves
<1>6. PICK i \in DOMAIN timeline'[home] :
        /\ timeline'[home][i] = event
        /\ \E before :
             /\ \A r \in Runs : \A m \in DOMAIN timeline'[r] :
                  <<r, m>> # <<home, i>> =>
                    /\ before[<<r, m>>] \in DOMAIN timeline[r]
                    /\ timeline'[r][m] = timeline[r][before[<<r, m>>]]
             /\ \A r \in Runs : \A m, k \in DOMAIN timeline'[r] :
                  /\ <<r, m>> # <<home, i>>
                  /\ <<r, k>> # <<home, i>>
                  /\ before[<<r, m>>] = before[<<r, k>>]
                  => m = k
  BY <1>5
<1>7. PICK before :
        /\ \A r \in Runs : \A m \in DOMAIN timeline'[r] :
             <<r, m>> # <<home, i>> =>
               /\ before[<<r, m>>] \in DOMAIN timeline[r]
               /\ timeline'[r][m] = timeline[r][before[<<r, m>>]]
        /\ \A r \in Runs : \A m, k \in DOMAIN timeline'[r] :
             /\ <<r, m>> # <<home, i>>
             /\ <<r, k>> # <<home, i>>
             /\ before[<<r, m>>] = before[<<r, k>>]
             => m = k
  BY <1>6
<1> HIDE DEF event, home
<1>8. CASE faults' = 0
  <2>1. NoneYet /\ VerdictsApart /\ Submissions
    BY <1>8 DEF VerdictInv, SubmissionsInv
  <2>2. event.answers # None => Answering(t)
    BY <1>1 DEF Answering, event
  <2>3. ASSUME NEW u \in Threads, u # t, Answering(u), event.answers # None
        PROVE  event.decision_id # call[u].event.decision_id
    <3>1. /\ job[t] \in Posts /\ posts[job[t]].item = event.decision_id
          /\ job[u] \in Posts /\ posts[job[u]].item = call[u].event.decision_id
      BY <2>2, <2>3 DEF VerdictInv, AnswerOfPost, event
    <3>2. job[t] # job[u]
      BY <2>3, <3>1, ClientsAreNotNone DEF ServingInv, ServesOne, Clients
    <3>3. InFlight(job[t]) /\ InFlight(job[u])
      BY <3>1 DEF ServingInv, ServedPosts, InFlight, Page!Unused
    <3> QED
      BY <2>1, <3>1, <3>2, <3>3 DEF Submissions, PostsApart
  <2>4. ASSUME NEW r \in Runs, NEW m \in DOMAIN timeline'[r], timeline'[r][m].answers # None
        PROVE  \/ r = home /\ m = i /\ event.answers # None /\ timeline'[r][m] = event
               \/ /\ <<r, m>> # <<home, i>>
                  /\ before[<<r, m>>] \in DOMAIN timeline[r]
                  /\ timeline'[r][m] = timeline[r][before[<<r, m>>]]
    BY <1>6, <1>7, <2>4
  <2>5. ASSUME NEW u \in Threads, Answering(u)',
               NEW r \in Runs, NEW m \in DOMAIN timeline'[r], timeline'[r][m].answers # None
        PROVE  timeline'[r][m].decision_id # call'[u].event.decision_id
    <3>1. u # t /\ Answering(u) /\ call'[u] = call[u]
      BY <1>3, <2>5
    <3>2. CASE timeline'[r][m] = event /\ event.answers # None
      BY <2>3, <3>1, <3>2
    <3>3. CASE /\ before[<<r, m>>] \in DOMAIN timeline[r]
               /\ timeline'[r][m] = timeline[r][before[<<r, m>>]]
      BY <2>1, <2>5, <3>1, <3>3 DEF NoneYet
    <3> QED
      BY <2>4, <2>5, <3>2, <3>3
  <2>6. NoneYet'
    BY <2>5 DEF NoneYet
  <2>7. ASSUME NEW r \in Runs, NEW m \in DOMAIN timeline[r], timeline[r][m].answers # None,
               event.answers # None
        PROVE  timeline[r][m].decision_id # event.decision_id
    BY <2>1, <2>2, <2>7 DEF NoneYet, event
  <2>8. ASSUME NEW r \in Runs, NEW s \in Runs,
               NEW m \in DOMAIN timeline'[r], NEW k \in DOMAIN timeline'[s],
               timeline'[r][m].answers # None, timeline'[s][k].answers # None,
               timeline'[r][m].decision_id = timeline'[s][k].decision_id
        PROVE  r = s /\ m = k
    <3>1. CASE <<r, m>> # <<home, i>> /\ <<s, k>> # <<home, i>>
      <4>1. /\ before[<<r, m>>] \in DOMAIN timeline[r]
            /\ timeline'[r][m] = timeline[r][before[<<r, m>>]]
            /\ before[<<s, k>>] \in DOMAIN timeline[s]
            /\ timeline'[s][k] = timeline[s][before[<<s, k>>]]
        BY <1>7, <3>1
      <4>2. r = s /\ before[<<r, m>>] = before[<<s, k>>]
        BY <2>1, <2>8, <4>1 DEF VerdictsApart
      <4> QED
        BY <1>7, <3>1, <4>2
    <3>2. CASE <<r, m>> = <<home, i>> /\ <<s, k>> = <<home, i>>
      BY <3>2
    <3>3. CASE <<r, m>> = <<home, i>> /\ <<s, k>> # <<home, i>>
      <4>1. timeline'[r][m] = event
        BY <1>6, <3>3
      <4>2. /\ before[<<s, k>>] \in DOMAIN timeline[s]
            /\ timeline'[s][k] = timeline[s][before[<<s, k>>]]
        BY <1>7, <3>3
      <4> QED
        BY <2>7, <2>8, <4>1, <4>2
    <3>4. CASE <<r, m>> # <<home, i>> /\ <<s, k>> = <<home, i>>
      <4>1. timeline'[s][k] = event
        BY <1>6, <3>4
      <4>2. /\ before[<<r, m>>] \in DOMAIN timeline[r]
            /\ timeline'[r][m] = timeline[r][before[<<r, m>>]]
        BY <1>7, <3>4
      <4> QED
        BY <2>7, <2>8, <4>1, <4>2
    <3> QED
      BY <3>1, <3>2, <3>3, <3>4
  <2>9. VerdictsApart'
    BY <2>8 DEF VerdictsApart
  <2> QED
    BY <1>4, <2>6, <2>9 DEF VerdictInv
<1> QED
  BY <1>4, <1>8 DEF VerdictInv

\* A thread that serves no submission goes on, and begins no answer.
LEMMA OtherThreadKeepsVerdicts ==
  ASSUME GateInv, ServingInv, VerdictInv, NEW t \in Threads,
         timeline' = timeline, UNCHANGED <<posts, faults>>,
         job[t] \notin Posts,
         \E client : job' = [job EXCEPT ![t] = client],
         \E next : call' = [call EXCEPT ![t] = next] /\ (next # call[t] => next.event.answers = None)
  PROVE  VerdictInv'
<1>1. PICK client : job' = [job EXCEPT ![t] = client]
  OBVIOUS
<1>2. PICK next :
        call' = [call EXCEPT ![t] = next] /\ (next # call[t] => next.event.answers = None)
  OBVIOUS
<1>3. \A u \in Threads : /\ job'[u] = IF u = t THEN client ELSE job[u]
                         /\ call'[u] = IF u = t THEN next ELSE call[u]
  BY <1>1, <1>2 DEF GateInv, GateTyped, ServingInv
<1>4. ~ Answering(t)
  BY DEF VerdictInv, AnswerOfPost
<1>5. ASSUME NEW u \in Threads, Answering(u)'
      PROVE  Answering(u) /\ call'[u] = call[u] /\ job'[u] = job[u]
  <2>1. u # t
    BY <1>2, <1>3, <1>4, <1>5 DEF Answering
  <2> QED
    BY <1>3, <1>5, <2>1 DEF Answering
<1> QED
  BY <1>5, NothingStored

LEMMA NextKeepsVerdictInv ==
  ASSUME GateInv, Page!PageTypeOK, ServingInv, SubmissionsInv, VerdictInv, Next
  PROVE  VerdictInv'
<1>1. faults' = 0 => faults = 0
  BY LoopPageMove, FaultsGrow
<1>2. \A u \in Threads : Answering(u) => job[u] \in Posts /\ posts[job[u]].state = "served"
  BY DEF VerdictInv, AnswerOfPost, ServingInv, ServedPosts
<1>3. "bot" \notin Posts /\ "reader" \notin Posts /\ None \notin Posts
  BY ClientsAreNotNone DEF Clients
<1>4. CASE Edit \/ Poll \/ RefuseToMint \/ \E t \in Threads : LoadRules(t)
  <2>1. UNCHANGED <<timeline, call, job, posts>>
    BY <1>4 DEF Edit, LoadRules, ElsewhereUnchanged, Poll, RefuseToMint, gateVars, pageVars
  <2> QED
    BY <1>1, <2>1, NothingStored DEF Answering
<1>5. CASE OnPage /\ BesideUnchanged
  <2>1. UNCHANGED <<timeline, call, job>>
    BY <1>5 DEF BesideUnchanged, gateVars
  <2>2. \A u \in Threads : Answering(u) => posts'[job[u]].item = posts[job[u]].item
    BY <1>2, <1>5, ServedStays
  <2> QED
    BY <1>1, <2>1, <2>2, NothingStored DEF Answering
<1>6. ASSUME NEW post \in Posts, RefuseToResolve(post) PROVE VerdictInv'
  <2>1. UNCHANGED <<timeline, call, job>> /\ posts[post].state = "sent"
        /\ Page!Answered(post, "refused")
    BY <1>6 DEF RefuseToResolve, gateVars
  <2>2. \A u \in Threads : Answering(u) => posts'[job[u]] = posts[job[u]]
    BY <1>2, <2>1, AnswerKeepsOthers
  <2> QED
    BY <1>1, <2>1, <2>2, NothingStored DEF Answering
<1>7. ASSUME NEW t \in Threads, NEW client, UNCHANGED <<gateVars, posts, faults>>,
             job[t] \notin Posts, job' = [job EXCEPT ![t] = client]
      PROVE  VerdictInv'
  <2>1. timeline' = timeline /\ call' = [call EXCEPT ![t] = call[t]]
    BY <1>7 DEF gateVars, GateInv, GateTyped
  <2> QED
    BY <1>7, <2>1, OtherThreadKeepsVerdicts
<1>8. ASSUME NEW t \in Threads, NEW client, NEW next \in LoopCall, Begins(t, next),
             next.event.answers = None, UNCHANGED <<posts, faults>>,
             job[t] \notin Posts, job' = [job EXCEPT ![t] = client]
      PROVE  VerdictInv'
  <2>1. timeline' = timeline /\ call' = [call EXCEPT ![t] = next]
    BY <1>8 DEF Begins, Gate!Handle
  <2> QED
    BY <1>8, <2>1, OtherThreadKeepsVerdicts
<1>9. ASSUME NEW t \in Threads,
             \/ ReadCatalog(t) \/ AnswerReader(t)
             \/ FetchCatalog(t) \/ AnswerCatalog(t) \/ Authorize(t)
      PROVE  VerdictInv'
  <2>1. UNCHANGED <<gateVars, posts, faults>>
    BY <1>9 DEF ReadCatalog, AnswerReader, FetchCatalog, AnswerCatalog, Authorize, pageVars
  <2>2. job[t] \in {None, "reader", "bot"}
    BY <1>9 DEF ReadCatalog, AnswerReader, FetchCatalog, AnswerCatalog, Authorize, Begin, Free,
                Serving
  <2>3. \E client : job' = [job EXCEPT ![t] = client]
    BY <1>9 DEF ReadCatalog, AnswerReader, FetchCatalog, AnswerCatalog, Authorize, Begin, End
  <2> QED
    BY <1>3, <1>7, <2>1, <2>2, <2>3
<1>10. job \in [Threads -> {None} \cup Clients]
  BY DEF ServingInv
<1>11. ASSUME NEW t \in Threads, AnswerAuthorize(t) PROVE VerdictInv'
  <2>1. job[t] = "bot" /\ UNCHANGED <<posts, faults>>
    BY <1>11, AuthorizeAnswers DEF Serving, pageVars
  <2>2. CASE End(t) /\ UNCHANGED gateVars
    BY <1>3, <1>7, <2>1, <2>2 DEF End
  <2>3. CASE JudgeGoesOn(t, bot.pinned)
    <3>1. PICK next \in LoopCall : Begins(t, next) /\ next.event.answers = None
      BY <2>3, LoopBegins
    <3>2. job' = [job EXCEPT ![t] = job[t]]
      BY <1>10, <2>3 DEF JudgeGoesOn
    <3> QED
      BY <1>3, <1>8, <2>1, <3>1, <3>2
  <2> QED
    BY <1>11, <2>2, <2>3, AuthorizeAnswers DEF JudgeEnds
<1>12. ASSUME NEW t \in Threads, Register(t) \/ Mint(t) PROVE VerdictInv'
  <2>1. PICK next \in LoopCall : Begins(t, next) /\ next.event.answers = None
    BY <1>12, LoopBegins
  <2>2. /\ UNCHANGED <<posts, faults>>
        /\ job[t] \in {None, "bot"}
        /\ UNCHANGED job \/ job' = [job EXCEPT ![t] = "bot"]
    BY <1>12 DEF Register, Mint, Begin, Free, Serving, pageVars
  <2>3. \E client : job' = [job EXCEPT ![t] = client]
    <3>1. CASE UNCHANGED job
      <4>1. job' = [job EXCEPT ![t] = job[t]]
        BY <1>10, <3>1
      <4> QED
        BY <4>1
    <3> QED
      BY <2>2, <3>1
  <2> QED
    BY <1>3, <1>8, <2>1, <2>2, <2>3
<1>13. ASSUME NEW t \in Threads, NEW post \in Posts, Resolve(t, post) PROVE VerdictInv'
  BY <1>13, ResolveKeepsVerdicts
<1>14. ASSUME NEW t \in Threads, NEW client, job' = [job EXCEPT ![t] = client]
       PROVE  \A u \in Threads : u # t => job'[u] = job[u]
  BY <1>10, <1>14
<1>15. ASSUME NEW t \in Threads, StoreForBot(t) PROVE VerdictInv'
  <2>1. Gate!StoreEvent(t) /\ UNCHANGED posts
        /\ (UNCHANGED job \/ job' = [job EXCEPT ![t] = None])
    BY <1>15 DEF StoreForBot, End, pageVars
  <2>2. \A u \in Threads : u # t => job'[u] = job[u]
    BY <1>14, <2>1
  <2> QED
    BY <1>1, <2>1, <2>2, StoreKeepsVerdicts
<1>16. ASSUME NEW t \in Threads, NEW post \in Posts, NEW state,
              job[t] = post, Page!Answered(post, state), job' = [job EXCEPT ![t] = None]
       PROVE  \A u \in Threads : u # t =>
                /\ job'[u] = job[u]
                /\ job[u] \in Posts => posts'[job[u]].item = posts[job[u]].item
  <2>1. ASSUME NEW u \in Threads, u # t, job[u] \in Posts PROVE posts'[job[u]] = posts[job[u]]
    <3>1. job[u] # post
      BY <1>3, <1>16, <2>1 DEF ServingInv, ServesOne
    <3> QED
      BY <1>16, <2>1, <3>1, AnswerKeepsOthers
  <2> QED
    BY <1>14, <1>16, <2>1
<1>17. ASSUME NEW t \in Threads, NEW post \in Posts, StoreForPage(t, post) PROVE VerdictInv'
  <2>1. Gate!StoreEvent(t) /\ job[t] = post /\ Page!Answered(post, "accepted")
        /\ job' = [job EXCEPT ![t] = None]
    BY <1>17 DEF StoreForPage, Serving, End
  <2> QED
    BY <1>1, <1>16, <2>1, StoreKeepsVerdicts
<1>18. ASSUME NEW t \in Threads, StoreFails(t) PROVE VerdictInv'
  <2>1. /\ call[t] # Gate!Idle /\ call' = [call EXCEPT ![t] = Gate!Idle]
        /\ job' = [job EXCEPT ![t] = None] /\ timeline' = timeline
    BY <1>18, AppendEnds DEF StoreFails, End, Gate!StoreFails
  <2>2. \A u \in Threads : u # t =>
          /\ job'[u] = job[u]
          /\ job[u] \in Posts => posts'[job[u]].item = posts[job[u]].item
    <3>1. CASE job[t] = "bot"
      BY <1>14, <1>18, <2>1, <3>1 DEF StoreFails, Serving
    <3>2. CASE job[t] # "bot"
      <4>1. job[t] \in Posts /\ Page!Answered(job[t], "refused")
        BY <1>18, <2>1, <3>2, PostOfCall DEF StoreFails, Serving
      <4> QED
        BY <1>16, <2>1, <4>1
    <3> QED
      BY <3>1, <3>2
  <2>3. \A u \in Threads : call'[u] = IF u = t THEN Gate!Idle ELSE call[u]
    BY <2>1 DEF GateInv, GateTyped
  <2>4. \A u \in Threads : Answering(u)' => u # t /\ Answering(u) /\ call'[u] = call[u]
    BY <2>3 DEF Answering
  <2> QED
    BY <1>1, <2>1, <2>2, <2>4, NothingStored
<1> QED
  BY <1>4, <1>5, <1>6, <1>9, <1>11, <1>12, <1>13, <1>15, <1>17, <1>18, StepCases

--------------------------------------------------------------------------------
(* The theorems *)

\* The inductive invariant.
LoopIInv ==
  /\ CacheIInv
  /\ GateInv
  /\ Page!PageTypeOK
  /\ ServingInv
  /\ BotInv
  /\ BuyInv
  /\ SubmissionsInv
  /\ VerdictInv

LEMMA InitLoopIInv == Init => LoopIInv
<1> SUFFICES ASSUME Init PROVE LoopIInv
  OBVIOUS
<1>1. CacheIInv
  BY InitCacheIInv DEF Init
<1>2. /\ timeline = [run \in Runs |-> << >>]
      /\ call = [t \in Threads |-> Gate!Idle]
      /\ job = [t \in Threads |-> None]
      /\ page = [shown |-> {}, ready |-> FALSE, submitting |-> {}]
      /\ lists = [list \in Lists |-> Page!Unused]
      /\ posts = [post \in Posts |-> Page!Unused]
      /\ faults = 0
      /\ \E purchase \in Purchases :
           bot = [purchase |-> purchase, pc |-> "catalog", pinned |-> NoText,
                  facts |-> None, answer |-> None]
  BY DEF Init, Gate!Init, Page!PageInit, LoopInit
<1>3. GateInv
  <2>1. << >> \in Seq(LoopEvents) /\ DOMAIN << >> = {}
    OBVIOUS
  <2> QED
    BY <1>2, <2>1 DEF GateInv, GateTyped, IdsUnique, AnswersRequested
<1>4. Page!PageTypeOK
  <2>1. 0 \in 0..MaxFaults
    BY LoopAssumption
  <2> QED
    BY <1>2, <2>1, PageTypes DEF PageStates, ListStates, PostStates
<1>5. ServingInv
  BY <1>2, ClientsAreNotNone DEF ServingInv, ServesOne, ServedPosts, Appenders, Clients
<1>6. BotInv
  <2>1. PICK purchase \in Purchases :
          bot = [purchase |-> purchase, pc |-> "catalog", pinned |-> NoText,
                 facts |-> None, answer |-> None]
    BY <1>2
  <2>2. bot \in AgentStates /\ bot.pc = "catalog" /\ bot.answer = None
    BY <2>1 DEF AgentStates, BotStates
  <2> QED
    BY <1>2, <2>2 DEF BotInv, Resting, JudgedInv, PolicyInPlay
<1>7. BuyInv
  <2>1. bot.pc = "catalog"
    BY <1>2
  <2> QED
    BY <2>1 DEF BuyInv
<1>8. SubmissionsInv
  <2>1. /\ \A p \in Posts : ~ InFlight(p)
        /\ \A l \in Lists : ~ Reloads(l)
    BY <1>2 DEF InFlight, Reloads
  <2> QED
    BY <2>1 DEF SubmissionsInv, Submissions, PostsAwaited, PostsApart, ReloadsAwaited,
                ReloadsApart
<1>9. VerdictInv
  <2>1. \A t \in Threads : ~ Answering(t)
    BY <1>2 DEF Answering
  <2>2. \A run \in Runs : DOMAIN timeline[run] = {}
    BY <1>2
  <2> QED
    BY <2>1, <2>2 DEF VerdictInv, AnswerOfPost, NoneYet, VerdictsApart
<1> QED
  BY <1>1, <1>3, <1>4, <1>5, <1>6, <1>7, <1>8, <1>9 DEF LoopIInv

LEMMA NextLoopIInv == LoopIInv /\ [Next]_vars => LoopIInv'
<1> SUFFICES ASSUME LoopIInv, [Next]_vars PROVE LoopIInv'
  OBVIOUS
<1>1. /\ CacheIInv /\ CacheTypeOK /\ GateInv /\ Page!PageTypeOK /\ ServingInv /\ BotInv
      /\ BuyInv /\ SubmissionsInv /\ VerdictInv
  BY DEF LoopIInv, CacheIInv
<1>2. CASE Next
  <2>1. CacheIInv'
    BY <1>1, <1>2, LoopCacheMove, NextCacheIInv
  <2>2. GateInv'
    BY <1>1, <1>2, LoopGateMove, GateMoveKeepsInv
  <2>3. Page!PageTypeOK' /\ SubmissionsInv'
    BY <1>1, <1>2, LoopPageMove, PageMoveKeepsTypes, PageMoveKeepsSubmissions
  <2>4. ServingInv'
    BY <1>1, <1>2, NextKeepsServing
  <2>5. BotInv' /\ BuyInv'
    BY <1>1, <1>2, NextKeepsBotInv, NextKeepsBuyInv
  <2>6. VerdictInv'
    BY <1>1, <1>2, NextKeepsVerdictInv
  <2> QED
    BY <2>1, <2>2, <2>3, <2>4, <2>5, <2>6 DEF LoopIInv
<1>3. CASE UNCHANGED vars
  <2>1. /\ UNCHANGED cacheVars
        /\ UNCHANGED <<timeline, call>> /\ UNCHANGED gateVars
        /\ UNCHANGED <<page, lists, posts, faults>> /\ UNCHANGED pageVars
        /\ UNCHANGED <<job, bot>>
    BY <1>3 DEF vars, cacheVars, gateVars, pageVars
  <2>2. CacheIInv'
    BY <1>1, <2>1, NextCacheIInv
  <2>3. GateInv'
    BY <1>1, <2>1, GateMoveKeepsInv DEF GateMove
  <2>4. Page!PageTypeOK' /\ SubmissionsInv'
    BY <1>1, <2>1, PageMoveKeepsTypes, PageMoveKeepsSubmissions DEF PageMove
  <2>5. ServingInv'
    BY <1>1, <2>1, OtherKeepsServing DEF ServingInv, ServedPosts
  <2>6. BotInv'
    BY <1>1, <2>1 DEF BotInv, Resting, JudgedInv, PolicyInPlay, Judged, SentContext
  <2>7. BuyInv'
    BY <1>1, <2>1 DEF BuyInv, Allowed, Approved
  <2>8. VerdictInv'
    BY <1>1, <2>1, NothingStored DEF Answering
  <2> QED
    BY <2>2, <2>3, <2>4, <2>5, <2>6, <2>7, <2>8 DEF LoopIInv
<1> QED
  BY <1>2, <1>3

\* The inductive invariant holds throughout.
THEOREM LoopInvariant == Spec => []LoopIInv
<1> QED
  BY InitLoopIInv, NextLoopIInv, PTL DEF Spec

\* The loop runs the cache of the rules as it was proved correct.
THEOREM LoopImplementsCache == Spec => CacheSpec
<1>1. Init => CacheInit
  BY DEF Init
<1>2. [Next]_vars => [CacheNext]_cacheVars
  BY LoopCacheMove DEF vars, cacheVars
<1> QED
  BY <1>1, <1>2, PTL DEF Spec, CacheSpec

\* Rules cached under the time of the file are the file's in the loop too, whichever
\* requests load them, unless two loads interleaved their assignments.
THEOREM LoopCacheCurrent == Spec => []CachedRulesCurrent
<1> QED
  BY LoopImplementsCache, CacheCurrent, PTL

\* What the loop does to the timelines the approval handlers may do, so it can bring
\* a run into no state that they cannot.
THEOREM LoopImplementsApprovals == Spec => Gate!Spec
<1>1. Init => Gate!Init
  BY DEF Init
<1>2. LoopIInv /\ [Next]_vars => [Gate!Next]_gateVars
  BY LoopGateNext DEF LoopIInv, vars, gateVars
<1>3. LoopIInv /\ [Next]_vars => [Gate!Next]_(Gate!vars)
  BY <1>2 DEF gateVars, Gate!vars
<1> QED
  BY <1>1, <1>3, LoopInvariant, PTL DEF Spec, Gate!Spec

\* The loop keeps its types, and its parts theirs.
THEOREM LoopTyped == Spec => []TypeOK
<1>1. LoopIInv => TypeOK
  <2> SUFFICES ASSUME LoopIInv PROVE TypeOK
    OBVIOUS
  <2>1. CacheTypeOK /\ Page!PageTypeOK
    BY DEF LoopIInv, CacheIInv
  <2>2. Gate!TypeOK
    <3>1. LoopEvents \subseteq Gate!Event
      BY DEF LoopEvents
    <3>2. {Gate!Idle} \cup LoopCall \subseteq Gate!Call
      BY <3>1 DEF LoopCall, Gate!Call
    <3>3. timeline \in [Runs -> Seq(LoopEvents)] /\ call \in [Threads -> {Gate!Idle} \cup LoopCall]
      BY DEF LoopIInv, GateInv, GateTyped
    <3>4. timeline \in [Runs -> Seq(Gate!Event)]
      <4> HIDE DEF LoopIInv
      <4> QED
        BY <3>1, <3>3
    <3> QED
      BY <3>2, <3>3, <3>4 DEF Gate!TypeOK
  <2>3. LoopTypeOK
    <3>1. job \in [Threads -> {None} \cup Clients]
      BY DEF LoopIInv, ServingInv
    <3>2. bot \in AgentStates
      BY DEF LoopIInv, BotInv
    <3>3. {None} \cup Clients = {None, "bot", "reader"} \cup Posts
      BY DEF Clients
    <3>4. job \in [Threads -> {None, "bot", "reader"} \cup Posts]
      BY <3>1, <3>3
    <3> QED
      BY <3>2, <3>4 DEF LoopTypeOK, AgentStates
  <2> QED
    BY <2>1, <2>2, <2>3 DEF TypeOK
<1> QED
  BY <1>1, LoopInvariant, PTL

\* What an answer of the policy is: of the rules the agent has seen.
LEMMA AnswerIsJudged ==
  ASSUME BotInv, Answered
  PROVE  /\ bot \in AgentStates
         /\ bot.pinned \in ValidTexts
         /\ bot.facts \in Facts
         /\ bot.answer.text = bot.pinned
         /\ bot.answer.outcome = Judged(bot)
BY DEF BotInv, JudgedInv, Answered

LEMMA StrictestOfJudged ==
  ASSUME bot \in AgentStates, bot.pinned \in ValidTexts, bot.facts \in Facts,
         ~ IsError(Judged(bot))
  PROVE  Judged(bot).value = Policy(bot.pinned)
<1> DEFINE meant == Strictest(RulesSeen(bot), bot.purchase.action, AllInputs(bot))
<1>1. Policy(bot.pinned) = meant
  BY DEF Policy, RulesSeen, AllInputs
<1> HIDE DEF meant
<1>2. Judged(bot) = Verdict(meant)
  BY JudgedMeans DEF meant
<1> QED
  BY <1>1, <1>2 DEF Verdict

\* A verdict of the policy is the strictest of the rules that match, whatever the rules,
\* their order, their conditions and the purchase: neither the order in which a
\* condition is evaluated nor the fields left out of the request change it.
THEOREM LoopVerdictStrictest == Spec => []VerdictIsStrictestMatch
<1>1. LoopIInv => VerdictIsStrictestMatch
  BY AnswerIsJudged, StrictestOfJudged DEF LoopIInv, VerdictIsStrictestMatch
<1> QED
  BY <1>1, LoopInvariant, PTL

LEMMA NothingMissing == RulesReadKnownNames /\ BotInv => AdvertisedFieldsSuffice
<1> SUFFICES ASSUME RulesReadKnownNames, BotInv, Answered,
                    bot.answer.outcome = Failure("RULE_INPUT_ERROR")
             PROVE  FALSE
  BY DEF AdvertisedFieldsSuffice
<1> DEFINE rules == RulesSeen(bot)
           action == bot.purchase.action
           sent == Sent(bot)
<1>1. /\ bot \in AgentStates /\ bot.pinned \in ValidTexts /\ bot.facts \in Facts
      /\ Judged(bot) = Failure("RULE_INPUT_ERROR")
  BY AnswerIsJudged
<1>2. \E i \in Applicable(rules, action) : Raises(Judged(bot), rules[i].when, sent)
  BY <1>1, JudgedMeans DEF Failure, Verdict
<1>3. PICK i \in Applicable(rules, action) : Raises(Judged(bot), rules[i].when, sent)
  BY <1>2
<1>4. IsMissing(rules[i].when, sent)
  BY <1>1, <1>3 DEF Raises, Failure
<1>5. PICK node \in Nodes(rules[i].when) :
        node.op = "attribute" /\ node.of \in DOMAIN sent /\ node.name \notin DOMAIN sent[node.of]
  BY <1>4 DEF IsMissing
<1>6. /\ DOMAIN sent = {"context", "run"}
      /\ sent["context"] = SentContext(bot.purchase, bot.pinned)
      /\ sent["run"] = bot.facts
  BY DEF Sent
<1>7. i \in DOMAIN rules
  BY DEF Applicable
<1>8. /\ bot.purchase.user \in DOMAIN RulesOf[bot.pinned]
      /\ rules = RulesOf[bot.pinned][bot.purchase.user]
  <2>1. DOMAIN << >> = {}
    OBVIOUS
  <2> QED
    BY <1>7, <2>1 DEF RulesSeen, RulesForUser
<1>9. /\ node.of = "context" => node.name \in Fields \cup AlwaysSent
      /\ node.of = "run" => node.name \in {"event_count", "has_pending_approval"}
  <2> HIDE DEF rules, sent, action
  <2> QED
    BY <1>1, <1>5, <1>7, <1>8 DEF RulesReadKnownNames
<1>10. CASE node.of = "context"
  <2>1. node.name \in RequiredContextFields(rules, action)
    BY <1>5, <1>10 DEF RequiredContextFields
  <2>2. node.name \in DOMAIN SentContext(bot.purchase, bot.pinned)
    BY <1>9, <1>10, <2>1 DEF SentContext, RulesSeen
  <2> QED
    BY <1>5, <1>6, <1>10, <2>2
<1>11. CASE node.of = "run"
  BY <1>1, <1>5, <1>6, <1>9, <1>11, FactsAreValues
<1> QED
  BY <1>5, <1>6, <1>10, <1>11

\* The catalog asks for enough: an agent that sends what it asks for is never told that
\* a field is missing, if the rules name only fields that agents can send and what is
\* known of a run (the parser of the rules file does not look at the names).
THEOREM LoopFieldsSuffice ==
  ASSUME RulesReadKnownNames
  PROVE  Spec => []AdvertisedFieldsSuffice
<1>1. LoopIInv => AdvertisedFieldsSuffice
  BY NothingMissing DEF LoopIInv
<1> QED
  BY <1>1, LoopInvariant, PTL

\* An agent buys only what the rules that it has seen allow or what a person has
\* approved, however the file is edited meanwhile and whatever fails.
THEOREM LoopBoughtByRulesOrPerson == Spec => []BoughtByRulesOrPerson
<1>1. ASSUME LoopIInv PROVE BoughtByRulesOrPerson
  <2> SUFFICES ASSUME bot.pc = "bought"
               PROVE  \/ Policy(bot.pinned) = "allow"
                      \/ \E place \in Verdicts(BotDecision) :
                           timeline[place[1]][place[2]].status = "approved"
    BY DEF BoughtByRulesOrPerson
  <2>1. BotInv /\ BuyInv
    BY <1>1 DEF LoopIInv
  <2>2. CASE Allowed
    <3>1. ~ PolicyInPlay
      BY DEF PolicyInPlay
    <3>2. /\ bot.answer = [text |-> bot.pinned, outcome |-> Judged(bot)]
          /\ ~ IsError(bot.answer.outcome)
          /\ bot.pinned \in ValidTexts
      BY <2>1, <3>1 DEF BotInv, JudgedInv
    <3>3. bot \in AgentStates /\ bot.facts \in Facts
      BY <2>1, <3>1 DEF BotInv, JudgedInv
    <3>4. Judged(bot).value = Policy(bot.pinned)
      BY <3>2, <3>3, StrictestOfJudged
    <3> QED
      BY <2>2, <3>2, <3>4 DEF Allowed
  <2>3. CASE Approved
    <3>1. PICK run \in Runs : \E i \in DOMAIN timeline[run] :
            /\ timeline[run][i].decision_id = BotDecision
            /\ timeline[run][i].answers # None
            /\ timeline[run][i].status = "approved"
      BY <2>3 DEF Approved
    <3>2. PICK i \in DOMAIN timeline[run] :
            /\ timeline[run][i].decision_id = BotDecision
            /\ timeline[run][i].answers # None
            /\ timeline[run][i].status = "approved"
      BY <3>1
    <3>3. <<run, i>> \in Verdicts(BotDecision)
      BY <3>2 DEF Verdicts
    <3> QED
      BY <3>2, <3>3
  <2> QED
    BY <2>1, <2>2, <2>3 DEF BuyInv
<1> QED
  BY <1>1, LoopInvariant, PTL

\* Without a fault a decision gets one verdict at most, however late the page's lists
\* arrive and however the requests of its submissions interleave at the server.
THEOREM LoopOneVerdict == Spec => []OneVerdictUnlessBroken
<1>1. ASSUME LoopIInv PROVE OneVerdictUnlessBroken
  <2> SUFFICES ASSUME NEW decision \in DecisionIds, Cardinality(Verdicts(decision)) > 1,
                      ~ (faults > 0)
               PROVE  FALSE
    BY DEF OneVerdictUnlessBroken
  <2>1. faults = 0
    <3>1. faults \in 0..MaxFaults
      BY <1>1, PageTypes DEF LoopIInv
    <3> QED
      BY <3>1
  <2>2. VerdictsApart
    BY <1>1, <2>1 DEF LoopIInv, VerdictInv
  <2>3. ASSUME NEW x \in Verdicts(decision), NEW y \in Verdicts(decision) PROVE x = y
    <3>1. \E r \in Runs : \E i \in DOMAIN timeline[r] :
            /\ x = <<r, i>>
            /\ timeline[r][i].decision_id = decision /\ timeline[r][i].answers # None
      BY DEF Verdicts
    <3>2. \E s \in Runs : \E k \in DOMAIN timeline[s] :
            /\ y = <<s, k>>
            /\ timeline[s][k].decision_id = decision /\ timeline[s][k].answers # None
      BY DEF Verdicts
    <3> QED
      BY <2>2, <3>1, <3>2 DEF VerdictsApart
  <2>4. CASE Verdicts(decision) = {}
    <3>1. Cardinality(Verdicts(decision)) = 0
      BY <2>4, FS_EmptySet
    <3> QED
      BY <3>1
  <2>5. CASE Verdicts(decision) # {}
    <3>1. PICK x \in Verdicts(decision) : TRUE
      BY <2>5
    <3>2. Verdicts(decision) = {x}
      BY <2>3, <3>1
    <3>3. Cardinality(Verdicts(decision)) = 1
      BY <3>2, FS_Singleton
    <3> QED
      BY <3>3
  <2> QED
    BY <2>4, <2>5
<1> QED
  BY <1>1, LoopInvariant, PTL
================================================================================
