-------------------------- MODULE ReferencesProofs --------------------------
(* A converter runs alone, and for no file that is there already: TypeOK    *)
(* and ConvertsOnce of References, for any number of files, references,     *)
(* tasks and uses of the panel, and whatever is slow, fails or is hidden.   *)
(*                                                                          *)
(* What keeps conversions apart is the queue of those that wait: a slot is  *)
(* in it exactly while its task waits or converts, once, and only the first *)
(* of them converts (ConversionsHold). It has to be the first again when    *)
(* the queue moves on, whether its conversion succeeded or failed, and a    *)
(* file that was converted meanwhile takes whoever waits for it out of the  *)
(* queue. ConvertsOnce alone says nothing of who waits.                     *)
EXTENDS References, SequenceTheorems, FiniteSetTheorems, TLAPS

-----------------------------------------------------------------------------
(* The inductive invariant. R are the references there are, n of them have  *)
(* been taken up.                                                           *)

\* A task that waits, a slot that works, and any slot.
WaitType(R, n) ==
  [stage: {"saved", "load", "select"}, ref: R, reference: 1 .. n, file: {NoFile}]
WorkType(R, n) ==
  [stage: {"ending", "search", "dialog"}, ref: R, reference: 1 .. n, file: Files \cup {NoFile}]
    \cup [stage: {"prepare", "convert", "mount"}, ref: R, reference: 1 .. n, file: Files]
SlotType(R, n) == WorkType(R, n) \cup {Idle}

\* What is said, and what of: references, announced caches, messages, mounted paths.
Words == {"", "saved", "searching", "limit", "missing", "error", "cycle", "ready"}
KnownType(R) == [ref: R, failure: {"none", "missing", "error"}]
ReadyType(R) == [type: {"ready"}, ref: R, file: Files, says: Words]
ToWebview(R) == [type: {"status"}, ref: R, file: {NoFile}, says: Words] \cup ReadyType(R)
ToHost(R) ==
  [type: {"discovered"}, ref: {NoFile}, file: Files, says: Words]
    \cup [type: {"load", "select"}, ref: R, file: {NoFile}, says: Words]
    \cup [type: {"mounted"}, ref: R, file: Files, says: Words]
Paths(R) == {path \in Seq([ref: R, file: Files]) : path # <<>> /\ path[1].ref.parent = Root}

\* What the controller knows of references.
KnownHolds ==
  /\ drawing \in Drawings
  /\ references \in Seq(KnownType(AllRefs)) /\ Len(references) <= MaxReferences
  /\ DOMAIN pending \subseteq AllRefs
  /\ \A ref \in DOMAIN pending :
       pending[ref] \in 1 .. Len(references) /\ references[pending[ref]].ref = ref
  /\ linked \in [AllRefs -> Files \cup {NoFile}]
  /\ DOMAIN sources \subseteq Files /\ prepared \subseteq Files

\* Its tasks.
TasksHold ==
  /\ slots \in [Slots -> SlotType(AllRefs, Len(references))]
  /\ taskQueue \in Seq(WaitType(AllRefs, Len(references)))

\* The messages, and what the webview has.
MessagesHold ==
  /\ toHost \in Seq(ToHost(AllRefs)) /\ toWebview \in Seq(ToWebview(AllRefs))
  /\ mountQueue \in Seq(ReadyType(AllRefs)) /\ mounted \subseteq Paths(AllRefs)
  /\ page \in {"hidden", "loading", "shown"}
  /\ discovered \subseteq Files /\ disabled \subseteq AllRefs

\* Every slot that has to have a file converted is in the queue once, and only the first
\* of them converts, a file that is not there yet.
ConversionsHold ==
  /\ prepareQueue \in Seq(Slots)
  /\ \A i, j \in DOMAIN prepareQueue : prepareQueue[i] = prepareQueue[j] => i = j
  /\ \A s \in Slots :
       slots[s].stage \in {"prepare", "convert"} <=>
         \E i \in DOMAIN prepareQueue : prepareQueue[i] = s
  /\ \A s \in Slots : At(s, "convert") =>
       Head(prepareQueue) = s /\ slots[s].file \notin prepared

\* The inductive invariant.
RefInv == KnownHolds /\ TasksHold /\ MessagesHold /\ ConversionsHold

-----------------------------------------------------------------------------
(* Sequences and ranks. *)

\* A function on the first numbers is a sequence.
LEMMA FunctionIsSeq ==
  ASSUME NEW n \in Nat, NEW S, NEW f \in [1 .. n -> S]
  PROVE  f \in Seq(S) /\ Len(f) = n /\ DOMAIN f = 1 .. n
<1>1. f \in Seq(S)
  BY SeqDef
<1> QED BY <1>1, LenProperties

\* Of k numbers there is one of every rank from one to k.
LEMMA RankFacts ==
  ASSUME NEW numbers \in SUBSET Nat, IsFiniteSet(numbers)
  PROVE  /\ Cardinality(numbers) \in Nat
         /\ \A n \in numbers : Rank(numbers, n) \in 1 .. Cardinality(numbers)
         /\ \A k \in 1 .. Cardinality(numbers) : Nth(numbers, k) \in numbers
         /\ \A m, n \in numbers : Rank(numbers, m) = Rank(numbers, n) => m = n
<1> DEFINE Upto(n) == {x \in numbers : x <= n}
           c == Cardinality(numbers)
           g == [n \in numbers |-> Rank(numbers, n)]
<1>0. c \in Nat
  BY FS_CardinalityType
<1>1. ASSUME NEW n \in numbers
      PROVE  /\ IsFiniteSet(Upto(n)) /\ Rank(numbers, n) = Cardinality(Upto(n))
             /\ Cardinality(Upto(n)) \in 1 .. c
  <2>1. Upto(n) \in SUBSET numbers /\ n \in Upto(n)
    OBVIOUS
  <2>2. Rank(numbers, n) = Cardinality(Upto(n))
    BY DEF Rank
  <2> HIDE DEF Upto
  <2>3. IsFiniteSet(Upto(n)) /\ Cardinality(Upto(n)) <= c
    BY <2>1, FS_Subset
  <2>4. Cardinality(Upto(n)) \in Nat
    BY <2>3, FS_CardinalityType
  <2>5. Cardinality(Upto(n)) # 0
    BY <2>1, <2>3, FS_EmptySet
  <2> QED BY <1>0, <2>2, <2>3, <2>4, <2>5
<1>2. ASSUME NEW m \in numbers, NEW n \in numbers, m < n
      PROVE  Rank(numbers, m) # Rank(numbers, n)
  <2>0. m \in Int /\ n \in Int /\ ~(n <= m) /\ \A k \in numbers : k <= m => k <= n
    BY <1>2
  <2>1. Upto(m) \in SUBSET Upto(n)
    BY <2>0
  <2>3. n \in Upto(n) /\ n \notin Upto(m)
    BY <2>0
  <2>2. IsFiniteSet(Upto(n))
    BY <1>1
  <2> HIDE DEF Upto
  <2> QED BY <2>1, <2>2, <2>3, <1>1, FS_Subset
<1>3. \A m, n \in numbers : Rank(numbers, m) = Rank(numbers, n) => m = n
  <2> SUFFICES ASSUME NEW m \in numbers, NEW n \in numbers, m # n
               PROVE  Rank(numbers, m) # Rank(numbers, n)
    OBVIOUS
  <2>1. m < n \/ n < m
    OBVIOUS
  <2> QED BY <2>1, <1>2
<1> HIDE DEF Upto
<1>4. g \in Injection(numbers, 1 .. c)
  BY <1>1, <1>3 DEF Injection, IsInjective
<1>5. IsFiniteSet(1 .. c) /\ Cardinality(1 .. c) = c
  BY <1>0, FS_Interval
<1>6. g \in Surjection(numbers, 1 .. c)
  <2> HIDE DEF g, c
  <2>1. c = Cardinality(numbers)
    BY DEF c
  <2> QED BY <1>4, <1>5, <2>1, FS_Injection
<1>7. \A k \in 1 .. c : \E n \in numbers : Rank(numbers, n) = k
  BY <1>6 DEF Surjection
<1> QED BY <1>0, <1>1, <1>3, <1>7 DEF Nth

\* The elements of a finite set, one after the other.
LEMMA SetToSeqFacts ==
  ASSUME NEW S, IsFiniteSet(S)
  PROVE  SetToSeq(S) \in Seq(S)
<1>1. PICK n \in Nat : ExistsBijection(1 .. n, S)
  BY FS_NatBijection
<1>2. Cardinality(S) = n
  BY <1>1, FS_CountingElements
<1>3. \E f \in [1 .. n -> S] : IsInjective(f)
  BY <1>1 DEF ExistsBijection, Bijection, Injection
<1>4. SetToSeq(S) \in [1 .. n -> S]
  BY <1>2, <1>3 DEF SetToSeq
<1> QED BY <1>4, FunctionIsSeq

-----------------------------------------------------------------------------
(* What the controller does to its tasks. *)

\* What is posted arrives after what was.
LEMMA PostKeeps ==
  ASSUME NEW T, toWebview \in Seq(T), NEW posts \in Seq(T), Post(posts)
  PROVE  toWebview' \in Seq(T)
BY ConcatProperties DEF Post

\* A task that begins does not convert, and speaks of its reference.
LEMMA BegunFacts ==
  ASSUME NEW R, NEW n \in Nat, NEW task \in WaitType(R, n)
  PROVE  /\ Begun(task) \in WorkType(R, n)
         /\ Begun(task).stage \in {"ending", "search", "dialog"}
         /\ FirstWord(task) \in ToWebview(R)
<1>1. \E stage \in {"ending", "search", "dialog"} :
        Begun(task) = [task EXCEPT !.stage = stage]
  BY DEF Begun, WaitType
<1>2. /\ Begun(task) \in WorkType(R, n)
      /\ Begun(task).stage \in {"ending", "search", "dialog"}
  BY <1>1 DEF WaitType, WorkType
<1>3. FirstWord(task) \in ToWebview(R)
  <2>1. task.ref \in R
    BY DEF WaitType
  <2>3. /\ Status(task.ref, "saved") \in ToWebview(R)
        /\ Status(task.ref, "limit") \in ToWebview(R)
        /\ Status(task.ref, "searching") \in ToWebview(R)
    BY <2>1 DEF Status, Message, ToWebview, Words
  <2> QED BY <2>3 DEF FirstWord
<1> QED BY <1>2, <1>3

\* A slot that is free may take a task, the other slots go on.
LEMMA DrainFacts ==
  ASSUME NEW R, NEW n \in Nat, NEW running \in [Slots -> SlotType(R, n)],
         NEW waiting \in Seq(WaitType(R, n)), NEW posts \in Seq(ToWebview(R)),
         toWebview \in Seq(ToWebview(R)), Drain(running, waiting, posts)
  PROVE  /\ slots' \in [Slots -> SlotType(R, n)]
         /\ \A s \in Slots :
              \/ slots'[s] = running[s]
              \/ running[s] = Idle /\ slots'[s].stage \in {"ending", "search", "dialog"}
         /\ taskQueue' \in Seq(WaitType(R, n))
         /\ toWebview' \in Seq(ToWebview(R))
<1> DEFINE free     == {s \in Slots : running[s] = Idle}
           begun    == IF Len(waiting) < Cardinality(free) THEN Len(waiting)
                       ELSE Cardinality(free)
           speaking == {i \in 1 .. begun : Speaks(waiting[i])}
           words    == [k \in 1 .. Cardinality(speaking) |->
                          FirstWord(waiting[Nth(speaking, k)])]
<1>1. /\ slots' = [s \in Slots |->
            IF s \in free /\ Rank(free, s) <= begun THEN Begun(waiting[Rank(free, s)])
            ELSE running[s]]
      /\ taskQueue' = SubSeq(waiting, begun + 1, Len(waiting))
      /\ Post(posts \o words)
  BY DEF Drain
<1>2. /\ free \in SUBSET Nat /\ IsFiniteSet(free)
      /\ Cardinality(free) \in Nat
      /\ \A s \in free : Rank(free, s) \in 1 .. Cardinality(free)
  <2>0. Concurrency \in Nat
    BY ReferencesAssumption
  <2>1. IsFiniteSet(Slots) /\ Slots \in SUBSET Nat
    BY <2>0, FS_Interval DEF Slots
  <2>2. free \in SUBSET Slots
    OBVIOUS
  <2> HIDE DEF free
  <2>3. IsFiniteSet(free)
    BY <2>1, <2>2, FS_Subset
  <2> QED BY <2>1, <2>2, <2>3, RankFacts
<1>3. Len(waiting) \in Nat /\ \A i \in 1 .. Len(waiting) : waiting[i] \in WaitType(R, n)
  BY LenProperties, ElementOfSeq
<1>4. begun \in Nat /\ begun <= Len(waiting)
  <2> HIDE DEF free
  <2> QED BY <1>2, <1>3
<1> HIDE DEF begun
<1>5. ASSUME NEW s \in Slots
      PROVE  /\ slots'[s] \in SlotType(R, n)
             /\ \/ slots'[s] = running[s]
                \/ running[s] = Idle /\ slots'[s].stage \in {"ending", "search", "dialog"}
  <2>1. CASE s \in free /\ Rank(free, s) <= begun
    <3>1. Rank(free, s) \in 1 .. Len(waiting)
      BY <1>2, <1>3, <1>4, <2>1
    <3>2. waiting[Rank(free, s)] \in WaitType(R, n)
      BY <1>3, <3>1
    <3>3. slots'[s] = Begun(waiting[Rank(free, s)]) /\ running[s] = Idle
      BY <1>1, <2>1
    <3> QED BY <3>2, <3>3, BegunFacts DEF SlotType
  <2>2. CASE ~(s \in free /\ Rank(free, s) <= begun)
    BY <1>1, <2>2
  <2> QED BY <2>1, <2>2
<1>6. taskQueue' \in Seq(WaitType(R, n))
  <2>1. \A i \in begun + 1 .. Len(waiting) : waiting[i] \in WaitType(R, n)
    BY <1>3, <1>4
  <2> QED BY <1>1, <1>3, <1>4, <2>1, SubSeqProperties
<1>7. words \in Seq(ToWebview(R))
  <2>1. IsFiniteSet(1 .. begun) /\ speaking \in SUBSET (1 .. begun)
    BY <1>4, FS_Interval
  <2> HIDE DEF speaking
  <2>2. IsFiniteSet(speaking)
    BY <2>1, FS_Subset
  <2>a. speaking \in SUBSET Nat
    BY <1>4, <2>1
  <2>3. /\ Cardinality(speaking) \in Nat
        /\ \A k \in 1 .. Cardinality(speaking) : Nth(speaking, k) \in speaking
    BY <2>2, <2>a, RankFacts
  <2>4. ASSUME NEW k \in 1 .. Cardinality(speaking)
        PROVE  FirstWord(waiting[Nth(speaking, k)]) \in ToWebview(R)
    <3>1. Nth(speaking, k) \in 1 .. Len(waiting)
      <4>1. Nth(speaking, k) \in 1 .. begun
        BY <2>1, <2>3
      <4> QED BY <1>3, <1>4, <4>1
    <3>2. waiting[Nth(speaking, k)] \in WaitType(R, n)
      BY <1>3, <3>1
    <3> QED BY <3>2, BegunFacts
  <2>5. words \in [1 .. Cardinality(speaking) -> ToWebview(R)]
    BY <2>4
  <2> HIDE DEF words
  <2> QED BY <2>3, <2>5, FunctionIsSeq
<1>8. toWebview' \in Seq(ToWebview(R))
  <2> HIDE DEF words
  <2>1. posts \o words \in Seq(ToWebview(R))
    BY <1>7, ConcatProperties
  <2> QED BY <1>1, <2>1, PostKeeps
<1>9. slots' \in [Slots -> SlotType(R, n)]
  BY <1>1, <1>5
<1> QED BY <1>5, <1>6, <1>8, <1>9

\* The references of a behaviour stay the same.
LEMMA SameReferences ==
  ASSUME drawing' = drawing
  PROVE  AllRefs' = AllRefs /\ \A file : Refs(file)' = Refs(file)
BY DEF AllRefs, Refs

\* More references leave every task its own.
LEMMA TypesWiden ==
  ASSUME NEW R, NEW m \in Nat, NEW n \in Nat, m <= n
  PROVE  /\ SlotType(R, m) \subseteq SlotType(R, n)
         /\ Seq(WaitType(R, m)) \subseteq Seq(WaitType(R, n))
<1>1. 1 .. m \subseteq 1 .. n
  OBVIOUS
<1>2. WaitType(R, m) \subseteq WaitType(R, n) /\ WorkType(R, m) \subseteq WorkType(R, n)
  BY <1>1 DEF WaitType, WorkType
<1>3. \A seq \in Seq(WaitType(R, m)) : seq \in Seq(WaitType(R, n))
  <2> HIDE DEF WaitType
  <2> SUFFICES ASSUME NEW seq \in Seq(WaitType(R, m))
               PROVE  seq \in Seq(WaitType(R, n))
    OBVIOUS
  <2>1. Len(seq) \in Nat /\ seq \in [1 .. Len(seq) -> WaitType(R, m)]
    BY LenProperties
  <2>2. seq \in [1 .. Len(seq) -> WaitType(R, n)]
    BY <1>2, <2>1
  <2> QED BY <2>1, <2>2, FunctionIsSeq
<1> QED BY <1>2, <1>3 DEF SlotType

\* A slot that is at some stage of a task works for a reference that is known.
LEMMA WorkFacts ==
  ASSUME NEW R, NEW n \in Nat, NEW slot \in SlotType(R, n), slot.stage # "idle"
  PROVE  /\ slot \in WorkType(R, n)
         /\ slot.ref \in R /\ slot.reference \in 1 .. n
         /\ slot.stage \in {"prepare", "convert", "mount"} => slot.file \in Files
         /\ \A stage \in {"ending", "search", "dialog"} :
              [slot EXCEPT !.stage = stage] \in WorkType(R, n)
         /\ \A stage \in {"prepare", "convert", "mount"}, file \in Files :
              With(slot, stage, file) \in WorkType(R, n)
<1>1. slot \in WorkType(R, n)
  BY DEF SlotType, Idle, Task
<1>2. /\ slot.ref \in R /\ slot.reference \in 1 .. n
      /\ slot.file \in Files \cup {NoFile}
      /\ slot.stage \in {"prepare", "convert", "mount"} => slot.file \in Files
  BY <1>1 DEF WorkType
<1>3. slot = [stage |-> slot.stage, ref |-> slot.ref, reference |-> slot.reference,
              file |-> slot.file]
  BY <1>1 DEF WorkType
<1>4. ASSUME NEW stage \in {"ending", "search", "dialog"}
      PROVE  [slot EXCEPT !.stage = stage] \in WorkType(R, n)
  BY <1>2, <1>3 DEF WorkType
<1>5. ASSUME NEW stage \in {"prepare", "convert", "mount"}, NEW file \in Files
      PROVE  With(slot, stage, file) \in WorkType(R, n)
  BY <1>2, <1>3 DEF WorkType, With
<1> QED BY <1>1, <1>2, <1>4, <1>5

\* What a failure leaves of what is known of a reference.
LEMMA FailedFacts ==
  ASSUME NEW R, references \in Seq(KnownType(R)), NEW r \in 1 .. Len(references),
         NEW why \in {"none", "missing", "error"}, Failed(r, why)
  PROVE  /\ references' \in Seq(KnownType(R))
         /\ Len(references') = Len(references)
         /\ \A i \in 1 .. Len(references) : references'[i].ref = references[i].ref
<1> DEFINE new == [references[r] EXCEPT !.failure = why]
<1>1. Len(references) \in Nat /\ DOMAIN references = 1 .. Len(references)
      /\ \A i \in 1 .. Len(references) : references[i] \in KnownType(R)
  BY LenProperties, ElementOfSeq
<1>2. references' = [references EXCEPT ![r] = new]
  BY DEF Failed
<1>3. new \in KnownType(R) /\ new.ref = references[r].ref
  BY <1>1 DEF KnownType
<1> HIDE DEF new
<1>4. /\ references' \in [1 .. Len(references) -> KnownType(R)]
      /\ \A i \in 1 .. Len(references) : references'[i].ref = references[i].ref
  <2> HIDE DEF KnownType
  <2> QED BY <1>1, <1>2, <1>3
<1> QED BY <1>1, <1>4, FunctionIsSeq

\* What is known stays known while references only fail and stop being pending.
LEMMA KnownKept ==
  ASSUME KnownHolds, drawing' = drawing,
         linked' \in [AllRefs -> Files \cup {NoFile}],
         DOMAIN sources' \subseteq Files, prepared' \subseteq Files,
         references' \in Seq(KnownType(AllRefs)), Len(references') = Len(references),
         \A i \in 1 .. Len(references) : references'[i].ref = references[i].ref,
         DOMAIN pending' \subseteq DOMAIN pending,
         \A ref \in DOMAIN pending' : pending'[ref] = pending[ref]
  PROVE  KnownHolds'
<1>1. AllRefs' = AllRefs
  BY SameReferences
<1> QED BY <1>1 DEF KnownHolds

\* A step that adds no reference and fails none.
LEMMA NoneNew ==
  ASSUME KnownHolds, UNCHANGED references
  PROVE  /\ references' \in Seq(KnownType(AllRefs)) /\ Len(references') = Len(references)
         /\ \A i \in 1 .. Len(references) : references'[i].ref = references[i].ref
BY DEF KnownHolds

-----------------------------------------------------------------------------
(* The queue of conversions. *)

\* Whoever leaves a queue without duplicates is not in it any more.
LEMMA QueueLeft ==
  ASSUME NEW S, NEW q \in Seq(S), q # <<>>,
         \A i, j \in DOMAIN q : q[i] = q[j] => i = j
  PROVE  /\ Tail(q) \in Seq(S)
         /\ \A i, j \in DOMAIN Tail(q) : Tail(q)[i] = Tail(q)[j] => i = j
         /\ \A e : (\E i \in DOMAIN Tail(q) : Tail(q)[i] = e) <=>
                     (\E i \in DOMAIN q : q[i] = e) /\ e # Head(q)
<1>1. /\ Len(q) \in Nat \ {0} /\ DOMAIN q = 1 .. Len(q) /\ Head(q) = q[1]
      /\ Tail(q) \in Seq(S) /\ Len(Tail(q)) = Len(q) - 1
      /\ \A i \in 1 .. Len(Tail(q)) : Tail(q)[i] = q[i + 1]
  BY HeadTailProperties, EmptySeq, LenProperties
<1>2. DOMAIN Tail(q) = 1 .. Len(q) - 1
  BY <1>1, LenProperties
<1>3. ASSUME NEW i \in DOMAIN Tail(q)
      PROVE  i \in Nat \ {0} /\ i + 1 \in DOMAIN q /\ Tail(q)[i] = q[i + 1] /\ i + 1 # 1
  BY <1>1, <1>2
<1>4. \A i, j \in DOMAIN Tail(q) : Tail(q)[i] = Tail(q)[j] => i = j
  <2> SUFFICES ASSUME NEW i \in DOMAIN Tail(q), NEW j \in DOMAIN Tail(q),
                      Tail(q)[i] = Tail(q)[j]
               PROVE  i = j
    OBVIOUS
  <2>1. i + 1 = j + 1
    BY <1>3
  <2> QED BY <1>3, <2>1
<1>5. ASSUME NEW e, \E i \in DOMAIN Tail(q) : Tail(q)[i] = e
      PROVE  (\E i \in DOMAIN q : q[i] = e) /\ e # Head(q)
  <2>1. PICK i \in DOMAIN Tail(q) : Tail(q)[i] = e
    BY <1>5
  <2>2. i + 1 \in DOMAIN q /\ q[i + 1] = e /\ i + 1 # 1
    BY <1>3, <2>1
  <2>3. 1 \in DOMAIN q
    BY <1>1
  <2> QED BY <1>1, <2>2, <2>3
<1>6. ASSUME NEW e, \E i \in DOMAIN q : q[i] = e, e # Head(q)
      PROVE  \E i \in DOMAIN Tail(q) : Tail(q)[i] = e
  <2>1. PICK i \in DOMAIN q : q[i] = e
    BY <1>6
  <2>2. i # 1
    BY <1>1, <1>6, <2>1
  <2>3. i \in 2 .. Len(q)
    BY <1>1, <2>1, <2>2
  <2>4. i - 1 \in DOMAIN Tail(q) /\ (i - 1) + 1 = i
    BY <1>1, <1>2, <2>3
  <2>5. Tail(q)[i - 1] = q[i]
    BY <1>3, <2>4
  <2> QED BY <2>1, <2>4, <2>5
<1> QED BY <1>1, <1>4, <1>5, <1>6

\* Whoever joins it is the last.
LEMMA QueueJoined ==
  ASSUME NEW S, NEW q \in Seq(S), NEW e \in S,
         \A i, j \in DOMAIN q : q[i] = q[j] => i = j,
         \A i \in DOMAIN q : q[i] # e
  PROVE  /\ Append(q, e) \in Seq(S)
         /\ \A i, j \in DOMAIN Append(q, e) : Append(q, e)[i] = Append(q, e)[j] => i = j
         /\ \A f : (\E i \in DOMAIN Append(q, e) : Append(q, e)[i] = f) <=>
                     (\E i \in DOMAIN q : q[i] = f) \/ f = e
         /\ (\E i \in DOMAIN q : TRUE) => Head(Append(q, e)) = Head(q)
<1>1. /\ Len(q) \in Nat /\ DOMAIN q = 1 .. Len(q)
      /\ Append(q, e) \in Seq(S) /\ Len(Append(q, e)) = Len(q) + 1
      /\ \A i \in 1 .. Len(q) : Append(q, e)[i] = q[i]
      /\ Append(q, e)[Len(q) + 1] = e
  BY AppendProperties, LenProperties
<1>2. DOMAIN Append(q, e) = 1 .. Len(q) + 1
  BY <1>1, LenProperties
<1>3. 1 .. Len(q) + 1 = DOMAIN q \cup {Len(q) + 1}
  BY <1>1
<1>4. Len(q) + 1 \notin DOMAIN q
  BY <1>1
<1>5. \A i, j \in DOMAIN Append(q, e) : Append(q, e)[i] = Append(q, e)[j] => i = j
  BY <1>1, <1>2, <1>3, <1>4
<1>6. \A f : (\E i \in DOMAIN Append(q, e) : Append(q, e)[i] = f) <=>
               (\E i \in DOMAIN q : q[i] = f) \/ f = e
  BY <1>1, <1>2, <1>3
<1>7. ASSUME \E i \in DOMAIN q : TRUE
      PROVE  Head(Append(q, e)) = Head(q)
  <2>1. 1 \in DOMAIN q
    BY <1>1, <1>7
  <2>2. q # <<>> /\ Append(q, e) # <<>>
    BY <1>1, <2>1, EmptySeq
  <2>3. Head(q) = q[1] /\ Head(Append(q, e)) = Append(q, e)[1]
    BY <1>1, <2>2, HeadTailProperties
  <2> QED BY <1>1, <2>1, <2>3
<1> QED BY <1>1, <1>5, <1>6, <1>7

\* The stages of the queue.
Converting == {"prepare", "convert"}

\* A step outside the queue.
LEMMA ConversionsKept ==
  ASSUME ConversionsHold, UNCHANGED <<prepareQueue, prepared>>,
         \A s \in Slots : \/ slots'[s] = slots[s]
                          \/ slots[s].stage \notin Converting /\ slots'[s].stage \notin Converting
  PROVE  ConversionsHold'
<1>1. \A s \in Slots : slots'[s].stage \in Converting <=> slots[s].stage \in Converting
  OBVIOUS
<1>2. \A s \in Slots : slots'[s].stage = "convert" => slots'[s] = slots[s]
  BY DEF Converting
<1>3. prepareQueue' = prepareQueue /\ prepared' = prepared
  OBVIOUS
<1> QED BY <1>1, <1>2, <1>3 DEF ConversionsHold, At, Converting

\* The first of the queue leaves it.
LEMMA ConversionsLeft ==
  ASSUME ConversionsHold, NEW s \in Slots, Head(prepareQueue) = s,
         slots[s].stage \in Converting, slots'[s].stage \notin Converting,
         prepareQueue' = Tail(prepareQueue),
         \A t \in Slots \ {s} :
           \/ slots'[t] = slots[t]
           \/ slots[t].stage \notin Converting /\ slots'[t].stage \notin Converting
  PROVE  ConversionsHold'
<1>1. /\ prepareQueue \in Seq(Slots)
      /\ \A i, j \in DOMAIN prepareQueue : prepareQueue[i] = prepareQueue[j] => i = j
  BY DEF ConversionsHold
<1>0. /\ \A t \in Slots :
           slots[t].stage \in Converting <=> \E i \in DOMAIN prepareQueue : prepareQueue[i] = t
      /\ \A t \in Slots : At(t, "convert") => Head(prepareQueue) = t
  BY DEF ConversionsHold, Converting
<1>2. prepareQueue # <<>>
  BY <1>0
<1>3. /\ Tail(prepareQueue) \in Seq(Slots)
      /\ \A i, j \in DOMAIN Tail(prepareQueue) :
           Tail(prepareQueue)[i] = Tail(prepareQueue)[j] => i = j
      /\ \A t : (\E i \in DOMAIN Tail(prepareQueue) : Tail(prepareQueue)[i] = t) <=>
                  (\E i \in DOMAIN prepareQueue : prepareQueue[i] = t) /\ t # Head(prepareQueue)
  <2> HIDE DEF Slots
  <2> QED BY <1>1, <1>2, QueueLeft
<1>7. /\ prepareQueue' \in Seq(Slots)
      /\ \A i, j \in DOMAIN prepareQueue' : prepareQueue'[i] = prepareQueue'[j] => i = j
      /\ \A t : (\E i \in DOMAIN prepareQueue' : prepareQueue'[i] = t) <=>
                  (\E i \in DOMAIN prepareQueue : prepareQueue[i] = t) /\ t # s
  BY <1>3
<1>4. \A t \in Slots :
        slots'[t].stage \in Converting <=> slots[t].stage \in Converting /\ t # s
  OBVIOUS
<1>5. \A t \in Slots : slots'[t].stage # "convert"
  <2> SUFFICES ASSUME NEW t \in Slots, slots'[t].stage = "convert" PROVE FALSE
    OBVIOUS
  <2>1. slots'[t].stage \in Converting
    BY DEF Converting
  <2>2. t # s /\ slots'[t] = slots[t]
    BY <2>1
  <2> QED BY <1>0, <2>2 DEF At
<1>6. \A t \in Slots : slots'[t].stage \in Converting <=>
        \E i \in DOMAIN prepareQueue' : prepareQueue'[i] = t
  <2> SUFFICES ASSUME NEW t \in Slots
               PROVE  slots'[t].stage \in Converting <=>
                        \E i \in DOMAIN prepareQueue' : prepareQueue'[i] = t
    OBVIOUS
  <2>1. slots'[t].stage \in Converting <=> slots[t].stage \in Converting /\ t # s
    BY <1>4
  <2>2. slots[t].stage \in Converting <=> \E i \in DOMAIN prepareQueue : prepareQueue[i] = t
    BY <1>0
  <2> QED BY <1>7, <2>1, <2>2
<1> QED BY <1>7, <1>5, <1>6 DEF ConversionsHold, At, Converting

-----------------------------------------------------------------------------
(* Refusals and announcements. *)

\* What RefInv says of the state in which a task is served.
LEMMA StateFacts ==
  ASSUME RefInv
  PROVE  /\ Len(references) \in Nat
         /\ references \in Seq(KnownType(AllRefs))
         /\ slots \in [Slots -> SlotType(AllRefs, Len(references))]
         /\ taskQueue \in Seq(WaitType(AllRefs, Len(references)))
         /\ toWebview \in Seq(ToWebview(AllRefs)) /\ toHost \in Seq(ToHost(AllRefs))
         /\ mountQueue \in Seq(ReadyType(AllRefs))
BY LenProperties DEF RefInv, KnownHolds, TasksHold, MessagesHold

\* Whatever status a reference has, it can be told to the webview.
LEMMA StatusFacts ==
  ASSUME NEW R, NEW ref \in R, NEW says \in Words
  PROVE  /\ Status(ref, says) \in ToWebview(R)
         /\ <<Status(ref, says)>> \in Seq(ToWebview(R))
<1>1. Status(ref, says) \in ToWebview(R)
  BY DEF Status, Message, ToWebview
<1> QED BY <1>1

\* The stages a slot may be in.
LEMMA StageFacts ==
  ASSUME NEW R, NEW n \in Nat, NEW slot \in SlotType(R, n)
  PROVE  slot.stage \in Stages
BY DEF SlotType, WorkType, Idle, Task, Stages

\* A waiter that is refused has said its last word; its reference has failed.
LEMMA RefuseFacts ==
  ASSUME RefInv, NEW s \in Slots, slots[s].stage # "idle", Refuse(s)
  PROVE  /\ slots' \in [Slots -> SlotType(AllRefs, Len(references))]
         /\ slots'[s].stage = "ending"
         /\ \A t \in Slots \ {s} : slots'[t] = slots[t]
         /\ taskQueue' = taskQueue
         /\ toWebview' \in Seq(ToWebview(AllRefs))
         /\ references' \in Seq(KnownType(AllRefs)) /\ Len(references') = Len(references)
         /\ \A i \in 1 .. Len(references) : references'[i].ref = references[i].ref
<1> DEFINE n == Len(references)
           end == [slots[s] EXCEPT !.stage = "ending"]
<1>1. slots[s] \in SlotType(AllRefs, n) /\ n \in Nat
  BY StateFacts
<1>2. slots[s].ref \in AllRefs /\ slots[s].reference \in 1 .. n /\ end \in WorkType(AllRefs, n)
  BY <1>1, WorkFacts
<1>3. slots' = [slots EXCEPT ![s] = end] /\ taskQueue' = taskQueue
  BY DEF Refuse, Goto
<1>4. end.stage = "ending"
  BY <1>2 DEF WorkType
<1>5. end \in SlotType(AllRefs, n)
  BY <1>2 DEF SlotType
<1> HIDE DEF end
<1>6. /\ slots' \in [Slots -> SlotType(AllRefs, n)]
      /\ slots'[s].stage = "ending"
      /\ \A t \in Slots \ {s} : slots'[t] = slots[t]
  BY <1>3, <1>4, <1>5, StateFacts
<1>7. toWebview' \in Seq(ToWebview(AllRefs))
  <2>1. "error" \in Words
    BY DEF Words
  <2>2. <<ErrorOf(slots[s])>> \in Seq(ToWebview(AllRefs))
    BY <1>2, <2>1, StatusFacts DEF ErrorOf
  <2> QED BY <2>2, StateFacts, PostKeeps DEF Refuse
<1>8. /\ references' \in Seq(KnownType(AllRefs)) /\ Len(references') = n
      /\ \A i \in 1 .. n : references'[i].ref = references[i].ref
  BY <1>2, StateFacts, FailedFacts DEF Refuse
<1> QED BY <1>3, <1>6, <1>7, <1>8

\* Announced, a task waits for the mounting, unless nobody hears of it. Who waited for
\* the same mounting has said its last word.
LEMMA AnnounceFacts ==
  ASSUME RefInv, NEW s \in Slots, slots[s].stage # "idle", NEW file \in Files,
         Announce(s, file)
  PROVE  /\ slots' \in [Slots -> SlotType(AllRefs, Len(references))]
         /\ slots'[s].stage \in {"mount", "ending"}
         /\ \A t \in Slots \ {s} :
              \/ slots'[t] = slots[t]
              \/ slots[t].stage = "mount" /\ slots'[t].stage = "ending"
         /\ taskQueue' = taskQueue
         /\ DOMAIN sources' \subseteq Files
         /\ toWebview' \in Seq(ToWebview(AllRefs))
         /\ references' \in Seq(KnownType(AllRefs)) /\ Len(references') = Len(references)
         /\ \A i \in 1 .. Len(references) : references'[i].ref = references[i].ref
<1> DEFINE n       == Len(references)
           others  == {t \in Slots \ {s} :
                         At(t, "mount") /\ slots[t].ref = slots[s].ref /\ slots[t].file = file}
           refused == IF page = "hidden" THEN others \cup {s} ELSE others
           errors  == {ErrorOf(slots[t]) : t \in others}
           ready   == Message("ready", slots[s].ref, file, "")
<1>1. n \in Nat /\ \A t \in Slots : slots[t] \in SlotType(AllRefs, n)
  BY StateFacts
<1>2. /\ taskQueue' = taskQueue
      /\ slots' = [t \in Slots |->
           IF t \in refused THEN [slots[t] EXCEPT !.stage = "ending"]
           ELSE IF t = s THEN With(slots[s], "mount", file)
           ELSE slots[t]]
      /\ references' = [i \in DOMAIN references |->
           IF \E t \in refused : slots[t].reference = i
           THEN [references[i] EXCEPT !.failure = "error"] ELSE references[i]]
      /\ Post(<<ready>> \o SetToSeq(errors))
  BY DEF Announce
<1>3. /\ refused \subseteq Slots /\ others \subseteq Slots \ {s}
      /\ \A t \in refused \ {s} : slots[t].stage = "mount"
      /\ \A t \in others : slots[t].stage = "mount"
  BY DEF At
<1>4. DOMAIN sources' \subseteq Files
  <2>1. DOMAIN sources \subseteq Files
    BY DEF RefInv, KnownHolds
  <2>2. CASE file \in DOMAIN sources
    BY <2>1, <2>2 DEF Announce
  <2>3. CASE file \notin DOMAIN sources
    <3>1. DOMAIN sources' = DOMAIN sources \cup {file}
      BY <2>3 DEF Announce
    <3> QED BY <2>1, <3>1
  <2> QED BY <2>2, <2>3
<1>5. slots[s].ref \in AllRefs
  BY <1>1, WorkFacts
<1> HIDE DEF refused, others
<1>6. ASSUME NEW t \in Slots
      PROVE  /\ slots'[t] \in SlotType(AllRefs, n)
             /\ t = s => slots'[t].stage \in {"mount", "ending"}
             /\ t # s => \/ slots'[t] = slots[t]
                         \/ slots[t].stage = "mount" /\ slots'[t].stage = "ending"
  <2>1. CASE t \in refused
    <3>1. slots[t].stage # "idle" /\ slots'[t] = [slots[t] EXCEPT !.stage = "ending"]
      BY <1>2, <1>3, <2>1
    <3>2. slots[t] \in WorkType(AllRefs, n)
          /\ [slots[t] EXCEPT !.stage = "ending"] \in WorkType(AllRefs, n)
      <4>1. slots[t] \in SlotType(AllRefs, n) /\ n \in Nat
        BY <1>1
      <4> HIDE DEF n
      <4> QED BY <3>1, <4>1, WorkFacts
    <3>3. slots'[t].stage = "ending"
      BY <3>1, <3>2 DEF WorkType
    <3>4. slots'[t] \in SlotType(AllRefs, n)
      BY <3>1, <3>2 DEF SlotType
    <3>5. t # s => slots[t].stage = "mount"
      BY <1>3, <2>1
    <3> QED BY <3>3, <3>4, <3>5
  <2>2. CASE t \notin refused /\ t = s
    <3>1. slots'[t] = With(slots[s], "mount", file)
      BY <1>2, <2>2
    <3>2. slots'[t] \in WorkType(AllRefs, n) /\ slots[s] \in WorkType(AllRefs, n)
      BY <1>1, <3>1, WorkFacts
    <3>3. slots'[t].stage = "mount"
      BY <3>1, <3>2 DEF WorkType, With
    <3> QED BY <2>2, <3>2, <3>3 DEF SlotType
  <2>3. CASE t \notin refused /\ t # s
    BY <1>1, <1>2, <2>3
  <2> QED BY <2>1, <2>2, <2>3
<1>7. slots' \in [Slots -> SlotType(AllRefs, n)]
  <2>1. slots' = [t \in Slots |-> slots'[t]]
    BY <1>2
  <2> QED BY <1>6, <2>1
<1>8. /\ references' \in Seq(KnownType(AllRefs)) /\ Len(references') = n
      /\ \A i \in 1 .. n : references'[i].ref = references[i].ref
  <2>1. DOMAIN references = 1 .. n /\ \A i \in 1 .. n : references[i] \in KnownType(AllRefs)
    BY StateFacts, LenProperties, ElementOfSeq
  <2>2. ASSUME NEW i \in 1 .. n
        PROVE  references'[i] \in KnownType(AllRefs) /\ references'[i].ref = references[i].ref
    <3>1. \/ references'[i] = references[i]
          \/ references'[i] = [references[i] EXCEPT !.failure = "error"]
      BY <1>2, <2>1
    <3> QED BY <2>1, <3>1 DEF KnownType
  <2>3. references' \in [1 .. n -> KnownType(AllRefs)]
    BY <1>2, <2>1, <2>2
  <2> QED BY <1>1, <2>2, <2>3, FunctionIsSeq
<1>9. toWebview' \in Seq(ToWebview(AllRefs))
  <2>1. "" \in Words /\ "error" \in Words
    BY DEF Words
  <2>2. ready \in ToWebview(AllRefs)
    BY <1>5, <2>1 DEF Message, ToWebview, ReadyType
  <2>3. \A e \in errors : e \in ToWebview(AllRefs)
    <3>1. \A t \in others : slots[t].ref \in AllRefs
      BY <1>1, <1>3, WorkFacts
    <3> QED BY <2>1, <3>1, StatusFacts DEF ErrorOf
  <2>4. IsFiniteSet(errors)
    <3>1. IsFiniteSet(Slots)
      BY ReferencesAssumption, FS_Interval DEF Slots
    <3>2. IsFiniteSet(others)
      BY <1>3, <3>1, FS_Subset
    <3>3. [t \in others |-> ErrorOf(slots[t])] \in Surjection(others, errors)
      BY DEF Surjection
    <3> HIDE DEF errors
    <3> QED BY <3>2, <3>3, FS_Surjection
  <2> HIDE DEF errors, ready
  <2>5. SetToSeq(errors) \in Seq(errors)
    BY <2>4, SetToSeqFacts
  <2>6. SetToSeq(errors) \in Seq(ToWebview(AllRefs))
    <3>1. Len(SetToSeq(errors)) \in Nat
          /\ SetToSeq(errors) \in [1 .. Len(SetToSeq(errors)) -> errors]
      BY <2>5, LenProperties
    <3>2. SetToSeq(errors) \in [1 .. Len(SetToSeq(errors)) -> ToWebview(AllRefs)]
      BY <2>3, <3>1
    <3> QED BY <3>1, <3>2, FunctionIsSeq
  <2>7. <<ready>> \in Seq(ToWebview(AllRefs))
    BY <2>2
  <2>8. <<ready>> \o SetToSeq(errors) \in Seq(ToWebview(AllRefs))
    BY <2>6, <2>7, ConcatProperties
  <2> QED BY <1>2, <2>8, StateFacts, PostKeeps
<1> QED BY <1>2, <1>4, <1>6, <1>7, <1>8, <1>9

\* The task of a slot is over, and the slot may take another one.
LEMMA EndFacts ==
  ASSUME RefInv, NEW s \in Slots, NEW posts \in Seq(ToWebview(AllRefs)), End(s, posts)
  PROVE  /\ slots' \in [Slots -> SlotType(AllRefs, Len(references))]
         /\ slots'[s].stage \in {"idle", "ending", "search", "dialog"}
         /\ \A t \in Slots \ {s} :
              \/ slots'[t] = slots[t]
              \/ slots[t].stage = "idle" /\ slots'[t].stage \in {"ending", "search", "dialog"}
         /\ taskQueue' \in Seq(WaitType(AllRefs, Len(references)))
         /\ toWebview' \in Seq(ToWebview(AllRefs))
<1> DEFINE running == [slots EXCEPT ![s] = Idle]
<1>0. Idle.stage = "idle"
  BY DEF Idle, Task
<1>1. /\ running \in [Slots -> SlotType(AllRefs, Len(references))]
      /\ running[s] = Idle /\ \A t \in Slots \ {s} : running[t] = slots[t]
  BY StateFacts DEF SlotType
<1>2. Drain(running, taskQueue, posts)
  BY DEF End
<1> HIDE DEF running
<1>3. /\ slots' \in [Slots -> SlotType(AllRefs, Len(references))]
      /\ \A t \in Slots :
           \/ slots'[t] = running[t]
           \/ running[t] = Idle /\ slots'[t].stage \in {"ending", "search", "dialog"}
      /\ taskQueue' \in Seq(WaitType(AllRefs, Len(references)))
      /\ toWebview' \in Seq(ToWebview(AllRefs))
  BY <1>1, <1>2, StateFacts, DrainFacts
<1> QED BY <1>0, <1>1, <1>3

-----------------------------------------------------------------------------
(* Every step keeps the invariant. *)

\* The slots and the messages of a step, as far as the invariant is about them.
LEMMA TasksKept ==
  ASSUME drawing' = drawing, Len(references') = Len(references),
         slots' \in [Slots -> SlotType(AllRefs, Len(references))],
         taskQueue' \in Seq(WaitType(AllRefs, Len(references)))
  PROVE  TasksHold'
<1>1. AllRefs' = AllRefs
  BY SameReferences
<1> QED BY <1>1 DEF TasksHold, Slots

\* The messages of a step of the controller.
LEMMA MessagesKept ==
  ASSUME MessagesHold, drawing' = drawing,
         toHost' \in Seq(ToHost(AllRefs)), toWebview' \in Seq(ToWebview(AllRefs)),
         UNCHANGED webview
  PROVE  MessagesHold'
<1>1. AllRefs' = AllRefs
  BY SameReferences
<1> QED BY <1>1 DEF MessagesHold, webview, panel

\* A task ends. What is known changes by the failures and by what is settled.
LEMMA EndKeeps ==
  ASSUME RefInv, NEW s \in Slots, NEW posts \in Seq(ToWebview(AllRefs)),
         slots[s].stage \notin Converting, End(s, posts),
         UNCHANGED <<drawing, linked, sources, prepareQueue, prepared, webview>>,
         toHost' \in Seq(ToHost(AllRefs)),
         references' \in Seq(KnownType(AllRefs)), Len(references') = Len(references),
         \A i \in 1 .. Len(references) : references'[i].ref = references[i].ref,
         DOMAIN pending' \subseteq DOMAIN pending,
         \A ref \in DOMAIN pending' : pending'[ref] = pending[ref]
  PROVE  RefInv'
<1>1. /\ slots' \in [Slots -> SlotType(AllRefs, Len(references))]
      /\ slots'[s].stage \in {"idle", "ending", "search", "dialog"}
      /\ \A t \in Slots \ {s} :
           \/ slots'[t] = slots[t]
           \/ slots[t].stage = "idle" /\ slots'[t].stage \in {"ending", "search", "dialog"}
      /\ taskQueue' \in Seq(WaitType(AllRefs, Len(references)))
      /\ toWebview' \in Seq(ToWebview(AllRefs))
  BY EndFacts
<1>2. KnownHolds /\ MessagesHold /\ ConversionsHold
  BY DEF RefInv
<1>3. KnownHolds'
  BY <1>2, KnownKept DEF KnownHolds
<1>4. TasksHold'
  BY <1>1, TasksKept
<1>5. MessagesHold'
  BY <1>1, <1>2, MessagesKept
<1>6. ConversionsHold'
  BY <1>1, <1>2, ConversionsKept DEF Converting
<1> QED BY <1>3, <1>4, <1>5, <1>6 DEF RefInv

\* A waiter is refused.
LEMMA RefuseKeeps ==
  ASSUME RefInv, NEW s \in Slots, slots[s].stage # "idle", Refuse(s),
         UNCHANGED <<drawing, linked, sources, prepared, pending, webview>>,
         toHost' \in Seq(ToHost(AllRefs)),
         \/ slots[s].stage \notin Converting /\ UNCHANGED prepareQueue
         \/ slots[s].stage = "convert" /\ prepareQueue' = Tail(prepareQueue)
  PROVE  RefInv'
<1>1. /\ slots' \in [Slots -> SlotType(AllRefs, Len(references))]
      /\ slots'[s].stage = "ending"
      /\ \A t \in Slots \ {s} : slots'[t] = slots[t]
      /\ taskQueue' = taskQueue
      /\ toWebview' \in Seq(ToWebview(AllRefs))
      /\ references' \in Seq(KnownType(AllRefs)) /\ Len(references') = Len(references)
      /\ \A i \in 1 .. Len(references) : references'[i].ref = references[i].ref
  BY RefuseFacts
<1>2. KnownHolds /\ MessagesHold /\ ConversionsHold
  BY DEF RefInv
<1>3. KnownHolds'
  BY <1>1, <1>2, KnownKept DEF KnownHolds
<1>4. TasksHold'
  BY <1>1, StateFacts, TasksKept
<1>5. MessagesHold'
  BY <1>1, <1>2, MessagesKept
<1>6. CASE slots[s].stage \notin Converting /\ UNCHANGED prepareQueue
  <2>1. ConversionsHold'
    BY <1>1, <1>2, <1>6, ConversionsKept DEF Converting
  <2> QED BY <1>3, <1>4, <1>5, <2>1 DEF RefInv
<1>7. CASE slots[s].stage = "convert" /\ prepareQueue' = Tail(prepareQueue)
  <2>1. Head(prepareQueue) = s
    BY <1>2, <1>7 DEF ConversionsHold, At
  <2>2. ConversionsHold'
    BY <1>1, <1>2, <1>7, <2>1, ConversionsLeft DEF Converting
  <2> QED BY <1>3, <1>4, <1>5, <2>2 DEF RefInv
<1> QED BY <1>6, <1>7

\* A cache is announced, by a task that searched for its file or by the first one of
\* the queue.
LEMMA AnnounceKeeps ==
  ASSUME RefInv, NEW s \in Slots, NEW file \in Files, slots[s].stage # "idle",
         Announce(s, file),
         UNCHANGED <<drawing, linked, pending, toHost, webview>>,
         prepared' \subseteq Files,
         \/ slots[s].stage \notin Converting /\ UNCHANGED <<prepareQueue, prepared>>
         \/ /\ slots[s].stage \in Converting /\ Head(prepareQueue) = s
            /\ prepareQueue' = Tail(prepareQueue)
  PROVE  RefInv'
<1>1. /\ slots' \in [Slots -> SlotType(AllRefs, Len(references))]
      /\ slots'[s].stage \in {"mount", "ending"}
      /\ \A t \in Slots \ {s} :
           \/ slots'[t] = slots[t]
           \/ slots[t].stage = "mount" /\ slots'[t].stage = "ending"
      /\ taskQueue' = taskQueue
      /\ DOMAIN sources' \subseteq Files
      /\ toWebview' \in Seq(ToWebview(AllRefs))
      /\ references' \in Seq(KnownType(AllRefs)) /\ Len(references') = Len(references)
      /\ \A i \in 1 .. Len(references) : references'[i].ref = references[i].ref
  BY AnnounceFacts
<1>2. KnownHolds /\ MessagesHold /\ ConversionsHold
  BY DEF RefInv
<1>3. KnownHolds'
  BY <1>1, <1>2, KnownKept DEF KnownHolds
<1>4. TasksHold'
  BY <1>1, StateFacts, TasksKept
<1>5. MessagesHold'
  BY <1>1, <1>2, StateFacts, MessagesKept
<1>6. CASE slots[s].stage \notin Converting /\ UNCHANGED <<prepareQueue, prepared>>
  <2>1. ConversionsHold'
    BY <1>1, <1>2, <1>6, ConversionsKept DEF Converting
  <2> QED BY <1>3, <1>4, <1>5, <2>1 DEF RefInv
<1>7. CASE /\ slots[s].stage \in Converting /\ Head(prepareQueue) = s
           /\ prepareQueue' = Tail(prepareQueue)
  <2>1. ConversionsHold'
    BY <1>1, <1>2, <1>7, ConversionsLeft DEF Converting
  <2> QED BY <1>3, <1>4, <1>5, <2>1 DEF RefInv
<1> QED BY <1>6, <1>7

\* A slot goes on to a later stage, in the queue of conversions or outside it.
LEMMA SlotKeeps ==
  ASSUME RefInv, NEW s \in Slots, NEW slot \in SlotType(AllRefs, Len(references)),
         slots' = [slots EXCEPT ![s] = slot], UNCHANGED taskQueue,
         UNCHANGED <<drawing, known, sources, prepared, toHost, webview>>,
         linked' \in [AllRefs -> Files \cup {NoFile}],
         toWebview' \in Seq(ToWebview(AllRefs))
  PROVE  KnownHolds' /\ TasksHold' /\ MessagesHold'
<1>1. KnownHolds /\ MessagesHold
  BY DEF RefInv
<1>2. KnownHolds'
  BY <1>1, NoneNew, KnownKept DEF KnownHolds, known
<1>3. TasksHold'
  <2>1. slots' \in [Slots -> SlotType(AllRefs, Len(references))]
    BY StateFacts
  <2>2. taskQueue' \in Seq(WaitType(AllRefs, Len(references)))
    BY StateFacts
  <2> QED BY <2>1, <2>2, TasksKept DEF known
<1>4. MessagesHold'
  BY <1>1, StateFacts, MessagesKept
<1> QED BY <1>2, <1>3, <1>4

\* A task has said its last word.
LEMMA TaskEndsKeeps ==
  ASSUME RefInv, NEW s \in Slots, TaskEnds(s)
  PROVE  RefInv'
<1>1. /\ UNCHANGED <<drawing, references, pending, linked, sources, prepareQueue, prepared,
                     toHost, webview>>
      /\ slots[s].stage \notin Converting /\ End(s, <<>>)
  BY DEF TaskEnds, known, caches, At, Converting
<1>2. <<>> \in Seq(ToWebview(AllRefs))
  OBVIOUS
<1>3. KnownHolds
  BY DEF RefInv
<1> QED BY <1>1, <1>2, <1>3, StateFacts, NoneNew, EndKeeps

\* The dialog is closed without a file.
LEMMA CancelDialogKeeps ==
  ASSUME RefInv, NEW s \in Slots, CancelDialog(s)
  PROVE  RefInv'
<1> DEFINE failure == references[slots[s].reference].failure
           ref     == slots[s].ref
           says    == IF failure # "none" THEN failure
                      ELSE IF ref.enabled THEN "missing" ELSE "saved"
<1>1. /\ UNCHANGED <<drawing, references, pending, linked, sources, prepareQueue, prepared,
                     toHost, webview>>
      /\ slots[s].stage = "dialog" /\ End(s, <<Status(ref, says)>>)
  BY DEF CancelDialog, known, caches, At
<1>2. ref \in AllRefs /\ slots[s].reference \in 1 .. Len(references)
  BY <1>1, StateFacts, WorkFacts
<1>3. failure \in {"none", "missing", "error"}
  <2>1. references[slots[s].reference] \in KnownType(AllRefs)
    BY <1>2, StateFacts, ElementOfSeq
  <2> QED BY <2>1 DEF KnownType
<1>4. says \in Words
  BY <1>3 DEF Words
<1> HIDE DEF says
<1>5. <<Status(ref, says)>> \in Seq(ToWebview(AllRefs))
  BY <1>2, <1>4, StatusFacts
<1>6. KnownHolds /\ slots[s].stage \notin Converting
  BY <1>1 DEF RefInv, Converting
<1> QED BY <1>1, <1>5, <1>6, StateFacts, NoneNew, EndKeeps

\* Nobody answers within the thirty seconds.
LEMMA MountTimeoutKeeps ==
  ASSUME RefInv, NEW s \in Slots, MountTimeout(s)
  PROVE  RefInv'
<1>1. /\ UNCHANGED <<drawing, pending, linked, sources, prepareQueue, prepared, toHost, webview>>
      /\ slots[s].stage = "mount" /\ Refuse(s)
  BY DEF MountTimeout, caches, At
<1> QED BY <1>1, StateFacts, RefuseKeeps DEF Converting

\* The converter fails: the next of the queue has its turn.
LEMMA ConversionFailsKeeps ==
  ASSUME RefInv, NEW s \in Slots, ConversionFails(s)
  PROVE  RefInv'
<1>1. /\ UNCHANGED <<drawing, pending, linked, sources, prepared, toHost, webview>>
      /\ slots[s].stage = "convert" /\ prepareQueue' = Tail(prepareQueue) /\ Refuse(s)
  BY DEF ConversionFails, At
<1> QED BY <1>1, StateFacts, RefuseKeeps

\* The converter is done: its file is there, and the next has its turn.
LEMMA ConvertedKeeps ==
  ASSUME RefInv, NEW s \in Slots, Converted(s)
  PROVE  RefInv'
<1>1. /\ UNCHANGED <<drawing, pending, linked, toHost, webview>>
      /\ slots[s].stage = "convert" /\ prepareQueue' = Tail(prepareQueue)
      /\ prepared' = prepared \cup {slots[s].file} /\ Announce(s, slots[s].file)
  BY DEF Converted, At
<1>2. slots[s].file \in Files
  BY <1>1, StateFacts, WorkFacts
<1>3. prepared' \subseteq Files /\ Head(prepareQueue) = s
  BY <1>1, <1>2 DEF RefInv, KnownHolds, ConversionsHold, At
<1> QED BY <1>1, <1>2, <1>3, AnnounceKeeps DEF Converting

\* The turn of a slot has come: it converts, unless its file is there now.
LEMMA BeginPreparingKeeps ==
  ASSUME RefInv, NEW s \in Slots, BeginPreparing(s)
  PROVE  RefInv'
<1>1. /\ UNCHANGED <<drawing, pending, linked, prepared, toHost, webview>>
      /\ slots[s].stage = "prepare" /\ Head(prepareQueue) = s
  BY DEF BeginPreparing, At
<1>2. slots[s] \in WorkType(AllRefs, Len(references)) /\ slots[s].file \in Files
  BY <1>1, StateFacts, WorkFacts
<1>3. CASE slots[s].file \in prepared
  <2>1. Announce(s, slots[s].file) /\ prepareQueue' = Tail(prepareQueue)
    BY <1>3 DEF BeginPreparing
  <2>2. prepared' \subseteq Files
    BY <1>1 DEF RefInv, KnownHolds
  <2> QED BY <1>1, <1>2, <2>1, <2>2, AnnounceKeeps DEF Converting
<1>4. CASE slots[s].file \notin prepared
  <2> DEFINE slot == [slots[s] EXCEPT !.stage = "convert"]
  <2>1. /\ slots' = [slots EXCEPT ![s] = slot]
        /\ UNCHANGED <<taskQueue, sources, references, toWebview, prepareQueue>>
    BY <1>4 DEF BeginPreparing, Goto
  <2>2. slot \in WorkType(AllRefs, Len(references))
    BY <1>1, <1>2 DEF WorkType
  <2>3. slot \in SlotType(AllRefs, Len(references))
    BY <2>2 DEF SlotType
  <2>4. slot.stage = "convert" /\ slot.file = slots[s].file
    BY <1>2 DEF WorkType
  <2> HIDE DEF slot
  <2>5. linked \in [AllRefs -> Files \cup {NoFile}]
    BY DEF RefInv, KnownHolds
  <2>6. KnownHolds' /\ TasksHold' /\ MessagesHold'
    BY <1>1, <2>1, <2>3, <2>5, StateFacts, SlotKeeps DEF known
  <2>7. slots' = [t \in Slots |-> IF t = s THEN slot ELSE slots[t]]
    BY <2>1, StateFacts
  <2>8. ConversionsHold'
    BY <1>1, <1>4, <2>1, <2>4, <2>7 DEF RefInv, ConversionsHold, At
  <2> QED BY <2>6, <2>8 DEF RefInv
<1> QED BY <1>3, <1>4

\* The search of a task ends.
LEMMA FoundKeeps ==
  ASSUME RefInv, NEW s \in Slots, Found(s)
  PROVE  RefInv'
<1> DEFINE ref   == slots[s].ref
           file  == linked[ref]
           cycle == file \in sources[ref.parent].ancestors
<1>1. /\ UNCHANGED <<drawing, pending, linked, prepared, toHost, webview>>
      /\ slots[s].stage = "search" /\ slots[s].stage \notin Converting
  BY DEF Found, At, Converting
<1>2. slots[s] \in WorkType(AllRefs, Len(references))
  BY <1>1, StateFacts, WorkFacts
<1>3. ref \in AllRefs /\ slots[s].reference \in 1 .. Len(references)
  BY <1>1, StateFacts, WorkFacts
<1>4. KnownHolds /\ ConversionsHold
  BY DEF RefInv
<1>5. file \in Files \cup {NoFile}
  BY <1>3, <1>4 DEF KnownHolds
<1>6. \/ /\ Failed(slots[s].reference, "missing")
         /\ End(s, <<Status(ref, "missing")>>)
         /\ UNCHANGED <<sources, prepareQueue>>
      \/ /\ End(s, <<Status(ref, "cycle")>>)
         /\ UNCHANGED <<sources, prepareQueue, references>>
      \/ /\ file # NoFile
         /\ Announce(s, file)
         /\ UNCHANGED prepareQueue
      \/ /\ file # NoFile /\ file \notin prepared
         /\ prepareQueue' = Append(prepareQueue, s)
         /\ slots' = [slots EXCEPT ![s] = With(slots[s], "prepare", file)]
         /\ UNCHANGED <<sources, toWebview, references, taskQueue>>
  BY DEF Found
<1> HIDE DEF ref, file, cycle
<1>7. ASSUME Failed(slots[s].reference, "missing"), End(s, <<Status(ref, "missing")>>),
             UNCHANGED <<sources, prepareQueue>>
      PROVE  RefInv'
  <2>1. <<Status(ref, "missing")>> \in Seq(ToWebview(AllRefs))
    <3>1. "missing" \in Words
      BY DEF Words
    <3> QED BY <1>3, <3>1, StatusFacts
  <2>2. /\ references' \in Seq(KnownType(AllRefs)) /\ Len(references') = Len(references)
        /\ \A i \in 1 .. Len(references) : references'[i].ref = references[i].ref
    BY <1>3, <1>7, StateFacts, FailedFacts
  <2> QED BY <1>1, <1>7, <2>1, <2>2, StateFacts, EndKeeps
<1>8. ASSUME End(s, <<Status(ref, "cycle")>>), UNCHANGED <<sources, prepareQueue, references>>
      PROVE  RefInv'
  <2>1. <<Status(ref, "cycle")>> \in Seq(ToWebview(AllRefs))
    <3>1. "cycle" \in Words
      BY DEF Words
    <3> QED BY <1>3, <3>1, StatusFacts
  <2> QED BY <1>1, <1>4, <1>8, <2>1, StateFacts, NoneNew, EndKeeps
<1>9. ASSUME file # NoFile, Announce(s, file), UNCHANGED prepareQueue
      PROVE  RefInv'
  <2>1. file \in Files /\ prepared' \subseteq Files
    BY <1>1, <1>4, <1>5, <1>9 DEF KnownHolds
  <2> QED BY <1>1, <1>9, <2>1, AnnounceKeeps
<1>10. ASSUME file # NoFile, file \notin prepared, prepareQueue' = Append(prepareQueue, s),
              slots' = [slots EXCEPT ![s] = With(slots[s], "prepare", file)],
              UNCHANGED <<sources, toWebview, references, taskQueue>>
       PROVE  RefInv'
  <2> DEFINE slot == With(slots[s], "prepare", file)
  <2>1. slot \in WorkType(AllRefs, Len(references))
    BY <1>1, <1>5, <1>10, StateFacts, WorkFacts
  <2>2. slot \in SlotType(AllRefs, Len(references))
    BY <2>1 DEF SlotType
  <2>3. slot.stage = "prepare"
    BY <1>2, <2>1 DEF WorkType, With
  <2> HIDE DEF slot
  <2>4. slots' = [slots EXCEPT ![s] = slot]
    BY <1>10 DEF slot
  <2>5. KnownHolds' /\ TasksHold' /\ MessagesHold'
    BY <1>1, <1>4, <1>10, <2>2, <2>4, StateFacts, SlotKeeps DEF known, KnownHolds
  <2>6. \A t \in Slots : slots'[t] = IF t = s THEN slot ELSE slots[t]
    BY <2>4, StateFacts
  <2>7. /\ prepareQueue \in Seq(Slots)
        /\ \A i, j \in DOMAIN prepareQueue : prepareQueue[i] = prepareQueue[j] => i = j
        /\ \A i \in DOMAIN prepareQueue : prepareQueue[i] # s
    BY <1>1, <1>4 DEF ConversionsHold, Converting
  <2>8. /\ prepareQueue' \in Seq(Slots)
        /\ \A i, j \in DOMAIN prepareQueue' : prepareQueue'[i] = prepareQueue'[j] => i = j
        /\ \A t : (\E i \in DOMAIN prepareQueue' : prepareQueue'[i] = t) <=>
                    (\E i \in DOMAIN prepareQueue : prepareQueue[i] = t) \/ t = s
        /\ (\E i \in DOMAIN prepareQueue : TRUE) => Head(prepareQueue') = Head(prepareQueue)
    <3> HIDE DEF Slots
    <3>1. /\ Append(prepareQueue, s) \in Seq(Slots)
          /\ \A i, j \in DOMAIN Append(prepareQueue, s) :
               Append(prepareQueue, s)[i] = Append(prepareQueue, s)[j] => i = j
          /\ \A t : (\E i \in DOMAIN Append(prepareQueue, s) : Append(prepareQueue, s)[i] = t) <=>
                      (\E i \in DOMAIN prepareQueue : prepareQueue[i] = t) \/ t = s
          /\ (\E i \in DOMAIN prepareQueue : TRUE) =>
               Head(Append(prepareQueue, s)) = Head(prepareQueue)
      BY <2>7, QueueJoined
    <3> QED BY <1>10, <3>1
  <2>9. \A t \in Slots :
          slots[t].stage \in Converting <=> \E i \in DOMAIN prepareQueue : prepareQueue[i] = t
    BY <1>4 DEF ConversionsHold, Converting
  <2>10. ASSUME NEW t \in Slots, slots'[t].stage = "convert"
         PROVE  Head(prepareQueue') = t /\ slots'[t].file \notin prepared
    <3>1. t # s /\ slots'[t] = slots[t] /\ slots[t].stage \in Converting
      BY <2>3, <2>6, <2>10 DEF Converting
    <3>2. Head(prepareQueue) = t /\ slots[t].file \notin prepared
      BY <1>4, <2>10, <3>1 DEF ConversionsHold, At
    <3> QED BY <2>8, <2>9, <3>1, <3>2
  <2>11. ASSUME NEW t \in Slots
         PROVE  slots'[t].stage \in Converting <=> slots[t].stage \in Converting \/ t = s
    BY <2>3, <2>6 DEF Converting
  <2>12. \A t \in Slots : slots'[t].stage \in Converting <=>
           \E i \in DOMAIN prepareQueue' : prepareQueue'[i] = t
    BY <2>8, <2>9, <2>11
  <2>13. ConversionsHold'
    BY <1>1, <2>8, <2>10, <2>12 DEF ConversionsHold, At, Converting
  <2> QED BY <2>5, <2>13 DEF RefInv
<1> QED BY <1>6, <1>7, <1>8, <1>9, <1>10

\* A file is chosen in the dialog, and is searched for from now on.
LEMMA LinkFileKeeps ==
  ASSUME RefInv, NEW s \in Slots, NEW file \in Files, LinkFile(s, file)
  PROVE  RefInv'
<1> DEFINE task == [slots[s] EXCEPT !.stage = "load"]
           n    == Len(references)
<1>1. /\ UNCHANGED <<drawing, known, taskQueue, sources, prepareQueue, prepared, toHost, webview>>
      /\ slots[s].stage = "dialog"
      /\ slots' = [slots EXCEPT ![s] = Begun(task)] /\ Post(<<FirstWord(task)>>)
  BY DEF LinkFile, caches, At
<1>2. slots[s] \in WorkType(AllRefs, n) /\ n \in Nat
  BY <1>1, StateFacts, WorkFacts
<1>3. /\ Begun(task) \in WorkType(AllRefs, n)
      /\ Begun(task).stage \in {"ending", "search"}
      /\ FirstWord(task) \in ToWebview(AllRefs)
  <2>1. task.ref \in AllRefs /\ task.stage = "load"
    BY <1>2 DEF WorkType
  <2>2. \/ Begun(task) = [slots[s] EXCEPT !.stage = "ending"]
        \/ Begun(task) = [slots[s] EXCEPT !.stage = "search"]
    <3>1. Begun(task) = [task EXCEPT !.stage = "ending"]
          \/ Begun(task) = [task EXCEPT !.stage = "search"]
      BY <2>1 DEF Begun
    <3> QED BY <1>2, <3>1 DEF WorkType
  <2>3. Begun(task) \in WorkType(AllRefs, n)
    BY <1>1, <2>2, StateFacts, WorkFacts
  <2>4. Begun(task).stage \in {"ending", "search"}
    BY <1>2, <2>2 DEF WorkType
  <2>5. "limit" \in Words /\ "searching" \in Words
    BY DEF Words
  <2>6. Status(task.ref, "limit") \in ToWebview(AllRefs)
        /\ Status(task.ref, "searching") \in ToWebview(AllRefs)
    BY <2>1, <2>5, StatusFacts
  <2>7. FirstWord(task) \in ToWebview(AllRefs)
    BY <2>1, <2>6 DEF FirstWord
  <2> QED BY <2>3, <2>4, <2>7
<1>4. linked' \in [AllRefs -> Files \cup {NoFile}]
  <2>1. linked \in [AllRefs -> Files \cup {NoFile}]
    BY DEF RefInv, KnownHolds
  <2>2. \E scope : linked' = [other \in AllRefs |-> IF other \in scope THEN file ELSE linked[other]]
    BY DEF LinkFile
  <2> QED BY <2>1, <2>2
<1> HIDE DEF task
<1>5. Begun(task) \in SlotType(AllRefs, n)
  BY <1>3 DEF SlotType
<1>6. toWebview' \in Seq(ToWebview(AllRefs))
  <2>1. <<FirstWord(task)>> \in Seq(ToWebview(AllRefs))
    BY <1>3
  <2> QED BY <1>1, <2>1, StateFacts, PostKeeps
<1>7. KnownHolds' /\ TasksHold' /\ MessagesHold'
  BY <1>1, <1>4, <1>5, <1>6, SlotKeeps
<1>8. ConversionsHold'
  <2>1. \A t \in Slots : slots'[t] = IF t = s THEN Begun(task) ELSE slots[t]
    BY <1>1, StateFacts
  <2>2. ConversionsHold
    BY DEF RefInv
  <2> QED BY <1>1, <1>3, <2>1, <2>2, ConversionsKept DEF Converting
<1> QED BY <1>7, <1>8 DEF RefInv

\* The first of the messages to the extension.
LEMMA FirstMessage ==
  ASSUME RefInv, toHost # <<>>
  PROVE  /\ Head(toHost) \in ToHost(AllRefs)
         /\ Tail(toHost) \in Seq(ToHost(AllRefs))
BY StateFacts, HeadTailProperties

\* Nothing happens besides a message that is taken.
LEMMA IgnoredKeeps ==
  ASSUME RefInv, toHost' \in Seq(ToHost(AllRefs)),
         UNCHANGED <<drawing, linked, sources, prepareQueue, prepared, webview>>,
         UNCHANGED <<tasks, known, toWebview>>
  PROVE  RefInv'
<1>1. KnownHolds /\ MessagesHold /\ ConversionsHold
  BY DEF RefInv
<1>2. KnownHolds'
  BY <1>1, NoneNew, KnownKept DEF known, KnownHolds
<1>3. TasksHold'
  BY StateFacts, TasksKept DEF known, tasks
<1>4. MessagesHold'
  BY <1>1, StateFacts, MessagesKept
<1>5. ConversionsHold'
  BY <1>1, ConversionsKept DEF tasks
<1> QED BY <1>2, <1>3, <1>4, <1>5 DEF RefInv

\* The webview answers: the task that waits for it ends, or has failed.
LEMMA HandleMountedKeeps ==
  ASSUME RefInv, HandleMounted
  PROVE  RefInv'
<1> DEFINE answer  == Head(toHost)
           waiting == {s \in Slots : /\ At(s, "mount")
                                     /\ slots[s].ref = answer.ref
                                     /\ slots[s].file = answer.file}
<1>1. /\ UNCHANGED <<drawing, linked, sources, prepareQueue, prepared, webview>>
      /\ toHost' = Tail(toHost) /\ toHost # <<>>
  BY DEF HandleMounted, caches
<1>2. toHost' \in Seq(ToHost(AllRefs))
  BY <1>1, FirstMessage
<1>3. CASE waiting = {}
  <2>1. UNCHANGED <<tasks, known, toWebview>>
    BY <1>3 DEF HandleMounted
  <2> QED BY <1>1, <1>2, <2>1, IgnoredKeeps
<1>4. CASE waiting # {}
  <2>1. PICK s \in waiting :
          IF answer.says = "ready"
          THEN /\ pending' = [ref \in DOMAIN pending \ {answer.ref} |-> pending[ref]]
               /\ End(s, <<>>)
               /\ UNCHANGED references
          ELSE Refuse(s) /\ UNCHANGED pending
    BY <1>4 DEF HandleMounted
  <2>2. s \in Slots /\ slots[s].stage = "mount"
    BY DEF At
  <2>3. CASE answer.says = "ready"
    <3>1. /\ DOMAIN pending' \subseteq DOMAIN pending
          /\ \A ref \in DOMAIN pending' : pending'[ref] = pending[ref]
      BY <2>1, <2>3
    <3>2. <<>> \in Seq(ToWebview(AllRefs)) /\ KnownHolds
      BY DEF RefInv
    <3>3. End(s, <<>>) /\ UNCHANGED references
      BY <2>1, <2>3
    <3> QED BY <1>1, <1>2, <2>2, <3>1, <3>2, <3>3, NoneNew, EndKeeps DEF Converting
  <2>4. CASE answer.says # "ready"
    BY <1>1, <1>2, <2>1, <2>2, <2>4, RefuseKeeps DEF Converting
  <2> QED BY <2>3, <2>4
<1> QED BY <1>3, <1>4

\* A button of the panel: a reference that is pending gets another task.
LEMMA HandleClickKeeps ==
  ASSUME RefInv, HandleClick
  PROVE  RefInv'
<1> DEFINE click == Head(toHost)
           n     == Len(references)
           task  == Task(click.type, click.ref, pending[click.ref])
<1>1. /\ UNCHANGED <<drawing, pending, linked, sources, prepareQueue, prepared, webview>>
      /\ toHost' = Tail(toHost) /\ toHost # <<>> /\ click.type \in {"load", "select"}
  BY DEF HandleClick, caches
<1>2. toHost' \in Seq(ToHost(AllRefs))
  BY <1>1, FirstMessage
<1>3. CASE click.ref \notin DOMAIN pending
  <2>1. UNCHANGED <<tasks, known, toWebview>>
    BY <1>1, <1>3 DEF HandleClick, known
  <2> QED BY <1>1, <1>2, <2>1, IgnoredKeeps
<1>4. CASE click.ref \in DOMAIN pending
  <2>1. /\ Drain(slots, Append(taskQueue, task), <<>>)
        /\ Failed(pending[click.ref], "none") \/ UNCHANGED references
    BY <1>4 DEF HandleClick
  <2>2. KnownHolds /\ MessagesHold /\ ConversionsHold /\ n \in Nat
    BY StateFacts DEF RefInv
  <2>3. click.ref \in AllRefs /\ pending[click.ref] \in 1 .. n
    BY <1>4, <2>2 DEF KnownHolds
  <2>4. task \in WaitType(AllRefs, n)
    BY <1>1, <2>3 DEF Task, WaitType
  <2> HIDE DEF task
  <2>5. Append(taskQueue, task) \in Seq(WaitType(AllRefs, n)) /\ <<>> \in Seq(ToWebview(AllRefs))
    BY <2>4, StateFacts, AppendProperties
  <2>6. /\ slots' \in [Slots -> SlotType(AllRefs, n)]
        /\ \A s \in Slots :
             \/ slots'[s] = slots[s]
             \/ slots[s] = Idle /\ slots'[s].stage \in {"ending", "search", "dialog"}
        /\ taskQueue' \in Seq(WaitType(AllRefs, n))
        /\ toWebview' \in Seq(ToWebview(AllRefs))
    BY <2>1, <2>2, <2>5, StateFacts, DrainFacts
  <2>7. /\ references' \in Seq(KnownType(AllRefs)) /\ Len(references') = n
        /\ \A i \in 1 .. n : references'[i].ref = references[i].ref
    BY <2>1, <2>2, <2>3, StateFacts, NoneNew, FailedFacts
  <2>8. KnownHolds'
    BY <1>1, <2>2, <2>7, KnownKept DEF KnownHolds
  <2>9. TasksHold'
    BY <1>1, <2>6, <2>7, TasksKept
  <2>10. MessagesHold'
    BY <1>1, <1>2, <2>2, <2>6, MessagesKept
  <2>11. ConversionsHold'
    <3>1. Idle.stage = "idle"
      BY DEF Idle, Task
    <3> QED BY <1>1, <2>2, <2>6, <3>1, ConversionsKept DEF Converting
  <2> QED BY <2>8, <2>9, <2>10, <2>11 DEF RefInv
<1> QED BY <1>3, <1>4

\* The references of a cache become known, as many as there is room for.
LEMMA HandleDiscoveryKeeps ==
  ASSUME RefInv, HandleDiscovery
  PROVE  RefInv'
<1> DEFINE file    == Head(toHost).file
           all     == drawing.references[file]
           count   == Len(references)
           room    == IF MaxReferences - count < Len(all) THEN MaxReferences - count
                      ELSE Len(all)
           taken   == SubSeq(all, 1, room)
           refused == SubSeq(all, room + 1, Len(all))
           Index(ref) == CHOOSE i \in DOMAIN taken : taken[i] = ref
           new     == [i \in DOMAIN taken |-> [ref |-> taken[i], failure |-> "none"]]
           jobs    == [i \in DOMAIN taken |->
                         Task(IF taken[i].enabled THEN "load" ELSE "saved", taken[i], count + i)]
           posts   == [i \in DOMAIN refused |-> Status(refused[i], "limit")]
           m       == count + room
<1>1. /\ UNCHANGED <<drawing, linked, sources, prepareQueue, prepared, webview>>
      /\ toHost' = Tail(toHost) /\ toHost # <<>> /\ Head(toHost).type = "discovered"
  BY DEF HandleDiscovery, caches
<1>2. Head(toHost) \in ToHost(AllRefs) /\ toHost' \in Seq(ToHost(AllRefs))
  BY <1>1, FirstMessage
<1>3. file \in Files
  BY <1>1, <1>2 DEF ToHost
<1>4. CASE ~(file \in DOMAIN sources /\ sources[file].nests)
  <2>1. UNCHANGED <<tasks, known, toWebview>>
    BY <1>1, <1>4 DEF HandleDiscovery
  <2> QED BY <1>1, <1>2, <2>1, IgnoredKeeps
<1>5. CASE file \in DOMAIN sources /\ sources[file].nests
  <2>1. /\ references' = references \o new
        /\ pending' = [ref \in DOMAIN pending \cup {taken[i] : i \in DOMAIN taken} |->
             IF \E i \in DOMAIN taken : taken[i] = ref
             THEN count + Index(ref) ELSE pending[ref]]
        /\ Drain(slots, taskQueue \o jobs, posts)
    BY <1>5 DEF HandleDiscovery
  <2>2. /\ KnownHolds /\ MessagesHold /\ ConversionsHold
        /\ count \in Nat /\ count <= MaxReferences /\ MaxReferences \in Nat
    BY StateFacts, ReferencesAssumption DEF RefInv, KnownHolds
  <2>3. all \in Seq(AllRefs) /\ Len(all) \in Nat /\ \A i \in 1 .. Len(all) : all[i] \in AllRefs
    <3>1. all \in Seq(ReferenceType)
      BY <1>3, <2>2, ReferencesAssumption DEF KnownHolds, Drawing
    <3> HIDE DEF all
    <3>2. Len(all) \in Nat /\ DOMAIN all = 1 .. Len(all)
      BY <3>1, LenProperties
    <3>3. \A i \in 1 .. Len(all) : all[i] \in AllRefs
      BY <1>3, <3>2 DEF AllRefs, Refs, all
    <3>4. all \in [1 .. Len(all) -> AllRefs]
      <4>1. all = [i \in 1 .. Len(all) |-> all[i]]
        BY <3>1, <3>2
      <4> QED BY <3>3, <4>1
    <3> QED BY <3>2, <3>3, <3>4, FunctionIsSeq
  <2> HIDE DEF all, count
  <2>4. room \in Nat /\ room <= Len(all) /\ m \in Nat /\ m <= MaxReferences /\ count <= m
    BY <2>2, <2>3
  <2> HIDE DEF room
  <2>5. /\ Len(taken) = room /\ DOMAIN taken = 1 .. room
        /\ \A i \in 1 .. room : taken[i] \in AllRefs
    <3>1. \A i \in 1 .. room : i \in 1 .. Len(all)
      BY <2>3, <2>4
    <3>2. taken = [i \in 1 .. room |-> all[i]]
      <4>1. \A i \in 1 .. room : all[i] \in AllRefs
        BY <2>3, <3>1
      <4>2. /\ taken \in Seq(AllRefs) /\ Len(taken) = room
            /\ \A i \in 1 .. room : taken[i] = all[i]
        BY <2>3, <2>4, <4>1, SubSeqProperties
      <4> QED BY <4>2, LenProperties
    <3>3. taken \in [1 .. room -> AllRefs]
      BY <2>3, <3>1, <3>2
    <3> HIDE DEF taken
    <3> QED BY <2>4, <3>3, FunctionIsSeq
  <2>6. DOMAIN refused \subseteq Nat /\ posts \in Seq(ToWebview(AllRefs))
    <3>1. \A i \in room + 1 .. Len(all) : all[i] \in AllRefs
      BY <2>3, <2>4
    <3>2. refused \in Seq(AllRefs)
      BY <2>3, <2>4, <3>1, SubSeqProperties
    <3> HIDE DEF refused
    <3>3. Len(refused) \in Nat /\ DOMAIN refused = 1 .. Len(refused)
          /\ \A i \in 1 .. Len(refused) : refused[i] \in AllRefs
      BY <3>2, LenProperties, ElementOfSeq
    <3>4. "limit" \in Words
      BY DEF Words
    <3>5. \A i \in 1 .. Len(refused) : Status(refused[i], "limit") \in ToWebview(AllRefs)
      BY <3>3, <3>4, StatusFacts
    <3>6. posts \in [1 .. Len(refused) -> ToWebview(AllRefs)]
      BY <3>3, <3>5
    <3> HIDE DEF posts
    <3> QED BY <3>3, <3>6, FunctionIsSeq
  <2> HIDE DEF taken, refused, posts
  <2>7. new \in Seq(KnownType(AllRefs)) /\ Len(new) = room
        /\ \A i \in 1 .. room : new[i].ref = taken[i]
    <3>1. new \in [1 .. room -> KnownType(AllRefs)]
      BY <2>5 DEF KnownType
    <3>2. \A i \in 1 .. room : new[i].ref = taken[i]
      BY <2>5
    <3> HIDE DEF new
    <3> QED BY <2>4, <3>1, <3>2, FunctionIsSeq
  <2>8. jobs \in Seq(WaitType(AllRefs, m))
    <3>1. \A i \in 1 .. room : count + i \in 1 .. m
      BY <2>2, <2>4
    <3>2. jobs \in [1 .. room -> WaitType(AllRefs, m)]
      BY <2>5, <3>1 DEF Task, WaitType
    <3> HIDE DEF jobs, m
    <3> QED BY <2>4, <3>2, FunctionIsSeq
  <2> HIDE DEF new, jobs, m
  <2>9. references \in Seq(KnownType(AllRefs)) /\ count = Len(references)
    BY StateFacts DEF count
  <2>10. /\ references' \in Seq(KnownType(AllRefs)) /\ Len(references') = m
         /\ \A i \in 1 .. count : references'[i] = references[i]
         /\ \A i \in 1 .. room : references'[count + i].ref = taken[i]
    <3>1. /\ references' \in Seq(KnownType(AllRefs)) /\ Len(references') = count + room
          /\ \A i \in 1 .. count + room :
               references'[i] = IF i <= count THEN references[i] ELSE new[i - count]
      <4>1. /\ references \o new \in Seq(KnownType(AllRefs))
            /\ Len(references \o new) = Len(references) + Len(new)
            /\ \A i \in 1 .. Len(references) + Len(new) :
                 (references \o new)[i] =
                   IF i <= Len(references) THEN references[i] ELSE new[i - Len(references)]
        BY <2>7, <2>9, ConcatProperties
      <4> QED BY <2>1, <2>7, <2>9, <4>1
    <3>2. \A i \in 1 .. count : i \in 1 .. count + room /\ i <= count
      BY <2>2, <2>4
    <3>3. \A i \in 1 .. room :
            count + i \in 1 .. count + room /\ ~(count + i <= count) /\ (count + i) - count = i
      BY <2>2, <2>4
    <3>4. \A i \in 1 .. room : references'[count + i] = new[i]
      BY <3>1, <3>3
    <3> QED BY <2>7, <3>1, <3>2, <3>4 DEF m
  <2>11. /\ DOMAIN pending' \subseteq AllRefs
         /\ \A ref \in DOMAIN pending' :
              pending'[ref] \in 1 .. m /\ references'[pending'[ref]].ref = ref
    <3>1. /\ DOMAIN pending \subseteq AllRefs
          /\ \A ref \in DOMAIN pending :
               pending[ref] \in 1 .. count /\ references[pending[ref]].ref = ref
      BY <2>2 DEF KnownHolds, count
    <3>2. DOMAIN pending' = DOMAIN pending \cup {taken[i] : i \in 1 .. room}
      BY <2>1, <2>5
    <3>3. ASSUME NEW ref \in DOMAIN pending', \E i \in 1 .. room : taken[i] = ref
          PROVE  pending'[ref] \in 1 .. m /\ references'[pending'[ref]].ref = ref
      <4>1. pending'[ref] = count + Index(ref)
        BY <2>1, <2>5, <3>3
      <4>2. Index(ref) \in 1 .. room /\ taken[Index(ref)] = ref
        BY <2>5, <3>3
      <4> HIDE DEF Index
      <4>3. count + Index(ref) \in 1 .. m
        BY <2>2, <2>4, <4>2 DEF m
      <4> QED BY <2>10, <4>1, <4>2, <4>3
    <3>4. ASSUME NEW ref \in DOMAIN pending', ~\E i \in 1 .. room : taken[i] = ref
          PROVE  pending'[ref] \in 1 .. m /\ references'[pending'[ref]].ref = ref
      <4>1. ref \in DOMAIN pending /\ pending'[ref] = pending[ref]
        BY <2>1, <2>5, <3>2, <3>4
      <4>2. 1 .. count \subseteq 1 .. m
        BY <2>2, <2>4
      <4> QED BY <2>10, <3>1, <4>1, <4>2
    <3> QED BY <2>5, <3>1, <3>2, <3>3, <3>4
  <2>12. /\ slots' \in [Slots -> SlotType(AllRefs, m)]
         /\ \A s \in Slots :
              \/ slots'[s] = slots[s]
              \/ slots[s] = Idle /\ slots'[s].stage \in {"ending", "search", "dialog"}
         /\ taskQueue' \in Seq(WaitType(AllRefs, m))
         /\ toWebview' \in Seq(ToWebview(AllRefs))
    <3>1. /\ SlotType(AllRefs, count) \subseteq SlotType(AllRefs, m)
          /\ Seq(WaitType(AllRefs, count)) \subseteq Seq(WaitType(AllRefs, m))
      BY <2>2, <2>4, TypesWiden
    <3>2. slots \in [Slots -> SlotType(AllRefs, m)] /\ taskQueue \in Seq(WaitType(AllRefs, m))
      BY <3>1, StateFacts DEF count
    <3>3. taskQueue \o jobs \in Seq(WaitType(AllRefs, m))
      BY <2>8, <3>2, ConcatProperties
    <3> QED BY <2>1, <2>4, <2>6, <3>2, <3>3, StateFacts, DrainFacts
  <2>13. AllRefs' = AllRefs
    BY <1>1, SameReferences
  <2>14. KnownHolds'
    BY <1>1, <2>2, <2>4, <2>10, <2>11, <2>13 DEF KnownHolds
  <2>15. TasksHold'
    BY <2>10, <2>12, <2>13 DEF TasksHold, Slots
  <2>16. MessagesHold'
    BY <1>1, <1>2, <2>2, <2>12, MessagesKept
  <2>17. ConversionsHold'
    <3>1. Idle.stage = "idle"
      BY DEF Idle, Task
    <3> QED BY <1>1, <2>2, <2>12, <3>1, ConversionsKept DEF Converting
  <2> QED BY <2>14, <2>15, <2>16, <2>17 DEF RefInv
<1> QED BY <1>4, <1>5

\* The webview does not reach into the controller.
LEMMA WebviewKeeps ==
  ASSUME RefInv, UNCHANGED <<drawing, caches, known, linked, tasks>>,
         toHost' \in Seq(ToHost(AllRefs)), toWebview' \in Seq(ToWebview(AllRefs)),
         mountQueue' \in Seq(ReadyType(AllRefs)), mounted' \subseteq Paths(AllRefs),
         page' \in {"hidden", "loading", "shown"},
         discovered' \subseteq Files, disabled' \subseteq AllRefs
  PROVE  RefInv'
<1>1. KnownHolds /\ ConversionsHold
  BY DEF RefInv
<1>2. KnownHolds'
  BY <1>1, NoneNew, KnownKept DEF known, caches, KnownHolds
<1>3. TasksHold'
  BY StateFacts, TasksKept DEF known, tasks
<1>4. AllRefs' = AllRefs
  BY SameReferences
<1>5. MessagesHold'
  BY <1>4 DEF MessagesHold
<1>6. ConversionsHold'
  BY <1>1, ConversionsKept DEF caches, tasks
<1> QED BY <1>2, <1>3, <1>5, <1>6 DEF RefInv

\* What the webview has before a step of its own.
LEMMA WebviewFacts ==
  ASSUME RefInv
  PROVE  /\ toHost \in Seq(ToHost(AllRefs)) /\ toWebview \in Seq(ToWebview(AllRefs))
         /\ mountQueue \in Seq(ReadyType(AllRefs)) /\ mounted \subseteq Paths(AllRefs)
         /\ page \in {"hidden", "loading", "shown"}
         /\ discovered \subseteq Files /\ disabled \subseteq AllRefs
         /\ <<>> \in Seq(ReadyType(AllRefs)) /\ <<>> \in Seq(ToWebview(AllRefs))
BY DEF RefInv, MessagesHold

\* It reports only caches.
LEMMA DiscoveryFacts ==
  ASSUME NEW R, NEW file \in Files
  PROVE  Discovery(file) \in Seq(ToHost(R))
<1>1. "" \in Words
  BY DEF Words
<1>2. [type |-> "discovered", ref |-> NoFile, file |-> file, says |-> ""] \in ToHost(R)
  BY <1>1 DEF ToHost
<1> DEFINE report == [type |-> "discovered", ref |-> NoFile, file |-> file, says |-> ""]
<1>3. Discovery(file) = <<>> \/ Discovery(file) = <<report>>
  BY DEF Discovery
<1> HIDE DEF report
<1>4. <<>> \in Seq(ToHost(R)) /\ (report \in ToHost(R) => <<report>> \in Seq(ToHost(R)))
  OBVIOUS
<1> QED BY <1>2, <1>3, <1>4 DEF report

\* The drawing is shown, and its references are reported.
LEMMA OpenDrawingKeeps ==
  ASSUME RefInv, OpenDrawing
  PROVE  RefInv'
<1>1. /\ UNCHANGED <<drawing, caches, known, linked, tasks, toWebview, disabled, mounted>>
      /\ page' = "shown" /\ mountQueue' = <<>> /\ discovered' = discovered \cup {Root}
      /\ toHost' = toHost \o Discovery(Root)
  BY DEF OpenDrawing, Discover
<1>2. Root \in Files
  BY ReferencesAssumption
<1>3. toHost' \in Seq(ToHost(AllRefs))
  BY <1>1, <1>2, DiscoveryFacts, WebviewFacts, ConcatProperties
<1> QED BY <1>1, <1>2, <1>3, WebviewFacts, WebviewKeeps

\* The panel is told of a reference.
LEMMA ReceiveStatusKeeps ==
  ASSUME RefInv, ReceiveStatus
  PROVE  RefInv'
<1>1. /\ UNCHANGED <<drawing, caches, known, linked, tasks, toHost, page, discovered,
                     mountQueue, mounted>>
      /\ toWebview # <<>> /\ toWebview' = Tail(toWebview)
      /\ disabled' = disabled \/ disabled' = {}
  BY DEF ReceiveStatus
<1>2. toWebview' \in Seq(ToWebview(AllRefs))
  BY <1>1, WebviewFacts, HeadTailProperties
<1>3. disabled' \subseteq AllRefs
  BY <1>1, WebviewFacts
<1> QED BY <1>1, <1>2, <1>3, WebviewFacts, WebviewKeeps

\* A cache is announced to the webview.
LEMMA ReceiveReadyKeeps ==
  ASSUME RefInv, ReceiveReady
  PROVE  RefInv'
<1>1. /\ UNCHANGED <<drawing, caches, known, linked, tasks, toHost, page, discovered,
                     disabled, mounted>>
      /\ toWebview # <<>> /\ toWebview' = Tail(toWebview) /\ Head(toWebview).type = "ready"
      /\ mountQueue' = Append(mountQueue, Head(toWebview))
  BY DEF ReceiveReady, panel
<1>2. toWebview' \in Seq(ToWebview(AllRefs)) /\ Head(toWebview) \in ToWebview(AllRefs)
  BY <1>1, WebviewFacts, HeadTailProperties
<1>3. Head(toWebview) \in ReadyType(AllRefs)
  BY <1>1, <1>2 DEF ToWebview
<1>4. mountQueue' \in Seq(ReadyType(AllRefs))
  BY <1>1, <1>3, WebviewFacts, AppendProperties
<1> QED BY <1>1, <1>2, <1>4, WebviewFacts, WebviewKeeps

\* The first of the caches that wait to be mounted, and the answer to it.
LEMMA FirstReady ==
  ASSUME RefInv, mountQueue # <<>>, NEW says \in Words
  PROVE  /\ Head(mountQueue).ref \in AllRefs /\ Head(mountQueue).file \in Files
         /\ Tail(mountQueue) \in Seq(ReadyType(AllRefs))
         /\ Message("mounted", Head(mountQueue).ref, Head(mountQueue).file, says)
              \in ToHost(AllRefs)
<1>1. Head(mountQueue) \in ReadyType(AllRefs) /\ Tail(mountQueue) \in Seq(ReadyType(AllRefs))
  BY WebviewFacts, HeadTailProperties
<1>2. Head(mountQueue).ref \in AllRefs /\ Head(mountQueue).file \in Files
  BY <1>1 DEF ReadyType
<1>3. Message("mounted", Head(mountQueue).ref, Head(mountQueue).file, says) \in ToHost(AllRefs)
  BY <1>2 DEF Message, ToHost
<1> QED BY <1>1, <1>2, <1>3

\* Wherever a cache is mounted, the path to it begins in the drawing.
LEMMA MountedFacts ==
  ASSUME RefInv, NEW ref \in AllRefs, NEW file \in Files,
         NEW place \in Places(ref.parent)
  PROVE  Append(place, [ref |-> ref, file |-> file]) \in Paths(AllRefs)
<1> DEFINE P == [ref : AllRefs, file : Files]
           mount == [ref |-> ref, file |-> file]
<1>1. mount \in P /\ mount.ref = ref
  OBVIOUS
<1>2. \/ place = <<>> /\ ref.parent = Root
      \/ place \in mounted
  BY DEF Places
<1> HIDE DEF P, mount
<1>3. CASE place = <<>> /\ ref.parent = Root
  <2>1. place \in Seq(P) /\ Len(place) = 0
    BY <1>3
  <2>2. Append(place, mount) \in Seq(P) /\ Append(place, mount) # <<>>
        /\ Append(place, mount)[1] = mount
    BY <1>1, <1>3, <2>1, AppendProperties
  <2> QED BY <1>1, <1>3, <2>2 DEF Paths, P, mount
<1>4. CASE place \in mounted
  <2>1. place \in Seq(P) /\ place # <<>> /\ place[1].ref.parent = Root
    BY <1>4, WebviewFacts DEF Paths, P
  <2>2. Len(place) \in Nat \ {0}
    BY <2>1, EmptySeq, LenProperties
  <2>3. Append(place, mount) \in Seq(P) /\ Append(place, mount) # <<>>
        /\ Append(place, mount)[1] = place[1]
    BY <1>1, <2>1, <2>2, AppendProperties
  <2> QED BY <2>1, <2>3 DEF Paths, P, mount
<1> QED BY <1>2, <1>3, <1>4

\* A cache is mounted, and its references are reported.
LEMMA MountKeeps ==
  ASSUME RefInv, Mount
  PROVE  RefInv'
<1> DEFINE ready == Head(mountQueue)
           ref   == ready.ref
           mount == [ref |-> ref, file |-> ready.file]
           done  == Message("mounted", ref, ready.file, "ready")
<1>1. /\ UNCHANGED <<drawing, caches, known, linked, tasks, toWebview, page>>
      /\ mountQueue # <<>> /\ mountQueue' = Tail(mountQueue)
      /\ \/ toHost' = Append(toHost, done)
         \/ toHost' = toHost \o Append(Discovery(ready.file), done)
      /\ \/ mounted' = mounted
         \/ mounted' = mounted \cup {Append(place, mount) : place \in Places(ref.parent)}
      /\ discovered' = discovered \/ discovered' = discovered \cup {ready.file}
      /\ disabled' = disabled \/ disabled' = {}
  BY DEF Mount, Discover, panel
<1>2. "ready" \in Words
  BY DEF Words
<1>3. /\ ref \in AllRefs /\ ready.file \in Files /\ done \in ToHost(AllRefs)
      /\ mountQueue' \in Seq(ReadyType(AllRefs))
  BY <1>1, <1>2, FirstReady
<1> HIDE DEF done, ready, ref
<1>4. toHost' \in Seq(ToHost(AllRefs))
  <2>1. Append(Discovery(ready.file), done) \in Seq(ToHost(AllRefs))
    BY <1>3, DiscoveryFacts, AppendProperties
  <2>2. /\ Append(toHost, done) \in Seq(ToHost(AllRefs))
        /\ toHost \o Append(Discovery(ready.file), done) \in Seq(ToHost(AllRefs))
    BY <1>3, <2>1, WebviewFacts, AppendProperties, ConcatProperties
  <2> QED BY <1>1, <2>2
<1>5. mounted' \subseteq Paths(AllRefs)
  <2>1. \A place \in Places(ref.parent) : Append(place, mount) \in Paths(AllRefs)
    BY <1>3, MountedFacts
  <2> HIDE DEF mount
  <2>2. \A path \in mounted' :
          path \in mounted \/ \E place \in Places(ref.parent) : path = Append(place, mount)
    BY <1>1
  <2> QED BY <2>1, <2>2, WebviewFacts
<1>6. discovered' \subseteq Files /\ disabled' \subseteq AllRefs
  BY <1>1, <1>3, WebviewFacts
<1> QED BY <1>1, <1>3, <1>4, <1>5, <1>6, WebviewFacts, WebviewKeeps

\* A mounting fails.
LEMMA MountThrowsKeeps ==
  ASSUME RefInv, MountThrows
  PROVE  RefInv'
<1> DEFINE ready == Head(mountQueue)
           said  == Message("mounted", ready.ref, ready.file, "error")
<1>1. /\ UNCHANGED <<drawing, caches, known, linked, tasks, toWebview, page, discovered, mounted>>
      /\ mountQueue # <<>> /\ mountQueue' = Tail(mountQueue) /\ disabled' = {}
      /\ toHost' = Append(toHost, said)
  BY DEF MountThrows
<1>2. "error" \in Words
  BY DEF Words
<1>3. said \in ToHost(AllRefs) /\ mountQueue' \in Seq(ReadyType(AllRefs))
  BY <1>1, <1>2, FirstReady
<1>4. toHost' \in Seq(ToHost(AllRefs))
  BY <1>1, <1>3, WebviewFacts, AppendProperties
<1> QED BY <1>1, <1>3, <1>4, WebviewFacts, WebviewKeeps

\* A button of the panel is used.
LEMMA UseButtonKeeps ==
  ASSUME RefInv, NEW kind \in {"load", "select"}, NEW ref \in AllRefs, UseButton(kind, ref)
  PROVE  RefInv'
<1>1. /\ UNCHANGED <<drawing, caches, known, linked, tasks, toWebview, page, discovered,
                     mountQueue, mounted>>
      /\ disabled' = disabled \cup {ref} /\ toHost' = Append(toHost, Click(kind, ref))
  BY DEF UseButton
<1>2. "" \in Words
  BY DEF Words
<1>3. Click(kind, ref) \in ToHost(AllRefs)
  BY <1>2 DEF Click, Message, ToHost
<1>4. toHost' \in Seq(ToHost(AllRefs)) /\ disabled' \subseteq AllRefs
  BY <1>1, <1>3, WebviewFacts, AppendProperties
<1> QED BY <1>1, <1>4, WebviewFacts, WebviewKeeps

\* The editor is hidden.
LEMMA HideKeeps ==
  ASSUME RefInv, Hide
  PROVE  RefInv'
<1>1. /\ UNCHANGED <<drawing, caches, known, linked, tasks, toHost>>
      /\ page' = "hidden" /\ toWebview' = <<>> /\ discovered' = {} /\ disabled' = {}
      /\ mountQueue' = <<>> /\ mounted' = {}
  BY DEF Hide
<1> QED BY <1>1, WebviewFacts, WebviewKeeps

\* The editor is shown again.
LEMMA ShowKeeps ==
  ASSUME RefInv, Show
  PROVE  RefInv'
<1>1. /\ UNCHANGED <<drawing, caches, known, linked, tasks, toHost, toWebview, discovered,
                     disabled, mountQueue, mounted>>
      /\ page' = "loading"
  BY DEF Show, messages, panel
<1> QED BY <1>1, WebviewFacts, WebviewKeeps

-----------------------------------------------------------------------------
(* The theorems. *)

\* The invariant holds at first.
LEMMA RefInitHolds == RefInit => RefInv
<1> SUFFICES ASSUME RefInit PROVE RefInv
  OBVIOUS
<1>1. /\ drawing \in Drawings /\ references = <<>> /\ DOMAIN pending = {}
      /\ linked = [ref \in AllRefs |-> ref.target]
      /\ DOMAIN sources = {Root} /\ prepared = {}
      /\ taskQueue = <<>> /\ slots = [s \in Slots |-> Idle] /\ prepareQueue = <<>>
      /\ toHost = <<>> /\ toWebview = <<>> /\ mountQueue = <<>> /\ mounted = {}
      /\ page = "loading" /\ discovered = {} /\ disabled = {}
  BY DEF RefInit
<1>2. \A ref \in AllRefs : ref.target \in Files \cup {NoFile}
  <2> SUFFICES ASSUME NEW file \in Files, NEW i \in DOMAIN drawing.references[file]
               PROVE  drawing.references[file][i].target \in Files \cup {NoFile}
    BY DEF AllRefs, Refs
  <2>1. drawing.references[file] \in Seq(ReferenceType)
    BY <1>1, ReferencesAssumption DEF Drawing
  <2>2. drawing.references[file][i] \in ReferenceType
    BY <2>1, LenProperties, ElementOfSeq
  <2> QED BY <2>2 DEF ReferenceType
<1>3. KnownHolds
  <2>1. Len(references) = 0 /\ references \in Seq(KnownType(AllRefs))
    BY <1>1
  <2>2. 0 <= MaxReferences /\ Root \in Files
    BY ReferencesAssumption
  <2>3. linked \in [AllRefs -> Files \cup {NoFile}]
    BY <1>1, <1>2
  <2> QED BY <1>1, <2>1, <2>2, <2>3 DEF KnownHolds
<1>4. TasksHold
  BY <1>1 DEF TasksHold, SlotType
<1>5. MessagesHold
  BY <1>1 DEF MessagesHold
<1>6. ConversionsHold
  <2>1. Idle.stage = "idle"
    BY DEF Idle, Task
  <2> QED BY <1>1, <2>1 DEF ConversionsHold, At
<1> QED BY <1>3, <1>4, <1>5, <1>6 DEF RefInv

\* Every step keeps it.
LEMMA RefStep == RefInv /\ [RefNext]_refVars => RefInv'
<1> SUFFICES ASSUME RefInv, [RefNext]_refVars PROVE RefInv'
  OBVIOUS
<1>1. CASE UNCHANGED refVars
  <2>1. UNCHANGED <<drawing, caches, known, linked, tasks, toHost, toWebview, page, discovered,
                    disabled, mountQueue, mounted>>
    BY <1>1 DEF refVars, messages, webview, panel
  <2> QED BY <2>1, WebviewFacts, WebviewKeeps
<1>2. CASE HandleDiscovery
  BY <1>2, HandleDiscoveryKeeps
<1>3. CASE HandleClick
  BY <1>3, HandleClickKeeps
<1>4. CASE HandleMounted
  BY <1>4, HandleMountedKeeps
<1>5. ASSUME NEW s \in Slots,
             \/ TaskEnds(s) \/ Found(s) \/ BeginPreparing(s) \/ Converted(s)
             \/ ConversionFails(s) \/ MountTimeout(s) \/ CancelDialog(s)
      PROVE  RefInv'
  BY <1>5, TaskEndsKeeps, FoundKeeps, BeginPreparingKeeps, ConvertedKeeps,
     ConversionFailsKeeps, MountTimeoutKeeps, CancelDialogKeeps
<1>6. ASSUME NEW s \in Slots, NEW file \in Files, LinkFile(s, file)
      PROVE  RefInv'
  BY <1>6, LinkFileKeeps
<1>7. ASSUME NEW kind \in {"load", "select"}, NEW ref \in AllRefs, UseButton(kind, ref)
      PROVE  RefInv'
  BY <1>7, UseButtonKeeps
<1>8. CASE OpenDrawing \/ ReceiveStatus \/ ReceiveReady \/ Mount \/ MountThrows \/ Hide \/ Show
  BY <1>8, OpenDrawingKeeps, ReceiveStatusKeeps, ReceiveReadyKeeps, MountKeeps,
     MountThrowsKeeps, HideKeeps, ShowKeeps
<1> QED BY <1>1, <1>2, <1>3, <1>4, <1>5, <1>6, <1>7, <1>8 DEF RefNext

\* Everything the controller and the webview have and send is what it is meant to be, and
\* whoever has a file converted is in the queue of conversions.
THEOREM ReferencesInvariant == RefSpec => []RefInv
BY RefInitHolds, RefStep, PTL DEF RefSpec

\* What it says of types.
LEMMA InvariantTyped == RefInv => TypeOK
<1> SUFFICES ASSUME RefInv PROVE TypeOK
  OBVIOUS
<1>1. KnownHolds /\ ConversionsHold
  BY DEF RefInv
<1>2. DOMAIN references = 1 .. Len(references)
      /\ \A i \in DOMAIN references :
           references[i].ref \in AllRefs /\ references[i].failure \in {"none", "missing", "error"}
  <2>1. DOMAIN references = 1 .. Len(references)
        /\ \A i \in 1 .. Len(references) : references[i] \in KnownType(AllRefs)
    BY StateFacts, LenProperties, ElementOfSeq
  <2> QED BY <2>1 DEF KnownType
<1>3. \A i \in DOMAIN taskQueue : taskQueue[i].reference \in DOMAIN references
  <2>1. \A i \in DOMAIN taskQueue : taskQueue[i] \in WaitType(AllRefs, Len(references))
    BY StateFacts, LenProperties, ElementOfSeq
  <2> QED BY <1>2, <2>1 DEF WaitType
<1>4. \A s \in Slots : slots[s].stage \in Stages
  BY StateFacts, StageFacts
<1>5. {prepareQueue[i] : i \in DOMAIN prepareQueue} =
        {s \in Slots : slots[s].stage \in {"prepare", "convert"}}
  <2>1. \A i \in DOMAIN prepareQueue : prepareQueue[i] \in Slots
    BY <1>1, LenProperties, ElementOfSeq DEF ConversionsHold
  <2>2. \A s \in Slots :
          slots[s].stage \in {"prepare", "convert"} <=>
            \E i \in DOMAIN prepareQueue : prepareQueue[i] = s
    BY <1>1 DEF ConversionsHold
  <2> QED BY <2>1, <2>2
<1>6. \A i \in DOMAIN toHost : toHost[i].type \in MessageTypes
  <2>1. \A i \in DOMAIN toHost : toHost[i] \in ToHost(AllRefs)
    BY StateFacts, LenProperties, ElementOfSeq
  <2> QED BY <2>1 DEF ToHost, MessageTypes
<1>7. \A i \in DOMAIN toWebview : toWebview[i].type \in {"status", "ready"}
  <2>1. \A i \in DOMAIN toWebview : toWebview[i] \in ToWebview(AllRefs)
    BY StateFacts, LenProperties, ElementOfSeq
  <2> QED BY <2>1 DEF ToWebview, ReadyType
<1>8. \A path \in mounted : path[1].ref.parent = Root
  BY WebviewFacts DEF Paths
<1> QED BY <1>1, <1>2, <1>3, <1>4, <1>5, <1>6, <1>7, <1>8, WebviewFacts DEF TypeOK, KnownHolds

\* Whatever the webview reports, its user does and fails, the controller only serves
\* references it knows, and its queue of conversions holds exactly the slots that need one.
THEOREM ReferencesTypeCorrect == RefSpec => []TypeOK
BY ReferencesInvariant, InvariantTyped, PTL

\* Two tasks run at a time (run() of the task queue, prepareSource()), but one converter,
\* and none for a file that has been converted for another reference.
THEOREM ConversionsAreSingle == RefSpec => []ConvertsOnce
<1>1. RefInv => ConvertsOnce
  BY DEF RefInv, ConversionsHold, ConvertsOnce
<1> QED BY <1>1, ReferencesInvariant, PTL
=============================================================================
