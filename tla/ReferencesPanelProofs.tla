----------------------- MODULE ReferencesPanelProofs -----------------------
(* Once nothing is underway the panel tells the truth: PanelAgrees of       *)
(* References, for every calm setting, whatever the drawings refer to,      *)
(* however many tasks run and whichever conversion or mounting fails.       *)
(*                                                                          *)
(* PanelAgrees speaks of a system at rest, its invariant of every state on  *)
(* the way (PanelHolds): what is known of a reference, in the tasks, among  *)
(* the messages and in the webview, belongs together at any time.           *)
(*   - Served: one task loads a reference, which is pending as long; what   *)
(*     else waits only says what the drawing says of it, and has its turn   *)
(*     before.                                                              *)
(*   - Awaited: a task that waits for a mounting has its answer underway,   *)
(*     in one of three queues, and what is underway there is waited for:    *)
(*     no answer comes to a task that is over. The timer never fires.       *)
(*   - Shown: "ready" is shown of what is mounted. A reference that is not  *)
(*     pending is mounted, or beyond the limit and the panel is or will be  *)
(*     told so.                                                             *)
(*   - NothingElse, Reports: nothing is known of a reference the panel has  *)
(*     not got, nor by the controller before its cache is reported to it,   *)
(*     which happens before a button of it is used (InOrder).               *)
(*   - Unused: while no button was used, nobody loads what the panel offers *)
(*     to load. This is why one click is calm; a second may ask for what is *)
(*     loaded already, and the two tasks settle each other's waiter.        *)
(*                                                                          *)
(* Steps of the controller are of one kind (ControllerKeeps): some messages *)
(* are taken, a task ends or goes on, tasks are added, free slots take      *)
(* those that wait. Steps of the webview take a message or mount a cache.   *)
EXTENDS ReferencesProofs
-----------------------------------------------------------------------------
(* What there is of a reference, in a queue of tasks, in the slots, among   *)
(* messages.                                                                *)

\* One element of a sequence comes before another.
Before(seq, a, b) == \E i, j \in DOMAIN seq : i < j /\ seq[i] = a /\ seq[j] = b

\* A task that waits to load it, or to say what the drawing says of it.
ToLoad(queue, ref) == \E task \in ToSet(queue) : task.ref = ref /\ task.stage # "saved"
ToSay(queue, ref)  == \E task \in ToSet(queue) : task.ref = ref /\ task.stage = "saved"
Waits(queue, ref)  == ToLoad(queue, ref) \/ ToSay(queue, ref)

\* A task that works for it. What is only about to end says nothing more.
Working == {"dialog", "search", "prepare", "convert", "mount"}
Works(running, ref) == \E s \in Slots : running[s].ref = ref /\ running[s].stage \in Working

\* Messages of a reference: to the webview, and to the extension.
Clicks == {"load", "select"}
Told(posts, ref)      == \E m \in ToSet(posts) : m.ref = ref
Announced(posts, ref) == \E m \in ToSet(posts) : m.ref = ref /\ m.type = "ready"
Offered(posts, ref)   == \E m \in ToSet(posts) : m.ref = ref /\ m.says \in Selectable
Clicked(posts, ref)   == \E m \in ToSet(posts) : m.ref = ref /\ m.type \in Clicks
Answered(posts, ref)  == \E m \in ToSet(posts) : m.ref = ref /\ m.type = "mounted"
Reported(posts, file) == \E m \in ToSet(posts) : m.file = file /\ m.type = "discovered"

\* One task works for a reference, or waits to load it. What waits to say what the drawing
\* says has its turn before.
Exclusive(queue, running) ==
  /\ \A a, b \in ToSet(queue) : Before(queue, a, b) /\ a.ref = b.ref => a.stage = "saved" /\ b.stage # "saved"
  /\ \A s \in Slots : running[s].stage \in Working => ~Waits(queue, running[s].ref)
  /\ \A s, t \in Slots :
       running[s].ref = running[t].ref /\ running[s].stage \in Working /\ running[t].stage \in Working
         => s = t

\* A cache is reported once, before a button of its references is used, which happens
\* once; a reference is answered once.
InOrder(posts) ==
  \A a, b \in ToSet(posts) : Before(posts, a, b) =>
    /\ a.type = "discovered" /\ b.type = "discovered" => a.file # b.file
    /\ a.type \in Clicks /\ b.type = "discovered" => a.ref.parent # b.file
    /\ ~(a.type \in Clicks /\ b.type \in Clicks)
    /\ a.type = "mounted" /\ b.type = "mounted" => a.ref # b.ref

\* Nothing is posted of a reference after its cache, and no cache waits twice.
LastWord(posts) == \A a, b \in ToSet(posts) : Before(posts, a, b) /\ a.type = "ready" => b.ref # a.ref
OneEach(queue)  == \A a, b \in ToSet(queue) : Before(queue, a, b) => a.ref # b.ref

-----------------------------------------------------------------------------
(* The inductive invariant of a calm setting.                               *)

\* The panel has the references of the caches that are mounted.
PageHolds ==
  /\ page \in {"loading", "shown"} /\ (page = "loading" => discovered = {})
  /\ status \in [AllRefs -> Words \cup {"none", "waiting", "failed"}]
  /\ \A ref \in AllRefs : status[ref] = "none" <=> ref.parent \notin discovered
  /\ \A file \in discovered \ {Root} : \E path \in mounted : path[Len(path)].file = file
  /\ Root \in DOMAIN sources /\ discovered \subseteq DOMAIN sources
  /\ \A s \in Slots : At(s, "mount") => slots[s].file \in DOMAIN sources

\* Nothing is known of a reference that is not in the panel.
NothingElse ==
  \A ref \in AllRefs : ref.parent \notin discovered =>
    /\ ~Waits(taskQueue, ref) /\ ~Works(slots, ref) /\ ref \notin DOMAIN pending
    /\ ~Told(toWebview, ref) /\ ~Told(mountQueue, ref)
    /\ ~Reported(toHost, ref.parent) /\ ~Clicked(toHost, ref) /\ ~Answered(toHost, ref)
    /\ ~IsMounted(ref)

\* The controller knows nothing of references that are still reported to it.
Reports ==
  /\ InOrder(toHost)
  /\ \A ref \in AllRefs : Reported(toHost, ref.parent) =>
       /\ ~Waits(taskQueue, ref) /\ ~Works(slots, ref) /\ ref \notin DOMAIN pending
       /\ ~Told(toWebview, ref) /\ ~IsMounted(ref)
       /\ status[ref] = IF ref.enabled THEN "waiting" ELSE "saved"
       /\ Clicked(toHost, ref) => ~ref.enabled

\* A reference is served while it is pending, by one task.
Served ==
  /\ Exclusive(taskQueue, slots)
  /\ \A ref \in AllRefs : Waits(taskQueue, ref) \/ Works(slots, ref) => ref \in DOMAIN pending
  /\ \A ref \in AllRefs : Clicked(toHost, ref) =>
       ~ToLoad(taskQueue, ref) /\ ~Works(slots, ref) /\ ~IsMounted(ref)

\* Who waits for a mounting has an answer underway, and what is underway is waited for.
Answers(m, slot) == slot.stage = "mount" /\ slot.ref = m.ref /\ slot.file = m.file
Awaited ==
  /\ LastWord(toWebview) /\ OneEach(mountQueue)
  /\ \A m \in ToSet(toWebview) : m.type = "ready" =>
       ~IsMounted(m.ref) /\ \E s \in Slots : Answers(m, slots[s])
  /\ \A m \in ToSet(mountQueue) :
       /\ ~IsMounted(m.ref) /\ ~Told(toWebview, m.ref)
       /\ \E s \in Slots : Answers(m, slots[s])
  /\ \A m \in ToSet(toHost) : m.type = "mounted" =>
       /\ ~Told(toWebview, m.ref) /\ ~Told(mountQueue, m.ref)
       /\ m.says = "ready" <=> IsMounted(m.ref)
       /\ \E s \in Slots : Answers(m, slots[s])
  /\ \A s \in Slots : At(s, "mount") => Underway(s)

\* What the panel shows of a reference, and is going to show.
Shown ==
  /\ \A m \in ToSet(toWebview) : m.says # "ready"
  /\ \A ref \in AllRefs : status[ref] = "ready" <=> IsMounted(ref)
  /\ \A ref \in AllRefs : IsMounted(ref) =>
       /\ ~Waits(taskQueue, ref) /\ ~Told(toWebview, ref)
       /\ Works(slots, ref) => Answered(toHost, ref)
  /\ \A m \in ToSet(toWebview) : m.ref \notin DOMAIN pending => m = Status(m.ref, "limit")
  /\ \A ref \in AllRefs :
       ref.parent \in discovered \cap ListenedTo /\ ref \notin DOMAIN pending
         /\ ~Reported(toHost, ref.parent)
         => IsMounted(ref) \/ status[ref] = "limit" \/ Told(toWebview, ref)

\* Until the panel is used, no reference is loaded that it offers to load.
Idly(ref) ==
  status[ref] \in Selectable \/ Offered(toWebview, ref) \/ ToSay(taskQueue, ref) =>
    ~ToLoad(taskQueue, ref) /\ ~Works(slots, ref)
Unused ==
  /\ used \in [clicks: Nat, hides: Nat] /\ used.clicks <= drawing.clicks
  /\ used.clicks = 0 => \A ref \in AllRefs : ~Clicked(toHost, ref) /\ Idly(ref)

PanelHolds ==
  PageHolds /\ NothingElse /\ Reports /\ Served /\ Awaited /\ Shown /\ Unused
PanelInv == Calm => PanelHolds

-----------------------------------------------------------------------------
(* Elements of a sequence, and their order. *)

\* What comes before something else is in the sequence, as that is.
LEMMA OrderFacts ==
  ASSUME NEW seq
  PROVE  \A a, b : Before(seq, a, b) => a \in ToSet(seq) /\ b \in ToSet(seq)
BY DEF Before, ToSet

LEMMA ElementFacts ==
  ASSUME NEW S, NEW seq \in Seq(S)
  PROVE  \A e \in ToSet(seq) : e \in S
BY LenProperties, ElementOfSeq DEF ToSet

\* An empty sequence has no elements, a sequence of one no order.
LEMMA FewElements ==
  /\ ToSet(<<>>) = {} /\ \A a, b : ~Before(<<>>, a, b)
  /\ \A e : ToSet(<<e>>) = {e} /\ \A a, b : ~Before(<<e>>, a, b)
<1>1. ToSet(<<>>) = {} /\ \A a, b : ~Before(<<>>, a, b)
  BY DEF ToSet, Before
<1>2. ASSUME NEW e
      PROVE  ToSet(<<e>>) = {e} /\ \A a, b : ~Before(<<e>>, a, b)
  <2>1. DOMAIN <<e>> = {1} /\ <<e>>[1] = e
    OBVIOUS
  <2>2. ~(1 < 1)
    OBVIOUS
  <2> QED BY <2>1, <2>2 DEF ToSet, Before
<1> QED BY <1>1, <1>2

\* The first of a sequence comes before the rest of it.
LEMMA TailFacts ==
  ASSUME NEW S, NEW seq \in Seq(S), seq # <<>>
  PROVE  /\ Head(seq) \in ToSet(seq)
         /\ \A e : e \in ToSet(Tail(seq)) => e \in ToSet(seq)
         /\ \A e : e \in ToSet(seq) => e = Head(seq) \/ e \in ToSet(Tail(seq))
         /\ \A a, b : Before(Tail(seq), a, b) => Before(seq, a, b)
         /\ \A e : e \in ToSet(Tail(seq)) => Before(seq, Head(seq), e)
<1>1. /\ Len(seq) \in Nat \ {0} /\ DOMAIN seq = 1 .. Len(seq) /\ Head(seq) = seq[1]
      /\ Tail(seq) \in Seq(S) /\ Len(Tail(seq)) = Len(seq) - 1
      /\ \A i \in 1 .. Len(Tail(seq)) : Tail(seq)[i] = seq[i + 1]
  BY HeadTailProperties, EmptySeq, LenProperties
<1>2. DOMAIN Tail(seq) = 1 .. Len(seq) - 1
  BY <1>1, LenProperties
<1>3. ASSUME NEW i \in DOMAIN Tail(seq)
      PROVE  i \in Int /\ i + 1 \in DOMAIN seq /\ Tail(seq)[i] = seq[i + 1] /\ 1 < i + 1
  BY <1>1, <1>2
<1>4. 1 \in DOMAIN seq
  BY <1>1
<1>5. \A e : e \in ToSet(Tail(seq)) => e \in ToSet(seq) /\ Before(seq, Head(seq), e)
  BY <1>1, <1>3, <1>4 DEF ToSet, Before
<1>6. ASSUME NEW e, e \in ToSet(seq)
      PROVE  e = Head(seq) \/ e \in ToSet(Tail(seq))
  <2>1. PICK i \in DOMAIN seq : seq[i] = e
    BY <1>6 DEF ToSet
  <2>2. i = 1 \/ (i - 1 \in DOMAIN Tail(seq) /\ (i - 1) + 1 = i)
    BY <1>1, <1>2
  <2>3. CASE i = 1
    BY <1>1, <2>1, <2>3
  <2>4. CASE i - 1 \in DOMAIN Tail(seq) /\ (i - 1) + 1 = i
    <3>1. Tail(seq)[i - 1] = e
      BY <1>3, <2>1, <2>4
    <3> QED BY <2>4, <3>1 DEF ToSet
  <2> QED BY <2>2, <2>3, <2>4
<1>7. ASSUME NEW a, NEW b, Before(Tail(seq), a, b)
      PROVE  Before(seq, a, b)
  <2>1. PICK i, j \in DOMAIN Tail(seq) : i < j /\ Tail(seq)[i] = a /\ Tail(seq)[j] = b
    BY <1>7 DEF Before
  <2>2. i + 1 < j + 1 /\ seq[i + 1] = a /\ seq[j + 1] = b
    BY <1>3, <2>1
  <2> QED BY <1>3, <2>2 DEF Before
<1>8. Head(seq) \in ToSet(seq)
  BY <1>1, <1>4 DEF ToSet
<1> QED BY <1>5, <1>6, <1>7, <1>8

\* One sequence after another.
LEMMA ConcatFacts ==
  ASSUME NEW S, NEW p \in Seq(S), NEW q \in Seq(S)
  PROVE  /\ \A e : e \in ToSet(p \o q) <=> e \in ToSet(p) \/ e \in ToSet(q)
         /\ \A a, b : Before(p \o q, a, b) =>
              Before(p, a, b) \/ Before(q, a, b) \/ (a \in ToSet(p) /\ b \in ToSet(q))
<1> DEFINE m == Len(p)
           n == Len(q)
<1>1. /\ m \in Nat /\ n \in Nat /\ DOMAIN p = 1 .. m /\ DOMAIN q = 1 .. n
      /\ p \o q \in Seq(S) /\ Len(p \o q) = m + n
      /\ \A i \in 1 .. m + n : (p \o q)[i] = IF i <= m THEN p[i] ELSE q[i - m]
  BY ConcatProperties, LenProperties
<1>2. DOMAIN (p \o q) = 1 .. m + n
  BY <1>1, LenProperties
<1> HIDE DEF m, n
<1>3. ASSUME NEW i \in DOMAIN p
      PROVE  i \in DOMAIN (p \o q) /\ (p \o q)[i] = p[i]
  BY <1>1, <1>2
<1>4. ASSUME NEW i \in DOMAIN q
      PROVE  m + i \in DOMAIN (p \o q) /\ (p \o q)[m + i] = q[i]
  <2>1. m + i \in 1 .. m + n /\ ~(m + i <= m) /\ (m + i) - m = i
    BY <1>1
  <2> QED BY <1>1, <1>2, <2>1
<1>5. ASSUME NEW i \in DOMAIN (p \o q)
      PROVE  /\ i \in Int
             /\ \/ i <= m /\ i \in DOMAIN p /\ (p \o q)[i] = p[i]
                \/ m < i /\ i - m \in DOMAIN q /\ (p \o q)[i] = q[i - m]
  BY <1>1, <1>2
<1>6. ASSUME NEW e
      PROVE  e \in ToSet(p \o q) <=> e \in ToSet(p) \/ e \in ToSet(q)
  <2>1. ASSUME e \in ToSet(p \o q) PROVE e \in ToSet(p) \/ e \in ToSet(q)
    <3>1. PICK i \in DOMAIN (p \o q) : (p \o q)[i] = e
      BY <2>1 DEF ToSet
    <3> QED BY <1>5, <3>1 DEF ToSet
  <2>2. ASSUME e \in ToSet(p) PROVE e \in ToSet(p \o q)
    <3>1. PICK i \in DOMAIN p : p[i] = e
      BY <2>2 DEF ToSet
    <3> QED BY <1>3, <3>1 DEF ToSet
  <2>3. ASSUME e \in ToSet(q) PROVE e \in ToSet(p \o q)
    <3>1. PICK i \in DOMAIN q : q[i] = e
      BY <2>3 DEF ToSet
    <3> QED BY <1>4, <3>1 DEF ToSet
  <2> QED BY <2>1, <2>2, <2>3
<1>7. ASSUME NEW a, NEW b, Before(p \o q, a, b)
      PROVE  Before(p, a, b) \/ Before(q, a, b) \/ (a \in ToSet(p) /\ b \in ToSet(q))
  <2>1. PICK i, j \in DOMAIN (p \o q) : i < j /\ (p \o q)[i] = a /\ (p \o q)[j] = b
    BY <1>7 DEF Before
  <2>2. CASE j <= m
    <3>1. i <= m
      BY <1>1, <1>5, <2>1, <2>2
    <3> QED BY <1>1, <1>5, <2>1, <2>2, <3>1 DEF Before
  <2>3. CASE i <= m /\ m < j
    BY <1>1, <1>5, <2>1, <2>3 DEF ToSet
  <2>4. CASE m < i
    <3>1. m < j /\ i - m < j - m
      BY <1>1, <1>5, <2>1, <2>4
    <3> QED BY <1>1, <1>5, <2>1, <2>4, <3>1 DEF Before
  <2> QED BY <1>1, <1>5, <2>2, <2>3, <2>4
<1> QED BY <1>6, <1>7

\* One more at the end.
LEMMA AppendFacts ==
  ASSUME NEW S, NEW seq \in Seq(S), NEW e \in S
  PROVE  /\ \A x : x \in ToSet(Append(seq, e)) <=> x \in ToSet(seq) \/ x = e
         /\ \A a, b : Before(Append(seq, e), a, b) =>
              Before(seq, a, b) \/ (a \in ToSet(seq) /\ b = e)
<1>1. <<e>> \in Seq(S) /\ Append(seq, e) = seq \o <<e>>
  BY AppendIsConcat
<1>2. ToSet(<<e>>) = {e} /\ \A a, b : ~Before(<<e>>, a, b)
  BY FewElements
<1> DEFINE one == <<e>>
<1> HIDE DEF one
<1>3. /\ \A x : x \in ToSet(seq \o one) <=> x \in ToSet(seq) \/ x \in ToSet(one)
      /\ \A a, b : Before(seq \o one, a, b) =>
           Before(seq, a, b) \/ Before(one, a, b) \/ (a \in ToSet(seq) /\ b \in ToSet(one))
  <2>1. one \in Seq(S)
    BY <1>1 DEF one
  <2> QED BY <2>1, ConcatFacts
<1> QED BY <1>1, <1>2, <1>3 DEF one

\* What is left of a sequence after its first elements.
LEMMA RestFacts ==
  ASSUME NEW S, NEW seq \in Seq(S), NEW k \in Nat, k <= Len(seq)
  PROVE  LET rest == SubSeq(seq, k + 1, Len(seq))
         IN /\ \A e : e \in ToSet(rest) => e \in ToSet(seq)
            /\ \A a, b : Before(rest, a, b) => Before(seq, a, b)
            /\ \A i \in 1 .. k : \A e : e \in ToSet(rest) => Before(seq, seq[i], e)
<1> DEFINE rest == SubSeq(seq, k + 1, Len(seq))
           n    == Len(seq)
<1>1. n \in Nat /\ DOMAIN seq = 1 .. n /\ \A i \in 1 .. n : seq[i] \in S
  BY LenProperties, ElementOfSeq
<1>2. k <= n
  OBVIOUS
<1>3. \A i \in k + 1 .. n : seq[i] \in S
  <2> HIDE DEF n
  <2> QED BY <1>1
<1>4. /\ rest \in Seq(S) /\ Len(rest) = IF k + 1 <= n THEN n - (k + 1) + 1 ELSE 0
      /\ \A i \in 1 .. n - (k + 1) + 1 : rest[i] = seq[k + 1 + i - 1]
  <2>1. k + 1 \in Int /\ n \in Int
    BY <1>1
  <2> QED BY <1>3, <2>1, SubSeqProperties
<1>5. DOMAIN rest = 1 .. Len(rest)
  BY <1>4, LenProperties
<1> HIDE DEF rest, n
<1>6. n - (k + 1) + 1 = n - k /\ Len(rest) = n - k
  BY <1>1, <1>2, <1>4
<1>7. ASSUME NEW i \in DOMAIN rest
      PROVE  i \in Int /\ k + i \in DOMAIN seq /\ k < k + i /\ rest[i] = seq[k + i]
  <2>1. i \in 1 .. n - k
    BY <1>5, <1>6
  <2>2. k + 1 + i - 1 = k + i
    BY <2>1
  <2> QED BY <1>1, <1>2, <1>4, <1>6, <2>1, <2>2
<1>8. \A e : e \in ToSet(rest) => e \in ToSet(seq)
  BY <1>7 DEF ToSet
<1>9. ASSUME NEW a, NEW b, Before(rest, a, b)
      PROVE  Before(seq, a, b)
  <2>1. PICK i, j \in DOMAIN rest : i < j /\ rest[i] = a /\ rest[j] = b
    BY <1>9 DEF Before
  <2>2. k + i < k + j
    BY <1>7, <2>1
  <2> QED BY <1>7, <2>1, <2>2 DEF Before
<1>10. ASSUME NEW i \in 1 .. k, NEW e, e \in ToSet(rest)
       PROVE  Before(seq, seq[i], e)
  <2>1. PICK j \in DOMAIN rest : rest[j] = e
    BY <1>10 DEF ToSet
  <2>2. i \in DOMAIN seq /\ i < k + j
    BY <1>1, <1>2, <1>7
  <2> QED BY <1>7, <2>1, <2>2 DEF Before
<1> QED BY <1>8, <1>9, <1>10 DEF rest, n

-----------------------------------------------------------------------------
(* Free slots take tasks. *)

\* What a step leaves of tasks that run and wait, and of what is posted: some of those that
\* wait may have begun, the first of them first, and have said their words.
Serves(running, waiting, posts) ==
  /\ Exclusive(waiting, running) => Exclusive(taskQueue', slots')
  /\ \A ref : /\ ToLoad(taskQueue', ref) => ToLoad(waiting, ref)
              /\ ToSay(taskQueue', ref) => ToSay(waiting, ref)
              /\ Works(slots', ref) => Works(running, ref) \/ ToLoad(waiting, ref)
  /\ \A s \in Slots :
       slots'[s].stage = "mount" \/ running[s].stage # "idle" => slots'[s] = running[s]
  /\ \E words :
       /\ \A m : m \in ToSet(toWebview') <=>
                   m \in ToSet(toWebview) \/ m \in ToSet(posts) \/ m \in words
       /\ \A a, b : Before(toWebview', a, b) /\ a.type = "ready" =>
            \/ Before(toWebview, a, b) \/ Before(posts, a, b)
            \/ a \in ToSet(toWebview) /\ b \in ToSet(posts) \cup words
            \/ a \in ToSet(posts) /\ b \in words
       /\ \A m \in words :
            /\ m.type = "status" /\ m.says # "ready" /\ Waits(waiting, m.ref)
            /\ m.says \in Selectable => ToSay(waiting, m.ref)

\* What is posted twice after what was posted, as far as order matters.
LEMMA PostedFacts ==
  ASSUME NEW T, NEW told \in Seq(T), NEW posts \in Seq(T), NEW words \in Seq(T)
  PROVE  /\ \A m : m \in ToSet(told \o (posts \o words)) <=>
                     m \in ToSet(told) \/ m \in ToSet(posts) \/ m \in ToSet(words)
         /\ \A a, b : Before(told \o (posts \o words), a, b) =>
              \/ Before(told, a, b) \/ Before(posts, a, b) \/ Before(words, a, b)
              \/ a \in ToSet(told) /\ b \in ToSet(posts) \cup ToSet(words)
              \/ a \in ToSet(posts) /\ b \in ToSet(words)
<1> DEFINE said == posts \o words
<1>1. said \in Seq(T)
  BY ConcatProperties
<1>2. /\ \A m : m \in ToSet(said) <=> m \in ToSet(posts) \/ m \in ToSet(words)
      /\ \A a, b : Before(said, a, b) =>
           Before(posts, a, b) \/ Before(words, a, b) \/ (a \in ToSet(posts) /\ b \in ToSet(words))
  BY ConcatFacts
<1> HIDE DEF said
<1>3. /\ \A m : m \in ToSet(told \o said) <=> m \in ToSet(told) \/ m \in ToSet(said)
      /\ \A a, b : Before(told \o said, a, b) =>
           Before(told, a, b) \/ Before(said, a, b) \/ (a \in ToSet(told) /\ b \in ToSet(said))
  BY <1>1, ConcatFacts
<1>4. /\ \A m : m \in ToSet(told \o said) <=>
                  m \in ToSet(told) \/ m \in ToSet(posts) \/ m \in ToSet(words)
      /\ \A a, b : Before(told \o said, a, b) =>
           \/ Before(told, a, b) \/ Before(posts, a, b) \/ Before(words, a, b)
           \/ a \in ToSet(told) /\ b \in ToSet(posts) \cup ToSet(words)
           \/ a \in ToSet(posts) /\ b \in ToSet(words)
  BY <1>2, <1>3
<1> QED BY <1>4 DEF said

\* A task that begins works only to load its reference, and does not wait for a mounting.
LEMMA BegunWorks ==
  ASSUME NEW R, NEW n \in Nat, NEW task \in WaitType(R, n)
  PROVE  /\ Begun(task).ref = task.ref /\ Begun(task).stage # "mount"
         /\ Begun(task).stage \in Working => task.stage # "saved"
         /\ Begun(task).stage # "idle"
<1>1. \/ task.stage = "saved" /\ Begun(task) = [task EXCEPT !.stage = "ending"]
      \/ task.stage # "saved" /\ \E stage \in {"ending", "search", "dialog"} :
           Begun(task) = [task EXCEPT !.stage = stage]
  BY DEF Begun, WaitType
<1> QED BY <1>1 DEF WaitType, Working

\* What it says, if it speaks: it offers its reference only if it leaves it as it is.
LEMMA FirstWordSays ==
  ASSUME NEW task
  PROVE  LET word == FirstWord(task)
         IN /\ word.ref = task.ref /\ word.type = "status" /\ word.says # "ready"
            /\ word.says \in Selectable => task.stage = "saved"
BY DEF FirstWord, Status, Message, Selectable

\* Whatever waits is of one of the two kinds.
LEMMA WaitFacts ==
  ASSUME NEW queue, NEW task \in ToSet(queue)
  PROVE  /\ Waits(queue, task.ref)
         /\ task.stage = "saved" => ToSay(queue, task.ref)
         /\ task.stage # "saved" => ToLoad(queue, task.ref)
BY DEF Waits, ToSay, ToLoad

\* drain() serves those that wait in their order, once each.
LEMMA DrainServes ==
  ASSUME NEW R, NEW n \in Nat, NEW running \in [Slots -> SlotType(R, n)],
         NEW waiting \in Seq(WaitType(R, n)), NEW posts \in Seq(ToWebview(R)),
         toWebview \in Seq(ToWebview(R)), page # "hidden", Drain(running, waiting, posts)
  PROVE  Serves(running, waiting, posts)
<1> DEFINE free     == {s \in Slots : running[s] = Idle}
           begun    == IF Len(waiting) < Cardinality(free) THEN Len(waiting)
                       ELSE Cardinality(free)
           speaking == {i \in 1 .. begun : Speaks(waiting[i])}
           words    == [k \in 1 .. Cardinality(speaking) |->
                          FirstWord(waiting[Nth(speaking, k)])]
           turn(s)  == Rank(free, s)
           Takes(s) == s \in free /\ turn(s) <= begun
<1>1. /\ slots' = [s \in Slots |->
            IF Takes(s) THEN Begun(waiting[turn(s)]) ELSE running[s]]
      /\ taskQueue' = SubSeq(waiting, begun + 1, Len(waiting))
      /\ toWebview' = toWebview \o (posts \o words)
  BY DEF Drain, Post
<1>2. /\ free \in SUBSET Nat /\ IsFiniteSet(free)
      /\ Cardinality(free) \in Nat
      /\ \A s \in free : turn(s) \in 1 .. Cardinality(free)
      /\ \A s, t \in free : turn(s) = turn(t) => s = t
  <2>0. Concurrency \in Nat
    BY ReferencesAssumption
  <2>1. IsFiniteSet(Slots) /\ Slots \in SUBSET Nat
    BY <2>0, FS_Interval DEF Slots
  <2>2. free \in SUBSET Slots
    OBVIOUS
  <2> HIDE DEF free
  <2>3. IsFiniteSet(free)
    BY <2>1, <2>2, FS_Subset
  <2> QED BY <2>1, <2>2, <2>3, RankFacts
<1>3. Len(waiting) \in Nat /\ DOMAIN waiting = 1 .. Len(waiting)
      /\ \A i \in 1 .. Len(waiting) : waiting[i] \in WaitType(R, n) /\ waiting[i] \in ToSet(waiting)
  BY LenProperties, ElementOfSeq DEF ToSet
<1>4. begun \in Nat /\ begun <= Len(waiting)
  <2> HIDE DEF free
  <2> QED BY <1>2, <1>3
<1> HIDE DEF begun, turn
<1>5. ASSUME NEW s \in Slots, Takes(s)
      PROVE  /\ running[s] = Idle /\ slots'[s] = Begun(waiting[turn(s)])
             /\ turn(s) \in 1 .. begun /\ turn(s) \in DOMAIN waiting
             /\ waiting[turn(s)] \in WaitType(R, n) /\ waiting[turn(s)] \in ToSet(waiting)
  <2>1. turn(s) \in 1 .. begun /\ turn(s) \in 1 .. Len(waiting)
    BY <1>2, <1>3, <1>4, <1>5
  <2> QED BY <1>1, <1>3, <1>5, <2>1
<1>6. ASSUME NEW s \in Slots, ~Takes(s)
      PROVE  slots'[s] = running[s]
  BY <1>1, <1>6
<1>7. /\ \A task \in ToSet(taskQueue') : task \in ToSet(waiting)
      /\ \A i \in 1 .. begun, task \in ToSet(taskQueue') : Before(waiting, waiting[i], task)
      /\ \A a, b : Before(taskQueue', a, b) => Before(waiting, a, b)
  <2>1. taskQueue' = SubSeq(waiting, begun + 1, Len(waiting))
    BY <1>1
  <2> QED BY <1>4, <2>1, RestFacts
<1>8. words \in Seq(ToWebview(R)) /\ \A m \in ToSet(words) : \E i \in 1 .. begun :
                                         m = FirstWord(waiting[i])
  <2>1. IsFiniteSet(1 .. begun) /\ speaking \in SUBSET (1 .. begun)
    BY <1>4, FS_Interval
  <2> HIDE DEF speaking
  <2>2. IsFiniteSet(speaking)
    BY <2>1, FS_Subset
  <2>3. speaking \in SUBSET Nat
    BY <1>4, <2>1
  <2>4. /\ Cardinality(speaking) \in Nat
        /\ \A k \in 1 .. Cardinality(speaking) : Nth(speaking, k) \in speaking
    BY <2>2, <2>3, RankFacts
  <2>5. ASSUME NEW k \in 1 .. Cardinality(speaking)
        PROVE  /\ FirstWord(waiting[Nth(speaking, k)]) \in ToWebview(R)
               /\ Nth(speaking, k) \in 1 .. begun
    <3>1. Nth(speaking, k) \in 1 .. begun
      BY <2>1, <2>4
    <3>2. Nth(speaking, k) \in 1 .. Len(waiting)
      BY <1>3, <1>4, <3>1
    <3>3. waiting[Nth(speaking, k)] \in WaitType(R, n)
      BY <1>3, <3>2
    <3> QED BY <3>1, <3>3, BegunFacts
  <2>6. words \in [1 .. Cardinality(speaking) -> ToWebview(R)]
    BY <2>5
  <2>7. \A k \in 1 .. Cardinality(speaking) : words[k] = FirstWord(waiting[Nth(speaking, k)])
    OBVIOUS
  <2> HIDE DEF words
  <2>8. words \in Seq(ToWebview(R)) /\ DOMAIN words = 1 .. Cardinality(speaking)
    BY <2>4, <2>6, FunctionIsSeq
  <2> QED BY <2>5, <2>7, <2>8 DEF ToSet
<1> HIDE DEF free, words, Takes
<1>9. ASSUME NEW s \in Slots
      PROVE  /\ slots'[s].stage = "mount" \/ running[s].stage # "idle" => slots'[s] = running[s]
             /\ \/ slots'[s] = running[s]
                \/ slots'[s].stage \in Working => ToLoad(waiting, slots'[s].ref)
  <2>1. CASE Takes(s)
    <3>1. Idle.stage = "idle"
      BY DEF Idle, Task
    <3>2. /\ slots'[s].ref = waiting[turn(s)].ref /\ slots'[s].stage # "mount"
          /\ slots'[s].stage \in Working => waiting[turn(s)].stage # "saved"
      BY <1>5, <2>1, BegunWorks
    <3> QED BY <1>5, <2>1, <3>1, <3>2, WaitFacts
  <2>2. CASE ~Takes(s)
    BY <1>6, <2>2
  <2> QED BY <2>1, <2>2
<1>10. ASSUME NEW ref
       PROVE  /\ ToLoad(taskQueue', ref) => ToLoad(waiting, ref)
              /\ ToSay(taskQueue', ref) => ToSay(waiting, ref)
              /\ Works(slots', ref) => Works(running, ref) \/ ToLoad(waiting, ref)
  <2>1. /\ ToLoad(taskQueue', ref) => ToLoad(waiting, ref)
        /\ ToSay(taskQueue', ref) => ToSay(waiting, ref)
    BY <1>7 DEF ToLoad, ToSay
  <2>2. Works(slots', ref) => Works(running, ref) \/ ToLoad(waiting, ref)
    BY <1>9 DEF Works
  <2> QED BY <2>1, <2>2
<1>11. ASSUME Exclusive(waiting, running)
       PROVE  Exclusive(taskQueue', slots')
  <2>1. /\ \A a, b : Before(waiting, a, b) /\ a.ref = b.ref => a.stage = "saved" /\ b.stage # "saved"
        /\ \A s \in Slots : running[s].stage \in Working => ~Waits(waiting, running[s].ref)
        /\ \A s, t \in Slots :
             running[s].ref = running[t].ref /\ running[s].stage \in Working
               /\ running[t].stage \in Working => s = t
    BY <1>11, OrderFacts DEF Exclusive
  <2>2. ASSUME NEW s \in Slots, slots'[s].stage \in Working
        PROVE  ~Waits(taskQueue', slots'[s].ref)
    <3>1. CASE ~Takes(s)
      BY <1>6, <1>10, <2>1, <2>2, <3>1 DEF Waits
    <3>2. CASE Takes(s)
      <4>1. slots'[s].ref = waiting[turn(s)].ref /\ waiting[turn(s)].stage # "saved"
        BY <1>5, <2>2, <3>2, BegunWorks
      <4>2. turn(s) \in 1 .. begun
        BY <1>5, <3>2
      <4>3. \A task \in ToSet(taskQueue') : task.ref # waiting[turn(s)].ref
        BY <1>7, <2>1, <4>1, <4>2
      <4> QED BY <4>1, <4>3 DEF Waits, ToLoad, ToSay
    <3> QED BY <3>1, <3>2
  <2>3. ASSUME NEW s \in Slots, NEW t \in Slots, slots'[s].ref = slots'[t].ref,
               slots'[s].stage \in Working, slots'[t].stage \in Working
        PROVE  s = t
    <3>1. CASE ~Takes(s) /\ ~Takes(t)
      BY <1>6, <2>1, <2>3, <3>1
    <3>2. CASE ~Takes(s) /\ Takes(t)
      <4>1. slots'[s] = running[s] /\ Waits(waiting, slots'[t].ref)
        BY <1>5, <1>6, <3>2, BegunWorks, WaitFacts
      <4> QED BY <2>1, <2>3, <4>1
    <3>3. CASE Takes(s) /\ ~Takes(t)
      <4>1. slots'[t] = running[t] /\ Waits(waiting, slots'[s].ref)
        BY <1>5, <1>6, <3>3, BegunWorks, WaitFacts
      <4> QED BY <2>1, <2>3, <4>1
    <3>4. CASE Takes(s) /\ Takes(t)
      <4>1. /\ slots'[s].ref = waiting[turn(s)].ref /\ waiting[turn(s)].stage # "saved"
            /\ slots'[t].ref = waiting[turn(t)].ref /\ waiting[turn(t)].stage # "saved"
        BY <1>5, <2>3, <3>4, BegunWorks
      <4>2. turn(s) \in DOMAIN waiting /\ turn(t) \in DOMAIN waiting
        BY <1>5, <3>4
      <4>3. turn(s) = turn(t) \/ turn(s) < turn(t) \/ turn(t) < turn(s)
        BY <1>3, <4>2
      <4>4. ~(turn(s) < turn(t)) /\ ~(turn(t) < turn(s))
        BY <2>1, <2>3, <4>1, <4>2 DEF Before
      <4>5. s \in free /\ t \in free
        BY <3>4 DEF Takes
      <4> QED BY <1>2, <4>3, <4>4, <4>5
    <3> QED BY <3>1, <3>2, <3>3, <3>4
  <2>4. \A a, b : Before(taskQueue', a, b) /\ a.ref = b.ref => a.stage = "saved" /\ b.stage # "saved"
    BY <1>7, <2>1
  <2> QED BY <2>2, <2>3, <2>4 DEF Exclusive
<1>12. \A m \in ToSet(words) :
         /\ m.type = "status" /\ m.says # "ready" /\ Waits(waiting, m.ref)
         /\ m.says \in Selectable => ToSay(waiting, m.ref)
  <2> SUFFICES ASSUME NEW i \in 1 .. begun
               PROVE  LET m == FirstWord(waiting[i])
                      IN /\ m.type = "status" /\ m.says # "ready" /\ Waits(waiting, m.ref)
                         /\ m.says \in Selectable => ToSay(waiting, m.ref)
    BY <1>8
  <2>1. i \in 1 .. Len(waiting)
    BY <1>3, <1>4
  <2>2. waiting[i] \in ToSet(waiting)
    BY <1>3, <2>1
  <2> QED BY <2>2, WaitFacts, FirstWordSays
<1>13. /\ \A m : m \in ToSet(toWebview') <=>
                   m \in ToSet(toWebview) \/ m \in ToSet(posts) \/ m \in ToSet(words)
       /\ \A a, b : Before(toWebview', a, b) =>
            \/ Before(toWebview, a, b) \/ Before(posts, a, b) \/ Before(words, a, b)
            \/ a \in ToSet(toWebview) /\ b \in ToSet(posts) \cup ToSet(words)
            \/ a \in ToSet(posts) /\ b \in ToSet(words)
  <2>1. toWebview' = toWebview \o (posts \o words) /\ words \in Seq(ToWebview(R))
    BY <1>1, <1>8
  <2> QED BY <2>1, PostedFacts
<1>14. \A a, b : Before(words, a, b) => a.type # "ready"
  BY <1>12, OrderFacts
<1> QED BY <1>9, <1>10, <1>11, <1>12, <1>13, <1>14 DEF Serves

-----------------------------------------------------------------------------
(* A step of the controller: what it has to leave of its tasks, of what is  *)
(* pending and of messages. `running` and `waiting` are its tasks before    *)
(* free slots take some of them, `posts` is what it posts; the references   *)
(* `load` and `say` get a task of their own.                                *)

\* Messages to the extension are taken in their order, caches are added.
OnlyTakes ==
  /\ \A m : m \in ToSet(toHost') => m \in ToSet(toHost)
  /\ \A a, b : Before(toHost', a, b) => Before(toHost, a, b)
  /\ \A file \in DOMAIN sources : file \in DOMAIN sources' /\ sources'[file] = sources[file]

\* Tasks are added for these references only, and none is served twice.
Enqueues(running, waiting, load, say) ==
  /\ \A ref : /\ ToLoad(waiting, ref) => ToLoad(taskQueue, ref) \/ ref \in load
              /\ ToSay(waiting, ref) => ToSay(taskQueue, ref) \/ ref \in say
              /\ Works(running, ref) => Works(slots, ref)
  /\ Exclusive(waiting, running)

\* Nothing is underway of a reference.
Silent(ref) == ~Announced(toWebview, ref) /\ ~Told(mountQueue, ref) /\ ~Answered(toHost', ref)

\* It is in the panel, is not mounted, and nothing is underway.
Fresh(ref) ==
  /\ ref.parent \in discovered /\ ~Reported(toHost', ref.parent)
  /\ ~IsMounted(ref) /\ Silent(ref)
Touches(posts, load, say) ==
  \A ref \in AllRefs : ref \in load \cup say \/ Told(posts, ref) => Fresh(ref)

\* What is served is pending, and what is not pending is mounted or beyond the limit.
Pends(running, waiting, posts, load, say) ==
  /\ \A ref \in AllRefs : Waits(waiting, ref) \/ Works(running, ref) => ref \in DOMAIN pending'
  /\ \A ref \in DOMAIN pending' : ref \in DOMAIN pending \/ ref \in load \cup say
  /\ \A ref \in DOMAIN pending : ref \in DOMAIN pending' \/ IsMounted(ref)
  /\ \A m \in ToSet(posts) : m.ref \in DOMAIN pending' \/ m = Status(m.ref, "limit")
  /\ \A ref \in AllRefs : ref.parent \in ListenedTo /\ Reported(toHost, ref.parent) =>
       Reported(toHost', ref.parent) \/ ref \in DOMAIN pending' \/ Told(posts, ref)

\* Who waits for a mounting goes on waiting unless it is answered, or has announced it.
Mounts(running, posts) ==
  /\ LastWord(posts)
  /\ \A m \in ToSet(posts) :
       /\ m.says # "ready"
       /\ m.type = "ready" => \E s \in Slots : Answers(m, running[s])
  /\ \A s \in Slots : running[s].stage = "mount" =>
       /\ running[s].file \in DOMAIN sources'
       /\ \/ running[s] = slots[s]
          \/ \E m \in ToSet(posts) : m.type = "ready" /\ Answers(m, running[s])
  /\ \A s \in Slots : slots[s].stage = "mount" => running[s] = slots[s] \/ Silent(slots[s].ref)
  /\ \A m \in ToSet(toHost) :
       m.type = "mounted" => m \in ToSet(toHost') \/ ~Works(running, m.ref)

\* What is loaded has not been asked for, nor been offered.
Loads(running, waiting, posts, load, say) ==
  /\ \A ref \in load : ~Clicked(toHost', ref)
  /\ used.clicks = 0 => \A ref \in AllRefs :
       /\ ref \in say \/ Offered(posts, ref) => ~ToLoad(waiting, ref) /\ ~Works(running, ref)
       /\ ref \in load =>
            status[ref] \notin Selectable /\ ~Told(toWebview, ref) /\ ~Waits(taskQueue, ref)

\* What the messages are about.
LEMMA MessageFacts ==
  ASSUME RefInv
  PROVE  /\ \A m \in ToSet(toWebview) : m.ref \in AllRefs
         /\ \A m \in ToSet(mountQueue) :
              m.ref \in AllRefs /\ m.file \in Files /\ m.type = "ready" /\ m.says \in Words
         /\ \A m \in ToSet(toHost) :
              /\ m.type \in {"discovered", "load", "select", "mounted"}
              /\ m.type \in Clicks \/ m.type = "mounted" => m.ref \in AllRefs
              /\ m.type \in {"discovered", "mounted"} => m.file \in Files
<1>1. \A m \in ToSet(toWebview) : m \in ToWebview(AllRefs)
  BY StateFacts, ElementFacts
<1>2. \A m \in ToSet(mountQueue) : m \in ReadyType(AllRefs)
  BY StateFacts, ElementFacts
<1>3. \A m \in ToSet(toHost) : m \in ToHost(AllRefs)
  BY StateFacts, ElementFacts
<1> QED BY <1>1, <1>2, <1>3 DEF ToWebview, ReadyType, ToHost, Clicks

\* Nothing is underway of a reference that nobody waits to be mounted.
LEMMA NobodyWaits ==
  ASSUME RefInv, PanelHolds, NEW ref \in AllRefs,
         \A s \in Slots : slots[s].stage = "mount" => slots[s].ref # ref
  PROVE  ~Announced(toWebview, ref) /\ ~Told(mountQueue, ref) /\ ~Answered(toHost, ref)
BY DEF PanelHolds, Awaited, Answers, Announced, Told, Answered

\* What waits for its turn is in the panel, not mounted, and nothing is underway of it.
LEMMA WaitingIsQuiet ==
  ASSUME RefInv, PanelHolds, OnlyTakes, NEW ref \in AllRefs, Waits(taskQueue, ref)
  PROVE  Fresh(ref)
<1>1. \A s \in Slots : slots[s].stage \in Working => slots[s].ref # ref
  BY DEF PanelHolds, Served, Exclusive
<1>2. \A s \in Slots : slots[s].stage = "mount" => slots[s].ref # ref
  BY <1>1 DEF Working
<1>3. ~Announced(toWebview, ref) /\ ~Told(mountQueue, ref) /\ ~Answered(toHost, ref)
  BY <1>2, NobodyWaits
<1>4. ref.parent \in discovered
  BY DEF PanelHolds, NothingElse
<1>5. ~Reported(toHost, ref.parent)
  BY DEF PanelHolds, Reports
<1>6. ~IsMounted(ref)
  BY DEF PanelHolds, Shown
<1>7. ~Answered(toHost', ref) /\ ~Reported(toHost', ref.parent)
  BY <1>3, <1>5 DEF OnlyTakes, Answered, Reported
<1> QED BY <1>3, <1>4, <1>6, <1>7 DEF Fresh, Silent

\* A step of the controller of this kind keeps the invariant.
LEMMA ControllerKeeps ==
  ASSUME RefInv, RefInv', PanelHolds, UNCHANGED <<drawing, used, webview>>,
         NEW running, NEW waiting, NEW posts, NEW load, NEW say,
         Serves(running, waiting, posts), OnlyTakes, Enqueues(running, waiting, load, say),
         Touches(posts, load, say), Pends(running, waiting, posts, load, say),
         Mounts(running, posts), Loads(running, waiting, posts, load, say)
  PROVE  PanelHolds'
<1>1. /\ AllRefs' = AllRefs /\ page' = page /\ discovered' = discovered /\ status' = status
      /\ mountQueue' = mountQueue /\ mounted' = mounted /\ used' = used /\ drawing' = drawing
      /\ \A ref : IsMounted(ref)' <=> IsMounted(ref)
  BY SameReferences DEF webview, panel, IsMounted
<1>2. /\ \A m \in ToSet(toWebview) : m.ref \in AllRefs
      /\ \A m \in ToSet(toWebview') : m.ref \in AllRefs
      /\ \A m \in ToSet(toHost') :
           m.type \in Clicks \/ m.type = "mounted" => m.ref \in AllRefs
  <2>1. \A m \in ToSet(toWebview) : m.ref \in AllRefs
    BY MessageFacts
  <2>2. \A m \in ToSet(toWebview') : m \in ToWebview(AllRefs)
    <3>1. toWebview' \in Seq(ToWebview(AllRefs))
      BY <1>1 DEF RefInv, MessagesHold
    <3> QED BY <3>1, ElementFacts
  <2>3. \A m \in ToSet(toHost') : m \in ToHost(AllRefs)
    <3>1. toHost' \in Seq(ToHost(AllRefs))
      BY <1>1 DEF RefInv, MessagesHold
    <3> QED BY <3>1, ElementFacts
  <2> QED BY <2>1, <2>2, <2>3 DEF ToWebview, ReadyType, ToHost, Clicks
\* The tasks.
<1>3. \A ref : /\ ToLoad(taskQueue', ref) => ToLoad(waiting, ref)
               /\ ToSay(taskQueue', ref) => ToSay(waiting, ref)
               /\ Waits(taskQueue', ref) => Waits(waiting, ref)
               /\ ToLoad(waiting, ref) => ToLoad(taskQueue, ref) \/ ref \in load
               /\ ToSay(waiting, ref) => ToSay(taskQueue, ref) \/ ref \in say
               /\ Waits(waiting, ref) => Waits(taskQueue, ref) \/ ref \in load \cup say
               /\ Works(running, ref) => Works(slots, ref)
               /\ Works(slots', ref) => Works(running, ref) \/ ToLoad(waiting, ref)
  BY DEF Serves, Enqueues, Waits
<1>4. Exclusive(taskQueue', slots')
  BY DEF Serves, Enqueues
\* What is posted.
<1>5. PICK words :
        /\ \A m : m \in ToSet(toWebview') <=>
                    m \in ToSet(toWebview) \/ m \in ToSet(posts) \/ m \in words
        /\ \A a, b : Before(toWebview', a, b) /\ a.type = "ready" =>
             \/ Before(toWebview, a, b) \/ Before(posts, a, b)
             \/ a \in ToSet(toWebview) /\ b \in ToSet(posts) \cup words
             \/ a \in ToSet(posts) /\ b \in words
        /\ \A m \in words :
             /\ m.type = "status" /\ m.says # "ready" /\ Waits(waiting, m.ref)
             /\ m.says \in Selectable => ToSay(waiting, m.ref)
  BY DEF Serves
<1>6. \A ref \in AllRefs :
        Waits(waiting, ref) \/ Told(posts, ref) \/ ref \in load \cup say => Fresh(ref)
  BY <1>3, WaitingIsQuiet DEF Touches
<1>7. /\ \A m \in ToSet(posts) : m.ref \in AllRefs /\ Fresh(m.ref)
      /\ \A m \in words : m.ref \in AllRefs /\ Fresh(m.ref)
  BY <1>2, <1>5, <1>6 DEF Told
<1>8. \A ref \in AllRefs :
        /\ Told(toWebview, ref) \/ Told(posts, ref) => Told(toWebview', ref)
        /\ Told(toWebview', ref) => Told(toWebview, ref) \/ Fresh(ref)
  BY <1>5, <1>7 DEF Told
<1>9. /\ \A ref : /\ Clicked(toHost', ref) => Clicked(toHost, ref)
                  /\ Answered(toHost', ref) => Answered(toHost, ref)
      /\ \A file : Reported(toHost', file) => Reported(toHost, file)
  BY DEF OnlyTakes, Clicked, Answered, Reported
\* Who waits for a mounting.
<1>10. \A s \in Slots : slots'[s].stage = "mount" \/ running[s].stage = "mount" =>
                          slots'[s] = running[s]
  BY DEF Serves
<1>11. \A ref \in AllRefs, s \in Slots :
         slots[s].stage = "mount" /\ slots[s].ref = ref /\ ~Silent(ref) => slots'[s] = slots[s]
  BY <1>10 DEF Mounts
<1>12. PageHolds'
  <2>1. PageHolds
    BY DEF PanelHolds
  <2>2. Root \in DOMAIN sources' /\ discovered \subseteq DOMAIN sources'
    BY <2>1 DEF PageHolds, OnlyTakes
  <2>3. \A s \in Slots : slots'[s].stage = "mount" => slots'[s].file \in DOMAIN sources'
    BY <1>10 DEF Mounts
  <2> QED BY <1>1, <2>1, <2>2, <2>3 DEF PageHolds, At, Slots
<1>13. NothingElse'
  <2> SUFFICES ASSUME NEW ref \in AllRefs, ref.parent \notin discovered
               PROVE  /\ ~Waits(taskQueue', ref) /\ ~Works(slots', ref) /\ ref \notin DOMAIN pending'
                      /\ ~Told(toWebview', ref) /\ ~Told(mountQueue, ref)
                      /\ ~Reported(toHost', ref.parent) /\ ~Clicked(toHost', ref)
                      /\ ~Answered(toHost', ref) /\ ~IsMounted(ref)
    BY <1>1 DEF NothingElse, Works, Slots
  <2>1. /\ ~Waits(taskQueue, ref) /\ ~Works(slots, ref) /\ ref \notin DOMAIN pending
        /\ ~Told(toWebview, ref) /\ ~Told(mountQueue, ref)
        /\ ~Reported(toHost, ref.parent) /\ ~Clicked(toHost, ref) /\ ~Answered(toHost, ref)
        /\ ~IsMounted(ref)
    BY DEF PanelHolds, NothingElse
  <2>2. ~Fresh(ref)
    BY DEF Fresh
  <2>3. ~Waits(waiting, ref) /\ ref \notin load \cup say
    BY <1>6, <2>2
  <2>4. ~Waits(taskQueue', ref) /\ ~Works(slots', ref)
    BY <1>3, <2>1, <2>3 DEF Waits
  <2>5. ref \notin DOMAIN pending'
    BY <2>1, <2>3 DEF Pends
  <2> QED BY <1>8, <1>9, <2>1, <2>2, <2>4, <2>5
<1>14. Reports'
  <2>1. InOrder(toHost) /\ InOrder(toHost')
    BY OrderFacts DEF PanelHolds, Reports, InOrder, OnlyTakes
  <2> SUFFICES ASSUME NEW ref \in AllRefs, Reported(toHost', ref.parent)
               PROVE  /\ ~Waits(taskQueue', ref) /\ ~Works(slots', ref) /\ ref \notin DOMAIN pending'
                      /\ ~Told(toWebview', ref) /\ ~IsMounted(ref)
                      /\ status[ref] = IF ref.enabled THEN "waiting" ELSE "saved"
                      /\ Clicked(toHost', ref) => ~ref.enabled
    BY <1>1, <2>1 DEF Reports, Works, Slots
  <2>2. /\ ~Waits(taskQueue, ref) /\ ~Works(slots, ref) /\ ref \notin DOMAIN pending
        /\ ~Told(toWebview, ref) /\ ~IsMounted(ref)
        /\ status[ref] = IF ref.enabled THEN "waiting" ELSE "saved"
        /\ Clicked(toHost, ref) => ~ref.enabled
    BY <1>9 DEF PanelHolds, Reports
  <2>3. ~Fresh(ref)
    BY DEF Fresh
  <2>4. ~Waits(waiting, ref) /\ ref \notin load \cup say
    BY <1>6, <2>3
  <2>5. ~Waits(taskQueue', ref) /\ ~Works(slots', ref)
    BY <1>3, <2>2, <2>4 DEF Waits
  <2>6. ref \notin DOMAIN pending'
    BY <2>2, <2>4 DEF Pends
  <2> QED BY <1>8, <1>9, <2>2, <2>3, <2>5, <2>6
<1>15. Served'
  <2>1. \A ref \in AllRefs : Waits(taskQueue', ref) \/ Works(slots', ref) => ref \in DOMAIN pending'
    BY <1>3 DEF Pends, Waits
  <2>2. ASSUME NEW ref \in AllRefs, Clicked(toHost', ref)
        PROVE  ~ToLoad(taskQueue', ref) /\ ~Works(slots', ref) /\ ~IsMounted(ref)
    <3>1. ~ToLoad(taskQueue, ref) /\ ~Works(slots, ref) /\ ~IsMounted(ref)
      BY <1>9, <2>2 DEF PanelHolds, Served
    <3>2. ref \notin load
      BY <2>2 DEF Loads
    <3> QED BY <1>3, <3>1, <3>2
  <2> QED BY <1>1, <1>4, <2>1, <2>2 DEF Served, Exclusive, Works, Slots
<1>16. Awaited'
  <2>1. Awaited
    BY DEF PanelHolds
  <2>2. LastWord(toWebview')
    <3> SUFFICES ASSUME NEW a, NEW b, Before(toWebview', a, b), a.type = "ready", b.ref = a.ref
                 PROVE  FALSE
      BY DEF LastWord
    <3>1. ~Before(toWebview, a, b) /\ ~Before(posts, a, b)
      BY <2>1, OrderFacts DEF Awaited, LastWord, Mounts
    <3>2. CASE a \in ToSet(toWebview) /\ b \in ToSet(posts) \cup words
      BY <1>7, <3>2 DEF Fresh, Silent, Announced
    <3>3. CASE a \in ToSet(posts) /\ b \in words
      <4>1. PICK s \in Slots : Answers(a, running[s])
        BY <3>3 DEF Mounts
      <4>2. Waits(waiting, running[s].ref) /\ running[s].stage \in Working
        BY <1>5, <3>3, <4>1 DEF Answers, Working
      <4> QED BY <4>2 DEF Enqueues, Exclusive
    <3> QED BY <1>5, <3>1, <3>2, <3>3
  <2>3. ASSUME NEW m \in ToSet(toWebview'), m.type = "ready"
        PROVE  ~IsMounted(m.ref) /\ \E s \in Slots : Answers(m, slots'[s])
    <3>1. CASE m \in ToSet(toWebview)
      <4>1. ~IsMounted(m.ref) /\ \E s \in Slots : Answers(m, slots[s])
        BY <2>1, <2>3, <3>1 DEF Awaited
      <4>2. ~Silent(m.ref)
        BY <2>3, <3>1 DEF Silent, Announced
      <4> QED BY <1>2, <1>11, <3>1, <4>1, <4>2 DEF Answers
    <3>2. CASE m \in ToSet(posts)
      <4>1. ~IsMounted(m.ref)
        BY <1>7, <3>2 DEF Fresh
      <4>2. \E s \in Slots : Answers(m, running[s])
        BY <2>3, <3>2 DEF Mounts
      <4> QED BY <1>10, <4>1, <4>2 DEF Answers
    <3> QED BY <1>5, <2>3, <3>1, <3>2
  <2>4. ASSUME NEW m \in ToSet(mountQueue)
        PROVE  /\ ~IsMounted(m.ref) /\ ~Told(toWebview', m.ref)
               /\ \E s \in Slots : Answers(m, slots'[s])
    <3>1. /\ ~IsMounted(m.ref) /\ ~Told(toWebview, m.ref)
          /\ \E s \in Slots : Answers(m, slots[s])
      BY <2>1 DEF Awaited
    <3>2. m.ref \in AllRefs
      BY MessageFacts
    <3>3. ~Silent(m.ref)
      BY DEF Silent, Told
    <3> QED BY <1>8, <1>11, <3>1, <3>2, <3>3 DEF Answers, Fresh
  <2>5. ASSUME NEW m \in ToSet(toHost'), m.type = "mounted"
        PROVE  /\ ~Told(toWebview', m.ref) /\ ~Told(mountQueue, m.ref)
               /\ m.says = "ready" <=> IsMounted(m.ref)
               /\ \E s \in Slots : Answers(m, slots'[s])
    <3>1. /\ ~Told(toWebview, m.ref) /\ ~Told(mountQueue, m.ref)
          /\ m.says = "ready" <=> IsMounted(m.ref)
          /\ \E s \in Slots : Answers(m, slots[s])
      BY <2>1, <2>5 DEF Awaited, OnlyTakes
    <3>2. m.ref \in AllRefs
      BY <1>2, <2>5
    <3>3. ~Silent(m.ref)
      BY <2>5 DEF Silent, Answered
    <3> QED BY <1>8, <1>11, <3>1, <3>2, <3>3 DEF Answers, Fresh
  <2>6. ASSUME NEW s \in Slots, slots'[s].stage = "mount"
        PROVE  Underway(s)'
    <3>1. slots'[s] = running[s]
      BY <1>10, <2>6
    <3>2. CASE running[s] = slots[s]
      <4>1. Underway(s) /\ Works(running, slots[s].ref)
        BY <2>1, <2>6, <3>1, <3>2 DEF Awaited, At, Works, Working
      <4>2. \/ \E m \in ToSet(toWebview) : m.type = "ready" /\ Answers(m, slots[s])
            \/ \E m \in ToSet(mountQueue) : Answers(m, slots[s])
            \/ \E m \in ToSet(toHost) : m.type = "mounted" /\ Answers(m, slots[s])
        BY <2>6, <3>1, <3>2, <4>1 DEF Underway, Answers, ToSet
      <4>3. \/ \E m \in ToSet(toWebview') : m.type = "ready" /\ Answers(m, slots'[s])
            \/ \E m \in ToSet(mountQueue') : Answers(m, slots'[s])
            \/ \E m \in ToSet(toHost') : m.type = "mounted" /\ Answers(m, slots'[s])
        <5>1. \A m \in ToSet(toHost) :
                m.type = "mounted" /\ Answers(m, slots[s]) => m \in ToSet(toHost')
          BY <4>1 DEF Mounts, Answers
        <5> QED BY <1>1, <1>5, <3>1, <3>2, <4>2, <5>1
      <4> QED BY <4>3 DEF Underway, Answers, ToSet
    <3>3. CASE \E m \in ToSet(posts) : m.type = "ready" /\ Answers(m, running[s])
      <4>1. \E m \in ToSet(toWebview') : m.type = "ready" /\ Answers(m, slots'[s])
        BY <1>5, <3>1, <3>3
      <4> QED BY <4>1 DEF Underway, Answers, ToSet
    <3> QED BY <2>6, <3>1, <3>2, <3>3 DEF Mounts
  <2>7. OneEach(mountQueue)
    BY <2>1 DEF Awaited
  <2> QED BY <1>1, <2>2, <2>3, <2>4, <2>5, <2>6, <2>7 DEF Awaited, At, Slots, LastWord, OneEach
<1>17. Shown'
  <2>1. Shown
    BY DEF PanelHolds
  <2>2. \A m \in ToSet(toWebview') : m.says # "ready"
    BY <1>5, <2>1 DEF Shown, Mounts
  <2>3. ASSUME NEW ref \in AllRefs, IsMounted(ref)
        PROVE  /\ ~Waits(taskQueue', ref) /\ ~Told(toWebview', ref)
               /\ Works(slots', ref) => Answered(toHost', ref)
    <3>1. /\ ~Waits(taskQueue, ref) /\ ~Told(toWebview, ref)
          /\ Works(slots, ref) => Answered(toHost, ref)
      BY <2>1, <2>3 DEF Shown
    <3>2. ~Fresh(ref)
      BY <2>3 DEF Fresh
    <3>3. ~Waits(waiting, ref)
      BY <1>6, <3>2
    <3>4. ASSUME Works(slots', ref)
          PROVE  Answered(toHost', ref)
      <4>1. Works(running, ref) /\ Works(slots, ref)
        BY <1>3, <3>3, <3>4 DEF Waits
      <4>2. PICK m \in ToSet(toHost) : m.ref = ref /\ m.type = "mounted"
        BY <3>1, <4>1 DEF Answered
      <4>3. m \in ToSet(toHost')
        BY <4>1, <4>2 DEF Mounts
      <4> QED BY <4>2, <4>3 DEF Answered
    <3> QED BY <1>3, <1>8, <3>1, <3>2, <3>3, <3>4
  <2>4. ASSUME NEW m \in ToSet(toWebview'), m.ref \notin DOMAIN pending'
        PROVE  m = Status(m.ref, "limit")
    <3>1. CASE m \in ToSet(toWebview)
      <4>1. ~IsMounted(m.ref)
        BY <1>2, <2>1, <3>1 DEF Shown, Told
      <4>2. m.ref \notin DOMAIN pending
        BY <2>4, <4>1 DEF Pends
      <4> QED BY <2>1, <3>1, <4>2 DEF Shown
    <3>2. CASE m \in ToSet(posts)
      BY <2>4, <3>2 DEF Pends
    <3>3. CASE m \in words
      BY <1>5, <1>7, <2>4, <3>3 DEF Pends
    <3> QED BY <1>5, <3>1, <3>2, <3>3
  <2>5. ASSUME NEW ref \in AllRefs, ref.parent \in discovered, ref.parent \in ListenedTo',
               ref \notin DOMAIN pending', ~Reported(toHost', ref.parent)
        PROVE  IsMounted(ref) \/ status[ref] = "limit" \/ Told(toWebview', ref)
    <3>1. ref.parent \in ListenedTo
      <4>1. ref.parent \in DOMAIN sources
        BY <2>5 DEF PanelHolds, PageHolds
      <4> QED BY <2>5, <4>1 DEF ListenedTo, OnlyTakes
    <3>2. CASE Reported(toHost, ref.parent)
      <4>1. Told(posts, ref)
        BY <2>5, <3>1, <3>2 DEF Pends
      <4> QED BY <1>8, <4>1
    <3>3. CASE ref \in DOMAIN pending
      BY <2>5, <3>3 DEF Pends
    <3>4. CASE ~Reported(toHost, ref.parent) /\ ref \notin DOMAIN pending
      BY <1>8, <2>1, <2>5, <3>1, <3>4 DEF Shown
    <3> QED BY <3>2, <3>3, <3>4
  <2>6. \A ref \in AllRefs : status[ref] = "ready" <=> IsMounted(ref)
    BY <2>1 DEF Shown
  <2> QED BY <1>1, <2>2, <2>3, <2>4, <2>5, <2>6 DEF Shown, Works, Slots
<1>18. Unused'
  <2>1. Unused
    BY DEF PanelHolds
  <2>2. ASSUME used.clicks = 0, NEW ref \in AllRefs
        PROVE  ~Clicked(toHost', ref)
    BY <1>9, <2>1, <2>2 DEF Unused
  <2>3. ASSUME used.clicks = 0, NEW ref \in AllRefs,
               status[ref] \in Selectable \/ Offered(toWebview', ref) \/ ToSay(taskQueue', ref)
        PROVE  ~ToLoad(taskQueue', ref) /\ ~Works(slots', ref)
    <3>1. status[ref] \in Selectable \/ Offered(toWebview, ref) \/ ToSay(taskQueue, ref)
            => ~ToLoad(taskQueue, ref) /\ ~Works(slots, ref)
      BY <2>1, <2>3 DEF Unused, Idly
    <3>2. /\ ref \in say \/ Offered(posts, ref) => ~ToLoad(waiting, ref) /\ ~Works(running, ref)
          /\ ref \in load =>
               status[ref] \notin Selectable /\ ~Told(toWebview, ref) /\ ~Waits(taskQueue, ref)
      BY <2>3 DEF Loads
    <3>3. Offered(toWebview', ref) =>
            Offered(toWebview, ref) \/ Offered(posts, ref) \/ ToSay(waiting, ref)
      BY <1>5 DEF Offered
    <3>4. Offered(toWebview, ref) => Told(toWebview, ref)
      BY DEF Offered, Told
    <3> QED BY <1>3, <2>3, <3>1, <3>2, <3>3, <3>4 DEF Waits
  <2> QED BY <1>1, <2>1, <2>2, <2>3 DEF Unused, Idly, Works, Slots
<1> QED BY <1>12, <1>13, <1>14, <1>15, <1>16, <1>17, <1>18 DEF PanelHolds

-----------------------------------------------------------------------------
(* The tasks. *)

\* A step in which no slot takes a task.
LEMMA NoneServed ==
  ASSUME NEW T, toWebview \in Seq(T), NEW posts \in Seq(T), page # "hidden", Post(posts)
  PROVE  Serves(slots', taskQueue', posts)
<1>1. toWebview' = toWebview \o posts
  BY DEF Post
<1>2. /\ \A m : m \in ToSet(toWebview') <=> m \in ToSet(toWebview) \/ m \in ToSet(posts)
      /\ \A a, b : Before(toWebview', a, b) =>
           Before(toWebview, a, b) \/ Before(posts, a, b)
             \/ (a \in ToSet(toWebview) /\ b \in ToSet(posts))
  BY <1>1, ConcatFacts
<1>3. \E words :
       /\ \A m : m \in ToSet(toWebview') <=>
                   m \in ToSet(toWebview) \/ m \in ToSet(posts) \/ m \in words
       /\ \A a, b : Before(toWebview', a, b) /\ a.type = "ready" =>
            \/ Before(toWebview, a, b) \/ Before(posts, a, b)
            \/ a \in ToSet(toWebview) /\ b \in ToSet(posts) \cup words
            \/ a \in ToSet(posts) /\ b \in words
       /\ \A m \in words :
            /\ m.type = "status" /\ m.says # "ready" /\ Waits(taskQueue', m.ref)
            /\ m.says \in Selectable => ToSay(taskQueue', m.ref)
  <2> DEFINE none == {}
  <2>1. \A m : m \notin none
    OBVIOUS
  <2> HIDE DEF none
  <2> QED BY <1>2, <2>1
<1> QED BY <1>3 DEF Serves

\* What is known of the reference a task works for.
LEMMA WorkingFacts ==
  ASSUME RefInv, PanelHolds, NEW s \in Slots, slots[s].stage \in Working
  PROVE  /\ slots[s].ref \in AllRefs /\ slots[s].ref \in DOMAIN pending
         /\ slots[s].ref.parent \in discovered /\ ~Reported(toHost, slots[s].ref.parent)
         /\ ~Waits(taskQueue, slots[s].ref)
         /\ \A t \in Slots \ {s} :
              slots[t].stage \in Working => slots[t].ref # slots[s].ref
         /\ slots[s].stage # "mount" =>
              /\ ~IsMounted(slots[s].ref) /\ ~Announced(toWebview, slots[s].ref)
              /\ ~Told(mountQueue, slots[s].ref) /\ ~Answered(toHost, slots[s].ref)
<1> DEFINE ref == slots[s].ref
<1>1. ref \in AllRefs
  <2>1. slots[s].stage # "idle"
    BY DEF Working
  <2> QED BY <2>1, StateFacts, WorkFacts
<1>2. Works(slots, ref)
  BY DEF Works
<1>3. ~Waits(taskQueue, ref) /\ ref \in DOMAIN pending
      /\ \A t \in Slots \ {s} : slots[t].stage \in Working => slots[t].ref # ref
  BY <1>1, <1>2 DEF PanelHolds, Served, Exclusive
<1>4. ref.parent \in discovered
  BY <1>1, <1>2 DEF PanelHolds, NothingElse
<1>5. ~Reported(toHost, ref.parent)
  BY <1>1, <1>2 DEF PanelHolds, Reports
<1>6. ASSUME slots[s].stage # "mount"
      PROVE  /\ ~IsMounted(ref) /\ ~Announced(toWebview, ref)
             /\ ~Told(mountQueue, ref) /\ ~Answered(toHost, ref)
  <2>1. \A t \in Slots : slots[t].stage = "mount" => slots[t].ref # ref
    BY <1>3, <1>6 DEF Working
  <2>2. ~Announced(toWebview, ref) /\ ~Told(mountQueue, ref) /\ ~Answered(toHost, ref)
    BY <1>1, <2>1, NobodyWaits
  <2>3. IsMounted(ref) => Answered(toHost, ref)
    BY <1>1, <1>2 DEF PanelHolds, Shown
  <2> QED BY <2>2, <2>3
<1> QED BY <1>1, <1>3, <1>4, <1>5, <1>6

\* A task goes on or ends, and says something of its reference or nothing.
Says(slot, new, posts) ==
  \/ posts = <<>>
  \/ \E m : /\ posts = <<m>> /\ m.ref = slot.ref /\ slot.stage \in Working
            /\ m.says # "ready"
            /\ m.type = "ready" => Answers(m, new)
            /\ m.says \in Selectable => new.stage \notin Working
LEMMA TaskSteps ==
  ASSUME RefInv, RefInv', PanelHolds, UNCHANGED <<drawing, used, pending, toHost, webview>>,
         NEW s \in Slots, slots[s].stage \notin {"idle", "mount"},
         NEW new, new.stage \in Working => new.ref = slots[s].ref /\ slots[s].stage \in Working,
         NEW posts, Says(slots[s], new, posts),
         new.stage = "mount" =>
           new.file \in DOMAIN sources' /\ \E m \in ToSet(posts) : m.type = "ready",
         \A file \in DOMAIN sources : file \in DOMAIN sources' /\ sources'[file] = sources[file],
         Serves([slots EXCEPT ![s] = new], taskQueue, posts)
  PROVE  PanelHolds'
<1> DEFINE running == [slots EXCEPT ![s] = new]
           ref     == slots[s].ref
<1>1. running[s] = new /\ \A t \in Slots \ {s} : running[t] = slots[t]
  BY StateFacts
<1>2. OnlyTakes
  BY DEF OnlyTakes
<1>3. \A m \in ToSet(posts) :
        /\ m.ref = ref /\ slots[s].stage \in Working /\ m.says # "ready"
        /\ m.type = "ready" => Answers(m, new)
        /\ m.says \in Selectable => new.stage \notin Working
  BY FewElements DEF Says
<1>4. \A a, b : ~Before(posts, a, b)
  BY FewElements DEF Says
<1> HIDE DEF running
<1>5. \A r : Works(running, r) => Works(slots, r)
  BY <1>1 DEF Works
<1>6. slots[s].stage \in Working =>
        /\ ref \in AllRefs /\ ref \in DOMAIN pending
        /\ ref.parent \in discovered /\ ~Reported(toHost, ref.parent)
        /\ ~Waits(taskQueue, ref)
        /\ \A t \in Slots \ {s} : slots[t].stage \in Working => slots[t].ref # ref
        /\ ~IsMounted(ref) /\ ~Announced(toWebview, ref)
        /\ ~Told(mountQueue, ref) /\ ~Answered(toHost, ref)
  BY WorkingFacts
<1>7. Enqueues(running, taskQueue, {}, {})
  <2>1. Exclusive(taskQueue, slots)
    BY DEF PanelHolds, Served
  <2>2. Exclusive(taskQueue, running)
    BY <1>1, <2>1 DEF Exclusive
  <2> QED BY <1>5, <2>2 DEF Enqueues
<1>8. Touches(posts, {}, {})
  BY <1>3, <1>6 DEF Touches, Told, Fresh, Silent
<1>9. Pends(running, taskQueue, posts, {}, {})
  <2>1. \A r \in AllRefs : Waits(taskQueue, r) \/ Works(running, r) => r \in DOMAIN pending
    BY <1>5 DEF PanelHolds, Served
  <2> QED BY <1>3, <1>6, <2>1 DEF Pends
<1>10. Mounts(running, posts)
  <2>1. LastWord(posts)
    BY <1>4 DEF LastWord
  <2>2. \A m \in ToSet(posts) : m.type = "ready" => \E t \in Slots : Answers(m, running[t])
    BY <1>1, <1>3
  <2>3. ASSUME NEW t \in Slots, running[t].stage = "mount"
        PROVE  /\ running[t].file \in DOMAIN sources'
               /\ \/ running[t] = slots[t]
                  \/ \E m \in ToSet(posts) : m.type = "ready" /\ Answers(m, running[t])
    <3>1. CASE t = s
      BY <1>1, <1>3, <2>3, <3>1
    <3>2. CASE t # s
      <4>1. slots[t].file \in DOMAIN sources
        BY <1>1, <2>3, <3>2 DEF PanelHolds, PageHolds, At
      <4> QED BY <1>1, <3>2, <4>1
    <3> QED BY <3>1, <3>2
  <2>4. \A t \in Slots : slots[t].stage = "mount" => running[t] = slots[t]
    BY <1>1
  <2> QED BY <1>3, <2>1, <2>2, <2>3, <2>4 DEF Mounts
<1>11. Loads(running, taskQueue, posts, {}, {})
  <2>1. ASSUME NEW r \in AllRefs, Offered(posts, r)
        PROVE  ~ToLoad(taskQueue, r) /\ ~Works(running, r)
    <3>1. r = ref /\ slots[s].stage \in Working /\ new.stage \notin Working
      BY <1>3, <2>1 DEF Offered
    <3> QED BY <1>1, <1>6, <3>1 DEF Waits, Works
  <2> QED BY <2>1 DEF Loads
<1>12. Serves(running, taskQueue, posts)
  BY DEF running
<1> QED BY <1>2, <1>7, <1>8, <1>9, <1>10, <1>11, <1>12, ControllerKeeps

\* What a slot becomes, and what is posted of it, once a mounting is answered.
LEMMA MountedSteps ==
  ASSUME RefInv, RefInv', PanelHolds, UNCHANGED <<drawing, used, sources, webview>>,
         toHost # <<>>, Head(toHost).type = "mounted", toHost' = Tail(toHost),
         NEW s \in Slots, Answers(Head(toHost), slots[s]),
         NEW new, new.stage \notin Working, NEW posts,
         \/ /\ Head(toHost).says = "ready" /\ posts = <<>>
            /\ DOMAIN pending' = DOMAIN pending \ {slots[s].ref}
         \/ /\ Head(toHost).says # "ready" /\ posts = <<Status(slots[s].ref, "error")>>
            /\ pending' = pending,
         Serves([slots EXCEPT ![s] = new], taskQueue, posts)
  PROVE  PanelHolds'
<1> DEFINE running == [slots EXCEPT ![s] = new]
           ref     == slots[s].ref
           answer  == Head(toHost)
<1>1. running[s] = new /\ \A t \in Slots \ {s} : running[t] = slots[t]
  BY StateFacts
<1>2. /\ answer \in ToSet(toHost)
      /\ \A m : m \in ToSet(toHost') => m \in ToSet(toHost)
      /\ \A m : m \in ToSet(toHost) => m = answer \/ m \in ToSet(toHost')
      /\ \A a, b : Before(toHost', a, b) => Before(toHost, a, b)
      /\ \A m : m \in ToSet(toHost') => Before(toHost, answer, m)
  BY StateFacts, TailFacts
<1>3. OnlyTakes
  BY <1>2 DEF OnlyTakes
<1>4. slots[s].stage = "mount" /\ slots[s].stage \in Working /\ answer.ref = ref
  BY DEF Answers, Working
<1>5. /\ ref \in AllRefs /\ ref \in DOMAIN pending
      /\ ref.parent \in discovered /\ ~Reported(toHost, ref.parent)
      /\ ~Waits(taskQueue, ref)
      /\ \A t \in Slots \ {s} : slots[t].stage \in Working => slots[t].ref # ref
  BY <1>4, WorkingFacts
<1>6. /\ ~Told(toWebview, ref) /\ ~Told(mountQueue, ref)
      /\ answer.says = "ready" <=> IsMounted(ref)
  BY <1>2, <1>4 DEF PanelHolds, Awaited
<1>7. Silent(ref)
  <2>1. \A m \in ToSet(toHost') : m.type = "mounted" => m.ref # ref
    BY <1>2, <1>4 DEF PanelHolds, Reports, InOrder
  <2> QED BY <1>6, <2>1 DEF Silent, Announced, Told, Answered
<1>8. \A m \in ToSet(posts) : m = Status(ref, "error") /\ answer.says # "ready" /\ pending' = pending
  BY FewElements
<1>9. \A a, b : ~Before(posts, a, b)
  BY FewElements
<1>10. Status(ref, "error").ref = ref /\ Status(ref, "error").says = "error"
       /\ Status(ref, "error").type = "status"
  BY DEF Status, Message
<1>11. \/ DOMAIN pending' = DOMAIN pending \ {ref} /\ IsMounted(ref)
       \/ pending' = pending /\ ~IsMounted(ref)
  BY <1>6
<1>12. Serves(running, taskQueue, posts)
  OBVIOUS
<1> HIDE DEF running, answer
<1>13. ~Works(running, ref) /\ \A r : Works(running, r) => Works(slots, r)
  BY <1>1, <1>5 DEF Works
<1>14. Enqueues(running, taskQueue, {}, {})
  <2>1. Exclusive(taskQueue, slots)
    BY DEF PanelHolds, Served
  <2>2. Exclusive(taskQueue, running)
    BY <1>1, <2>1 DEF Exclusive
  <2> QED BY <1>13, <2>2 DEF Enqueues
<1>15. Touches(posts, {}, {})
  <2> SUFFICES ASSUME NEW r \in AllRefs, Told(posts, r)
               PROVE  Fresh(r)
    BY DEF Touches
  <2>1. r = ref /\ ~IsMounted(ref)
    BY <1>6, <1>8, <1>10 DEF Told
  <2>2. ~Reported(toHost', ref.parent)
    BY <1>3, <1>5 DEF OnlyTakes, Reported
  <2> QED BY <1>5, <1>7, <2>1, <2>2 DEF Fresh
<1>16. Pends(running, taskQueue, posts, {}, {})
  <2>1. \A r \in AllRefs : Waits(taskQueue, r) \/ Works(running, r) => r \in DOMAIN pending /\ r # ref
    BY <1>5, <1>13 DEF PanelHolds, Served
  <2>2. \A r \in AllRefs : Reported(toHost, r.parent) => Reported(toHost', r.parent)
    <3>1. answer.type # "discovered"
      BY DEF answer
    <3> QED BY <1>2, <3>1 DEF Reported
  <2> QED BY <1>5, <1>8, <1>10, <1>11, <2>1, <2>2 DEF Pends
<1>17. Mounts(running, posts)
  <2>1. LastWord(posts)
    BY <1>9 DEF LastWord
  <2>2. ASSUME NEW t \in Slots, running[t].stage = "mount"
        PROVE  running[t].file \in DOMAIN sources' /\ running[t] = slots[t]
    <3>1. t # s
      BY <1>1, <2>2 DEF Working
    <3> QED BY <1>1, <2>2, <3>1 DEF PanelHolds, PageHolds, At
  <2>3. \A t \in Slots : slots[t].stage = "mount" => running[t] = slots[t] \/ Silent(slots[t].ref)
    BY <1>1, <1>7
  <2>4. \A m \in ToSet(toHost) : m.type = "mounted" => m \in ToSet(toHost') \/ ~Works(running, m.ref)
    BY <1>2, <1>4, <1>13
  <2> QED BY <1>8, <1>10, <2>1, <2>2, <2>3, <2>4 DEF Mounts
<1>18. Loads(running, taskQueue, posts, {}, {})
  <2>1. ASSUME NEW r \in AllRefs, Offered(posts, r)
        PROVE  ~ToLoad(taskQueue, r) /\ ~Works(running, r)
    <3>1. r = ref
      BY <1>8, <1>10, <2>1 DEF Offered
    <3> QED BY <1>5, <1>13, <3>1 DEF Waits
  <2> QED BY <2>1 DEF Loads
<1> QED BY <1>3, <1>12, <1>14, <1>15, <1>16, <1>17, <1>18, ControllerKeeps

\* The editor is there.
LEMMA PageIsThere ==
  ASSUME PanelHolds
  PROVE  page # "hidden"
BY DEF PanelHolds, PageHolds

\* A task is over, and another one may have its turn.
LEMMA EndsSteps ==
  ASSUME RefInv, RefInv', PanelHolds,
         UNCHANGED <<drawing, used, pending, sources, toHost, webview>>,
         NEW s \in Slots, slots[s].stage \notin {"idle", "mount"},
         NEW posts \in Seq(ToWebview(AllRefs)), Says(slots[s], Idle, posts), End(s, posts)
  PROVE  PanelHolds'
<1>1. Idle.stage = "idle" /\ Idle.stage \notin Working
  BY DEF Idle, Task, Working
<1>2. [slots EXCEPT ![s] = Idle] \in [Slots -> SlotType(AllRefs, Len(references))]
  BY StateFacts DEF SlotType
<1>3. Serves([slots EXCEPT ![s] = Idle], taskQueue, posts)
  <2>1. Drain([slots EXCEPT ![s] = Idle], taskQueue, posts)
    BY DEF End
  <2> QED BY <1>2, <2>1, StateFacts, PageIsThere, DrainServes
<1> QED BY <1>1, <1>3, TaskSteps

\* A task goes on to another stage.
LEMMA GoesOn ==
  ASSUME RefInv, RefInv', PanelHolds, UNCHANGED <<drawing, used, pending, toHost, webview>>,
         NEW s \in Slots, slots[s].stage \notin {"idle", "mount"},
         NEW new, new.stage \in Working => new.ref = slots[s].ref /\ slots[s].stage \in Working,
         NEW posts \in Seq(ToWebview(AllRefs)), Says(slots[s], new, posts),
         new.stage = "mount" =>
           new.file \in DOMAIN sources' /\ \E m \in ToSet(posts) : m.type = "ready",
         \A file \in DOMAIN sources : file \in DOMAIN sources' /\ sources'[file] = sources[file],
         slots' = [slots EXCEPT ![s] = new], UNCHANGED taskQueue, Post(posts)
  PROVE  PanelHolds'
<1>1. Serves(slots', taskQueue', posts)
  BY StateFacts, PageIsThere, NoneServed
<1>2. Serves([slots EXCEPT ![s] = new], taskQueue, posts)
  BY <1>1
<1> QED BY <1>2, TaskSteps

\* A task says nothing.
LEMMA NothingPosted ==
  ASSUME RefInv, PanelHolds, UNCHANGED toWebview
  PROVE  Post(<<>>) /\ <<>> \in Seq(ToWebview(AllRefs))
BY StateFacts, PageIsThere, ConcatEmptySeq DEF Post

\* What a task may say of its reference while it is at work.
LEMMA StatusSays ==
  ASSUME RefInv, NEW s \in Slots, slots[s].stage \in Working, NEW new,
         NEW says \in Words \ {"ready"}, says \in Selectable => new.stage \notin Working
  PROVE  /\ Says(slots[s], new, <<Status(slots[s].ref, says)>>)
         /\ <<Status(slots[s].ref, says)>> \in Seq(ToWebview(AllRefs))
<1> DEFINE m == Status(slots[s].ref, says)
<1>1. slots[s].ref \in AllRefs
  <2>1. slots[s].stage # "idle"
    BY DEF Working
  <2> QED BY <2>1, StateFacts, WorkFacts
<1>2. <<m>> \in Seq(ToWebview(AllRefs))
  BY <1>1, StatusFacts
<1>3. m.ref = slots[s].ref /\ m.type = "status" /\ m.says = says
  BY DEF Status, Message
<1> HIDE DEF m
<1>4. Says(slots[s], new, <<m>>)
  BY <1>3 DEF Says
<1> QED BY <1>2, <1>4 DEF m

\* A cache is announced. Nobody else waits for the same mounting.
LEMMA AnnounceSteps ==
  ASSUME RefInv, RefInv', PanelHolds, UNCHANGED <<drawing, used, pending, toHost, webview>>,
         NEW s \in Slots, slots[s].stage \in {"search", "prepare", "convert"},
         NEW file \in Files, Announce(s, file)
  PROVE  PanelHolds'
<1> DEFINE ref     == slots[s].ref
           others  == {t \in Slots \ {s} :
                         At(t, "mount") /\ slots[t].ref = ref /\ slots[t].file = file}
           refused == IF page = "hidden" THEN others \cup {s} ELSE others
           errors  == {ErrorOf(slots[t]) : t \in others}
           ready   == Message("ready", ref, file, "")
           new     == With(slots[s], "mount", file)
<1>1. slots[s].stage \in Working /\ slots[s].stage # "idle"
  BY DEF Working
<1>2. ref \in AllRefs /\ \A t \in Slots \ {s} : slots[t].stage \in Working => slots[t].ref # ref
  BY <1>1, WorkingFacts
<1>3. others = {} /\ refused = {} /\ errors = {}
  <2>1. others = {}
    BY <1>2 DEF At, Working
  <2> QED BY <2>1, PageIsThere
<1>4. /\ taskQueue' = taskQueue
      /\ slots' = [t \in Slots |->
           IF t \in refused THEN [slots[t] EXCEPT !.stage = "ending"]
           ELSE IF t = s THEN With(slots[s], "mount", file)
           ELSE slots[t]]
      /\ Post(<<ready>> \o SetToSeq(errors))
  BY DEF Announce
<1>5. slots' = [slots EXCEPT ![s] = new]
  <2>1. slots' = [t \in Slots |-> IF t = s THEN With(slots[s], "mount", file) ELSE slots[t]]
    BY <1>3, <1>4
  <2> HIDE DEF new
  <2>2. slots = [t \in Slots |-> slots[t]]
    BY StateFacts
  <2>3. slots' = [t \in Slots |-> IF t = s THEN new ELSE slots[t]]
    BY <2>1 DEF new
  <2> QED BY <2>2, <2>3
<1>6. new.stage = "mount" /\ new.ref = ref /\ new.file = file
  <2>1. slots[s] \in WorkType(AllRefs, Len(references))
    BY <1>1, StateFacts, WorkFacts
  <2> QED BY <2>1 DEF With, WorkType
<1>7. <<ready>> \in Seq(ToWebview(AllRefs))
  <2>1. "" \in Words
    BY DEF Words
  <2>2. ready \in ToWebview(AllRefs)
    BY <1>2, <2>1 DEF Message, ToWebview, ReadyType
  <2> HIDE DEF ready
  <2> QED BY <2>2
<1>8. Post(<<ready>>)
  <2>1. SetToSeq({}) \in Seq({})
    BY SetToSeqFacts, FS_EmptySet
  <2>2. SetToSeq({}) = <<>>
    <3>1. SetToSeq({}) # <<>> => Head(SetToSeq({})) \in {}
      BY <2>1, HeadTailProperties
    <3> QED BY <3>1
  <2> HIDE DEF ready, errors
  <2>3. <<ready>> \o <<>> = <<ready>>
    BY <1>7, ConcatEmptySeq
  <2> QED BY <1>3, <1>4, <2>2, <2>3
<1>9. ready.type = "ready" /\ ready.ref = ref /\ ready.file = file /\ ready.says = ""
  BY DEF Message
<1> HIDE DEF new, ready
<1>10. Says(slots[s], new, <<ready>>)
  BY <1>1, <1>6, <1>9 DEF Says, Answers, Selectable
<1>11. /\ file \in DOMAIN sources'
       /\ \A f \in DOMAIN sources : f \in DOMAIN sources' /\ sources'[f] = sources[f]
  <2>1. CASE file \in DOMAIN sources
    BY <2>1 DEF Announce
  <2>2. CASE file \notin DOMAIN sources
    <3>1. \E entry : sources' = [f \in DOMAIN sources \cup {file} |->
                                   IF f = file THEN entry ELSE sources[f]]
      BY <2>2 DEF Announce
    <3> QED BY <2>2, <3>1
  <2> QED BY <2>1, <2>2
<1>12. \E m \in ToSet(<<ready>>) : m.type = "ready"
  BY <1>9, FewElements
<1> QED BY <1>1, <1>4, <1>5, <1>6, <1>7, <1>8, <1>10, <1>11, <1>12, GoesOn DEF Working

\* A task has said its last word.
LEMMA TaskEndsPanel ==
  ASSUME RefInv, RefInv', PanelHolds, NEW s \in Slots, TaskEnds(s)
  PROVE  PanelHolds'
<1>1. /\ UNCHANGED <<drawing, used, pending, sources, toHost, webview>>
      /\ slots[s].stage = "ending" /\ End(s, <<>>)
  BY DEF TaskEnds, At, known, caches
<1>2. Says(slots[s], Idle, <<>>) /\ <<>> \in Seq(ToWebview(AllRefs))
  BY DEF Says
<1> QED BY <1>1, <1>2, EndsSteps

\* A dialog that is closed restores what was shown.
LEMMA CancelDialogPanel ==
  ASSUME RefInv, RefInv', PanelHolds, NEW s \in Slots, CancelDialog(s)
  PROVE  PanelHolds'
<1> DEFINE failure == references[slots[s].reference].failure
           ref     == slots[s].ref
           says    == IF failure # "none" THEN failure
                      ELSE IF ref.enabled THEN "missing" ELSE "saved"
<1>1. /\ UNCHANGED <<drawing, used, pending, sources, toHost, webview>>
      /\ slots[s].stage = "dialog" /\ End(s, <<Status(ref, says)>>)
  BY DEF CancelDialog, At, known, caches
<1>2. says \in Words \ {"ready"}
  <2>1. slots[s].reference \in 1 .. Len(references)
    BY <1>1, StateFacts, WorkFacts
  <2>2. references[slots[s].reference] \in KnownType(AllRefs)
    BY <2>1, StateFacts, ElementOfSeq
  <2>3. failure \in {"none", "missing", "error"}
    BY <2>2 DEF KnownType
  <2> QED BY <2>3 DEF Words
<1>3. slots[s].stage \in Working /\ Idle.stage \notin Working
  BY <1>1 DEF Idle, Task, Working
<1> HIDE DEF says
<1>4. /\ Says(slots[s], Idle, <<Status(ref, says)>>)
      /\ <<Status(ref, says)>> \in Seq(ToWebview(AllRefs))
  BY <1>2, <1>3, StatusSays
<1> QED BY <1>1, <1>4, EndsSteps

\* The search of a task ends.
LEMMA FoundPanel ==
  ASSUME RefInv, RefInv', PanelHolds, NEW s \in Slots, Found(s)
  PROVE  PanelHolds'
<1> DEFINE ref   == slots[s].ref
           file  == linked[ref]
<1>1. /\ UNCHANGED <<drawing, used, pending, toHost, webview>>
      /\ slots[s].stage = "search" /\ slots[s].stage \in Working
  BY DEF Found, At, Working
<1>2. slots[s] \in WorkType(AllRefs, Len(references)) /\ ref \in AllRefs
  BY <1>1, StateFacts, WorkFacts
<1>3. file \in Files \cup {NoFile}
  BY <1>2 DEF RefInv, KnownHolds
<1>4. \/ End(s, <<Status(ref, "missing")>>) /\ UNCHANGED sources
      \/ End(s, <<Status(ref, "cycle")>>) /\ UNCHANGED sources
      \/ file # NoFile /\ Announce(s, file)
      \/ /\ slots' = [slots EXCEPT ![s] = With(slots[s], "prepare", file)]
         /\ UNCHANGED <<sources, toWebview, taskQueue>>
  BY DEF Found
<1>5. Idle.stage \notin Working /\ "missing" \in Words \ {"ready"} /\ "cycle" \in Words \ {"ready"}
  BY DEF Idle, Task, Working, Words
<1> HIDE DEF file
<1>6. ASSUME NEW says \in Words \ {"ready"}, End(s, <<Status(ref, says)>>), UNCHANGED sources
      PROVE  PanelHolds'
  <2>1. /\ Says(slots[s], Idle, <<Status(ref, says)>>)
        /\ <<Status(ref, says)>> \in Seq(ToWebview(AllRefs))
    BY <1>1, <1>5, StatusSays
  <2> QED BY <1>1, <1>6, <2>1, EndsSteps
<1>7. CASE file # NoFile /\ Announce(s, file)
  BY <1>1, <1>3, <1>7, AnnounceSteps
<1>8. CASE /\ slots' = [slots EXCEPT ![s] = With(slots[s], "prepare", file)]
           /\ UNCHANGED <<sources, toWebview, taskQueue>>
  <2> DEFINE new == With(slots[s], "prepare", file)
  <2>1. new.stage = "prepare" /\ new.ref = ref
    BY <1>2 DEF With, WorkType
  <2> HIDE DEF new
  <2>2. Says(slots[s], new, <<>>)
    BY DEF Says
  <2>3. Post(<<>>) /\ <<>> \in Seq(ToWebview(AllRefs))
    BY <1>8, NothingPosted
  <2>4. slots' = [slots EXCEPT ![s] = new]
    BY <1>8 DEF new
  <2> QED BY <1>1, <1>8, <2>1, <2>2, <2>3, <2>4, GoesOn
<1> QED BY <1>4, <1>5, <1>6, <1>7, <1>8

\* The turn of a slot in the queue of conversions has come.
LEMMA BeginPreparingPanel ==
  ASSUME RefInv, RefInv', PanelHolds, NEW s \in Slots, BeginPreparing(s)
  PROVE  PanelHolds'
<1>1. /\ UNCHANGED <<drawing, used, pending, toHost, webview>>
      /\ slots[s].stage = "prepare" /\ slots[s].stage \in Working
  BY DEF BeginPreparing, At, Working
<1>2. slots[s] \in WorkType(AllRefs, Len(references)) /\ slots[s].file \in Files
  BY <1>1, StateFacts, WorkFacts
<1>3. CASE slots[s].file \in prepared
  <2>1. Announce(s, slots[s].file)
    BY <1>3 DEF BeginPreparing
  <2> QED BY <1>1, <1>2, <2>1, AnnounceSteps
<1>4. CASE slots[s].file \notin prepared
  <2> DEFINE new == [slots[s] EXCEPT !.stage = "convert"]
  <2>1. slots' = [slots EXCEPT ![s] = new] /\ UNCHANGED <<taskQueue, sources, toWebview>>
    BY <1>4 DEF BeginPreparing, Goto
  <2>2. new.stage = "convert" /\ new.ref = slots[s].ref
    BY <1>2 DEF WorkType
  <2> HIDE DEF new
  <2>3. Says(slots[s], new, <<>>)
    BY DEF Says
  <2>4. Post(<<>>) /\ <<>> \in Seq(ToWebview(AllRefs))
    BY <2>1, NothingPosted
  <2> QED BY <1>1, <2>1, <2>2, <2>3, <2>4, GoesOn
<1> QED BY <1>3, <1>4

\* A conversion ends.
LEMMA ConvertedPanel ==
  ASSUME RefInv, RefInv', PanelHolds, NEW s \in Slots, Converted(s)
  PROVE  PanelHolds'
<1>1. /\ UNCHANGED <<drawing, used, pending, toHost, webview>>
      /\ slots[s].stage = "convert" /\ Announce(s, slots[s].file)
  BY DEF Converted, At
<1>2. slots[s].file \in Files
  BY <1>1, StateFacts, WorkFacts
<1> QED BY <1>1, <1>2, AnnounceSteps

\* A conversion fails.
LEMMA ConversionFailsPanel ==
  ASSUME RefInv, RefInv', PanelHolds, NEW s \in Slots, ConversionFails(s)
  PROVE  PanelHolds'
<1> DEFINE new == [slots[s] EXCEPT !.stage = "ending"]
           ref == slots[s].ref
<1>1. /\ UNCHANGED <<drawing, used, pending, sources, toHost, webview>>
      /\ slots[s].stage = "convert" /\ slots[s].stage \in Working
      /\ slots' = [slots EXCEPT ![s] = new] /\ UNCHANGED taskQueue
      /\ Post(<<Status(ref, "error")>>)
  BY DEF ConversionFails, At, Refuse, Goto, ErrorOf, Working
<1>2. new.stage = "ending" /\ new.stage \notin Working
  <2>1. slots[s] \in WorkType(AllRefs, Len(references))
    BY <1>1, StateFacts, WorkFacts
  <2> QED BY <2>1 DEF WorkType, Working
<1> HIDE DEF new
<1>3. "error" \in Words \ {"ready"}
  BY DEF Words
<1>4. /\ Says(slots[s], new, <<Status(ref, "error")>>)
      /\ <<Status(ref, "error")>> \in Seq(ToWebview(AllRefs))
  BY <1>1, <1>2, <1>3, StatusSays
<1> QED BY <1>1, <1>2, <1>4, GoesOn

\* Nobody waits in vain: while nothing is slow, an answer is always underway.
LEMMA NoTimeout ==
  ASSUME Calm, PanelHolds, NEW s \in Slots
  PROVE  ~MountTimeout(s)
BY DEF Calm, PanelHolds, Awaited, MountTimeout

\* A file is chosen in the dialog.
LEMMA LinkFilePanel ==
  ASSUME RefInv, RefInv', PanelHolds, NEW s \in Slots, NEW file \in Files, LinkFile(s, file)
  PROVE  PanelHolds'
<1> DEFINE task == [slots[s] EXCEPT !.stage = "load"]
           new  == Begun(task)
           ref  == slots[s].ref
<1>1. /\ UNCHANGED <<drawing, used, pending, sources, taskQueue, toHost, webview>>
      /\ slots[s].stage = "dialog" /\ slots[s].stage \in Working
      /\ slots' = [slots EXCEPT ![s] = new] /\ Post(<<FirstWord(task)>>)
  BY DEF LinkFile, caches, known, At, Working
<1>2. task.stage = "load" /\ task.ref = ref
  <2>1. slots[s] \in WorkType(AllRefs, Len(references))
    BY <1>1, StateFacts, WorkFacts
  <2> QED BY <2>1 DEF WorkType
<1>3. new.ref = ref /\ new.stage # "mount"
  <2>1. slots[s] \in WorkType(AllRefs, Len(references))
    BY <1>1, StateFacts, WorkFacts
  <2>2. new = [task EXCEPT !.stage = "ending"] \/ new = [task EXCEPT !.stage = "search"]
    BY <1>2 DEF Begun
  <2> QED BY <2>1, <2>2 DEF WorkType
<1>4. \E says \in {"limit", "searching"} : FirstWord(task) = Status(ref, says)
  BY <1>2 DEF FirstWord
<1> HIDE DEF task, new
<1>5. PICK says \in {"limit", "searching"} : FirstWord(task) = Status(ref, says)
  BY <1>4
<1>6. says \in Words \ {"ready"} /\ says \notin Selectable
  BY DEF Words, Selectable
<1>7. /\ Says(slots[s], new, <<Status(ref, says)>>)
      /\ <<Status(ref, says)>> \in Seq(ToWebview(AllRefs))
  BY <1>1, <1>6, StatusSays
<1> QED BY <1>1, <1>3, <1>5, <1>7, GoesOn

\* The webview has mounted a cache, or has failed to.
LEMMA HandleMountedPanel ==
  ASSUME RefInv, RefInv', PanelHolds, HandleMounted
  PROVE  PanelHolds'
<1> DEFINE answer  == Head(toHost)
           waiting == {s \in Slots : /\ At(s, "mount")
                                     /\ slots[s].ref = answer.ref
                                     /\ slots[s].file = answer.file}
<1>1. /\ UNCHANGED <<drawing, used, sources, webview>>
      /\ toHost # <<>> /\ answer.type = "mounted" /\ toHost' = Tail(toHost)
  BY DEF HandleMounted, caches
<1>2. waiting # {}
  <2>1. answer \in ToSet(toHost)
    BY <1>1, StateFacts, TailFacts
  <2> QED BY <1>1, <2>1 DEF PanelHolds, Awaited, Answers, At
<1>3. PICK s \in waiting :
        IF answer.says = "ready"
        THEN /\ pending' = [ref \in DOMAIN pending \ {answer.ref} |-> pending[ref]]
             /\ End(s, <<>>)
             /\ UNCHANGED references
        ELSE Refuse(s) /\ UNCHANGED pending
  BY <1>2 DEF HandleMounted
<1>4. s \in Slots /\ Answers(answer, slots[s]) /\ slots[s].stage = "mount" /\ slots[s].ref = answer.ref
  BY DEF At, Answers
<1>5. CASE answer.says = "ready"
  <2>1. DOMAIN pending' = DOMAIN pending \ {slots[s].ref} /\ End(s, <<>>)
    BY <1>3, <1>4, <1>5
  <2>2. Idle.stage \notin Working
    BY DEF Idle, Task, Working
  <2>3. Serves([slots EXCEPT ![s] = Idle], taskQueue, <<>>)
    <3>1. Drain([slots EXCEPT ![s] = Idle], taskQueue, <<>>)
      BY <2>1 DEF End
    <3>2. [slots EXCEPT ![s] = Idle] \in [Slots -> SlotType(AllRefs, Len(references))]
      BY StateFacts DEF SlotType
    <3>3. <<>> \in Seq(ToWebview(AllRefs))
      OBVIOUS
    <3> QED BY <3>1, <3>2, <3>3, StateFacts, PageIsThere, DrainServes
  <2> QED BY <1>1, <1>4, <1>5, <2>1, <2>2, <2>3, MountedSteps
<1>6. CASE answer.says # "ready"
  <2> DEFINE new   == [slots[s] EXCEPT !.stage = "ending"]
             posts == <<Status(slots[s].ref, "error")>>
  <2>1. /\ slots' = [slots EXCEPT ![s] = new] /\ UNCHANGED <<taskQueue, pending>>
        /\ Post(posts)
    BY <1>3, <1>6 DEF Refuse, Goto, ErrorOf
  <2>2. new.stage \notin Working
    <3>1. slots[s] \in WorkType(AllRefs, Len(references))
      BY <1>4, StateFacts, WorkFacts
    <3> QED BY <3>1 DEF WorkType, Working
  <2>3. posts \in Seq(ToWebview(AllRefs))
    <3>1. slots[s].ref \in AllRefs /\ "error" \in Words
      BY <1>4, StateFacts, WorkFacts DEF Words
    <3> QED BY <3>1, StatusFacts
  <2> HIDE DEF new, posts
  <2>4. Serves(slots', taskQueue', posts)
    BY <2>1, <2>3, StateFacts, PageIsThere, NoneServed
  <2>5. Serves([slots EXCEPT ![s] = new], taskQueue, posts)
    BY <2>1, <2>4
  <2> QED BY <1>1, <1>4, <1>6, <2>1, <2>2, <2>5, MountedSteps DEF posts
<1> QED BY <1>5, <1>6

-----------------------------------------------------------------------------
(* Messages that bring tasks, or nothing. *)

\* The first message is taken; it may bring tasks, and news of references beyond the limit.
LEMMA TakingSteps ==
  ASSUME RefInv, RefInv', PanelHolds, UNCHANGED <<drawing, used, sources, webview>>,
         toHost # <<>>, toHost' = Tail(toHost), Head(toHost).type # "mounted",
         NEW waiting, NEW posts, NEW load, NEW say,
         \A m \in ToSet(posts) : m.type = "status" /\ m.says = "limit",
         Serves(slots, waiting, posts), Enqueues(slots, waiting, load, say),
         Touches(posts, load, say), Pends(slots, waiting, posts, load, say),
         Loads(slots, waiting, posts, load, say)
  PROVE  PanelHolds'
<1>1. /\ \A m : m \in ToSet(toHost') => m \in ToSet(toHost)
      /\ \A m : m \in ToSet(toHost) => m = Head(toHost) \/ m \in ToSet(toHost')
      /\ \A a, b : Before(toHost', a, b) => Before(toHost, a, b)
  BY StateFacts, TailFacts
<1>2. OnlyTakes
  BY <1>1 DEF OnlyTakes
<1>3. Mounts(slots, posts)
  <2>1. LastWord(posts)
    BY OrderFacts DEF LastWord
  <2>2. \A s \in Slots : slots[s].stage = "mount" => slots[s].file \in DOMAIN sources'
    BY DEF PanelHolds, PageHolds, At
  <2> QED BY <1>1, <2>1, <2>2 DEF Mounts
<1> QED BY <1>2, <1>3, ControllerKeeps

\* A message that nothing is done about.
LEMMA IgnoredPanel ==
  ASSUME RefInv, RefInv', PanelHolds,
         UNCHANGED <<drawing, used, sources, pending, tasks, toWebview, webview>>,
         toHost # <<>>, toHost' = Tail(toHost), Head(toHost).type # "mounted",
         Head(toHost).type = "discovered" => Head(toHost).file \notin ListenedTo
  PROVE  PanelHolds'
<1>1. \A m : m \in ToSet(toHost) => m = Head(toHost) \/ m \in ToSet(toHost')
  BY StateFacts, TailFacts
<1>2. Serves(slots, taskQueue, <<>>)
  <2>1. Post(<<>>) /\ <<>> \in Seq(ToWebview(AllRefs))
    BY NothingPosted
  <2>2. Serves(slots', taskQueue', <<>>)
    BY <2>1, StateFacts, PageIsThere, NoneServed
  <2> QED BY <2>2 DEF tasks
<1> DEFINE none == {}
           posts == <<>>
<1>3. (\A m : m \notin ToSet(posts)) /\ (\A ref : ref \notin none)
  BY FewElements
<1>4. Serves(slots, taskQueue, posts)
  BY <1>2
<1> HIDE DEF none, posts
<1>5. Enqueues(slots, taskQueue, none, none)
  BY DEF PanelHolds, Served, Enqueues
<1>6. Touches(posts, none, none)
  BY <1>3 DEF Touches, Told
<1>7. Pends(slots, taskQueue, posts, none, none)
  <2>1. \A ref \in AllRefs : ref.parent \in ListenedTo /\ Reported(toHost, ref.parent) =>
          Reported(toHost', ref.parent)
    BY <1>1 DEF Reported
  <2> QED BY <1>3, <2>1 DEF Pends, PanelHolds, Served
<1>8. Loads(slots, taskQueue, posts, none, none)
  BY <1>3 DEF Loads, Offered
<1> QED BY <1>3, <1>4, <1>5, <1>6, <1>7, <1>8, TakingSteps

\* A button of the panel was used: a reference that is pending gets another task, the only
\* one that loads it.
LEMMA HandleClickPanel ==
  ASSUME RefInv, RefInv', PanelHolds, HandleClick
  PROVE  PanelHolds'
<1> DEFINE click == Head(toHost)
           ref   == click.ref
           n     == Len(references)
           task  == Task(click.type, ref, pending[ref])
           load  == {ref}
           none  == {}
           posts == <<>>
<1>1. /\ UNCHANGED <<drawing, used, sources, pending, webview>>
      /\ toHost # <<>> /\ toHost' = Tail(toHost) /\ click.type \in Clicks
      /\ click.type # "mounted" /\ click.type # "discovered"
  BY DEF HandleClick, caches, Clicks
<1>2. CASE ref \notin DOMAIN pending
  <2>1. UNCHANGED <<tasks, toWebview>>
    BY <1>2 DEF HandleClick
  <2> QED BY <1>1, <2>1, IgnoredPanel
<1>3. CASE ref \in DOMAIN pending
  <2>1. Drain(slots, Append(taskQueue, task), posts)
    BY <1>3 DEF HandleClick
  <2>2. ref \in AllRefs /\ pending[ref] \in 1 .. n /\ n \in Nat
    BY <1>3, StateFacts DEF RefInv, KnownHolds
  <2>3. task \in WaitType(AllRefs, n)
    BY <1>1, <2>2 DEF Task, WaitType, Clicks
  <2>4. task.ref = ref /\ task.stage # "saved"
    BY <1>1 DEF Task, Clicks
  <2>5. /\ \A m : m \notin ToSet(posts)
        /\ \A r : r \notin none
        /\ \A r : r \in load <=> r = ref
    BY FewElements
  <2>6. posts \in Seq(ToWebview(AllRefs))
    OBVIOUS
  <2>7. /\ click \in ToSet(toHost)
        /\ \A m : m \in ToSet(toHost') => m \in ToSet(toHost) /\ Before(toHost, click, m)
        /\ \A m : m \in ToSet(toHost) => m = click \/ m \in ToSet(toHost')
    BY <1>1, StateFacts, TailFacts
  <2> HIDE DEF task, posts, none, load, click
  <2> DEFINE waiting == Append(taskQueue, task)
  <2>8. Serves(slots, waiting, posts)
    <3>1. waiting \in Seq(WaitType(AllRefs, n))
      BY <2>3, StateFacts, AppendProperties
    <3> QED BY <2>1, <2>2, <2>6, <3>1, StateFacts, PageIsThere, DrainServes
  <2>9. /\ \A t : t \in ToSet(waiting) <=> t \in ToSet(taskQueue) \/ t = task
        /\ \A a, b : Before(waiting, a, b) =>
             Before(taskQueue, a, b) \/ (a \in ToSet(taskQueue) /\ b = task)
    BY <2>3, StateFacts, AppendFacts
  <2> HIDE DEF waiting
  <2>10. \A r : /\ ToSay(waiting, r) => ToSay(taskQueue, r)
                /\ ToLoad(waiting, r) => ToLoad(taskQueue, r) \/ r = ref
    BY <2>4, <2>9 DEF ToLoad, ToSay
  \* Nothing else is done for the reference.
  <2>11. Clicked(toHost, ref)
    BY <1>1, <2>7 DEF Clicked
  <2>12. ~ToLoad(taskQueue, ref) /\ ~Works(slots, ref) /\ ~IsMounted(ref)
    BY <2>2, <2>11 DEF PanelHolds, Served
  <2>13. ref.parent \in discovered
    BY <2>2, <2>11 DEF PanelHolds, NothingElse
  <2>14. \A m \in ToSet(toHost') :
           m.type \notin Clicks /\ (m.type = "discovered" => m.file # ref.parent)
    BY <1>1, <2>7 DEF PanelHolds, Reports, InOrder
  <2>15. Silent(ref)
    <3>1. \A s \in Slots : slots[s].stage = "mount" => slots[s].ref # ref
      BY <2>12 DEF Works, Working
    <3>2. ~Announced(toWebview, ref) /\ ~Told(mountQueue, ref) /\ ~Answered(toHost, ref)
      BY <2>2, <3>1, NobodyWaits
    <3> QED BY <2>7, <3>2 DEF Silent, Answered
  <2>16. Fresh(ref)
    BY <2>12, <2>13, <2>14, <2>15 DEF Fresh, Reported
  <2>17. Enqueues(slots, waiting, load, none)
    <3>1. Exclusive(taskQueue, slots)
      BY DEF PanelHolds, Served
    <3>2. Exclusive(waiting, slots)
      <4>1. \A a, b \in ToSet(waiting) : Before(waiting, a, b) /\ a.ref = b.ref =>
              a.stage = "saved" /\ b.stage # "saved"
        <5>1. \A a, b : Before(taskQueue, a, b) => a \in ToSet(taskQueue) /\ b \in ToSet(taskQueue)
          BY OrderFacts
        <5>2. \A a \in ToSet(taskQueue) : a.ref = ref => a.stage = "saved"
          BY <2>12 DEF ToLoad
        <5> QED BY <2>4, <2>9, <3>1, <5>1, <5>2 DEF Exclusive
      <4>2. \A s \in Slots : slots[s].stage \in Working => ~Waits(waiting, slots[s].ref)
        <5>1. \A s \in Slots : slots[s].stage \in Working => slots[s].ref # ref
          BY <2>12 DEF Works
        <5> QED BY <2>10, <3>1, <5>1 DEF Exclusive, Waits
      <4> QED BY <3>1, <4>1, <4>2 DEF Exclusive
    <3> QED BY <2>5, <2>10, <3>2 DEF Enqueues
  <2>18. Touches(posts, load, none)
    BY <2>5, <2>16 DEF Touches, Told
  <2>19. Pends(slots, waiting, posts, load, none)
    <3>1. \A r \in AllRefs : Waits(waiting, r) \/ Works(slots, r) => r \in DOMAIN pending
      BY <1>3, <2>10 DEF PanelHolds, Served, Waits
    <3>2. \A r \in AllRefs : Reported(toHost, r.parent) => Reported(toHost', r.parent)
      BY <1>1, <2>7 DEF Reported, click
    <3> QED BY <1>1, <2>5, <3>1, <3>2 DEF Pends
  <2>20. Loads(slots, waiting, posts, load, none)
    <3>1. ~Clicked(toHost', ref)
      BY <2>14 DEF Clicked
    <3>2. used.clicks # 0
      BY <2>2, <2>11 DEF PanelHolds, Unused
    <3> QED BY <2>5, <3>1, <3>2 DEF Loads
  <2>21. \A m \in ToSet(posts) : m.type = "status" /\ m.says = "limit"
    BY <2>5
  <2> QED BY <1>1, <2>8, <2>17, <2>18, <2>19, <2>20, <2>21, TakingSteps DEF click
<1> QED BY <1>2, <1>3

\* What the report of a cache brings: a task for each of its references, or the news that
\* it is one too many.
Brings(file, n, jobs, posts, load, say) ==
  /\ slots \in [Slots -> SlotType(AllRefs, n)]
  /\ taskQueue \in Seq(WaitType(AllRefs, n)) /\ jobs \in Seq(WaitType(AllRefs, n))
  /\ posts \in Seq(ToWebview(AllRefs))
  /\ Drain(slots, taskQueue \o jobs, posts)
  /\ \A ref : ref \in DOMAIN pending' <=> ref \in DOMAIN pending \/ ref \in load \/ ref \in say
  /\ \A task \in ToSet(jobs) :
       IF task.stage = "saved" THEN task.ref \in say ELSE task.ref \in load
  /\ \A a, b : Before(jobs, a, b) => a.ref # b.ref
  /\ \A ref \in load : ref \in Refs(file) /\ ref.enabled
  /\ \A ref \in say : ref \in Refs(file) /\ ~ref.enabled
  /\ \A m \in ToSet(posts) : m.ref \in Refs(file) /\ m = Status(m.ref, "limit")
  /\ \A ref \in Refs(file) : ref \in load \/ ref \in say \/ Told(posts, ref)
LEMMA DiscoveryBrings ==
  ASSUME RefInv, HandleDiscovery, Head(toHost).file \in ListenedTo
  PROVE  \E n \in Nat : \E jobs, posts, load, say :
           Brings(Head(toHost).file, n, jobs, posts, load, say)
<1> DEFINE file    == Head(toHost).file
           all     == drawing.references[file]
           count   == Len(references)
           room    == IF MaxReferences - count < Len(all) THEN MaxReferences - count
                      ELSE Len(all)
           taken   == SubSeq(all, 1, room)
           refused == SubSeq(all, room + 1, Len(all))
           jobs    == [i \in DOMAIN taken |->
                         Task(IF taken[i].enabled THEN "load" ELSE "saved", taken[i], count + i)]
           posts   == [i \in DOMAIN refused |-> Status(refused[i], "limit")]
           m       == count + room
           load    == {ref \in AllRefs : ref.enabled /\ \E i \in 1 .. room : all[i] = ref}
           say     == {ref \in AllRefs : ~ref.enabled /\ \E i \in 1 .. room : all[i] = ref}
<1>1. /\ DOMAIN pending' = DOMAIN pending \cup {taken[i] : i \in DOMAIN taken}
      /\ Drain(slots, taskQueue \o jobs, posts)
  BY DEF HandleDiscovery, ListenedTo
<1>2. file \in Files
  BY DEF ListenedTo, RefInv, KnownHolds
<1>3. /\ drawing \in Drawings /\ drawing \in Drawing /\ WellFormed(drawing)
      /\ count \in Nat /\ count <= MaxReferences /\ MaxReferences \in Nat
  BY StateFacts, ReferencesAssumption DEF RefInv, KnownHolds
<1>4. /\ all \in Seq(AllRefs) /\ Len(all) \in Nat /\ DOMAIN all = 1 .. Len(all)
      /\ \A i \in 1 .. Len(all) : all[i] \in AllRefs /\ all[i] \in Refs(file)
      /\ \A ref \in Refs(file) : \E i \in 1 .. Len(all) : all[i] = ref
      /\ \A i, j \in 1 .. Len(all) : all[i] = all[j] => i = j
  <2>1. all \in Seq(ReferenceType)
    BY <1>2, <1>3 DEF Drawing
  <2>2. \A i, j \in DOMAIN all : all[i].index = all[j].index => i = j
    BY <1>2, <1>3 DEF WellFormed
  <2>3. /\ \A i \in DOMAIN all : all[i] \in Refs(file)
        /\ \A ref \in Refs(file) : \E i \in DOMAIN all : all[i] = ref
    BY DEF Refs
  <2> HIDE DEF all
  <2>4. Len(all) \in Nat /\ DOMAIN all = 1 .. Len(all)
    BY <2>1, LenProperties
  <2>5. \A i \in 1 .. Len(all) : all[i] \in AllRefs
    BY <1>2, <2>3, <2>4 DEF AllRefs
  <2>6. all \in [1 .. Len(all) -> AllRefs]
    <3>1. all = [i \in 1 .. Len(all) |-> all[i]]
      BY <2>1, <2>4
    <3> QED BY <2>5, <3>1
  <2>7. all \in Seq(AllRefs)
    BY <2>4, <2>6, FunctionIsSeq
  <2> QED BY <2>2, <2>3, <2>4, <2>5, <2>7
<1> HIDE DEF all, count
<1>5. room \in Nat /\ room <= Len(all) /\ m \in Nat /\ count <= m
  BY <1>3, <1>4
<1>6. \A i \in 1 .. Len(all) : i \in 1 .. room \/ i - room \in 1 .. Len(all) - room
  BY <1>4, <1>5
<1> HIDE DEF room
<1>7. \A i \in 1 .. room : i \in 1 .. Len(all)
  BY <1>4, <1>5
<1>8. Len(taken) = room /\ DOMAIN taken = 1 .. room /\ \A i \in 1 .. room : taken[i] = all[i]
  <2>1. \A i \in 1 .. room : all[i] \in AllRefs
    BY <1>4, <1>7
  <2>2. /\ taken \in Seq(AllRefs) /\ Len(taken) = room
        /\ \A i \in 1 .. room : taken[i] = all[i]
    BY <1>4, <1>5, <2>1, SubSeqProperties
  <2> QED BY <2>2, LenProperties
<1>9. /\ refused \in Seq(AllRefs) /\ DOMAIN refused = 1 .. Len(all) - room
      /\ \A i \in 1 .. Len(all) - room :
           refused[i] = all[room + i] /\ room + i \in 1 .. Len(all)
  <2>1. \A i \in room + 1 .. Len(all) : all[i] \in AllRefs
    BY <1>4, <1>5
  <2>2. /\ refused \in Seq(AllRefs)
        /\ Len(refused) = IF room + 1 <= Len(all) THEN Len(all) - (room + 1) + 1 ELSE 0
        /\ \A i \in 1 .. Len(all) - (room + 1) + 1 : refused[i] = all[room + 1 + i - 1]
    <3>1. room + 1 \in Int /\ Len(all) \in Int
      BY <1>4, <1>5
    <3> QED BY <2>1, <3>1, SubSeqProperties
  <2> HIDE DEF refused
  <2>3. Len(refused) = Len(all) - room /\ Len(all) - (room + 1) + 1 = Len(all) - room
    <3>1. Len(all) \in Nat /\ room \in Nat /\ room <= Len(all)
      BY <1>4, <1>5
    <3>2. Len(refused) = IF room + 1 <= Len(all) THEN Len(all) - (room + 1) + 1 ELSE 0
      BY <2>2
    <3> HIDE DEF all
    <3> QED BY <3>1, <3>2
  <2>4. \A i \in 1 .. Len(all) - room : room + 1 + i - 1 = room + i /\ room + i \in 1 .. Len(all)
    BY <1>4, <1>5
  <2> QED BY <2>2, <2>3, <2>4, LenProperties
<1> HIDE DEF taken, refused
<1>10. /\ posts \in Seq(ToWebview(AllRefs)) /\ DOMAIN posts = 1 .. Len(all) - room
       /\ \A i \in 1 .. Len(all) - room : posts[i] = Status(all[room + i], "limit")
  <2>1. "limit" \in Words
    BY DEF Words
  <2>2. \A i \in 1 .. Len(all) - room : Status(refused[i], "limit") \in ToWebview(AllRefs)
    BY <1>4, <1>9, <2>1, StatusFacts
  <2>3. posts \in [1 .. Len(all) - room -> ToWebview(AllRefs)]
    BY <1>9, <2>2
  <2>4. \A i \in 1 .. Len(all) - room : posts[i] = Status(all[room + i], "limit")
    BY <1>9
  <2> HIDE DEF posts
  <2>5. Len(all) - room \in Nat
    BY <1>4, <1>5
  <2> QED BY <2>3, <2>4, <2>5, FunctionIsSeq
<1>11. /\ jobs \in Seq(WaitType(AllRefs, m)) /\ DOMAIN jobs = 1 .. room
       /\ \A i \in 1 .. room :
            /\ jobs[i].ref = all[i]
            /\ jobs[i].stage = IF all[i].enabled THEN "load" ELSE "saved"
  <2>1. \A i \in 1 .. room : count + i \in 1 .. m
    BY <1>3, <1>5
  <2>2. jobs \in [1 .. room -> WaitType(AllRefs, m)]
    BY <1>4, <1>7, <1>8, <2>1 DEF Task, WaitType
  <2>3. \A i \in 1 .. room : /\ jobs[i].ref = all[i]
                             /\ jobs[i].stage = IF all[i].enabled THEN "load" ELSE "saved"
    BY <1>8 DEF Task
  <2> HIDE DEF jobs, m
  <2> QED BY <1>5, <2>2, <2>3, FunctionIsSeq
<1>12. slots \in [Slots -> SlotType(AllRefs, m)] /\ taskQueue \in Seq(WaitType(AllRefs, m))
  <2>1. count = Len(references)
    BY DEF count
  <2> HIDE DEF m
  <2>2. /\ SlotType(AllRefs, count) \subseteq SlotType(AllRefs, m)
        /\ Seq(WaitType(AllRefs, count)) \subseteq Seq(WaitType(AllRefs, m))
    BY <1>3, <1>5, TypesWiden
  <2> QED BY <2>1, <2>2, StateFacts
<1> HIDE DEF jobs, posts, m
<1>13. /\ \A ref \in load : ref \in Refs(file) /\ ref.enabled
       /\ \A ref \in say : ref \in Refs(file) /\ ~ref.enabled
       /\ \A i \in 1 .. room : IF all[i].enabled THEN all[i] \in load ELSE all[i] \in say
       /\ \A ref \in load \cup say : \E i \in 1 .. room : all[i] = ref
  BY <1>4, <1>7
<1>14. \A ref : ref \in DOMAIN pending' <=> ref \in DOMAIN pending \/ ref \in load \/ ref \in say
  BY <1>1, <1>8, <1>13
<1> HIDE DEF load, say
<1>15. \A task \in ToSet(jobs) : IF task.stage = "saved" THEN task.ref \in say ELSE task.ref \in load
  BY <1>11, <1>13 DEF ToSet
<1>16. \A a, b : Before(jobs, a, b) => a.ref # b.ref
  <2> SUFFICES ASSUME NEW i \in 1 .. room, NEW j \in 1 .. room, i < j
               PROVE  jobs[i].ref # jobs[j].ref
    BY <1>11 DEF Before
  <2>1. i # j
    BY <1>5
  <2> QED BY <1>4, <1>7, <1>11, <2>1
<1>17. \A t \in ToSet(posts) : t.ref \in Refs(file) /\ t = Status(t.ref, "limit")
  <2>1. \A ref : Status(ref, "limit").ref = ref
    BY DEF Status, Message
  <2>2. ASSUME NEW i \in 1 .. Len(all) - room
        PROVE  posts[i].ref \in Refs(file) /\ posts[i] = Status(posts[i].ref, "limit")
    BY <1>4, <1>9, <1>10, <2>1
  <2> QED BY <1>10, <2>2 DEF ToSet
<1>18. ASSUME NEW ref \in Refs(file)
       PROVE  ref \in load \/ ref \in say \/ Told(posts, ref)
  <2>1. PICK i \in 1 .. Len(all) : all[i] = ref
    BY <1>4
  <2>2. CASE i \in 1 .. room
    BY <1>13, <2>1, <2>2
  <2>3. CASE i - room \in 1 .. Len(all) - room
    <3>1. room + (i - room) = i
      BY <1>4, <1>5
    <3>2. posts[i - room] = Status(ref, "limit") /\ i - room \in DOMAIN posts
      BY <1>10, <2>1, <2>3, <3>1
    <3>3. posts[i - room].ref = ref
      BY <3>2 DEF Status, Message
    <3> QED BY <3>2, <3>3 DEF Told, ToSet
  <2> QED BY <1>6, <2>2, <2>3
<1>19. Brings(file, m, jobs, posts, load, say)
  BY <1>1, <1>10, <1>11, <1>12, <1>13, <1>14, <1>15, <1>16, <1>17, <1>18 DEF Brings
<1> QED BY <1>5, <1>19

\* A cache is reported: of its references the controller knows nothing yet.
LEMMA HandleDiscoveryPanel ==
  ASSUME RefInv, RefInv', PanelHolds, HandleDiscovery
  PROVE  PanelHolds'
<1> DEFINE report == Head(toHost)
           file   == report.file
<1>1. /\ UNCHANGED <<drawing, used, sources, webview>>
      /\ toHost # <<>> /\ toHost' = Tail(toHost) /\ report.type = "discovered"
      /\ report.type # "mounted"
  BY DEF HandleDiscovery, caches
<1>2. CASE file \notin ListenedTo
  <2>1. UNCHANGED <<tasks, pending, toWebview>>
    BY <1>2 DEF HandleDiscovery, ListenedTo, known
  <2> QED BY <1>1, <1>2, <2>1, IgnoredPanel
<1>3. CASE file \in ListenedTo
  <2>1. PICK n \in Nat : \E jobs, posts, load, say : Brings(file, n, jobs, posts, load, say)
    BY <1>1, <1>3, DiscoveryBrings
  <2>2. PICK jobs, posts, load, say : Brings(file, n, jobs, posts, load, say)
    BY <2>1
  <2> DEFINE waiting == taskQueue \o jobs
  <2>3. /\ report \in ToSet(toHost) /\ report.type = "discovered" /\ report.file = file
        /\ \A m : m \in ToSet(toHost') => m \in ToSet(toHost) /\ Before(toHost, report, m)
        /\ \A m : m \in ToSet(toHost) => m = report \/ m \in ToSet(toHost')
    BY <1>1, StateFacts, TailFacts
  <2> HIDE DEF file, report
  <2>4. Serves(slots, waiting, posts)
    <3>1. waiting \in Seq(WaitType(AllRefs, n))
      BY <2>2, ConcatProperties DEF Brings
    <3> QED BY <2>2, <3>1, StateFacts, PageIsThere, DrainServes DEF Brings
  <2>5. /\ \A t : t \in ToSet(waiting) <=> t \in ToSet(taskQueue) \/ t \in ToSet(jobs)
        /\ \A a, b : Before(waiting, a, b) =>
             \/ Before(taskQueue, a, b) \/ Before(jobs, a, b)
             \/ a \in ToSet(taskQueue) /\ b \in ToSet(jobs)
    BY <2>2, ConcatFacts DEF Brings
  <2> HIDE DEF waiting
  \* The references of this cache.
  <2>6. /\ \A ref : ref \in DOMAIN pending' <=> ref \in DOMAIN pending \/ ref \in load \/ ref \in say
        /\ \A task \in ToSet(jobs) :
             IF task.stage = "saved" THEN task.ref \in say ELSE task.ref \in load
        /\ \A a, b : Before(jobs, a, b) => a.ref # b.ref
        /\ \A m \in ToSet(posts) : m.ref \in Refs(file) /\ m = Status(m.ref, "limit")
        /\ \A ref \in Refs(file) : ref \in load \/ ref \in say \/ Told(posts, ref)
    BY <2>2 DEF Brings
  <2>7. /\ \A ref \in load : ref \in Refs(file) /\ ref.enabled /\ ref \notin say
        /\ \A ref \in say : ref \in Refs(file) /\ ~ref.enabled
    BY <2>2 DEF Brings
  <2>8. /\ \A ref \in Refs(file) : ref \in AllRefs /\ ref.parent = file
        /\ \A ref \in AllRefs : ref.parent = file => ref \in Refs(file)
    <3>1. WellFormed(drawing) /\ file \in Files
      BY <1>3, ReferencesAssumption DEF ListenedTo, RefInv, KnownHolds
    <3>2. \A f \in Files : \A ref \in Refs(f) : ref.parent = f
      BY <3>1 DEF WellFormed, Refs
    <3> QED BY <3>1, <3>2 DEF AllRefs
  <2>9. ASSUME NEW ref \in Refs(file)
        PROVE  /\ ~Waits(taskQueue, ref) /\ ~Works(slots, ref) /\ ref \notin DOMAIN pending
               /\ ~Told(toWebview, ref)
               /\ status[ref] = IF ref.enabled THEN "waiting" ELSE "saved"
               /\ Clicked(toHost, ref) => ~ref.enabled
               /\ ref \in AllRefs /\ Fresh(ref)
    <3>1. ref \in AllRefs /\ ref.parent = file /\ Reported(toHost, ref.parent)
      BY <2>3, <2>8 DEF Reported
    <3>2. /\ ~Waits(taskQueue, ref) /\ ~Works(slots, ref) /\ ref \notin DOMAIN pending
          /\ ~Told(toWebview, ref) /\ ~IsMounted(ref)
          /\ status[ref] = IF ref.enabled THEN "waiting" ELSE "saved"
          /\ Clicked(toHost, ref) => ~ref.enabled
      BY <3>1 DEF PanelHolds, Reports
    <3>3. file \in discovered
      BY <3>1 DEF PanelHolds, NothingElse
    <3>4. ~Reported(toHost', file)
      BY <2>3 DEF PanelHolds, Reports, InOrder, Reported
    <3>5. Silent(ref)
      <4>1. \A s \in Slots : slots[s].stage = "mount" => slots[s].ref # ref
        BY <3>2 DEF Works, Working
      <4>2. ~Announced(toWebview, ref) /\ ~Told(mountQueue, ref) /\ ~Answered(toHost, ref)
        BY <3>1, <4>1, NobodyWaits
      <4> QED BY <2>3, <4>2 DEF Silent, Answered
    <3> QED BY <3>1, <3>2, <3>3, <3>4, <3>5 DEF Fresh
  <2>10. \A m \in ToSet(posts) : m.type = "status" /\ m.says = "limit"
    <3>1. \A ref : Status(ref, "limit").type = "status" /\ Status(ref, "limit").says = "limit"
      BY DEF Status, Message
    <3> QED BY <2>6, <3>1
  <2>11. \A r : /\ ToSay(waiting, r) => ToSay(taskQueue, r) \/ r \in say
                /\ ToLoad(waiting, r) => ToLoad(taskQueue, r) \/ r \in load
    BY <2>5, <2>6 DEF ToLoad, ToSay
  <2>12. \A task \in ToSet(jobs) : task.ref \in Refs(file)
    BY <2>6, <2>7
  <2>13. Enqueues(slots, waiting, load, say)
    <3>1. Exclusive(taskQueue, slots)
      BY DEF PanelHolds, Served
    <3>2. ASSUME NEW a, NEW b, Before(waiting, a, b), a.ref = b.ref
          PROVE  a.stage = "saved" /\ b.stage # "saved"
      <4>1. CASE Before(taskQueue, a, b)
        BY <3>1, <3>2, <4>1, OrderFacts DEF Exclusive
      <4>2. CASE a \in ToSet(taskQueue) /\ b \in ToSet(jobs)
        BY <2>9, <2>12, <3>2, <4>2, WaitFacts
      <4> QED BY <2>5, <2>6, <3>2, <4>1, <4>2
    <3>3. ASSUME NEW s \in Slots, slots[s].stage \in Working
          PROVE  ~Waits(waiting, slots[s].ref)
      <4>1. slots[s].ref \notin Refs(file)
        BY <2>9, <3>3 DEF Works
      <4> QED BY <2>7, <2>11, <3>1, <3>3, <4>1 DEF Exclusive, Waits
    <3>4. Exclusive(waiting, slots)
      BY <3>1, <3>2, <3>3 DEF Exclusive
    <3> QED BY <2>11, <3>4 DEF Enqueues
  <2>14. Touches(posts, load, say)
    BY <2>6, <2>7, <2>9 DEF Touches, Told
  <2>15. Pends(slots, waiting, posts, load, say)
    <3>1. \A r \in AllRefs : Waits(waiting, r) \/ Works(slots, r) => r \in DOMAIN pending'
      BY <2>6, <2>11 DEF PanelHolds, Served, Waits
    <3>2. \A r \in AllRefs : Reported(toHost, r.parent) =>
            Reported(toHost', r.parent) \/ r.parent = file
      BY <2>3 DEF Reported
    <3>3. \A r \in AllRefs : r.parent = file => r \in DOMAIN pending' \/ Told(posts, r)
      BY <2>6, <2>8
    <3> QED BY <2>6, <3>1, <3>2, <3>3 DEF Pends
  <2>16. Loads(slots, waiting, posts, load, say)
    <3>1. \A r \in load : ~Clicked(toHost', r)
      BY <2>3, <2>7, <2>9 DEF Clicked
    <3>2. \A r \in AllRefs : ~Offered(posts, r)
      BY <2>10 DEF Offered, Selectable
    <3>3. \A r \in say : ~ToLoad(waiting, r) /\ ~Works(slots, r)
      BY <2>7, <2>9, <2>11 DEF Waits
    <3>4. \A r \in load :
            status[r] \notin Selectable /\ ~Told(toWebview, r) /\ ~Waits(taskQueue, r)
      BY <2>7, <2>9 DEF Selectable
    <3> QED BY <3>1, <3>2, <3>3, <3>4 DEF Loads
  <2> QED BY <1>1, <2>4, <2>10, <2>13, <2>14, <2>15, <2>16, TakingSteps DEF report
<1> QED BY <1>2, <1>3

-----------------------------------------------------------------------------
(* Steps of the webview. The controller has its tasks meanwhile. *)

\* A button is used: nobody works for what it offers, and none was used before.
LEMMA UseButtonPanel ==
  ASSUME RefInv, Calm, PanelHolds, NEW kind \in {"load", "select"}, NEW ref \in AllRefs,
         UseButton(kind, ref)
  PROVE  PanelHolds'
<1> DEFINE click == Click(kind, ref)
<1>1. /\ sources' = sources /\ pending' = pending /\ taskQueue' = taskQueue /\ slots' = slots
      /\ toWebview' = toWebview /\ page' = page /\ discovered' = discovered /\ status' = status
      /\ mountQueue' = mountQueue /\ mounted' = mounted /\ drawing' = drawing
      /\ toHost' = Append(toHost, click) /\ used' = [used EXCEPT !.clicks = @ + 1]
      /\ used.clicks < drawing.clicks /\ status[ref] \in Selectable
  BY DEF UseButton, caches, known, tasks, Offers, Loadable, Selectable
<1>2. AllRefs' = AllRefs /\ ListenedTo' = ListenedTo /\ \A r : IsMounted(r)' <=> IsMounted(r)
  BY <1>1, SameReferences DEF ListenedTo, IsMounted
<1>3. used.clicks = 0 /\ used' \in [clicks : Nat, hides : Nat] /\ used'.clicks = 1
      /\ used'.clicks <= drawing.clicks
  <2>1. used \in [clicks : Nat, hides : Nat] /\ drawing.clicks <= 1
    BY DEF PanelHolds, Unused, Calm
  <2>2. drawing.clicks \in Nat
    BY ReferencesAssumption DEF RefInv, KnownHolds, Drawing
  <2> QED BY <1>1, <2>1, <2>2
<1>4. click.type \in Clicks /\ click.ref = ref
  BY DEF Click, Message, Clicks
<1>5. click \in ToHost(AllRefs)
  <2>1. "" \in Words
    BY DEF Words
  <2> QED BY <2>1 DEF Click, Message, ToHost
<1> HIDE DEF click
<1>6. /\ \A m : m \in ToSet(toHost') <=> m \in ToSet(toHost) \/ m = click
      /\ \A a, b : Before(toHost', a, b) =>
           Before(toHost, a, b) \/ (a \in ToSet(toHost) /\ b = click)
  BY <1>1, <1>5, StateFacts, AppendFacts
<1>7. /\ \A r : Answered(toHost', r) <=> Answered(toHost, r)
      /\ \A f : Reported(toHost', f) <=> Reported(toHost, f)
      /\ \A r : Clicked(toHost', r) <=> Clicked(toHost, r) \/ r = ref
  BY <1>4, <1>6 DEF Answered, Reported, Clicked, Clicks
<1>8. ~Clicked(toHost, ref) /\ ~ToLoad(taskQueue, ref) /\ ~Works(slots, ref)
      /\ \A m \in ToSet(toHost) : m.type \notin Clicks
  <2>1. \A r \in AllRefs : ~Clicked(toHost, r) /\ Idly(r)
    BY <1>3 DEF PanelHolds, Unused
  <2>2. \A m \in ToSet(toHost) : m.type \in Clicks => m.ref \in AllRefs
    BY MessageFacts
  <2> QED BY <1>1, <2>1, <2>2 DEF Idly, Clicked
<1>9. PageHolds'
  BY <1>1, <1>2 DEF PanelHolds, PageHolds, At
<1>10. NothingElse'
  <2>1. ref.parent \in discovered
    BY <1>1 DEF PanelHolds, PageHolds, Selectable
  <2> QED BY <1>1, <1>2, <1>7, <2>1 DEF PanelHolds, NothingElse
<1>11. Reports'
  <2>1. InOrder(toHost')
    BY <1>4, <1>6, <1>8, OrderFacts DEF PanelHolds, Reports, InOrder, Clicks
  <2>2. Reported(toHost, ref.parent) => ~ref.enabled
    BY <1>1 DEF PanelHolds, Reports, Selectable
  <2> QED BY <1>1, <1>2, <1>7, <2>1, <2>2 DEF PanelHolds, Reports
<1>12. Served'
  <2>1. ~IsMounted(ref)
    BY <1>1 DEF PanelHolds, Shown, Selectable
  <2> QED BY <1>1, <1>2, <1>7, <1>8, <2>1 DEF PanelHolds, Served
<1>13. Awaited'
  <2>1. \A s \in Slots : Underway(s) => Underway(s)'
    <3>1. \A m : m \in ToSet(toHost) => m \in ToSet(toHost')
      BY <1>6
    <3>2. \A s \in Slots, m \in ToSet(toHost) :
            m.type = "mounted" /\ m.ref = slots[s].ref /\ m.file = slots[s].file =>
              \E i \in DOMAIN toHost' : /\ toHost'[i].type = "mounted"
                                        /\ toHost'[i].ref = slots[s].ref
                                        /\ toHost'[i].file = slots[s].file
      BY <3>1 DEF ToSet
    <3> QED BY <1>1, <3>2 DEF Underway, ToSet
  <2>2. \A m \in ToSet(toHost') : m.type = "mounted" => m \in ToSet(toHost)
    BY <1>4, <1>6 DEF Clicks
  <2> QED BY <1>1, <1>2, <2>1, <2>2 DEF PanelHolds, Awaited, At
<1>14. Shown'
  BY <1>1, <1>2, <1>7 DEF PanelHolds, Shown
<1>15. Unused'
  BY <1>1, <1>3 DEF Unused
<1> QED BY <1>9, <1>10, <1>11, <1>12, <1>13, <1>14, <1>15 DEF PanelHolds

\* The panel shows the next status of a reference it has.
LEMMA ReceiveStatusPanel ==
  ASSUME RefInv, PanelHolds, ReceiveStatus
  PROVE  PanelHolds'
<1> DEFINE m   == Head(toWebview)
           ref == m.ref
<1>1. /\ sources' = sources /\ pending' = pending /\ taskQueue' = taskQueue /\ slots' = slots
      /\ toHost' = toHost /\ page' = page /\ discovered' = discovered /\ used' = used
      /\ mountQueue' = mountQueue /\ mounted' = mounted /\ drawing' = drawing
      /\ toWebview # <<>> /\ toWebview' = Tail(toWebview) /\ m.type = "status"
      /\ IF status[ref] = "none" THEN status' = status
         ELSE status' = [status EXCEPT ![ref] = m.says]
  BY DEF ReceiveStatus, caches, known, tasks
<1>2. AllRefs' = AllRefs /\ ListenedTo' = ListenedTo /\ \A r : IsMounted(r)' <=> IsMounted(r)
  BY <1>1, SameReferences DEF ListenedTo, IsMounted
<1>3. /\ m \in ToSet(toWebview)
      /\ \A x : x \in ToSet(toWebview') => x \in ToSet(toWebview)
      /\ \A x : x \in ToSet(toWebview) => x = m \/ x \in ToSet(toWebview')
      /\ \A a, b : Before(toWebview', a, b) => Before(toWebview, a, b)
  BY <1>1, StateFacts, TailFacts
<1>4. ref \in AllRefs /\ m.says \in Words \ {"ready"}
  <2>1. m \in ToWebview(AllRefs)
    BY <1>3, StateFacts, ElementFacts
  <2>2. m.says # "ready"
    BY <1>3 DEF PanelHolds, Shown
  <2> QED BY <2>1, <2>2 DEF ToWebview, ReadyType
<1> HIDE DEF m
<1>5. /\ \A r : Told(toWebview', r) => Told(toWebview, r)
      /\ \A r : Told(toWebview, r) => r = ref \/ Told(toWebview', r)
      /\ \A r : Offered(toWebview', r) => Offered(toWebview, r)
      /\ Told(toWebview, ref) /\ (m.says \in Selectable => Offered(toWebview, ref))
  BY <1>3 DEF Told, Offered
<1>6. status \in [AllRefs -> Words \cup {"none", "waiting", "failed"}]
  BY DEF PanelHolds, PageHolds
<1>7. /\ status' \in [AllRefs -> Words \cup {"none", "waiting", "failed"}]
      /\ \A r \in AllRefs \ {ref} : status'[r] = status[r]
      /\ status'[ref] = IF status[ref] = "none" THEN "none" ELSE m.says
  BY <1>1, <1>4, <1>6
<1>8. \A r \in AllRefs : status'[r] = "none" <=> status[r] = "none"
  <2>1. m.says # "none"
    BY <1>4 DEF Words
  <2>2. ASSUME NEW r \in AllRefs
        PROVE  status'[r] = "none" <=> status[r] = "none"
    <3>1. CASE r = ref
      BY <1>7, <2>1, <3>1
    <3>2. CASE r # ref
      BY <1>7, <3>2
    <3> QED BY <3>1, <3>2
  <2> QED BY <2>2
<1>9. PageHolds'
  BY <1>1, <1>2, <1>7, <1>8 DEF PanelHolds, PageHolds, At
<1>10. NothingElse'
  BY <1>1, <1>2, <1>5 DEF PanelHolds, NothingElse
<1>11. Reports'
  <2>1. ~Reported(toHost, ref.parent)
    BY <1>4, <1>5 DEF PanelHolds, Reports
  <2>2. \A r \in AllRefs : Reported(toHost, r.parent) => status'[r] = status[r]
    BY <1>7, <2>1
  <2> QED BY <1>1, <1>2, <1>5, <2>2 DEF PanelHolds, Reports
<1>12. Served'
  BY <1>1, <1>2 DEF PanelHolds, Served
<1>13. Awaited'
  <2>1. LastWord(toWebview')
    BY <1>3, OrderFacts DEF PanelHolds, Awaited, LastWord
  <2>2. \A s \in Slots : Underway(s) => Underway(s)'
    <3>1. \A x \in ToSet(toWebview) : x.type = "ready" => x \in ToSet(toWebview')
      BY <1>1, <1>3
    <3>2. \A s \in Slots, x \in ToSet(toWebview) :
            x.type = "ready" /\ x.ref = slots[s].ref /\ x.file = slots[s].file =>
              \E i \in DOMAIN toWebview' : /\ toWebview'[i].type = "ready"
                                           /\ toWebview'[i].ref = slots[s].ref
                                           /\ toWebview'[i].file = slots[s].file
      BY <3>1 DEF ToSet
    <3> QED BY <1>1, <3>2 DEF Underway, ToSet
  <2>3. /\ \A x \in ToSet(toWebview') : x.type = "ready" =>
             ~IsMounted(x.ref) /\ \E s \in Slots : Answers(x, slots[s])
        /\ \A x \in ToSet(mountQueue) :
             /\ ~IsMounted(x.ref) /\ ~Told(toWebview', x.ref)
             /\ \E s \in Slots : Answers(x, slots[s])
        /\ \A x \in ToSet(toHost) : x.type = "mounted" =>
             /\ ~Told(toWebview', x.ref) /\ ~Told(mountQueue, x.ref)
             /\ x.says = "ready" <=> IsMounted(x.ref)
             /\ \E s \in Slots : Answers(x, slots[s])
        /\ \A s \in Slots : slots[s].stage = "mount" => Underway(s)
        /\ OneEach(mountQueue)
    BY <1>3, <1>5 DEF PanelHolds, Awaited, At
  <2> QED BY <1>1, <1>2, <2>1, <2>2, <2>3 DEF Awaited, At
<1>14. Shown'
  <2>1. ~IsMounted(ref) /\ status[ref] # "ready"
    BY <1>4, <1>5 DEF PanelHolds, Shown
  <2>2. \A r \in AllRefs : status'[r] = "ready" <=> IsMounted(r)
    BY <1>4, <1>7, <2>1 DEF PanelHolds, Shown
  <2>3. ASSUME NEW r \in AllRefs, r.parent \in discovered \cap ListenedTo,
               r \notin DOMAIN pending, ~Reported(toHost, r.parent)
        PROVE  IsMounted(r) \/ status'[r] = "limit" \/ Told(toWebview', r)
    <3>1. IsMounted(r) \/ status[r] = "limit" \/ Told(toWebview, r)
      BY <2>3 DEF PanelHolds, Shown
    <3>2. CASE r = ref
      <4>1. m = Status(ref, "limit")
        BY <1>3, <2>3, <3>2 DEF PanelHolds, Shown
      <4>2. m.says = "limit"
        BY <4>1 DEF Status, Message
      <4>3. status[ref] # "none"
        BY <1>4, <2>3, <3>2 DEF PanelHolds, PageHolds
      <4> QED BY <1>7, <3>2, <4>2, <4>3
    <3> QED BY <1>5, <1>7, <3>1, <3>2
  <2> QED BY <1>1, <1>2, <1>3, <1>5, <2>2, <2>3 DEF PanelHolds, Shown
<1>15. Unused'
  <2>1. ASSUME used.clicks = 0, NEW r \in AllRefs,
               status'[r] \in Selectable \/ Offered(toWebview', r) \/ ToSay(taskQueue, r)
        PROVE  ~ToLoad(taskQueue, r) /\ ~Works(slots, r)
    <3>1. status[r] \in Selectable \/ Offered(toWebview, r) \/ ToSay(taskQueue, r)
      BY <1>5, <1>7, <2>1 DEF Selectable
    <3> QED BY <2>1, <3>1 DEF PanelHolds, Unused, Idly
  <2> QED BY <1>1, <1>2, <2>1 DEF PanelHolds, Unused, Idly
<1> QED BY <1>9, <1>10, <1>11, <1>12, <1>13, <1>14, <1>15 DEF PanelHolds

\* An announced cache waits to be mounted.
LEMMA ReceiveReadyPanel ==
  ASSUME RefInv, PanelHolds, ReceiveReady
  PROVE  PanelHolds'
<1> DEFINE m   == Head(toWebview)
           ref == m.ref
<1>1. /\ sources' = sources /\ pending' = pending /\ taskQueue' = taskQueue /\ slots' = slots
      /\ toHost' = toHost /\ page' = page /\ discovered' = discovered /\ used' = used
      /\ status' = status /\ mounted' = mounted /\ drawing' = drawing
      /\ toWebview # <<>> /\ toWebview' = Tail(toWebview) /\ m.type = "ready"
      /\ mountQueue' = Append(mountQueue, m)
  BY DEF ReceiveReady, caches, known, tasks, panel
<1>2. AllRefs' = AllRefs /\ ListenedTo' = ListenedTo /\ \A r : IsMounted(r)' <=> IsMounted(r)
  BY <1>1, SameReferences DEF ListenedTo, IsMounted
<1>3. /\ m \in ToSet(toWebview)
      /\ \A x : x \in ToSet(toWebview') => x \in ToSet(toWebview) /\ Before(toWebview, m, x)
      /\ \A x : x \in ToSet(toWebview) => x = m \/ x \in ToSet(toWebview')
      /\ \A a, b : Before(toWebview', a, b) => Before(toWebview, a, b)
  BY <1>1, StateFacts, TailFacts
<1>4. m \in ReadyType(AllRefs) /\ ref \in AllRefs
  <2>1. m \in ToWebview(AllRefs)
    BY <1>3, StateFacts, ElementFacts
  <2> QED BY <1>1, <2>1 DEF ToWebview, ReadyType
<1> HIDE DEF m
<1>5. /\ \A x : x \in ToSet(mountQueue') <=> x \in ToSet(mountQueue) \/ x = m
      /\ \A a, b : Before(mountQueue', a, b) =>
           Before(mountQueue, a, b) \/ (a \in ToSet(mountQueue) /\ b = m)
  BY <1>1, <1>4, StateFacts, AppendFacts
<1>6. /\ \A r : Told(toWebview', r) => Told(toWebview, r)
      /\ \A r : Offered(toWebview', r) => Offered(toWebview, r)
      /\ \A r : Told(mountQueue', r) <=> Told(mountQueue, r) \/ r = ref
      /\ Told(toWebview, ref)
  BY <1>3, <1>5 DEF Told, Offered
<1>7. ~Told(toWebview', ref)
  BY <1>1, <1>3 DEF PanelHolds, Awaited, LastWord, Told
<1>8. PageHolds'
  BY <1>1, <1>2 DEF PanelHolds, PageHolds, At
<1>9. NothingElse'
  BY <1>1, <1>2, <1>6 DEF PanelHolds, NothingElse
<1>10. Reports'
  BY <1>1, <1>2, <1>6 DEF PanelHolds, Reports
<1>11. Served'
  BY <1>1, <1>2 DEF PanelHolds, Served
<1>12. Awaited'
  <2>1. LastWord(toWebview')
    BY <1>3, OrderFacts DEF PanelHolds, Awaited, LastWord
  <2>2. OneEach(mountQueue')
    <3>1. \A x \in ToSet(mountQueue) : x.ref # ref
      BY <1>6 DEF PanelHolds, Awaited
    <3> QED BY <1>5, <3>1, OrderFacts DEF PanelHolds, Awaited, OneEach
  <2>3. \A s \in Slots : Underway(s) => Underway(s)'
    <3>1. \A x \in ToSet(toWebview) : x.type = "ready" => x \in ToSet(toWebview') \/ x \in ToSet(mountQueue')
      BY <1>3, <1>5
    <3>2. \A s \in Slots, x \in ToSet(toWebview) :
            x.type = "ready" /\ x.ref = slots[s].ref /\ x.file = slots[s].file =>
              \/ \E i \in DOMAIN toWebview' : /\ toWebview'[i].type = "ready"
                                              /\ toWebview'[i].ref = slots[s].ref
                                              /\ toWebview'[i].file = slots[s].file
              \/ \E i \in DOMAIN mountQueue' : /\ mountQueue'[i].ref = slots[s].ref
                                               /\ mountQueue'[i].file = slots[s].file
      BY <3>1 DEF ToSet
    <3>3. \A s \in Slots, x \in ToSet(mountQueue) :
            x.ref = slots[s].ref /\ x.file = slots[s].file =>
              \E i \in DOMAIN mountQueue' : /\ mountQueue'[i].ref = slots[s].ref
                                            /\ mountQueue'[i].file = slots[s].file
      BY <1>5 DEF ToSet
    <3> QED BY <1>1, <3>2, <3>3 DEF Underway, ToSet
  <2>4. /\ \A x \in ToSet(toWebview') : x.type = "ready" =>
             ~IsMounted(x.ref) /\ \E s \in Slots : Answers(x, slots[s])
        /\ \A x \in ToSet(mountQueue') :
             /\ ~IsMounted(x.ref) /\ ~Told(toWebview', x.ref)
             /\ \E s \in Slots : Answers(x, slots[s])
        /\ \A x \in ToSet(toHost) : x.type = "mounted" =>
             /\ ~Told(toWebview', x.ref) /\ ~Told(mountQueue', x.ref)
             /\ x.says = "ready" <=> IsMounted(x.ref)
             /\ \E s \in Slots : Answers(x, slots[s])
        /\ \A s \in Slots : slots[s].stage = "mount" => Underway(s)
    BY <1>1, <1>3, <1>5, <1>6, <1>7 DEF PanelHolds, Awaited, At
  <2> QED BY <1>1, <1>2, <2>1, <2>2, <2>3, <2>4 DEF Awaited, At
<1>13. Shown'
  <2>1. ASSUME NEW r \in AllRefs, r \notin DOMAIN pending, Told(toWebview, r)
        PROVE  Told(toWebview', r)
    <3>1. PICK x \in ToSet(toWebview) : x.ref = r
      BY <2>1 DEF Told
    <3>2. x.type = "status"
      <4>1. x = Status(x.ref, "limit")
        BY <2>1, <3>1 DEF PanelHolds, Shown
      <4>2. Status(x.ref, "limit").type = "status"
        BY DEF Status, Message
      <4> QED BY <4>1, <4>2
    <3> QED BY <1>1, <1>3, <3>1, <3>2 DEF Told
  <2> QED BY <1>1, <1>2, <1>3, <1>6, <2>1 DEF PanelHolds, Shown
<1>14. Unused'
  BY <1>1, <1>2, <1>6 DEF PanelHolds, Unused, Idly
<1> QED BY <1>8, <1>9, <1>10, <1>11, <1>12, <1>13, <1>14 DEF PanelHolds

\* The report of a cache, if its references have to be reported.
Report(file) == [type |-> "discovered", ref |-> NoFile, file |-> file, says |-> ""]
LEMMA DiscoveryIs ==
  ASSUME NEW file
  PROVE  Discovery(file) =
           IF file \in discovered \/ Refs(file) = {} THEN <<>> ELSE <<Report(file)>>
BY DEF Discovery, Report

\* References by the cache they are in.
LEMMA ParentsAre ==
  ASSUME RefInv
  PROVE  \A file \in Files, ref \in AllRefs : ref \in Refs(file) <=> ref.parent = file
<1>1. WellFormed(drawing)
  BY ReferencesAssumption DEF RefInv, KnownHolds
<1>2. \A file \in Files : \A ref \in Refs(file) : ref.parent = file
  BY <1>1 DEF WellFormed, Refs
<1> QED BY <1>2 DEF AllRefs

\* The drawing is shown: nothing was known of any reference.
LEMMA OpenDrawingPanel ==
  ASSUME RefInv, PanelHolds, OpenDrawing
  PROVE  PanelHolds'
<1>1. /\ sources' = sources /\ pending' = pending /\ taskQueue' = taskQueue /\ slots' = slots
      /\ toWebview' = toWebview /\ used' = used /\ mounted' = mounted /\ drawing' = drawing
      /\ page = "loading" /\ page' = "shown" /\ mountQueue' = <<>>
      /\ discovered' = discovered \cup {Root} /\ toHost' = toHost \o Discovery(Root)
      /\ status' = IF Root \in discovered THEN status
                   ELSE [ref \in AllRefs |->
                          IF ref \notin Refs(Root) \/ status[ref] # "none" THEN status[ref]
                          ELSE IF ref.enabled THEN "waiting" ELSE "saved"]
  BY DEF OpenDrawing, Discover, caches, known, tasks
<1>2. AllRefs' = AllRefs /\ ListenedTo' = ListenedTo /\ \A r : IsMounted(r)' <=> IsMounted(r)
  BY <1>1, SameReferences DEF ListenedTo, IsMounted
<1>3. discovered = {} /\ Root \in DOMAIN sources /\ Root \in Files
  BY <1>1, ReferencesAssumption DEF PanelHolds, PageHolds
<1>4. \A ref \in AllRefs :
        /\ ~Waits(taskQueue, ref) /\ ~Works(slots, ref) /\ ref \notin DOMAIN pending
        /\ ~Told(toWebview, ref) /\ ~Reported(toHost, ref.parent)
        /\ ~Clicked(toHost, ref) /\ ~Answered(toHost, ref) /\ ~IsMounted(ref)
        /\ status[ref] = "none"
  BY <1>3 DEF PanelHolds, NothingElse, PageHolds
<1>5. \A ref \in AllRefs : ref \in Refs(Root) <=> ref.parent = Root
  BY <1>3, ParentsAre
<1>6. \A ref \in AllRefs : status'[ref] =
        IF ref.parent # Root THEN "none" ELSE IF ref.enabled THEN "waiting" ELSE "saved"
  BY <1>1, <1>3, <1>4, <1>5
<1>7. /\ status' \in [AllRefs -> Words \cup {"none", "waiting", "failed"}]
      /\ \A ref \in AllRefs : status'[ref] = "none" <=> ref.parent # Root
      /\ \A ref \in AllRefs : status'[ref] # "ready"
  <2>1. "saved" \in Words
    BY DEF Words
  <2>2. status' = [ref \in AllRefs |-> status'[ref]]
    BY <1>1, <1>3
  <2>3. \A ref \in AllRefs : status'[ref] \in Words \cup {"none", "waiting", "failed"}
    BY <1>6, <2>1
  <2> QED BY <1>6, <2>2, <2>3
<1>8. /\ \A m : m \in ToSet(toHost') <=>
                  m \in ToSet(toHost) \/ (m = Report(Root) /\ Refs(Root) # {})
      /\ \A a, b : Before(toHost', a, b) => Before(toHost, a, b)
           \/ (a \in ToSet(toHost) /\ b = Report(Root) /\ Refs(Root) # {})
  <2>1. Discovery(Root) \in Seq(ToHost(AllRefs))
    BY <1>3, DiscoveryFacts
  <2>2. /\ \A m : m \in ToSet(toHost') <=> m \in ToSet(toHost) \/ m \in ToSet(Discovery(Root))
        /\ \A a, b : Before(toHost', a, b) => Before(toHost, a, b) \/ Before(Discovery(Root), a, b)
             \/ (a \in ToSet(toHost) /\ b \in ToSet(Discovery(Root)))
    BY <1>1, <2>1, StateFacts, ConcatFacts
  <2>3. Discovery(Root) = IF Refs(Root) = {} THEN <<>> ELSE <<Report(Root)>>
    BY <1>3, DiscoveryIs
  <2>4. /\ \A m : m \in ToSet(Discovery(Root)) <=> m = Report(Root) /\ Refs(Root) # {}
        /\ \A a, b : ~Before(Discovery(Root), a, b)
    BY <2>3, FewElements
  <2> QED BY <2>2, <2>4
<1>9. Report(Root).type = "discovered" /\ Report(Root).file = Root
  BY DEF Report
<1>10. \A m \in ToSet(toHost) :
         m.type = "discovered" /\ \A ref \in AllRefs : m.file # ref.parent
  <2>1. \A m \in ToSet(toHost) :
          /\ m.type \in {"discovered", "load", "select", "mounted"}
          /\ m.type \in Clicks \/ m.type = "mounted" => m.ref \in AllRefs
    BY MessageFacts
  <2>2. \A m \in ToSet(toHost) : m.type \notin Clicks /\ m.type # "mounted"
    BY <1>4, <2>1 DEF Clicked, Answered
  <2>3. \A m \in ToSet(toHost) : m.type = "discovered"
    BY <2>1, <2>2 DEF Clicks
  <2> QED BY <1>4, <2>3 DEF Reported
<1>11. /\ \A ref : ~Clicked(toHost', ref) /\ ~Answered(toHost', ref)
       /\ \A ref \in AllRefs : Reported(toHost', ref.parent) => ref.parent = Root
  BY <1>8, <1>9, <1>10 DEF Clicked, Answered, Reported, Clicks
<1>12. \A ref \in AllRefs : ref.parent = Root => Reported(toHost', Root)
  BY <1>5, <1>8, <1>9 DEF Reported
<1>13. \A m : m \notin ToSet(toWebview) /\ m \notin ToSet(mountQueue')
  <2>1. \A m \in ToSet(toWebview) : m.ref \in AllRefs
    BY MessageFacts
  <2> QED BY <1>1, <1>4, <2>1, FewElements DEF Told
<1>14. \A s \in Slots : slots[s].stage \notin Working
  <2> SUFFICES ASSUME NEW s \in Slots, slots[s].stage \in Working
               PROVE  FALSE
    OBVIOUS
  <2>1. slots[s].ref \in AllRefs
    BY WorkingFacts
  <2> QED BY <1>4, <2>1 DEF Works
<1>15. PageHolds'
  <2>1. \A s \in Slots : slots'[s].stage # "mount"
    BY <1>1, <1>14 DEF Working
  <2>2. discovered' = {Root}
    BY <1>1, <1>3
  <2> QED BY <1>1, <1>2, <1>3, <1>7, <2>1, <2>2 DEF PageHolds, At
<1>16. NothingElse'
  BY <1>1, <1>2, <1>4, <1>11, <1>13 DEF NothingElse, Told
<1>17. Reports'
  <2>1. InOrder(toHost')
    <3>1. \A a \in ToSet(toHost) : Refs(Root) # {} => a.file # Root
      BY <1>3, <1>5, <1>10 DEF AllRefs
    <3>2. InOrder(toHost)
      BY DEF PanelHolds, Reports
    <3>3. ASSUME NEW a, NEW b, Before(toHost', a, b)
          PROVE  /\ a.type = "discovered" /\ b.type = "discovered" => a.file # b.file
                 /\ a.type \notin Clicks /\ a.type # "mounted"
      <4>1. CASE Before(toHost, a, b)
        BY <1>10, <3>2, <4>1, OrderFacts DEF InOrder, Clicks
      <4>2. CASE a \in ToSet(toHost) /\ b = Report(Root) /\ Refs(Root) # {}
        BY <1>9, <1>10, <3>1, <4>2 DEF Clicks
      <4> QED BY <1>8, <3>3, <4>1, <4>2
    <3> QED BY <3>3 DEF InOrder
  <2> QED BY <1>1, <1>2, <1>4, <1>6, <1>11, <2>1 DEF Reports
<1>18. Served'
  BY <1>1, <1>2, <1>4, <1>11 DEF PanelHolds, Served
<1>19. Awaited'
  <2>1. LastWord(toWebview) /\ OneEach(mountQueue')
    BY <1>13 DEF LastWord, OneEach
  <2>2. \A m \in ToSet(toHost') : m.type # "mounted"
    BY <1>11 DEF Answered
  <2> QED BY <1>1, <1>13, <1>14, <2>1, <2>2 DEF Awaited, At, Working
<1>20. Shown'
  BY <1>1, <1>2, <1>3, <1>4, <1>7, <1>12, <1>13 DEF Shown
<1>21. Unused'
  BY <1>1, <1>2, <1>4, <1>11 DEF PanelHolds, Unused, Idly, Waits
<1> QED BY <1>15, <1>16, <1>17, <1>18, <1>19, <1>20, <1>21 DEF PanelHolds

\* What is known of the first of the caches that wait to be mounted.
LEMMA ToMountFacts ==
  ASSUME RefInv, PanelHolds, mountQueue # <<>>
  PROVE  LET ready == Head(mountQueue)
             ref   == ready.ref
         IN /\ ready \in ToSet(mountQueue) /\ ref \in AllRefs /\ ready.file \in Files
            /\ \E s \in Slots : Answers(ready, slots[s])
            /\ Works(slots, ref) /\ ~Waits(taskQueue, ref) /\ ref \in DOMAIN pending
            /\ ref.parent \in discovered /\ page = "shown" /\ Places(ref.parent) # {}
            /\ status[ref] # "none" /\ ready.file \in DOMAIN sources
            /\ ~IsMounted(ref) /\ ~Told(toWebview, ref) /\ ~Reported(toHost, ref.parent)
            /\ ~Answered(toHost, ref) /\ ~Clicked(toHost, ref)
<1> DEFINE ready == Head(mountQueue)
           ref   == ready.ref
<1>1. ready \in ToSet(mountQueue)
  BY StateFacts, TailFacts
<1>2. ref \in AllRefs /\ ready.file \in Files
  BY <1>1, MessageFacts
<1>3. /\ ~IsMounted(ref) /\ ~Told(toWebview, ref)
      /\ \E s \in Slots : Answers(ready, slots[s])
  BY <1>1 DEF PanelHolds, Awaited
<1>4. PICK s \in Slots : Answers(ready, slots[s])
  BY <1>3
<1>5. slots[s].stage = "mount" /\ slots[s].stage \in Working /\ slots[s].ref = ref
      /\ slots[s].file = ready.file
  BY <1>4 DEF Answers, Working
<1>6. /\ ref \in DOMAIN pending /\ ref.parent \in discovered
      /\ ~Reported(toHost, ref.parent) /\ ~Waits(taskQueue, ref)
  BY <1>5, WorkingFacts
<1>7. Works(slots, ref)
  BY <1>5 DEF Works
<1>8. /\ page = "shown" /\ status[ref] # "none" /\ ready.file \in DOMAIN sources
      /\ \A file \in discovered \ {Root} : \E path \in mounted : path[Len(path)].file = file
  BY <1>2, <1>5, <1>6 DEF PanelHolds, PageHolds, At
<1>9. Places(ref.parent) # {}
  BY <1>6, <1>8 DEF Places
<1>10. ~Answered(toHost, ref)
  <2>1. Told(mountQueue, ref)
    BY <1>1 DEF Told
  <2> QED BY <2>1 DEF PanelHolds, Awaited, Answered
<1>11. ~Clicked(toHost, ref)
  BY <1>2, <1>7 DEF PanelHolds, Served
<1> QED BY <1>1, <1>2, <1>3, <1>6, <1>7, <1>8, <1>9, <1>10, <1>11

\* It has been mounted, or could not be: the answer is `done`. `fresh` are the caches that
\* are met for the first time, `reports` what is said of them.
Mounting(said, done, fresh, reports) ==
  LET ready == Head(mountQueue)
      ref   == ready.ref
  IN /\ mountQueue # <<>> /\ mountQueue' = Tail(mountQueue)
     /\ UNCHANGED <<drawing, used, caches, known, tasks, toWebview, page>>
     /\ said \in {"ready", "error"} /\ done = Message("mounted", ref, ready.file, said)
     /\ \A file : file \in discovered' <=> file \in discovered \/ file \in fresh
     /\ \A file \in fresh :
          /\ file = ready.file /\ file \notin discovered
          /\ \E path \in mounted' : path[Len(path)].file = file
     /\ mounted \subseteq mounted'
     /\ \A x : IsMounted(x)' <=> IsMounted(x) \/ (x = ref /\ said = "ready")
     /\ status' = [x \in AllRefs |->
          IF x = ref THEN IF said = "ready" THEN "ready" ELSE "failed"
          ELSE IF x.parent \in fresh THEN IF x.enabled THEN "waiting" ELSE "saved"
          ELSE status[x]]
     /\ \A m : m \in reports <=>
          m = Report(ready.file) /\ Refs(ready.file) # {} /\ ready.file \in fresh
     /\ \A m : m \in ToSet(toHost') <=> m \in ToSet(toHost) \/ m = done \/ m \in reports
     /\ \A a, b : Before(toHost', a, b) =>
          \/ Before(toHost, a, b)
          \/ a \in ToSet(toHost) /\ (b = done \/ b \in reports)
          \/ a \in reports /\ b = done
LEMMA MountingSteps ==
  ASSUME RefInv, PanelHolds, NEW said, NEW done, NEW fresh, NEW reports,
         Mounting(said, done, fresh, reports)
  PROVE  PanelHolds'
<1> DEFINE ready == Head(mountQueue)
           ref   == ready.ref
<1>0. Mounting(said, done, fresh, reports)
  OBVIOUS
<1>a. mountQueue # <<>> /\ mountQueue' = Tail(mountQueue)
  BY <1>0 DEF Mounting
<1>b. /\ said \in {"ready", "error"} /\ done = Message("mounted", ref, ready.file, said)
      /\ \A file : file \in discovered' <=> file \in discovered \/ file \in fresh
      /\ \A file \in fresh :
           /\ file = ready.file /\ file \notin discovered
           /\ \E path \in mounted' : path[Len(path)].file = file
      /\ mounted \subseteq mounted'
      /\ \A x : IsMounted(x)' <=> IsMounted(x) \/ (x = ref /\ said = "ready")
  BY <1>0 DEF Mounting
<1>c. status' = [x \in AllRefs |->
        IF x = ref THEN IF said = "ready" THEN "ready" ELSE "failed"
        ELSE IF x.parent \in fresh THEN IF x.enabled THEN "waiting" ELSE "saved"
        ELSE status[x]]
  BY <1>0 DEF Mounting
<1>d. /\ \A m : m \in reports <=>
           m = Report(ready.file) /\ Refs(ready.file) # {} /\ ready.file \in fresh
      /\ \A m : m \in ToSet(toHost') <=> m \in ToSet(toHost) \/ m = done \/ m \in reports
  BY <1>0 DEF Mounting
<1>e. \A a, b : Before(toHost', a, b) =>
        \/ Before(toHost, a, b)
        \/ a \in ToSet(toHost) /\ (b = done \/ b \in reports)
        \/ a \in reports /\ b = done
  BY <1>0 DEF Mounting
<1>1. /\ sources' = sources /\ pending' = pending /\ taskQueue' = taskQueue /\ slots' = slots
      /\ toWebview' = toWebview /\ page' = page /\ used' = used /\ drawing' = drawing
  BY <1>0 DEF Mounting, caches, known, tasks
<1>2. AllRefs' = AllRefs /\ ListenedTo' = ListenedTo
  BY <1>1, SameReferences DEF ListenedTo
<1>3. /\ ready \in ToSet(mountQueue) /\ ref \in AllRefs /\ ready.file \in Files
      /\ \E s \in Slots : Answers(ready, slots[s])
      /\ Works(slots, ref) /\ ~Waits(taskQueue, ref) /\ ref \in DOMAIN pending
      /\ ref.parent \in discovered /\ page = "shown" /\ status[ref] # "none"
      /\ ready.file \in DOMAIN sources
      /\ ~IsMounted(ref) /\ ~Told(toWebview, ref) /\ ~Reported(toHost, ref.parent)
      /\ ~Answered(toHost, ref) /\ ~Clicked(toHost, ref)
  BY <1>a, ToMountFacts
<1>4. /\ \A m : m \in ToSet(mountQueue') => m \in ToSet(mountQueue) /\ Before(mountQueue, ready, m)
      /\ \A m : m \in ToSet(mountQueue) => m = ready \/ m \in ToSet(mountQueue')
      /\ \A a, b : Before(mountQueue', a, b) => Before(mountQueue, a, b)
  BY <1>a, StateFacts, TailFacts
<1>5. \A m \in ToSet(mountQueue') : m.ref # ref
  BY <1>3, <1>4 DEF PanelHolds, Awaited, OneEach
<1>6. done.type = "mounted" /\ done.ref = ref /\ done.file = ready.file /\ done.says = said
  BY <1>b DEF Message
<1> HIDE DEF ready
<1>7. \A m \in reports : m.type = "discovered" /\ m.file = ready.file /\ m.file \in fresh
                           /\ Refs(m.file) # {}
  <2>1. Report(ready.file).type = "discovered" /\ Report(ready.file).file = ready.file
    BY DEF Report
  <2> QED BY <1>d, <2>1
\* The references of the caches that are reported are new, the others keep what is known.
<1>8. \A x \in AllRefs : x.parent \in fresh =>
        /\ ~Waits(taskQueue, x) /\ ~Works(slots, x) /\ x \notin DOMAIN pending
        /\ ~Told(toWebview, x) /\ ~Told(mountQueue, x)
        /\ ~Reported(toHost, x.parent) /\ ~Clicked(toHost, x) /\ ~Answered(toHost, x)
        /\ ~IsMounted(x) /\ x # ref
  BY <1>3, <1>b DEF PanelHolds, NothingElse
<1>9. \A x \in AllRefs \ {ref} : status'[x] =
        IF x.parent \in fresh THEN IF x.enabled THEN "waiting" ELSE "saved" ELSE status[x]
  BY <1>c
<1>10. status'[ref] = IF said = "ready" THEN "ready" ELSE "failed"
  BY <1>3, <1>c
<1>11. /\ \A x : Clicked(toHost', x) <=> Clicked(toHost, x)
       /\ \A x : Answered(toHost', x) <=> Answered(toHost, x) \/ x = ref
       /\ \A f : Reported(toHost', f) <=>
            Reported(toHost, f) \/ (f = ready.file /\ f \in fresh /\ Refs(f) # {})
  <2>1. \A x : Clicked(toHost', x) <=> Clicked(toHost, x)
    BY <1>d, <1>6, <1>7 DEF Clicked, Clicks
  <2>2. \A x : Answered(toHost', x) <=> Answered(toHost, x) \/ x = ref
    BY <1>d, <1>6, <1>7 DEF Answered
  <2>3. \A f : Reported(toHost', f) =>
          Reported(toHost, f) \/ (f = ready.file /\ f \in fresh /\ Refs(f) # {})
    BY <1>d, <1>6, <1>7 DEF Reported
  <2>4. ASSUME NEW f, Reported(toHost, f) \/ (f = ready.file /\ f \in fresh /\ Refs(f) # {})
        PROVE  Reported(toHost', f)
    <3>1. Report(f).type = "discovered" /\ Report(f).file = f
      BY DEF Report
    <3> QED BY <1>b, <1>d, <2>4, <3>1 DEF Reported
  <2> QED BY <2>1, <2>2, <2>3, <2>4
<1>12. \A x \in AllRefs : x.parent = ready.file /\ ready.file \in fresh => Reported(toHost', ready.file)
  BY <1>3, <1>11, ParentsAre
<1>13. \A x \in AllRefs : Reported(toHost, x.parent) => x.parent \in discovered /\ x # ref
  BY <1>3 DEF PanelHolds, NothingElse
<1>14. PageHolds'
  <2>1. "ready" \in Words /\ "saved" \in Words
    BY DEF Words
  <2>2. PageHolds
    BY DEF PanelHolds
  <2>3. status' \in [AllRefs -> Words \cup {"none", "waiting", "failed"}]
    BY <1>c, <2>1, <2>2 DEF PageHolds
  <2>4. ASSUME NEW x \in AllRefs
        PROVE  status'[x] = "none" <=> x.parent \notin discovered'
    <3>1. status[x] = "none" <=> x.parent \notin discovered
      BY <2>2 DEF PageHolds
    <3>2. CASE x = ref
      BY <1>3, <1>b, <1>10, <3>2
    <3>3. CASE x # ref
      BY <1>b, <1>9, <3>1, <3>3
    <3> QED BY <3>2, <3>3
  <2>5. \A file \in discovered' \ {Root} : \E path \in mounted' : path[Len(path)].file = file
    BY <1>b, <2>2 DEF PageHolds
  <2>6. Root \in DOMAIN sources /\ discovered' \subseteq DOMAIN sources
    BY <1>b, <1>3, <2>2 DEF PageHolds
  <2> QED BY <1>1, <1>2, <1>3, <2>2, <2>3, <2>4, <2>5, <2>6 DEF PageHolds, At
<1>15. NothingElse'
  <2> SUFFICES ASSUME NEW x \in AllRefs, x.parent \notin discovered'
               PROVE  /\ ~Waits(taskQueue, x) /\ ~Works(slots, x) /\ x \notin DOMAIN pending
                      /\ ~Told(toWebview, x) /\ ~Told(mountQueue', x)
                      /\ ~Reported(toHost', x.parent) /\ ~Clicked(toHost', x)
                      /\ ~Answered(toHost', x) /\ ~IsMounted(x)'
    BY <1>1, <1>2 DEF NothingElse
  <2>1. x # ref /\ x.parent \notin discovered /\ x.parent \notin fresh
    BY <1>b, <1>3
  <2> QED BY <1>b, <1>4, <1>11, <2>1 DEF PanelHolds, NothingElse, Told
<1>16. Reports'
  <2>1. InOrder(toHost')
    <3>1. InOrder(toHost) /\ \A a, b : Before(toHost, a, b) => a \in ToSet(toHost) /\ b \in ToSet(toHost)
      BY OrderFacts DEF PanelHolds, Reports
    <3>2. ASSUME NEW a \in ToSet(toHost), NEW b \in reports
          PROVE  /\ a.type = "discovered" => a.file # b.file
                 /\ a.type \in Clicks => a.ref.parent # b.file
                 /\ b.type \notin Clicks /\ b.type # "mounted"
      <4>1. PICK x \in AllRefs : x.parent = b.file /\ b.file \in fresh
        BY <1>3, <1>7, ParentsAre DEF AllRefs
      <4>2. a.type \in Clicks => a.ref \in AllRefs /\ Clicked(toHost, a.ref)
        BY MessageFacts DEF Clicked
      <4> QED BY <1>7, <1>8, <4>1, <4>2 DEF Reported, Clicks
    <3>3. ASSUME NEW a \in ToSet(toHost)
          PROVE  a.type = "mounted" => a.ref # ref
      BY <1>3 DEF Answered
    <3>4. done.type \notin Clicks /\ done.type # "discovered"
      BY <1>6 DEF Clicks
    <3>5. ASSUME NEW a, NEW b, Before(toHost', a, b)
          PROVE  /\ a.type = "discovered" /\ b.type = "discovered" => a.file # b.file
                 /\ a.type \in Clicks /\ b.type = "discovered" => a.ref.parent # b.file
                 /\ ~(a.type \in Clicks /\ b.type \in Clicks)
                 /\ a.type = "mounted" /\ b.type = "mounted" => a.ref # b.ref
      <4>1. CASE Before(toHost, a, b)
        BY <3>1, <4>1 DEF InOrder
      <4>2. CASE a \in ToSet(toHost) /\ b = done
        BY <1>6, <3>3, <3>4, <4>2
      <4>3. CASE a \in ToSet(toHost) /\ b \in reports
        BY <3>2, <4>3
      <4>4. CASE a \in reports /\ b = done
        BY <1>7, <3>4, <4>4
      <4> QED BY <1>e, <3>5, <4>1, <4>2, <4>3, <4>4
    <3> QED BY <3>5 DEF InOrder
  <2> SUFFICES ASSUME NEW x \in AllRefs, Reported(toHost', x.parent)
               PROVE  /\ ~Waits(taskQueue, x) /\ ~Works(slots, x) /\ x \notin DOMAIN pending
                      /\ ~Told(toWebview, x) /\ ~IsMounted(x)'
                      /\ status'[x] = IF x.enabled THEN "waiting" ELSE "saved"
                      /\ Clicked(toHost', x) => ~x.enabled
    BY <1>1, <1>2, <2>1 DEF Reports
  <2>2. CASE Reported(toHost, x.parent)
    <3>1. x # ref /\ x.parent \notin fresh
      BY <1>b, <1>13, <2>2
    <3> QED BY <1>b, <1>9, <1>11, <2>2, <3>1 DEF PanelHolds, Reports
  <2>3. CASE x.parent \in fresh
    BY <1>b, <1>8, <1>9, <1>11, <2>3
  <2> QED BY <1>11, <2>2, <2>3
<1>17. Served'
  <2>1. \A x \in AllRefs : Clicked(toHost', x) =>
          ~ToLoad(taskQueue, x) /\ ~Works(slots, x) /\ ~IsMounted(x)'
    BY <1>b, <1>3, <1>11 DEF PanelHolds, Served
  <2> QED BY <1>1, <1>2, <2>1 DEF PanelHolds, Served
<1>18. Awaited'
  <2>1. Awaited
    BY DEF PanelHolds
  <2>2. OneEach(mountQueue') /\ LastWord(toWebview)
    BY <1>4, <2>1, OrderFacts DEF Awaited, OneEach
  <2>3. \A m \in ToSet(toWebview) : m.type = "ready" =>
          ~IsMounted(m.ref)' /\ \E s \in Slots : Answers(m, slots[s])
    BY <1>b, <1>3, <2>1 DEF Awaited, Told
  <2>4. \A m \in ToSet(mountQueue') :
          /\ ~IsMounted(m.ref)' /\ ~Told(toWebview, m.ref)
          /\ \E s \in Slots : Answers(m, slots[s])
    BY <1>b, <1>4, <1>5, <2>1 DEF Awaited
  <2>5. ASSUME NEW m \in ToSet(toHost'), m.type = "mounted"
        PROVE  /\ ~Told(toWebview, m.ref) /\ ~Told(mountQueue', m.ref)
               /\ m.says = "ready" <=> IsMounted(m.ref)'
               /\ \E s \in Slots : Answers(m, slots[s])
    <3>1. CASE m \in ToSet(toHost)
      <4>1. m.ref # ref
        BY <1>3, <2>5, <3>1 DEF Answered
      <4> QED BY <1>b, <1>4, <2>1, <2>5, <3>1, <4>1 DEF Awaited, Told
    <3>2. CASE m = done
      <4>1. \E s \in Slots : Answers(m, slots[s])
        BY <1>3, <1>6, <3>2 DEF Answers
      <4> QED BY <1>b, <1>3, <1>5, <1>6, <3>2, <4>1 DEF Told
    <3> QED BY <1>d, <1>7, <2>5, <3>1, <3>2
  <2>6. ASSUME NEW s \in Slots, slots[s].stage = "mount"
        PROVE  Underway(s)'
    <3>1. \/ \E m \in ToSet(toWebview) : m.type = "ready" /\ Answers(m, slots[s])
          \/ \E m \in ToSet(mountQueue) : Answers(m, slots[s])
          \/ \E m \in ToSet(toHost) : m.type = "mounted" /\ Answers(m, slots[s])
      BY <2>1, <2>6 DEF Awaited, At, Underway, Answers, ToSet
    <3>2. Answers(ready, slots[s]) => Answers(done, slots[s])
      BY <1>6 DEF Answers
    <3>3. \/ \E m \in ToSet(toWebview') : m.type = "ready" /\ Answers(m, slots'[s])
          \/ \E m \in ToSet(mountQueue') : Answers(m, slots'[s])
          \/ \E m \in ToSet(toHost') : m.type = "mounted" /\ Answers(m, slots'[s])
      BY <1>1, <1>4, <1>6, <1>d, <3>1, <3>2
    <3> QED BY <3>3 DEF Underway, Answers, ToSet
  <2> QED BY <1>1, <1>2, <2>2, <2>3, <2>4, <2>5, <2>6 DEF Awaited, At
<1>19. Shown'
  <2>1. Shown
    BY DEF PanelHolds
  <2>2. ASSUME NEW x \in AllRefs
        PROVE  status'[x] = "ready" <=> IsMounted(x)'
    <3>1. CASE x = ref
      BY <1>b, <1>3, <1>10, <3>1
    <3>2. CASE x # ref /\ x.parent \in fresh
      BY <1>b, <1>8, <1>9, <3>2
    <3>3. CASE x # ref /\ x.parent \notin fresh
      BY <1>b, <1>9, <2>1, <3>3 DEF Shown
    <3> QED BY <3>1, <3>2, <3>3
  <2>3. \A x \in AllRefs : IsMounted(x)' =>
          /\ ~Waits(taskQueue, x) /\ ~Told(toWebview, x)
          /\ Works(slots, x) => Answered(toHost', x)
    BY <1>b, <1>3, <1>11, <2>1 DEF Shown
  <2>4. ASSUME NEW x \in AllRefs, x.parent \in discovered', x.parent \in ListenedTo,
               x \notin DOMAIN pending, ~Reported(toHost', x.parent)
        PROVE  IsMounted(x)' \/ status'[x] = "limit" \/ Told(toWebview, x)
    <3>1. x.parent \in discovered /\ x.parent \notin fresh /\ x # ref
      BY <1>b, <1>3, <1>12, <2>4
    <3> QED BY <1>b, <1>9, <1>11, <2>1, <2>4, <3>1 DEF Shown
  <2> QED BY <1>1, <1>2, <2>1, <2>2, <2>3, <2>4 DEF Shown
<1>20. Unused'
  <2>1. Unused
    BY DEF PanelHolds
  <2>2. ASSUME used.clicks = 0, NEW x \in AllRefs,
               status'[x] \in Selectable \/ Offered(toWebview, x) \/ ToSay(taskQueue, x)
        PROVE  ~ToLoad(taskQueue, x) /\ ~Works(slots, x)
    <3>1. CASE x = ref
      BY <1>b, <1>3, <1>10, <2>2, <3>1 DEF Selectable, Offered, Told, Waits
    <3>2. CASE x # ref /\ x.parent \in fresh
      BY <1>8, <3>2 DEF Waits
    <3>3. CASE x # ref /\ x.parent \notin fresh
      BY <1>9, <2>1, <2>2, <3>3 DEF Unused, Idly
    <3> QED BY <3>1, <3>2, <3>3
  <2> QED BY <1>1, <1>2, <1>11, <2>1, <2>2 DEF Unused, Idly
<1> QED BY <1>14, <1>15, <1>16, <1>17, <1>18, <1>19, <1>20 DEF PanelHolds

\* A mounting fails: the panel says so, and the controller is told.
LEMMA MountThrowsPanel ==
  ASSUME RefInv, PanelHolds, MountThrows
  PROVE  PanelHolds'
<1> DEFINE ready   == Head(mountQueue)
           ref     == ready.ref
           done    == Message("mounted", ref, ready.file, "error")
           none    == {}
<1>1. /\ UNCHANGED <<drawing, used, caches, known, tasks, toWebview, page, discovered, mounted>>
      /\ mountQueue # <<>> /\ mountQueue' = Tail(mountQueue) /\ toHost' = Append(toHost, done)
      /\ IF status[ref] = "none" THEN status' = status
         ELSE status' = [status EXCEPT ![ref] = "failed"]
  BY DEF MountThrows
<1>2. ref \in AllRefs /\ status[ref] # "none"
  BY <1>1, ToMountFacts
<1>3. done \in ToHost(AllRefs)
  <2>1. "error" \in Words
    BY DEF Words
  <2> QED BY <1>1, <2>1, FirstReady
<1>4. \A x : x \notin none
  OBVIOUS
<1> HIDE DEF done, none
<1>5. /\ \A m : m \in ToSet(toHost') <=> m \in ToSet(toHost) \/ m = done
      /\ \A a, b : Before(toHost', a, b) =>
           Before(toHost, a, b) \/ (a \in ToSet(toHost) /\ b = done)
  BY <1>1, <1>3, StateFacts, AppendFacts
<1>6. status' = [x \in AllRefs |->
        IF x = ref THEN IF "error" = "ready" THEN "ready" ELSE "failed"
        ELSE IF x.parent \in none THEN IF x.enabled THEN "waiting" ELSE "saved"
        ELSE status[x]]
  <2>1. status = [x \in AllRefs |-> status[x]]
    BY DEF PanelHolds, PageHolds
  <2>2. status' = [status EXCEPT ![ref] = "failed"]
    BY <1>1, <1>2
  <2>3. status' = [x \in AllRefs |-> IF x = ref THEN "failed" ELSE status[x]]
    BY <1>2, <2>1, <2>2
  <2> QED BY <1>4, <2>3
<1>7. \A x : IsMounted(x)' <=> IsMounted(x) \/ (x = ref /\ "error" = "ready")
  BY <1>1 DEF IsMounted
<1>8. Mounting("error", done, none, none)
  BY <1>1, <1>4, <1>5, <1>6, <1>7 DEF Mounting, done
<1> QED BY <1>8, MountingSteps

\* Where a cache is mounted the path ends with it.
LEMMA PathEnds ==
  ASSUME RefInv, NEW file \in Files, NEW place \in Places(file), NEW mount
  PROVE  LET path == Append(place, mount)
         IN path[Len(path)] = mount
<1>1. place = <<>> \/ place \in mounted
  BY DEF Places
<1>2. place \in Seq([ref : AllRefs, file : Files])
  <2>1. CASE place = <<>>
    BY <2>1
  <2>2. CASE place \in mounted
    BY <2>2, WebviewFacts DEF Paths
  <2> QED BY <1>1, <2>1, <2>2
<1> DEFINE S == [ref : AllRefs, file : Files] \cup {mount}
<1>3. place \in Seq(S) /\ mount \in S
  <2>1. [ref : AllRefs, file : Files] \subseteq S /\ mount \in S
    OBVIOUS
  <2> DEFINE P == [ref : AllRefs, file : Files]
  <2>2. place \in Seq(P) /\ P \subseteq S
    BY <1>2, <2>1
  <2> HIDE DEF P, S
  <2>3. Len(place) \in Nat /\ place \in [1 .. Len(place) -> P]
    BY <2>2, LenProperties
  <2>4. place \in [1 .. Len(place) -> S]
    BY <2>2, <2>3
  <2> QED BY <2>1, <2>3, <2>4, FunctionIsSeq
<1> HIDE DEF S
<1> QED BY <1>3, AppendProperties

\* A cache is mounted, and its references are reported unless they have been, or it is an
\* overlay.
LEMMA MountPanel ==
  ASSUME RefInv, PanelHolds, Mount
  PROVE  PanelHolds'
<1> DEFINE ready   == Head(mountQueue)
           ref     == ready.ref
           file    == ready.file
           done    == Message("mounted", ref, file, "ready")
           mount   == [ref |-> ref, file |-> file]
           places  == Places(ref.parent)
           said    == [status EXCEPT ![ref] = "ready"]
           fresh   == {f \in {file} : ReportsOwn(ref) /\ f \notin discovered}
           reports == {m \in {Report(file)} : Refs(file) # {} /\ file \in fresh}
<1>1. /\ UNCHANGED <<drawing, used, caches, known, tasks, toWebview, page>>
      /\ mountQueue # <<>> /\ mountQueue' = Tail(mountQueue)
  BY DEF Mount
<1>2. /\ ref \in AllRefs /\ file \in Files /\ ref.parent \in discovered
      /\ page = "shown" /\ places # {} /\ status[ref] # "none"
  BY <1>1, ToMountFacts
<1>3. /\ mounted' = mounted \cup {Append(place, mount) : place \in places}
      /\ IF ReportsOwn(ref)
         THEN Discover(file, said) /\ toHost' = toHost \o Append(Discovery(file), done)
         ELSE status' = said /\ UNCHANGED discovered /\ toHost' = Append(toHost, done)
  BY <1>2 DEF Mount, PlacesNow
<1>4. done \in ToHost(AllRefs) /\ Discovery(file) \in Seq(ToHost(AllRefs))
  <2>1. "ready" \in Words
    BY DEF Words
  <2> QED BY <1>1, <1>2, <2>1, FirstReady, DiscoveryFacts
<1>5. \A f : f \in discovered' <=> f \in discovered \/ f \in fresh
  BY <1>3 DEF Discover
<1>6. /\ \A f \in fresh : f = file /\ f \notin discovered /\ ReportsOwn(ref)
      /\ \A f : f = file /\ f \notin discovered /\ ReportsOwn(ref) => f \in fresh
      /\ \A m : m \in reports <=> m = Report(file) /\ Refs(file) # {} /\ file \in fresh
  OBVIOUS
<1>7. ref.parent \in Files
  BY <1>2, WebviewFacts
<1>8. \A place \in places : LET path == Append(place, mount) IN path[Len(path)] = mount
  BY <1>7, PathEnds
<1>9. mount.ref = ref /\ mount.file = file
  OBVIOUS
<1> HIDE DEF done, mount, places, fresh, reports, ready
<1>10. /\ mounted \subseteq mounted' /\ \E path \in mounted' : path[Len(path)] = mount
       /\ \A path \in mounted' : path \in mounted \/ path[Len(path)] = mount
  BY <1>2, <1>3, <1>8
<1>11. /\ \E path \in mounted' : path[Len(path)].file = file
       /\ \A x : IsMounted(x)' <=> IsMounted(x) \/ (x = ref /\ "ready" = "ready")
  BY <1>9, <1>10 DEF IsMounted
<1>12. status' = [x \in AllRefs |->
         IF x = ref THEN IF "ready" = "ready" THEN "ready" ELSE "failed"
         ELSE IF x.parent \in fresh THEN IF x.enabled THEN "waiting" ELSE "saved"
         ELSE status[x]]
  <2>1. status = [x \in AllRefs |-> status[x]]
        /\ \A x \in AllRefs : status[x] = "none" <=> x.parent \notin discovered
    BY DEF PanelHolds, PageHolds
  <2>2. said = [x \in AllRefs |-> IF x = ref THEN "ready" ELSE status[x]]
    BY <1>2, <2>1
  <2>3. \A x \in AllRefs : x \in Refs(file) <=> x.parent = file
    BY <1>2, ParentsAre
  <2> HIDE DEF said
  <2>4. CASE fresh = {}
    <3>1. status' = said
      BY <1>3, <1>6, <2>4 DEF Discover
    <3> QED BY <2>2, <2>4, <3>1
  <2>5. CASE fresh # {}
    <3>1. /\ status' = [x \in AllRefs |->
               IF x \notin Refs(file) \/ said[x] # "none" THEN said[x]
               ELSE IF x.enabled THEN "waiting" ELSE "saved"]
          /\ file \notin discovered
      BY <1>3, <1>6, <2>5 DEF Discover
    <3>2. \A x \in AllRefs :
            (IF x \notin Refs(file) \/ said[x] # "none" THEN said[x]
             ELSE IF x.enabled THEN "waiting" ELSE "saved") =
            (IF x = ref THEN IF "ready" = "ready" THEN "ready" ELSE "failed"
             ELSE IF x.parent \in fresh THEN IF x.enabled THEN "waiting" ELSE "saved"
             ELSE status[x])
      <4> SUFFICES ASSUME NEW x \in AllRefs
                   PROVE  (IF x \notin Refs(file) \/ said[x] # "none" THEN said[x]
                           ELSE IF x.enabled THEN "waiting" ELSE "saved") =
                          (IF x = ref THEN "ready"
                           ELSE IF x.parent \in fresh THEN IF x.enabled THEN "waiting" ELSE "saved"
                           ELSE status[x])
        OBVIOUS
      <4>1. said[x] = IF x = ref THEN "ready" ELSE status[x]
        BY <2>2
      <4>2. x.parent \in fresh <=> x.parent = file
        BY <1>6, <2>5
      <4>3. x.parent = file => status[x] = "none"
        BY <2>1, <3>1
      <4> QED BY <2>3, <4>1, <4>2, <4>3
    <3> QED BY <3>1, <3>2
  <2> QED BY <2>4, <2>5
<1>13. /\ \A m : m \in ToSet(toHost') <=> m \in ToSet(toHost) \/ m = done \/ m \in reports
       /\ \A a, b : Before(toHost', a, b) =>
            \/ Before(toHost, a, b)
            \/ a \in ToSet(toHost) /\ (b = done \/ b \in reports)
            \/ a \in reports /\ b = done
  <2>1. CASE ~ReportsOwn(ref)
    <3>1. toHost' = Append(toHost, done)
      BY <1>3, <2>1
    <3>2. /\ \A m : m \in ToSet(toHost') <=> m \in ToSet(toHost) \/ m = done
          /\ \A a, b : Before(toHost', a, b) =>
               Before(toHost, a, b) \/ (a \in ToSet(toHost) /\ b = done)
      BY <1>4, <3>1, StateFacts, AppendFacts
    <3>3. \A m : m \notin reports
      BY <1>6, <2>1
    <3> QED BY <3>2, <3>3
  <2>2. CASE ReportsOwn(ref)
    <3> DEFINE found == Discovery(file)
               news  == Append(found, done)
    <3>1. found = IF file \in discovered \/ Refs(file) = {} THEN <<>> ELSE <<Report(file)>>
      BY DiscoveryIs
    <3>2. (\A m : m \in ToSet(found) <=> m \in reports) /\ \A a, b : ~Before(found, a, b)
      BY <1>6, <2>2, <3>1, FewElements
    <3> HIDE DEF found
    <3>3. found \in Seq(ToHost(AllRefs)) /\ toHost' = toHost \o news
      BY <1>3, <1>4, <2>2 DEF found
    <3>4. /\ \A m : m \in ToSet(news) <=> m \in ToSet(found) \/ m = done
          /\ \A a, b : Before(news, a, b) =>
               Before(found, a, b) \/ (a \in ToSet(found) /\ b = done)
      BY <1>4, <3>3, AppendFacts
    <3>5. news \in Seq(ToHost(AllRefs))
      BY <1>4, <3>3, AppendProperties
    <3> HIDE DEF news
    <3>6. /\ \A m : m \in ToSet(toHost') <=> m \in ToSet(toHost) \/ m \in ToSet(news)
          /\ \A a, b : Before(toHost', a, b) =>
               Before(toHost, a, b) \/ Before(news, a, b) \/ (a \in ToSet(toHost) /\ b \in ToSet(news))
      BY <3>3, <3>5, StateFacts, ConcatFacts
    <3> QED BY <3>2, <3>4, <3>6
  <2> QED BY <2>1, <2>2
<1>14. \A f \in fresh : /\ f = file /\ f \notin discovered
                        /\ \E path \in mounted' : path[Len(path)].file = f
  BY <1>6, <1>11
<1>15. Mounting("ready", done, fresh, reports)
  BY <1>1, <1>5, <1>6, <1>10, <1>11, <1>12, <1>13, <1>14 DEF Mounting, done, ready
<1> QED BY <1>15, MountingSteps

-----------------------------------------------------------------------------
(* The theorem. *)

\* At first there is nothing but the drawing.
LEMMA PanelInit == RefInit => PanelInv
<1> SUFFICES ASSUME RefInit PROVE PanelHolds
  BY DEF PanelInv
<1>1. /\ drawing \in Drawings /\ used = [clicks |-> 0, hides |-> 0]
      /\ DOMAIN sources = {Root} /\ DOMAIN pending = {} /\ taskQueue = <<>>
      /\ slots = [s \in Slots |-> Idle] /\ toHost = <<>> /\ toWebview = <<>>
      /\ page = "loading" /\ discovered = {} /\ status = [ref \in AllRefs |-> "none"]
      /\ mountQueue = <<>> /\ mounted = {}
  BY DEF RefInit
<1>2. \A s \in Slots : slots[s].stage = "idle" /\ slots[s].stage \notin Working
  BY <1>1 DEF Idle, Task, Working
<1>3. /\ \A ref : ~Waits(taskQueue, ref) /\ ~Works(slots, ref)
      /\ \A ref : ~Told(toWebview, ref) /\ ~Told(mountQueue, ref) /\ ~Offered(toWebview, ref)
      /\ \A ref : ~Clicked(toHost, ref) /\ ~Answered(toHost, ref) /\ ~IsMounted(ref)
      /\ \A file : ~Reported(toHost, file)
  BY <1>1, <1>2, FewElements
  DEF Waits, ToLoad, ToSay, Works, Told, Offered, Clicked, Answered, Reported, IsMounted
<1>4. \A ref \in AllRefs : status[ref] = "none"
  BY <1>1
<1>5. PageHolds
  BY <1>1, <1>2, <1>4 DEF PageHolds, At
<1>6. NothingElse
  BY <1>1, <1>3 DEF NothingElse
<1>7. Reports
  BY <1>1, <1>3, FewElements DEF Reports, InOrder
<1>8. Served
  BY <1>1, <1>2, <1>3, FewElements DEF Served, Exclusive
<1>9. Awaited
  BY <1>1, <1>2, FewElements DEF Awaited, LastWord, OneEach, At
<1>10. Shown
  BY <1>1, <1>3, <1>4, FewElements DEF Shown
<1>11. Unused
  <2>1. drawing.clicks \in Nat
    BY <1>1, ReferencesAssumption DEF Drawing
  <2> QED BY <1>1, <1>3, <1>4, <2>1 DEF Unused, Idly, Waits
<1> QED BY <1>5, <1>6, <1>7, <1>8, <1>9, <1>10, <1>11 DEF PanelHolds

\* The page of a calm setting is there.
LEMMA NeverHidden ==
  ASSUME RefInv, Calm, PanelHolds
  PROVE  ~Hide /\ ~Show
<1>1. ~Show
  BY PageIsThere DEF Show
<1>2. ~Hide
  <2>1. used.hides \in Nat /\ drawing.hides = 0
    BY DEF Calm, PanelHolds, Unused
  <2> QED BY <2>1 DEF Hide
<1> QED BY <1>1, <1>2

\* Every step keeps the invariant.
LEMMA PanelStep == RefInv /\ PanelInv /\ [RefNext]_refVars => PanelInv'
<1> SUFFICES ASSUME RefInv, PanelInv, [RefNext]_refVars, Calm'
             PROVE  PanelHolds'
  BY DEF PanelInv
<1>1. RefInv'
  BY RefStep
<1>2. drawing' = drawing
  BY DEF RefNext, refVars, HandleDiscovery, HandleClick, HandleMounted, TaskEnds, Found,
         BeginPreparing, Converted, ConversionFails, MountTimeout, LinkFile, CancelDialog,
         OpenDrawing, ReceiveStatus, ReceiveReady, Mount, MountThrows, UseButton, Hide, Show
<1>3. Calm /\ PanelHolds
  BY <1>2 DEF Calm, PanelInv
<1>4. CASE UNCHANGED refVars
  <2>1. /\ UNCHANGED <<drawing, used, sources, pending, slots, taskQueue, toHost, toWebview,
                       page, discovered, status, mountQueue, mounted>>
        /\ AllRefs' = AllRefs
    BY <1>4, SameReferences DEF refVars, caches, known, tasks, messages, webview, panel
  <2> QED BY <1>3, <2>1
  DEF PanelHolds, PageHolds, NothingElse, Reports, Served, Awaited, Shown, Unused, Idly,
      IsMounted, ListenedTo, Underway, At
<1> QED BY <1>1, <1>3, <1>4, HandleDiscoveryPanel, HandleClickPanel, HandleMountedPanel,
           TaskEndsPanel, FoundPanel, BeginPreparingPanel, ConvertedPanel,
           ConversionFailsPanel, NoTimeout, LinkFilePanel, CancelDialogPanel,
           OpenDrawingPanel, ReceiveStatusPanel, ReceiveReadyPanel, MountPanel,
           MountThrowsPanel, UseButtonPanel, NeverHidden
  DEF RefNext

\* What the invariant says of a panel at rest.
LEMMA PanelAtRest == RefInv /\ PanelInv => PanelAgrees
<1> SUFFICES ASSUME RefInv, PanelHolds, discovered \subseteq ListenedTo, AtRest,
                    NEW ref \in AllRefs
             PROVE  /\ status[ref] = "ready" <=> IsMounted(ref)
                    /\ status[ref] \in Loadable \cup Selectable => ref \in DOMAIN pending
  BY DEF PanelInv, PanelAgrees
<1>1. status[ref] = "ready" <=> IsMounted(ref)
  BY DEF PanelHolds, Shown
<1>2. ASSUME status[ref] \in Loadable \cup Selectable, ref \notin DOMAIN pending
      PROVE  FALSE
  <2>1. toHost = <<>> /\ toWebview = <<>>
    BY DEF AtRest
  <2>2. ~Reported(toHost, ref.parent) /\ ~Told(toWebview, ref)
    BY <2>1, FewElements DEF Reported, Told
  <2>3. status[ref] \notin {"none", "ready", "limit"}
    BY <1>2 DEF Loadable, Selectable
  <2>4. ref.parent \in discovered /\ ref.parent \in ListenedTo
    BY <2>3 DEF PanelHolds, PageHolds
  <2> QED BY <1>1, <1>2, <2>2, <2>3, <2>4 DEF PanelHolds, Shown
<1> QED BY <1>1, <1>2

\* Once nothing is underway any more, the panel shows as ready what is mounted and nothing
\* else, and whatever it offers to load or to select is pending in the controller, so that
\* the button does something: for every drawing, any number of tasks and whatever fails.
THEOREM PanelTellsTheTruth == RefSpec => []PanelAgrees
<1>1. RefSpec => []RefInv
  BY ReferencesInvariant
<1>2. RefInit => PanelInv
  BY PanelInit
<1>3. RefInv /\ PanelInv /\ [RefNext]_refVars => PanelInv'
  BY PanelStep
<1>4. RefInv /\ PanelInv => PanelAgrees
  BY PanelAtRest
<1> QED BY <1>1, <1>2, <1>3, <1>4, PTL DEF RefSpec
=============================================================================
