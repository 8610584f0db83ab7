--------------------------- MODULE CaptionHubProofs ---------------------------
(***************************************************************************)
(* Proofs about the caption hub (CaptionHub) and two of the objects it     *)
(* owns: the cue ledger of the source units (SourceUnits) and the          *)
(* transcript with its history file (TranscriptRetention). They hold for   *)
(* any clients, cues, words, requests and bounds.                          *)
(*                                                                         *)
(* The first part is about the natural numbers and sequences, and is what  *)
(* the parts on the hub and on the source units rest on. The second part   *)
(* proves the hub's invariants HubInv and OrderInv, the third UnitsInv,    *)
(* StableWordsStay and SpellInv, the fourth RetentionInv.                  *)
(***************************************************************************)
EXTENDS CaptionHub, TranscriptRetention, SourceUnits, SequenceTheorems,
        WellFoundedInduction, TLAPS

-----------------------------------------------------------------------------
(* Induction and recursion over the natural numbers, stated with sets and  *)
(* functions.                                                              *)

LEMMA LeastElement ==
    ASSUME NEW S \in SUBSET Nat, S # {}
    PROVE  \E x \in S : \A y \in S : x <= y
<1> DEFINE R == {ss \in Nat \X Nat : ss[1] < ss[2]}
<1>1. IsWellFoundedOn(R, Nat)
  BY NatLessThanWellFounded DEF OpToRel
<1>2. \A x, y \in Nat : x < y => <<x, y>> \in R
  OBVIOUS
<1> HIDE DEF R
<1>3. PICK x \in S : \A y \in S : <<y, x>> \notin R
  BY <1>1, WFMin
<1>4. x \in Nat /\ \A y \in S : y \in Nat /\ ~(y < x)
  BY <1>2, <1>3
<1> QED
  BY <1>4

LEMMA Induction ==
    ASSUME NEW T \in SUBSET Nat, 0 \in T, \A n \in T : n + 1 \in T
    PROVE  T = Nat
<1>1. SUFFICES ASSUME Nat \ T # {}
               PROVE  FALSE
  OBVIOUS
<1>2. PICK x \in Nat \ T : \A y \in Nat \ T : x <= y
  BY <1>1, LeastElement
<1>3. x # 0 /\ x - 1 \in Nat
  OBVIOUS
<1>4. x - 1 \in T
  BY <1>2, <1>3
<1> QED
  BY <1>4

IsRecursive(f, V, base, step) ==
    /\ f \in [Nat -> V]
    /\ f[0] = base
    /\ \A n \in Nat : f[n + 1] = step[<<n, f[n]>>]

(* A function defined by recursion exists: it is glued together from its   *)
(* beginnings.                                                             *)
LEMMA Recursion ==
    ASSUME NEW V, NEW base \in V, NEW step \in [Nat \X V -> V]
    PROVE  \E f : IsRecursive(f, V, base, step)
<1> DEFINE Begins(g, n) == /\ g \in [0 .. n -> V]
                           /\ g[0] = base
                           /\ \A k \in 0 .. n - 1 : g[k + 1] = step[<<k, g[k]>>]
           Begun == {n \in Nat : \E g : Begins(g, n)}
           Alike == {k \in Nat : \A m, n \in Nat : \A g, h :
                        /\ Begins(g, m) /\ Begins(h, n)
                        /\ k <= m /\ k <= n
                        => g[k] = h[k]}
<1>1. Begun = Nat
  <2>1. 0 \in Begun
    <3> DEFINE g == [k \in 0 .. 0 |-> base]
    <3>1. Begins(g, 0)
      OBVIOUS
    <3> QED
      BY <3>1
  <2>2. ASSUME NEW n \in Begun
        PROVE  n + 1 \in Begun
    <3>1. PICK g : Begins(g, n)
      OBVIOUS
    <3>2. n \in Nat /\ n + 1 \in Nat
      OBVIOUS
    <3> DEFINE h == [k \in 0 .. n + 1 |-> IF k <= n THEN g[k] ELSE step[<<n, g[n]>>]]
    <3>3. step[<<n, g[n]>>] \in V /\ \A k \in 0 .. n : g[k] \in V
      BY <3>1, <3>2
    <3>4. h \in [0 .. n + 1 -> V] /\ h[0] = base
      BY <3>1, <3>2, <3>3
    <3>5. ASSUME NEW k \in 0 .. n
          PROVE  h[k + 1] = step[<<k, h[k]>>]
      <4>1. CASE k = n
        <5>1. k + 1 \in 0 .. n + 1 /\ k \in 0 .. n + 1 /\ ~(k + 1 <= n) /\ k <= n
          BY <3>2, <4>1
        <5>2. h[k] = g[n] /\ h[k + 1] = step[<<n, g[n]>>]
          BY <4>1, <5>1
        <5> QED
          BY <4>1, <5>2
      <4>2. CASE k # n
        <5>1. k \in 0 .. n - 1 /\ k + 1 <= n /\ h[k] = g[k] /\ h[k + 1] = g[k + 1]
          BY <3>2, <4>2
        <5> QED
          BY <3>1, <5>1
      <4> QED
        BY <4>1, <4>2
    <3>6. Begins(h, n + 1)
      <4> HIDE DEF h
      <4>1. 0 .. (n + 1) - 1 = 0 .. n
        BY <3>2
      <4> QED
        BY <3>4, <3>5, <4>1
    <3> QED
      BY <3>2, <3>6
  <2> HIDE DEF Begun
  <2>3. Begun \in SUBSET Nat
    BY DEF Begun
  <2> QED
    BY <2>1, <2>2, <2>3, Induction
<1>2. Alike = Nat
  <2>1. 0 \in Alike
    OBVIOUS
  <2>2. ASSUME NEW k \in Alike
        PROVE  k + 1 \in Alike
    <3>1. k \in Nat /\ \A m \in Nat : k + 1 <= m => k <= m /\ k \in 0 .. m - 1
      OBVIOUS
    <3> HIDE DEF Begins
    <3>2. ASSUME NEW m \in Nat, NEW n \in Nat, NEW g, NEW h,
                 Begins(g, m), Begins(h, n), k + 1 <= m, k + 1 <= n
          PROVE  g[k + 1] = h[k + 1]
      <4>1. /\ k <= m /\ k <= n
            /\ k \in 0 .. m - 1 /\ k \in 0 .. n - 1
        BY <3>1, <3>2
      <4>2. g[k] = h[k]
        BY <3>2, <4>1
      <4>3. g[k + 1] = step[<<k, g[k]>>] /\ h[k + 1] = step[<<k, h[k]>>]
        BY <3>2, <4>1 DEF Begins
      <4> QED
        BY <4>2, <4>3
    <3>3. k + 1 \in Nat
      BY <3>1
    <3> QED
      BY <3>2, <3>3
  <2> HIDE DEF Alike
  <2>3. Alike \in SUBSET Nat
    BY DEF Alike
  <2> QED
    BY <2>1, <2>2, <2>3, Induction
<1> DEFINE g(n) == CHOOSE h : Begins(h, n)
           f == [n \in Nat |-> g(n)[n]]
<1>3. \A n \in Nat : Begins(g(n), n)
  BY <1>1
<1>4. ASSUME NEW k \in Nat, NEW n \in Nat, k <= n
      PROVE  g(n)[k] = f[k]
  <2>1. Begins(g(n), n) /\ Begins(g(k), k) /\ k \in Alike
    BY <1>2, <1>3
  <2> HIDE DEF g
  <2>2. g(n)[k] = g(k)[k]
    BY <1>4, <2>1
  <2> QED
    BY <2>2
<1> HIDE DEF g
<1>5. f \in [Nat -> V]
  BY <1>3
<1>6. f[0] = base
  BY <1>3
<1>7. ASSUME NEW n \in Nat
      PROVE  f[n + 1] = step[<<n, f[n]>>]
  <2>1. Begins(g(n + 1), n + 1) /\ n \in 0 .. (n + 1) - 1
    BY <1>3
  <2>2. g(n + 1)[n + 1] = step[<<n, g(n + 1)[n]>>]
    BY <2>1
  <2>3. g(n + 1)[n] = f[n]
    BY <1>4
  <2> QED
    BY <2>2, <2>3
<1> HIDE DEF f
<1> QED
  BY <1>5, <1>6, <1>7 DEF IsRecursive

-----------------------------------------------------------------------------
(* What is filtered out of a sequence.                                     *)

Filtering(upTo, s, kept) ==
    /\ upTo[0] = <<>>
    /\ \A n \in Nat : upTo[n + 1] =
          IF s[n + 1] \in kept THEN Append(upTo[n], s[n + 1]) ELSE upTo[n]

LEMMA FilterSteps ==
    ASSUME NEW S, NEW s \in Seq(S), NEW kept
    PROVE  \E upTo : Filter(s, kept) = upTo[Len(s)] /\ Filtering(upTo, s, kept)
<1> DEFINE V == Seq({s[n] : n \in Nat})
           step == [p \in Nat \X V |->
                       IF s[p[1] + 1] \in kept THEN Append(p[2], s[p[1] + 1])
                       ELSE p[2]]
           Body(f) == [n \in Nat |->
                          IF n = 0 THEN <<>>
                          ELSE IF s[n] \in kept THEN Append(f[n - 1], s[n])
                          ELSE f[n - 1]]
           upTo == CHOOSE f : f = Body(f)
<1>1. Filter(s, kept) = upTo[Len(s)]
  BY DEF Filter
<1>2. step \in [Nat \X V -> V] /\ <<>> \in V
  <2>1. ASSUME NEW n \in Nat, NEW t \in V
        PROVE  Append(t, s[n + 1]) \in V
    <3>1. s[n + 1] \in {s[m] : m \in Nat}
      OBVIOUS
    <3> QED
      BY <3>1, AppendProperties
  <2> HIDE DEF V
  <2>2. \A p \in Nat \X V : p[1] \in Nat /\ p[2] \in V
    OBVIOUS
  <2>3. step \in [Nat \X V -> V]
    BY <2>1, <2>2
  <2> QED
    BY <2>3 DEF V
<1> HIDE DEF V
<1>3. PICK f : IsRecursive(f, V, <<>>, step)
  <2> HIDE DEF step
  <2> QED
    BY <1>2, Recursion
<1>4. ASSUME NEW n \in Nat
      PROVE  f[n + 1] = IF s[n + 1] \in kept THEN Append(f[n], s[n + 1]) ELSE f[n]
  <2>1. <<n, f[n]>> \in Nat \X V
    BY <1>3 DEF IsRecursive
  <2>2. f[n + 1] = step[<<n, f[n]>>]
    BY <1>3 DEF IsRecursive
  <2> QED
    BY <2>1, <2>2
<1>5. f = Body(f)
  <2>1. ASSUME NEW n \in Nat
        PROVE  f[n] = Body(f)[n]
    <3>1. CASE n = 0
      BY <1>3, <3>1 DEF IsRecursive
    <3>2. CASE n # 0
      <4>1. n - 1 \in Nat /\ (n - 1) + 1 = n
        BY <3>2
      <4> QED
        BY <1>4, <3>2, <4>1
    <3> QED
      BY <3>1, <3>2
  <2>2. f = [n \in Nat |-> f[n]]
    BY <1>3 DEF IsRecursive
  <2>3. Body(f) = [n \in Nat |-> Body(f)[n]]
    OBVIOUS
  <2> HIDE DEF Body
  <2>4. [n \in Nat |-> f[n]] = [n \in Nat |-> Body(f)[n]]
    BY <2>1, Zenon
  <2> QED
    BY <2>2, <2>3, <2>4
<1>6. upTo = Body(upTo)
  BY <1>5
<1> HIDE DEF upTo
<1>7. ASSUME NEW n \in Nat
      PROVE  upTo[n] = IF n = 0 THEN <<>>
                       ELSE IF s[n] \in kept THEN Append(upTo[n - 1], s[n])
                       ELSE upTo[n - 1]
  BY <1>6
<1>8. upTo[0] = <<>>
  BY <1>7
<1>9. ASSUME NEW n \in Nat
      PROVE  upTo[n + 1] = IF s[n + 1] \in kept THEN Append(upTo[n], s[n + 1])
                           ELSE upTo[n]
  <2>1. n + 1 \in Nat /\ n + 1 # 0 /\ (n + 1) - 1 = n
    OBVIOUS
  <2> QED
    BY <1>7, <2>1
<1>10. Filtering(upTo, s, kept)
  BY <1>8, <1>9 DEF Filtering
<1> QED
  BY <1>1, <1>10

Distinct(s) == \A i, j \in 1 .. Len(s) : s[i] = s[j] => i = j

(* Only elements of the sequence are left, and none twice if none was.     *)
LEMMA FilterFacts ==
    ASSUME NEW S, NEW s \in Seq(S), NEW kept
    PROVE  LET t == Filter(s, kept) IN
           /\ t \in Seq(S)
           /\ \A i \in 1 .. Len(t) : /\ t[i] \in kept
                                     /\ \E j \in 1 .. Len(s) : t[i] = s[j]
           /\ Distinct(s) => Distinct(t)
<1>1. PICK upTo : Filter(s, kept) = upTo[Len(s)] /\ Filtering(upTo, s, kept)
  BY FilterSteps
<1> DEFINE Good(t, n) ==
              /\ t \in Seq(S)
              /\ \A i \in 1 .. Len(t) : /\ t[i] \in kept
                                        /\ \E j \in 1 .. n : t[i] = s[j]
              /\ Distinct(s) => Distinct(t)
           T == {n \in Nat : n <= Len(s) => Good(upTo[n], n)}
<1>2. 0 \in T
  <2>1. upTo[0] = <<>>
    BY <1>1 DEF Filtering
  <2>2. Good(<<>>, 0)
    BY DEF Distinct
  <2> QED
    BY <2>1, <2>2
<1>3. ASSUME NEW n \in T
      PROVE  n + 1 \in T
  <2>1. n \in Nat /\ n + 1 \in Nat /\ Len(s) \in Nat
    OBVIOUS
  <2>2. SUFFICES ASSUME n + 1 <= Len(s)
                 PROVE  Good(upTo[n + 1], n + 1)
    BY <2>1
  <2> DEFINE t == upTo[n]
             x == s[n + 1]
  <2>3. Good(t, n) /\ x \in S
    BY <2>1, <2>2
  <2>4. CASE x \notin kept
    <3>1. upTo[n + 1] = t
      BY <1>1, <2>1, <2>4 DEF Filtering
    <3> QED
      BY <2>1, <2>3, <3>1
  <2>5. CASE x \in kept
    <3>1. upTo[n + 1] = Append(t, x)
      BY <1>1, <2>1, <2>5 DEF Filtering
    <3> DEFINE u == Append(t, x)
    <3>2. /\ u \in Seq(S) /\ Len(u) = Len(t) + 1 /\ Len(t) \in Nat
          /\ u[Len(t) + 1] = x
          /\ \A i \in 1 .. Len(t) : u[i] = t[i]
      BY <2>3, AppendProperties
    <3> HIDE DEF u, t, x
    <3>3. ASSUME NEW i \in 1 .. Len(u)
          PROVE  /\ u[i] \in kept
                 /\ \E j \in 1 .. n + 1 : u[i] = s[j]
      <4>1. CASE i = Len(t) + 1
        BY <2>1, <2>5, <3>2, <4>1 DEF x
      <4>2. CASE i \in 1 .. Len(t)
        BY <2>1, <2>3, <3>2, <4>2
      <4> QED
        BY <3>2, <4>1, <4>2
    <3>4. ASSUME Distinct(s), NEW i \in 1 .. Len(u), NEW j \in 1 .. Len(u),
                 u[i] = u[j], i < j
          PROVE  FALSE
      <4>1. i \in 1 .. Len(t)
        BY <3>2, <3>4
      <4>2. CASE j \in 1 .. Len(t)
        BY <2>3, <3>2, <3>4, <4>1, <4>2 DEF Distinct
      <4>3. CASE j = Len(t) + 1
        <5>1. t[i] = x
          BY <3>2, <3>4, <4>1, <4>3
        <5>2. PICK k \in 1 .. n : t[i] = s[k]
          BY <2>3, <4>1
        <5>3. k \in 1 .. Len(s) /\ n + 1 \in 1 .. Len(s) /\ k # n + 1
          BY <2>1, <2>2
        <5> QED
          BY <3>4, <5>1, <5>2, <5>3 DEF Distinct, x
      <4> QED
        BY <3>2, <4>2, <4>3
    <3>5. Distinct(s) => Distinct(u)
      BY <3>2, <3>4 DEF Distinct
    <3> QED
      BY <3>1, <3>2, <3>3, <3>5 DEF u
  <2> QED
    BY <2>4, <2>5
<1>4. T = Nat
  <2>1. T \in SUBSET Nat
    OBVIOUS
  <2> HIDE DEF T
  <2> QED
    BY <1>2, <1>3, <2>1, Induction
<1>5. Len(s) \in Nat
  OBVIOUS
<1>6. Good(upTo[Len(s)], Len(s))
  BY <1>4, <1>5
<1> QED
  BY <1>1, <1>6

(* A part of a sequence.                                                   *)
LEMMA PartFacts ==
    ASSUME NEW S, NEW s \in Seq(S), NEW first \in Int, NEW last \in Int,
           first >= 1, last <= Len(s)
    PROVE  /\ SubSeq(s, first, last) \in Seq(S)
           /\ Len(SubSeq(s, first, last)) =
                IF first <= last THEN last - first + 1 ELSE 0
           /\ \A i \in 1 .. Len(SubSeq(s, first, last)) :
                 SubSeq(s, first, last)[i] = s[first + i - 1]
<1>1. CASE first <= last
  BY <1>1
<1>2. CASE first > last
  BY <1>2
<1> QED
  BY <1>1, <1>2

-----------------------------------------------------------------------------
(* The hub.                                                                *)

QueuesTyped ==
    /\ queues \in [Languages -> Seq(Job)]
    /\ roundRobin \in Seq(Languages)
    /\ generation \in Nat

(* A task has the fields of one, whatever they hold.                       *)
IsTask(t) ==
    t = [phase |-> t.phase, todo |-> t.todo, dead |-> t.dead,
         message |-> t.message, translate |-> t.translate]

(* The worker has a job in hand exactly while it does something.           *)
WorkerInv ==
    /\ IsTask(worker)
    /\ worker.phase \in {"none", "translating", "sending"}
    /\ inFlight \in Job \cup {NoJob}
    /\ worker.phase = "none" <=> inFlight = NoJob

(* Nothing is published without a run, and what is published is a caption. *)
PublisherInv ==
    /\ IsTask(pub)
    /\ pub.phase \in {"none", "sending"}
    /\ pub.phase = "sending" =>
         /\ pub.message.caption.unit \in Units
         /\ pub.message.caption.rev \in Nat \ {0}
         /\ pub.message.caption.final \in BOOLEAN
    /\ ~running => pub.phase = "none"

CueInv ==
    /\ era \in Nat \ {0}
    /\ born \in [Units -> Nat]
    /\ ledger \in [unit : Units \cup {NoCue}, rev : Nat]
    /\ ledger.unit # NoCue => born[ledger.unit] = era

HubInv ==
    /\ QueuesTyped /\ WorkerInv /\ PublisherInv /\ CueInv
    /\ NoLostWakeup /\ IdleMeansIdle /\ StoppedIsQuiet

-----------------------------------------------------------------------------
(* The queues keep their type.                                             *)

LEMMA RemoveAtSeq ==
    ASSUME NEW S, NEW s \in Seq(S), NEW i \in 1 .. Len(s)
    PROVE  RemoveAt(s, i) \in Seq(S)
<1> DEFINE a == SubSeq(s, 1, i - 1)
           b == SubSeq(s, i + 1, Len(s))
<1>1. a \in Seq(S) /\ b \in Seq(S)
  OBVIOUS
<1>2. RemoveAt(s, i) = a \o b
  BY DEF RemoveAt
<1> HIDE DEF a, b
<1> QED
  BY <1>1, <1>2

LEMMA CoalescedSeq ==
    ASSUME NEW queue \in Seq(Job), NEW job
    PROVE  Coalesced(queue, job) \in Seq(Job)
<1>1. CASE Matches(queue, job) = {}
  BY <1>1 DEF Coalesced
<1>2. CASE Matches(queue, job) # {}
  <2> DEFINE i == CHOOSE i \in Matches(queue, job) : TRUE
  <2>1. i \in 1 .. Len(queue)
    BY <1>2 DEF Matches
  <2>2. Coalesced(queue, job) = RemoveAt(queue, i)
    BY <1>2 DEF Coalesced
  <2> HIDE DEF i
  <2> QED
    BY <2>1, <2>2, RemoveAtSeq
<1> QED
  BY <1>1, <1>2

LEMMA AcceptTyped ==
    ASSUME QueuesTyped, NEW job \in Job, NEW queue \in Seq(Job),
           Accept(queue, job), generation' = generation
    PROVE  QueuesTyped'
<1>1. job.lang \in Languages
  BY DEF Job
<1>2. Append(queue, job) \in Seq(Job) /\ Append(roundRobin, job.lang) \in Seq(Languages)
  BY <1>1, AppendProperties DEF QueuesTyped
<1>3. queues' = [queues EXCEPT ![job.lang] = Append(queue, job)]
      /\ roundRobin' \in {roundRobin, Append(roundRobin, job.lang)}
  BY DEF Accept
<1> QED
  BY <1>1, <1>2, <1>3 DEF QueuesTyped

LEMMA EnqueueTyped ==
    ASSUME QueuesTyped, NEW job \in Job, Enqueue(job)
    PROVE  QueuesTyped'
<1> DEFINE queue == Coalesced(queues[job.lang], job)
<1>1. job.lang \in Languages
  BY DEF Job
<1>2. queue \in Seq(Job)
  BY <1>1, CoalescedSeq DEF QueuesTyped
<1>3. generation' = generation
  BY DEF Enqueue
<1>4. CASE EnqueueWithRoom(job) \/ EnqueueOverCapacity(job)
  <2>1. Accept(queue, job)
    BY <1>4 DEF EnqueueWithRoom, EnqueueOverCapacity
  <2> HIDE DEF queue
  <2> QED
    BY <1>2, <1>3, <2>1, AcceptTyped
<1>5. CASE EnqueueDroppingDraft(job)
  <2>1. PICK i \in Drafts(queue) : Accept(RemoveAt(queue, i), job)
    BY <1>5 DEF EnqueueDroppingDraft
  <2>2. i \in 1 .. Len(queue)
    BY DEF Drafts
  <2> HIDE DEF queue
  <2>3. RemoveAt(queue, i) \in Seq(Job)
    BY <1>2, <2>2, RemoveAtSeq
  <2> QED
    BY <1>3, <2>1, <2>3, AcceptTyped
<1>6. CASE RejectDraft(job)
  <2>1. queues' = [queues EXCEPT ![job.lang] = queue] /\ roundRobin' = roundRobin
    BY <1>6 DEF RejectDraft
  <2> HIDE DEF queue
  <2> QED
    BY <1>1, <1>2, <1>3, <2>1 DEF QueuesTyped
<1> QED
  BY <1>4, <1>5, <1>6 DEF Enqueue

LEMMA PopTyped ==
    ASSUME QueuesTyped, NEW i \in 1 .. Len(roundRobin), IsNextTurn(i), PopAt(i)
    PROVE  QueuesTyped' /\ Head(queues[roundRobin[i]]) \in Job
<1> DEFINE lang == roundRobin[i]
           rest == Tail(queues[lang])
           others == SubSeq(roundRobin, i + 1, Len(roundRobin))
<1>1. lang \in Languages /\ roundRobin \in Seq(Languages)
  BY ElementOfSeq DEF QueuesTyped
<1>2. queues[lang] \in Seq(Job) /\ queues[lang] # <<>>
  BY <1>1 DEF QueuesTyped, IsNextTurn
<1>3. rest \in Seq(Job) /\ Head(queues[lang]) \in Job
  BY <1>2, HeadTailProperties
<1>4. others \in Seq(Languages)
  BY <1>1
<1>5. /\ queues' = [queues EXCEPT ![lang] = rest]
      /\ roundRobin' \in {others, Append(others, lang)}
      /\ generation' = generation
  BY DEF PopAt
<1> HIDE DEF rest, others
<1>6. Append(others, lang) \in Seq(Languages)
  BY <1>1, <1>4, AppendProperties
<1> HIDE DEF lang
<1>7. QueuesTyped'
  BY <1>1, <1>3, <1>4, <1>5, <1>6 DEF QueuesTyped
<1> QED
  BY <1>3, <1>7 DEF lang

LEMMA ClearTyped ==
    ASSUME QueuesTyped, ClearScheduler
    PROVE  QueuesTyped' /\ ~HasJobs'
  BY DEF QueuesTyped, ClearScheduler, HasJobs

LEMMA SchedulerSame ==
    ASSUME UNCHANGED schedulerVars
    PROVE  (HasJobs' <=> HasJobs) /\ (QueuesTyped => QueuesTyped')
  BY DEF schedulerVars, HasJobs, QueuesTyped

-----------------------------------------------------------------------------
(* Tasks.                                                                  *)

LEMMA NoTaskFacts == IsTask(NoTask) /\ NoTask.phase = "none"
  BY DEF IsTask, NoTask

LEMMA AfterSendFacts ==
    ASSUME NEW t, IsTask(t)
    PROVE  /\ IsTask(AfterSend(t))
           /\ AfterSend(t).phase = t.phase /\ AfterSend(t).message = t.message
<1>1. PICK p, q, d, m, b :
        t = [phase |-> p, todo |-> q, dead |-> d, message |-> m, translate |-> b]
  BY DEF IsTask
<1> DEFINE e == IF Head(q) \in broken THEN d \cup {Head(q)} ELSE d
           f == Tail(q)
<1>2. t.todo = q /\ t.dead = d
  BY <1>1
<1>3. AfterSend(t) = [t EXCEPT !.todo = f, !.dead = e]
  BY <1>2, Zenon DEF AfterSend
<1> HIDE DEF e, f
<1>4. AfterSend(t) = [phase |-> p, todo |-> f, dead |-> e, message |-> m,
                      translate |-> b]
  BY <1>1, <1>3
<1> QED
  BY <1>1, <1>4 DEF IsTask

LEMMA SendingFacts ==
    ASSUME NEW to, NEW message
    PROVE  /\ IsTask(Sending(to, message))
           /\ Sending(to, message).phase = "sending"
           /\ Sending(to, message).message = message
  BY DEF IsTask, Sending

(* The worker's loop: it leaves work behind only while it goes on.         *)
LEMMA LoopFacts ==
    ASSUME QueuesTyped, NEW cs, RunLoop(cs)
    PROVE  /\ QueuesTyped' /\ WorkerInv'
           /\ HasJobs' => worker'.phase # "none"
           /\ \/ ~Outstanding' /\ idle' = TRUE
              \/ HasJobs /\ idle' = idle
<1>1. CASE ~HasJobs /\ Rest /\ UNCHANGED schedulerVars
  <2>1. worker' = NoTask /\ inFlight' = NoJob /\ idle' = TRUE
    BY <1>1 DEF Rest
  <2> QED
    BY <1>1, <2>1, SchedulerSame, NoTaskFacts DEF WorkerInv, Outstanding
<1>2. CASE /\ HasJobs
           /\ \E i \in 1 .. Len(roundRobin) :
                /\ IsNextTurn(i)
                /\ inFlight' = Head(queues[roundRobin[i]])
                /\ PopAt(i)
           /\ worker' = [NoTask EXCEPT !.phase = "translating"]
           /\ idle' = idle
  <2>1. QueuesTyped' /\ inFlight' \in Job
    BY <1>2, PopTyped
  <2>2. IsTask(worker') /\ worker'.phase = "translating"
    BY <1>2 DEF NoTask, IsTask
  <2>3. NoJob \notin Job
    BY HubAssumption
  <2> QED
    BY <1>2, <2>1, <2>2, <2>3 DEF WorkerInv, IsTask
<1>3. CASE /\ queues' = [lang \in Languages |-> <<>>]
           /\ roundRobin' = <<>> /\ Rest /\ generation' = generation
  <2>1. worker' = NoTask /\ inFlight' = NoJob /\ idle' = TRUE
    BY <1>3 DEF Rest
  <2>2. ~HasJobs' /\ QueuesTyped'
    BY <1>3 DEF HasJobs, QueuesTyped
  <2> QED
    BY <2>1, <2>2, NoTaskFacts DEF WorkerInv, Outstanding
<1> QED
  BY <1>1, <1>2, <1>3 DEF RunLoop

-----------------------------------------------------------------------------
(* The steps of the worker.                                                *)

(* The loop goes on, and what the worker did before leaves the rest alone. *)
LEMMA LoopStep ==
    ASSUME HubInv, NEW cs, RunLoop(cs),
           UNCHANGED <<ledger, era, born, running, pub, drain>>
    PROVE  HubInv'
<1>1. /\ QueuesTyped' /\ WorkerInv'
      /\ HasJobs' => worker'.phase # "none"
      /\ \/ ~Outstanding' /\ idle' = TRUE
         \/ HasJobs /\ idle' = idle
  BY LoopFacts DEF HubInv
<1>2. PublisherInv' /\ CueInv'
  BY DEF HubInv, PublisherInv, CueInv, IsTask
<1>3. NoLostWakeup'
  BY <1>1 DEF NoLostWakeup
<1>4. HasJobs => ~idle
  BY DEF HubInv, IdleMeansIdle, Outstanding
<1>5. IdleMeansIdle'
  BY <1>1, <1>4 DEF IdleMeansIdle
<1>6. (~running' /\ drain' = "done") => ~HasJobs
  BY DEF HubInv, StoppedIsQuiet, Outstanding
<1>7. StoppedIsQuiet'
  BY <1>1, <1>6 DEF StoppedIsQuiet
<1> QED
  BY <1>1, <1>2, <1>3, <1>5, <1>7 DEF HubInv

(* It sends its message on: the job stays in hand.                         *)
LEMMA SendStep ==
    ASSUME HubInv, inFlight # NoJob, IsTask(worker'), worker'.phase = "sending",
           UNCHANGED <<schedulerVars, inFlight, awake, idle, ledger, era, born,
                       running, pub, drain>>
    PROVE  HubInv'
<1>1. QueuesTyped' /\ (HasJobs' <=> HasJobs)
  BY SchedulerSame DEF HubInv
<1>2. WorkerInv' /\ (Outstanding' <=> Outstanding)
  BY <1>1 DEF HubInv, WorkerInv, Outstanding, IsTask
<1>3. PublisherInv' /\ CueInv'
  BY DEF HubInv, PublisherInv, CueInv, IsTask
<1>4. NoLostWakeup'
  BY DEF NoLostWakeup
<1>5. IdleMeansIdle' /\ StoppedIsQuiet'
  BY <1>2 DEF HubInv, IdleMeansIdle, StoppedIsQuiet
<1> QED
  BY <1>1, <1>2, <1>3, <1>4, <1>5 DEF HubInv

LEMMA WorkerStep ==
    ASSUME HubInv, Worker
    PROVE  HubInv'
<1>0. IsTask(worker) /\ (worker.phase # "none" => inFlight # NoJob)
  BY DEF HubInv, WorkerInv
<1>1. CASE WorkerWake
  BY <1>1, LoopStep DEF WorkerWake, privacyVars
<1>2. CASE WorkerTranslated
  <2>1. CASE RunLoop(clients)
    BY <1>2, <2>1, LoopStep DEF WorkerTranslated, privacyVars
  <2>2. CASE /\ \E to, message : worker' = AfterSend(Sending(to, message))
             /\ UNCHANGED <<schedulerVars, inFlight, idle>>
    <3>1. IsTask(worker') /\ worker'.phase = "sending"
      BY <2>2, SendingFacts, AfterSendFacts
    <3> QED
      BY <1>0, <1>2, <2>2, <3>1, SendStep DEF WorkerTranslated, privacyVars
  <2> QED
    BY <1>2, <2>1, <2>2 DEF WorkerTranslated
<1>3. CASE WorkerSend
  <2>1. IsTask(worker') /\ worker'.phase = "sending"
    BY <1>0, <1>3, AfterSendFacts DEF WorkerSend
  <2> QED
    BY <1>0, <1>3, <2>1, SendStep DEF WorkerSend, privacyVars
<1>4. CASE WorkerFinish
  BY <1>4, LoopStep DEF WorkerFinish, privacyVars
<1> QED
  BY <1>1, <1>2, <1>3, <1>4 DEF Worker

-----------------------------------------------------------------------------
(* The steps of the publisher.                                             *)

(* Whatever leaves the queues, the worker and Stop alone.                  *)
LEMMA RestSame ==
    ASSUME HubInv, PublisherInv', CueInv',
           UNCHANGED <<schedulerVars, workerVars, running, drain>>
    PROVE  HubInv'
<1>1. QueuesTyped' /\ (HasJobs' <=> HasJobs)
  BY SchedulerSame DEF HubInv
<1>2. WorkerInv' /\ (Outstanding' <=> Outstanding)
  BY <1>1 DEF HubInv, WorkerInv, Outstanding, IsTask, workerVars
<1>3. NoLostWakeup' /\ IdleMeansIdle' /\ StoppedIsQuiet'
  BY <1>1, <1>2
    DEF HubInv, NoLostWakeup, IdleMeansIdle, StoppedIsQuiet, workerVars
<1> QED
  BY <1>1, <1>2, <1>3 DEF HubInv

LEMMA PublishSegmentStep ==
    ASSUME HubInv, NEW unit \in Units, NEW final \in BOOLEAN,
           PublishSegment(unit, final)
    PROVE  HubInv'
<1> DEFINE rev == NextRevision(unit)
           caption == [unit |-> unit, rev |-> rev, final |-> final]
           send == Sending(GroupedByLanguage(clients), Message("caption", caption))
<1>1. CueInv /\ PublisherInv
  BY DEF HubInv
<1>2. rev \in Nat \ {0}
  BY <1>1 DEF CueInv, NextRevision
<1>3. unit # NoCue /\ NoCue \notin Units
  BY HubAssumption
<1>4. pub' = pub \/ pub' = AfterSend(send)
  BY DEF PublishSegment
<1>5. running /\ running' = running /\ pub.phase = "none"
  BY DEF PublishSegment
<1>6. PublisherInv'
  <2>1. CASE pub' = pub
    BY <1>1, <1>5, <2>1 DEF PublisherInv, IsTask
  <2>2. CASE pub' = AfterSend(send)
    <3>1. /\ IsTask(pub') /\ pub'.phase = "sending"
          /\ pub'.message = Message("caption", caption)
      BY <2>2, SendingFacts, AfterSendFacts
    <3>2. Message("caption", caption).caption = caption
      BY DEF Message
    <3> QED
      BY <1>2, <1>5, <3>1, <3>2 DEF PublisherInv, IsTask
  <2> QED
    BY <1>4, <2>1, <2>2
<1>7. CueInv'
  <2>1. /\ era' = era
        /\ born' = [born EXCEPT ![unit] = IF @ = 0 THEN era ELSE @]
        /\ \/ ledger' = [unit |-> NoCue, rev |-> 0]
           \/ ledger' = [unit |-> unit, rev |-> rev]
        /\ unit = ledger.unit \/ born[unit] = 0
    BY DEF PublishSegment, MayRevise
  <2>2. era \in Nat \ {0} /\ born \in [Units -> Nat]
        /\ (ledger.unit # NoCue => born[ledger.unit] = era)
    BY <1>1 DEF CueInv
  <2>3. born' \in [Units -> Nat] /\ born'[unit] = era
    BY <1>3, <2>1, <2>2
  <2>4. ledger' \in [unit : Units \cup {NoCue}, rev : Nat]
        /\ ledger'.unit \in {NoCue, unit}
    <3> HIDE DEF rev
    <3> QED
      BY <1>2, <2>1
  <2> QED
    BY <2>1, <2>2, <2>3, <2>4 DEF CueInv
<1> QED
  BY <1>6, <1>7, RestSame DEF PublishSegment

LEMMA PublishQueueStep ==
    ASSUME HubInv, PublishQueue
    PROVE  HubInv'
<1> DEFINE caption == pub.message.caption
           job == [lang |-> Target, unit |-> caption.unit, rev |-> caption.rev,
                   final |-> caption.final, gen |-> generation]
<1>1. PublisherInv /\ pub.phase = "sending" /\ QueuesTyped /\ running
  BY DEF HubInv, PublishQueue, PublisherInv
<1>2. PublisherInv'
  <2>1. pub' = NoTask
    BY DEF PublishQueue
  <2> QED
    BY <2>1, NoTaskFacts DEF PublisherInv
<1>3. CueInv'
  BY DEF PublishQueue, HubInv, CueInv, privacyVars
<1>4. CASE UNCHANGED <<schedulerVars, awake, idle>>
  BY <1>2, <1>3, <1>4, RestSame DEF PublishQueue, workerVars
<1>5. CASE QueueTranslation(caption)
  <2>1. Enqueue(job) /\ awake' = TRUE /\ idle' = FALSE
    BY <1>5 DEF QueueTranslation
  <2>2. job \in Job
    <3>1. Target \in Languages /\ generation \in Nat
      BY <1>1, HubAssumption DEF QueuesTyped
    <3>2. /\ caption.unit \in Units /\ caption.rev \in Nat \ {0}
          /\ caption.final \in BOOLEAN
      BY <1>1 DEF PublisherInv
    <3> HIDE DEF caption
    <3> QED
      BY <3>1, <3>2 DEF Job
  <2> HIDE DEF job
  <2>3. QueuesTyped'
    BY <1>1, <2>1, <2>2, EnqueueTyped
  <2>4. WorkerInv'
    BY DEF PublishQueue, HubInv, WorkerInv, IsTask
  <2>5. NoLostWakeup' /\ IdleMeansIdle'
    BY <2>1 DEF NoLostWakeup, IdleMeansIdle
  <2>6. running'
    BY <1>1 DEF PublishQueue
  <2>7. StoppedIsQuiet'
    BY <2>6 DEF StoppedIsQuiet
  <2> QED
    BY <1>2, <1>3, <2>3, <2>4, <2>5, <2>7 DEF HubInv
<1> QED
  BY <1>4, <1>5 DEF PublishQueue

LEMMA PublishSendStep ==
    ASSUME HubInv, PublishSend
    PROVE  HubInv'
<1>1. PublisherInv /\ CueInv
  BY DEF HubInv
<1>2. pub' = AfterSend(pub) /\ running' = running
  BY DEF PublishSend
<1>3. IsTask(pub') /\ pub'.phase = pub.phase /\ pub'.message = pub.message
  BY <1>1, <1>2, AfterSendFacts DEF PublisherInv
<1>4. PublisherInv'
  BY <1>1, <1>2, <1>3 DEF PublisherInv, IsTask
<1>5. CueInv'
  BY <1>1 DEF PublishSend, CueInv, privacyVars
<1> QED
  BY <1>4, <1>5, RestSame DEF PublishSend

-----------------------------------------------------------------------------
(* The steps of the operator and the audience.                             *)

(* A blank, a resume or a clear empties the queues and closes the cue.     *)
LEMMA EraseStep ==
    ASSUME HubInv, EraseCueState, UNCHANGED <<born, running, pub, workerVars, drain>>
    PROVE  HubInv'
<1>1. QueuesTyped' /\ ~HasJobs'
  BY ClearTyped DEF HubInv, EraseCueState
<1>2. WorkerInv' /\ PublisherInv'
  BY DEF HubInv, WorkerInv, PublisherInv, IsTask, workerVars
<1>3. CueInv'
  <2>1. CueInv /\ ledger' = [unit |-> NoCue, rev |-> 0] /\ era' = era + 1
        /\ born' = born
    BY DEF HubInv, EraseCueState
  <2> QED
    BY <2>1 DEF CueInv
<1>4. Outstanding' => Outstanding
  BY <1>1 DEF Outstanding, workerVars
<1>5. NoLostWakeup' /\ IdleMeansIdle' /\ StoppedIsQuiet'
  BY <1>1, <1>4
    DEF HubInv, NoLostWakeup, IdleMeansIdle, StoppedIsQuiet, workerVars
<1> QED
  BY <1>1, <1>2, <1>3, <1>5 DEF HubInv

LEMMA QuietStep ==
    ASSUME HubInv,
           UNCHANGED <<schedulerVars, ledger, era, born, running, pub,
                       workerVars, drain>>
    PROVE  HubInv'
<1>1. PublisherInv' /\ CueInv'
  BY DEF HubInv, PublisherInv, CueInv, IsTask
<1> QED
  BY <1>1, RestSame

LEMMA StopStep ==
    ASSUME HubInv, Stop
    PROVE  HubInv'
<1>1. /\ UNCHANGED <<schedulerVars, privacyVars, worker, inFlight>>
      /\ running' = FALSE /\ pub' = NoTask
      /\ Outstanding => drain' = "waiting" /\ idle' = FALSE
      /\ ~Outstanding => idle' = idle
  BY DEF Stop
<1>2. awake => awake'
  <2>1. awake' = (awake \/ HasJobs) \/ awake' = awake
    BY DEF Stop
  <2> QED
    BY <2>1, Zenon
<1>3. QueuesTyped' /\ (HasJobs' <=> HasJobs) /\ (Outstanding' <=> Outstanding)
  BY <1>1, SchedulerSame DEF HubInv, Outstanding
<1>4. WorkerInv' /\ PublisherInv' /\ CueInv'
  BY <1>1, NoTaskFacts
    DEF HubInv, WorkerInv, PublisherInv, CueInv, IsTask, privacyVars
<1>5. NoLostWakeup'
  BY <1>1, <1>2, <1>3 DEF HubInv, NoLostWakeup
<1>6. IdleMeansIdle'
  BY <1>1, <1>3 DEF HubInv, IdleMeansIdle
<1>7. StoppedIsQuiet'
  BY <1>1, <1>3 DEF StoppedIsQuiet
<1> QED
  BY <1>3, <1>4, <1>5, <1>6, <1>7 DEF HubInv

LEMMA DrainStep ==
    ASSUME HubInv, StopAgain \/ DrainDone \/ Start
    PROVE  HubInv'
<1>1. UNCHANGED <<schedulerVars, privacyVars, pub, workerVars>>
      /\ (running => running')
  BY DEF StopAgain, DrainDone, Start
<1>2. QueuesTyped' /\ (HasJobs' <=> HasJobs) /\ (Outstanding' <=> Outstanding)
  BY <1>1, SchedulerSame DEF HubInv, Outstanding, workerVars
<1>3. WorkerInv' /\ PublisherInv' /\ CueInv'
  BY <1>1 DEF HubInv, WorkerInv, PublisherInv, CueInv, IsTask, privacyVars,
              workerVars
<1>4. NoLostWakeup' /\ IdleMeansIdle'
  BY <1>1, <1>2 DEF HubInv, NoLostWakeup, IdleMeansIdle, workerVars
<1>5. StoppedIsQuiet'
  BY <1>2 DEF StopAgain, DrainDone, Start, StoppedIsQuiet
<1> QED
  BY <1>2, <1>3, <1>4, <1>5 DEF HubInv

LEMMA DrainTimeoutStep ==
    ASSUME HubInv, DrainTimeout
    PROVE  HubInv'
<1>1. /\ ClearScheduler /\ inFlight' = NoJob /\ worker' = NoTask
      /\ idle' = FALSE /\ UNCHANGED <<privacyVars, running, pub>>
  BY DEF DrainTimeout
<1>2. QueuesTyped' /\ ~HasJobs'
  BY <1>1, ClearTyped DEF HubInv
<1>3. ~Outstanding'
  BY <1>1, <1>2 DEF Outstanding
<1>4. WorkerInv' /\ PublisherInv' /\ CueInv'
  BY <1>1, NoTaskFacts
    DEF HubInv, WorkerInv, PublisherInv, CueInv, IsTask, privacyVars
<1> QED
  BY <1>2, <1>3, <1>4 DEF HubInv, NoLostWakeup, IdleMeansIdle, StoppedIsQuiet

-----------------------------------------------------------------------------
(* The theorems.                                                           *)

LEMMA HubInit == Init => HubInv
<1> SUFFICES ASSUME Init
             PROVE  HubInv
  OBVIOUS
<1>1. /\ queues = [lang \in Languages |-> <<>>] /\ roundRobin = <<>>
      /\ generation = 0
  BY DEF Init, SchedulerInit
<1>2. QueuesTyped /\ ~HasJobs
  BY <1>1 DEF QueuesTyped, HasJobs
<1>3. ~Outstanding
  BY <1>2 DEF Init, Outstanding
<1>4. WorkerInv /\ PublisherInv
  BY NoTaskFacts DEF Init, WorkerInv, PublisherInv
<1>5. CueInv
  BY DEF Init, CueInv
<1> QED
  BY <1>2, <1>3, <1>4, <1>5
    DEF HubInv, NoLostWakeup, IdleMeansIdle, StoppedIsQuiet

LEMMA HubNext == HubInv /\ [Next]_vars => HubInv'
<1> SUFFICES ASSUME HubInv, [Next]_vars
             PROVE  HubInv'
  OBVIOUS
<1>1. CASE Worker
  BY <1>1, WorkerStep
<1>2. CASE Publisher
  BY <1>2, PublishSegmentStep, PublishSendStep, PublishQueueStep DEF Publisher
<1>3. CASE Operator
  <2>1. CASE \E k \in Requests : (\E enabled \in BOOLEAN : SetSensitive(k, enabled))
                                 \/ ClearCaptions(k)
    BY <2>1, EraseStep DEF SetSensitive, ClearCaptions
  <2>2. CASE \E k \in Requests : NoticeSend(k) \/ NoticeEnd(k)
    BY <2>2, QuietStep DEF NoticeSend, NoticeEnd, privacyVars
  <2>3. CASE ResumeWindowEnds
    BY <2>3, QuietStep DEF ResumeWindowEnds
  <2> QED
    BY <1>3, <2>1, <2>2, <2>3, StopStep, DrainStep, DrainTimeoutStep
      DEF Operator
<1>4. CASE Audience
  <2>1. PICK c \in Clients : Connect(c) \/ Break(c) \/ Disconnect(c)
    BY <1>4 DEF Audience
  <2> QED
    BY <2>1, QuietStep DEF Connect, Break, Disconnect, privacyVars
<1>5. CASE UNCHANGED vars
  BY <1>5, QuietStep DEF vars, privacyVars
<1> QED
  BY <1>1, <1>2, <1>3, <1>4, <1>5 DEF Next

LEMMA HubCorrect == Spec => []HubInv
  BY HubInit, HubNext, PTL DEF Spec

(* A queued translation never waits for a wakeup that does not come,       *)
(* however enqueueing, clearing, skipping, draining and cancelling         *)
(* interleave (_translation_worker_loop and its event).                    *)
THEOREM WakeupsKept == Spec => []NoLostWakeup
<1>1. HubInv => NoLostWakeup
  BY DEF HubInv
<1> QED
  BY <1>1, HubCorrect, PTL

(* The idle event that drain_translation_work waits for is never set while *)
(* a translation is queued or in flight.                                   *)
THEOREM IdleEventTrue == Spec => []IdleMeansIdle
<1>1. HubInv => IdleMeansIdle
  BY DEF HubInv
<1> QED
  BY <1>1, HubCorrect, PTL

(* Once a Stop that was not cut short has returned, no translation is left *)
(* that could reach the audience (drain_translation_work).                 *)
THEOREM QuietAfterStop == Spec => []StoppedIsQuiet
<1>1. HubInv => StoppedIsQuiet
  BY DEF HubInv
<1> QED
  BY <1>1, HubCorrect, PTL

(* The cue that publish revises was opened after the last blank, resume or *)
(* clear (set_sensitive_mode, clear and SourceUnitBuilder.reset).          *)
THEOREM ErasedCueStaysClosed == Spec => []FreshCueAfterErase
<1>1. HubInv => FreshCueAfterErase
  BY DEF HubInv, CueInv, FreshCueAfterErase
<1> QED
  BY <1>1, HubCorrect, PTL

-----------------------------------------------------------------------------
(* The order of translations.                                              *)

(* Revision r of cue unit was published before the one that is being       *)
(* published, and the ledger is not behind it.                             *)
Behind(unit, r) ==
    /\ born[unit] # 0
    /\ pub.phase = "sending" /\ pub.message.caption.unit = unit
         => r < pub.message.caption.rev
    /\ ledger.unit = unit => r <= ledger.rev

BehindQueue(queue, unit, r) ==
    \A i \in 1 .. Len(queue) : queue[i].unit = unit => r < queue[i].rev

InOrder(queue) ==
    \A i, j \in 1 .. Len(queue) :
        i < j /\ queue[i].unit = queue[j].unit => queue[i].rev < queue[j].rev

(* A connection is listed once, and was sent something.                    *)
AudienceInv ==
    /\ clients \in Seq(Clients) /\ Distinct(clients)
    /\ received = [c \in Clients |-> received[c]]
    /\ \A i \in 1 .. Len(clients) : received[clients[i]].kind # "absent"

(* Only the worker sends translations.                                     *)
CurrentInv ==
    /\ current = Message(current.kind, current.caption)
    /\ current.kind \notin {"translation", "absent"}

NoticesInv ==
    /\ notices = [k \in Requests |-> notices[k]]
    /\ \A k \in Requests :
          /\ IsTask(notices[k])
          /\ notices[k].phase = "sending" =>
                notices[k].message.kind \notin {"translation", "absent"}

PublishedInv ==
    pub.phase = "sending" =>
       /\ pub.message.kind = "caption"
       /\ born[pub.message.caption.unit] # 0
       /\ ledger.unit = pub.message.caption.unit =>
             pub.message.caption.rev <= ledger.rev

SendersInv == CurrentInv /\ NoticesInv /\ PublishedInv

QueueInv ==
    LET queue == queues[Target] IN
    /\ \A i \in 1 .. Len(queue) : Behind(queue[i].unit, queue[i].rev)
    /\ InOrder(queue)

(* The job in hand is older than what is queued, and the worker sends its  *)
(* translation to each viewer once.                                        *)
InHandInv ==
    /\ inFlight # NoJob =>
          /\ Behind(inFlight.unit, inFlight.rev)
          /\ BehindQueue(queues[Target], inFlight.unit, inFlight.rev)
    /\ worker.phase = "sending" =>
          /\ worker.todo \in Seq(Clients) /\ Distinct(worker.todo)
          /\ \/ worker.message = Blank
             \/ worker.message = Message("translation",
                   [unit |-> inFlight.unit, rev |-> inFlight.rev,
                    final |-> inFlight.final])

StillToSend(c) ==
    \/ worker.phase = "translating"
    \/ worker.phase = "sending" /\ \E i \in 1 .. Len(worker.todo) : worker.todo[i] = c

WasSent(c, unit, r) ==
    /\ received[c].kind = "translation"
    /\ received[c].caption.unit = unit /\ received[c].caption.rev = r

(* What a viewer was sent is older than all it will be sent of that cue.   *)
SentInv ==
    /\ \A c \in Clients :
          received[c].kind = "translation" =>
             received[c].caption.unit \in Units /\ received[c].caption.rev \in Nat
    /\ \A c \in Clients, unit \in Units, r \in Nat :
          WasSent(c, unit, r) =>
             /\ Behind(unit, r)
             /\ BehindQueue(queues[Target], unit, r)
             /\ inFlight # NoJob /\ inFlight.unit = unit =>
                   /\ r <= inFlight.rev
                   /\ StillToSend(c) => r < inFlight.rev

OrderInv == AudienceInv /\ SendersInv /\ QueueInv /\ InHandInv /\ SentInv

(* What a step may never do to a viewer.                                   *)
StepInOrder ==
    \A c \in Clients :
       LET before == received[c]
           after == received'[c]
       IN  /\ before # after
           /\ before.kind = "translation" /\ after.kind = "translation"
           /\ before.caption.unit = after.caption.unit
           => before.caption.rev < after.caption.rev

-----------------------------------------------------------------------------
(* Queues in order.                                                        *)

(* One after the other in the one is one after the other in the other.     *)
KeepsOrder(t, s) ==
    /\ \A i \in 1 .. Len(t) : \E j \in 1 .. Len(s) : t[i] = s[j]
    /\ InOrder(s) => InOrder(t)

LEMMA RemoveAtOrder ==
    ASSUME NEW s \in Seq(Job), NEW i \in 1 .. Len(s)
    PROVE  KeepsOrder(RemoveAt(s, i), s)
<1> DEFINE a == SubSeq(s, 1, i - 1)
           b == SubSeq(s, i + 1, Len(s))
           t == RemoveAt(s, i)
<1>1. Len(s) \in Nat /\ i \in Nat /\ i >= 1 /\ i <= Len(s)
  OBVIOUS
<1>2. /\ a \in Seq(Job) /\ Len(a) = i - 1
      /\ \A k \in 1 .. i - 1 : a[k] = s[k]
  <2>1. 1 \in Int /\ i - 1 \in Int /\ i - 1 <= Len(s)
    BY <1>1
  <2>2. /\ a \in Seq(Job) /\ Len(a) = IF 1 <= i - 1 THEN (i - 1) - 1 + 1 ELSE 0
        /\ \A k \in 1 .. Len(a) : a[k] = s[1 + k - 1]
    BY <2>1, PartFacts
  <2> HIDE DEF a
  <2>3. Len(a) = i - 1
    BY <1>1, <2>2
  <2>4. \A k \in 1 .. i - 1 : 1 + k - 1 = k
    BY <1>1
  <2> QED
    BY <2>2, <2>3, <2>4
<1>3. /\ b \in Seq(Job) /\ Len(b) = Len(s) - i
      /\ \A k \in 1 .. Len(s) - i : b[k] = s[i + k]
  <2>1. i + 1 \in Int /\ Len(s) \in Int /\ i + 1 >= 1
    BY <1>1
  <2>2. /\ b \in Seq(Job) /\ Len(b) = IF i + 1 <= Len(s) THEN Len(s) - (i + 1) + 1 ELSE 0
        /\ \A k \in 1 .. Len(b) : b[k] = s[(i + 1) + k - 1]
    BY <2>1, PartFacts
  <2> HIDE DEF b
  <2>3. Len(b) = Len(s) - i
    BY <1>1, <2>2
  <2>4. \A k \in 1 .. Len(s) - i : (i + 1) + k - 1 = i + k
    BY <1>1
  <2> QED
    BY <2>2, <2>3, <2>4
<1>4. t = a \o b
  BY DEF RemoveAt
<1> HIDE DEF a, b, t
<1>5. /\ Len(t) = Len(s) - 1
      /\ \A k \in 1 .. Len(s) - 1 : t[k] = IF k < i THEN s[k] ELSE s[k + 1]
  <2>1. /\ Len(t) = Len(a) + Len(b)
        /\ \A k \in 1 .. Len(a) + Len(b) :
              t[k] = IF k <= Len(a) THEN a[k] ELSE b[k - Len(a)]
    BY <1>2, <1>3, <1>4, ConcatProperties
  <2>2. Len(t) = Len(s) - 1 /\ Len(a) + Len(b) = Len(s) - 1
    BY <1>1, <1>2, <1>3, <2>1
  <2>3. ASSUME NEW k \in 1 .. Len(s) - 1
        PROVE  t[k] = IF k < i THEN s[k] ELSE s[k + 1]
    <3>1. CASE k < i
      <4>1. k <= Len(a) /\ k \in 1 .. i - 1
        BY <1>1, <1>2, <3>1
      <4> QED
        BY <1>2, <2>1, <2>2, <3>1, <4>1
    <3>2. CASE ~(k < i)
      <4>1. ~(k <= Len(a)) /\ k - Len(a) = k - i + 1 /\ k - i + 1 \in 1 .. Len(s) - i
            /\ i + (k - i + 1) = k + 1
        BY <1>1, <1>2, <3>2
      <4> QED
        BY <1>3, <2>1, <2>2, <3>2, <4>1
    <3> QED
      BY <3>1, <3>2
  <2> QED
    BY <2>2, <2>3
<1> DEFINE At(k) == IF k < i THEN k ELSE k + 1
<1>6. \A k \in 1 .. Len(t) : At(k) \in 1 .. Len(s) /\ t[k] = s[At(k)]
  BY <1>1, <1>5
<1>7. \A k, l \in 1 .. Len(t) : k < l => At(k) < At(l)
  BY <1>1, <1>5
<1> HIDE DEF At
<1>8. \A k \in 1 .. Len(t) : \E j \in 1 .. Len(s) : t[k] = s[j]
  BY <1>6
<1>9. InOrder(s) => InOrder(t)
  BY <1>6, <1>7 DEF InOrder
<1> QED
  BY <1>8, <1>9 DEF KeepsOrder, t

LEMMA AppendOrder ==
    ASSUME NEW s \in Seq(Job), NEW job \in Job, InOrder(s),
           \A i \in 1 .. Len(s) : s[i].unit = job.unit => s[i].rev < job.rev
    PROVE  /\ InOrder(Append(s, job))
           /\ \A i \in 1 .. Len(Append(s, job)) :
                 Append(s, job)[i] = job \/ \E j \in 1 .. Len(s) : Append(s, job)[i] = s[j]
<1> DEFINE t == Append(s, job)
<1>1. /\ Len(s) \in Nat /\ Len(t) = Len(s) + 1 /\ t[Len(s) + 1] = job
      /\ \A i \in 1 .. Len(s) : t[i] = s[i]
  BY AppendProperties
<1> HIDE DEF t
<1>2. \A i \in 1 .. Len(t) : i \in 1 .. Len(s) \/ i = Len(s) + 1
  BY <1>1
<1>3. ASSUME NEW i \in 1 .. Len(t), NEW j \in 1 .. Len(t), i < j, t[i].unit = t[j].unit
      PROVE  t[i].rev < t[j].rev
  <2>1. i \in 1 .. Len(s)
    BY <1>1, <1>3
  <2>2. CASE j \in 1 .. Len(s)
    BY <1>1, <1>3, <2>1, <2>2 DEF InOrder
  <2>3. CASE j = Len(s) + 1
    <3>1. t[i] = s[i] /\ t[j] = job
      BY <1>1, <2>1, <2>3
    <3> QED
      BY <1>3, <2>1, <3>1
  <2> QED
    BY <1>2, <2>2, <2>3
<1>4. \A i \in 1 .. Len(t) : t[i] = job \/ \E j \in 1 .. Len(s) : t[i] = s[j]
  BY <1>1, <1>2
<1> QED
  BY <1>3, <1>4 DEF InOrder, t

BehindJob(queue, job) ==
    \A i \in 1 .. Len(queue) : queue[i].unit = job.unit => queue[i].rev < job.rev

(* Nothing but the job was added to a queue.                               *)
NothingElse(new, old, job) ==
    \A i \in 1 .. Len(new) : new[i] = job \/ \E j \in 1 .. Len(old) : new[i] = old[j]

(* What enqueue leaves in a queue of older revisions.                      *)
LEMMA EnqueueOrder ==
    ASSUME QueuesTyped, NEW job \in Job, Enqueue(job), job.lang = Target,
           InOrder(queues[Target]), BehindJob(queues[Target], job)
    PROVE  /\ InOrder(queues'[Target])
           /\ NothingElse(queues'[Target], queues[Target], job)
<1> DEFINE old == queues[Target]
           queue == Coalesced(old, job)
<1>1. Target \in Languages
  BY DEF Job
<1>2. old \in Seq(Job) /\ InOrder(old) /\ BehindJob(old, job)
  BY <1>1 DEF QueuesTyped
<1>3. queue \in Seq(Job)
  BY <1>2, CoalescedSeq
<1>4. queue = old \/ KeepsOrder(queue, old)
  <2>1. CASE Matches(old, job) = {}
    BY <2>1 DEF Coalesced
  <2>2. CASE Matches(old, job) # {}
    <3> DEFINE i == CHOOSE i \in Matches(old, job) : TRUE
    <3>1. i \in 1 .. Len(old)
      BY <2>2 DEF Matches
    <3>2. queue = RemoveAt(old, i)
      BY <2>2 DEF Coalesced
    <3> HIDE DEF i, old, queue
    <3> QED
      BY <1>2, <3>1, <3>2, RemoveAtOrder
  <2> QED
    BY <2>1, <2>2
<1> HIDE DEF queue, old
<1>5. KeepsOrder(queue, old)
  BY <1>4 DEF KeepsOrder
<1>6. ASSUME NEW t \in Seq(Job), KeepsOrder(t, old), Accept(t, job)
      PROVE  InOrder(queues'[Target]) /\ NothingElse(queues'[Target], old, job)
  <2>1. queues' = [queues EXCEPT ![Target] = Append(t, job)]
    BY <1>6 DEF Accept
  <2>2. queues'[Target] = Append(t, job)
    BY <1>1, <2>1 DEF QueuesTyped
  <2>3. InOrder(t) /\ \A i \in 1 .. Len(t) : t[i].unit = job.unit => t[i].rev < job.rev
    BY <1>2, <1>6 DEF KeepsOrder, BehindJob
  <2>4. /\ InOrder(Append(t, job))
        /\ \A i \in 1 .. Len(Append(t, job)) :
                 Append(t, job)[i] = job \/ \E j \in 1 .. Len(t) : Append(t, job)[i] = t[j]
    BY <2>3, AppendOrder
  <2> DEFINE new == Append(t, job)
  <2> HIDE DEF new
  <2>5. \A i \in 1 .. Len(new) : new[i] = job \/ \E j \in 1 .. Len(t) : new[i] = t[j]
    BY <2>4 DEF new
  <2>6. NothingElse(new, old, job)
    BY <1>6, <2>5 DEF KeepsOrder, NothingElse
  <2> QED
    BY <2>2, <2>4, <2>6 DEF new
<1>7. CASE EnqueueWithRoom(job) \/ EnqueueOverCapacity(job)
  <2>1. Accept(queue, job)
    BY <1>7 DEF EnqueueWithRoom, EnqueueOverCapacity, queue, old
  <2> QED
    BY <1>3, <1>5, <1>6, <2>1 DEF old
<1>8. CASE EnqueueDroppingDraft(job)
  <2>1. PICK i \in Drafts(queue) : Accept(RemoveAt(queue, i), job)
    BY <1>8 DEF EnqueueDroppingDraft, queue, old
  <2>2. i \in 1 .. Len(queue)
    BY DEF Drafts
  <2>3. RemoveAt(queue, i) \in Seq(Job)
    BY <1>3, <2>2, RemoveAtSeq
  <2>4. KeepsOrder(RemoveAt(queue, i), queue)
    BY <1>3, <2>2, RemoveAtOrder
  <2>5. KeepsOrder(RemoveAt(queue, i), old)
    BY <1>5, <2>4 DEF KeepsOrder
  <2> QED
    BY <1>6, <2>1, <2>3, <2>5 DEF old
<1>9. CASE RejectDraft(job)
  <2>1. queues'[Target] = queue
    BY <1>1, <1>9 DEF RejectDraft, QueuesTyped, queue, old
  <2>2. InOrder(queue) /\ NothingElse(queue, old, job)
    BY <1>2, <1>5 DEF KeepsOrder, NothingElse
  <2> QED
    BY <2>1, <2>2 DEF old
<1> QED
  BY <1>7, <1>8, <1>9 DEF Enqueue

-----------------------------------------------------------------------------
(* What most steps leave alone.                                            *)

(* Older cues stay older when none is published.                           *)
LEMMA BehindKept ==
    ASSUME born' = born,
           ledger' = ledger \/ ledger'.unit = NoCue,
           pub'.phase # "sending" \/ (pub'.phase = pub.phase /\ pub'.message = pub.message),
           NEW unit \in Units, NEW r, Behind(unit, r)
    PROVE  Behind(unit, r)'
<1>1. unit # NoCue
  BY HubAssumption
<1> QED
  BY <1>1 DEF Behind

(* Nobody but the worker sent anything.                                    *)
SentElse ==
    \/ received' = received
    \/ \E x, m : /\ m.kind \notin {"translation", "absent"}
                 /\ received' = [received EXCEPT ![x] = m]

BehindStep ==
    \A unit \in Units, r \in Nat :
        Behind(unit, r) =>
           /\ Behind(unit, r)'
           /\ BehindQueue(queues[Target], unit, r) => BehindQueue(queues'[Target], unit, r)

LEMMA SentKept ==
    ASSUME AudienceInv, SentInv, SentElse, BehindStep,
           UNCHANGED <<inFlight, worker>> \/ inFlight' = NoJob
    PROVE  SentInv' /\ StepInOrder
<1>1. ASSUME NEW c \in Clients
      PROVE  received'[c] = received[c] \/ received'[c].kind # "translation"
  BY DEF SentElse, AudienceInv
<1>2. StepInOrder
  BY <1>1 DEF StepInOrder
<1>3. ASSUME NEW c \in Clients, NEW unit \in Units, NEW r \in Nat, WasSent(c, unit, r)'
      PROVE  /\ Behind(unit, r)'
             /\ BehindQueue(queues'[Target], unit, r)
             /\ inFlight' # NoJob /\ inFlight'.unit = unit =>
                   /\ r <= inFlight'.rev
                   /\ StillToSend(c)' => r < inFlight'.rev
  <2>1. WasSent(c, unit, r)
    BY <1>1, <1>3 DEF WasSent
  <2>2. /\ Behind(unit, r)
        /\ BehindQueue(queues[Target], unit, r)
        /\ inFlight # NoJob /\ inFlight.unit = unit =>
              /\ r <= inFlight.rev
              /\ StillToSend(c) => r < inFlight.rev
    BY <2>1 DEF SentInv
  <2>3. Behind(unit, r)' /\ BehindQueue(queues'[Target], unit, r)
    BY <2>2 DEF BehindStep
  <2>4. inFlight' # NoJob /\ inFlight'.unit = unit =>
              /\ r <= inFlight'.rev
              /\ StillToSend(c)' => r < inFlight'.rev
    BY <2>2 DEF StillToSend
  <2> QED
    BY <2>3, <2>4
<1>4. \A c \in Clients :
         received'[c].kind = "translation" =>
            received'[c].caption.unit \in Units /\ received'[c].caption.rev \in Nat
  BY <1>1 DEF SentInv
<1>5. SentInv'
  <2>1. ASSUME NEW c \in Clients, NEW unit \in Units, NEW r \in Nat, WasSent(c, unit, r)'
        PROVE  BehindQueue(queues[Target], unit, r)'
    BY <1>3, <2>1 DEF BehindQueue
  <2> QED
    BY <1>3, <1>4, <2>1 DEF SentInv
<1> QED
  BY <1>2, <1>5

LEMMA InHandKept ==
    ASSUME WorkerInv, InHandInv, BehindStep,
           \/ UNCHANGED <<inFlight, worker>>
           \/ inFlight' = NoJob /\ worker' = NoTask
    PROVE  InHandInv'
<1>1. CASE inFlight' = NoJob /\ worker' = NoTask
  BY <1>1, NoTaskFacts DEF InHandInv
<1>2. CASE UNCHANGED <<inFlight, worker>>
  <2>1. inFlight # NoJob => inFlight.unit \in Units /\ inFlight.rev \in Nat
    BY DEF WorkerInv, Job
  <2>2. inFlight # NoJob => /\ Behind(inFlight.unit, inFlight.rev)
                            /\ BehindQueue(queues[Target], inFlight.unit, inFlight.rev)
    BY DEF InHandInv
  <2> DEFINE unit == inFlight.unit
             r == inFlight.rev
  <2>3. ASSUME inFlight # NoJob
        PROVE  Behind(inFlight.unit, inFlight.rev)'
               /\ BehindQueue(queues[Target], inFlight.unit, inFlight.rev)'
    <3>1. ASSUME NEW u \in Units, NEW n \in Nat, u = inFlight.unit, n = inFlight.rev
          PROVE  Behind(u, n)' /\ BehindQueue(queues[Target], u, n)'
      BY <2>2, <2>3, <3>1 DEF BehindStep, BehindQueue
    <3>2. inFlight' = inFlight
      BY <1>2
    <3>3. PICK u \in Units : u = inFlight.unit
      BY <2>1, <2>3
    <3>4. PICK n \in Nat : n = inFlight.rev
      BY <2>1, <2>3
    <3>5. Behind(u, n)' /\ BehindQueue(queues[Target], u, n)'
      BY <3>1, <3>3, <3>4
    <3> QED
      BY <3>2, <3>3, <3>4, <3>5 DEF Behind, BehindQueue
  <2>4. (inFlight # NoJob =>
           /\ Behind(inFlight.unit, inFlight.rev)
           /\ BehindQueue(queues[Target], inFlight.unit, inFlight.rev))'
    BY <1>2, <2>3
  <2>5. (worker.phase = "sending" =>
          /\ worker.todo \in Seq(Clients) /\ Distinct(worker.todo)
          /\ \/ worker.message = Blank
             \/ worker.message = Message("translation",
                   [unit |-> inFlight.unit, rev |-> inFlight.rev,
                    final |-> inFlight.final]))'
    BY <1>2 DEF InHandInv
  <2> QED
    BY <2>4, <2>5 DEF InHandInv
<1> QED
  BY <1>1, <1>2

LEMMA WithoutFacts ==
    ASSUME NEW cs \in Seq(Clients), Distinct(cs), NEW dead
    PROVE  /\ Without(cs, dead) \in Seq(Clients) /\ Distinct(Without(cs, dead))
           /\ \A i \in 1 .. Len(Without(cs, dead)) :
                 \E j \in 1 .. Len(cs) : Without(cs, dead)[i] = cs[j]
<1> DEFINE kept == Clients \ dead
           t == Filter(cs, kept)
<1> HIDE DEF kept
<1>1. /\ t \in Seq(Clients) /\ Distinct(t)
      /\ \A i \in 1 .. Len(t) : \E j \in 1 .. Len(cs) : t[i] = cs[j]
  BY FilterFacts
<1>2. Without(cs, dead) = t
  BY DEF Without, kept
<1> HIDE DEF t
<1> QED
  BY <1>1, <1>2

LEMMA ViewersFacts ==
    ASSUME NEW cs \in Seq(Clients), Distinct(cs)
    PROVE  ClientsOf(cs, Target) \in Seq(Clients) /\ Distinct(ClientsOf(cs, Target))
<1> DEFINE kept == {c \in Clients : LangOf[c] = Target}
           t == Filter(cs, kept)
<1> HIDE DEF kept
<1>1. t \in Seq(Clients) /\ Distinct(t)
  BY FilterFacts
<1>2. ClientsOf(cs, Target) = t
  BY DEF ClientsOf, kept
<1> HIDE DEF t
<1> QED
  BY <1>1, <1>2

SentSomething ==
    \/ received' = received
    \/ \E x, m : m.kind # "absent" /\ received' = [received EXCEPT ![x] = m]

LEMMA AudienceKept ==
    ASSUME AudienceInv, SentSomething,
           clients' = clients \/ \E dead : clients' = Without(clients, dead)
    PROVE  AudienceInv'
<1>1. received' = [c \in Clients |-> received'[c]]
  BY DEF AudienceInv, SentSomething
<1>2. /\ clients' \in Seq(Clients) /\ Distinct(clients')
      /\ \A i \in 1 .. Len(clients') : \E j \in 1 .. Len(clients) : clients'[i] = clients[j]
  <2>1. CASE clients' = clients
    BY <2>1 DEF AudienceInv
  <2>2. ASSUME NEW dead, clients' = Without(clients, dead)
        PROVE  /\ clients' \in Seq(Clients) /\ Distinct(clients')
               /\ \A i \in 1 .. Len(clients') :
                     \E j \in 1 .. Len(clients) : clients'[i] = clients[j]
    <3>1. clients \in Seq(Clients) /\ Distinct(clients)
      BY DEF AudienceInv
    <3>2. /\ Without(clients, dead) \in Seq(Clients) /\ Distinct(Without(clients, dead))
           /\ \A i \in 1 .. Len(Without(clients, dead)) :
                 \E j \in 1 .. Len(clients) : Without(clients, dead)[i] = clients[j]
      BY <3>1, WithoutFacts
    <3> QED
      BY <2>2, <3>2
  <2> QED
    BY <2>1, <2>2
<1>3. \A c \in Clients : received[c].kind # "absent" => received'[c].kind # "absent"
  BY DEF AudienceInv, SentSomething
<1>4. ASSUME NEW i \in 1 .. Len(clients')
      PROVE  received'[clients'[i]].kind # "absent"
  <2>1. PICK j \in 1 .. Len(clients) : clients'[i] = clients[j]
    BY <1>2
  <2>2. clients[j] \in Clients /\ received[clients[j]].kind # "absent"
    BY DEF AudienceInv
  <2> QED
    BY <1>3, <2>1, <2>2
<1> QED
  BY <1>1, <1>2, <1>4 DEF AudienceInv

(* Queues in which nothing is new.                                         *)
LEMMA QueueKept ==
    ASSUME QueuesTyped, QueueInv,
           queues' = queues \/ queues' = [lang \in Languages |-> <<>>],
           \A unit \in Units, r \in Nat : Behind(unit, r) => Behind(unit, r)'
    PROVE  QueueInv' /\ BehindStep
<1>0. Target \in Languages
  BY HubAssumption
<1>1. CASE queues' = queues
  <2>1. queues[Target] \in Seq(Job)
    BY <1>0 DEF QueuesTyped
  <2>2. ASSUME NEW i \in 1 .. Len(queues[Target])
        PROVE  Behind(queues[Target][i].unit, queues[Target][i].rev)'
    <3>1. queues[Target][i] \in Job
      BY <2>1
    <3>2. PICK u \in Units : u = queues[Target][i].unit
      BY <3>1 DEF Job
    <3>3. PICK n \in Nat : n = queues[Target][i].rev
      BY <3>1 DEF Job
    <3>4. Behind(u, n)
      BY <3>2, <3>3 DEF QueueInv
    <3>5. Behind(u, n)'
      BY <3>4
    <3> QED
      BY <1>1, <3>2, <3>3, <3>5 DEF Behind
  <2>3. QueueInv'
    BY <1>1, <2>2 DEF QueueInv, InOrder
  <2>4. BehindStep
    BY <1>1 DEF BehindStep
  <2> QED
    BY <2>3, <2>4
<1>2. CASE queues' = [lang \in Languages |-> <<>>]
  <2>1. queues'[Target] = <<>>
    BY <1>0, <1>2
  <2> QED
    BY <2>1 DEF QueueInv, InOrder, BehindStep, BehindQueue
<1> QED
  BY <1>1, <1>2

-----------------------------------------------------------------------------
(* The steps of everybody but the worker.                                  *)

(* Nothing is published or queued.                                         *)
LEMMA QuietOrder ==
    ASSUME HubInv, OrderInv, AudienceInv', SendersInv', SentElse,
           born' = born, ledger' = ledger \/ ledger'.unit = NoCue,
           pub'.phase # "sending" \/ (pub'.phase = pub.phase /\ pub'.message = pub.message),
           queues' = queues \/ queues' = [lang \in Languages |-> <<>>],
           \/ UNCHANGED <<inFlight, worker>>
           \/ inFlight' = NoJob /\ worker' = NoTask
    PROVE  OrderInv' /\ StepInOrder
<1>1. \A unit \in Units, r \in Nat : Behind(unit, r) => Behind(unit, r)'
  BY BehindKept
<1>2. QueueInv' /\ BehindStep
  BY <1>1, QueueKept DEF HubInv, OrderInv
<1>3. InHandInv'
  BY <1>2, InHandKept DEF HubInv, OrderInv
<1>4. SentInv' /\ StepInOrder
  BY <1>2, SentKept DEF HubInv, OrderInv
<1> QED
  BY <1>2, <1>3, <1>4 DEF OrderInv

LEMMA PublishedKept ==
    ASSUME PublisherInv, PublishedInv, born' = born,
           ledger' = ledger \/ ledger'.unit = NoCue,
           pub'.phase # "sending" \/ (pub'.phase = pub.phase /\ pub'.message = pub.message)
    PROVE  PublishedInv'
<1>1. NoCue \notin Units
  BY HubAssumption
<1> QED
  BY <1>1 DEF PublishedInv, PublisherInv

NoticeStep ==
    \/ notices' = notices
    \/ \E k, t : /\ notices' = [notices EXCEPT ![k] = t] /\ IsTask(t)
                 /\ t.phase = "sending" => t.message.kind \notin {"translation", "absent"}

LEMMA NoticesKept ==
    ASSUME NoticesInv, NoticeStep
    PROVE  NoticesInv'
<1>1. CASE notices' = notices
  BY <1>1 DEF NoticesInv
<1>2. ASSUME NEW k, NEW t, notices' = [notices EXCEPT ![k] = t], IsTask(t),
             t.phase = "sending" => t.message.kind \notin {"translation", "absent"}
      PROVE  NoticesInv'
  <2>1. notices' = [l \in Requests |-> notices'[l]]
    BY <1>2 DEF NoticesInv
  <2>2. \A l \in Requests : notices'[l] = notices[l] \/ notices'[l] = t
    BY <1>2 DEF NoticesInv
  <2>3. ASSUME NEW l \in Requests
        PROVE  /\ IsTask(notices'[l])
               /\ notices'[l].phase = "sending" =>
                     notices'[l].message.kind \notin {"translation", "absent"}
    <3>1. CASE notices'[l] = notices[l]
      BY <3>1 DEF NoticesInv
    <3>2. CASE notices'[l] = t
      BY <1>2, <3>2
    <3> QED
      BY <2>2, <3>1, <3>2
  <2> QED
    BY <2>1, <2>3 DEF NoticesInv, IsTask
<1> QED
  BY <1>1, <1>2 DEF NoticeStep

LEMMA ReceivedAfterFacts ==
    ASSUME NEW t, NEW after, after = ReceivedAfter(t)
    PROVE  after = received \/ after = [received EXCEPT ![Head(t.todo)] = t.message]
  BY DEF ReceivedAfter

(* A message that is no translation is written to a connection.            *)
LEMMA OtherSent ==
    ASSUME NEW t, t.message.kind \notin {"translation", "absent"},
           received' = received \/ received' = ReceivedAfter(t)
    PROVE  SentElse /\ SentSomething
<1>1. \/ received' = received
      \/ \E x : received' = [received EXCEPT ![x] = t.message]
  BY ReceivedAfterFacts
<1> QED
  BY <1>1 DEF SentElse, SentSomething

(* A notice goes out.                                                      *)
LEMMA NoticeStarted ==
    ASSUME NoticesInv, NEW k, NEW kind \in {"paused", "resumed", "cleared"},
           StartNotice(k, Message(kind, NoCaption))
    PROVE  NoticesInv' /\ SentElse /\ SentSomething
<1> DEFINE t == Sending(clients, Message(kind, NoCaption))
<1>1. IsTask(t) /\ t.message.kind = kind
  <2>1. Message(kind, NoCaption).kind = kind
    BY DEF Message
  <2> QED
    BY <2>1, SendingFacts
<1>2. IsTask(AfterSend(t)) /\ AfterSend(t).message.kind = kind
  BY <1>1, AfterSendFacts
<1>3. \/ UNCHANGED <<notices, received>>
      \/ notices' = [notices EXCEPT ![k] = AfterSend(t)] /\ received' = ReceivedAfter(t)
  BY DEF StartNotice
<1> HIDE DEF t
<1>4. NoticeStep
  <2> DEFINE u == AfterSend(t)
  <2>1. IsTask(u) /\ u.message.kind \notin {"translation", "absent"}
    BY <1>2
  <2>2. notices' = notices \/ notices' = [notices EXCEPT ![k] = u]
    BY <1>3
  <2> HIDE DEF u
  <2> QED
    BY <2>1, <2>2 DEF NoticeStep
<1>5. SentElse /\ SentSomething
  BY <1>1, <1>3, OtherSent
<1> QED
  BY <1>4, <1>5, NoticesKept

LEMMA EraseOrder ==
    ASSUME HubInv, OrderInv, NEW k,
           (\E enabled \in BOOLEAN : SetSensitive(k, enabled)) \/ ClearCaptions(k)
    PROVE  OrderInv' /\ StepInOrder
<1>1. /\ ledger' = [unit |-> NoCue, rev |-> 0]
      /\ queues' = [lang \in Languages |-> <<>>]
      /\ UNCHANGED <<audienceVars, born, pub, workerVars>>
  BY DEF SetSensitive, ClearCaptions, EraseCueState, ClearScheduler
<1>2. \E kind \in {"paused", "resumed", "cleared"} :
         StartNotice(k, Message(kind, NoCaption))
  BY DEF SetSensitive, ClearCaptions, Paused, Resumed, Cleared
<1>3. current' \in {Paused, Resumed, Blank}
  BY DEF SetSensitive, ClearCaptions
<1>4. NoticesInv' /\ SentElse /\ SentSomething
  BY <1>2, NoticeStarted DEF OrderInv, SendersInv
<1>5. CurrentInv'
  BY <1>3 DEF CurrentInv, Paused, Resumed, Blank, Message
<1>6. AudienceInv'
  BY <1>1, <1>4, AudienceKept DEF OrderInv, audienceVars
<1>7. PublishedInv'
  BY <1>1, PublishedKept DEF HubInv, OrderInv, SendersInv
<1> QED
  BY <1>1, <1>4, <1>5, <1>6, <1>7, QuietOrder DEF SendersInv, workerVars

LEMMA NoticeOrder ==
    ASSUME HubInv, OrderInv, NEW k \in Requests, NoticeSend(k) \/ NoticeEnd(k)
    PROVE  OrderInv' /\ StepInOrder
<1>1. UNCHANGED <<schedulerVars, viewers, broken, privacyVars, pub, workerVars>>
  BY DEF NoticeSend, NoticeEnd, audienceVars
<1>2. /\ IsTask(notices[k]) /\ notices[k].phase = "sending"
      /\ notices[k].message.kind \notin {"translation", "absent"}
  BY DEF NoticeSend, NoticeEnd, OrderInv, SendersInv, NoticesInv
<1>3. \/ notices' = [notices EXCEPT ![k] = AfterSend(notices[k])]
      \/ notices' = [notices EXCEPT ![k] = NoTask]
  BY DEF NoticeSend, NoticeEnd
<1>4. NoticeStep
  <2> DEFINE t == AfterSend(notices[k])
  <2>1. IsTask(t) /\ t.message = notices[k].message
    BY <1>2, AfterSendFacts
  <2>2. IsTask(NoTask) /\ NoTask.phase # "sending"
    BY NoTaskFacts
  <2> HIDE DEF t
  <2>3. notices' = [notices EXCEPT ![k] = t] \/ notices' = [notices EXCEPT ![k] = NoTask]
    BY <1>3 DEF t
  <2> QED
    BY <1>2, <2>1, <2>2, <2>3 DEF NoticeStep
<1>5. SentElse /\ SentSomething
  BY <1>2, OtherSent DEF NoticeSend, NoticeEnd
<1>6. AudienceInv'
  <2>1. clients' = clients \/ \E dead : clients' = Without(clients, dead)
    BY DEF NoticeSend, NoticeEnd, audienceVars
  <2> QED
    BY <1>5, <2>1, AudienceKept DEF OrderInv
<1>7. SendersInv'
  <2>1. PublishedInv'
    BY <1>1, PublishedKept DEF HubInv, OrderInv, SendersInv, privacyVars
  <2>2. CurrentInv'
    BY <1>1 DEF OrderInv, SendersInv, CurrentInv, privacyVars
  <2> QED
    BY <1>4, <2>1, <2>2, NoticesKept DEF OrderInv, SendersInv
<1> QED
  BY <1>1, <1>5, <1>6, <1>7, QuietOrder DEF privacyVars, schedulerVars, workerVars

(* Whatever leaves the messages and the queues alone.                      *)
LEMMA PlainOrder ==
    ASSUME HubInv, OrderInv,
           UNCHANGED <<received, ledger, born, current, notices>>,
           clients' = clients \/ \E dead : clients' = Without(clients, dead),
           pub' = pub \/ pub' = NoTask,
           queues' = queues \/ queues' = [lang \in Languages |-> <<>>],
           \/ UNCHANGED <<inFlight, worker>>
           \/ inFlight' = NoJob /\ worker' = NoTask
    PROVE  OrderInv' /\ StepInOrder
<1>1. AudienceInv'
  BY AudienceKept DEF OrderInv, SentSomething
<1>2. pub'.phase # "sending" \/ (pub'.phase = pub.phase /\ pub'.message = pub.message)
  BY NoTaskFacts
<1>3. PublishedInv'
  BY <1>2, PublishedKept DEF HubInv, OrderInv, SendersInv
<1>4. NoticesInv'
  BY NoticesKept DEF OrderInv, SendersInv, NoticeStep
<1>5. CurrentInv'
  BY DEF OrderInv, SendersInv, CurrentInv
<1> QED
  BY <1>1, <1>2, <1>3, <1>4, <1>5, QuietOrder DEF SendersInv, SentElse

LEMMA RunOrder ==
    ASSUME HubInv, OrderInv,
           Stop \/ StopAgain \/ DrainDone \/ DrainTimeout \/ Start \/ ResumeWindowEnds
    PROVE  OrderInv' /\ StepInOrder
<1>1. CASE Stop
  BY <1>1, PlainOrder DEF Stop, schedulerVars, audienceVars, privacyVars
<1>2. CASE StopAgain \/ DrainDone \/ Start
  BY <1>2, PlainOrder
    DEF StopAgain, DrainDone, Start, schedulerVars, audienceVars, privacyVars, workerVars
<1>3. CASE DrainTimeout
  BY <1>3, PlainOrder
    DEF DrainTimeout, ClearScheduler, audienceVars, privacyVars
<1>4. CASE ResumeWindowEnds
  BY <1>4, PlainOrder DEF ResumeWindowEnds, schedulerVars, audienceVars, workerVars
<1> QED
  BY <1>1, <1>2, <1>3, <1>4

LEMMA AudienceOrder ==
    ASSUME HubInv, OrderInv, NEW c \in Clients,
           Connect(c) \/ Break(c) \/ Disconnect(c)
    PROVE  OrderInv' /\ StepInOrder
<1>1. CASE Break(c) \/ Disconnect(c)
  BY <1>1, PlainOrder DEF Break, Disconnect, schedulerVars, privacyVars, workerVars
<1>2. CASE Connect(c)
  <2> DEFINE m == [current EXCEPT !.kind = IF @ = "caption" THEN "snapshot" ELSE @]
  <2>1. m.kind \notin {"translation", "absent"}
    BY DEF OrderInv, SendersInv, CurrentInv, Message
  <2>2. /\ received[c] = Absent /\ clients' = Append(clients, c)
        /\ received' = [received EXCEPT ![c] = m]
    BY <1>2 DEF Connect
  <2> HIDE DEF m
  <2>3. SentElse /\ received'[c].kind # "absent"
    BY <2>1, <2>2 DEF SentElse, OrderInv, AudienceInv
  <2>4. AudienceInv'
    <3>1. /\ clients \in Seq(Clients) /\ Distinct(clients) /\ Len(clients) \in Nat
          /\ \A i \in 1 .. Len(clients) :
                clients[i] \in Clients /\ received[clients[i]].kind # "absent"
      BY DEF OrderInv, AudienceInv
    <3>2. \A i \in 1 .. Len(clients) : clients[i] # c
      BY <2>2, <3>1 DEF Absent, Message
    <3> DEFINE t == Append(clients, c)
    <3>3. /\ t \in Seq(Clients) /\ Len(t) = Len(clients) + 1
          /\ t[Len(clients) + 1] = c
          /\ \A i \in 1 .. Len(clients) : t[i] = clients[i]
      BY <3>1, AppendProperties
    <3> HIDE DEF t
    <3>4. \A i \in 1 .. Len(t) : i \in 1 .. Len(clients) \/ i = Len(clients) + 1
      BY <3>1, <3>3
    <3>5. Distinct(t)
      BY <3>1, <3>2, <3>3, <3>4 DEF Distinct
    <3>6. received' = [d \in Clients |-> received'[d]]
      BY <2>2 DEF OrderInv, AudienceInv
    <3>7. \A d \in Clients : received[d].kind # "absent" => received'[d].kind # "absent"
      BY <2>1, <2>2 DEF OrderInv, AudienceInv
    <3>8. \A i \in 1 .. Len(t) : received'[t[i]].kind # "absent"
      BY <2>3, <3>1, <3>3, <3>4, <3>7
    <3>9. clients' = t
      BY <2>2 DEF t
    <3> QED
      BY <3>3, <3>5, <3>6, <3>8, <3>9 DEF AudienceInv
  <2>5. UNCHANGED <<queues, ledger, born, current, pub, notices, inFlight, worker>>
    BY <1>2 DEF Connect, schedulerVars, privacyVars, workerVars
  <2>6. SendersInv'
    BY <2>5, NoticesKept, PublishedKept
      DEF HubInv, OrderInv, SendersInv, CurrentInv, NoticeStep
  <2> QED
    BY <2>3, <2>4, <2>5, <2>6, QuietOrder
<1> QED
  BY <1>1, <1>2

-----------------------------------------------------------------------------
(* The steps of the publisher.                                             *)

LEMMA PublishSendOrder ==
    ASSUME HubInv, OrderInv, PublishSend
    PROVE  OrderInv' /\ StepInOrder
<1>1. /\ pub.phase = "sending" /\ pub' = AfterSend(pub)
      /\ received' = received \/ received' = ReceivedAfter(pub)
      /\ UNCHANGED <<queues, clients, ledger, born, current, notices, inFlight, worker>>
  BY DEF PublishSend, schedulerVars, audienceVars, privacyVars, workerVars
<1>2. IsTask(pub) /\ pub.message.kind = "caption"
  BY <1>1 DEF HubInv, PublisherInv, OrderInv, SendersInv, PublishedInv
<1>3. pub'.phase = pub.phase /\ pub'.message = pub.message
  BY <1>1, <1>2, AfterSendFacts
<1>4. SentElse /\ SentSomething
  BY <1>1, <1>2, OtherSent
<1>5. AudienceInv'
  BY <1>1, <1>4, AudienceKept DEF OrderInv
<1>6. PublishedInv'
  BY <1>1, <1>3, PublishedKept DEF HubInv, OrderInv, SendersInv
<1>7. NoticesInv' /\ CurrentInv'
  BY <1>1, NoticesKept DEF OrderInv, SendersInv, NoticeStep, CurrentInv
<1> QED
  BY <1>1, <1>3, <1>4, <1>5, <1>6, <1>7, QuietOrder DEF SendersInv

(* The revision that is queued is newer than all before it.                *)
LEMMA PublishQueueOrder ==
    ASSUME HubInv, OrderInv, PublishQueue
    PROVE  OrderInv' /\ StepInOrder
<1> DEFINE caption == pub.message.caption
           job == [lang |-> Target, unit |-> caption.unit, rev |-> caption.rev,
                   final |-> caption.final, gen |-> generation]
<1>1. /\ UNCHANGED <<received, ledger, born, current, notices, inFlight, worker>>
      /\ clients' = Without(clients, pub.dead) /\ pub' = NoTask
      /\ pub.phase = "sending"
  BY DEF PublishQueue, privacyVars
<1>2. CASE UNCHANGED <<schedulerVars, awake, idle>>
  BY <1>1, <1>2, PlainOrder DEF schedulerVars
<1>3. CASE QueueTranslation(caption)
  <2>1. Enqueue(job)
    BY <1>3 DEF QueueTranslation
  <2>2. /\ caption.unit \in Units /\ caption.rev \in Nat \ {0}
        /\ caption.final \in BOOLEAN /\ QueuesTyped /\ Target \in Languages
    BY <1>1, HubAssumption DEF HubInv, PublisherInv
  <2>3. /\ born[caption.unit] # 0
        /\ ledger.unit = caption.unit => caption.rev <= ledger.rev
    BY <1>1 DEF OrderInv, SendersInv, PublishedInv
  <2>4. \A unit, r : Behind(unit, r) /\ unit = caption.unit => r < caption.rev
    BY <1>1 DEF Behind
  <2> HIDE DEF caption
  <2>5. job \in Job
    BY <2>2 DEF Job, QueuesTyped
  <2>6. job.lang = Target /\ job.unit = caption.unit /\ job.rev = caption.rev
    OBVIOUS
  <2> HIDE DEF job
  <2>7. \A unit, r : Behind(unit, r) /\ unit = job.unit => r < job.rev
    BY <2>4, <2>6
  <2> DEFINE old == queues[Target]
             new == queues'[Target]
  <2>8. InOrder(old) /\ \A i \in 1 .. Len(old) : Behind(old[i].unit, old[i].rev)
    BY DEF OrderInv, QueueInv
  <2>9. BehindJob(old, job)
    BY <2>7, <2>8 DEF BehindJob
  <2>10. InOrder(new) /\ NothingElse(new, old, job)
    BY <2>1, <2>2, <2>5, <2>6, <2>8, <2>9, EnqueueOrder
  <2>11. old \in Seq(Job)
    BY <2>2 DEF QueuesTyped
  <2> HIDE DEF old, new
  <2>12. pub'.phase # "sending"
    BY <1>1, NoTaskFacts
  <2>13. ASSUME NEW unit \in Units, NEW r \in Nat, Behind(unit, r)
         PROVE  Behind(unit, r)' /\ (BehindQueue(old, unit, r) => BehindQueue(new, unit, r))
    <3>1. Behind(unit, r)'
      BY <1>1, <2>12, <2>13, BehindKept
    <3>2. \A i \in 1 .. Len(new) : new[i] = job \/ \E j \in 1 .. Len(old) : new[i] = old[j]
      BY <2>10 DEF NothingElse
    <3>3. unit = job.unit => r < job.rev
      BY <2>7, <2>13
    <3>4. BehindQueue(old, unit, r) => BehindQueue(new, unit, r)
      BY <3>2, <3>3 DEF BehindQueue
    <3> QED
      BY <3>1, <3>4
  <2>14. BehindStep
    BY <2>13 DEF BehindStep, old, new
  <2>15. ASSUME NEW unit, NEW r, unit = job.unit, r = job.rev
         PROVE  Behind(unit, r)'
    BY <1>1, <2>3, <2>6, <2>12, <2>15 DEF Behind
  <2>16. \A unit \in Units, r \in Nat :
            (\E i \in 1 .. Len(old) : unit = old[i].unit /\ r = old[i].rev)
              => Behind(unit, r)'
    BY <2>8, <2>13
  <2>17. QueueInv'
    <3>1. ASSUME NEW queue \in Seq(Job), queue = new, NEW i \in 1 .. Len(queue)
          PROVE  Behind(queue[i].unit, queue[i].rev)'
      <4>1. queue[i] \in Job /\ queue[i].unit \in Units /\ queue[i].rev \in Nat
        <5>1. queue[i] \in Job
          OBVIOUS
        <5> DEFINE one == queue[i]
        <5> HIDE DEF one
        <5>2. one \in Job => one.unit \in Units /\ one.rev \in Nat
          BY DEF Job
        <5> QED
          BY <5>1, <5>2 DEF one
      <4>2. CASE queue[i] = job
        BY <2>15, <4>2
      <4>3. CASE \E j \in 1 .. Len(old) : queue[i] = old[j]
        BY <2>16, <4>1, <4>3
      <4> QED
        BY <2>10, <3>1, <4>2, <4>3 DEF NothingElse
    <3>2. new \in Seq(Job)
      BY <2>1, <2>2, <2>5, EnqueueTyped DEF QueuesTyped, new
    <3>3. PICK queue \in Seq(Job) : queue = new
      BY <3>2
    <3>4. \A i \in 1 .. Len(queue) : Behind(queue[i].unit, queue[i].rev)'
      BY <3>1, <3>3
    <3>5. InOrder(queue) /\ queues'[Target] = queue
      BY <2>10, <3>3 DEF new
    <3> QED
      BY <3>4, <3>5 DEF QueueInv, Behind
  <2>18. SendersInv'
    BY <1>1, <2>12, NoticesKept, PublishedKept
      DEF HubInv, OrderInv, SendersInv, CurrentInv, NoticeStep
  <2>19. AudienceInv'
    BY <1>1, AudienceKept DEF OrderInv, SentSomething
  <2>20. InHandInv'
    BY <1>1, <2>14, InHandKept DEF HubInv, OrderInv
  <2>21. SentInv' /\ StepInOrder
    BY <1>1, <2>14, SentKept DEF OrderInv, SentElse
  <2> QED
    BY <2>17, <2>18, <2>19, <2>20, <2>21 DEF OrderInv
<1> QED
  BY <1>2, <1>3 DEF PublishQueue

(* A revision is published: it is newer than all before it.                *)
LEMMA PublishSegmentOrder ==
    ASSUME HubInv, OrderInv, NEW unit \in Units, NEW final \in BOOLEAN,
           PublishSegment(unit, final)
    PROVE  OrderInv' /\ StepInOrder
<1> DEFINE rev == NextRevision(unit)
           caption == [unit |-> unit, rev |-> rev, final |-> final]
           message == Message("caption", caption)
           send == Sending(GroupedByLanguage(clients), message)
<1>1. /\ era # 0 /\ born \in [Units -> Nat] /\ ledger.rev \in Nat
      /\ unit # NoCue /\ NoCue \notin Units
  BY HubAssumption DEF HubInv, CueInv
<1>2. /\ ledger' = [unit |-> NoCue, rev |-> 0] \/ ledger' = [unit |-> unit, rev |-> rev]
      /\ born' = [born EXCEPT ![unit] = IF @ = 0 THEN era ELSE @]
      /\ unit = ledger.unit \/ (ledger.unit = NoCue /\ born[unit] = 0)
      /\ current' = message
      /\ \/ UNCHANGED <<pub, received>>
         \/ /\ pub' = AfterSend(send)
            /\ received' = received \/ received' = ReceivedAfter(send)
      /\ pub.phase = "none"
      /\ UNCHANGED <<queues, clients, notices, inFlight, worker>>
  BY DEF PublishSegment, MayRevise, schedulerVars, audienceVars, workerVars
<1>3. unit = ledger.unit => rev = ledger.rev + 1
  BY DEF NextRevision
<1>4. message.kind = "caption" /\ message.caption = caption
  BY DEF Message
<1>5. caption.unit = unit /\ caption.rev = rev
  OBVIOUS
<1>6. rev \in Nat
  BY <1>1 DEF NextRevision
<1>7. current' = Message(message.kind, message.caption)
  BY <1>2, <1>4
<1> HIDE DEF rev, caption, message
<1>8. IsTask(send) /\ send.phase = "sending" /\ send.message = message
  BY SendingFacts
<1> HIDE DEF send
<1>9. \/ pub'.phase # "sending"
      \/ pub'.phase = "sending" /\ pub'.message = message
  BY <1>2, <1>8, AfterSendFacts
<1>10. SentElse /\ SentSomething
  BY <1>2, <1>4, <1>8, OtherSent DEF SentElse, SentSomething
<1>11. ASSUME NEW u \in Units, NEW r \in Nat, Behind(u, r)
       PROVE  Behind(u, r)'
  <2>1. born[u] # 0 /\ born'[u] # 0
    BY <1>1, <1>2, <1>11 DEF Behind
  <2>2. CASE u = unit
    <3>1. ledger.unit = unit /\ r <= ledger.rev
      BY <1>2, <1>11, <2>1, <2>2 DEF Behind
    <3>2. r < rev
      BY <1>1, <1>3, <3>1
    <3>3. ledger'.unit = unit => r <= ledger'.rev
      BY <1>1, <1>2, <1>6, <3>2
    <3>4. pub'.phase = "sending" => r < pub'.message.caption.rev
      BY <1>4, <1>5, <1>9, <3>2
    <3> QED
      BY <2>1, <2>2, <3>3, <3>4 DEF Behind
  <2>3. CASE u # unit
    <3>1. ledger'.unit # u
      BY <1>1, <1>2, <2>3
    <3>2. pub'.phase = "sending" => pub'.message.caption.unit # u
      BY <1>4, <1>5, <1>9, <2>3
    <3> QED
      BY <2>1, <3>1, <3>2 DEF Behind
  <2> QED
    BY <2>2, <2>3
<1>12. QueueInv' /\ BehindStep
  BY <1>2, <1>11, QueueKept DEF HubInv, OrderInv
<1>13. InHandInv' /\ SentInv' /\ StepInOrder
  BY <1>2, <1>10, <1>12, InHandKept, SentKept DEF HubInv, OrderInv
<1>14. AudienceInv'
  BY <1>2, <1>10, AudienceKept DEF OrderInv
<1>15. NoticesInv'
  BY <1>2, NoticesKept DEF OrderInv, SendersInv, NoticeStep
<1>16. CurrentInv'
  <2>1. message = Message("caption", caption)
    BY DEF message
  <2>2. current'.kind = "caption" /\ current'.caption = caption
    BY <1>2, <2>1 DEF Message
  <2>3. current' = Message(current'.kind, current'.caption)
    BY <1>2, <2>1, <2>2
  <2> QED
    BY <2>2, <2>3 DEF CurrentInv
<1>17. PublishedInv'
  <2> SUFFICES ASSUME pub'.phase = "sending"
               PROVE  /\ pub'.message.kind = "caption"
                      /\ born'[pub'.message.caption.unit] # 0
                      /\ ledger'.unit = pub'.message.caption.unit =>
                            pub'.message.caption.rev <= ledger'.rev
    BY DEF PublishedInv
  <2>1. /\ pub'.message.kind = "caption" /\ pub'.message.caption.unit = unit
        /\ pub'.message.caption.rev = rev
    BY <1>4, <1>5, <1>9
  <2>2. born'[unit] # 0
    BY <1>1, <1>2
  <2>3. ledger'.unit = unit => rev <= ledger'.rev
    BY <1>1, <1>2, <1>6
  <2> QED
    BY <2>1, <2>2, <2>3
<1> QED
  BY <1>12, <1>13, <1>14, <1>15, <1>16, <1>17 DEF OrderInv, SendersInv

-----------------------------------------------------------------------------
(* The steps of the worker.                                                *)

(* The oldest job is taken in hand.                                        *)
LEMMA TakeOrder ==
    ASSUME HubInv, OrderInv, NEW i \in 1 .. Len(roundRobin), IsNextTurn(i), PopAt(i),
           inFlight' = Head(queues[roundRobin[i]]),
           worker' = [NoTask EXCEPT !.phase = "translating"],
           UNCHANGED <<received, born, ledger, pub, current, notices>>,
           clients' = clients \/ \E dead : clients' = Without(clients, dead)
    PROVE  OrderInv' /\ StepInOrder
<1>1. roundRobin[i] = Target /\ Target \in Languages
  <2>1. roundRobin[i] \in Languages
    BY ElementOfSeq DEF HubInv, QueuesTyped
  <2> QED
    BY <2>1, HubAssumption
<1> DEFINE old == queues[Target]
           new == Tail(old)
           job == Head(old)
<1>2. old \in Seq(Job) /\ old # <<>>
  BY <1>1 DEF HubInv, QueuesTyped, IsNextTurn
<1>3. queues'[Target] = new /\ inFlight' = job
  BY <1>1 DEF PopAt, HubInv, QueuesTyped
<1> HIDE DEF old
<1>4. /\ job \in Job /\ job = old[1] /\ 1 \in 1 .. Len(old)
      /\ new \in Seq(Job) /\ Len(new) = Len(old) - 1 /\ Len(old) \in Nat
      /\ \A k \in 1 .. Len(new) : k + 1 \in 1 .. Len(old) /\ new[k] = old[k + 1]
  BY <1>2
<1> HIDE DEF new, job
<1>5. InOrder(old) /\ \A k \in 1 .. Len(old) : Behind(old[k].unit, old[k].rev)
  BY DEF OrderInv, QueueInv, old
<1>6. InOrder(new)
  <2>1. ASSUME NEW k \in 1 .. Len(new), NEW l \in 1 .. Len(new),
               k < l, new[k].unit = new[l].unit
        PROVE  new[k].rev < new[l].rev
    <3>1. /\ k + 1 \in 1 .. Len(old) /\ new[k] = old[k + 1]
          /\ l + 1 \in 1 .. Len(old) /\ new[l] = old[l + 1]
          /\ k + 1 < l + 1
      BY <1>4, <2>1
    <3>2. old[k + 1].unit = old[l + 1].unit => old[k + 1].rev < old[l + 1].rev
      BY <1>5, <3>1 DEF InOrder
    <3> QED
      BY <2>1, <3>1, <3>2
  <2> QED
    BY <2>1 DEF InOrder
<1>7. BehindQueue(new, job.unit, job.rev)
  <2>1. ASSUME NEW k \in 1 .. Len(new), new[k].unit = job.unit
        PROVE  job.rev < new[k].rev
    <3>1. k + 1 \in 1 .. Len(old) /\ 1 < k + 1 /\ new[k] = old[k + 1]
      BY <1>4
    <3>2. old[1].unit = old[k + 1].unit => old[1].rev < old[k + 1].rev
      BY <1>4, <1>5, <3>1 DEF InOrder
    <3> QED
      BY <1>4, <2>1, <3>1, <3>2
  <2> QED
    BY <2>1 DEF BehindQueue
<1>8. job.unit \in Units /\ job.rev \in Nat /\ Behind(job.unit, job.rev)
  BY <1>4, <1>5 DEF Job
<1>9. \A unit, r : BehindQueue(old, unit, r) =>
         BehindQueue(new, unit, r) /\ (unit = job.unit => r < job.rev)
  BY <1>4 DEF BehindQueue
<1>10. ASSUME NEW unit, NEW r
       PROVE  Behind(unit, r)' <=> Behind(unit, r)
  BY DEF Behind
<1>11. QueueInv'
  <2>1. ASSUME NEW k \in 1 .. Len(new), NEW unit, NEW r, unit = new[k].unit, r = new[k].rev
        PROVE  Behind(unit, r)'
    BY <1>4, <1>5, <1>10, <2>1
  <2>2. PICK queue : queue = new
    OBVIOUS
  <2>3. \A k \in 1 .. Len(queue) : Behind(queue[k].unit, queue[k].rev)'
    BY <2>1, <2>2
  <2>4. queues'[Target] = queue /\ InOrder(queue)
    BY <1>3, <1>6, <2>2
  <2> QED
    BY <2>3, <2>4 DEF QueueInv, Behind
<1>12. InHandInv'
  <2>1. worker'.phase = "translating"
    BY DEF NoTask
  <2>2. PICK one : one = job
    OBVIOUS
  <2>3. Behind(one.unit, one.rev)'
    BY <1>8, <1>10, <2>2
  <2>4. inFlight' = one /\ BehindQueue(queues'[Target], one.unit, one.rev)
    BY <1>3, <1>7, <2>2
  <2>5. (Behind(inFlight.unit, inFlight.rev)
         /\ BehindQueue(queues[Target], inFlight.unit, inFlight.rev))'
    BY <2>3, <2>4 DEF Behind, BehindQueue
  <2> QED
    BY <2>1, <2>5 DEF InHandInv
<1>13. SentInv' /\ StepInOrder
  <2>1. ASSUME NEW c \in Clients, NEW unit \in Units, NEW r \in Nat, WasSent(c, unit, r)'
        PROVE  /\ Behind(unit, r)'
               /\ BehindQueue(queues'[Target], unit, r)
               /\ inFlight'.unit = unit => r < inFlight'.rev
    <3>1. WasSent(c, unit, r)
      BY <2>1 DEF WasSent
    <3>2. Behind(unit, r) /\ BehindQueue(old, unit, r)
      BY <3>1 DEF OrderInv, SentInv, old
    <3> QED
      BY <1>3, <1>9, <1>10, <3>2
  <2>2. inFlight'.rev \in Nat
    BY <1>3, <1>8
  <2>3. ASSUME NEW c \in Clients, NEW unit \in Units, NEW r \in Nat, WasSent(c, unit, r)'
        PROVE  (/\ Behind(unit, r)
                /\ BehindQueue(queues[Target], unit, r)
                /\ inFlight # NoJob /\ inFlight.unit = unit =>
                     /\ r <= inFlight.rev
                     /\ StillToSend(c) => r < inFlight.rev)'
    BY <2>1, <2>2, <2>3 DEF BehindQueue
  <2>4. SentInv'
    BY <2>3 DEF SentInv, OrderInv
  <2> QED
    BY <2>4 DEF StepInOrder
<1>14. AudienceInv'
  BY AudienceKept DEF OrderInv, SentSomething
<1>15. NoticesInv'
  BY NoticesKept DEF OrderInv, SendersInv, NoticeStep
<1>16. CurrentInv'
  BY DEF OrderInv, SendersInv, CurrentInv
<1>17. PublishedInv'
  BY DEF OrderInv, SendersInv, PublishedInv
<1> QED
  BY <1>11, <1>12, <1>13, <1>14, <1>15, <1>16, <1>17 DEF OrderInv, SendersInv

LEMMA LoopOrder ==
    ASSUME HubInv, OrderInv, NEW cs, RunLoop(cs),
           UNCHANGED <<received, born, ledger, pub, current, notices>>,
           clients' = clients \/ \E dead : clients' = Without(clients, dead)
    PROVE  OrderInv' /\ StepInOrder
<1>1. CASE Rest /\ (UNCHANGED schedulerVars \/ queues' = [lang \in Languages |-> <<>>])
  BY <1>1, PlainOrder DEF Rest, schedulerVars
<1>2. CASE \E i \in 1 .. Len(roundRobin) :
              /\ IsNextTurn(i)
              /\ inFlight' = Head(queues[roundRobin[i]])
              /\ PopAt(i)
              /\ worker' = [NoTask EXCEPT !.phase = "translating"]
  BY <1>2, TakeOrder
<1> QED
  BY <1>1, <1>2 DEF RunLoop

LEMMA AfterSendTodo ==
    ASSUME NEW t, IsTask(t)
    PROVE  AfterSend(t).todo = Tail(t.todo)
<1>1. PICK p, q, d, m, b :
         t = [phase |-> p, todo |-> q, dead |-> d, message |-> m, translate |-> b]
  BY DEF IsTask
<1> QED
  BY <1>1 DEF AfterSend

(* The first of a list without repetition is not in the rest.              *)
LEMMA RestFacts ==
    ASSUME NEW cs \in Seq(Clients), Distinct(cs), cs # <<>>
    PROVE  /\ Head(cs) \in Clients /\ Tail(cs) \in Seq(Clients)
           /\ Distinct(Tail(cs))
           /\ \E i \in 1 .. Len(cs) : cs[i] = Head(cs)
           /\ \A i \in 1 .. Len(Tail(cs)) :
                 Tail(cs)[i] # Head(cs) /\ \E j \in 1 .. Len(cs) : Tail(cs)[i] = cs[j]
<1> DEFINE rest == Tail(cs)
           first == Head(cs)
<1>1. /\ Len(cs) \in Nat /\ Len(cs) >= 1 /\ first = cs[1] /\ first \in Clients
      /\ rest \in Seq(Clients) /\ Len(rest) = Len(cs) - 1
      /\ \A i \in 1 .. Len(rest) : rest[i] = cs[i + 1]
  OBVIOUS
<1> HIDE DEF rest, first
<1>2. \A i \in 1 .. Len(rest) : i + 1 \in 1 .. Len(cs) /\ i + 1 # 1 /\ i \in Nat
  BY <1>1
<1>3. 1 \in 1 .. Len(cs)
  BY <1>1
<1>4. ASSUME NEW i \in 1 .. Len(rest), NEW j \in 1 .. Len(rest), rest[i] = rest[j]
      PROVE  i = j
  <2>1. i + 1 = j + 1
    BY <1>1, <1>2, <1>4 DEF Distinct
  <2> QED
    BY <1>2, <2>1
<1>5. \A i \in 1 .. Len(rest) : rest[i] # first /\ \E j \in 1 .. Len(cs) : rest[i] = cs[j]
  BY <1>1, <1>2, <1>3 DEF Distinct
<1>6. Distinct(rest)
  BY <1>4 DEF Distinct
<1>7. \E i \in 1 .. Len(cs) : cs[i] = first
  BY <1>1, <1>3
<1> QED
  BY <1>1, <1>5, <1>6, <1>7 DEF rest, first

(* The worker sends the translation in hand, or a status, to the next      *)
(* viewer.                                                                 *)
TranslationInHand ==
    Message("translation",
            [unit |-> inFlight.unit, rev |-> inFlight.rev, final |-> inFlight.final])

LEMMA SendOrder ==
    ASSUME HubInv, OrderInv, inFlight # NoJob,
           NEW t, IsTask(t), t.phase = "sending", t.todo # <<>>,
           t.todo \in Seq(Clients), Distinct(t.todo),
           t.message = Blank \/ t.message = TranslationInHand,
           \A i \in 1 .. Len(t.todo) : StillToSend(t.todo[i]),
           received' = ReceivedAfter(t), worker' = AfterSend(t),
           UNCHANGED <<schedulerVars, inFlight, born, ledger, pub, current,
                       notices, clients>>
    PROVE  OrderInv' /\ StepInOrder
<1> DEFINE first == Head(t.todo)
           rest == Tail(t.todo)
           message == t.message
<1>1. /\ first \in Clients /\ rest \in Seq(Clients) /\ Distinct(rest)
      /\ \E i \in 1 .. Len(t.todo) : t.todo[i] = first
      /\ \A i \in 1 .. Len(rest) :
            rest[i] # first /\ \E j \in 1 .. Len(t.todo) : rest[i] = t.todo[j]
  BY RestFacts
<1>2. /\ worker'.phase = "sending" /\ worker'.message = message /\ worker'.todo = rest
  BY AfterSendFacts, AfterSendTodo
<1>3. \/ received' = received
      \/ /\ received' = [received EXCEPT ![first] = message]
         /\ message = TranslationInHand
  BY DEF ReceivedAfter
<1>4. inFlight.unit \in Units /\ inFlight.rev \in Nat /\ inFlight \in Job
  BY DEF HubInv, WorkerInv, Job
<1> HIDE DEF first, rest, message
<1>5. StillToSend(first) /\ \A i \in 1 .. Len(rest) : StillToSend(rest[i])
  BY <1>1
<1>6. /\ message = TranslationInHand =>
            /\ message.kind = "translation" /\ message.caption.unit = inFlight.unit
            /\ message.caption.rev = inFlight.rev
      /\ message.kind # "absent"
  BY DEF TranslationInHand, Message, Blank, message
<1>7. ASSUME NEW unit, NEW r
      PROVE  Behind(unit, r)' <=> Behind(unit, r)
  BY DEF Behind
<1>8. /\ queues' = queues /\ inFlight' = inFlight /\ clients' = clients
      /\ notices' = notices /\ current' = current /\ pub' = pub
      /\ born' = born /\ ledger' = ledger
  BY DEF schedulerVars
<1>9. AudienceInv'
  <2>1. SentSomething
    <3>1. PICK x, m : x = first /\ m = message
      OBVIOUS
    <3>2. received' = received \/ received' = [received EXCEPT ![x] = m]
      BY <1>3, <3>1
    <3>3. m.kind # "absent"
      BY <1>6, <3>1
    <3> QED
      BY <3>2, <3>3, Zenon DEF SentSomething
  <2> QED
    BY <1>8, <2>1, AudienceKept DEF OrderInv
<1>10. SendersInv'
  <2>1. NoticesInv'
    BY <1>8, NoticesKept DEF OrderInv, SendersInv, NoticeStep
  <2>2. CurrentInv'
    BY <1>8 DEF OrderInv, SendersInv, CurrentInv
  <2>3. PublishedInv'
    BY <1>8 DEF OrderInv, SendersInv, PublishedInv
  <2> QED
    BY <2>1, <2>2, <2>3 DEF SendersInv
<1>11. QueueInv'
  BY <1>8 DEF OrderInv, QueueInv, Behind, InOrder
<1>12. InHandInv'
  <2>1. (inFlight # NoJob =>
           /\ Behind(inFlight.unit, inFlight.rev)
           /\ BehindQueue(queues[Target], inFlight.unit, inFlight.rev))'
    BY <1>8 DEF OrderInv, InHandInv, Behind, BehindQueue
  <2>2. (worker.phase = "sending" =>
          /\ worker.todo \in Seq(Clients) /\ Distinct(worker.todo)
          /\ \/ worker.message = Blank
             \/ worker.message = Message("translation",
                   [unit |-> inFlight.unit, rev |-> inFlight.rev,
                    final |-> inFlight.final]))'
    BY <1>1, <1>2, <1>8 DEF TranslationInHand, message
  <2> QED
    BY <2>1, <2>2 DEF InHandInv
<1>13. ASSUME NEW c \in Clients, StillToSend(c)'
       PROVE  c # first /\ StillToSend(c)
  <2>1. PICK i \in 1 .. Len(worker'.todo) : worker'.todo[i] = c
    BY <1>2, <1>13 DEF StillToSend
  <2>2. i \in 1 .. Len(rest) /\ rest[i] = c
    BY <1>2, <2>1
  <2> QED
    BY <1>1, <1>5, <2>2
<1>14. ASSUME NEW c \in Clients
       PROVE  \/ received'[c] = received[c]
              \/ /\ c = first /\ received'[c].kind = "translation"
                 /\ received'[c].caption.unit = inFlight.unit
                 /\ received'[c].caption.rev = inFlight.rev
  BY <1>3, <1>6 DEF OrderInv, AudienceInv
<1>15. Behind(inFlight.unit, inFlight.rev)
       /\ BehindQueue(queues[Target], inFlight.unit, inFlight.rev)
  BY DEF OrderInv, InHandInv
<1>16. ASSUME NEW c \in Clients, NEW unit \in Units, NEW r \in Nat, WasSent(c, unit, r)'
       PROVE  (/\ Behind(unit, r)
               /\ BehindQueue(queues[Target], unit, r)
               /\ inFlight # NoJob /\ inFlight.unit = unit =>
                    /\ r <= inFlight.rev
                    /\ StillToSend(c) => r < inFlight.rev)'
  <2>1. CASE received'[c] = received[c]
    <3>1. WasSent(c, unit, r)
      BY <1>16, <2>1 DEF WasSent
    <3>2. /\ Behind(unit, r)
          /\ BehindQueue(queues[Target], unit, r)
          /\ inFlight.unit = unit =>
               /\ r <= inFlight.rev
               /\ StillToSend(c) => r < inFlight.rev
      BY <3>1 DEF OrderInv, SentInv
    <3>3. Behind(unit, r)'
      BY <1>7, <3>2
    <3>4. StillToSend(c)' => StillToSend(c)
      BY <1>13
    <3> QED
      BY <1>8, <3>2, <3>3, <3>4 DEF BehindQueue
  <2>2. CASE /\ c = first /\ received'[c].kind = "translation"
             /\ received'[c].caption.unit = inFlight.unit
             /\ received'[c].caption.rev = inFlight.rev
    <3>1. unit = inFlight.unit /\ r = inFlight.rev
      BY <1>16, <2>2 DEF WasSent
    <3>2. ~StillToSend(c)'
      BY <1>13, <2>2
    <3>3. Behind(unit, r)' /\ BehindQueue(queues[Target], unit, r)
      BY <1>7, <1>15, <3>1
    <3>4. r <= inFlight'.rev
      BY <1>8, <3>1
    <3> QED
      BY <1>8, <3>2, <3>3, <3>4 DEF BehindQueue
  <2> QED
    BY <1>14, <2>1, <2>2
<1>17. SentInv'
  <2>1. \A c \in Clients :
          received'[c].kind = "translation" =>
             received'[c].caption.unit \in Units /\ received'[c].caption.rev \in Nat
    BY <1>4, <1>14 DEF OrderInv, SentInv
  <2> QED
    BY <1>16, <2>1 DEF SentInv
<1>18. StepInOrder
  <2> SUFFICES ASSUME NEW c \in Clients, received[c] # received'[c],
                      received[c].kind = "translation",
                      received[c].caption.unit = received'[c].caption.unit
               PROVE  received[c].caption.rev < received'[c].caption.rev
    BY DEF StepInOrder
  <2>1. /\ c = first /\ received'[c].caption.unit = inFlight.unit
        /\ received'[c].caption.rev = inFlight.rev
    BY <1>14
  <2>2. PICK unit \in Units : unit = received[c].caption.unit
    BY DEF OrderInv, SentInv
  <2>3. PICK r \in Nat : r = received[c].caption.rev
    BY DEF OrderInv, SentInv
  <2>4. WasSent(c, unit, r)
    BY <2>2, <2>3 DEF WasSent
  <2>5. inFlight.unit = unit /\ StillToSend(c)
    BY <1>5, <2>1, <2>2
  <2>6. r < inFlight.rev
    BY <2>4, <2>5 DEF OrderInv, SentInv
  <2> QED
    BY <2>1, <2>3, <2>6
<1> QED
  BY <1>9, <1>10, <1>11, <1>12, <1>17, <1>18 DEF OrderInv

LEMMA WorkerOrder ==
    ASSUME HubInv, OrderInv, Worker
    PROVE  OrderInv' /\ StepInOrder
<1>1. CASE WorkerWake
  BY <1>1, LoopOrder DEF WorkerWake, audienceVars, privacyVars
<1>2. CASE WorkerTranslated
  <2> DEFINE to == ClientsOf(clients, Target)
  <2>1. UNCHANGED <<audienceVars, privacyVars, pub, notices>>
        /\ worker.phase = "translating"
    BY <1>2 DEF WorkerTranslated
  <2>2. /\ clients' = clients /\ notices' = notices /\ current' = current /\ pub' = pub
        /\ born' = born /\ ledger' = ledger
    BY <2>1 DEF audienceVars, privacyVars
  <2>3. CASE RunLoop(clients) /\ UNCHANGED received
    BY <2>2, <2>3, LoopOrder
  <2>4. ASSUME to # <<>>, UNCHANGED <<schedulerVars, inFlight>>, NEW message,
               message = TranslationInHand \/ message = Blank,
               received' = ReceivedAfter(Sending(to, message)),
               worker' = AfterSend(Sending(to, message))
        PROVE  OrderInv' /\ StepInOrder
    <3>1. to \in Seq(Clients) /\ Distinct(to)
      BY ViewersFacts DEF OrderInv, AudienceInv
    <3> HIDE DEF to
    <3> DEFINE t == Sending(to, message)
    <3>2. IsTask(t) /\ t.phase = "sending" /\ t.todo = to /\ t.message = message
      BY SendingFacts DEF Sending
    <3>3. received' = ReceivedAfter(t) /\ worker' = AfterSend(t)
      BY <2>4
    <3> HIDE DEF t
    <3>4. \A i \in 1 .. Len(t.todo) : StillToSend(t.todo[i])
      BY <2>1 DEF StillToSend
    <3>5. inFlight # NoJob
      BY <2>1 DEF HubInv, WorkerInv
    <3> QED
      BY <2>2, <2>4, <3>1, <3>2, <3>3, <3>4, <3>5, SendOrder
  <2> QED
    BY <1>2, <2>3, <2>4 DEF WorkerTranslated, TranslationInHand
<1>3. CASE WorkerSend
  <2>1. /\ worker.phase = "sending" /\ worker.todo # <<>>
        /\ received' = ReceivedAfter(worker) /\ worker' = AfterSend(worker)
        /\ UNCHANGED <<schedulerVars, inFlight, born, ledger, pub, current,
                       notices, clients>>
    BY <1>3 DEF WorkerSend, audienceVars, privacyVars
  <2>2. /\ worker.todo \in Seq(Clients) /\ Distinct(worker.todo)
        /\ worker.message = Blank \/ worker.message = TranslationInHand
    BY <2>1 DEF OrderInv, InHandInv, TranslationInHand
  <2>3. IsTask(worker) /\ inFlight # NoJob
    BY <2>1 DEF HubInv, WorkerInv
  <2>4. \A i \in 1 .. Len(worker.todo) : StillToSend(worker.todo[i])
    BY <2>1 DEF StillToSend
  <2> QED
    BY <2>1, <2>2, <2>3, <2>4, SendOrder
<1>4. CASE WorkerFinish
  BY <1>4, LoopOrder DEF WorkerFinish, privacyVars
<1> QED
  BY <1>1, <1>2, <1>3, <1>4 DEF Worker

-----------------------------------------------------------------------------
LEMMA OrderStarts ==
    ASSUME Init
    PROVE  OrderInv
<1>1. AudienceInv
  <2>1. clients = <<>> /\ received = [c \in Clients |-> Absent]
    BY DEF Init
  <2> QED
    BY <2>1 DEF AudienceInv, Distinct
<1>2. CurrentInv
  BY DEF Init, CurrentInv, Blank, Message
<1>3. NoticesInv
  <2>1. notices = [k \in Requests |-> NoTask]
    BY DEF Init
  <2> QED
    BY <2>1, NoTaskFacts DEF NoticesInv, IsTask
<1>4. PublishedInv
  BY NoTaskFacts DEF Init, PublishedInv
<1>5. QueueInv
  <2>1. queues[Target] = <<>>
    BY HubAssumption DEF Init, SchedulerInit
  <2> QED
    BY <2>1 DEF QueueInv, InOrder
<1>6. InHandInv
  BY NoTaskFacts DEF Init, InHandInv
<1>7. SentInv
  <2>1. \A c \in Clients : received[c].kind = "absent"
    BY DEF Init, Absent, Message
  <2> QED
    BY <2>1 DEF SentInv, WasSent
<1> QED
  BY <1>1, <1>2, <1>3, <1>4, <1>5, <1>6, <1>7 DEF OrderInv, SendersInv

LEMMA OrderStep ==
    ASSUME HubInv, OrderInv, [Next]_vars
    PROVE  OrderInv' /\ StepInOrder
<1>1. CASE Worker
  BY <1>1, WorkerOrder
<1>2. CASE Publisher
  BY <1>2, PublishSegmentOrder, PublishSendOrder, PublishQueueOrder DEF Publisher
<1>3. CASE Operator
  BY <1>3, EraseOrder, NoticeOrder, RunOrder DEF Operator
<1>4. CASE Audience
  BY <1>4, AudienceOrder DEF Audience
<1>5. CASE UNCHANGED vars
  BY <1>5, PlainOrder
    DEF vars, schedulerVars, audienceVars, privacyVars, workerVars
<1> QED
  BY <1>1, <1>2, <1>3, <1>4, <1>5 DEF Next

(* TranslationsInOrder: a viewer that reads a translation is sent the      *)
(* revisions of a cue in growing order and none twice, however the worker, *)
(* the publisher, blanks, clears, Stop and restarts interleave.            *)
THEOREM TranslationsKeptInOrder == Spec => TranslationsInOrder
<1>1. Init => OrderInv
  BY OrderStarts
<1>2. HubInv /\ OrderInv /\ [Next]_vars => OrderInv' /\ [StepInOrder]_vars
  BY OrderStep
<1>3. Spec => []HubInv
  BY HubCorrect
<1>4. Spec => [][StepInOrder]_vars
  BY <1>1, <1>2, <1>3, PTL DEF Spec
<1> QED
  BY <1>4 DEF TranslationsInOrder, StepInOrder

-----------------------------------------------------------------------------
(* Source units: the operators.                                            *)

(* A bounded set of integers has a largest element.                        *)
LEMMA LargestFacts ==
    ASSUME NEW S \in SUBSET Int, S # {}, NEW bound \in Int, \A x \in S : x <= bound
    PROVE  Largest(S) \in S /\ \A x \in S : x <= Largest(S)
<1> DEFINE T == {bound - x : x \in S}
<1>1. T \in SUBSET Nat /\ T # {}
  <2>1. \A x \in S : bound - x \in Nat
    OBVIOUS
  <2> QED
    BY <2>1
<1>2. PICK t \in T : \A u \in T : t <= u
  <2> HIDE DEF T
  <2> QED
    BY <1>1, LeastElement
<1>3. PICK x \in S : t = bound - x
  OBVIOUS
<1>4. ASSUME NEW y \in S
      PROVE  y <= x
  <2>1. bound - y \in T
    OBVIOUS
  <2>2. bound - x <= bound - y
    BY <1>2, <1>3, <2>1
  <2> QED
    BY <2>2
<1> QED
  BY <1>4 DEF Largest

LEMMA LargestOfThree ==
    ASSUME NEW a \in Int, NEW b \in Int, NEW c \in Int, NEW S, S = {a, b, c}
    PROVE  /\ Largest(S) \in S
           /\ a <= Largest(S) /\ b <= Largest(S) /\ c <= Largest(S)
<1>1. S \in SUBSET Int /\ S # {}
  OBVIOUS
<1>2. PICK bound \in {a, b, c} : a <= bound /\ b <= bound /\ c <= bound
  <2>1. CASE a <= b /\ c <= b
    BY <2>1
  <2>2. CASE a <= c /\ b <= c
    BY <2>2
  <2>3. CASE b <= a /\ c <= a
    BY <2>3
  <2> QED
    BY <2>1, <2>2, <2>3
<1>3. bound \in Int /\ \A x \in S : x <= bound
  BY <1>2
<1> QED
  BY <1>1, <1>3, LargestFacts

LEMMA SmallestFacts ==
    ASSUME NEW S \in SUBSET Nat, S # {}
    PROVE  Smallest(S) \in S /\ \A x \in S : Smallest(S) <= x
<1> QED
  BY LeastElement DEF Smallest

LEMMA LengthsBounded ==
    \A n \in Nat : \A f \in [1 .. n -> Int] :
        \E bound \in Int : \A i \in 1 .. n : f[i] <= bound
<1> DEFINE T == {n \in Nat : \A f \in [1 .. n -> Int] :
                    \E bound \in Int : \A i \in 1 .. n : f[i] <= bound}
<1>1. 0 \in T
  OBVIOUS
<1>2. ASSUME NEW n \in T
      PROVE  n + 1 \in T
  <2>1. n \in Nat /\ n + 1 \in Nat
    OBVIOUS
  <2>2. ASSUME NEW f \in [1 .. n + 1 -> Int]
        PROVE  \E bound \in Int : \A i \in 1 .. n + 1 : f[i] <= bound
    <3> DEFINE g == [i \in 1 .. n |-> f[i]]
    <3>1. g \in [1 .. n -> Int]
      BY <2>1
    <3>2. PICK b \in Int : \A i \in 1 .. n : g[i] <= b
      BY <3>1
    <3>3. f[n + 1] \in Int
      BY <2>1
    <3>4. \A i \in 1 .. n + 1 : i \in 1 .. n \/ i = n + 1
      BY <2>1
    <3>5. \A i \in 1 .. n : f[i] <= b /\ f[i] \in Int
      BY <2>1, <3>2
    <3>6. CASE f[n + 1] <= b
      BY <3>4, <3>5, <3>6
    <3>7. CASE b <= f[n + 1]
      <4>1. \A i \in 1 .. n + 1 : f[i] <= f[n + 1]
        BY <3>3, <3>4, <3>5, <3>7
      <4> QED
        BY <3>3, <4>1
    <3> QED
      BY <3>3, <3>6, <3>7
  <2> QED
    BY <2>1, <2>2
<1>3. T \in SUBSET Nat
  OBVIOUS
<1>4. T = Nat
  <2> HIDE DEF T
  <2> QED
    BY <1>1, <1>2, <1>3, Induction
<1> QED
  BY <1>4

(* LastEnd is at least what it was and the end of every token.             *)
LEMMA LastEndFacts ==
    ASSUME NEW tokens \in Seq(Token), NEW before \in Nat, timed \in BOOLEAN
    PROVE  /\ LastEnd(tokens, before) \in Nat
           /\ before <= LastEnd(tokens, before)
           /\ timed => \A i \in 1 .. Len(tokens) :
                          tokens[i].end <= LastEnd(tokens, before)
           /\ \A limit \in Nat :
                 /\ before <= limit
                 /\ timed => \A i \in 1 .. Len(tokens) : tokens[i].end <= limit
                 => LastEnd(tokens, before) <= limit
<1>1. CASE tokens = <<>> \/ ~timed
  <2>1. LastEnd(tokens, before) = before
    BY <1>1 DEF LastEnd
  <2> QED
    BY <1>1, <2>1
<1>2. CASE ~(tokens = <<>> \/ ~timed)
  <2> DEFINE f == [i \in 1 .. Len(tokens) |-> tokens[i].end]
             S == {before} \union {tokens[i].end : i \in 1 .. Len(tokens)}
  <2>1. \A i \in 1 .. Len(tokens) : tokens[i].end \in Int
    <3>1. \A i \in 1 .. Len(tokens) : tokens[i] \in Token
      OBVIOUS
    <3> QED
      BY <3>1 DEF Token
  <2>2. f \in [1 .. Len(tokens) -> Int] /\ Len(tokens) \in Nat
    BY <2>1
  <2>3. PICK bound \in Int : \A i \in 1 .. Len(tokens) : f[i] <= bound
    <3> HIDE DEF f
    <3> QED
      BY <2>2, LengthsBounded
  <2>4. \A i \in 1 .. Len(tokens) : tokens[i].end <= bound
    BY <2>3
  <2>5. S \in SUBSET Int /\ S # {}
    BY <2>1
  <2>6. \E b \in Int : \A x \in S : x <= b
    <3>1. CASE before <= bound
      <4>1. ASSUME NEW x \in S
            PROVE  x <= bound
        <5>1. x = before \/ \E i \in 1 .. Len(tokens) : x = tokens[i].end
          OBVIOUS
        <5> QED
          BY <2>4, <3>1, <5>1
      <4> HIDE DEF S
      <4> QED
        BY <4>1
    <3>2. CASE bound <= before
      <4>1. \A i \in 1 .. Len(tokens) : tokens[i].end <= before
        BY <2>1, <2>4, <3>2
      <4>2. \A x \in S : x = before \/ \E i \in 1 .. Len(tokens) : x = tokens[i].end
        OBVIOUS
      <4> HIDE DEF S
      <4>3. \A x \in S : x <= before
        BY <4>1, <4>2
      <4> QED
        BY <4>3
    <3> QED
      BY <3>1, <3>2
  <2>7. LastEnd(tokens, before) = Largest(S)
    BY <1>2 DEF LastEnd
  <2>8. Largest(S) \in S /\ \A x \in S : x <= Largest(S)
    <3> HIDE DEF S
    <3> QED
      BY <2>5, <2>6, LargestFacts
  <2>9. /\ before <= Largest(S)
        /\ \A i \in 1 .. Len(tokens) : tokens[i].end <= Largest(S)
    BY <2>8
  <2>10. Largest(S) = before \/ \E i \in 1 .. Len(tokens) : Largest(S) = tokens[i].end
    BY <2>8
  <2>11. Largest(S) \in Int
    BY <2>5, <2>8
  <2> HIDE DEF S
  <2>12. Largest(S) \in Nat
    BY <2>9, <2>11
  <2> QED
    BY <1>2, <2>7, <2>9, <2>10, <2>12
<1> QED
  BY <1>1, <1>2

-----------------------------------------------------------------------------
(* The recogniser's hypotheses and their agreement.                        *)

LEMMA HypothesisTyped ==
    ASSUME UnitsTypeOK, NEW mishears \in BOOLEAN, NEW shift \in Jitter
    PROVE  Hypothesis(mishears, shift) \in Seq(Token)
<1> DEFINE all == [p \in Positions |-> TokenAt(p, mishears /\ p = wordsSpoken, shift)]
           S == {from, wordsSpoken - WindowWords + 1, sealedEnd \div WordTicks}
<1>1. /\ Len(Speech) \in Nat /\ shift \in Int
      /\ WordTicks \in Nat \ {0} /\ WindowWords \in Nat
      /\ Positions = 1 .. Len(Speech)
  BY SpeechAssumption DEF Positions
<1>2. ASSUME NEW p \in Positions, NEW misheard \in BOOLEAN
      PROVE  TokenAt(p, misheard, shift) \in Token
  <2>1. Speech[p].stop \in BOOLEAN
    BY SpeechAssumption
  <2>2. (p - 1) * WordTicks + shift \in Int /\ p * WordTicks + shift \in Int
    BY <1>1
  <2>3. (IF misheard THEN Speech[p].misheard ELSE Speech[p].norm)
           \in {Speech[q].norm : q \in Positions} \union {Speech[q].misheard : q \in Positions}
    OBVIOUS
  <2> QED
    BY <2>1, <2>2, <2>3 DEF TokenAt, Token
<1>3. all \in [1 .. Len(Speech) -> Token]
  BY <1>1, <1>2
<1>4. all \in Seq(Token) /\ Len(all) = Len(Speech)
  <2> HIDE DEF all
  <2> QED
    BY <1>1, <1>3
<1>5. /\ from \in 1 .. Len(Speech) + 1 /\ wordsSpoken \in 0 .. Len(Speech)
      /\ sealedEnd \in Nat
  BY DEF UnitsTypeOK
<1>6. sealedEnd \div WordTicks \in Int
  BY <1>1, <1>5
<1>9. Largest(S) \in Int /\ Largest(S) >= 1
  <2> DEFINE a == wordsSpoken - WindowWords + 1
             c == sealedEnd \div WordTicks
  <2>1. from \in Int /\ from >= 1 /\ a \in Int /\ c \in Int /\ S = {from, a, c}
    BY <1>1, <1>5, <1>6
  <2> HIDE DEF a, c, S
  <2>2. \A x \in S : x \in Int
    BY <2>1
  <2>3. Largest(S) \in S /\ from <= Largest(S) /\ from >= 1
    BY <2>1, LargestOfThree
  <2> QED
    BY <2>1, <2>2, <2>3
<1>10. Hypothesis(mishears, shift) = SubSeq(all, Largest(S), wordsSpoken)
  BY DEF Hypothesis, WindowStart
<1> HIDE DEF all, S
<1> QED
  BY <1>4, <1>5, <1>9, <1>10, PartFacts

LEMMA StripTyped ==
    ASSUME UnitsTypeOK, NEW tokens \in Seq(Token)
    PROVE  StripCommittedOverlap(tokens) \in Seq(Token)
<1> DEFINE later == Filter(tokens, {t \in Token : t.end > committedEnd + tolerance})
           context == SubSeq(remembered,
                       Largest({1, Len(remembered) - contextWords + 1}),
                       Len(remembered))
           Overlaps(size) ==
            /\ size <= Len(context) /\ size <= Len(tokens)
            /\ \A i \in 1 .. size : Same(context[Len(context) - size + i], tokens[i])
           sizes == {size \in 0 .. Len(tokens) : Overlaps(size)}
           overlap == Largest(sizes)
<1>1. later \in Seq(Token)
  BY FilterFacts
<1>2. remembered \in Seq(Token) /\ contextWords \in Nat
  BY LimitsAssumption DEF UnitsTypeOK
<1>3. Len(context) \in Nat
  <2> DEFINE x == Len(remembered) - contextWords + 1
             S == {1, x}
             start == Largest(S)
  <2>1. Len(remembered) \in Nat /\ x \in Int
    BY <1>2
  <2> HIDE DEF x
  <2>2. S = {1, x, x} /\ \A y \in S : y \in Int
    BY <2>1
  <2> HIDE DEF S
  <2>3. start \in Int /\ start >= 1
    BY <2>1, <2>2, LargestOfThree
  <2> HIDE DEF start
  <2>4. SubSeq(remembered, start, Len(remembered)) \in Seq(Token)
    BY <1>2, <2>1, <2>3, PartFacts
  <2>5. context \in Seq(Token)
    BY <2>4 DEF start, S, x
  <2> HIDE DEF context
  <2> QED
    BY <2>5
<1> HIDE DEF context
<1>4. sizes \in SUBSET Int /\ 0 \in sizes /\ \A x \in sizes : x <= Len(tokens)
  BY <1>3
<1>5. sizes \in SUBSET (0 .. Len(tokens)) /\ Len(tokens) \in Int
  OBVIOUS
<1> HIDE DEF sizes
<1>6. overlap \in 0 .. Len(tokens)
  BY <1>4, <1>5, LargestFacts
<1> HIDE DEF overlap
<1>7. SubSeq(tokens, overlap + 1, Len(tokens)) \in Seq(Token)
  BY <1>6, PartFacts
<1>8. StripCommittedOverlap(tokens) \in
         {later, SubSeq(tokens, overlap + 1, Len(tokens))}
  BY DEF StripCommittedOverlap, overlap, sizes, context
<1> HIDE DEF later
<1> QED
  BY <1>1, <1>7, <1>8

LEMMA AgreementFacts ==
    ASSUME NEW previous \in Seq(Token), NEW newest \in Seq(Token),
           NEW i \in 1 .. Len(previous) + 1, NEW j \in 1 .. Len(newest) + 1
    PROVE  /\ Agreement(previous, i, newest, j) \in 0 .. Len(newest)
           /\ j + Agreement(previous, i, newest, j) - 1 <= Len(newest)
<1> DEFINE S == {n \in 0 .. Len(newest) :
                /\ i + n - 1 <= Len(previous) /\ j + n - 1 <= Len(newest)
                /\ \A k \in 0 .. n - 1 : Same(previous[i + k], newest[j + k])}
<1>1. /\ S \in SUBSET Int /\ 0 \in S /\ Len(newest) \in Int
      /\ \A x \in S : /\ x \in 0 .. Len(newest) /\ x <= Len(newest)
                      /\ j + x - 1 <= Len(newest)
  OBVIOUS
<1>2. Agreement(previous, i, newest, j) = Largest(S)
  BY DEF Agreement
<1> HIDE DEF S
<1>3. Largest(S) \in S
  BY <1>1, LargestFacts
<1> QED
  BY <1>1, <1>2, <1>3

(* The first of the longest common runs is a pair of positions.            *)
LEMMA AlignmentFacts ==
    ASSUME NEW previous \in Seq(Token), NEW newest \in Seq(Token),
           CanAlign(previous, newest)
    PROVE  TimedAlignment(previous, newest)
              \in (1 .. Len(previous)) \X (1 .. Len(newest))
<1> DEFINE Candidates == {c \in (1 .. Len(previous)) \X (1 .. Len(newest)) :
                             Aligned(previous, c[1], newest, c[2])}
           Run(c) == Agreement(previous, c[1], newest, c[2])
           runs == {Run(c) : c \in Candidates}
           longest == Largest(runs)
           Best == {c \in Candidates : Run(c) = longest}
           First(c) == \A d \in Best : c[1] < d[1] \/ (c[1] = d[1] /\ c[2] <= d[2])
<1>1. Candidates # {}
  <2>1. PICK i \in 1 .. Len(previous), j \in 1 .. Len(newest) :
               Aligned(previous, i, newest, j)
    BY DEF CanAlign
  <2>2. <<i, j>> \in Candidates
    BY <2>1
  <2> QED
    BY <2>2
<1>2. \A c \in Candidates : Run(c) \in 0 .. Len(newest)
  <2> TAKE c \in Candidates
  <2>1. c[1] \in 1 .. Len(previous) + 1 /\ c[2] \in 1 .. Len(newest) + 1
    OBVIOUS
  <2> QED
    BY <2>1, AgreementFacts
<1>3. \A c \in Candidates : c[1] \in Nat /\ c[2] \in Nat
                            /\ c \in (1 .. Len(previous)) \X (1 .. Len(newest))
  OBVIOUS
<1> HIDE DEF Candidates, Run
<1>4. runs \in SUBSET Int /\ runs # {} /\ Len(newest) \in Int
      /\ \A x \in runs : x <= Len(newest)
  BY <1>1, <1>2
<1>5. longest \in runs
  <2> HIDE DEF runs
  <2> QED
    BY <1>4, LargestFacts
<1>6. Best # {} /\ Best \subseteq Candidates
  BY <1>5
<1> HIDE DEF longest, runs
<1>7. PICK x \in {c[1] : c \in Best} : \A y \in {c[1] : c \in Best} : x <= y
  <2>1. {c[1] : c \in Best} \in SUBSET Nat /\ {c[1] : c \in Best} # {}
    BY <1>3, <1>6
  <2> QED
    BY <2>1, LeastElement
<1> DEFINE Seconds == {c[2] : c \in {d \in Best : d[1] = x}}
<1>8. PICK z \in Seconds : \A y \in Seconds : z <= y
  <2>1. Seconds \in SUBSET Nat /\ Seconds # {}
    BY <1>3, <1>6, <1>7
  <2> HIDE DEF Seconds
  <2> QED
    BY <2>1, LeastElement
<1>9. PICK c \in Best : c[1] = x /\ c[2] = z
  BY <1>8
<1>10. First(c)
  <2> SUFFICES ASSUME NEW d \in Best
               PROVE  c[1] < d[1] \/ (c[1] = d[1] /\ c[2] <= d[2])
    OBVIOUS
  <2>1. c[1] <= d[1] /\ c[1] \in Nat /\ d[1] \in Nat
    BY <1>3, <1>6, <1>7, <1>9
  <2>2. c[1] = d[1] => c[2] <= d[2]
    BY <1>8, <1>9
  <2> QED
    BY <2>1, <2>2
<1>11. TimedAlignment(previous, newest) = CHOOSE b \in Best : First(b)
  BY DEF TimedAlignment, Best, Candidates, Run, longest, runs
<1>12. TimedAlignment(previous, newest) \in Best
  <2> HIDE DEF Best, First
  <2> QED
    BY <1>10, <1>11
<1> QED
  BY <1>3, <1>6, <1>12

LEMMA ConfirmTyped ==
    ASSUME UnitsTypeOK, NEW newest \in Seq(Token), NEW final \in BOOLEAN
    PROVE  /\ Confirm(newest, final).tokens \in Seq(Token)
           /\ Confirm(newest, final).tail \in Seq(Token)
<1>1. pending \in Seq(Token) /\ Len(pending) \in Nat /\ Len(newest) \in Nat
  BY DEF UnitsTypeOK
<1>2. CASE final
  BY <1>2 DEF Confirm
<1>3. CASE ~final /\ CanAlign(pending, newest)
  <2> DEFINE c == TimedAlignment(pending, newest)
             n == Agreement(pending, c[1], newest, c[2])
  <2>1. c[1] \in 1 .. Len(pending) /\ c[2] \in 1 .. Len(newest)
    BY <1>1, <1>3, AlignmentFacts
  <2> HIDE DEF c
  <2>5. c[1] \in 1 .. Len(pending) + 1 /\ c[2] \in 1 .. Len(newest) + 1
    BY <1>1, <2>1
  <2>2. n \in 0 .. Len(newest) /\ c[2] + n - 1 <= Len(newest)
    BY <1>1, <2>5, AgreementFacts
  <2> HIDE DEF n
  <2>3. /\ SubSeq(pending, 1, c[1] - 1) \in Seq(Token)
        /\ SubSeq(newest, c[2], c[2] + n - 1) \in Seq(Token)
        /\ SubSeq(newest, c[2] + n, Len(newest)) \in Seq(Token)
    <3>1. SubSeq(pending, 1, c[1] - 1) \in Seq(Token)
      BY <1>1, <2>1, PartFacts
    <3>2. SubSeq(newest, c[2], c[2] + n - 1) \in Seq(Token)
      BY <1>1, <2>1, <2>2, PartFacts
    <3>3. SubSeq(newest, c[2] + n, Len(newest)) \in Seq(Token)
      BY <1>1, <2>1, <2>2, PartFacts
    <3> QED
      BY <3>1, <3>2, <3>3
  <2>4. Confirm(newest, final) =
          [tokens |-> SubSeq(pending, 1, c[1] - 1)
                             \o SubSeq(newest, c[2], c[2] + n - 1),
           tail |-> SubSeq(newest, c[2] + n, Len(newest))]
    BY <1>3 DEF Confirm, c, n
  <2> QED
    BY <2>3, <2>4
<1>4. CASE ~final /\ ~CanAlign(pending, newest)
  <2> DEFINE n == Agreement(pending, 1, newest, 1)
  <2>1. n \in 0 .. Len(newest)
    BY <1>1, AgreementFacts
  <2> HIDE DEF n
  <2>2. SubSeq(newest, 1, n) \in Seq(Token) /\ SubSeq(newest, n + 1, Len(newest)) \in Seq(Token)
    BY <1>1, <2>1, PartFacts
  <2>3. Fallen(pending, newest) \in Seq(Token)
    BY <1>1, FilterFacts DEF Fallen
  <2>4. \/ Confirm(newest, final) = [tokens |-> SubSeq(newest, 1, n),
                                      tail |-> SubSeq(newest, n + 1, Len(newest))]
        \/ Confirm(newest, final) = [tokens |-> Fallen(pending, newest), tail |-> newest]
    BY <1>4 DEF Confirm, n
  <2> HIDE DEF n
  <2>5. CASE Confirm(newest, final) = [tokens |-> SubSeq(newest, 1, n),
                                        tail |-> SubSeq(newest, n + 1, Len(newest))]
    BY <2>2, <2>5
  <2>6. CASE Confirm(newest, final) = [tokens |-> Fallen(pending, newest), tail |-> newest]
    BY <2>3, <2>6
  <2> QED
    BY <2>4, <2>5, <2>6
<1> QED
  BY <1>2, <1>3, <1>4

-----------------------------------------------------------------------------
(* Sealing.                                                                *)

(* No sentence ends in the first tokens that may make a cue.               *)
NoStop(tokens) ==
    \A i \in punctuation_minimum_words .. Len(tokens) : ~tokens[i].stop

LEMMA BoundaryFacts ==
    ASSUME NEW tokens \in Seq(Token), NEW force \in BOOLEAN
    PROVE  /\ Boundary(tokens, force) \in 0 .. Len(tokens)
           /\ Boundary(tokens, force) = 0 =>
                \/ tokens = <<>>
                \/ ~force /\ Len(tokens) < maximum_words /\ NoStop(tokens)
<1> DEFINE limit == Smallest({Len(tokens), maximum_words})
           stops == {i \in punctuation_minimum_words .. limit : tokens[i].stop}
<1>1. /\ Len(tokens) \in Nat /\ maximum_words \in Nat /\ maximum_words # 0
      /\ punctuation_minimum_words \in Nat /\ punctuation_minimum_words # 0
      /\ minimum_words \in Nat \ {0}
  BY LimitsAssumption
<1>2. limit \in {Len(tokens), maximum_words} /\ limit <= Len(tokens) /\ limit <= maximum_words
  <2> DEFINE S == {Len(tokens), maximum_words}
  <2>1. S \in SUBSET Nat /\ S # {} /\ Len(tokens) \in S /\ maximum_words \in S
    BY <1>1
  <2> HIDE DEF S
  <2>2. Smallest(S) \in S /\ \A x \in S : Smallest(S) <= x
    BY <2>1, SmallestFacts
  <2> QED
    BY <2>1, <2>2 DEF S
<1> HIDE DEF limit
<1>3. CASE tokens = <<>>
  BY <1>1, <1>3 DEF Boundary
<1>4. CASE tokens # <<>> /\ force
  BY <1>1, <1>4 DEF Boundary
<1>5. CASE tokens # <<>> /\ ~force /\ stops # {}
  <2>1. stops \in SUBSET Nat /\ stops \subseteq 1 .. Len(tokens)
    BY <1>1, <1>2
  <2>2. Boundary(tokens, force) = Smallest(stops)
    BY <1>5 DEF Boundary, limit
  <2> HIDE DEF stops
  <2>3. Smallest(stops) \in stops
    BY <1>5, <2>1, SmallestFacts
  <2>4. Smallest(stops) \in 1 .. Len(tokens)
    BY <2>1, <2>3
  <2>5. Boundary(tokens, force) \in 0 .. Len(tokens) /\ Boundary(tokens, force) # 0
    BY <1>1, <2>2, <2>4
  <2> QED
    BY <2>5
<1>6. CASE tokens # <<>> /\ ~force /\ stops = {}
  <2>1. \/ Len(tokens) >= maximum_words /\ Boundary(tokens, force) = maximum_words
        \/ Boundary(tokens, force) = Len(tokens)
        \/ Len(tokens) < maximum_words /\ Boundary(tokens, force) = 0
    <3>1. Boundary(tokens, force) =
            IF Len(tokens) >= maximum_words THEN maximum_words
            ELSE IF timed /\ tokens[Len(tokens)].end - tokens[1].start >= maximum_duration
            THEN Len(tokens) ELSE 0
      BY <1>6 DEF Boundary, limit
    <3>2. Len(tokens) >= maximum_words \/ Len(tokens) < maximum_words
      BY <1>1
    <3> QED
      BY <3>1, <3>2
  <2>2. ASSUME Len(tokens) < maximum_words
        PROVE  NoStop(tokens)
    <3>1. limit = Len(tokens)
      BY <1>1, <1>2, <2>2
    <3> QED
      BY <1>6, <3>1 DEF NoStop
  <2>3. Len(tokens) # 0
    BY <1>6
  <2> HIDE DEF stops
  <2>4. Boundary(tokens, force) \in 0 .. Len(tokens)
    BY <1>1, <2>1
  <2>5. Boundary(tokens, force) = 0 => Len(tokens) < maximum_words
    BY <1>1, <2>1, <2>3
  <2> QED
    BY <1>6, <2>2, <2>4, <2>5
<1> QED
  BY <1>3, <1>4, <1>5, <1>6

(* The open cue is not cut: a boundary lies behind what was confirmed when *)
(* there was none.                                                         *)
LEMMA BoundaryBehind ==
    ASSUME NEW open \in Seq(Token), NEW more \in Seq(Token), NEW force \in BOOLEAN,
           Len(open) < maximum_words, NoStop(open),
           Boundary(open \o more, force) # 0
    PROVE  Len(open) <= Boundary(open \o more, force)
<1> DEFINE tokens == open \o more
           limit == Smallest({Len(tokens), maximum_words})
           stops == {i \in punctuation_minimum_words .. limit : tokens[i].stop}
<1>1. /\ Len(open) \in Nat /\ Len(tokens) \in Nat /\ Len(open) <= Len(tokens)
      /\ \A i \in 1 .. Len(open) : tokens[i] = open[i]
      /\ maximum_words \in Nat
      /\ punctuation_minimum_words \in Nat /\ punctuation_minimum_words # 0
  BY LimitsAssumption
<1>2. CASE ~force /\ tokens # <<>> /\ stops # {}
  <2>1. limit \in Nat
    <3>1. {Len(tokens), maximum_words} \in SUBSET Nat
      BY <1>1
    <3> QED
      BY <3>1, SmallestFacts
  <2>2. stops \in SUBSET Nat
    BY <1>1
  <2>3. Smallest(stops) \in stops
    <3> HIDE DEF stops
    <3> QED
      BY <1>2, <2>2, SmallestFacts
  <2>4. Boundary(tokens, force) = Smallest(stops)
    BY <1>2 DEF Boundary
  <2> HIDE DEF tokens, limit
  <2>5. ASSUME NEW i \in stops, i < Len(open)
        PROVE  FALSE
    <3>1. i \in 1 .. Len(open) /\ i \in punctuation_minimum_words .. Len(open)
      BY <1>1, <2>1, <2>5
    <3>2. tokens[i].stop /\ tokens[i] = open[i]
      BY <1>1, <3>1
    <3> QED
      BY <3>1, <3>2 DEF NoStop
  <2>6. Smallest(stops) \in Nat
    BY <2>2, <2>3
  <2> HIDE DEF stops
  <2>7. ~(Smallest(stops) < Len(open))
    BY <2>3, <2>5
  <2> QED
    BY <1>1, <2>4, <2>6, <2>7 DEF tokens
<1>3. CASE ~(~force /\ tokens # <<>> /\ stops # {})
  <2>1. Boundary(tokens, force) \in {0, Len(tokens), maximum_words}
    BY <1>3 DEF Boundary
  <2> HIDE DEF tokens
  <2> QED
    BY <1>1, <2>1 DEF tokens
<1> QED
  BY <1>2, <1>3

(* How SealReady cuts: the ends of the cues, and how many there are.       *)
After(tokens, end) == SubSeq(tokens, end + 1, Len(tokens))

IsCutting(end, tokens, force) ==
    /\ end \in [Nat -> 0 .. Len(tokens)]
    /\ end[0] = 0
    /\ \A n \in Nat : end[n + 1] = end[n] + Boundary(After(tokens, end[n]), force)

CutsOf(tokens, end) == {n \in 0 .. Len(tokens) : end[n + 1] = end[n]}

Cut(tokens, end, count) ==
    [cues |-> [i \in 1 .. count |-> SubSeq(tokens, end[i - 1] + 1, end[i])],
     sealed |-> SubSeq(tokens, 1, end[count]),
     open |-> SubSeq(tokens, end[count] + 1, Len(tokens))]

LEMMA CuttingExists ==
    ASSUME NEW tokens \in Seq(Token), NEW force \in BOOLEAN
    PROVE  \E end :
              /\ IsCutting(end, tokens, force)
              /\ SealReady(tokens, force) =
                    Cut(tokens, end, Smallest(CutsOf(tokens, end)))
<1> DEFINE V == 0 .. Len(tokens)
           step == [p \in Nat \X V |-> p[2] + Boundary(After(tokens, p[2]), force)]
           Body(f) == [n \in Nat |->
                          IF n = 0 THEN 0
                          ELSE f[n - 1] + Boundary(SubSeq(tokens, f[n - 1] + 1, Len(tokens)),
                                                   force)]
           end == CHOOSE f : f = Body(f)
<1>1. ASSUME NEW e \in V
      PROVE  e + Boundary(After(tokens, e), force) \in V
  <2>1. e \in Nat /\ e <= Len(tokens) /\ Len(tokens) \in Nat
    OBVIOUS
  <2>2. After(tokens, e) \in Seq(Token) /\ Len(After(tokens, e)) = Len(tokens) - e
    BY <2>1, PartFacts DEF After
  <2>3. Boundary(After(tokens, e), force) \in 0 .. Len(tokens) - e
    BY <2>2, BoundaryFacts
  <2> HIDE DEF V
  <2>4. e + Boundary(After(tokens, e), force) \in 0 .. Len(tokens)
    BY <2>1, <2>3
  <2> QED
    BY <2>4 DEF V
<1>2. step \in [Nat \X V -> V] /\ 0 \in V
  <2>1. 0 \in V
    OBVIOUS
  <2> HIDE DEF V
  <2>2. \A p \in Nat \X V : p[2] \in V
    OBVIOUS
  <2> QED
    BY <1>1, <2>1, <2>2
<1>3. PICK f : IsRecursive(f, V, 0, step)
  <2> HIDE DEF step, V
  <2> QED
    BY <1>2, Recursion
<1> HIDE DEF V
<1>4. ASSUME NEW n \in Nat
      PROVE  f[n + 1] = f[n] + Boundary(After(tokens, f[n]), force)
  <2>1. <<n, f[n]>> \in Nat \X V
    BY <1>3 DEF IsRecursive
  <2>2. f[n + 1] = step[<<n, f[n]>>]
    BY <1>3 DEF IsRecursive
  <2> QED
    BY <2>1, <2>2
<1>5. f = Body(f)
  <2>1. ASSUME NEW n \in Nat
        PROVE  f[n] = Body(f)[n]
    <3>1. CASE n = 0
      BY <1>3, <3>1 DEF IsRecursive
    <3>2. CASE n # 0
      <4>1. n - 1 \in Nat /\ (n - 1) + 1 = n
        BY <3>2
      <4>2. f[n] = f[n - 1] + Boundary(After(tokens, f[n - 1]), force)
        BY <1>4, <4>1
      <4> QED
        BY <3>2, <4>2 DEF After
    <3> QED
      BY <3>1, <3>2
  <2>2. f = [n \in Nat |-> f[n]]
    BY <1>3 DEF IsRecursive
  <2>3. Body(f) = [n \in Nat |-> Body(f)[n]]
    OBVIOUS
  <2> HIDE DEF Body
  <2>4. [n \in Nat |-> f[n]] = [n \in Nat |-> Body(f)[n]]
    BY <2>1, Zenon
  <2> QED
    BY <2>2, <2>3, <2>4
<1>6. end = Body(end)
  BY <1>5
<1>7. SealReady(tokens, force) =
         Cut(tokens, end, Smallest(CutsOf(tokens, end)))
  BY DEF SealReady, Cut, CutsOf
<1> HIDE DEF end
<1>8. ASSUME NEW n \in Nat
      PROVE  end[n] = IF n = 0 THEN 0
                      ELSE end[n - 1] + Boundary(After(tokens, end[n - 1]), force)
  BY <1>6 DEF After
<1>9. end[0] = 0
  BY <1>8
<1>10. ASSUME NEW n \in Nat
       PROVE  end[n + 1] = end[n] + Boundary(After(tokens, end[n]), force)
  <2>1. n + 1 \in Nat /\ n + 1 # 0 /\ (n + 1) - 1 = n
    OBVIOUS
  <2> QED
    BY <1>8, <2>1
<1>11. end \in [Nat -> V]
  <2> DEFINE T == {n \in Nat : end[n] \in V}
  <2>1. 0 \in T
    BY <1>2, <1>9
  <2>2. ASSUME NEW n \in T
        PROVE  n + 1 \in T
    <3>1. n \in Nat /\ end[n] \in V
      OBVIOUS
    <3>2. end[n + 1] \in V
      BY <1>1, <1>10, <3>1
    <3> QED
      BY <3>1, <3>2
  <2>3. T = Nat
    <3>1. T \in SUBSET Nat
      OBVIOUS
    <3> HIDE DEF T
    <3> QED
      BY <2>1, <2>2, <3>1, Induction
  <2>4. end = [n \in Nat |-> end[n]]
    BY <1>6
  <2> QED
    BY <2>3, <2>4
<1>12. IsCutting(end, tokens, force)
  BY <1>9, <1>10, <1>11 DEF IsCutting, V
<1> QED
  BY <1>7, <1>12

PartsOf(tokens, e, force) ==
    /\ SubSeq(tokens, e + 1, Len(tokens)) \in Seq(Token)
    /\ SubSeq(tokens, 1, e) \in Seq(Token)
    /\ \A i \in 1 .. Len(SubSeq(tokens, e + 1, Len(tokens))) :
          \E j \in 1 .. Len(tokens) :
             SubSeq(tokens, e + 1, Len(tokens))[i] = tokens[j]
    /\ \A i \in 1 .. Len(SubSeq(tokens, 1, e)) :
          \E j \in 1 .. Len(tokens) : SubSeq(tokens, 1, e)[i] = tokens[j]
    /\ Boundary(After(tokens, e), force) \in Nat

LEMMA PartsTyped ==
    ASSUME NEW tokens \in Seq(Token), NEW force \in BOOLEAN,
           NEW e \in 0 .. Len(tokens)
    PROVE  PartsOf(tokens, e, force)
<1> DEFINE rest == SubSeq(tokens, e + 1, Len(tokens))
           start == SubSeq(tokens, 1, e)
<1>1. Len(tokens) \in Nat /\ e \in Nat /\ e <= Len(tokens)
  OBVIOUS
<1>2. /\ rest \in Seq(Token) /\ Len(rest) = Len(tokens) - e
      /\ \A i \in 1 .. Len(rest) : rest[i] = tokens[e + 1 + i - 1]
  <2>1. e + 1 \in Int /\ e + 1 >= 1 /\ Len(tokens) \in Int
    BY <1>1
  <2> QED
    BY <1>1, <2>1, PartFacts
<1>3. /\ start \in Seq(Token) /\ Len(start) = e
      /\ \A i \in 1 .. Len(start) : start[i] = tokens[1 + i - 1]
  BY <1>1, PartFacts
<1>4. Boundary(After(tokens, e), force) \in Nat
  <2> HIDE DEF rest
  <2>1. After(tokens, e) = rest
    BY DEF After, rest
  <2>2. Boundary(rest, force) \in 0 .. Len(rest)
    BY <1>2, BoundaryFacts
  <2> QED
    BY <2>1, <2>2
<1> HIDE DEF rest, start
<1>5. \A i \in 1 .. Len(rest) : e + 1 + i - 1 \in 1 .. Len(tokens)
  BY <1>1, <1>2
<1>6. \A i \in 1 .. Len(start) : 1 + i - 1 \in 1 .. Len(tokens)
  BY <1>1, <1>3
<1> QED
  BY <1>2, <1>3, <1>4, <1>5, <1>6 DEF rest, start, PartsOf

(* What SealReady returns: the first cue is cut at the first boundary, and *)
(* there is none in the rest, which is all there was if nothing was cut.   *)
IsSealed(cues, sealed, open, tokens, force) ==
    /\ Len(cues) \in Nat /\ (Len(cues) = 0 => cues = <<>>)
    /\ sealed \in Seq(Token) /\ open \in Seq(Token)
    /\ \A i \in 1 .. Len(sealed) : \E j \in 1 .. Len(tokens) : sealed[i] = tokens[j]
    /\ \A i \in 1 .. Len(open) : \E j \in 1 .. Len(tokens) : open[i] = tokens[j]
    /\ Boundary(open, force) = 0
    /\ cues = <<>> => open = tokens
    /\ cues # <<>> =>
          /\ Boundary(tokens, force) # 0
          /\ cues[1] = SubSeq(tokens, 1, Boundary(tokens, force))

LEMMA SealReadyFacts ==
    ASSUME NEW tokens \in Seq(Token), NEW force \in BOOLEAN
    PROVE  LET run == SealReady(tokens, force) IN
           IsSealed(run.cues, run.sealed, run.open, tokens, force)
<1>1. PICK end :
         /\ IsCutting(end, tokens, force)
         /\ SealReady(tokens, force) =
               Cut(tokens, end, Smallest(CutsOf(tokens, end)))
  BY CuttingExists
<1> DEFINE S == CutsOf(tokens, end)
           count == Smallest(S)
           cues == [i \in 1 .. count |-> SubSeq(tokens, end[i - 1] + 1, end[i])]
           sealed == SubSeq(tokens, 1, end[count])
           open == SubSeq(tokens, end[count] + 1, Len(tokens))
           run == SealReady(tokens, force)
           first == Boundary(tokens, force)
<1>2. /\ end \in [Nat -> 0 .. Len(tokens)] /\ end[0] = 0
      /\ \A n \in Nat : end[n + 1] = end[n] + Boundary(After(tokens, end[n]), force)
      /\ Len(tokens) \in Nat
  <2>1. Len(tokens) \in Nat
    OBVIOUS
  <2>2. IsCutting(end, tokens, force)
    BY <1>1
  <2> HIDE DEF S, count, cues, sealed, open, run, first
  <2> QED
    BY <2>1, <2>2, Zenon DEF IsCutting
<1>3. ASSUME NEW e \in 0 .. Len(tokens)
      PROVE  PartsOf(tokens, e, force)
  BY PartsTyped
<1>a. \A n : n \in S <=> n \in 0 .. Len(tokens) /\ end[n + 1] = end[n]
  BY DEF CutsOf
<1>b. SealReady(tokens, force) = Cut(tokens, end, count)
  BY <1>1
<1> HIDE DEF S, cues, sealed, open, run, first
<1>4. S # {}
  <2> SUFFICES ASSUME S = {}
               PROVE  FALSE
    OBVIOUS
  <2> DEFINE T == {n \in Nat : n <= Len(tokens) + 1 => end[n] >= n}
  <2>1. 0 \in T
    BY <1>2
  <2>2. ASSUME NEW n \in T
        PROVE  n + 1 \in T
    <3>1. n \in Nat /\ n + 1 \in Nat
      OBVIOUS
    <3>2. SUFFICES ASSUME n + 1 <= Len(tokens) + 1
                   PROVE  end[n + 1] >= n + 1
      BY <3>1
    <3>3. end[n] >= n /\ n \in 0 .. Len(tokens)
      BY <1>2, <3>1, <3>2
    <3>4. end[n + 1] # end[n]
      BY <1>a, <3>3
    <3>5. end[n] \in 0 .. Len(tokens) /\ end[n + 1] \in 0 .. Len(tokens)
      BY <1>2, <3>1
    <3>6. Boundary(After(tokens, end[n]), force) \in Nat
      BY <1>3, <3>5 DEF PartsOf
    <3>7. end[n + 1] = end[n] + Boundary(After(tokens, end[n]), force)
      BY <1>2, <3>1
    <3> HIDE DEF T
    <3> QED
      BY <3>1, <3>3, <3>4, <3>5, <3>6, <3>7
  <2>3. T = Nat
    <3>1. T \in SUBSET Nat
      OBVIOUS
    <3> HIDE DEF T
    <3> QED
      BY <2>1, <2>2, <3>1, Induction
  <2>4. Len(tokens) + 1 \in Nat
    BY <1>2
  <2>5. end[Len(tokens) + 1] >= Len(tokens) + 1
    <3>1. Len(tokens) + 1 \in T
      <4> HIDE DEF T
      <4> QED
        BY <2>3, <2>4
    <3> QED
      BY <1>2, <3>1
  <2>6. end[Len(tokens) + 1] \in 0 .. Len(tokens)
    BY <1>2, <2>4
  <2> QED
    BY <1>2, <2>5, <2>6
<1>5. count \in S /\ \A n \in S : count <= n
  <2>1. S \in SUBSET Nat
    BY <1>a
  <2> QED
    BY <1>4, <2>1, SmallestFacts
<1>6. count \in 0 .. Len(tokens) /\ end[count + 1] = end[count] /\ count \in Nat
  BY <1>5, <1>a
<1>7. \A n \in 0 .. Len(tokens) : end[n + 1] = end[n] => count <= n
  BY <1>5, <1>a
<1>8. run = [cues |-> cues, sealed |-> sealed, open |-> open]
  BY <1>b DEF Cut, cues, sealed, open, run
<1> HIDE DEF count
<1>9. end[count] \in 0 .. Len(tokens)
  BY <1>2, <1>6
<1>10. /\ sealed \in Seq(Token) /\ open \in Seq(Token)
       /\ \A i \in 1 .. Len(sealed) : \E j \in 1 .. Len(tokens) : sealed[i] = tokens[j]
       /\ \A i \in 1 .. Len(open) : \E j \in 1 .. Len(tokens) : open[i] = tokens[j]
  <2>1. PartsOf(tokens, end[count], force)
    BY <1>3, <1>9
  <2> QED
    BY <2>1 DEF PartsOf, sealed, open
<1>11. Len(cues) = count /\ cues = [i \in 1 .. Len(cues) |-> cues[i]]
  <2>1. cues = [i \in 1 .. count |-> cues[i]]
    BY DEF cues
  <2>2. Len(cues) = count
    BY <1>6 DEF cues
  <2> QED
    BY <2>1, <2>2
<1>12. ASSUME NEW i \in 1 .. count
       PROVE  cues[i] \in Seq(Token)
  <2>1. i \in Nat /\ i - 1 \in Nat
    BY <1>6
  <2>2. end[i] \in 0 .. Len(tokens) /\ end[i - 1] \in 0 .. Len(tokens)
    BY <1>2, <2>1
  <2> DEFINE a == end[i - 1]
             b == end[i]
  <2>4. Len(tokens) \in Nat /\ a \in 0 .. Len(tokens) /\ b \in 0 .. Len(tokens)
    BY <1>2, <2>2
  <2> HIDE DEF a, b
  <2>5. a + 1 \in Int /\ b \in Int /\ a + 1 >= 1 /\ b <= Len(tokens)
    BY <2>4
  <2>6. SubSeq(tokens, a + 1, b) \in Seq(Token)
    BY <2>5, PartFacts
  <2>3. SubSeq(tokens, end[i - 1] + 1, end[i]) \in Seq(Token)
    BY <2>6 DEF a, b
  <2> QED
    BY <2>3 DEF cues
<1>13. Boundary(open, force) = 0
  <2>1. end[count + 1] = end[count] + Boundary(After(tokens, end[count]), force)
    BY <1>2, <1>6
  <2>2. Boundary(After(tokens, end[count]), force) \in Nat
    BY <1>3, <1>9 DEF PartsOf
  <2>3. Boundary(After(tokens, end[count]), force) = 0
    BY <1>6, <1>9, <2>1, <2>2
  <2> QED
    BY <2>3 DEF After, open
<1>14. After(tokens, 0) = tokens
  BY <1>2 DEF After
<1>15. end[1] = first
  <2>1. end[0 + 1] = end[0] + Boundary(After(tokens, end[0]), force)
    BY <1>2
  <2>2. first \in Nat
    BY BoundaryFacts DEF first
  <2> QED
    BY <1>2, <1>14, <2>1, <2>2 DEF first
<1>16. cues = <<>> => open = tokens
  <2> SUFFICES ASSUME cues = <<>>
               PROVE  open = tokens
    OBVIOUS
  <2>1. count = 0
    BY <1>11
  <2> QED
    BY <1>2, <1>14, <2>1 DEF After, open
<1>17. ASSUME cues # <<>>
       PROVE  first # 0 /\ cues[1] = SubSeq(tokens, 1, first)
  <2>1. count # 0
    <3>1. cues \in [1 .. count -> Seq(Token)]
      BY <1>11, <1>12
    <3>2. cues \in Seq(Seq(Token))
      BY <1>6, <3>1
    <3> QED
      BY <1>11, <1>17, <3>2, EmptySeq
  <2>2. 1 \in 1 .. count /\ 0 \in 0 .. Len(tokens)
    BY <1>6, <2>1
  <2>3. end[0 + 1] # end[0]
    BY <1>6, <1>7, <2>1, <2>2
  <2>4. cues[1] = SubSeq(tokens, end[0] + 1, end[1])
    <3>1. cues[1] = SubSeq(tokens, end[1 - 1] + 1, end[1])
      BY <2>2 DEF cues
    <3> QED
      BY <3>1
  <2> QED
    BY <1>2, <1>15, <2>3, <2>4
<1>18. run.cues = cues /\ run.sealed = sealed /\ run.open = open
  BY <1>8
<1>19. Len(cues) \in Nat /\ (Len(cues) = 0 => cues = <<>>)
  <2>1. cues \in [1 .. count -> Seq(Token)]
    BY <1>11, <1>12
  <2>2. cues \in Seq(Seq(Token))
    BY <1>6, <2>1
  <2> QED
    BY <1>6, <1>11, <2>2, EmptySeq
<1> HIDE DEF cues, sealed, open
<1>20. IsSealed(cues, sealed, open, tokens, force)
  BY <1>10, <1>13, <1>16, <1>17, <1>19 DEF IsSealed, first
<1> QED
  BY <1>18, <1>20 DEF run

-----------------------------------------------------------------------------
(* Source units: the invariant and its steps.                              *)

SpokenWords == {[norm |-> t.norm, stop |-> t.stop] : t \in Token}

(* The open cue is short of every boundary that does not depend on time.   *)
OpenCueInv == Len(confirmed) < maximum_words /\ NoStop(confirmed)

(* The words shown as stable are the first of those that are confirmed.    *)
DraftInv ==
    /\ draft.tokens \in Seq(Token)
    /\ draft.stable \in 0 .. Len(confirmed)
    /\ draft.stable <= Len(draft.tokens)
    /\ \A i \in 1 .. draft.stable : draft.tokens[i] = confirmed[i]

(* Nothing confirmed ends after the last confirmed word.                   *)
EndsInv == timed => \A i \in 1 .. Len(confirmed) : confirmed[i].end <= committedEnd

UnitsInv == UnitsTypeOK /\ OpenCueInv /\ DraftInv /\ EndsInv

LEMMA WordsFacts ==
    ASSUME NEW tokens \in Seq(Token)
    PROVE  /\ Words(tokens) \in Seq(SpokenWords)
           /\ Len(Words(tokens)) = Len(tokens)
           /\ \A i \in 1 .. Len(tokens) :
                 Words(tokens)[i] = [norm |-> tokens[i].norm, stop |-> tokens[i].stop]
<1> DEFINE w == [i \in 1 .. Len(tokens) |->
                    [norm |-> tokens[i].norm, stop |-> tokens[i].stop]]
<1>1. Len(tokens) \in Nat /\ \A i \in 1 .. Len(tokens) : tokens[i] \in Token
  OBVIOUS
<1>2. w \in [1 .. Len(tokens) -> SpokenWords]
  BY <1>1 DEF SpokenWords
<1>3. Words(tokens) = w
  BY DEF Words
<1>4. \A i \in 1 .. Len(tokens) :
         w[i] = [norm |-> tokens[i].norm, stop |-> tokens[i].stop]
  OBVIOUS
<1> HIDE DEF w
<1>5. w \in Seq(SpokenWords) /\ Len(w) = Len(tokens)
  BY <1>1, <1>2
<1> QED
  BY <1>3, <1>4, <1>5

(* Tokens that begin alike read alike.                                     *)
LEMMA WordsBeginAlike ==
    ASSUME NEW left \in Seq(Token), NEW right \in Seq(Token), NEW n \in Nat,
           n <= Len(left), n <= Len(right),
           \A i \in 1 .. n : left[i] = right[i]
    PROVE  \A i \in 1 .. n : Words(left)[i] = Words(right)[i]
<1>1. \A i \in 1 .. n : i \in 1 .. Len(left) /\ i \in 1 .. Len(right)
  OBVIOUS
<1>2. \A i \in 1 .. n :
         /\ Words(left)[i] = [norm |-> left[i].norm, stop |-> left[i].stop]
         /\ Words(right)[i] = [norm |-> right[i].norm, stop |-> right[i].stop]
  BY <1>1, WordsFacts
<1> QED
  BY <1>2

(* No words are no text. *)
LEMMA EmptyText == Len(Text(<<>>)) = 0
<1>1. Len(Words(<<>>)) = 0
  <2> DEFINE none == <<>>
  <2>1. none \in Seq(Token) /\ Len(none) = 0
    OBVIOUS
  <2> HIDE DEF none
  <2>2. Len(Words(none)) = Len(none)
    BY <2>1, WordsFacts
  <2> QED
    BY <2>1, <2>2 DEF none
<1>2. \A w : Len(w) = 0 => Loops(w) = {}
  <2> TAKE w
  <2> HAVE Len(w) = 0
  <2>1. 1 .. Len(w) = {}
    OBVIOUS
  <2> QED
    BY <2>1, Zenon DEF Loops
<1>3. Loops(Words(<<>>)) = {}
  BY <1>1, <1>2
<1> QED
  BY <1>1, <1>3 DEF Text

LEMMA PrefixFacts ==
    ASSUME NEW S, NEW T, NEW s \in Seq(S), NEW t \in Seq(T), NEW n \in Nat,
           n <= Len(s), n <= Len(t), \A i \in 1 .. n : s[i] = t[i]
    PROVE  IsPrefix(SubSeq(s, 1, n), t)
<1> DEFINE p == SubSeq(s, 1, n)
           q == SubSeq(t, 1, n)
<1>1. Len(s) \in Nat /\ Len(t) \in Nat
  OBVIOUS
<1>2. p \in Seq(S) /\ Len(p) = n /\ \A i \in 1 .. n : p[i] = s[i]
  BY <1>1, PartFacts
<1>3. q \in Seq(T) /\ Len(q) = n /\ \A i \in 1 .. n : q[i] = t[i]
  BY <1>1, PartFacts
<1>4. SubSeq(p, 1, n) = p
  <2> HIDE DEF p
  <2> QED
    BY <1>2
<1> HIDE DEF p, q
<1>5. p = q
  <2>1. p = [i \in 1 .. n |-> p[i]] /\ q = [i \in 1 .. n |-> q[i]]
    BY <1>2, <1>3
  <2>2. \A i \in 1 .. n : p[i] = q[i]
    BY <1>2, <1>3
  <2>3. [i \in 1 .. n |-> p[i]] = [i \in 1 .. n |-> q[i]]
    BY <2>2, Zenon
  <2> QED
    BY <2>1, <2>3
<1> QED
  BY <1>2, <1>4, <1>5 DEF IsPrefix, p, q

IsConcat(t, a, b, S) ==
    /\ t \in Seq(S) /\ Len(t) = Len(a) + Len(b)
    /\ Len(a) \in Nat /\ Len(b) \in Nat /\ Len(t) \in Nat /\ Len(a) <= Len(t)
    /\ \A i \in 1 .. Len(a) : i \in 1 .. Len(t) /\ t[i] = a[i]
    /\ \A i \in 1 .. Len(t) :
          \/ i \in 1 .. Len(a) /\ t[i] = a[i]
          \/ \E j \in 1 .. Len(b) : t[i] = b[j]

LEMMA ConcatFacts ==
    ASSUME NEW S, NEW a \in Seq(S), NEW b \in Seq(S)
    PROVE  IsConcat(a \o b, a, b, S)
<1> DEFINE t == a \o b
<1>1. Len(a) \in Nat /\ Len(b) \in Nat
  OBVIOUS
<1>2. /\ t \in Seq(S) /\ Len(t) = Len(a) + Len(b)
      /\ \A i \in 1 .. Len(a) + Len(b) :
            t[i] = IF i <= Len(a) THEN a[i] ELSE b[i - Len(a)]
  BY ConcatProperties
<1> HIDE DEF t
<1>3. Len(t) \in Nat /\ Len(a) <= Len(t)
  BY <1>1, <1>2
<1>4. ASSUME NEW i \in 1 .. Len(a)
      PROVE  i \in 1 .. Len(t) /\ t[i] = a[i]
  BY <1>1, <1>2
<1>5. ASSUME NEW i \in 1 .. Len(t)
      PROVE  \/ i \in 1 .. Len(a) /\ t[i] = a[i]
             \/ \E j \in 1 .. Len(b) : t[i] = b[j]
  <2>1. CASE i <= Len(a)
    BY <1>1, <1>2, <2>1
  <2>2. CASE ~(i <= Len(a))
    <3>1. t[i] = b[i - Len(a)] /\ i - Len(a) \in 1 .. Len(b)
      BY <1>1, <1>2, <2>2
    <3> QED
      BY <3>1
  <2> QED
    BY <2>1, <2>2
<1> QED
  BY <1>1, <1>2, <1>3, <1>4, <1>5 DEF t, IsConcat

IsDraft(drafts, cuts, open, tail) ==
    \/ drafts = <<>>
    \/ \E d : /\ drafts = <<d>>
              /\ d.cue = cue + Len(cuts)
              /\ d.tokens = open \o tail
              /\ d.stable = Len(open)
              /\ Len(d.tokens) \in Nat \ {0}

(* What is sent of the open cue.                                           *)
LEMMA DraftFacts ==
    ASSUME NEW cuts, NEW open \in Seq(Token), NEW tail \in Seq(Token), NEW final \in BOOLEAN
    PROVE  IsDraft(IF final THEN <<>> ELSE DraftUpdate(cuts, open, tail), cuts, open, tail)
<1> DEFINE active == open \o tail
           d == [cue |-> cue + Len(cuts),
                 rev |-> IF cuts = <<>> THEN revision + 1 ELSE 1,
                 tokens |-> active, stable |-> Len(open), final |-> FALSE]
<1>1. CASE final \/ DraftUpdate(cuts, open, tail) = <<>>
  BY <1>1 DEF IsDraft
<1>2. CASE ~final /\ DraftUpdate(cuts, open, tail) # <<>>
  <2>1. DraftUpdate(cuts, open, tail) = <<d>> /\ ~(Len(Text(active)) < minimum_words)
    BY <1>2 DEF DraftUpdate
  <2>2. active \in Seq(Token) /\ minimum_words \in Nat \ {0}
    BY ConcatProperties, LimitsAssumption
  <2>3. d.cue = cue + Len(cuts) /\ d.tokens = active /\ d.stable = Len(open)
    OBVIOUS
  <2> HIDE DEF d, active
  <2>4. active # <<>>
    BY <2>1, <2>2, EmptyText
  <2>5. Len(active) \in Nat \ {0}
    BY <2>2, <2>4, EmptySeq
  <2> QED
    BY <1>2, <2>1, <2>3, <2>5 DEF active, IsDraft
<1> QED
  BY <1>1, <1>2

(* What is sent of the sealed cues.                                        *)
LEMMA SealedUpdatesFacts ==
    ASSUME NEW cuts, Len(cuts) \in Nat, cue \in Nat
    PROVE  LET sent == SealedUpdates(cuts) IN
           /\ Len(sent) \in Nat
           /\ sent \in Seq({sent[i] : i \in 1 .. Len(sent)})
           /\ \A i \in 1 .. Len(sent) :
                 sent[i].cue = cue =>
                    1 \in 1 .. Len(cuts) /\ sent[i].tokens = cuts[1]
<1> DEFINE Update(i) == [cue |-> cue + i - 1,
                      rev |-> IF i = 1 THEN revision + 1 ELSE 1,
                      tokens |-> cuts[i], stable |-> Len(cuts[i]), final |-> TRUE]
           all == [i \in 1 .. Len(cuts) |-> Update(i)]
           kept == {Update(i) : i \in {j \in 1 .. Len(cuts) :
                                       Len(Text(cuts[j])) >= minimum_words}}
           U == {Update(i) : i \in 1 .. Len(cuts)}
           sent == Filter(all, kept)
<1>1. SealedUpdates(cuts) = sent
  BY DEF SealedUpdates
<1>2. \A i : Update(i).cue = cue + i - 1 /\ Update(i).tokens = cuts[i]
  OBVIOUS
<1> HIDE DEF Update
<1>3. all \in [1 .. Len(cuts) -> U]
  OBVIOUS
<1>4. all \in Seq(U) /\ Len(all) = Len(cuts)
  <2> HIDE DEF all, U
  <2> QED
    BY <1>3
<1>5. \A j \in 1 .. Len(cuts) : all[j] = Update(j)
  OBVIOUS
<1> HIDE DEF all, kept, U
<1>6. /\ sent \in Seq(U)
      /\ \A i \in 1 .. Len(sent) : \E j \in 1 .. Len(all) : sent[i] = all[j]
  BY <1>4, FilterFacts
<1> HIDE DEF sent
<1>7. Len(sent) \in Nat /\ sent \in Seq({sent[i] : i \in 1 .. Len(sent)})
  BY <1>6
<1>8. ASSUME NEW i \in 1 .. Len(sent), sent[i].cue = cue
      PROVE  1 \in 1 .. Len(cuts) /\ sent[i].tokens = cuts[1]
  <2>1. PICK j \in 1 .. Len(cuts) : sent[i] = Update(j)
    BY <1>4, <1>5, <1>6
  <2>2. cue + j - 1 = cue
    BY <1>2, <1>8, <2>1
  <2>3. j = 1
    BY <2>2
  <2> QED
    BY <1>2, <2>1, <2>3
<1> QED
  BY <1>1, <1>7, <1>8

(* What a step may send of the open cue.                                   *)
StableStep ==
    resets' = resets =>
      \A i \in 1 .. Len(updates') :
         updates'[i].cue = cue => KeepsStable(updates'[i].tokens)

(* The ingest that gets past the early return, in terms of what it         *)
(* confirms, leaves pending, cuts and sends.                               *)
IngestMain(more, tail, cues, sealed, open, drafts, final) ==
    /\ more \in Seq(Token) /\ tail \in Seq(Token)
    /\ IsSealed(cues, sealed, open, confirmed \o more, final)
    /\ IsDraft(drafts, cues, open, tail)
    /\ UNCHANGED <<timed, wordsSpoken, from, resets>>
    /\ passes < MaxPasses /\ passes' = passes + 1
    /\ remembered' = remembered \o more
    /\ committedEnd' = LastEnd(more, committedEnd)
    /\ pending' = tail
    /\ confirmed' = open
    /\ sealedEnd' = LastEnd(sealed, sealedEnd)
    /\ cue' = cue + Len(cues)
    /\ updates' = SealedUpdates(cues) \o drafts
    /\ revision' = (IF cues = <<>> THEN revision ELSE 0) + Len(drafts)
    /\ draft' = IF drafts # <<>>
                THEN [tokens |-> drafts[1].tokens, stable |-> drafts[1].stable]
                ELSE IF cues = <<>> THEN draft ELSE NoDraft

LEMMA IngestCases ==
    ASSUME UnitsInv, NEW mishears \in BOOLEAN, NEW final \in BOOLEAN,
           NEW shift \in Jitter, Ingest(mishears, shift, final)
    PROVE  \/ /\ passes < MaxPasses /\ passes' = passes + 1
              /\ updates' = <<>>
              /\ UNCHANGED <<timed, wordsSpoken, from, resets, confirmed, pending,
                             remembered, committedEnd, sealedEnd, cue, revision, draft>>
           \/ \E more, tail, cues, sealed, open, drafts :
                 IngestMain(more, tail, cues, sealed, open, drafts, final)
<1> DEFINE newest == StripCommittedOverlap(Hypothesis(mishears, shift))
           agreed == Confirm(newest, final)
           run == SealReady(confirmed \o agreed.tokens, final)
           drafts == IF final THEN <<>> ELSE DraftUpdate(run.cues, run.open, agreed.tail)
<1>1. UnitsTypeOK
  BY DEF UnitsInv
<1>2. newest \in Seq(Token)
  BY <1>1, HypothesisTyped, StripTyped
<1> HIDE DEF newest
<1>3. agreed.tokens \in Seq(Token) /\ agreed.tail \in Seq(Token)
  BY <1>1, <1>2, ConfirmTyped
<1> HIDE DEF agreed
<1>4. CASE newest = <<>> /\ ~final
  BY <1>4 DEF Ingest, newest
<1>5. CASE ~(newest = <<>> /\ ~final)
  <2>1. confirmed \o agreed.tokens \in Seq(Token)
    <3>1. confirmed \in Seq(Token)
      BY <1>1 DEF UnitsTypeOK
    <3> QED
      BY <1>3, <3>1, ConcatProperties
  <2>2. IsSealed(run.cues, run.sealed, run.open, confirmed \o agreed.tokens, final)
    BY <2>1, SealReadyFacts
  <2> HIDE DEF run
  <2>3. run.open \in Seq(Token)
    BY <2>2 DEF IsSealed
  <2>4. IsDraft(drafts, run.cues, run.open, agreed.tail)
    BY <1>3, <2>3, DraftFacts
  <2> HIDE DEF drafts
  <2>5. IngestMain(agreed.tokens, agreed.tail, run.cues, run.sealed, run.open, drafts, final)
    BY <1>3, <1>5, <2>2, <2>4 DEF Ingest, IngestMain, newest, agreed, run, drafts
  <2> QED
    BY <2>5
<1> QED
  BY <1>4, <1>5

LEMMA IngestMainStep ==
    ASSUME UnitsInv, NEW final \in BOOLEAN, NEW more, NEW tail, NEW cues, NEW sealed,
           NEW open, NEW drafts,
           IngestMain(more, tail, cues, sealed, open, drafts, final)
    PROVE  UnitsInv' /\ StableStep
<1> DEFINE tokens == confirmed \o more
           first == Boundary(tokens, final)
           sent == SealedUpdates(cues)
<1>1. /\ UnitsTypeOK /\ OpenCueInv /\ DraftInv /\ EndsInv
      /\ confirmed \in Seq(Token) /\ Len(confirmed) \in Nat
      /\ cue \in Nat \ {0} /\ revision \in Nat
      /\ committedEnd \in Nat /\ sealedEnd \in 0 .. committedEnd
      /\ timed \in BOOLEAN
  BY DEF UnitsInv, UnitsTypeOK
<1>2. /\ UNCHANGED <<timed, wordsSpoken, from, resets>>
      /\ passes < MaxPasses /\ passes' = passes + 1
      /\ remembered' = remembered \o more
      /\ committedEnd' = LastEnd(more, committedEnd)
      /\ pending' = tail
      /\ confirmed' = open
      /\ sealedEnd' = LastEnd(sealed, sealedEnd)
      /\ cue' = cue + Len(cues)
      /\ updates' = sent \o drafts
      /\ revision' = (IF cues = <<>> THEN revision ELSE 0) + Len(drafts)
      /\ draft' = IF drafts # <<>>
                  THEN [tokens |-> drafts[1].tokens, stable |-> drafts[1].stable]
                  ELSE IF cues = <<>> THEN draft ELSE NoDraft
  BY DEF IngestMain
<1>3. /\ tokens \in Seq(Token)
      /\ Len(tokens) = Len(confirmed) + Len(more)
      /\ Len(more) \in Nat /\ Len(tokens) \in Nat
      /\ \A i \in 1 .. Len(confirmed) : tokens[i] = confirmed[i]
      /\ \A i \in 1 .. Len(tokens) :
            \/ i \in 1 .. Len(confirmed) /\ tokens[i] = confirmed[i]
            \/ \E j \in 1 .. Len(more) : tokens[i] = more[j]
  <2>1. more \in Seq(Token)
    BY DEF IngestMain
  <2>2. IsConcat(tokens, confirmed, more, Token)
    BY <1>1, <2>1, ConcatFacts, Zenon
  <2> HIDE DEF tokens
  <2> QED
    BY <2>2 DEF IsConcat
<1> HIDE DEF tokens
<1>4. /\ more \in Seq(Token) /\ tail \in Seq(Token)
      /\ Len(cues) \in Nat
      /\ sealed \in Seq(Token) /\ open \in Seq(Token)
      /\ \A i \in 1 .. Len(sealed) :
            \E j \in 1 .. Len(tokens) : sealed[i] = tokens[j]
      /\ \A i \in 1 .. Len(open) :
            \E j \in 1 .. Len(tokens) : open[i] = tokens[j]
      /\ Boundary(open, final) = 0
      /\ cues = <<>> => open = tokens
      /\ cues # <<>> => first # 0 /\ cues[1] = SubSeq(tokens, 1, first)
      /\ Len(cues) = 0 => cues = <<>>
  BY DEF IngestMain, IsSealed, tokens
<1>5. first \in 0 .. Len(tokens) /\ (first # 0 => Len(confirmed) <= first)
  <2>1. first \in 0 .. Len(tokens)
    BY <1>3, BoundaryFacts
  <2>2. first # 0 => Len(confirmed) <= first
    <3>1. Len(confirmed) < maximum_words /\ NoStop(confirmed)
      BY <1>1 DEF OpenCueInv
    <3>2. more \in Seq(Token) /\ confirmed \in Seq(Token)
      BY <1>1, <1>4
    <3>3. Boundary(confirmed \o more, final) # 0
             => Len(confirmed) <= Boundary(confirmed \o more, final)
      BY <3>1, <3>2, BoundaryBehind, Zenon
    <3> QED
      BY <3>3, Zenon DEF tokens
  <2> QED
    BY <2>1, <2>2
<1> HIDE DEF first
<1>6. \/ drafts = <<>>
      \/ \E d : /\ drafts = <<d>>
                /\ d.cue = cue + Len(cues)
                /\ d.tokens = open \o tail
                /\ d.stable = Len(open)
                /\ Len(d.tokens) \in Nat \ {0}
  BY DEF IngestMain, IsDraft
<1>7. /\ Len(sent) \in Nat
      /\ sent \in Seq({sent[i] : i \in 1 .. Len(sent)})
      /\ \A i \in 1 .. Len(sent) :
            sent[i].cue = cue =>
               1 \in 1 .. Len(cues) /\ sent[i].tokens = cues[1]
  BY <1>1, <1>4, SealedUpdatesFacts
<1> HIDE DEF sent
<1>8. \/ open = <<>>
      \/ ~final /\ Len(open) < maximum_words /\ NoStop(open)
  BY <1>4, BoundaryFacts
<1>9. OpenCueInv'
  <2>1. maximum_words \in Nat /\ maximum_words >= 1 /\ punctuation_minimum_words \in Nat
        /\ punctuation_minimum_words >= 1
    BY LimitsAssumption
  <2>2. CASE open = <<>>
    BY <1>2, <2>1, <2>2 DEF OpenCueInv, NoStop
  <2>3. CASE Len(open) < maximum_words /\ NoStop(open)
    BY <1>2, <2>3 DEF OpenCueInv, NoStop
  <2> QED
    BY <1>8, <2>2, <2>3
<1>10. /\ committedEnd' \in Nat /\ committedEnd <= committedEnd'
       /\ timed => \A i \in 1 .. Len(more) :
                      more[i].end <= committedEnd'
  <2> DEFINE e == LastEnd(more, committedEnd)
  <2>1. more \in Seq(Token)
    BY <1>4
  <2>2. /\ e \in Nat /\ committedEnd <= e
        /\ timed => \A i \in 1 .. Len(more) : more[i].end <= e
    BY <1>1, <2>1, LastEndFacts
  <2> HIDE DEF e
  <2>3. committedEnd' = e
    BY <1>2 DEF e
  <2> QED
    BY <2>2, <2>3
<1>11. timed => \A i \in 1 .. Len(tokens) : tokens[i].end <= committedEnd'
  <2> SUFFICES ASSUME timed, NEW i \in 1 .. Len(tokens)
               PROVE  tokens[i].end <= committedEnd'
    OBVIOUS
  <2>1. CASE i \in 1 .. Len(confirmed) /\ tokens[i] = confirmed[i]
    <3>1. confirmed[i].end <= committedEnd
      BY <1>1, <2>1 DEF EndsInv
    <3>2. confirmed[i].end \in Int
      <4>1. confirmed[i] \in Token
        BY <1>1, <2>1
      <4> QED
        BY <4>1 DEF Token
    <3>3. committedEnd \in Nat /\ committedEnd' \in Nat /\ committedEnd <= committedEnd'
      BY <1>1, <1>10
    <3>4. confirmed[i].end <= committedEnd'
      BY <3>1, <3>2, <3>3
    <3> QED
      BY <2>1, <3>4
  <2>2. CASE \E j \in 1 .. Len(more) : tokens[i] = more[j]
    BY <1>10, <2>2
  <2> QED
    BY <1>3, <2>1, <2>2
<1>12. EndsInv'
  BY <1>2, <1>4, <1>11 DEF EndsInv
<1>13. sealedEnd' \in 0 .. committedEnd'
  <2>1. sealedEnd \in Nat /\ sealedEnd <= committedEnd'
    BY <1>1, <1>10
  <2>2. timed => \A i \in 1 .. Len(sealed) : sealed[i].end <= committedEnd'
    BY <1>4, <1>11
  <2>3. LastEnd(sealed, sealedEnd) \in Nat
        /\ LastEnd(sealed, sealedEnd) <= committedEnd'
    BY <1>1, <1>4, <1>10, <2>1, <2>2, LastEndFacts
  <2> QED
    BY <1>2, <1>10, <2>3
<1>14. \/ drafts = <<>> /\ cues = <<>> /\ draft' = draft /\ revision' = revision
       \/ drafts = <<>> /\ cues # <<>> /\ draft' = NoDraft /\ revision' = 0
       \/ /\ revision' \in Nat \ {0}
          /\ draft' = [tokens |-> open \o tail, stable |-> Len(open)]
          /\ Len(open \o tail) # 0
  <2>1. CASE drafts = <<>> /\ cues = <<>>
    BY <1>1, <1>2, <2>1
  <2>2. CASE drafts = <<>> /\ cues # <<>>
    BY <1>1, <1>2, <2>2
  <2>3. CASE drafts # <<>>
    <3>1. PICK d : /\ drafts = <<d>>
                   /\ d.tokens = open \o tail
                   /\ d.stable = Len(open)
                   /\ Len(d.tokens) \in Nat \ {0}
      BY <1>6, <2>3
    <3>2. drafts[1] = d /\ Len(drafts) = 1
      BY <3>1
    <3>3. draft' = [tokens |-> d.tokens, stable |-> d.stable]
      BY <1>2, <2>3, <3>2
    <3>4. revision' \in Nat \ {0}
      BY <1>1, <1>2, <3>2
    <3> QED
      BY <3>1, <3>3, <3>4
  <2> QED
    BY <2>1, <2>2, <2>3
<1>15. /\ DraftInv' /\ draft.stable' \in 0 .. Len(draft.tokens')
       /\ (revision' = 0 <=> draft' = NoDraft) /\ revision' \in Nat
  <2>1. /\ revision = 0 <=> draft = NoDraft
        /\ draft.tokens \in Seq(Token) /\ draft.stable \in 0 .. Len(confirmed)
        /\ draft.stable <= Len(draft.tokens)
        /\ \A i \in 1 .. draft.stable : draft.tokens[i] = confirmed[i]
    BY <1>1 DEF UnitsTypeOK, DraftInv
  <2>2. CASE drafts = <<>> /\ cues = <<>> /\ draft' = draft /\ revision' = revision
    <3>1. confirmed' = tokens
      BY <1>2, <1>4, <2>2
    <3>2. \A i \in 1 .. draft.stable : i \in 1 .. Len(confirmed)
      BY <1>1, <2>1
    <3>3. \A i \in 1 .. draft.stable : draft.tokens[i] = tokens[i]
      BY <1>3, <2>1, <3>2
    <3>4. draft.stable \in 0 .. Len(tokens) /\ draft.stable \in 0 .. Len(draft.tokens)
      BY <1>1, <1>3, <2>1
    <3> QED
      BY <1>1, <2>1, <2>2, <3>1, <3>3, <3>4 DEF DraftInv
  <2>3. CASE draft' = NoDraft /\ revision' = 0
    <3>1. NoDraft.tokens = <<>> /\ NoDraft.stable = 0
      BY DEF NoDraft
    <3>2. Len(confirmed') \in Nat
      BY <1>2, <1>4
    <3> QED
      BY <2>3, <3>1, <3>2 DEF DraftInv
  <2>4. CASE /\ revision' \in Nat \ {0}
             /\ draft' = [tokens |-> open \o tail, stable |-> Len(open)]
             /\ Len(open \o tail) # 0
    <3> DEFINE active == open \o tail
    <3>1. /\ active \in Seq(Token) /\ Len(open) \in Nat /\ Len(open) <= Len(active)
          /\ \A i \in 1 .. Len(open) : active[i] = open[i]
          /\ Len(active) \in Nat
      <4>1. IsConcat(active, open, tail, Token)
        BY <1>4, ConcatFacts, Zenon
      <4> HIDE DEF active
      <4> QED
        BY <4>1 DEF IsConcat
    <3> HIDE DEF active
    <3>2. draft'.tokens = active /\ draft'.stable = Len(open)
      BY <2>4 DEF active
    <3>3. draft' # NoDraft
      <4>1. active # <<>>
        BY <2>4, EmptySeq DEF active
      <4>2. NoDraft.tokens = <<>>
        BY DEF NoDraft
      <4> QED
        BY <3>2, <4>1, <4>2
    <3>4. draft'.stable \in 0 .. Len(draft'.tokens) /\ draft'.stable \in 0 .. Len(confirmed')
      BY <1>2, <3>1, <3>2
    <3>5. DraftInv'
      BY <1>2, <3>1, <3>2, <3>4 DEF DraftInv
    <3>6. revision' \in Nat /\ (revision' = 0 <=> draft' = NoDraft)
      BY <2>4, <3>3
    <3> QED
      BY <3>4, <3>5, <3>6
  <2> QED
    BY <1>14, <2>2, <2>3, <2>4
<1>16. UnitsTypeOK'
  <2>1. passes' \in 0 .. MaxPasses
    BY <1>1, <1>2, LimitsAssumption DEF UnitsTypeOK
  <2>2. remembered' \in Seq(Token)
    <3>1. remembered \in Seq(Token)
      BY <1>1 DEF UnitsTypeOK
    <3>2. remembered \o more \in Seq(Token)
      BY <1>4, <3>1, ConcatProperties
    <3> QED
      BY <1>2, <3>2
  <2>3. cue' \in Nat \ {0}
    BY <1>1, <1>2, <1>4
  <2> QED
    BY <1>1, <1>2, <1>4, <1>9, <1>10, <1>13, <1>15, <2>1, <2>2, <2>3
      DEF UnitsTypeOK, OpenCueInv
<1>17. StableStep
  <2>1. ASSUME NEW t \in Seq(Token), Len(confirmed) <= Len(t),
               \A i \in 1 .. Len(confirmed) : t[i] = confirmed[i]
        PROVE  KeepsStable(t)
    <3>1. /\ draft.tokens \in Seq(Token) /\ draft.stable \in 0 .. Len(confirmed)
          /\ draft.stable <= Len(draft.tokens)
          /\ \A i \in 1 .. draft.stable : draft.tokens[i] = confirmed[i]
      BY <1>1 DEF DraftInv
    <3>2. \A i \in 1 .. draft.stable : draft.tokens[i] = t[i]
      BY <1>1, <2>1, <3>1
    <3>3. draft.stable \in Nat /\ draft.stable <= Len(t)
      <4>1. Len(t) \in Nat
        OBVIOUS
      <4> QED
        BY <1>1, <2>1, <3>1, <4>1
    <3>4. IsPrefix(SubSeq(draft.tokens, 1, draft.stable), t)
      BY <3>1, <3>2, <3>3, PrefixFacts
    <3>5. IsPrefix(SubSeq(Words(draft.tokens), 1, draft.stable), Words(t))
      <4>1. \A i \in 1 .. draft.stable : Words(draft.tokens)[i] = Words(t)[i]
        BY <3>1, <3>2, <3>3, WordsBeginAlike
      <4>2. /\ Words(t) \in Seq(SpokenWords) /\ Len(Words(t)) = Len(t)
            /\ Words(draft.tokens) \in Seq(SpokenWords)
            /\ Len(Words(draft.tokens)) = Len(draft.tokens)
        BY <3>1, WordsFacts
      <4> QED
        BY <3>1, <3>3, <4>1, <4>2, PrefixFacts
    <3> QED
      BY <3>4, <3>5 DEF KeepsStable, Text
  <2>2. ASSUME NEW i \in 1 .. Len(sent), sent[i].cue = cue
        PROVE  KeepsStable(sent[i].tokens)
    <3> DEFINE t == SubSeq(tokens, 1, first)
    <3>1. cues # <<>> /\ sent[i].tokens = cues[1]
      BY <1>7, <2>2
    <3>2. cues[1] = t /\ first # 0 /\ Len(confirmed) <= first
      BY <1>4, <1>5, <3>1
    <3>3. /\ t \in Seq(Token) /\ Len(t) = first
          /\ \A k \in 1 .. Len(t) : t[k] = tokens[1 + k - 1]
      <4>1. Len(tokens) \in Nat /\ first \in Nat /\ first >= 1 /\ first <= Len(tokens)
        BY <1>1, <1>3, <1>5, <3>2
      <4> QED
        BY <1>3, <4>1, PartFacts
    <3> HIDE DEF t
    <3>4. \A k \in 1 .. Len(confirmed) : t[k] = confirmed[k]
      <4>1. ASSUME NEW k \in 1 .. Len(confirmed)
            PROVE  k \in 1 .. Len(t) /\ 1 + k - 1 = k
        BY <1>1, <1>5, <3>2, <3>3
      <4> QED
        BY <1>3, <3>3, <4>1
    <3> QED
      BY <2>1, <3>1, <3>2, <3>3, <3>4
  <2>3. ASSUME NEW d, drafts = <<d>>, d.cue = cue + Len(cues),
               d.tokens = open \o tail, d.cue = cue
        PROVE  KeepsStable(d.tokens)
    <3>1. open = tokens
      BY <1>1, <1>4, <2>3
    <3> DEFINE t == tokens \o tail
    <3>2. Len(tokens) \in Nat /\ Len(tail) \in Nat
      BY <1>3, <1>4
    <3>3. /\ t \in Seq(Token) /\ Len(t) = Len(tokens) + Len(tail)
          /\ \A k \in 1 .. Len(tokens) : t[k] = tokens[k]
      <4>1. IsConcat(t, tokens, tail, Token)
        BY <1>3, <1>4, ConcatFacts, Zenon
      <4> HIDE DEF t
      <4> QED
        BY <4>1 DEF IsConcat
    <3> HIDE DEF t
    <3>4. \A k \in 1 .. Len(confirmed) : k \in 1 .. Len(tokens)
      BY <1>1, <1>3
    <3>5. \A k \in 1 .. Len(confirmed) : t[k] = confirmed[k]
      BY <1>3, <3>3, <3>4
    <3>6. Len(confirmed) <= Len(t)
      BY <1>1, <1>3, <3>2, <3>3
    <3>7. d.tokens = t
      BY <2>3, <3>1 DEF t
    <3> QED
      BY <2>1, <3>3, <3>5, <3>6, <3>7
  <2>4. ASSUME NEW i \in 1 .. Len(updates'), updates'[i].cue = cue
        PROVE  KeepsStable(updates'[i].tokens)
    <3>1. CASE drafts = <<>>
      <4>1. updates' = sent
        BY <1>2, <1>7, <3>1, ConcatEmptySeq
      <4> QED
        BY <2>2, <2>4, <4>1
    <3>2. CASE drafts # <<>>
      <4>1. PICK d : /\ drafts = <<d>>
                     /\ d.cue = cue + Len(cues)
                     /\ d.tokens = open \o tail
        BY <1>6, <3>2
      <4>2. updates' = sent \o <<d>>
        BY <1>2, <4>1
      <4>3. \/ i \in 1 .. Len(sent) /\ updates'[i] = sent[i]
            \/ updates'[i] = d
        <5> DEFINE S == {sent[j] : j \in 1 .. Len(sent)} \cup {d}
        <5>1. sent \in Seq(S)
          <6>1. \A j \in 1 .. Len(sent) : sent[j] \in S
            OBVIOUS
          <6>2. PICK R : sent \in Seq(R)
            BY <1>7
          <6> HIDE DEF S
          <6> HIDE DEF sent
          <6> QED
            BY <6>1, <6>2
        <5>2. d \in S
          OBVIOUS
        <5> HIDE DEF S
        <5> DEFINE one == <<d>>
        <5>3. one \in Seq(S) /\ Len(one) = 1 /\ one[1] = d
          BY <5>2
        <5> HIDE DEF one
        <5>4. \A k \in 1 .. Len(sent \o one) :
                 \/ k \in 1 .. Len(sent) /\ (sent \o one)[k] = sent[k]
                 \/ \E j \in 1 .. Len(one) : (sent \o one)[k] = one[j]
          <6>1. IsConcat(sent \o one, sent, one, S)
            BY <5>1, <5>3, ConcatFacts, Zenon
          <6> DEFINE t == sent \o one
          <6>2. IsConcat(t, sent, one, S)
            BY <6>1
          <6> HIDE DEF t
          <6>3. \A k \in 1 .. Len(t) :
                   \/ k \in 1 .. Len(sent) /\ t[k] = sent[k]
                   \/ \E j \in 1 .. Len(one) : t[k] = one[j]
            BY <6>2 DEF IsConcat
          <6> QED
            BY <6>3, Zenon DEF t
        <5>5. i \in 1 .. Len(sent \o one) /\ updates' = sent \o one
          BY <2>4, <4>2 DEF one
        <5>6. \A j \in 1 .. Len(one) : one[j] = d
          BY <5>3
        <5> QED
          BY <5>4, <5>5, <5>6
      <4> QED
        BY <2>2, <2>3, <2>4, <4>1, <4>3
    <3> QED
      BY <3>1, <3>2
  <2> QED
    BY <2>4 DEF StableStep
<1> QED
  BY <1>9, <1>12, <1>15, <1>16, <1>17 DEF UnitsInv

LEMMA EmptyUnits ==
    ASSUME confirmed = <<>>, draft = NoDraft, committedEnd = 0
    PROVE  OpenCueInv /\ DraftInv /\ EndsInv
<1>1. Len(confirmed) = 0 /\ maximum_words >= 1 /\ punctuation_minimum_words >= 1
      /\ maximum_words \in Nat /\ punctuation_minimum_words \in Nat
  BY LimitsAssumption
<1>2. draft.tokens = <<>> /\ draft.stable = 0
  BY DEF NoDraft
<1> QED
  BY <1>1, <1>2 DEF OpenCueInv, NoStop, DraftInv, EndsInv

LEMMA UnitsInvInit == UnitsInit => UnitsInv
<1> SUFFICES ASSUME UnitsInit
             PROVE  UnitsInv
  OBVIOUS
<1>1. OpenCueInv /\ DraftInv /\ EndsInv
  BY EmptyUnits DEF UnitsInit
<1>2. Len(Speech) \in Nat /\ MaxPasses \in Nat /\ MaxResets \in Nat
  BY LimitsAssumption, SpeechAssumption
<1>3. draft.tokens = <<>> /\ draft.stable = 0
  BY DEF UnitsInit, NoDraft
<1>4. UnitsTypeOK
  BY <1>1, <1>2, <1>3 DEF UnitsInit, UnitsTypeOK, OpenCueInv
<1> QED
  BY <1>1, <1>4 DEF UnitsInv

LEMMA NothingSent ==
    ASSUME updates' = <<>>
    PROVE  StableStep
  BY DEF StableStep

LEMMA UnitsInvNext ==
    ASSUME UnitsInv, [UnitsNext]_unitsVars
    PROVE  UnitsInv' /\ (StableStep \/ UNCHANGED unitsVars)
<1>1. CASE Speak
  <2>1. wordsSpoken' \in 0 .. Len(Speech) /\ passes' \in 0 .. MaxPasses
    BY <1>1, SpeechAssumption, LimitsAssumption DEF Speak, UnitsInv, UnitsTypeOK
  <2>2. UnitsTypeOK'
    BY <1>1, <2>1 DEF Speak, UnitsInv, UnitsTypeOK
  <2>3. UNCHANGED <<confirmed, draft, timed, committedEnd>> /\ updates' = <<>>
    BY <1>1 DEF Speak
  <2> QED
    BY <2>2, <2>3, NothingSent
      DEF UnitsInv, OpenCueInv, DraftInv, EndsInv
<1>2. ASSUME NEW mishears \in BOOLEAN, NEW final \in BOOLEAN, NEW shift \in Jitter,
             Ingest(mishears, shift, final)
      PROVE  UnitsInv' /\ StableStep
  <2>1. CASE /\ passes < MaxPasses /\ passes' = passes + 1
             /\ updates' = <<>>
             /\ UNCHANGED <<timed, wordsSpoken, from, resets, confirmed, pending,
                            remembered, committedEnd, sealedEnd, cue, revision, draft>>
    <3>1. passes' \in 0 .. MaxPasses
      BY <2>1, LimitsAssumption DEF UnitsInv, UnitsTypeOK
    <3>2. UnitsTypeOK'
      BY <2>1, <3>1 DEF UnitsInv, UnitsTypeOK
    <3> QED
      BY <2>1, <3>2, NothingSent
        DEF UnitsInv, OpenCueInv, DraftInv, EndsInv
  <2>2. CASE \E more, tail, cues, sealed, open, drafts :
                IngestMain(more, tail, cues, sealed, open, drafts, final)
    BY <2>2, IngestMainStep
  <2> QED
    BY <1>2, <2>1, <2>2, IngestCases
<1>3. CASE Reset
  <2>1. /\ resets' \in 0 .. MaxResets /\ passes' \in 0 .. MaxPasses
        /\ from' \in 1 .. Len(Speech) + 1 /\ cue' \in Nat \ {0}
    BY <1>3, SpeechAssumption, LimitsAssumption DEF Reset, UnitsInv, UnitsTypeOK
  <2>2. /\ confirmed' = <<>> /\ draft' = NoDraft /\ committedEnd' = 0
        /\ updates' = <<>>
    BY <1>3 DEF Reset
  <2>3. (OpenCueInv /\ DraftInv /\ EndsInv)'
    <3>1. Len(confirmed') = 0 /\ maximum_words >= 1 /\ punctuation_minimum_words >= 1
          /\ maximum_words \in Nat /\ punctuation_minimum_words \in Nat
      BY <2>2, LimitsAssumption
    <3>2. draft.tokens' = <<>> /\ draft.stable' = 0
      BY <2>2 DEF NoDraft
    <3> QED
      BY <3>1, <3>2 DEF OpenCueInv, NoStop, DraftInv, EndsInv
  <2>4. draft.tokens' = <<>> /\ draft.stable' = 0
    BY <2>2 DEF NoDraft
  <2>5. UnitsTypeOK'
    BY <1>3, <2>1, <2>3, <2>4 DEF Reset, UnitsInv, UnitsTypeOK, OpenCueInv
  <2> QED
    BY <2>2, <2>3, <2>5, NothingSent DEF UnitsInv
<1>4. CASE UNCHANGED unitsVars
  BY <1>4 DEF unitsVars, UnitsInv, UnitsTypeOK, OpenCueInv, DraftInv, EndsInv
<1> QED
  BY <1>1, <1>2, <1>3, <1>4 DEF UnitsNext

THEOREM UnitsInvariant == UnitsSpec => []UnitsInv
  BY UnitsInvInit, UnitsInvNext, PTL DEF UnitsSpec

THEOREM UnitsTypeCorrect == UnitsSpec => []UnitsTypeOK
<1>1. UnitsInv => UnitsTypeOK
  BY DEF UnitsInv
<1> QED
  BY <1>1, UnitsInvariant, PTL

THEOREM StableWordsKept == UnitsSpec => StableWordsStay
<1>1. UnitsInv /\ [UnitsNext]_unitsVars => [StableStep]_unitsVars
  BY UnitsInvNext
<1>2. UnitsSpec => [][StableStep]_unitsVars
  BY <1>1, UnitsInvariant, PTL DEF UnitsSpec
<1> QED
  BY <1>2 DEF StableWordsStay, StableStep

-----------------------------------------------------------------------------
(* Source units: what is confirmed spells what was said.                   *)

(* The token of word p, in a pass that misheard the word wrong (0: none)   *)
(* and whose times are off by a.                                           *)
HeardAs(token, p, wrong, a) ==
    /\ p \in Positions
    /\ token.pos = p
    /\ token.start = (p - 1) * WordTicks + a
    /\ token.end = p * WordTicks + a
    /\ token.norm = IF p = wrong THEN Speech[p].misheard ELSE Speech[p].norm

(* The tokens of the words after word q.                                   *)
IsHeard(tokens, q, wrong, a) ==
    /\ tokens \in Seq(Token)
    /\ \A i \in 1 .. Len(tokens) : HeardAs(tokens[i], q + i, wrong, a)

ConfirmedUpTo == from - 1 + Len(remembered)

RememberedInv == \A i \in 1 .. Len(remembered) : remembered[i].pos = from + i - 1

(* The tail goes on where the confirmed words end.                         *)
PendingInv ==
    /\ Len(pending) <= 2
    /\ pending # <<>> => \E wrong \in {0, ConfirmedUpTo + Len(pending)}, a \in Jitter :
                            IsHeard(pending, ConfirmedUpTo, wrong, a)

(* A pass leaves no word out.                                              *)
ReachInv ==
    /\ from <= wordsSpoken + 1
    /\ ConfirmedUpTo + Len(pending) \in {wordsSpoken - 1, wordsSpoken}
    /\ passes > 0 => ConfirmedUpTo + Len(pending) = wordsSpoken
    /\ updates # <<>> => passes > 0

LastEndInv ==
    IF remembered = <<>> THEN committedEnd = 0
    ELSE \E a \in Jitter : committedEnd = ConfirmedUpTo * WordTicks + a

SpellInv == RememberedInv /\ PendingInv /\ ReachInv /\ LastEndInv

-----------------------------------------------------------------------------
LEMMA TicksFacts ==
    ASSUME NEW p \in Int, NEW r \in Int, NEW w \in Nat, p > r
    PROVE  p * w >= r * w + w
<1>1. p - r >= 1 /\ p - r \in Nat
  OBVIOUS
<1>2. \A d \in Nat : d >= 1 => d * w >= w
  OBVIOUS
<1>3. (p - r) * w >= w
  BY <1>1, <1>2
<1>4. (p - r) * w = p * w - r * w
  OBVIOUS
<1>5. p * w \in Int /\ r * w \in Int
  OBVIOUS
<1> QED
  BY <1>3, <1>4, <1>5

(* A filter that keeps what follows the first k.                           *)
LEMMA FilterSuffix ==
    ASSUME NEW S, NEW s \in Seq(S), NEW kept, NEW k \in 0 .. Len(s),
           \A i \in 1 .. Len(s) : s[i] \in kept <=> i > k
    PROVE  /\ Len(Filter(s, kept)) = Len(s) - k
           /\ \A i \in 1 .. Len(s) - k : Filter(s, kept)[i] = s[k + i]
<1>1. PICK upTo : Filter(s, kept) = upTo[Len(s)] /\ Filtering(upTo, s, kept)
  BY FilterSteps
<1>2. Len(s) \in Nat /\ k \in Nat /\ k <= Len(s)
  OBVIOUS
<1> DEFINE Good(t, n) ==
              /\ t \in Seq(S)
              /\ Len(t) = IF n <= k THEN 0 ELSE n - k
              /\ \A i \in 1 .. Len(t) : t[i] = s[k + i]
           T == {n \in Nat : n <= Len(s) => Good(upTo[n], n)}
<1>3. 0 \in T
  <2>1. upTo[0] = <<>>
    BY <1>1 DEF Filtering
  <2>2. Good(<<>>, 0)
    BY <1>2
  <2> QED
    BY <2>1, <2>2
<1>4. ASSUME NEW n \in T
      PROVE  n + 1 \in T
  <2>1. n \in Nat /\ n + 1 \in Nat
    OBVIOUS
  <2>2. SUFFICES ASSUME n + 1 <= Len(s)
                 PROVE  Good(upTo[n + 1], n + 1)
    BY <2>1
  <2> DEFINE t == upTo[n]
             x == s[n + 1]
  <2>3. Good(t, n) /\ n + 1 \in 1 .. Len(s)
    BY <1>2, <2>1, <2>2
  <2>4. x \in S /\ (x \in kept <=> n + 1 > k)
    BY <2>3
  <2>5. CASE n + 1 <= k
    <3>1. upTo[n + 1] = t
      <4>1. upTo[n + 1] = IF s[n + 1] \in kept THEN Append(upTo[n], s[n + 1]) ELSE upTo[n]
        BY <1>1, <2>1 DEF Filtering
      <4>2. s[n + 1] \notin kept
        BY <1>2, <2>1, <2>4, <2>5
      <4> QED
        BY <4>1, <4>2
    <3>2. n <= k
      BY <1>2, <2>1, <2>5
    <3> HIDE DEF t
    <3> QED
      BY <2>3, <2>5, <3>1, <3>2
  <2>6. CASE n + 1 > k
    <3>1. upTo[n + 1] = Append(t, x)
      <4>1. upTo[n + 1] = IF s[n + 1] \in kept THEN Append(upTo[n], s[n + 1]) ELSE upTo[n]
        BY <1>1, <2>1 DEF Filtering
      <4>2. s[n + 1] \in kept
        BY <2>4, <2>6
      <4> QED
        BY <4>1, <4>2
    <3> DEFINE u == Append(t, x)
    <3>2. /\ u \in Seq(S) /\ Len(u) = Len(t) + 1 /\ Len(t) \in Nat
          /\ u[Len(t) + 1] = x
          /\ \A i \in 1 .. Len(t) : u[i] = t[i]
      <4>1. t \in Seq(S)
        BY <2>3
      <4> HIDE DEF t, x
      <4> QED
        BY <2>4, <4>1, AppendProperties
    <3> HIDE DEF u, t
    <3>3. Len(t) = n - k
      BY <1>2, <2>1, <2>3, <2>6
    <3>4. Len(u) = n + 1 - k /\ k + (Len(t) + 1) = n + 1
      BY <1>2, <2>1, <3>2, <3>3
    <3>5. ASSUME NEW i \in 1 .. Len(u)
          PROVE  u[i] = s[k + i]
      <4>1. CASE i \in 1 .. Len(t)
        BY <2>3, <3>2, <4>1
      <4>2. CASE i = Len(t) + 1
        BY <3>2, <3>4, <4>2
      <4> QED
        BY <3>2, <4>1, <4>2
    <3>6. ~(n + 1 <= k)
      BY <1>2, <2>1, <2>6
    <3>7. Good(u, n + 1)
      BY <3>2, <3>4, <3>5, <3>6
    <3>8. upTo[n + 1] = u
      BY <3>1 DEF u
    <3> QED
      BY <3>7, <3>8
  <2> QED
    BY <1>2, <2>1, <2>5, <2>6
<1>5. T = Nat
  <2>1. T \in SUBSET Nat
    OBVIOUS
  <2> HIDE DEF T
  <2> QED
    BY <1>3, <1>4, <2>1, Induction
<1>6. Good(upTo[Len(s)], Len(s))
  BY <1>2, <1>5
<1>7. Len(s) <= k => Len(s) - k = 0
  BY <1>2
<1> QED
  BY <1>1, <1>2, <1>6, <1>7

(* What follows the first k tokens goes on where they end.                 *)
LEMMA SuffixHeard ==
    ASSUME NEW tokens, NEW q \in Nat, NEW wrong, NEW a, IsHeard(tokens, q, wrong, a),
           NEW k \in 0 .. Len(tokens), NEW p, p = q + k,
           NEW rest \in Seq(Token), Len(rest) = Len(tokens) - k,
           \A i \in 1 .. Len(rest) : rest[i] = tokens[k + i]
    PROVE  IsHeard(rest, p, wrong, a)
<1>1. ASSUME NEW i \in 1 .. Len(rest)
      PROVE  HeardAs(rest[i], p + i, wrong, a)
  <2>1. PICK j : j = k + i
    OBVIOUS
  <2>2. j \in 1 .. Len(tokens) /\ p + i = q + j /\ rest[i] = tokens[j]
    <3>1. tokens \in Seq(Token)
      BY DEF IsHeard
    <3>2. Len(tokens) \in Nat /\ k \in Nat /\ i \in Nat /\ i >= 1 /\ i <= Len(tokens) - k
      BY <3>1
    <3> QED
      BY <2>1, <3>2
  <2>3. HeardAs(tokens[j], q + j, wrong, a)
    BY <2>2 DEF IsHeard
  <2> QED
    BY <2>2, <2>3
<1> QED
  BY <1>1 DEF IsHeard

(* The word a pass misheard.                                               *)
Misheard(mishears) == IF mishears THEN wordsSpoken ELSE 0

(* The hypothesis is what was said from the start of the window.           *)
LEMMA HypothesisHeard ==
    ASSUME UnitsTypeOK, NEW mishears \in BOOLEAN, NEW shift \in Jitter,
           NEW q \in Nat, q + 1 = WindowStart, q < wordsSpoken,
           NEW tokens, tokens = Hypothesis(mishears, shift)
    PROVE  /\ Len(tokens) = wordsSpoken - q
           /\ IsHeard(tokens, q, Misheard(mishears), shift)
<1> DEFINE all == [p \in Positions |-> TokenAt(p, mishears /\ p = wordsSpoken, shift)]
<1>1. /\ Len(Speech) \in Nat /\ Positions = 1 .. Len(Speech)
      /\ wordsSpoken \in 0 .. Len(Speech) /\ wordsSpoken \in Nat
      /\ WordTicks \in Nat /\ shift \in Int
  BY SpeechAssumption DEF Positions, UnitsTypeOK
<1>2. tokens = SubSeq(all, q + 1, wordsSpoken)
  BY DEF Hypothesis
<1>3. tokens \in Seq(Token)
  BY HypothesisTyped
<1>4. all \in Seq({all[p] : p \in Positions}) /\ Len(all) = Len(Speech)
  <2> DEFINE R == {all[p] : p \in Positions}
  <2>1. all \in [1 .. Len(Speech) -> R]
    BY <1>1
  <2> HIDE DEF all, R
  <2>2. all \in Seq(R) /\ Len(all) = Len(Speech)
    BY <1>1, <2>1
  <2> QED
    BY <2>2 DEF R
<1>5. /\ Len(tokens) = wordsSpoken - q
      /\ \A i \in 1 .. Len(tokens) : tokens[i] = all[q + i]
  <2> DEFINE R == {all[p] : p \in Positions}
  <2> HIDE DEF all, R
  <2>1. all \in Seq(R) /\ q + 1 \in Int /\ wordsSpoken \in Int /\ q + 1 >= 1
        /\ wordsSpoken <= Len(all)
    BY <1>1, <1>4 DEF R
  <2>2. /\ Len(tokens) = IF q + 1 <= wordsSpoken THEN wordsSpoken - (q + 1) + 1 ELSE 0
        /\ \A i \in 1 .. Len(tokens) : tokens[i] = all[q + 1 + i - 1]
    BY <1>2, <2>1, PartFacts
  <2>3. \A i \in 1 .. Len(tokens) : q + 1 + i - 1 = q + i
    OBVIOUS
  <2> QED
    BY <1>1, <2>2, <2>3
<1>6. ASSUME NEW i \in 1 .. Len(tokens)
      PROVE  HeardAs(tokens[i], q + i, Misheard(mishears), shift)
  <2>1. PICK p : p = q + i
    OBVIOUS
  <2>2. p \in Positions /\ p # 0
    BY <1>1, <1>5, <2>1
  <2>3. tokens[i] = TokenAt(p, mishears /\ p = wordsSpoken, shift)
    BY <1>5, <2>1, <2>2
  <2>4. /\ tokens[i].pos = p
        /\ tokens[i].start = (p - 1) * WordTicks + shift
        /\ tokens[i].end = p * WordTicks + shift
        /\ tokens[i].norm = IF mishears /\ p = wordsSpoken THEN Speech[p].misheard
                            ELSE Speech[p].norm
    BY <2>3 DEF TokenAt
  <2>5. mishears /\ p = wordsSpoken <=> p = Misheard(mishears)
    BY <2>2 DEF Misheard
  <2>6. HeardAs(tokens[i], p, Misheard(mishears), shift)
    BY <2>2, <2>4, <2>5 DEF HeardAs
  <2> QED
    BY <2>1, <2>6
<1>7. IsHeard(tokens, q, Misheard(mishears), shift)
  BY <1>3, <1>6 DEF IsHeard
<1> QED
  BY <1>5, <1>7

(* Nothing is taken away from a hypothesis when nothing was confirmed.     *)
LEMMA StripNothing ==
    ASSUME UnitsTypeOK, NEW tokens \in Seq(Token), remembered = <<>>, committedEnd = 0
    PROVE  StripCommittedOverlap(tokens) = tokens
<1> DEFINE first == Largest({1, Len(remembered) - contextWords + 1})
           context == SubSeq(remembered, first, Len(remembered))
           Overlaps(size) ==
            /\ size <= Len(context) /\ size <= Len(tokens)
            /\ \A i \in 1 .. size : Same(context[Len(context) - size + i], tokens[i])
           sizes == {size \in 0 .. Len(tokens) : Overlaps(size)}
           overlap == Largest(sizes)
<1>1. remembered \in Seq(Token) /\ Len(remembered) = 0 /\ contextWords \in Nat
  BY LimitsAssumption DEF UnitsTypeOK
<1>2. first \in Int /\ first >= 1
  <2> DEFINE x == Len(remembered) - contextWords + 1
             S == {1, x}
  <2>1. x \in Int
    BY <1>1
  <2> HIDE DEF x
  <2>2. S = {1, x, x} /\ \A y \in S : y \in Int
    BY <2>1
  <2> HIDE DEF S
  <2>3. Largest(S) \in Int /\ Largest(S) >= 1
    BY <2>1, <2>2, LargestOfThree
  <2> QED
    BY <2>3 DEF S, x
<1> HIDE DEF first
<1>3. Len(context) = 0
  BY <1>1, <1>2, PartFacts
<1> HIDE DEF context
<1>4. sizes \in SUBSET Int /\ 0 \in sizes /\ \A x \in sizes : x = 0
  BY <1>3
<1> HIDE DEF sizes
<1>5. overlap = 0
  <2>1. sizes # {} /\ 0 \in Int /\ \A x \in sizes : x <= 0
    BY <1>4
  <2>2. Largest(sizes) \in sizes
    BY <1>4, <2>1, LargestFacts
  <2> QED
    BY <1>4, <2>2
<1>6. StripCommittedOverlap(tokens) = SubSeq(tokens, overlap + 1, Len(tokens))
  BY DEF StripCommittedOverlap, overlap, sizes, context, first
<1> HIDE DEF overlap
<1>7. SubSeq(tokens, 1, Len(tokens)) = tokens
  OBVIOUS
<1> QED
  BY <1>5, <1>6, <1>7

(* The window holds the word after the confirmed ones.                     *)
LEMMA WindowReaches ==
    ASSUME UnitsInv, timed, HeardClearly, SpellInv, from <= wordsSpoken
    PROVE  /\ WindowStart \in Nat /\ WindowStart >= 1
           /\ remembered = <<>> => WindowStart = from
           /\ remembered # <<>> => WindowStart <= ConfirmedUpTo
           /\ ConfirmedUpTo \in Nat /\ ConfirmedUpTo <= wordsSpoken
<1> DEFINE b == wordsSpoken - WindowWords + 1
           c == sealedEnd \div WordTicks
           n == Len(remembered)
           m == Len(pending)
<1>1. /\ from \in Nat /\ from >= 1 /\ wordsSpoken \in Nat
      /\ WordTicks \in Nat /\ WordTicks > 0 /\ WindowWords \in Nat /\ WindowWords >= 4
      /\ sealedEnd \in Nat /\ committedEnd \in Nat /\ sealedEnd <= committedEnd
      /\ n \in Nat /\ m \in Nat
  BY SpeechAssumption DEF UnitsInv, UnitsTypeOK, HeardClearly
<1>2. m <= 2 /\ from - 1 + n + m \in {wordsSpoken - 1, wordsSpoken}
  BY DEF SpellInv, PendingInv, ReachInv, ConfirmedUpTo
<1> HIDE DEF n, m
<1>3. ConfirmedUpTo = from - 1 + n
  BY DEF ConfirmedUpTo, n
<1>4. /\ ConfirmedUpTo \in Nat /\ ConfirmedUpTo <= wordsSpoken
      /\ b \in Int /\ b <= ConfirmedUpTo
  BY <1>1, <1>2, <1>3
<1>5. c \in Int
  BY <1>1
<1>6. remembered = <<>> => n = 0 /\ c = 0
  <2> SUFFICES ASSUME remembered = <<>>
               PROVE  n = 0 /\ c = 0
    OBVIOUS
  <2>1. n = 0
    BY DEF n
  <2>2. sealedEnd = 0
    BY <1>1 DEF SpellInv, LastEndInv
  <2>3. 0 \div WordTicks = 0
    BY <1>1
  <2> QED
    BY <2>1, <2>2, <2>3
<1>7. remembered # <<>> => n >= 1 /\ c <= ConfirmedUpTo
  <2> SUFFICES ASSUME remembered # <<>>
               PROVE  n >= 1 /\ c <= ConfirmedUpTo
    OBVIOUS
  <2>1. n >= 1
    BY DEF n, UnitsInv, UnitsTypeOK
  <2>2. PICK a \in Jitter : committedEnd = ConfirmedUpTo * WordTicks + a
    BY DEF SpellInv, LastEndInv
  <2>3. a \in Int /\ a < WordTicks
    BY SpeechAssumption DEF HeardClearly
  <2>4. PICK q : q = ConfirmedUpTo
    OBVIOUS
  <2>5. q \in Nat
    BY <1>4, <2>4
  <2>6. sealedEnd < q * WordTicks + WordTicks
    BY <1>1, <2>2, <2>3, <2>4, <2>5
  <2>7. sealedEnd = c * WordTicks + (sealedEnd % WordTicks) /\ sealedEnd % WordTicks \in Nat
    BY <1>1
  <2> HIDE DEF c
  <2>8. c > q => c * WordTicks >= q * WordTicks + WordTicks
    BY <1>1, <1>5, <2>5, TicksFacts
  <2>9. c * WordTicks \in Int /\ q * WordTicks \in Int
    BY <1>1, <1>5, <2>5
  <2> QED
    BY <1>1, <1>5, <2>1, <2>4, <2>5, <2>6, <2>7, <2>8, <2>9
<1> HIDE DEF b, c
<1>8. PICK S : S = {from, b, c}
  OBVIOUS
<1>9. /\ Largest(S) = from \/ Largest(S) = b \/ Largest(S) = c
      /\ from <= Largest(S) /\ b <= Largest(S) /\ c <= Largest(S)
  <2>1. from \in Int /\ b \in Int /\ c \in Int
    BY <1>1, <1>4, <1>5
  <2>2. Largest(S) \in S /\ from <= Largest(S) /\ b <= Largest(S) /\ c <= Largest(S)
    BY <1>8, <2>1, LargestOfThree
  <2> QED
    BY <1>8, <2>2
<1>10. WindowStart = Largest(S)
  BY <1>8 DEF WindowStart, b, c
<1>11. PICK w : w = Largest(S)
  OBVIOUS
<1> QED
  BY <1>1, <1>3, <1>4, <1>5, <1>6, <1>7, <1>9, <1>10, <1>11

(* If the times remove any tokens, what is left is what ends later.        *)
LEMMA StripLater ==
    ASSUME timed, committedEnd # 0, NEW tokens, NEW later,
           later = Filter(tokens, {t \in Token : t.end > committedEnd + tolerance}),
           Len(later) # Len(tokens)
    PROVE  StripCommittedOverlap(tokens) = later
  BY Zenon DEF StripCommittedOverlap

(* What is left of a hypothesis goes on where the confirmed words end.     *)
LEMMA StripHeard ==
    ASSUME UnitsInv, timed, HeardClearly, SpellInv, from <= wordsSpoken,
           NEW mishears \in BOOLEAN, NEW shift \in Jitter,
           NEW heard, heard = StripCommittedOverlap(Hypothesis(mishears, shift))
    PROVE  /\ Len(heard) = wordsSpoken - ConfirmedUpTo
           /\ IsHeard(heard, ConfirmedUpTo, Misheard(mishears), shift)
<1>1. PICK tokens : tokens = Hypothesis(mishears, shift)
  OBVIOUS
<1>2. PICK q : q = WindowStart - 1
  OBVIOUS
<1>3. PICK p : p = ConfirmedUpTo
  OBVIOUS
<1>4. /\ q \in Nat /\ q + 1 = WindowStart /\ p \in Nat /\ p <= wordsSpoken
      /\ wordsSpoken \in Nat /\ from \in Nat /\ q < wordsSpoken
      /\ remembered = <<>> => q = p
      /\ remembered # <<>> => q < p
  <2>1. wordsSpoken \in Nat /\ from \in Nat
    BY DEF UnitsInv, UnitsTypeOK
  <2>2. remembered = <<>> => p = from - 1
    BY <1>3, <2>1 DEF ConfirmedUpTo
  <2> QED
    BY <1>2, <1>3, <2>1, <2>2, WindowReaches
<1>5. Len(tokens) = wordsSpoken - q /\ IsHeard(tokens, q, Misheard(mishears), shift)
  BY <1>1, <1>4, HypothesisHeard DEF UnitsInv
<1>6. CASE remembered = <<>>
  <2>1. heard = tokens
    BY <1>1, <1>5, <1>6, StripNothing DEF UnitsInv, SpellInv, LastEndInv, IsHeard
  <2> QED
    BY <1>3, <1>4, <1>5, <1>6, <2>1
<1>7. CASE remembered # <<>>
  <2> DEFINE kept == {t \in Token : t.end > committedEnd + tolerance}
             later == Filter(tokens, kept)
  <2>1. PICK k : k = p - q
    OBVIOUS
  <2>2. tokens \in Seq(Token) /\ k \in 0 .. Len(tokens) /\ k >= 1
        /\ q + k = p /\ Len(tokens) - k = wordsSpoken - p
    <3>1. tokens \in Seq(Token)
      BY <1>5 DEF IsHeard
    <3> QED
      BY <1>4, <1>5, <1>7, <2>1, <3>1
  <2>3. PICK a \in Jitter : committedEnd = p * WordTicks + a
    BY <1>3, <1>7 DEF SpellInv, LastEndInv
  <2>4. /\ a \in Int /\ shift \in Int /\ a - shift <= tolerance /\ shift - a <= tolerance
        /\ -WordTicks < a
        /\ tolerance \in Nat /\ WordTicks \in Nat /\ 2 * tolerance < WordTicks
    BY SpeechAssumption DEF HeardClearly
  <2>5. committedEnd # 0
    <3>1. p > 0 /\ 0 \in Int
      BY <1>4, <1>7
    <3>2. p * WordTicks >= 0 * WordTicks + WordTicks
      BY <1>4, <2>4, <3>1, TicksFacts
    <3>3. p * WordTicks \in Int
      BY <1>4, <2>4
    <3> QED
      BY <2>3, <2>4, <3>2, <3>3
  <2>6. ASSUME NEW i \in 1 .. Len(tokens)
        PROVE  tokens[i] \in kept <=> i > k
    <3>1. PICK r : r = q + i
      OBVIOUS
    <3>2. r \in Nat /\ (r > p <=> i > k) /\ i \in Nat
      BY <1>4, <2>2, <3>1
    <3>3. tokens[i] \in Token
      BY <2>2
    <3>4. tokens[i].end = r * WordTicks + shift
      BY <1>5, <3>1 DEF IsHeard, HeardAs
    <3>5. /\ r > p => r * WordTicks >= p * WordTicks + WordTicks
          /\ p > r => p * WordTicks >= r * WordTicks + WordTicks
      BY <1>4, <2>4, <3>2, TicksFacts
    <3>6. p * WordTicks \in Int /\ r * WordTicks \in Int
      BY <1>4, <2>4, <3>2
    <3>7. r > p <=> tokens[i].end > committedEnd + tolerance
      <4>1. PICK x, y : x = r * WordTicks /\ y = p * WordTicks
        OBVIOUS
      <4>2. x \in Int /\ y \in Int /\ p \in Int /\ r \in Int
            /\ (r > p => x >= y + WordTicks) /\ (p > r => y >= x + WordTicks)
            /\ (p = r => x = y)
        BY <1>4, <3>2, <3>5, <3>6, <4>1
      <4>3. tokens[i].end = x + shift /\ committedEnd = y + a
        BY <2>3, <3>4, <4>1
      <4>4. r > p <=> x + shift > y + a + tolerance
        BY <2>4, <4>2
      <4> QED
        BY <4>3, <4>4
    <3> QED
      BY <3>2, <3>3, <3>7
  <2>7. /\ Len(later) = Len(tokens) - k
        /\ \A i \in 1 .. Len(tokens) - k : later[i] = tokens[k + i]
    <3> HIDE DEF kept
    <3> QED
      BY <2>2, <2>6, FilterSuffix
  <2>8. later \in Seq(Token)
    BY <2>2, FilterFacts
  <2>9. heard = later
    <3>1. Len(later) # Len(tokens)
      BY <2>2, <2>7
    <3> QED
      BY <1>1, <2>5, <3>1, StripLater
  <2> HIDE DEF later
  <2>10. \A i \in 1 .. Len(later) : later[i] = tokens[k + i]
    BY <2>7
  <2>11. IsHeard(later, p, Misheard(mishears), shift)
    <3>1. Len(later) = Len(tokens) - k /\ p = q + k
      BY <2>2, <2>7
    <3>2. q \in Nat /\ IsHeard(tokens, q, Misheard(mishears), shift)
      BY <1>4, <1>5
    <3>3. k \in 0 .. Len(tokens)
      BY <2>2
    <3> QED
      BY <2>8, <2>10, <3>1, <3>2, <3>3, SuffixHeard, Zenon
  <2>12. Len(later) = wordsSpoken - p
    BY <2>2, <2>7
  <2> QED
    BY <1>3, <2>9, <2>11, <2>12
<1> QED
  BY <1>6, <1>7

-----------------------------------------------------------------------------
(* Two passes over the same words agree from the first word on.            *)

(* A run of words on which the two agree.                                  *)
LEMMA AgreementRun ==
    ASSUME NEW previous \in Seq(Token), NEW newest \in Seq(Token),
           NEW i \in 1 .. Len(previous) + 1, NEW j \in 1 .. Len(newest) + 1,
           NEW n, n = Agreement(previous, i, newest, j)
    PROVE  /\ n \in 0 .. Len(newest)
           /\ i + n - 1 <= Len(previous) /\ j + n - 1 <= Len(newest)
           /\ \A k \in 0 .. n - 1 : Same(previous[i + k], newest[j + k])
<1> DEFINE S == {m \in 0 .. Len(newest) :
                /\ i + m - 1 <= Len(previous) /\ j + m - 1 <= Len(newest)
                /\ \A k \in 0 .. m - 1 : Same(previous[i + k], newest[j + k])}
<1>1. S \in SUBSET Int /\ S # {} /\ Len(newest) \in Int /\ \A x \in S : x <= Len(newest)
  <2>1. 0 \in S
    OBVIOUS
  <2> QED
    BY <2>1
<1>2. n = Largest(S)
  BY DEF Agreement
<1>3. n \in S
  <2> HIDE DEF S
  <2> QED
    BY <1>1, <1>2, LargestFacts
<1> QED
  BY <1>3

(* No common run of the first words is longer.                             *)
LEMMA AgreementReaches ==
    ASSUME NEW previous \in Seq(Token), NEW newest \in Seq(Token),
           NEW m \in Nat, m <= Len(previous), m <= Len(newest),
           \A k \in 1 .. m : Same(previous[k], newest[k])
    PROVE  /\ Agreement(previous, 1, newest, 1) \in Nat
           /\ m <= Agreement(previous, 1, newest, 1)
<1> DEFINE S == {n \in 0 .. Len(newest) :
                /\ 1 + n - 1 <= Len(previous) /\ 1 + n - 1 <= Len(newest)
                /\ \A k \in 0 .. n - 1 : Same(previous[1 + k], newest[1 + k])}
<1>1. m \in S
  <2>1. \A k \in 0 .. m - 1 : Same(previous[1 + k], newest[1 + k])
    <3> TAKE k \in 0 .. m - 1
    <3>1. 1 + k \in 1 .. m
      OBVIOUS
    <3> QED
      BY <3>1
  <2>2. m \in 0 .. Len(newest) /\ 1 + m - 1 = m
    OBVIOUS
  <2> QED
    BY <2>1, <2>2
<1>2. S \in SUBSET Int /\ Len(newest) \in Int /\ \A x \in S : x <= Len(newest) /\ x \in Nat
  OBVIOUS
<1>3. Agreement(previous, 1, newest, 1) = Largest(S)
  BY DEF Agreement
<1> HIDE DEF S
<1>4. Largest(S) \in S /\ \A x \in S : x <= Largest(S)
  <2>1. S # {} /\ \A x \in S : x <= Len(newest)
    BY <1>1, <1>2
  <2> QED
    BY <1>2, <2>1, LargestFacts
<1> QED
  BY <1>1, <1>2, <1>3, <1>4

(* Words that are aligned but not at the same place were heard right.      *)
LEMMA AlignedHeardRight ==
    ASSUME HeardClearly, NEW q \in Nat, NEW a \in Jitter, NEW b \in Jitter,
           NEW wrong, NEW miss, NEW previous, NEW newest,
           IsHeard(previous, q, wrong, a), IsHeard(newest, q, miss, b),
           NEW i \in 1 .. Len(previous), NEW j \in 1 .. Len(newest), i # j,
           Aligned(previous, i, newest, j)
    PROVE  q + i # wrong /\ q + j # miss
<1>1. PICK p, r : p = q + i /\ r = q + j
  OBVIOUS
<1>2. /\ p \in Positions /\ r \in Positions /\ p # r /\ p \in Int /\ r \in Int
      /\ previous[i].start = (p - 1) * WordTicks + a
      /\ newest[j].start = (r - 1) * WordTicks + b
      /\ previous[i].norm = IF p = wrong THEN Speech[p].misheard ELSE Speech[p].norm
      /\ newest[j].norm = IF r = miss THEN Speech[r].misheard ELSE Speech[r].norm
  <2>1. HeardAs(previous[i], p, wrong, a) /\ HeardAs(newest[j], r, miss, b)
    BY <1>1 DEF IsHeard
  <2>2. p # r /\ p \in Int /\ r \in Int
    <3>1. Len(previous) \in Nat /\ Len(newest) \in Nat
      BY DEF IsHeard
    <3> QED
      BY <1>1, <3>1
  <2> QED
    BY <2>1, <2>2 DEF HeardAs
<1>3. WordTicks \in Nat /\ a \in Int /\ b \in Int /\ alignDistance \in Nat
  BY SpeechAssumption DEF HeardClearly
<1>4. previous[i].start - newest[j].start = (p - r) * WordTicks + a - b
  <2>1. (p - 1) * WordTicks = p * WordTicks - WordTicks
        /\ (r - 1) * WordTicks = r * WordTicks - WordTicks
        /\ (p - r) * WordTicks = p * WordTicks - r * WordTicks
        /\ p * WordTicks \in Int /\ r * WordTicks \in Int
    BY <1>2, <1>3
  <2> QED
    BY <1>2, <1>3, <2>1
<1>5. (p - r) * WordTicks + a - b \in -alignDistance .. alignDistance
  BY <1>4 DEF Aligned
<1>6. Near(p, r)
  BY <1>5 DEF Near
<1>7. Near(r, p)
  <2>1. (r - p) * WordTicks + b - a = -((p - r) * WordTicks + a - b)
    BY <1>2, <1>3
  <2>2. PICK x : x = (p - r) * WordTicks + a - b
    OBVIOUS
  <2>3. x \in -alignDistance .. alignDistance
    BY <1>5, <2>2
  <2>4. -x \in -alignDistance .. alignDistance
    BY <1>3, <2>3
  <2>5. (r - p) * WordTicks + b - a \in -alignDistance .. alignDistance
    BY <2>1, <2>2, <2>4
  <2> QED
    BY <2>5 DEF Near
<1>8. /\ Speech[p].misheard \notin {Speech[r].norm, Speech[r].misheard}
      /\ Speech[r].misheard \notin {Speech[p].norm, Speech[p].misheard}
  BY <1>2, <1>6, <1>7 DEF HeardClearly
<1>9. previous[i].norm = newest[j].norm
  BY DEF Aligned, Same
<1> QED
  BY <1>1, <1>2, <1>8, <1>9

(* A word that both passes heard right is aligned with itself.             *)
LEMMA HeardRightAligned ==
    ASSUME HeardClearly, NEW q \in Nat, NEW a \in Jitter, NEW b \in Jitter,
           NEW wrong, NEW miss, NEW previous, NEW newest,
           IsHeard(previous, q, wrong, a), IsHeard(newest, q, miss, b),
           NEW i \in 1 .. Len(previous), i \in 1 .. Len(newest),
           q + i # wrong, q + i # miss
    PROVE  Same(previous[i], newest[i]) /\ Aligned(previous, i, newest, i)
<1>1. PICK p : p = q + i
  OBVIOUS
<1>2. HeardAs(previous[i], p, wrong, a) /\ HeardAs(newest[i], p, miss, b)
  BY <1>1 DEF IsHeard
<1>3. Same(previous[i], newest[i])
  BY <1>1, <1>2 DEF HeardAs, Same
<1>4. /\ WordTicks \in Nat /\ a \in Int /\ b \in Int
      /\ alignDistance \in Nat /\ tolerance \in Nat /\ tolerance <= alignDistance
      /\ a - b <= tolerance /\ b - a <= tolerance
  BY SpeechAssumption DEF HeardClearly
<1>5. p \in Int
  <2>1. Len(previous) \in Nat
    BY DEF IsHeard
  <2> QED
    BY <1>1, <2>1
<1>6. PICK x : x = (p - 1) * WordTicks
  OBVIOUS
<1>7. x \in Int /\ previous[i].start = x + a /\ newest[i].start = x + b
  BY <1>2, <1>4, <1>5, <1>6 DEF HeardAs
<1>8. previous[i].start - newest[i].start \in -alignDistance .. alignDistance
  <2>1. previous[i].start - newest[i].start = a - b
    BY <1>4, <1>7
  <2>2. a - b \in -alignDistance .. alignDistance
    BY <1>4
  <2> QED
    BY <2>1, <2>2
<1> QED
  BY <1>3, <1>8 DEF Aligned

(* The tails that two passes leave after word q: the second may know one   *)
(* word more, and only the last word of either may be misheard.            *)
Successive(previous, newest, q) ==
    /\ \E wrong \in {0, q + Len(previous)}, a \in Jitter : IsHeard(previous, q, wrong, a)
    /\ \E wrong \in {0, q + Len(newest)}, a \in Jitter : IsHeard(newest, q, wrong, a)
    /\ Len(previous) <= 2 /\ Len(newest) \in {Len(previous), Len(previous) + 1}

(* No run of aligned words is longer than the one from the first words.    *)
LEMMA FirstAgreement ==
    ASSUME HeardClearly, NEW q \in Nat, NEW previous, NEW newest,
           Successive(previous, newest, q),
           NEW i \in 1 .. Len(previous), NEW j \in 1 .. Len(newest),
           Aligned(previous, i, newest, j)
    PROVE  /\ Aligned(previous, 1, newest, 1)
           /\ Agreement(previous, i, newest, j) <= Agreement(previous, 1, newest, 1)
<1>1. PICK wrong \in {0, q + Len(previous)}, a \in Jitter : IsHeard(previous, q, wrong, a)
  BY DEF Successive
<1>2. PICK miss \in {0, q + Len(newest)}, b \in Jitter : IsHeard(newest, q, miss, b)
  BY DEF Successive
<1>3. previous \in Seq(Token) /\ newest \in Seq(Token)
  BY <1>1, <1>2 DEF IsHeard
<1> DEFINE l == Len(previous)
           m == Len(newest)
<1>4. l \in Nat /\ m \in Nat /\ l <= 2 /\ (m = l \/ m = l + 1)
      /\ i \in Nat /\ j \in Nat /\ 1 <= i /\ i <= l /\ 1 <= j /\ j <= m
  BY <1>3 DEF Successive
<1>5. (wrong = 0 \/ wrong = q + l) /\ (miss = 0 \/ miss = q + m)
  BY <1>1, <1>2
<1>6. i # j => q + i # wrong /\ q + j # miss
  BY <1>1, <1>2, AlignedHeardRight
<1>7. PICK n : n = Agreement(previous, i, newest, j)
  OBVIOUS
<1>8. PICK n1 : n1 = Agreement(previous, 1, newest, 1)
  OBVIOUS
<1>11. /\ n1 \in Nat
       /\ \A x \in Nat : /\ x <= l /\ x <= m
                         /\ \A k \in 1 .. x : Same(previous[k], newest[k])
                         => x <= n1
  <2>1. n1 \in Nat
    <3>1. 0 \in Nat /\ 0 <= Len(previous) /\ 0 <= Len(newest)
          /\ \A k \in 1 .. 0 : Same(previous[k], newest[k])
      BY <1>4
    <3> QED
      BY <1>3, <1>8, <3>1, AgreementReaches
  <2>2. ASSUME NEW x \in Nat, x <= l, x <= m,
               \A k \in 1 .. x : Same(previous[k], newest[k])
        PROVE  x <= n1
    BY <1>3, <1>8, <2>2, AgreementReaches
  <2> QED
    BY <2>1, <2>2
<1>9. /\ i \in 1 .. Len(previous) + 1 /\ j \in 1 .. Len(newest) + 1
      /\ 1 \in 1 .. Len(previous) + 1 /\ 1 \in 1 .. Len(newest) + 1
  BY <1>4
<1>10. /\ n \in Nat /\ i + n - 1 <= l /\ j + n - 1 <= m
       /\ \A k \in 0 .. n - 1 : Same(previous[i + k], newest[j + k])
  BY <1>3, <1>7, <1>9, AgreementRun
<1>12. CASE i = 1 /\ j = 1
  BY <1>7, <1>8, <1>10, <1>11, <1>12
<1>13. CASE ~(i = 1 /\ j = 1)
  <2>1. q + 1 # wrong /\ q + 1 # miss
    BY <1>4, <1>5, <1>6, <1>13
  <2>2. 1 \in 1 .. Len(previous) /\ 1 \in 1 .. Len(newest)
    BY <1>4
  <2>3. Same(previous[1], newest[1]) /\ Aligned(previous, 1, newest, 1)
    BY <1>1, <1>2, <2>1, <2>2, HeardRightAligned
  <2>4. n1 >= 1
    <3>1. 1 \in Nat /\ 1 <= l /\ 1 <= m
      BY <1>4
    <3>2. \A k \in 1 .. 1 : Same(previous[k], newest[k])
      BY <2>3
    <3> QED
      BY <1>11, <3>1, <3>2
  <2>5. n >= 2 => n = 2 /\ i = 1 /\ j = 2 /\ l = 2 /\ m = 3
    <3>1. n \in Nat /\ i + n - 1 <= l /\ j + n - 1 <= m
      BY <1>10
    <3> HIDE DEF l, m
    <3> QED
      BY <1>4, <1>13, <3>1
  <2>6. n >= 2 => n1 >= 2
    <3> SUFFICES ASSUME n >= 2
                 PROVE  n1 >= 2
      OBVIOUS
    <3>1. n = 2 /\ i = 1 /\ j = 2 /\ l = 2 /\ m = 3
      BY <2>5
    <3>2. Same(previous[2], newest[3])
      <4>1. 1 \in 0 .. n - 1 /\ i + 1 = 2 /\ j + 1 = 3
        BY <3>1
      <4> QED
        BY <1>10, <4>1
    <3>3. 2 \in 1 .. Len(previous) /\ 3 \in 1 .. Len(newest) /\ 2 \in 1 .. Len(newest)
      BY <3>1
    <3>4. previous[2].start - newest[3].start = previous[1].start - newest[2].start
      <4>1. WordTicks \in Nat /\ a \in Int /\ b \in Int
        BY SpeechAssumption
      <4>2. 1 \in 1 .. Len(previous) /\ q + 1 = q + 1 /\ q + 2 = q + 2 /\ q + 3 = q + 3
        BY <1>4
      <4>3. /\ HeardAs(previous[1], q + 1, wrong, a) /\ HeardAs(previous[2], q + 2, wrong, a)
            /\ HeardAs(newest[2], q + 2, miss, b) /\ HeardAs(newest[3], q + 3, miss, b)
        BY <1>1, <1>2, <3>3, <4>2 DEF IsHeard
      <4>4. /\ previous[1].start = q * WordTicks + a
            /\ previous[2].start = (q + 1) * WordTicks + a
            /\ newest[2].start = (q + 1) * WordTicks + b
            /\ newest[3].start = (q + 2) * WordTicks + b
        BY <4>3 DEF HeardAs
      <4>5. /\ (q + 1) * WordTicks = q * WordTicks + WordTicks
            /\ (q + 2) * WordTicks = q * WordTicks + WordTicks + WordTicks
            /\ q * WordTicks \in Int
        BY <4>1
      <4> QED
        BY <4>1, <4>4, <4>5
    <3>5. Aligned(previous, 2, newest, 3)
      BY <3>1, <3>2, <3>4 DEF Aligned
    <3>6. q + 2 # wrong
      BY <1>1, <1>2, <3>3, <3>5, AlignedHeardRight
    <3>7. q + 2 # miss
      BY <1>5, <3>1
    <3>8. Same(previous[2], newest[2])
      BY <1>1, <1>2, <3>3, <3>6, <3>7, HeardRightAligned
    <3>9. \A k \in 1 .. 2 : Same(previous[k], newest[k])
      <4>1. \A k \in 1 .. 2 : k = 1 \/ k = 2
        OBVIOUS
      <4> QED
        BY <2>3, <3>8, <4>1
    <3>10. 2 \in Nat /\ 2 <= l /\ 2 <= m
      BY <3>1
    <3> QED
      BY <1>11, <3>9, <3>10
  <2>7. n <= n1
    BY <1>10, <1>11, <2>4, <2>5, <2>6
  <2> QED
    BY <1>7, <1>8, <2>3, <2>7
<1> QED
  BY <1>12, <1>13

LEMMA AlignmentFirst ==
    ASSUME HeardClearly, NEW q \in Nat, NEW previous, NEW newest,
           Successive(previous, newest, q), CanAlign(previous, newest)
    PROVE  /\ TimedAlignment(previous, newest) = <<1, 1>>
           /\ previous # <<>> /\ newest # <<>>
           /\ Agreement(previous, 1, newest, 1) >= 1
<1> DEFINE Candidates == {c \in (1 .. Len(previous)) \X (1 .. Len(newest)) :
                             Aligned(previous, c[1], newest, c[2])}
           Run(c) == Agreement(previous, c[1], newest, c[2])
           runs == {Run(c) : c \in Candidates}
           longest == Largest(runs)
           Best == {c \in Candidates : Run(c) = longest}
           First(c) == \A d \in Best : c[1] < d[1] \/ (c[1] = d[1] /\ c[2] <= d[2])
<1>1. previous \in Seq(Token) /\ newest \in Seq(Token)
  BY DEF Successive, IsHeard
<1>2. PICK i \in 1 .. Len(previous), j \in 1 .. Len(newest) :
             Aligned(previous, i, newest, j)
  BY DEF CanAlign
<1>3. Aligned(previous, 1, newest, 1) /\ 1 \in 1 .. Len(previous) /\ 1 \in 1 .. Len(newest)
  <2>1. 1 \in 1 .. Len(previous) /\ 1 \in 1 .. Len(newest)
    BY <1>1, <1>2
  <2> QED
    BY <1>2, <2>1, FirstAgreement
<1>4. <<1, 1>> \in Candidates /\ Run(<<1, 1>>) = Agreement(previous, 1, newest, 1)
  BY <1>3
<1>5. \A c \in Candidates : Run(c) <= Run(<<1, 1>>)
  <2> TAKE c \in Candidates
  <2>1. c[1] \in 1 .. Len(previous) /\ c[2] \in 1 .. Len(newest)
        /\ Aligned(previous, c[1], newest, c[2])
    OBVIOUS
  <2>2. Agreement(previous, c[1], newest, c[2]) <= Agreement(previous, 1, newest, 1)
    BY <2>1, FirstAgreement
  <2> QED
    BY <2>2
<1>6. \A c \in Candidates : Run(c) \in Nat
  <2> TAKE c \in Candidates
  <2>1. c[1] \in 1 .. Len(previous) + 1 /\ c[2] \in 1 .. Len(newest) + 1
    BY <1>1
  <2> QED
    BY <1>1, <2>1, AgreementFacts
<1>7. \A c \in Candidates : c[1] \in Nat /\ c[2] \in Nat /\ c[1] >= 1 /\ c[2] >= 1
                            /\ c = <<c[1], c[2]>>
  OBVIOUS
<1>8. TimedAlignment(previous, newest) = CHOOSE c \in Best : First(c)
  BY DEF TimedAlignment
<1> HIDE DEF Candidates, Run
<1>9. longest = Run(<<1, 1>>)
  <2>1. runs \in SUBSET Int /\ runs # {} /\ Run(<<1, 1>>) \in runs
        /\ \A x \in runs : x <= Run(<<1, 1>>) /\ x \in Nat
    BY <1>4, <1>5, <1>6
  <2>2. Run(<<1, 1>>) \in Int
    BY <1>4, <1>6
  <2> HIDE DEF runs
  <2>3. Largest(runs) \in runs /\ \A x \in runs : x <= Largest(runs)
    BY <2>1, <2>2, LargestFacts
  <2> DEFINE top == Largest(runs)
             one == Run(<<1, 1>>)
  <2> HIDE DEF top, one
  <2>4. top <= one /\ one <= top /\ top \in Int /\ one \in Int
    BY <2>1, <2>2, <2>3 DEF top, one
  <2> QED
    BY <2>4 DEF top, one
<1> HIDE DEF longest
<1>10. <<1, 1>> \in Best /\ Best \subseteq Candidates
  BY <1>4, <1>9
<1> HIDE DEF Best
<1>11. First(<<1, 1>>)
  <2> SUFFICES ASSUME NEW d \in Best
               PROVE  1 < d[1] \/ (1 = d[1] /\ 1 <= d[2])
    OBVIOUS
  <2>1. d[1] \in Nat /\ d[2] \in Nat /\ d[1] >= 1 /\ d[2] >= 1
    BY <1>7, <1>10
  <2> QED
    BY <2>1
<1>12. ASSUME NEW c \in Best, First(c)
       PROVE  c = <<1, 1>>
  <2>1. c[1] < 1 \/ (c[1] = 1 /\ c[2] <= 1)
    BY <1>10, <1>12
  <2>2. c[1] \in Nat /\ c[2] \in Nat /\ c[1] >= 1 /\ c[2] >= 1 /\ c = <<c[1], c[2]>>
    BY <1>7, <1>10, <1>12
  <2>3. c[1] = 1 /\ c[2] = 1
    BY <2>1, <2>2
  <2> QED
    BY <2>2, <2>3
<1>13. TimedAlignment(previous, newest) = <<1, 1>>
  <2> HIDE DEF First
  <2> QED
    BY <1>8, <1>10, <1>11, <1>12
<1>14. Agreement(previous, 1, newest, 1) >= 1
  <2>1. 1 \in Nat /\ 1 <= Len(previous) /\ 1 <= Len(newest)
    BY <1>1, <1>3
  <2>2. \A k \in 1 .. 1 : Same(previous[k], newest[k])
    BY <1>3 DEF Aligned
  <2> QED
    BY <1>1, <2>1, <2>2, AgreementReaches
<1>15. previous # <<>> /\ newest # <<>>
  BY <1>1, <1>3
<1> QED
  BY <1>13, <1>14, <1>15

(* No word of the tail falls out of the window unconfirmed.                *)
LEMMA NothingFallen ==
    ASSUME HeardClearly, timed, NEW q \in Nat, NEW previous, NEW newest, newest # <<>>,
           Successive(previous, newest, q)
    PROVE  Fallen(previous, newest) = <<>>
<1>1. PICK wrong \in {0, q + Len(previous)}, a \in Jitter : IsHeard(previous, q, wrong, a)
  BY DEF Successive
<1>2. PICK miss \in {0, q + Len(newest)}, b \in Jitter : IsHeard(newest, q, miss, b)
  BY DEF Successive
<1>3. previous \in Seq(Token) /\ newest \in Seq(Token)
  BY <1>1, <1>2 DEF IsHeard
<1>4. /\ WordTicks \in Nat /\ a \in Int /\ b \in Int /\ b - a <= tolerance
      /\ tolerance \in Nat /\ 2 * tolerance < WordTicks
  BY SpeechAssumption DEF HeardClearly
<1> DEFINE starts == {newest[i].start : i \in 1 .. Len(newest)}
           start == Smallest(starts)
           kept == {t \in Token : t.end <= start + tolerance}
<1>5. PICK first : first = q * WordTicks + b
  OBVIOUS
<1>6. ASSUME NEW i \in 1 .. Len(newest)
      PROVE  newest[i].start \in Int /\ first <= newest[i].start /\ (i = 1 => newest[i].start = first)
  <2>1. PICK p : p = q + i - 1
    OBVIOUS
  <2>2. i \in Nat /\ i >= 1
    BY <1>3
  <2>3. p \in Nat /\ p >= q /\ (i = 1 => p = q) /\ q + i - 1 = p
    BY <2>1, <2>2
  <2>4. newest[i].start = p * WordTicks + b
    <3>1. PICK r : r = q + i
      OBVIOUS
    <3>2. HeardAs(newest[i], r, miss, b) /\ r - 1 = p
      BY <1>2, <2>3, <3>1 DEF IsHeard
    <3> QED
      BY <3>2 DEF HeardAs
  <2>5. p > q => p * WordTicks >= q * WordTicks + WordTicks
    BY <1>4, <2>3, TicksFacts
  <2>6. PICK x, y : x = p * WordTicks /\ y = q * WordTicks
    OBVIOUS
  <2>7. x \in Int /\ y \in Int /\ (p > q => x >= y + WordTicks) /\ (p = q => x = y)
    BY <1>4, <2>3, <2>5, <2>6
  <2>8. newest[i].start = x + b /\ first = y + b
    BY <1>5, <2>4, <2>6
  <2>9. x >= y
    BY <1>4, <2>3, <2>7
  <2> QED
    BY <1>4, <2>3, <2>7, <2>8, <2>9
<1>7. start = first
  <2>1. 1 \in 1 .. Len(newest)
    BY <1>3
  <2>2. first \in starts /\ \A x \in starts : first <= x /\ x \in Int
    BY <1>6, <2>1
  <2> HIDE DEF starts
  <2>3. start \in starts /\ \A x \in starts : start <= x
    BY <2>2 DEF Smallest
  <2> QED
    BY <2>2, <2>3
<1>8. Fallen(previous, newest) = Filter(previous, kept)
  BY DEF Fallen
<1> HIDE DEF start
<1>9. ASSUME NEW i \in 1 .. Len(previous)
      PROVE  previous[i] \notin kept
  <2>1. PICK p : p = q + i
    OBVIOUS
  <2>2. p \in Nat /\ p > q
    BY <1>3, <2>1
  <2>3. previous[i].end = p * WordTicks + a
    BY <1>1, <2>1 DEF IsHeard, HeardAs
  <2>4. p * WordTicks >= q * WordTicks + WordTicks
    BY <1>4, <2>2, TicksFacts
  <2>5. PICK x, y : x = p * WordTicks /\ y = q * WordTicks
    OBVIOUS
  <2>6. x \in Int /\ y \in Int /\ x >= y + WordTicks
    BY <1>4, <2>2, <2>4, <2>5
  <2>7. previous[i].end = x + a /\ start = y + b
    BY <1>5, <1>7, <2>3, <2>5
  <2>8. ~(x + a <= y + b + tolerance)
    BY <1>4, <2>6
  <2> QED
    BY <2>7, <2>8
<1>10. Len(Filter(previous, kept)) = 0
  <2> HIDE DEF kept
  <2>1. PICK k : k = Len(previous)
    OBVIOUS
  <2>2. k \in 0 .. Len(previous) /\ Len(previous) - k = 0
    BY <1>3, <2>1
  <2>3. \A i \in 1 .. Len(previous) : previous[i] \in kept <=> i > k
    BY <1>3, <1>9, <2>1
  <2> QED
    BY <1>3, <2>2, <2>3, FilterSuffix
<1>11. Filter(previous, kept) \in Seq(Token)
  BY <1>3, FilterFacts
<1> QED
  BY <1>8, <1>10, <1>11

(* An ingest confirms the first words of the hypothesis.                   *)
LEMMA ConfirmHeard ==
    ASSUME HeardClearly, timed, NEW q \in Nat, NEW newest,
           Successive(pending, newest, q),
           NEW final \in BOOLEAN, newest # <<>> \/ final,
           NEW agreed, agreed = Confirm(newest, final)
    PROVE  \E n \in 0 .. Len(newest) :
              /\ agreed.tokens = SubSeq(newest, 1, n)
              /\ agreed.tail = SubSeq(newest, n + 1, Len(newest))
              /\ Len(newest) - n <= 2
<1>0. PICK tokens, tail : tokens = agreed.tokens /\ tail = agreed.tail
  OBVIOUS
<1> SUFFICES \E n \in 0 .. Len(newest) :
                /\ tokens = SubSeq(newest, 1, n)
                /\ tail = SubSeq(newest, n + 1, Len(newest))
                /\ Len(newest) - n <= 2
  BY <1>0
<1>1. /\ pending \in Seq(Token) /\ newest \in Seq(Token)
      /\ Len(pending) \in Nat /\ Len(newest) \in Nat
      /\ Len(pending) <= 2 /\ Len(newest) <= Len(pending) + 1
  <2>1. pending \in Seq(Token) /\ newest \in Seq(Token)
    BY DEF Successive, IsHeard
  <2> QED
    BY <2>1 DEF Successive
<1>2. CASE final
  <2>1. tokens = newest /\ tail = <<>>
    BY <1>0, <1>2 DEF Confirm
  <2>2. newest = SubSeq(newest, 1, Len(newest))
    BY <1>1
  <2>3. <<>> = SubSeq(newest, Len(newest) + 1, Len(newest))
    BY <1>1
  <2>4. Len(newest) \in 0 .. Len(newest) /\ Len(newest) - Len(newest) <= 2
    BY <1>1
  <2> QED
    BY <2>1, <2>2, <2>3, <2>4
<1>3. CASE ~final /\ CanAlign(pending, newest)
  <2>1. PICK n : n = Agreement(pending, 1, newest, 1)
    OBVIOUS
  <2>2. /\ TimedAlignment(pending, newest) = <<1, 1>>
        /\ n >= 1
    BY <1>3, <2>1, AlignmentFirst
  <2>3. n \in 0 .. Len(newest)
    <3>1. 1 \in 1 .. Len(pending) + 1 /\ 1 \in 1 .. Len(newest) + 1
      BY <1>1
    <3> QED
      BY <1>1, <2>1, <3>1, AgreementFacts
  <2> DEFINE first ==
          [tokens |-> SubSeq(pending, 1, 1 - 1) \o SubSeq(newest, 1, 1 + n - 1),
           tail |-> SubSeq(newest, 1 + n, Len(newest))]
  <2>4. agreed = first
    BY <1>3, <2>1, <2>2 DEF Confirm
  <2>5. SubSeq(pending, 1, 1 - 1) = <<>> /\ 1 + n - 1 = n /\ 1 + n = n + 1
    BY <1>1, <2>3
  <2>6. SubSeq(newest, 1, n) \in Seq(Token)
    BY <1>1, <2>3, PartFacts
  <2>7. tokens = <<>> \o SubSeq(newest, 1, n) /\ tail = SubSeq(newest, n + 1, Len(newest))
    <3>1. /\ tokens = SubSeq(pending, 1, 1 - 1) \o SubSeq(newest, 1, 1 + n - 1)
          /\ tail = SubSeq(newest, 1 + n, Len(newest))
      <4>1. tokens = first.tokens /\ tail = first.tail
        <5> HIDE DEF first
        <5> QED
          BY <1>0, <2>4, Zenon
      <4> QED
        BY <4>1
    <3>2. /\ SubSeq(newest, 1, 1 + n - 1) = SubSeq(newest, 1, n)
          /\ SubSeq(newest, 1 + n, Len(newest)) = SubSeq(newest, n + 1, Len(newest))
      BY <2>5
    <3>3. SubSeq(pending, 1, 1 - 1) = <<>>
      BY <2>5
    <3> QED
      BY <3>1, <3>2, <3>3, Zenon
  <2>8. tokens = SubSeq(newest, 1, n)
    BY <2>6, <2>7
  <2>9. Len(newest) - n <= 2
    BY <1>1, <2>2, <2>3
  <2> QED
    BY <1>3, <2>3, <2>7, <2>8, <2>9
<1>4. CASE ~final /\ ~CanAlign(pending, newest)
  <2>1. PICK n : n = Agreement(pending, 1, newest, 1)
    OBVIOUS
  <2>2. n \in 0 .. Len(newest)
    <3>1. 1 \in 1 .. Len(pending) + 1 /\ 1 \in 1 .. Len(newest) + 1
      BY <1>1
    <3> QED
      BY <1>1, <2>1, <3>1, AgreementFacts
  <2>3. Len(newest) <= 2
    <3> SUFFICES ASSUME Len(newest) > 2
                 PROVE  FALSE
      BY <1>1
    <3>1. Len(newest) = 3 /\ Len(pending) = 2
      <4>1. PICK l, m : l = Len(pending) /\ m = Len(newest)
        OBVIOUS
      <4>2. l \in Nat /\ m \in Nat /\ l <= 2 /\ m <= l + 1 /\ m > 2
        BY <1>1, <4>1
      <4>3. m = 3 /\ l = 2
        BY <4>2
      <4> QED
        BY <4>1, <4>3
    <3>2. PICK wrong \in {0, q + Len(pending)}, a \in Jitter : IsHeard(pending, q, wrong, a)
      BY DEF Successive
    <3>3. PICK miss \in {0, q + Len(newest)}, b \in Jitter : IsHeard(newest, q, miss, b)
      BY DEF Successive
    <3>4. q + 1 # wrong /\ q + 1 # miss
      BY <3>1, <3>2, <3>3
    <3>5. 1 \in 1 .. Len(pending) /\ 1 \in 1 .. Len(newest)
      BY <3>1
    <3>6. Aligned(pending, 1, newest, 1)
      BY <3>2, <3>3, <3>4, <3>5, HeardRightAligned
    <3> QED
      BY <1>4, <3>5, <3>6 DEF CanAlign
  <2>4. CASE n > 0
    <3>1. agreed = [tokens |-> SubSeq(newest, 1, n),
                    tail |-> SubSeq(newest, n + 1, Len(newest))]
      BY <1>4, <2>1, <2>4 DEF Confirm
    <3>2. Len(newest) - n <= 2
      BY <1>1, <2>2, <2>3
    <3> QED
      BY <1>0, <2>2, <3>1, <3>2
  <2>5. CASE ~(n > 0)
    <3>1. agreed = [tokens |-> Fallen(pending, newest), tail |-> newest]
      BY <1>4, <2>1, <2>5 DEF Confirm
    <3>2. Fallen(pending, newest) = <<>>
      BY <1>4, NothingFallen
    <3>3. SubSeq(newest, 1, 0) = <<>> /\ SubSeq(newest, 0 + 1, Len(newest)) = newest
      BY <1>1
    <3>4. 0 \in 0 .. Len(newest) /\ Len(newest) - 0 <= 2
      BY <1>1, <2>3
    <3>5. tokens = SubSeq(newest, 1, 0) /\ tail = SubSeq(newest, 0 + 1, Len(newest))
      BY <1>0, <3>1, <3>2, <3>3
    <3> QED
      BY <3>4, <3>5, Zenon
  <2> QED
    BY <2>4, <2>5
<1> QED
  BY <1>2, <1>3, <1>4

-----------------------------------------------------------------------------
(* The steps.                                                              *)

(* The last end of words that were heard is the end of the last.           *)
LEMMA LastEndHeard ==
    ASSUME HeardClearly, timed, NEW q \in Nat, NEW wrong, NEW a \in Jitter,
           NEW tokens, IsHeard(tokens, q, wrong, a), tokens # <<>>,
           NEW before \in Nat,
           before = 0 \/ \E b \in Jitter : before = q * WordTicks + b
    PROVE  LastEnd(tokens, before) = (q + Len(tokens)) * WordTicks + a
<1>1. tokens \in Seq(Token) /\ Len(tokens) \in Nat /\ Len(tokens) >= 1
  BY DEF IsHeard
<1>2. /\ WordTicks \in Nat /\ a \in Int /\ -WordTicks < a
      /\ tolerance \in Nat /\ 2 * tolerance < WordTicks
      /\ \A b \in Jitter : b \in Int /\ b - a <= tolerance
  BY SpeechAssumption DEF HeardClearly
<1>3. PICK p : p = q + Len(tokens)
  OBVIOUS
<1>4. PICK limit : limit = p * WordTicks + a
  OBVIOUS
<1>5. p \in Nat /\ p > q /\ p > 0
  BY <1>1, <1>3
<1>6. PICK x, y : x = p * WordTicks /\ y = q * WordTicks
  OBVIOUS
<1>7. x \in Int /\ y \in Nat /\ x >= y + WordTicks
  <2>1. p * WordTicks >= q * WordTicks + WordTicks
    BY <1>2, <1>5, TicksFacts
  <2> QED
    BY <1>2, <1>5, <1>6, <2>1
<1>8. limit = x + a /\ limit \in Nat /\ before <= limit
  <2>1. limit = x + a /\ limit \in Nat
    BY <1>2, <1>4, <1>6, <1>7
  <2>2. CASE before = 0
    BY <2>1, <2>2
  <2>3. CASE \E b \in Jitter : before = q * WordTicks + b
    <3>1. PICK b \in Jitter : before = y + b
      BY <1>6, <2>3
    <3>2. b \in Int /\ b - a <= tolerance
      BY <1>2
    <3> QED
      BY <1>2, <1>7, <2>1, <3>1, <3>2
  <2> QED
    BY <2>1, <2>2, <2>3
<1>9. ASSUME NEW i \in 1 .. Len(tokens)
      PROVE  tokens[i].end <= limit /\ (i = Len(tokens) => tokens[i].end = limit)
  <2>1. PICK r : r = q + i
    OBVIOUS
  <2>2. r \in Nat /\ r <= p /\ (i = Len(tokens) => r = p)
    BY <1>1, <1>3, <2>1
  <2>3. HeardAs(tokens[i], r, wrong, a)
    BY <2>1 DEF IsHeard
  <2>4. PICK z : z = r * WordTicks
    OBVIOUS
  <2>5. tokens[i].end = z + a
    BY <2>3, <2>4 DEF HeardAs
  <2>6. p > r => p * WordTicks >= r * WordTicks + WordTicks
    BY <1>2, <1>5, <2>2, TicksFacts
  <2>7. z \in Int /\ (p > r => x >= z + WordTicks) /\ (p = r => x = z)
    BY <1>2, <1>6, <2>2, <2>4, <2>6
  <2>8. z <= x
    BY <1>2, <1>5, <1>7, <2>2, <2>7
  <2> QED
    BY <1>2, <1>7, <1>8, <2>2, <2>5, <2>7, <2>8
<1>10. PICK last : last = LastEnd(tokens, before)
  OBVIOUS
<1>11. last \in Nat /\ last <= limit /\ \A i \in 1 .. Len(tokens) : tokens[i].end <= last
  <2>1. timed \in BOOLEAN
    OBVIOUS
  <2> QED
    BY <1>1, <1>8, <1>9, <1>10, <2>1, LastEndFacts
<1>12. limit <= last
  <2>1. Len(tokens) \in 1 .. Len(tokens)
    BY <1>1
  <2> QED
    BY <1>9, <1>11, <2>1
<1> QED
  BY <1>3, <1>4, <1>8, <1>10, <1>11, <1>12

LEMMA SpellIngest ==
    ASSUME UnitsInv, timed, HeardClearly, SpellInv,
           NEW mishears \in BOOLEAN, NEW final \in BOOLEAN, NEW shift \in Jitter,
           Ingest(mishears, shift, final)
    PROVE  SpellInv'
<1>1. PICK newest : newest = StripCommittedOverlap(Hypothesis(mishears, shift))
  OBVIOUS
<1>2. PICK q : q = ConfirmedUpTo
  OBVIOUS
<1>3. from <= wordsSpoken /\ passes \in Nat /\ passes' = passes + 1
      /\ UNCHANGED <<timed, wordsSpoken, from, resets>>
  BY DEF Ingest, UnitsInv, UnitsTypeOK
<1>4. q \in Nat /\ q <= wordsSpoken /\ wordsSpoken \in Nat /\ from \in Nat /\ from >= 1
  <2>1. wordsSpoken \in Nat /\ from \in Nat /\ from >= 1
    BY DEF UnitsInv, UnitsTypeOK
  <2> QED
    BY <1>2, <1>3, <2>1, WindowReaches
<1>5. /\ Len(newest) = wordsSpoken - q
      /\ IsHeard(newest, q, Misheard(mishears), shift)
  BY <1>1, <1>2, <1>3, StripHeard
<1>6. /\ q = from - 1 + Len(remembered)
      /\ remembered \in Seq(Token) /\ pending \in Seq(Token)
      /\ Len(remembered) \in Nat /\ Len(pending) \in Nat /\ committedEnd \in Nat
  BY <1>2 DEF ConfirmedUpTo, UnitsInv, UnitsTypeOK
<1>7. /\ Len(pending) <= 2
      /\ Len(pending) = wordsSpoken - q \/ Len(pending) = wordsSpoken - q - 1
  BY <1>2, <1>4, <1>6 DEF SpellInv, PendingInv, ReachInv
<1>8. newest \in Seq(Token) /\ Len(newest) \in Nat
  BY <1>5 DEF IsHeard
<1>9. CASE newest = <<>> /\ ~final
  <2>1. updates' = <<>> /\ UNCHANGED <<pending, remembered, committedEnd>>
    BY <1>1, <1>9 DEF Ingest
  <2>2. Len(newest) = 0
    BY <1>9
  <2>3. Len(pending) = 0 /\ wordsSpoken = q
    BY <1>4, <1>5, <1>6, <1>7, <2>2
  <2>4. ConfirmedUpTo' = ConfirmedUpTo
    BY <1>3, <2>1 DEF ConfirmedUpTo
  <2>5. RememberedInv' /\ PendingInv' /\ LastEndInv'
    BY <1>3, <2>1, <2>4 DEF SpellInv, RememberedInv, PendingInv, LastEndInv
  <2>6. ReachInv'
    BY <1>2, <1>3, <1>4, <2>1, <2>3, <2>4 DEF SpellInv, ReachInv
  <2> QED
    BY <2>5, <2>6 DEF SpellInv
<1>10. CASE ~(newest = <<>> /\ ~final)
  <2>1. PICK agreed : agreed = Confirm(newest, final)
    OBVIOUS
  <2>2. PICK tokens, tail : tokens = agreed.tokens /\ tail = agreed.tail
    OBVIOUS
  <2>3. /\ remembered' = remembered \o tokens
        /\ committedEnd' = LastEnd(tokens, committedEnd)
        /\ pending' = tail
    BY <1>1, <1>10, <2>1, <2>2 DEF Ingest
  <2>4. Successive(pending, newest, q)
    <3>1. \E wrong \in {0, q + Len(pending)}, a \in Jitter : IsHeard(pending, q, wrong, a)
      <4>1. CASE pending = <<>>
        <5>1. Len(pending) = 0
          BY <4>1
        <5>2. IsHeard(pending, q, 0, shift)
          BY <1>6, <5>1 DEF IsHeard
        <5> QED
          BY <5>2
      <4>2. CASE pending # <<>>
        BY <1>2, <4>2 DEF SpellInv, PendingInv
      <4> QED
        BY <4>1, <4>2
    <3>2. Misheard(mishears) \in {0, q + Len(newest)}
      BY <1>4, <1>5 DEF Misheard
    <3>3. Len(newest) \in {Len(pending), Len(pending) + 1}
      BY <1>4, <1>5, <1>6, <1>7
    <3> QED
      BY <1>5, <1>7, <3>1, <3>2, <3>3 DEF Successive
  <2>5. PICK n \in 0 .. Len(newest) :
           /\ tokens = SubSeq(newest, 1, n)
           /\ tail = SubSeq(newest, n + 1, Len(newest))
           /\ Len(newest) - n <= 2
    <3>1. newest # <<>> \/ final
      BY <1>10
    <3>2. \E n \in 0 .. Len(newest) :
              /\ agreed.tokens = SubSeq(newest, 1, n)
              /\ agreed.tail = SubSeq(newest, n + 1, Len(newest))
              /\ Len(newest) - n <= 2
      BY <1>4, <2>1, <2>4, <3>1, ConfirmHeard
    <3> QED
      BY <2>2, <3>2
  <2>6. n \in Nat /\ n <= Len(newest) /\ n + 1 \in Int /\ n + 1 >= 1
    BY <1>8
  <2>7. /\ tokens \in Seq(Token) /\ Len(tokens) = n
        /\ \A i \in 1 .. n : tokens[i] = newest[i]
    <3>1. /\ SubSeq(newest, 1, n) \in Seq(Token)
          /\ Len(SubSeq(newest, 1, n)) = IF 1 <= n THEN n - 1 + 1 ELSE 0
          /\ \A i \in 1 .. Len(SubSeq(newest, 1, n)) :
                SubSeq(newest, 1, n)[i] = newest[1 + i - 1]
      BY <1>8, <2>6, PartFacts
    <3>2. Len(tokens) = n
      BY <2>5, <2>6, <3>1
    <3>3. \A i \in 1 .. n : 1 + i - 1 = i
      BY <2>6
    <3> QED
      BY <2>5, <3>1, <3>2, <3>3
  <2>8. /\ tail \in Seq(Token) /\ Len(tail) = Len(newest) - n
        /\ \A i \in 1 .. Len(tail) : tail[i] = newest[n + i]
    <3>1. /\ SubSeq(newest, n + 1, Len(newest)) \in Seq(Token)
          /\ Len(SubSeq(newest, n + 1, Len(newest)))
                = IF n + 1 <= Len(newest) THEN Len(newest) - (n + 1) + 1 ELSE 0
          /\ \A i \in 1 .. Len(SubSeq(newest, n + 1, Len(newest))) :
                SubSeq(newest, n + 1, Len(newest))[i] = newest[n + 1 + i - 1]
      BY <1>8, <2>6, PartFacts
    <3>2. Len(tail) = Len(newest) - n
      BY <1>8, <2>5, <2>6, <3>1
    <3>3. \A i \in 1 .. Len(tail) : n + 1 + i - 1 = n + i
      BY <2>6
    <3> QED
      BY <2>5, <3>1, <3>2, <3>3
  <2>9. IsHeard(tokens, q, Misheard(mishears), shift)
    <3>1. \A i \in 1 .. Len(tokens) : i \in 1 .. Len(newest) /\ tokens[i] = newest[i]
      BY <1>8, <2>6, <2>7
    <3> QED
      BY <1>5, <2>7, <3>1 DEF IsHeard
  <2>10. PICK p : p = q + n
    OBVIOUS
  <2>11. /\ Len(remembered') = Len(remembered) + n
         /\ \A i \in 1 .. Len(remembered) : remembered'[i] = remembered[i]
         /\ \A i \in 1 .. n : remembered'[Len(remembered) + i] = tokens[i]
    <3>1. PICK t : t = remembered \o tokens
      OBVIOUS
    <3>2. /\ Len(t) = Len(remembered) + Len(tokens)
          /\ \A i \in 1 .. Len(remembered) : t[i] = remembered[i]
          /\ \A i \in 1 .. Len(tokens) : t[Len(remembered) + i] = tokens[i]
      <4>1. /\ Len(t) = Len(remembered) + Len(tokens)
            /\ \A i \in 1 .. Len(remembered) + Len(tokens) :
                  t[i] = IF i <= Len(remembered) THEN remembered[i]
                         ELSE tokens[i - Len(remembered)]
        BY <1>6, <2>7, <3>1, ConcatProperties
      <4>2. PICK l, m : l = Len(remembered) /\ m = Len(tokens)
        OBVIOUS
      <4>3. l \in Nat /\ m \in Nat
        BY <1>6, <2>6, <2>7, <4>2
      <4>4. ASSUME NEW i \in 1 .. m
            PROVE  t[l + i] = tokens[i]
        <5>1. l + i \in 1 .. l + m /\ ~(l + i <= l) /\ (l + i) - l = i
          BY <4>3
        <5> QED
          BY <4>1, <4>2, <5>1
      <4>5. ASSUME NEW i \in 1 .. l
            PROVE  t[i] = remembered[i]
        <5>1. i \in 1 .. l + m /\ i <= l
          BY <4>3
        <5> QED
          BY <4>1, <4>2, <5>1
      <4> QED
        BY <4>1, <4>2, <4>4, <4>5
    <3>3. remembered' = t /\ Len(tokens) = n
      BY <2>3, <2>7, <3>1
    <3> QED
      BY <3>2, <3>3
  <2>12. ConfirmedUpTo' = p
    BY <1>3, <1>4, <1>6, <2>6, <2>10, <2>11 DEF ConfirmedUpTo
  <2>13. RememberedInv'
    <3> SUFFICES ASSUME NEW i \in 1 .. Len(remembered')
                 PROVE  remembered'[i].pos = from + i - 1
      BY <1>3 DEF RememberedInv
    <3>1. CASE i \in 1 .. Len(remembered)
      BY <2>11, <3>1 DEF SpellInv, RememberedInv
    <3>2. CASE i \notin 1 .. Len(remembered)
      <4>1. PICK k : k = i - Len(remembered)
        OBVIOUS
      <4>2. k \in 1 .. n /\ Len(remembered) + k = i /\ q + k = from + i - 1
        BY <1>4, <1>6, <2>6, <2>11, <3>2, <4>1
      <4>3. HeardAs(tokens[k], q + k, Misheard(mishears), shift)
        BY <2>7, <2>9, <4>2 DEF IsHeard
      <4>4. tokens[k].pos = q + k
        BY <4>3 DEF HeardAs
      <4> QED
        BY <2>11, <4>2, <4>4
    <3> QED
      BY <3>1, <3>2
  <2>14. PendingInv'
    <3>1. IsHeard(tail, p, Misheard(mishears), shift)
      BY <1>4, <1>5, <2>5, <2>8, <2>10, SuffixHeard, Zenon
    <3>2. Misheard(mishears) \in {0, p + Len(tail)}
      <4>1. p + Len(tail) = wordsSpoken
        BY <1>4, <1>5, <1>8, <2>6, <2>8, <2>10
      <4> QED
        BY <4>1 DEF Misheard
    <3>3. Len(tail) <= 2
      BY <2>5, <2>8
    <3> QED
      BY <2>3, <2>12, <3>1, <3>2, <3>3 DEF PendingInv
  <2>15. ReachInv'
    <3>1. p + Len(tail) = wordsSpoken
      BY <1>4, <1>5, <1>8, <2>6, <2>8, <2>10
    <3> QED
      BY <1>3, <1>4, <2>3, <2>12, <3>1 DEF ReachInv
  <2>16. LastEndInv'
    <3>1. CASE n = 0
      <4>1. tokens = <<>>
        BY <2>7, <3>1
      <4>2. remembered' = remembered /\ committedEnd' = committedEnd /\ p = q
        BY <1>4, <1>6, <2>3, <2>10, <3>1, <4>1 DEF LastEnd
      <4> QED
        BY <1>2, <2>12, <4>2 DEF SpellInv, LastEndInv
    <3>2. CASE n # 0
      <4>1. tokens # <<>> /\ remembered' # <<>>
        BY <1>6, <2>6, <2>7, <2>11, <3>2
      <4>2. committedEnd = 0 \/ \E b \in Jitter : committedEnd = q * WordTicks + b
        BY <1>2 DEF SpellInv, LastEndInv
      <4>3. LastEnd(tokens, committedEnd) = (q + Len(tokens)) * WordTicks + shift
        BY <1>4, <1>6, <2>9, <4>1, <4>2, LastEndHeard
      <4>4. committedEnd' = p * WordTicks + shift
        BY <2>3, <2>7, <2>10, <4>3
      <4> QED
        BY <2>12, <4>1, <4>4 DEF LastEndInv
    <3> QED
      BY <3>1, <3>2
  <2> QED
    BY <2>13, <2>14, <2>15, <2>16 DEF SpellInv
<1> QED
  BY <1>9, <1>10

LEMMA SpellStart ==
    ASSUME UnitsInit
    PROVE  SpellInv
<1>1. /\ remembered = <<>> /\ pending = <<>> /\ updates = <<>> /\ committedEnd = 0
      /\ from = 1 /\ wordsSpoken = 0 /\ passes = 0
  BY DEF UnitsInit
<1>2. Len(remembered) = 0 /\ Len(pending) = 0
  BY <1>1
<1> QED
  BY <1>1, <1>2
    DEF SpellInv, RememberedInv, PendingInv, ReachInv, LastEndInv, ConfirmedUpTo

LEMMA SpellStep ==
    ASSUME HeardClearly, UnitsInv, timed => SpellInv, [UnitsNext]_unitsVars
    PROVE  timed' => SpellInv'
<1> SUFFICES ASSUME timed'
             PROVE  SpellInv'
  OBVIOUS
<1>1. timed
  <2>1. CASE Speak
    BY <2>1 DEF Speak
  <2>2. ASSUME NEW mishears \in BOOLEAN, NEW final \in BOOLEAN, NEW shift \in Jitter,
               Ingest(mishears, shift, final)
        PROVE  timed
    <3>1. UNCHANGED <<timed, wordsSpoken, from, resets>>
      BY <2>2 DEF Ingest
    <3> QED
      BY <3>1
  <2>3. CASE Reset
    BY <2>3 DEF Reset
  <2>4. CASE UNCHANGED unitsVars
    BY <2>4 DEF unitsVars
  <2> QED
    BY <2>1, <2>2, <2>3, <2>4 DEF UnitsNext
<1>2. /\ wordsSpoken \in Nat /\ from \in Nat /\ from >= 1 /\ passes \in Nat
      /\ Len(remembered) \in Nat /\ Len(pending) \in Nat
  BY DEF UnitsInv, UnitsTypeOK
<1>3. SpellInv
  BY <1>1
<1>4. CASE Speak
  <2>1. /\ wordsSpoken' = wordsSpoken + 1 /\ passes' = 0 /\ updates' = <<>>
        /\ passes > 0 \/ wordsSpoken < from
        /\ UNCHANGED <<from, pending, remembered, committedEnd>>
    BY <1>4 DEF Speak
  <2>2. ConfirmedUpTo' = ConfirmedUpTo
    BY <2>1 DEF ConfirmedUpTo
  <2>3. RememberedInv' /\ PendingInv' /\ LastEndInv'
    BY <1>3, <2>1, <2>2 DEF SpellInv, RememberedInv, PendingInv, LastEndInv
  <2>4. ConfirmedUpTo + Len(pending) = wordsSpoken
    BY <1>2, <1>3, <2>1 DEF SpellInv, ReachInv, ConfirmedUpTo
  <2>5. ReachInv'
    BY <1>2, <1>3, <2>1, <2>2, <2>4 DEF SpellInv, ReachInv
  <2> QED
    BY <2>3, <2>5 DEF SpellInv
<1>5. ASSUME NEW mishears \in BOOLEAN, NEW final \in BOOLEAN, NEW shift \in Jitter,
             Ingest(mishears, shift, final)
      PROVE  SpellInv'
  BY <1>1, <1>3, <1>5, SpellIngest
<1>6. CASE Reset
  <2>1. /\ remembered' = <<>> /\ pending' = <<>> /\ updates' = <<>> /\ committedEnd' = 0
        /\ from' = wordsSpoken + 1 /\ wordsSpoken' = wordsSpoken /\ passes' = 0
    BY <1>6 DEF Reset
  <2>2. Len(remembered') = 0 /\ Len(pending') = 0
    BY <2>1
  <2>3. ConfirmedUpTo' = wordsSpoken
    BY <1>2, <2>1, <2>2 DEF ConfirmedUpTo
  <2>4. RememberedInv' /\ PendingInv' /\ LastEndInv'
    BY <2>1, <2>2 DEF RememberedInv, PendingInv, LastEndInv
  <2>5. ReachInv'
    BY <1>2, <2>1, <2>2, <2>3 DEF ReachInv
  <2> QED
    BY <2>4, <2>5 DEF SpellInv
<1>7. CASE UNCHANGED unitsVars
  <2>1. UNCHANGED <<timed, wordsSpoken, passes, from, pending, remembered,
                    committedEnd, updates>>
    BY <1>7 DEF unitsVars
  <2>2. ConfirmedUpTo' = ConfirmedUpTo
    BY <2>1 DEF ConfirmedUpTo
  <2>3. RememberedInv' /\ PendingInv'
    BY <1>3, <2>1, <2>2 DEF SpellInv, RememberedInv, PendingInv
  <2>4. ReachInv' /\ LastEndInv'
    BY <1>3, <2>1, <2>2 DEF SpellInv, ReachInv, LastEndInv
  <2> QED
    BY <2>3, <2>4 DEF SpellInv
<1> QED
  BY <1>4, <1>5, <1>6, <1>7 DEF UnitsNext

LEMMA SpellMeans ==
    ASSUME UnitsInv, timed => SpellInv
    PROVE  SpeechSpelt
<1> SUFFICES ASSUME timed
             PROVE  /\ Increasing(remembered)
                    /\ AllSealed =>
                          {remembered[i].pos : i \in 1 .. Len(remembered)}
                             = from .. wordsSpoken
  BY DEF SpeechSpelt
<1> DEFINE n == Len(remembered)
<1>1. /\ wordsSpoken \in Nat /\ from \in Nat /\ n \in Nat
      /\ \A i \in 1 .. n : remembered[i].pos = from + i - 1
  BY DEF UnitsInv, UnitsTypeOK, SpellInv, RememberedInv
<1>2. Increasing(remembered)
  <2> SUFFICES ASSUME NEW i \in 1 .. n, NEW j \in 1 .. n, i < j
               PROVE  remembered[i].pos < remembered[j].pos
    BY DEF Increasing
  <2>1. remembered[i].pos = from + i - 1 /\ remembered[j].pos = from + j - 1
    BY <1>1
  <2> QED
    BY <1>1, <2>1
<1>3. ASSUME AllSealed
      PROVE  {remembered[i].pos : i \in 1 .. n} = from .. wordsSpoken
  <2>1. updates # <<>> /\ pending = <<>>
    BY <1>3 DEF AllSealed
  <2>2. Len(pending) = 0
    BY <2>1
  <2>3. from - 1 + n = wordsSpoken
    <3>1. ConfirmedUpTo + Len(pending) = wordsSpoken
      BY <2>1 DEF SpellInv, ReachInv
    <3> QED
      BY <1>1, <2>2, <3>1 DEF ConfirmedUpTo
  <2> HIDE DEF n
  <2>4. ASSUME NEW i \in 1 .. n
        PROVE  remembered[i].pos \in from .. wordsSpoken
    <3>1. from + i - 1 \in from .. wordsSpoken
      BY <1>1, <2>3
    <3> QED
      BY <1>1, <3>1
  <2>5. ASSUME NEW p \in from .. wordsSpoken
        PROVE  \E i \in 1 .. n : remembered[i].pos = p
    <3>1. PICK i : i = p - from + 1
      OBVIOUS
    <3>2. i \in 1 .. n /\ from + i - 1 = p
      BY <1>1, <2>3, <3>1
    <3> QED
      BY <1>1, <3>2
  <2> QED
    BY <2>4, <2>5
<1> QED
  BY <1>2, <1>3

(* With word times, and a recogniser that hears clearly enough, what is    *)
(* confirmed spells what was said: no word twice, none out of order and,   *)
(* when a final pass has sealed the rest, none missing, however many words *)
(* there are and however often the newest one is heard anew.               *)
THEOREM SpeechIsSpelt ==
    ASSUME HeardClearly
    PROVE  UnitsSpec => []SpeechSpelt
<1>1. UnitsInit => (timed => SpellInv)
  BY SpellStart
<1>2. UnitsInv /\ (timed => SpellInv) /\ [UnitsNext]_unitsVars
         => (timed => SpellInv)'
  BY SpellStep
<1>3. UnitsInv /\ (timed => SpellInv) => SpeechSpelt
  BY SpellMeans
<1> QED
  BY <1>1, <1>2, <1>3, UnitsInvariant, PTL DEF UnitsSpec

-----------------------------------------------------------------------------
(* The transcript and its history file.                                    *)

Places == {"idle", "persist", "listed", "save", "replace", "unlinkOther",
           "unlinkEncrypted", "unlinkPlaintext", "mark"}
Tasks == [at : Places, copy : SUBSET Cues,
          mark : {"keep", "written", "empty", "start"}]

(* No copy holds a cue that was not spoken.                                *)
CopyInv == \A w \in Writers : task[w].copy \subseteq 1 .. spoken

(* The start of the session deletes the cache in the other format: what it *)
(* has still to do, and what it has done.                                  *)
StartInv ==
    task[Loop].mark = "start" =>
        /\ task[Loop].at \in {"replace", "unlinkOther", "unlinkEncrypted",
                              "unlinkPlaintext"}
        /\ task[Loop].at = "unlinkPlaintext" /\ ~crypto => encrypted = {}

RetentionInv == RetentionTypeOK /\ CopyInv /\ StartInv /\ OneCacheFormat

-----------------------------------------------------------------------------
FlagTypes ==
    /\ alive \in BOOLEAN /\ crypto \in BOOLEAN /\ saving \in BOOLEAN
    /\ sensitive \in BOOLEAN /\ cacheWritten \in BOOLEAN

MemoryTypes ==
    /\ spoken \in 0 .. MaxCue /\ expired \in 0 .. spoken
    /\ openCue \in 0 .. spoken /\ historyDraft \in 0 .. spoken
    /\ history \subseteq 1 .. spoken /\ erased \subseteq 1 .. spoken
    /\ requests \in 0 .. MaxRequests /\ crashes \in 0 .. MaxCrashes
    /\ publisher \in {"stopped", "idle", "sending"} \cup Threads

FileTypes ==
    /\ encrypted \subseteq 1 .. spoken /\ plaintext \subseteq 1 .. spoken
    /\ strays \subseteq 1 .. spoken

TaskTypes == task \in [Writers -> Tasks] /\ CopyInv

LEMMA TypeParts ==
    RetentionTypeOK /\ CopyInv
      <=> FlagTypes /\ MemoryTypes /\ FileTypes /\ TaskTypes
<1> QED
  BY DEF RetentionTypeOK, FlagTypes, MemoryTypes, FileTypes, TaskTypes, OnDisk,
         Tasks, Places

LEMMA PlaceFacts ==
    ASSUME NEW t \in Tasks, NEW place \in Places
    PROVE  LET next == [t EXCEPT !.at = place] IN
           /\ next \in Tasks /\ next.at = place
           /\ next.mark = t.mark /\ next.copy = t.copy
<1> QED
  BY DEF Tasks

LEMMA NewTasks ==
    /\ Idle \in Tasks /\ Idle.copy = {} /\ Idle.mark = "keep"
    /\ Idle.at = "idle"
    /\ Deleting \in Tasks /\ Deleting.copy = {} /\ Deleting.mark = "keep"
    /\ Deleting.at = "unlinkEncrypted"
    /\ [Deleting EXCEPT !.mark = "empty"] \in Tasks
    /\ [Deleting EXCEPT !.mark = "empty"].copy = {}
    /\ [Deleting EXCEPT !.mark = "empty"].mark # "start"
    /\ [Deleting EXCEPT !.mark = "start"] \in Tasks
    /\ [Deleting EXCEPT !.mark = "start"].copy = {}
    /\ [Deleting EXCEPT !.mark = "start"].at = "unlinkEncrypted"
    /\ Persisting \in Tasks /\ Persisting.copy = {}
    /\ Persisting.mark = "keep"
<1> QED
  BY DEF Idle, Deleting, Persisting, Tasks, Places

(* A writer's next task is one that can be, and of cues that were spoken.  *)
LEMMA StepTypes ==
    ASSUME TaskTypes, UNCHANGED spoken, NEW w \in Writers, NEW next \in Tasks,
           next.copy \subseteq 1 .. spoken, Step(w, next)
    PROVE  TaskTypes'
<1> QED
  BY DEF TaskTypes, Step, CopyInv

LEMMA LastCuesFacts ==
    ASSUME NEW cues, NEW n
    PROVE  LastCues(cues, n) \subseteq cues
<1> QED
  BY DEF LastCues

(* What a writer does next, and when it goes on with a start.              *)
LEMMA WriterNext ==
    ASSUME MemoryTypes, TaskTypes, NEW w \in Writers, WriterStep(w)
    PROVE  \E next \in Tasks :
             /\ task' = [task EXCEPT ![w] = next]
             /\ next.copy \subseteq 1 .. spoken
             /\ next.mark = "start" =>
                  /\ task[w].mark = "start"
                  /\ \/ Replace(w) /\ next.at = "unlinkOther"
                     \/ UnlinkEncrypted(w) /\ next.at = "unlinkPlaintext"
                     \/ Save(w)
<1>1. /\ task[w] \in Tasks /\ task[w].copy \subseteq 1 .. spoken
      /\ 1 .. spoken \subseteq Cues
  BY BoundsAssumption DEF TaskTypes, CopyInv, MemoryTypes, Cues
<1>2. ASSUME NEW next \in Tasks, Step(w, next),
             next.copy \subseteq 1 .. spoken, next.mark # "start"
      PROVE  \E n \in Tasks :
               /\ task' = [task EXCEPT ![w] = n]
               /\ n.copy \subseteq 1 .. spoken /\ n.mark # "start"
  BY <1>2 DEF Step
<1>3. CASE CopyHistory(w)
  <2> DEFINE listed == [at |-> "listed", copy |-> history, mark |-> "keep"]
  <2>1. /\ listed \in Tasks /\ listed.copy \subseteq 1 .. spoken
        /\ listed.mark # "start"
    BY <1>1 DEF Tasks, Places, MemoryTypes
  <2>2. Step(w, listed) \/ Step(w, [Deleting EXCEPT !.mark = "empty"])
    BY <1>3 DEF CopyHistory
  <2> HIDE DEF listed
  <2> QED
    BY <1>2, <2>1, <2>2, NewTasks
<1>4. CASE CopyDraft(w)
  <2> DEFINE cues == LastCues(task[w].copy \cup DraftOf(historyDraft), HistoryLimit)
             saved == [at |-> "save", copy |-> cues,
                       mark |-> IF cues = {} THEN "empty" ELSE "written"]
  <2>1. cues \subseteq 1 .. spoken
    <3>1. DraftOf(historyDraft) \subseteq 1 .. spoken
      BY DEF MemoryTypes, DraftOf, NoEntry
    <3> QED
      BY <1>1, <3>1, LastCuesFacts
  <2>2. /\ saved \in Tasks /\ saved.copy \subseteq 1 .. spoken
        /\ saved.mark # "start"
    BY <1>1, <2>1 DEF Tasks, Places
  <2>3. Step(w, Idle) \/ Step(w, saved)
    BY <1>4 DEF CopyDraft
  <2> HIDE DEF saved, cues
  <2> QED
    BY <1>2, <2>2, <2>3, NewTasks
<1>5. CASE Save(w)
  <2> DEFINE kept == task[w].copy \ Expired
             place == IF kept = {} THEN "unlinkEncrypted" ELSE "replace"
             next == [task[w] EXCEPT !.copy = kept, !.at = place]
  <2>1. kept \in SUBSET Cues /\ kept \subseteq 1 .. spoken
        /\ place \in Places
    BY <1>1 DEF Places
  <2>2. Step(w, next)
    BY <1>5 DEF Save
  <2> HIDE DEF kept, place
  <2>3. next \in Tasks /\ next.copy = kept /\ next.mark = task[w].mark
    BY <1>1, <2>1 DEF Tasks
  <2> QED
    BY <1>5, <2>1, <2>2, <2>3 DEF Step
<1>6. CASE Replace(w)
  <2> DEFINE next == [task[w] EXCEPT !.at = "unlinkOther"]
  <2>1. /\ next \in Tasks /\ next.copy = task[w].copy
        /\ next.at = "unlinkOther" /\ next.mark = task[w].mark
    BY <1>1, PlaceFacts DEF Places
  <2> QED
    BY <1>1, <1>6, <2>1 DEF Replace, Step
<1>7. CASE UnlinkEncrypted(w)
  <2> DEFINE next == [task[w] EXCEPT !.at = "unlinkPlaintext"]
  <2>1. /\ next \in Tasks /\ next.copy = task[w].copy
        /\ next.at = "unlinkPlaintext" /\ next.mark = task[w].mark
    BY <1>1, PlaceFacts DEF Places
  <2> QED
    BY <1>1, <1>7, <2>1 DEF UnlinkEncrypted, Step
<1>8. CASE UnlinkOther(w) \/ UnlinkPlaintext(w)
  <2>1. /\ AfterFiles(w) \in Tasks /\ AfterFiles(w).mark # "start"
        /\ AfterFiles(w).copy \subseteq 1 .. spoken
    <3> DEFINE next == [task[w] EXCEPT !.at = "mark"]
    <3>1. /\ next \in Tasks /\ next.copy = task[w].copy
          /\ next.mark = task[w].mark
      BY <1>1, PlaceFacts DEF Places
    <3> HIDE DEF next
    <3>2. /\ AfterFiles(w) \in {next, Idle}
          /\ AfterFiles(w) = Idle \/ task[w].mark # "start"
      BY DEF AfterFiles, next
    <3> QED
      BY <1>1, <3>1, <3>2, NewTasks
  <2> QED
    BY <1>2, <1>8, <2>1 DEF UnlinkOther, UnlinkPlaintext
<1>9. CASE MarkWritten(w)
  BY <1>2, <1>9, NewTasks DEF MarkWritten
<1> QED
  BY <1>3, <1>4, <1>5, <1>6, <1>7, <1>8, <1>9 DEF WriterStep

LEMMA WriterTypes ==
    ASSUME FlagTypes, MemoryTypes, FileTypes, TaskTypes,
           NEW w \in Writers, WriterStep(w)
    PROVE  FlagTypes' /\ MemoryTypes' /\ FileTypes' /\ TaskTypes'
<1>1. UNCHANGED <<settings, sensitive, spoken, memory, publisher, erased,
                  requests>>
  BY DEF WriterStep
<1>2. MemoryTypes'
  BY <1>1 DEF MemoryTypes, memory, settings
<1>3. cacheWritten' \in BOOLEAN
  BY DEF WriterStep, CopyHistory, CopyDraft, Save, Replace, UnlinkOther,
     UnlinkEncrypted, UnlinkPlaintext, MarkWritten, FlagTypes
<1>4. FlagTypes'
  BY <1>1, <1>3 DEF FlagTypes, settings
<1>5. task[w].copy \subseteq 1 .. spoken
  BY DEF TaskTypes, CopyInv
<1>6. FileTypes'
  BY <1>1, <1>5 DEF FileTypes, WriterStep, CopyHistory, CopyDraft, Save,
     Replace, UnlinkOther, UnlinkEncrypted, UnlinkPlaintext, MarkWritten,
     files
<1>7. TaskTypes'
  BY <1>1, WriterNext, StepTypes DEF Step
<1> QED
  BY <1>2, <1>4, <1>6, <1>7

-----------------------------------------------------------------------------
(* The event loop's own steps.                                             *)
LEMMA PurgeTypes ==
    ASSUME NEW sealed, NEW open, NEW n \in Nat, sealed \subseteq 1 .. n,
           open \in 0 .. n, Purge(sealed, open)
    PROVE  history' \subseteq 1 .. n /\ historyDraft' \in 0 .. n
<1>1. historyDraft' \in {open, NoEntry}
  BY DEF Purge
<1>2. history' \subseteq sealed
  BY LastCuesFacts DEF Purge
<1> QED
  BY <1>1, <1>2 DEF NoEntry

LEMMA ForgetTypes ==
    ForgetTranscript => history' \subseteq 1 .. spoken' /\ historyDraft' = 0
<1> QED
  BY DEF ForgetTranscript, NoEntry

LEMMA RecordTypes ==
    ASSUME FlagTypes, MemoryTypes, FileTypes, TaskTypes,
           NEW seals \in BOOLEAN, Record(seals)
    PROVE  FlagTypes' /\ MemoryTypes' /\ FileTypes' /\ TaskTypes'
<1> DEFINE heard == IF openCue = NoEntry THEN spoken + 1 ELSE openCue
<1>1. /\ spoken \in Nat /\ MaxCue \in Nat /\ heard \in Nat /\ heard >= 1
      /\ heard <= MaxCue
      /\ spoken' = IF heard > spoken THEN heard ELSE spoken
  BY BoundsAssumption DEF MemoryTypes, Record, NoEntry, Cues
<1>2. /\ spoken' \in 0 .. MaxCue /\ spoken <= spoken' /\ heard <= spoken'
      /\ 1 .. spoken \subseteq 1 .. spoken' /\ heard \in 1 .. spoken'
      /\ 0 .. spoken \subseteq 0 .. spoken'
  BY <1>1 DEF MemoryTypes
<1>3. UNCHANGED <<settings, sensitive, cacheWritten, task, files, requests>>
  BY DEF Record
<1>4. FlagTypes' /\ FileTypes' /\ TaskTypes'
  BY <1>2, <1>3 DEF FlagTypes, FileTypes, TaskTypes, CopyInv, settings, files
<1>5. openCue' \in 0 .. spoken'
  BY <1>2 DEF Record, NoEntry
<1>6. history' \subseteq 1 .. spoken' /\ historyDraft' \in 0 .. spoken'
  <2>1. /\ history \cup {heard} \subseteq 1 .. spoken'
        /\ history \subseteq 1 .. spoken'
        /\ historyDraft \in 0 .. spoken' /\ heard \in 0 .. spoken'
        /\ NoEntry \in 0 .. spoken' /\ spoken' \in Nat
    BY <1>1, <1>2 DEF MemoryTypes, NoEntry
  <2>2. \/ Purge(history \cup {heard}, IF historyDraft = heard THEN NoEntry ELSE historyDraft)
        \/ Purge(history, heard)
        \/ UNCHANGED <<history, historyDraft>>
    BY DEF Record
  <2> HIDE DEF heard
  <2>3. CASE Purge(history \cup {heard}, IF historyDraft = heard THEN NoEntry ELSE historyDraft)
    <3>1. (IF historyDraft = heard THEN NoEntry ELSE historyDraft) \in 0 .. spoken'
      BY <2>1
    <3> QED
      BY <2>1, <2>3, <3>1, PurgeTypes
  <2>4. CASE Purge(history, heard)
    BY <2>1, <2>4, PurgeTypes
  <2> QED
    BY <2>1, <2>2, <2>3, <2>4
<1>7. erased' \subseteq 1 .. spoken'
      /\ publisher' \in {"stopped", "idle", "sending"} \cup Threads
  BY <1>2 DEF Record, MemoryTypes
<1>8. MemoryTypes'
  BY <1>2, <1>3, <1>5, <1>6, <1>7 DEF MemoryTypes, settings
<1> QED
  BY <1>4, <1>8

(* The steps of the loop that set a task of its own, or start a thread.    *)
LEMMA RequestTypes ==
    ASSUME FlagTypes, MemoryTypes, FileTypes, TaskTypes,
           Clear \/ ToggleSensitive \/ DisableSaving \/ EnableSaving \/ Poll
    PROVE  FlagTypes' /\ MemoryTypes' /\ FileTypes' /\ TaskTypes'
<1>1. Loop \in Writers /\ spoken \in Nat /\ UNCHANGED spoken
  BY BoundsAssumption DEF Writers, MemoryTypes, Clear, ToggleSensitive,
     DisableSaving, EnableSaving, Poll
<1>2. TaskTypes'
  <2>1. \/ Step(Loop, Deleting) \/ Step(Loop, Persisting) \/ UNCHANGED task
    BY DEF Clear, ToggleSensitive, DisableSaving, EnableSaving, Poll
  <2>2. UNCHANGED task => TaskTypes'
    BY <1>1 DEF TaskTypes, CopyInv
  <2> QED
    BY <1>1, <2>1, <2>2, NewTasks, StepTypes
<1>3. FileTypes'
  BY <1>1 DEF FileTypes, Clear, ToggleSensitive, DisableSaving, EnableSaving,
     Poll, files
<1>4. FlagTypes'
  BY DEF FlagTypes, Clear, ToggleSensitive, DisableSaving, EnableSaving, Poll,
     settings
<1>5. history' \subseteq 1 .. spoken /\ historyDraft' \in 0 .. spoken
  <2>1. \/ ForgetTranscript \/ Purge(history, historyDraft)
        \/ UNCHANGED history /\ historyDraft' = 0
    BY DEF Clear, ToggleSensitive, DisableSaving, EnableSaving, Poll, NoEntry
  <2>2. /\ history \subseteq 1 .. spoken /\ historyDraft \in 0 .. spoken
        /\ 0 \in 0 .. spoken
    BY <1>1 DEF MemoryTypes
  <2> QED
    BY <1>1, <2>1, <2>2, ForgetTypes, PurgeTypes
<1>6. requests' \in 0 .. MaxRequests /\ openCue' \in 0 .. spoken
  BY <1>1, BoundsAssumption DEF MemoryTypes, Clear, ToggleSensitive,
     DisableSaving, EnableSaving, Poll, Request, NoEntry
<1>7. erased' \subseteq 1 .. spoken /\ UNCHANGED <<expired, crashes, publisher>>
  BY DEF MemoryTypes, Clear, ToggleSensitive, DisableSaving, EnableSaving, Poll,
     settings
<1>8. MemoryTypes'
  BY <1>1, <1>5, <1>6, <1>7 DEF MemoryTypes
<1> QED
  BY <1>2, <1>3, <1>4, <1>8

LEMMA PublisherTypes ==
    ASSUME FlagTypes, MemoryTypes, FileTypes, TaskTypes,
           StartThread \/ ThreadDone \/ StopCaptions \/ StartCaptions
    PROVE  FlagTypes' /\ MemoryTypes' /\ FileTypes' /\ TaskTypes'
<1>1. /\ UNCHANGED <<settings, sensitive, spoken, memory, cacheWritten, files,
                     erased, requests>>
      /\ publisher' \in {"stopped", "idle", "sending"} \cup Threads
  BY DEF StartThread, ThreadDone, StopCaptions, StartCaptions
<1>2. FlagTypes' /\ MemoryTypes' /\ FileTypes'
  BY <1>1 DEF FlagTypes, MemoryTypes, FileTypes, settings, memory, files
<1>3. CASE ThreadDone \/ StopCaptions \/ StartCaptions
  <2>1. UNCHANGED task
    BY <1>3 DEF ThreadDone, StopCaptions, StartCaptions
  <2> QED
    BY <1>1, <1>2, <2>1 DEF TaskTypes, CopyInv
<1>4. CASE StartThread
  <2>1. PICK t \in Threads : Step(t, Persisting)
    BY <1>4 DEF StartThread, Step
  <2> QED
    BY <1>1, <1>2, <2>1, NewTasks, StepTypes DEF Writers
<1> QED
  BY <1>3, <1>4

LEMMA CrashTypes ==
    ASSUME FlagTypes, MemoryTypes, FileTypes, TaskTypes,
           Expire \/ Crash \/ Restart
    PROVE  FlagTypes' /\ MemoryTypes' /\ FileTypes' /\ TaskTypes'
<1>1. spoken \in Nat /\ expired \in Nat /\ UNCHANGED spoken
      /\ 1 .. spoken \subseteq Cues
  BY BoundsAssumption DEF MemoryTypes, Expire, Crash, Restart, Cues
<1>2. CASE Expire
  BY <1>1, <1>2 DEF Expire, FlagTypes, MemoryTypes, FileTypes, TaskTypes,
     CopyInv, memory, files
<1>3. CASE Crash
  <2>1. FlagTypes'
    BY <1>3 DEF Crash, FlagTypes
  <2>2. MemoryTypes'
    BY <1>1, <1>3, BoundsAssumption
       DEF Crash, MemoryTypes, ForgetTranscript, NoEntry
  <2>3. FileTypes'
    <3>1. UNION {task[w].copy : w \in {v \in Writers : task[v].at = "replace"}}
            \subseteq 1 .. spoken
      BY DEF TaskTypes, CopyInv
    <3> QED
      BY <1>1, <1>3, <3>1 DEF Crash, FileTypes
  <2>4. TaskTypes'
    BY <1>1, <1>3, NewTasks DEF Crash, TaskTypes, CopyInv
  <2> QED
    BY <2>1, <2>2, <2>3, <2>4
<1>4. CASE Restart
  <2>1. PICK installed \in BOOLEAN :
          crypto' = installed /\ Step(Loop, StartupTask(installed))
    BY <1>4 DEF Restart
  <2>2. FlagTypes'
    BY <1>4, <2>1 DEF Restart, FlagTypes
  <2>3. MemoryTypes' /\ FileTypes'
    BY <1>4 DEF Restart, MemoryTypes, FileTypes, memory, files
  <2> DEFINE kept == Payload(installed) \ Expired
             pruned == [at |-> "replace", copy |-> kept, mark |-> "start"]
  <2>4. kept \subseteq 1 .. spoken
    BY DEF Payload, FileTypes
  <2>5. pruned \in Tasks /\ pruned.copy \subseteq 1 .. spoken
    BY <1>1, <2>4 DEF Tasks, Places
  <2>6. StartupTask(installed) \in {pruned, [Deleting EXCEPT !.mark = "start"]}
    BY DEF StartupTask
  <2> HIDE DEF pruned
  <2>7. TaskTypes'
    BY <1>1, <2>1, <2>5, <2>6, NewTasks, StepTypes DEF Writers
  <2> QED
    BY <2>2, <2>3, <2>7
<1> QED
  BY <1>2, <1>3, <1>4

LEMMA TypesKept ==
    ASSUME RetentionTypeOK, CopyInv, [RetentionNext]_retentionVars
    PROVE  RetentionTypeOK' /\ CopyInv'
<1>1. FlagTypes /\ MemoryTypes /\ FileTypes /\ TaskTypes
  BY TypeParts
<1>2. FlagTypes' /\ MemoryTypes' /\ FileTypes' /\ TaskTypes'
  <2>1. CASE UNCHANGED retentionVars
    BY <1>1, <2>1 DEF FlagTypes, MemoryTypes, FileTypes, TaskTypes, CopyInv,
       retentionVars, settings, memory, files
  <2> QED
    BY <1>1, <2>1, WriterTypes, RecordTypes, RequestTypes, PublisherTypes,
       CrashTypes DEF RetentionNext
<1> QED
  BY <1>2 DEF RetentionTypeOK, FlagTypes, MemoryTypes, FileTypes, TaskTypes,
     OnDisk, Tasks, Places

-----------------------------------------------------------------------------
(* One format of the cache.                                                *)
LEMMA StartKept ==
    ASSUME RetentionTypeOK, CopyInv, StartInv, OneCacheFormat, [RetentionNext]_retentionVars
    PROVE  StartInv' /\ OneCacheFormat'
<1>1. /\ task \in [Writers -> Tasks] /\ Loop \in Writers /\ task[Loop] \in Tasks
      /\ MemoryTypes /\ TaskTypes
  BY TypeParts DEF RetentionTypeOK, Tasks, Places, Writers
<1>2. ASSUME NEW w \in Writers, WriterStep(w)
      PROVE  StartInv' /\ OneCacheFormat'
  <2>1. UNCHANGED <<alive, crypto>> /\ alive /\ task[w] \in Tasks
    BY <1>1, <1>2 DEF WriterStep, settings
  <2>2. /\ crypto => plaintext' \in {plaintext, {}}
        /\ ~crypto => encrypted' \in {encrypted, {}}
    BY <1>2 DEF WriterStep, CopyHistory, CopyDraft, Save, Replace,
       UnlinkOther, UnlinkEncrypted, UnlinkPlaintext, MarkWritten, files
  <2>3. PICK next \in Tasks :
          /\ task' = [task EXCEPT ![w] = next]
          /\ next.mark = "start" =>
               /\ task[w].mark = "start"
               /\ \/ Replace(w) /\ next.at = "unlinkOther"
                  \/ UnlinkEncrypted(w) /\ next.at = "unlinkPlaintext"
                  \/ Save(w)
    BY <1>1, <1>2, WriterNext
  <2>4. CASE w # Loop
    <3>1. task'[Loop] = task[Loop]
      BY <1>1, <2>3, <2>4
    <3> QED
      BY <2>1, <2>2, <3>1 DEF StartInv, OneCacheFormat
  <2>5. CASE w = Loop /\ task[Loop].mark # "start"
    <3>1. task'[Loop].mark # "start"
      BY <1>1, <2>3, <2>5
    <3> QED
      BY <2>1, <2>2, <2>5, <3>1 DEF StartInv, OneCacheFormat
  <2>6. CASE w = Loop /\ task[Loop].mark = "start"
    <3>1. task'[Loop] = next
      BY <1>1, <2>3, <2>6
    <3>2. task[w].at \in {"replace", "unlinkOther", "unlinkEncrypted",
                          "unlinkPlaintext"}
      BY <2>6 DEF StartInv
    <3>3. CASE next.mark = "start"
      <4>1. \/ next.at = "unlinkOther"
            \/ next.at = "unlinkPlaintext" /\ encrypted' = {}
        BY <2>3, <3>2, <3>3 DEF UnlinkEncrypted, Save
      <4> QED
        BY <3>1, <3>3, <4>1 DEF StartInv, OneCacheFormat
    <3>4. CASE UnlinkOther(w) \/ UnlinkPlaintext(w)
      <4>1. task'[Loop] = Idle
        BY <1>1, <2>6, <3>4 DEF UnlinkOther, UnlinkPlaintext, AfterFiles, Step
      <4>2. IF crypto THEN plaintext' = {} ELSE encrypted' = {}
        BY <2>6, <3>4 DEF UnlinkOther, UnlinkPlaintext, StartInv
      <4> QED
        BY <2>1, <4>1, <4>2, NewTasks DEF StartInv, OneCacheFormat
    <3>5. ASSUME Replace(w) \/ UnlinkEncrypted(w)
          PROVE  next.mark = "start"
      <4>1. PICK place \in Places :
              task' = [task EXCEPT ![w] = [task[w] EXCEPT !.at = place]]
        BY <3>5 DEF Replace, UnlinkEncrypted, Step, Places
      <4>2. next = [task[w] EXCEPT !.at = place]
        BY <1>1, <2>3, <4>1
      <4> QED
        BY <2>1, <2>6, <4>2, PlaceFacts
    <3> QED
      BY <1>2, <3>2, <3>3, <3>4, <3>5 DEF WriterStep, CopyHistory, CopyDraft,
         Save, MarkWritten
  <2> QED
    BY <2>4, <2>5, <2>6
<1>3. CASE Clear \/ DisableSaving \/ EnableSaving \/ Poll
  <2>1. /\ Running /\ UNCHANGED <<alive, crypto, files>>
        /\ Step(Loop, Deleting) \/ Step(Loop, Persisting)
    BY <1>3 DEF Clear, DisableSaving, EnableSaving, Poll, Request, settings
  <2>2. task[Loop].mark # "start" /\ task'[Loop].mark # "start"
    BY <1>1, <2>1, NewTasks DEF Step, Running
  <2> QED
    BY <2>1, <2>2 DEF StartInv, OneCacheFormat, files
<1>4. CASE StartThread
  <2>1. UNCHANGED <<alive, crypto, files>> /\ task'[Loop] = task[Loop]
    BY <1>1, <1>4, LoopAssumption DEF StartThread, settings
  <2> QED
    BY <2>1 DEF StartInv, OneCacheFormat, files
<1>5. CASE \/ ThreadDone \/ StopCaptions \/ StartCaptions \/ ToggleSensitive
           \/ Expire \/ UNCHANGED retentionVars
           \/ \E seals \in BOOLEAN : Record(seals)
  BY <1>5 DEF ThreadDone, StopCaptions, StartCaptions, ToggleSensitive, Expire,
     Record, retentionVars, settings, files, StartInv, OneCacheFormat
<1>6. CASE Crash
  BY <1>1, <1>6, NewTasks DEF Crash, StartInv, OneCacheFormat
<1>7. CASE Restart
  <2>1. PICK installed \in BOOLEAN : Step(Loop, StartupTask(installed))
    BY <1>7 DEF Restart
  <2>2. /\ task'[Loop].mark = "start"
        /\ task'[Loop].at \in {"replace", "unlinkEncrypted"}
    <3>1. [Deleting EXCEPT !.mark = "start"].mark = "start"
      BY DEF Deleting, Idle
    <3> QED
      BY <1>1, <2>1, <3>1, NewTasks DEF Step, StartupTask
  <2> QED
    BY <2>2 DEF StartInv, OneCacheFormat
<1> QED
  BY <1>2, <1>3, <1>4, <1>5, <1>6, <1>7 DEF RetentionNext

-----------------------------------------------------------------------------
LEMMA RetentionStarts == RetentionInit => RetentionInv
<1> SUFFICES ASSUME RetentionInit
             PROVE  RetentionInv
  OBVIOUS
<1>1. Loop \in Writers /\ task[Loop] = Idle
  BY DEF RetentionInit, Writers
<1>2. FlagTypes
  BY DEF RetentionInit, FlagTypes
<1>3. MemoryTypes /\ FileTypes
  BY BoundsAssumption DEF RetentionInit, MemoryTypes, FileTypes, NoEntry
<1>4. TaskTypes
  BY NewTasks DEF RetentionInit, TaskTypes, CopyInv
<1>5. StartInv /\ OneCacheFormat
  BY <1>1, NewTasks DEF RetentionInit, StartInv, OneCacheFormat
<1> QED
  BY <1>2, <1>3, <1>4, <1>5, TypeParts DEF RetentionInv

LEMMA RetentionAlways == RetentionSpec => []RetentionInv
<1>1. RetentionInv /\ [RetentionNext]_retentionVars => RetentionInv'
  BY TypesKept, StartKept DEF RetentionInv
<1> QED
  BY <1>1, RetentionStarts, PTL DEF RetentionSpec

(* The transcript, the cache files and the tasks of the writers keep their *)
(* types; no file and no copy holds a cue that was not spoken.             *)
THEOREM RetentionTypeCorrect == RetentionSpec => []RetentionTypeOK
<1>1. RetentionInv => RetentionTypeOK
  BY DEF RetentionInv
<1> QED
  BY <1>1, RetentionAlways, PTL

(* After _start_new_session no cache is left in the format the process     *)
(* does not use, wherever the last one died and however many threads save. *)
THEOREM OneFormatOnDisk == RetentionSpec => []OneCacheFormat
<1>1. RetentionInv => OneCacheFormat
  BY DEF RetentionInv
<1> QED
  BY <1>1, RetentionAlways, PTL

===============================================================================
