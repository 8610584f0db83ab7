---------------------- MODULE TranslationSchedulerProofs ----------------------
(***************************************************************************)
(* Proofs about TranslationScheduler for every set of languages and cues,  *)
(* every capacity of at least two, and every bound on revisions and clears.*)
(***************************************************************************)
EXTENDS TranslationScheduler, SequenceTheorems, FiniteSetTheorems, TLAPS

(* No two positions of a queue belong to the same cue. *)
UnitsDistinct(queue) ==
    \A i, j \in 1 .. Len(queue) : queue[i].unit = queue[j].unit => i = j

(* Every job of the first queue is also in the second. *)
PartOf(smaller, larger) ==
    \A i \in 1 .. Len(smaller) : \E j \in 1 .. Len(larger) :
        smaller[i] = larger[j]

-----------------------------------------------------------------------------
(* Removing a position keeps the order of the others.                      *)
LEMMA RemoveAtValue ==
    ASSUME NEW S, NEW s \in Seq(S), NEW i \in 1 .. Len(s)
    PROVE  /\ RemoveAt(s, i) \in Seq(S)
           /\ Len(RemoveAt(s, i)) = Len(s) - 1
           /\ \A k \in 1 .. Len(s) - 1 :
                  RemoveAt(s, i)[k] = IF k < i THEN s[k] ELSE s[k + 1]
<1> DEFINE a == SubSeq(s, 1, i - 1)
           b == SubSeq(s, i + 1, Len(s))
<1>1. /\ a \in Seq(S) /\ Len(a) = i - 1
      /\ \A k \in 1 .. i - 1 : a[k] = s[k]
  <2>1. \A k \in 1 .. i - 1 : s[k] \in S
    OBVIOUS
  <2>2. /\ a \in Seq(S)
        /\ Len(a) = IF 1 <= i - 1 THEN (i - 1) - 1 + 1 ELSE 0
        /\ \A k \in 1 .. (i - 1) - 1 + 1 : a[k] = s[1 + k - 1]
    BY <2>1, SubSeqProperties
  <2>. QED
    BY <2>2
<1>2. /\ b \in Seq(S) /\ Len(b) = Len(s) - i
      /\ \A k \in 1 .. Len(s) - i : b[k] = s[i + k]
  OBVIOUS
<1>3. RemoveAt(s, i) = a \o b
  BY DEF RemoveAt
<1> HIDE DEF a, b
<1>4. RemoveAt(s, i) \in Seq(S) /\ Len(RemoveAt(s, i)) = Len(s) - 1
  BY <1>1, <1>2, <1>3
<1>5. ASSUME NEW k \in 1 .. Len(s) - 1
      PROVE  RemoveAt(s, i)[k] = IF k < i THEN s[k] ELSE s[k + 1]
  <2>1. CASE k < i
    <3>1. (a \o b)[k] = a[k]
      BY <1>1, <1>2, <2>1
    <3> QED
      BY <1>1, <1>3, <2>1, <3>1
  <2>2. CASE ~(k < i)
    <3>1. (a \o b)[k] = b[k - (i - 1)]
      BY <1>1, <1>2, <2>2
    <3>2. b[k - (i - 1)] = s[i + (k - (i - 1))]
      BY <1>2, <2>2
    <3> QED
      BY <1>3, <2>2, <3>1, <3>2
  <2> QED
    BY <2>1, <2>2
<1> QED
  BY <1>4, <1>5
(* Removing one job from a queue keeps the queue well formed, removes that *)
(* cue from it and no other job.                                           *)
LEMMA RemoveAtQueue ==
    ASSUME NEW queue \in Seq(Job), UnitsDistinct(queue),
           NEW i \in 1 .. Len(queue)
    PROVE  LET rest == RemoveAt(queue, i) IN
           /\ rest \in Seq(Job)
           /\ Len(rest) = Len(queue) - 1
           /\ PartOf(rest, queue)
           /\ UnitsDistinct(rest)
           /\ \A k \in 1 .. Len(rest) : rest[k].unit # queue[i].unit
           /\ \A k \in 1 .. Len(queue) :
                 k = i \/ \E j \in 1 .. Len(rest) : rest[j] = queue[k]
<1> DEFINE rest == RemoveAt(queue, i)
<1>1. /\ rest \in Seq(Job)
      /\ Len(rest) = Len(queue) - 1
      /\ \A k \in 1 .. Len(queue) - 1 :
             rest[k] = IF k < i THEN queue[k] ELSE queue[k + 1]
  BY RemoveAtValue
<1> HIDE DEF rest
<1>2. PartOf(rest, queue)
  BY <1>1 DEF PartOf
<1>3. UnitsDistinct(rest)
  <2> SUFFICES ASSUME NEW k \in 1 .. Len(rest), NEW j \in 1 .. Len(rest),
                      rest[k].unit = rest[j].unit
               PROVE  k = j
    BY DEF UnitsDistinct
  <2>1. /\ rest[k] = queue[IF k < i THEN k ELSE k + 1]
        /\ rest[j] = queue[IF j < i THEN j ELSE j + 1]
    BY <1>1
  <2>2. (IF k < i THEN k ELSE k + 1) = (IF j < i THEN j ELSE j + 1)
    BY <1>1, <2>1 DEF UnitsDistinct
  <2> QED
    BY <1>1, <2>2
<1>4. ASSUME NEW k \in 1 .. Len(rest)
      PROVE  rest[k].unit # queue[i].unit
  <2>1. rest[k] = queue[IF k < i THEN k ELSE k + 1]
    BY <1>1
  <2> QED
    BY <1>1, <2>1 DEF UnitsDistinct
<1>5. ASSUME NEW k \in 1 .. Len(queue), k # i
      PROVE  \E j \in 1 .. Len(rest) : rest[j] = queue[k]
  <2>1. CASE k < i
    <3>1. k \in 1 .. Len(rest) /\ rest[k] = queue[k]
      BY <1>1, <2>1
    <3> QED
      BY <3>1
  <2>2. CASE k > i
    <3>1. k - 1 \in 1 .. Len(rest) /\ rest[k - 1] = queue[k]
      BY <1>1, <2>2
    <3> QED
      BY <3>1
  <2> QED
    BY <1>5, <2>1, <2>2
<1> QED
  BY <1>1, <1>2, <1>3, <1>4, <1>5 DEF rest

(* Coalescing makes way for a newer revision of an unsealed cue: the cue   *)
(* is gone from the queue, every sealed job is still there.                *)
LEMMA CoalescedQueue ==
    ASSUME NEW queue \in Seq(Job), UnitsDistinct(queue), NEW job \in Job,
           \A k \in 1 .. Len(queue) : queue[k].unit = job.unit =>
               queue[k].rev < job.rev /\ ~queue[k].final
    PROVE  LET rest == Coalesced(queue, job) IN
           /\ rest \in Seq(Job)
           /\ Len(rest) \in Nat
           /\ Len(queue) - 1 <= Len(rest) /\ Len(rest) <= Len(queue)
           /\ PartOf(rest, queue)
           /\ UnitsDistinct(rest)
           /\ \A k \in 1 .. Len(rest) : rest[k].unit # job.unit
           /\ \A k \in 1 .. Len(queue) : queue[k].final =>
                 \E j \in 1 .. Len(rest) : rest[j] = queue[k]
<1>1. CASE Matches(queue, job) = {}
  <2>1. Coalesced(queue, job) = queue
    BY <1>1 DEF Coalesced
  <2>2. \A k \in 1 .. Len(queue) : queue[k].unit # job.unit
    <3> SUFFICES ASSUME NEW k \in 1 .. Len(queue), queue[k].unit = job.unit
                 PROVE  FALSE
      OBVIOUS
    <3>1. queue[k] \in Job /\ queue[k].rev < job.rev
      OBVIOUS
    <3>2. queue[k].rev \in Nat /\ job.rev \in Nat
      BY <3>1 DEF Job
    <3>3. queue[k].rev <= job.rev
      BY <3>1, <3>2
    <3> QED
      BY <1>1, <3>3 DEF Matches
  <2>3. PartOf(queue, queue)
    BY DEF PartOf
  <2> QED
    BY <2>1, <2>2, <2>3
<1>2. CASE Matches(queue, job) # {}
  <2> DEFINE i == CHOOSE i \in Matches(queue, job) : TRUE
  <2>1. i \in Matches(queue, job)
    BY <1>2
  <2>2. Coalesced(queue, job) = RemoveAt(queue, i)
    BY <1>2 DEF Coalesced
  <2> HIDE DEF i
  <2>3. /\ i \in 1 .. Len(queue)
        /\ queue[i].unit = job.unit
        /\ ~queue[i].final
    BY <2>1 DEF Matches
  <2>4. LET rest == RemoveAt(queue, i) IN
        /\ rest \in Seq(Job)
        /\ Len(rest) = Len(queue) - 1
        /\ PartOf(rest, queue)
        /\ UnitsDistinct(rest)
        /\ \A k \in 1 .. Len(rest) : rest[k].unit # queue[i].unit
        /\ \A k \in 1 .. Len(queue) :
              k = i \/ \E j \in 1 .. Len(rest) : rest[j] = queue[k]
    BY <2>3, RemoveAtQueue
  <2> DEFINE rest == Coalesced(queue, job)
  <2>5. /\ rest \in Seq(Job)
        /\ Len(rest) = Len(queue) - 1
        /\ PartOf(rest, queue)
        /\ UnitsDistinct(rest)
        /\ \A k \in 1 .. Len(rest) : rest[k].unit # queue[i].unit
        /\ \A k \in 1 .. Len(queue) :
              k = i \/ \E j \in 1 .. Len(rest) : rest[j] = queue[k]
    BY <2>2, <2>4
  <2> HIDE DEF rest
  <2>6. \A k \in 1 .. Len(rest) : rest[k].unit # job.unit
    BY <2>3, <2>5
  <2>7. \A k \in 1 .. Len(queue) : queue[k].final =>
            \E j \in 1 .. Len(rest) : rest[j] = queue[k]
    BY <2>3, <2>5
  <2>8. Len(rest) \in Nat /\ Len(queue) - 1 <= Len(rest) /\ Len(rest) <= Len(queue)
    BY <2>5
  <2> QED
    BY <2>5, <2>6, <2>7, <2>8 DEF rest
<1> QED
  BY <1>1, <1>2
-----------------------------------------------------------------------------
(* Accepting a job into a queue that no longer holds its cue.              *)
LEMMA AcceptStep ==
    ASSUME TypeOK, RoundRobinActive, QueuedJobsCurrent,
           NEW job \in Job, job.gen = generation,
           NEW queue \in Seq(Job), PartOf(queue, queues[job.lang]),
           UnitsDistinct(queue),
           \A k \in 1 .. Len(queue) : queue[k].unit # job.unit,
           Accept(queue, job), generation' = generation
    PROVE  /\ queues' \in [Languages -> Seq(Job)]
           /\ \A lang \in Languages : \A i \in 1 .. Len(queues'[lang]) :
                 queues'[lang][i].lang = lang
           /\ roundRobin' \in Seq(Languages)
           /\ latest' \in [Languages -> [Units -> Version]]
           /\ queues'[job.lang] = Append(queue, job)
           /\ \A other \in Languages \ {job.lang} :
                 queues'[other] = queues[other]
           /\ RoundRobinActive'
           /\ QueuedJobsCurrent'
<1>1. /\ job.lang \in Languages /\ job.unit \in Units
      /\ VersionOf(job) \in Version
  BY DEF Job, VersionOf, Version
<1>2. /\ queues \in [Languages -> Seq(Job)]
      /\ roundRobin \in Seq(Languages)
      /\ latest \in [Languages -> [Units -> Version]]
  BY DEF TypeOK
<1>3. /\ Append(queue, job) \in Seq(Job)
      /\ Len(Append(queue, job)) = Len(queue) + 1
      /\ \A k \in 1 .. Len(queue) : Append(queue, job)[k] = queue[k]
      /\ Append(queue, job)[Len(queue) + 1] = job
  OBVIOUS
<1>4. /\ queues' \in [Languages -> Seq(Job)]
      /\ queues'[job.lang] = Append(queue, job)
      /\ \A other \in Languages \ {job.lang} : queues'[other] = queues[other]
  BY <1>1, <1>2, <1>3 DEF Accept
<1>5. /\ latest' \in [Languages -> [Units -> Version]]
      /\ latest'[job.lang][job.unit] = VersionOf(job)
      /\ \A lang \in Languages, unit \in Units :
            lang # job.lang \/ unit # job.unit =>
                latest'[lang][unit] = latest[lang][unit]
  BY <1>1, <1>2 DEF Accept
<1>6. ASSUME NEW lang \in Languages, NEW i \in 1 .. Len(queues'[lang])
      PROVE  queues'[lang][i].lang = lang
  <2>1. CASE lang # job.lang
    BY <1>4, <1>6, <2>1 DEF TypeOK
  <2>2. CASE lang = job.lang /\ i = Len(queue) + 1
    BY <1>3, <1>4, <2>2
  <2>3. CASE lang = job.lang /\ i # Len(queue) + 1
    <3>1. i \in 1 .. Len(queue) /\ queues'[lang][i] = queue[i]
      BY <1>3, <1>4, <1>6, <2>3
    <3>2. PICK j \in 1 .. Len(queues[lang]) : queue[i] = queues[lang][j]
      BY <2>3, <3>1 DEF PartOf
    <3> QED
      BY <3>1, <3>2 DEF TypeOK
  <2> QED
    BY <1>3, <1>4, <2>1, <2>2, <2>3
<1>7. roundRobin' \in Seq(Languages) /\ RoundRobinActive'
  <2>1. CASE \E i \in 1 .. Len(roundRobin) : roundRobin[i] = job.lang
    <3>1. roundRobin' = roundRobin
      BY <2>1 DEF Accept
    <3>2. queues'[job.lang] # <<>>
      BY <1>4, AppendProperties
    <3>3. job.lang \in Languages /\ queues[job.lang] # <<>>
      BY <1>1, <2>1 DEF RoundRobinActive
    <3>4. \A lang \in Languages : queues'[lang] # <<>> <=> queues[lang] # <<>>
      BY <1>4, <3>2, <3>3
    <3> QED
      BY <1>2, <3>1, <3>4 DEF RoundRobinActive
  <2>2. CASE ~ \E i \in 1 .. Len(roundRobin) : roundRobin[i] = job.lang
    <3>1. roundRobin' = Append(roundRobin, job.lang)
      BY <2>2 DEF Accept
    <3>2. /\ roundRobin' \in Seq(Languages)
          /\ Len(roundRobin') = Len(roundRobin) + 1
          /\ roundRobin'[Len(roundRobin) + 1] = job.lang
          /\ \A i \in 1 .. Len(roundRobin) : roundRobin'[i] = roundRobin[i]
      <4>1. job.lang \in Languages
        BY <1>1
      <4>2. roundRobin \in Seq(Languages)
        BY <1>2
      <4> QED
        BY <3>1, <4>1, <4>2, AppendProperties
    <3>3. queues'[job.lang] # <<>>
      BY <1>4, AppendProperties
    <3>4. ASSUME NEW lang \in Languages
          PROVE  queues'[lang] # <<>> <=>
                     \E i \in 1 .. Len(roundRobin') : roundRobin'[i] = lang
      <4>1. CASE lang = job.lang
        <5>1. Len(roundRobin) + 1 \in 1 .. Len(roundRobin')
          BY <1>2, <3>2
        <5> QED
          BY <3>2, <3>3, <4>1, <5>1
      <4>2. CASE lang # job.lang
        <5>1. queues[lang] # <<>> <=>
                  \E i \in 1 .. Len(roundRobin) : roundRobin[i] = lang
          BY DEF RoundRobinActive
        <5>2. (\E i \in 1 .. Len(roundRobin) : roundRobin[i] = lang) <=>
                  \E i \in 1 .. Len(roundRobin') : roundRobin'[i] = lang
          <6>1. ASSUME NEW i \in 1 .. Len(roundRobin'), roundRobin'[i] = lang
                PROVE  i \in 1 .. Len(roundRobin) /\ roundRobin[i] = lang
            BY <1>2, <3>2, <4>2, <6>1
          <6>2. ASSUME NEW i \in 1 .. Len(roundRobin)
                PROVE  i \in 1 .. Len(roundRobin')
            BY <1>2, <3>2
          <6> QED
            BY <3>2, <6>1, <6>2
        <5> QED
          BY <1>4, <4>2, <5>1, <5>2
      <4> QED
        BY <4>1, <4>2
    <3>5. ASSUME NEW i \in 1 .. Len(roundRobin'),
                 NEW j \in 1 .. Len(roundRobin'),
                 roundRobin'[i] = roundRobin'[j]
          PROVE  i = j
      <4>1. CASE i \in 1 .. Len(roundRobin) /\ j \in 1 .. Len(roundRobin)
        BY <3>2, <3>5, <4>1 DEF RoundRobinActive
      <4>2. CASE i = Len(roundRobin) + 1 /\ j \in 1 .. Len(roundRobin)
        BY <2>2, <3>2, <3>5, <4>2
      <4>3. CASE i \in 1 .. Len(roundRobin) /\ j = Len(roundRobin) + 1
        BY <2>2, <3>2, <3>5, <4>3
      <4> QED
        BY <1>2, <3>2, <4>1, <4>2, <4>3
    <3> QED
      BY <3>2, <3>4, <3>5 DEF RoundRobinActive
  <2> QED
    BY <2>1, <2>2
<1>8. QueuedJobsCurrent'
  <2> SUFFICES ASSUME NEW lang \in Languages
               PROVE  /\ \A i \in 1 .. Len(queues'[lang]) :
                            IsCurrent(queues[lang][i])'
                      /\ UnitsDistinct(queues[lang])'
    BY DEF QueuedJobsCurrent, UnitsDistinct
  <2>1. CASE lang # job.lang
    <3>1. queues'[lang] = queues[lang]
      BY <1>4, <2>1
    <3>2. ASSUME NEW i \in 1 .. Len(queues[lang])
          PROVE  IsCurrent(queues[lang][i])'
      <4>1. queues[lang][i].lang = lang /\ queues[lang][i] \in Job
        BY <1>2 DEF TypeOK
      <4>2. queues[lang][i].unit \in Units
        BY <4>1 DEF Job
      <4>3. IsCurrent(queues[lang][i])
        BY DEF QueuedJobsCurrent
      <4> QED
        BY <1>5, <2>1, <3>1, <4>1, <4>2, <4>3 DEF IsCurrent
    <3>3. queues'[lang] = queues[lang] /\ UnitsDistinct(queues[lang])
      BY <1>4, <2>1 DEF QueuedJobsCurrent, UnitsDistinct
    <3> QED
      BY <3>1, <3>2, <3>3
  <2>2. CASE lang = job.lang
    <3>1. ASSUME NEW i \in 1 .. Len(queues'[lang])
          PROVE  IsCurrent(queues[lang][i])'
      <4>1. CASE i = Len(queue) + 1
        <5>1. queues'[lang][i] = job
          BY <1>3, <1>4, <2>2, <4>1
        <5> QED
          BY <1>5, <5>1 DEF IsCurrent
      <4>2. CASE i # Len(queue) + 1
        <5>1. i \in 1 .. Len(queue) /\ queues'[lang][i] = queue[i]
          BY <1>3, <1>4, <2>2, <3>1, <4>2
        <5>2. PICK j \in 1 .. Len(queues[lang]) : queue[i] = queues[lang][j]
          BY <2>2, <5>1 DEF PartOf
        <5>3. IsCurrent(queue[i]) /\ queue[i].lang = lang
          BY <5>2 DEF QueuedJobsCurrent, TypeOK
        <5>4. queue[i] \in Job /\ queue[i].unit # job.unit
          BY <5>1
        <5>5. queue[i].unit \in Units
          BY <5>4 DEF Job
        <5> QED
          BY <1>5, <5>1, <5>3, <5>4, <5>5 DEF IsCurrent
      <4> QED
        BY <4>1, <4>2
    <3>2. UnitsDistinct(Append(queue, job))
      BY <1>3 DEF UnitsDistinct
    <3> QED
      BY <1>4, <2>2, <3>1, <3>2
  <2> QED
    BY <2>1, <2>2
<1> QED
  BY <1>4, <1>5, <1>6, <1>7, <1>8
-----------------------------------------------------------------------------
(* What the scheduler's own steps preserve, and the part of it that speaks *)
(* of the queues only.                                                     *)
QueueTypeOK ==
    /\ queues \in [Languages -> Seq(Job)]
    /\ \A lang \in Languages : \A i \in 1 .. Len(queues[lang]) :
           queues[lang][i].lang = lang
    /\ roundRobin \in Seq(Languages)
    /\ latest \in [Languages -> [Units -> Version]]
    /\ degraded \in SUBSET Languages
    /\ generation \in Nat

Inv ==
    /\ TypeOK
    /\ RoundRobinActive
    /\ QueuedJobsCurrent
    /\ OverCapacityOnlyFinals
    /\ DegradedIsFull

(* A job the cue ledger may submit: a newer revision of an unsealed cue. *)
IsNext(job) ==
    /\ job \in Job
    /\ job.gen = generation
    /\ ~latest[job.lang][job.unit].final
    /\ job.rev > latest[job.lang][job.unit].rev

(* The queue that enqueue sees after coalescing. *)
LEMMA SubmitQueue ==
    ASSUME Inv, NEW job, IsNext(job)
    PROVE  LET queue == queues[job.lang]
               rest == Coalesced(queue, job)
           IN  /\ queue \in Seq(Job)
               /\ rest \in Seq(Job)
               /\ Len(rest) \in Nat
               /\ Len(queue) - 1 <= Len(rest) /\ Len(rest) <= Len(queue)
               /\ PartOf(rest, queue)
               /\ UnitsDistinct(rest)
               /\ \A k \in 1 .. Len(rest) : rest[k].unit # job.unit
               /\ \A k \in 1 .. Len(queue) : queue[k].final =>
                     \E j \in 1 .. Len(rest) : rest[j] = queue[k]
<1>1. /\ job \in Job /\ job.lang \in Languages /\ job.unit \in Units
      /\ job.rev \in Nat
  BY DEF IsNext, Job
<1>2. queues[job.lang] \in Seq(Job) /\ UnitsDistinct(queues[job.lang])
  BY <1>1 DEF Inv, TypeOK, QueuedJobsCurrent, UnitsDistinct
<1>3. ASSUME NEW k \in 1 .. Len(queues[job.lang]),
             queues[job.lang][k].unit = job.unit
      PROVE  /\ queues[job.lang][k].rev < job.rev
             /\ ~queues[job.lang][k].final
  <2> DEFINE queued == queues[job.lang][k]
  <2>1. IsCurrent(queued) /\ queued.lang = job.lang
    BY <1>1 DEF Inv, QueuedJobsCurrent, TypeOK
  <2>2. latest[job.lang][job.unit] = VersionOf(queued)
    BY <1>3, <2>1 DEF IsCurrent
  <2>3. /\ latest[job.lang][job.unit].rev = queued.rev
        /\ latest[job.lang][job.unit].final = queued.final
    BY <2>2 DEF VersionOf
  <2>4. queued \in Job
    BY <1>2
  <2>5. queued.rev \in Nat
    BY <2>4 DEF Job
  <2> QED
    BY <1>1, <2>3, <2>5 DEF IsNext
<1> DEFINE queue == queues[job.lang]
<1>4. \A k \in 1 .. Len(queue) : queue[k].unit = job.unit =>
          queue[k].rev < job.rev /\ ~queue[k].final
  BY <1>3
<1> HIDE DEF queue
<1>5. LET rest == Coalesced(queue, job) IN
      /\ rest \in Seq(Job)
      /\ Len(rest) \in Nat
      /\ Len(queue) - 1 <= Len(rest) /\ Len(rest) <= Len(queue)
      /\ PartOf(rest, queue)
      /\ UnitsDistinct(rest)
      /\ \A k \in 1 .. Len(rest) : rest[k].unit # job.unit
      /\ \A k \in 1 .. Len(queue) : queue[k].final =>
            \E j \in 1 .. Len(rest) : rest[j] = queue[k]
  <2>1. queue \in Seq(Job) /\ UnitsDistinct(queue)
    BY <1>2 DEF queue
  <2> QED
    BY <1>1, <1>4, <2>1, CoalescedQueue
<1> QED
  BY <1>2, <1>5 DEF queue

(* The oldest draft of a queue in which some job is a draft. *)
LEMMA OldestDraft ==
    ASSUME NEW queue \in Seq(Job), NEW i \in Drafts(queue)
    PROVE  i \in 1 .. Len(queue) /\ ~queue[i].final
BY DEF Drafts

(* enqueue preserves the invariant of the queues and keeps every sealed    *)
(* job queued.                                                             *)
LEMMA EnqueueStep ==
    ASSUME Inv, NEW job, IsNext(job), Enqueue(job)
    PROVE  /\ QueueTypeOK'
           /\ RoundRobinActive'
           /\ QueuedJobsCurrent'
           /\ OverCapacityOnlyFinals'
           /\ DegradedIsFull'
           /\ \A lang \in Languages : \A i \in 1 .. Len(queues[lang]) :
                 queues[lang][i].final =>
                     \E j \in 1 .. Len(queues'[lang]) :
                         queues'[lang][j] = queues[lang][i]
<1> DEFINE queue == queues[job.lang]
           rest == Coalesced(queue, job)
<1>1. /\ queue \in Seq(Job)
      /\ rest \in Seq(Job)
      /\ Len(rest) \in Nat
      /\ Len(queue) - 1 <= Len(rest) /\ Len(rest) <= Len(queue)
      /\ PartOf(rest, queue)
      /\ UnitsDistinct(rest)
      /\ \A k \in 1 .. Len(rest) : rest[k].unit # job.unit
      /\ \A k \in 1 .. Len(queue) : queue[k].final =>
            \E j \in 1 .. Len(rest) : rest[j] = queue[k]
  BY SubmitQueue
<1>2. job \in Job /\ job.gen = generation /\ job.lang \in Languages
  BY DEF IsNext, Job
<1>3. generation' = generation
  BY DEF Enqueue
<1>4. /\ TypeOK /\ RoundRobinActive /\ QueuedJobsCurrent
      /\ degraded \in SUBSET Languages /\ generation \in Nat
      /\ Capacity \in Nat /\ Capacity >= 2
  BY CapacityAssumption DEF Inv, TypeOK
<1>5. \A lang \in Languages : Len(queues[lang]) \in Nat
  BY DEF Inv, TypeOK
<1> HIDE DEF rest
<1>6. ASSUME NEW base \in Seq(Job), PartOf(base, queue),
             UnitsDistinct(base),
             \A k \in 1 .. Len(base) : base[k].unit # job.unit,
             \A k \in 1 .. Len(queue) : queue[k].final =>
                 \E j \in 1 .. Len(base) : base[j] = queue[k],
             Accept(base, job),
             degraded' \in SUBSET (degraded \cup {job.lang}),
             job.lang \in degraded' => Len(base) + 1 >= Capacity,
             Len(base) + 1 > Capacity => Drafts(base) = {} /\ job.final
      PROVE  /\ QueueTypeOK' /\ RoundRobinActive' /\ QueuedJobsCurrent'
             /\ OverCapacityOnlyFinals' /\ DegradedIsFull'
             /\ \A lang \in Languages : \A i \in 1 .. Len(queues[lang]) :
                   queues[lang][i].final =>
                       \E j \in 1 .. Len(queues'[lang]) :
                           queues'[lang][j] = queues[lang][i]
  <2>1. /\ queues' \in [Languages -> Seq(Job)]
        /\ \A lang \in Languages : \A i \in 1 .. Len(queues'[lang]) :
              queues'[lang][i].lang = lang
        /\ roundRobin' \in Seq(Languages)
        /\ latest' \in [Languages -> [Units -> Version]]
        /\ queues'[job.lang] = Append(base, job)
        /\ \A other \in Languages \ {job.lang} :
              queues'[other] = queues[other]
        /\ RoundRobinActive'
        /\ QueuedJobsCurrent'
    BY <1>2, <1>3, <1>4, <1>6, AcceptStep
  <2>2. QueueTypeOK'
    BY <1>2, <1>3, <1>4, <1>6, <2>1 DEF QueueTypeOK
  <2>3. /\ Len(queues'[job.lang]) = Len(base) + 1
        /\ \A k \in 1 .. Len(base) : queues'[job.lang][k] = base[k]
        /\ queues'[job.lang][Len(base) + 1] = job
    BY <1>2, <1>6, <2>1
  <2>4. OverCapacityOnlyFinals'
    <3> SUFFICES ASSUME NEW lang \in Languages,
                        Len(queues'[lang]) > Capacity
                 PROVE  Drafts(queues'[lang]) = {}
      BY DEF OverCapacityOnlyFinals, Drafts
    <3>1. CASE lang # job.lang
      BY <2>1, <3>1 DEF Inv, OverCapacityOnlyFinals
    <3>2. CASE lang = job.lang
      BY <1>4, <1>6, <2>3, <3>2 DEF Drafts
    <3> QED
      BY <3>1, <3>2
  <2>5. DegradedIsFull'
    <3> SUFFICES ASSUME NEW lang \in degraded'
                 PROVE  Len(queues'[lang]) >= Capacity
      BY DEF DegradedIsFull
    <3>1. CASE lang # job.lang
      BY <1>4, <1>6, <2>1, <3>1 DEF Inv, DegradedIsFull
    <3>2. CASE lang = job.lang
      BY <1>6, <2>3, <3>2
    <3> QED
      BY <3>1, <3>2
  <2>6. ASSUME NEW lang \in Languages, NEW i \in 1 .. Len(queues[lang]),
               queues[lang][i].final
        PROVE  \E j \in 1 .. Len(queues'[lang]) :
                   queues'[lang][j] = queues[lang][i]
    <3>1. CASE lang # job.lang
      BY <2>1, <3>1
    <3>2. CASE lang = job.lang
      <4>1. PICK j \in 1 .. Len(base) : base[j] = queue[i]
        BY <1>6, <2>6, <3>2
      <4>2. j \in 1 .. Len(queues'[lang]) /\ queues'[lang][j] = base[j]
        BY <1>6, <2>3, <3>2
      <4> QED
        BY <3>2, <4>1, <4>2
    <3> QED
      BY <3>1, <3>2
  <2> QED
    BY <2>1, <2>2, <2>4, <2>5, <2>6
<1>7. CASE EnqueueWithRoom(job)
  <2>1. Len(rest) < Capacity /\ Accept(rest, job) /\ degraded' = degraded
    BY <1>7 DEF EnqueueWithRoom, rest
  <2>2. job.lang \in degraded => Len(queue) >= Capacity
    BY DEF Inv, DegradedIsFull
  <2>3. job.lang \in degraded' => Len(rest) + 1 >= Capacity
    BY <1>1, <1>2, <1>4, <1>5, <2>1, <2>2
  <2>4. ~(Len(rest) + 1 > Capacity)
    BY <1>1, <1>4, <2>1
  <2> QED
    BY <1>1, <1>6, <2>1, <2>3, <2>4
<1>8. CASE EnqueueDroppingDraft(job)
  <2>1. PICK i \in Drafts(rest) : /\ IsOldestDraft(rest, i)
                                  /\ Accept(RemoveAt(rest, i), job)
    BY <1>8 DEF EnqueueDroppingDraft, rest
  <2>2. Len(rest) >= Capacity /\ degraded' = degraded \cup {job.lang}
    BY <1>8 DEF EnqueueDroppingDraft, rest
  <2>3. i \in 1 .. Len(rest) /\ ~rest[i].final
    BY <1>1, OldestDraft
  <2> DEFINE base == RemoveAt(rest, i)
  <2>4. /\ base \in Seq(Job)
        /\ Len(base) = Len(rest) - 1
        /\ PartOf(base, rest)
        /\ UnitsDistinct(base)
        /\ \A k \in 1 .. Len(rest) :
              k = i \/ \E j \in 1 .. Len(base) : base[j] = rest[k]
    BY <1>1, <2>3, RemoveAtQueue
  <2> HIDE DEF base
  <2>5. PartOf(base, queue)
    <3> SUFFICES ASSUME NEW k \in 1 .. Len(base)
                 PROVE  \E j \in 1 .. Len(queue) : base[k] = queue[j]
      BY DEF PartOf
    <3>1. PICK m \in 1 .. Len(rest) : base[k] = rest[m]
      BY <2>4 DEF PartOf
    <3>2. PICK j \in 1 .. Len(queue) : rest[m] = queue[j]
      BY <1>1 DEF PartOf
    <3> QED
      BY <3>1, <3>2
  <2>6. \A k \in 1 .. Len(base) : base[k].unit # job.unit
    BY <1>1, <2>4 DEF PartOf
  <2>7. ASSUME NEW k \in 1 .. Len(queue), queue[k].final
        PROVE  \E j \in 1 .. Len(base) : base[j] = queue[k]
    <3>1. PICK m \in 1 .. Len(rest) : rest[m] = queue[k]
      BY <1>1, <2>7
    <3> QED
      BY <2>3, <2>4, <2>7, <3>1
  <2>8. Len(queue) = Capacity /\ Len(rest) = Capacity
    <3>1. PICK m \in 1 .. Len(queue) : rest[i] = queue[m]
      BY <1>1, <2>3 DEF PartOf
    <3>2. m \in Drafts(queue)
      BY <2>3, <3>1 DEF Drafts
    <3>3. ~(Len(queue) > Capacity)
      BY <1>2, <3>2 DEF Inv, OverCapacityOnlyFinals
    <3> QED
      BY <1>1, <1>4, <2>2, <3>3
  <2>9. Accept(base, job)
    BY <2>1 DEF base
  <2>10. Len(base) + 1 >= Capacity /\ ~(Len(base) + 1 > Capacity)
    BY <1>4, <2>4, <2>8
  <2> QED
    BY <1>6, <2>2, <2>4, <2>5, <2>6, <2>7, <2>9, <2>10
<1>9. CASE EnqueueOverCapacity(job)
  <2>1. /\ Len(rest) >= Capacity /\ Drafts(rest) = {} /\ job.final
        /\ Accept(rest, job) /\ degraded' = degraded \cup {job.lang}
    BY <1>9 DEF EnqueueOverCapacity, rest
  <2>2. Len(rest) + 1 >= Capacity
    BY <1>1, <1>4, <2>1
  <2> QED
    BY <1>1, <1>6, <2>1, <2>2
<1>10. CASE RejectDraft(job)
  <2>1. /\ Len(rest) >= Capacity /\ Drafts(rest) = {}
        /\ queues' = [queues EXCEPT ![job.lang] = rest]
        /\ degraded' = degraded \cup {job.lang}
        /\ roundRobin' = roundRobin /\ latest' = latest
    BY <1>10 DEF RejectDraft, rest
  <2>2. /\ queues' \in [Languages -> Seq(Job)]
        /\ queues'[job.lang] = rest
        /\ \A other \in Languages \ {job.lang} :
              queues'[other] = queues[other]
    BY <1>1, <1>2, <1>4, <2>1 DEF TypeOK
  <2>3. ASSUME NEW lang \in Languages, NEW i \in 1 .. Len(queues'[lang])
        PROVE  \E j \in 1 .. Len(queues[lang]) :
                   queues'[lang][i] = queues[lang][j]
    <3>1. CASE lang # job.lang
      BY <2>2, <3>1
    <3>2. CASE lang = job.lang
      BY <1>1, <2>2, <3>2 DEF PartOf
    <3> QED
      BY <3>1, <3>2
  <2>4. QueueTypeOK'
    <3>1. ASSUME NEW lang \in Languages, NEW i \in 1 .. Len(queues'[lang])
          PROVE  queues'[lang][i].lang = lang
      <4>1. PICK j \in 1 .. Len(queues[lang]) :
                queues'[lang][i] = queues[lang][j]
        BY <2>3
      <4> QED
        BY <1>4, <4>1 DEF TypeOK
    <3> QED
      BY <1>2, <1>3, <1>4, <2>1, <2>2, <3>1 DEF QueueTypeOK, TypeOK
  <2>5. RoundRobinActive'
    <3>1. queues'[job.lang] # <<>> /\ queue # <<>>
      BY <1>1, <1>4, <2>1, <2>2
    <3>2. \A lang \in Languages : queues'[lang] # <<>> <=> queues[lang] # <<>>
      BY <1>2, <2>2, <3>1
    <3> QED
      BY <1>4, <2>1, <3>2 DEF RoundRobinActive
  <2>6. QueuedJobsCurrent'
    <3> SUFFICES ASSUME NEW lang \in Languages
                 PROVE  /\ \A i \in 1 .. Len(queues'[lang]) :
                              IsCurrent(queues[lang][i])'
                        /\ UnitsDistinct(queues[lang])'
      BY DEF QueuedJobsCurrent, UnitsDistinct
    <3>1. ASSUME NEW i \in 1 .. Len(queues'[lang])
          PROVE  IsCurrent(queues[lang][i])'
      <4>1. PICK j \in 1 .. Len(queues[lang]) :
                queues'[lang][i] = queues[lang][j]
        BY <2>3
      <4>2. IsCurrent(queues[lang][j])
        BY DEF Inv, QueuedJobsCurrent
      <4> QED
        BY <1>3, <2>1, <4>1, <4>2 DEF IsCurrent
    <3>2. UnitsDistinct(queues'[lang])
      <4>1. UnitsDistinct(queues[lang])
        BY DEF Inv, QueuedJobsCurrent, UnitsDistinct
      <4> QED
        BY <1>1, <2>2, <4>1
    <3> QED
      BY <3>1, <3>2
  <2>7. OverCapacityOnlyFinals'
    <3> SUFFICES ASSUME NEW lang \in Languages,
                        Len(queues'[lang]) > Capacity
                 PROVE  Drafts(queues'[lang]) = {}
      BY DEF OverCapacityOnlyFinals, Drafts
    <3> QED
      BY <2>1, <2>2 DEF Inv, OverCapacityOnlyFinals
  <2>8. DegradedIsFull'
    BY <1>2, <1>4, <2>1, <2>2 DEF Inv, DegradedIsFull
  <2>9. ASSUME NEW lang \in Languages, NEW i \in 1 .. Len(queues[lang]),
               queues[lang][i].final
        PROVE  \E j \in 1 .. Len(queues'[lang]) :
                   queues'[lang][j] = queues[lang][i]
    <3>1. CASE lang = job.lang
      <4>1. i \in 1 .. Len(queue) /\ queue[i].final
        BY <2>9, <3>1
      <4>2. \E j \in 1 .. Len(rest) : rest[j] = queue[i]
        BY <1>1, <4>1
      <4> QED
        BY <2>2, <3>1, <4>2
    <3>2. CASE lang # job.lang
      BY <2>2, <3>2
    <3> QED
      BY <3>1, <3>2
  <2> QED
    BY <2>4, <2>5, <2>6, <2>7, <2>8, <2>9
<1> QED
  BY <1>7, <1>8, <1>9, <1>10 DEF Enqueue
-----------------------------------------------------------------------------
(* pop_next never has to skip a language: the one at the front has work.   *)
LEMMA TurnIsFirst ==
    ASSUME Inv, NEW i, IsNextTurn(i)
    PROVE  i = 1
<1>1. i \in 1 .. Len(roundRobin) /\ roundRobin \in Seq(Languages)
  BY DEF IsNextTurn, Inv, TypeOK
<1>2. SUFFICES ASSUME i # 1 PROVE FALSE
  OBVIOUS
<1>3. 1 \in 1 .. (i - 1) /\ 1 \in 1 .. Len(roundRobin)
  BY <1>1, <1>2
<1>4. queues[roundRobin[1]] = <<>>
  BY <1>3 DEF IsNextTurn
<1>5. roundRobin[1] \in Languages
  BY <1>1, <1>3
<1> QED
  BY <1>3, <1>4, <1>5 DEF Inv, RoundRobinActive

(* What remains of the service order behind its front.                     *)
LEMMA RestOfOrder ==
    ASSUME roundRobin \in Seq(Languages), 1 \in 1 .. Len(roundRobin)
    PROVE  LET others == SubSeq(roundRobin, 2, Len(roundRobin))
           IN  /\ others \in Seq(Languages)
               /\ Len(others) = Len(roundRobin) - 1
               /\ \A k \in 1 .. Len(roundRobin) - 1 :
                      others[k] = roundRobin[k + 1]
<1> DEFINE others == SubSeq(roundRobin, 2, Len(roundRobin))
<1>1. \A k \in 2 .. Len(roundRobin) : roundRobin[k] \in Languages
  OBVIOUS
<1>2. /\ others \in Seq(Languages)
      /\ Len(others) = IF 2 <= Len(roundRobin)
                       THEN Len(roundRobin) - 2 + 1 ELSE 0
      /\ \A k \in 1 .. Len(roundRobin) - 2 + 1 :
            others[k] = roundRobin[2 + k - 1]
  BY <1>1, SubSeqProperties
<1> HIDE DEF others
<1>3. Len(roundRobin) \in Nat
  OBVIOUS
<1>4. Len(others) = Len(roundRobin) - 1
  <2>1. CASE 2 <= Len(roundRobin)
    BY <1>2, <1>3, <2>1
  <2>2. CASE ~(2 <= Len(roundRobin))
    <3>1. Len(others) = 0
      BY <1>2, <2>2
    <3>2. Len(roundRobin) = 1
      <4>1. Len(roundRobin) >= 1
        OBVIOUS
      <4> DEFINE n == Len(roundRobin)
      <4>2. n \in Nat /\ n >= 1 /\ ~(2 <= n)
        BY <1>3, <2>2, <4>1
      <4> HIDE DEF n
      <4>3. n = 1
        BY <4>2
      <4> QED
        BY <4>3 DEF n
    <3> QED
      BY <3>1, <3>2
  <2> QED
    BY <2>1, <2>2
<1>5. ASSUME NEW k \in 1 .. Len(roundRobin) - 1
      PROVE  others[k] = roundRobin[k + 1]
  <2>1. k \in 1 .. Len(roundRobin) - 2 + 1 /\ 2 + k - 1 = k + 1
    BY <1>3
  <2> QED
    BY <1>2, <2>1
<1> QED
  BY <1>2, <1>4, <1>5

(* pop_next preserves the invariant of the queues; only the head of the    *)
(* language whose turn it is leaves its queue.                             *)
LEMMA PopStep ==
    ASSUME Inv, NEW i, IsNextTurn(i), PopAt(i)
    PROVE  /\ QueueTypeOK'
           /\ RoundRobinActive'
           /\ QueuedJobsCurrent'
           /\ OverCapacityOnlyFinals'
           /\ DegradedIsFull'
           /\ \A lang \in Languages : \A k \in 1 .. Len(queues[lang]) :
                 \/ k = 1 /\ lang = roundRobin[1]
                 \/ \E j \in 1 .. Len(queues'[lang]) :
                       queues'[lang][j] = queues[lang][k]
<1> DEFINE lang == roundRobin[1]
           rest == Tail(queues[lang])
           others == SubSeq(roundRobin, 2, Len(roundRobin))
<1>1. /\ i = 1 /\ Len(roundRobin) >= 1 /\ 1 \in 1 .. Len(roundRobin)
      /\ queues[lang] # <<>>
  <2>1. i = 1
    BY TurnIsFirst
  <2> QED
    BY <2>1 DEF IsNextTurn, Inv, TypeOK
<1>2. /\ queues' = [queues EXCEPT ![lang] = rest]
      /\ roundRobin' = IF rest = <<>> THEN others ELSE Append(others, lang)
      /\ degraded' = IF Len(rest) < Capacity THEN degraded \ {lang}
                     ELSE degraded
      /\ latest' = latest /\ generation' = generation
  BY <1>1 DEF PopAt
<1>3. /\ queues \in [Languages -> Seq(Job)] /\ roundRobin \in Seq(Languages)
      /\ degraded \in SUBSET Languages
      /\ latest \in [Languages -> [Units -> Version]] /\ generation \in Nat
      /\ Capacity \in Nat
      /\ \A l \in Languages : \A k \in 1 .. Len(queues[l]) :
            queues[l][k].lang = l
  BY CapacityAssumption DEF Inv, TypeOK
<1>4. lang \in Languages
  BY <1>1, <1>3
<1>5. /\ rest \in Seq(Job) /\ Len(rest) = Len(queues[lang]) - 1
      /\ \A k \in 1 .. Len(rest) : rest[k] = queues[lang][k + 1]
  BY <1>1, <1>3, <1>4
<1>6. /\ others \in Seq(Languages)
      /\ Len(others) = Len(roundRobin) - 1
      /\ \A k \in 1 .. Len(roundRobin) - 1 : others[k] = roundRobin[k + 1]
  BY <1>1, <1>3, RestOfOrder
<1> HIDE DEF lang, rest, others
<1>7. /\ queues' \in [Languages -> Seq(Job)]
      /\ queues'[lang] = rest
      /\ \A l \in Languages \ {lang} : queues'[l] = queues[l]
  BY <1>2, <1>3, <1>4, <1>5
<1>8. ASSUME NEW l \in Languages, NEW k \in 1 .. Len(queues'[l])
      PROVE  queues'[l][k] = queues[l][IF l = lang THEN k + 1 ELSE k]
  BY <1>5, <1>7
<1>9. ASSUME NEW l \in Languages, NEW k \in 1 .. Len(queues'[l])
      PROVE  (IF l = lang THEN k + 1 ELSE k) \in 1 .. Len(queues[l])
  BY <1>3, <1>4, <1>5, <1>7
<1>10. QueueTypeOK'
  <2>1. ASSUME NEW l \in Languages, NEW k \in 1 .. Len(queues'[l])
        PROVE  queues'[l][k].lang = l
    <3>1. queues'[l][k] = queues[l][IF l = lang THEN k + 1 ELSE k]
      BY <1>8
    <3>2. (IF l = lang THEN k + 1 ELSE k) \in 1 .. Len(queues[l])
      BY <1>9
    <3> QED
      BY <1>3, <3>1, <3>2
  <2>2. roundRobin' \in Seq(Languages)
    BY <1>2, <1>4, <1>6
  <2> QED
    BY <1>2, <1>3, <1>7, <2>1, <2>2 DEF QueueTypeOK
<1>11. RoundRobinActive'
  <2>1. /\ \A l \in Languages : queues[l] # <<>> <=>
              \E k \in 1 .. Len(roundRobin) : roundRobin[k] = l
        /\ \A k, m \in 1 .. Len(roundRobin) :
              roundRobin[k] = roundRobin[m] => k = m
    BY DEF Inv, RoundRobinActive
  <2>. Len(roundRobin) \in Nat /\ Len(others) = Len(roundRobin) - 1
    BY <1>3, <1>6
  <2>2. ASSUME NEW k \in 1 .. Len(others)
        PROVE  others[k] # lang
    <3>1. k + 1 \in 1 .. Len(roundRobin) /\ others[k] = roundRobin[k + 1]
      BY <1>6
    <3>2. 1 \in 1 .. Len(roundRobin) /\ 1 # k + 1
      BY <1>1
    <3> QED
      BY <2>1, <3>1, <3>2 DEF lang
  <2>3. ASSUME NEW l \in Languages, l # lang
        PROVE  queues[l] # <<>> <=>
                   \E k \in 1 .. Len(others) : others[k] = l
    <3>1. ASSUME NEW k \in 1 .. Len(roundRobin), roundRobin[k] = l
          PROVE  k - 1 \in 1 .. Len(others) /\ others[k - 1] = l
      <4>1. k # 1
        BY <2>3, <3>1 DEF lang
      <4>2. k - 1 \in 1 .. Len(others) /\ (k - 1) + 1 = k
        BY <4>1
      <4>3. others[k - 1] = roundRobin[(k - 1) + 1]
        BY <1>6, <4>2
      <4> QED
        BY <3>1, <4>2, <4>3
    <3>2. ASSUME NEW k \in 1 .. Len(others), others[k] = l
          PROVE  k + 1 \in 1 .. Len(roundRobin) /\ roundRobin[k + 1] = l
      <4>1. k + 1 \in 1 .. Len(roundRobin)
        OBVIOUS
      <4>2. others[k] = roundRobin[k + 1]
        BY <1>6
      <4> QED
        BY <3>2, <4>1, <4>2
    <3> QED
      BY <2>1, <3>1, <3>2
  <2>4. ASSUME NEW k \in 1 .. Len(others), NEW m \in 1 .. Len(others),
               others[k] = others[m]
        PROVE  k = m
    <3>1. /\ k + 1 \in 1 .. Len(roundRobin) /\ m + 1 \in 1 .. Len(roundRobin)
          /\ roundRobin[k + 1] = roundRobin[m + 1]
      <4>1. k + 1 \in 1 .. Len(roundRobin) /\ m + 1 \in 1 .. Len(roundRobin)
        OBVIOUS
      <4>2. others[k] = roundRobin[k + 1] /\ others[m] = roundRobin[m + 1]
        BY <1>6
      <4> QED
        BY <2>4, <4>1, <4>2
    <3>2. k + 1 = m + 1
      BY <2>1, <3>1
    <3> QED
      BY <1>6, <3>2
  <2>5. CASE rest = <<>>
    <3>1. roundRobin' = others
      BY <1>2, <2>5
    <3>2. ASSUME NEW l \in Languages
          PROVE  queues'[l] # <<>> <=>
                     \E k \in 1 .. Len(roundRobin') : roundRobin'[k] = l
      BY <1>7, <2>2, <2>3, <2>5, <3>1
    <3> QED
      BY <2>4, <3>1, <3>2 DEF RoundRobinActive
  <2>6. CASE rest # <<>>
    <3>1. /\ Len(roundRobin') = Len(others) + 1
          /\ roundRobin'[Len(others) + 1] = lang
          /\ \A k \in 1 .. Len(others) : roundRobin'[k] = others[k]
      BY <1>2, <1>4, <1>6, <2>6
    <3>2. Len(others) \in Nat
      BY <1>6
    <3>3. ASSUME NEW l \in Languages
          PROVE  queues'[l] # <<>> <=>
                     \E k \in 1 .. Len(roundRobin') : roundRobin'[k] = l
      <4>1. CASE l = lang
        BY <1>7, <2>6, <3>1, <3>2, <4>1
      <4>2. CASE l # lang
        <5>1. (\E k \in 1 .. Len(others) : others[k] = l) <=>
                  \E k \in 1 .. Len(roundRobin') : roundRobin'[k] = l
          <6>1. ASSUME NEW k \in 1 .. Len(roundRobin'), roundRobin'[k] = l
                PROVE  k \in 1 .. Len(others) /\ others[k] = l
            BY <3>1, <3>2, <4>2, <6>1
          <6>2. ASSUME NEW k \in 1 .. Len(others)
                PROVE  k \in 1 .. Len(roundRobin')
            BY <3>1, <3>2
          <6> QED
            BY <3>1, <6>1, <6>2
        <5> QED
          BY <1>7, <2>3, <4>2, <5>1
      <4> QED
        BY <4>1, <4>2
    <3>4. ASSUME NEW k \in 1 .. Len(roundRobin'),
                 NEW m \in 1 .. Len(roundRobin'),
                 roundRobin'[k] = roundRobin'[m]
          PROVE  k = m
      <4>1. CASE k \in 1 .. Len(others) /\ m \in 1 .. Len(others)
        BY <2>4, <3>1, <3>4, <4>1
      <4>2. CASE k = Len(others) + 1 /\ m \in 1 .. Len(others)
        BY <2>2, <3>1, <3>4, <4>2
      <4>3. CASE k \in 1 .. Len(others) /\ m = Len(others) + 1
        BY <2>2, <3>1, <3>4, <4>3
      <4> QED
        BY <3>1, <3>2, <4>1, <4>2, <4>3
    <3> QED
      BY <3>3, <3>4 DEF RoundRobinActive
  <2> QED
    BY <2>5, <2>6
<1>12. QueuedJobsCurrent'
  <2> SUFFICES ASSUME NEW l \in Languages
               PROVE  /\ \A k \in 1 .. Len(queues'[l]) :
                            IsCurrent(queues[l][k])'
                      /\ UnitsDistinct(queues[l])'
    BY DEF QueuedJobsCurrent, UnitsDistinct
  <2>1. ASSUME NEW k \in 1 .. Len(queues'[l])
        PROVE  IsCurrent(queues[l][k])'
    BY <1>2, <1>8, <1>9 DEF Inv, QueuedJobsCurrent, IsCurrent
  <2>2. ASSUME NEW k \in 1 .. Len(queues'[l]), NEW m \in 1 .. Len(queues'[l]),
               queues'[l][k].unit = queues'[l][m].unit
        PROVE  k = m
    <3> DEFINE kk == IF l = lang THEN k + 1 ELSE k
               mm == IF l = lang THEN m + 1 ELSE m
    <3>2. kk \in 1 .. Len(queues[l]) /\ mm \in 1 .. Len(queues[l])
      BY <1>9
    <3>3. queues[l][kk].unit = queues[l][mm].unit
      BY <1>8, <2>2
    <3>1. kk = mm
      <4> HIDE DEF kk, mm
      <4> QED
        BY <3>2, <3>3 DEF Inv, QueuedJobsCurrent
    <3> QED
      BY <3>1
  <2> QED
    BY <2>1, <2>2 DEF UnitsDistinct
<1>13. OverCapacityOnlyFinals'
  <2> SUFFICES ASSUME NEW l \in Languages, Len(queues'[l]) > Capacity,
                      NEW k \in Drafts(queues'[l])
               PROVE  FALSE
    BY DEF OverCapacityOnlyFinals
  <2>1. k \in 1 .. Len(queues'[l]) /\ ~queues'[l][k].final
    BY DEF Drafts
  <2>2. (IF l = lang THEN k + 1 ELSE k) \in Drafts(queues[l])
    BY <1>8, <1>9, <2>1 DEF Drafts
  <2>3. Len(queues[l]) > Capacity
    <3>1. CASE l = lang
      BY <1>3, <1>4, <1>5, <1>7, <3>1
    <3>2. CASE l # lang
      BY <1>7, <3>2
    <3> QED
      BY <3>1, <3>2
  <2> QED
    BY <2>2, <2>3 DEF Inv, OverCapacityOnlyFinals
<1>14. DegradedIsFull'
  <2> SUFFICES ASSUME NEW l \in degraded' PROVE Len(queues'[l]) >= Capacity
    BY DEF DegradedIsFull
  <2>1. CASE l = lang
    BY <1>2, <1>3, <1>5, <1>7, <2>1
  <2>2. CASE l # lang
    BY <1>2, <1>3, <1>7, <2>2 DEF Inv, DegradedIsFull
  <2> QED
    BY <2>1, <2>2
<1>15. ASSUME NEW l \in Languages, NEW k \in 1 .. Len(queues[l]),
              ~(k = 1 /\ l = lang)
       PROVE  \E j \in 1 .. Len(queues'[l]) : queues'[l][j] = queues[l][k]
  <2>1. CASE l # lang
    BY <1>7, <2>1
  <2>2. CASE l = lang
    <3>1. k - 1 \in 1 .. Len(rest) /\ rest[k - 1] = queues[lang][k]
      BY <1>3, <1>5, <1>15, <2>2
    <3> QED
      BY <1>7, <2>2, <3>1
  <2> QED
    BY <2>1, <2>2
<1> QED
  BY <1>10, <1>11, <1>12, <1>13, <1>14, <1>15 DEF lang
-----------------------------------------------------------------------------
(* The initial state, and one step of each action.                         *)
LEMMA InitInv == Init => Inv
<1> SUFFICES ASSUME Init PROVE Inv
  OBVIOUS
<1>1. \A lang \in Languages : queues[lang] = <<>>
  BY DEF Init, SchedulerInit
<1>2. NoVersion \in Version
  BY DEF NoVersion, Version
<1>3. TypeOK
  BY <1>1, <1>2 DEF Init, SchedulerInit, TypeOK
<1>4. RoundRobinActive
  BY <1>1 DEF Init, SchedulerInit, RoundRobinActive
<1>5. QueuedJobsCurrent /\ OverCapacityOnlyFinals
  BY <1>1, CapacityAssumption
     DEF QueuedJobsCurrent, OverCapacityOnlyFinals, Drafts
<1>6. DegradedIsFull
  BY DEF Init, SchedulerInit, DegradedIsFull
<1> QED
  BY <1>3, <1>4, <1>5, <1>6 DEF Inv

(* The job that Submit hands to enqueue.                                   *)
JobOf(lang, unit, rev, final) ==
    [lang |-> lang, unit |-> unit, rev |-> rev, final |-> final,
     gen |-> generation]

LEMMA SubmittedJob ==
    ASSUME TypeOK, NEW lang \in Languages, NEW unit \in Units,
           NEW rev \in Revisions, NEW final \in BOOLEAN,
           Submit(lang, unit, rev, final)
    PROVE  /\ IsNext(JobOf(lang, unit, rev, final))
           /\ Enqueue(JobOf(lang, unit, rev, final))
<1>1. generation \in Nat /\ rev \in Nat \ {0}
  BY BoundsAssumption DEF TypeOK, Revisions
<1>2. JobOf(lang, unit, rev, final) \in Job
  BY <1>1 DEF JobOf, Job
<1> QED
  BY <1>2 DEF Submit, JobOf, IsNext

LEMMA SubmitInv ==
    ASSUME Inv, NEW lang \in Languages, NEW unit \in Units,
           NEW rev \in Revisions, NEW final \in BOOLEAN,
           Submit(lang, unit, rev, final)
    PROVE  Inv'
<1> DEFINE job == JobOf(lang, unit, rev, final)
<1>1. IsNext(job) /\ Enqueue(job)
  BY SubmittedJob DEF Inv
<1> HIDE DEF job
<1>2. /\ QueueTypeOK' /\ RoundRobinActive' /\ QueuedJobsCurrent'
      /\ OverCapacityOnlyFinals' /\ DegradedIsFull'
  BY <1>1, EnqueueStep
<1>3. inFlight' = inFlight /\ shown' = shown /\ passedOver' = passedOver
  BY DEF Submit
<1>4. TypeOK'
  BY <1>2, <1>3 DEF Inv, TypeOK, QueueTypeOK
<1> QED
  BY <1>2, <1>4 DEF Inv

(* The worker takes from the language at the front of the service order.   *)
LEMMA TakenJob ==
    ASSUME Inv, Take
    PROVE  /\ IsNextTurn(1) /\ PopAt(1)
           /\ roundRobin[1] \in Languages
           /\ queues[roundRobin[1]] # <<>>
           /\ queues[roundRobin[1]][1] \in Job
           /\ inFlight = NoJob /\ inFlight' = queues[roundRobin[1]][1]
           /\ passedOver' = [other \in Languages |->
                  IF other = roundRobin[1] \/ queues[other] = <<>> THEN 0
                  ELSE passedOver[other] + 1]
           /\ shown' = shown
<1>1. PICK i \in 1 .. Len(roundRobin) :
          /\ IsNextTurn(i)
          /\ PopAt(i)
          /\ inFlight' = IF IsCurrent(Head(queues[roundRobin[i]]))
                         THEN Head(queues[roundRobin[i]]) ELSE NoJob
          /\ passedOver' = [other \in Languages |->
                 IF other = roundRobin[i] \/ queues[other] = <<>> THEN 0
                 ELSE passedOver[other] + 1]
  BY DEF Take
<1>2. i = 1
  BY <1>1, TurnIsFirst
<1>3. roundRobin[1] \in Languages /\ queues[roundRobin[1]] # <<>>
  BY <1>1, <1>2 DEF Inv, TypeOK, IsNextTurn
<1>4. queues[roundRobin[1]] \in Seq(Job)
  BY <1>3 DEF Inv, TypeOK
<1>5. /\ 1 \in 1 .. Len(queues[roundRobin[1]])
      /\ Head(queues[roundRobin[1]]) = queues[roundRobin[1]][1]
      /\ queues[roundRobin[1]][1] \in Job
  BY <1>3, <1>4
<1>6. IsCurrent(queues[roundRobin[1]][1])
  BY <1>3, <1>5 DEF Inv, QueuedJobsCurrent
<1> QED
  BY <1>1, <1>2, <1>3, <1>5, <1>6 DEF Take

LEMMA TakeInv ==
    ASSUME Inv, Take
    PROVE  Inv'
<1>1. /\ QueueTypeOK' /\ RoundRobinActive' /\ QueuedJobsCurrent'
      /\ OverCapacityOnlyFinals' /\ DegradedIsFull'
  BY TakenJob, PopStep
<1>2. inFlight' \in Job /\ shown' = shown
  BY TakenJob
<1>3. passedOver' \in [Languages -> Nat]
  <2>1. passedOver \in [Languages -> Nat]
    BY DEF Inv, TypeOK
  <2>2. passedOver' = [other \in Languages |->
            IF other = roundRobin[1] \/ queues[other] = <<>> THEN 0
            ELSE passedOver[other] + 1]
    BY TakenJob
  <2> QED
    BY <2>1, <2>2
<1>4. TypeOK'
  BY <1>1, <1>2, <1>3 DEF Inv, TypeOK, QueueTypeOK
<1> QED
  BY <1>1, <1>4 DEF Inv

(* A step that leaves the scheduler alone keeps what only speaks of it.    *)
LEMMA SchedulerUnchanged ==
    ASSUME Inv, UNCHANGED schedulerVars
    PROVE  /\ QueueTypeOK' /\ RoundRobinActive' /\ QueuedJobsCurrent'
           /\ OverCapacityOnlyFinals' /\ DegradedIsFull'
BY DEF Inv, TypeOK, schedulerVars, QueueTypeOK, RoundRobinActive,
       QueuedJobsCurrent, IsCurrent, OverCapacityOnlyFinals, DegradedIsFull

LEMMA PublishInv ==
    ASSUME Inv, Publish
    PROVE  Inv'
<1>1. /\ QueueTypeOK' /\ RoundRobinActive' /\ QueuedJobsCurrent'
      /\ OverCapacityOnlyFinals' /\ DegradedIsFull'
  BY SchedulerUnchanged DEF Publish
<1>2. inFlight \in Job
  BY DEF Publish, Inv, TypeOK
<1>3. VersionOf(inFlight) \in Version
  BY <1>2 DEF VersionOf, Version, Job
<1>4. shown' \in [Languages -> [Units -> Version]]
  BY <1>2, <1>3 DEF Publish, Inv, TypeOK, Job
<1>5. TypeOK'
  BY <1>1, <1>4 DEF Publish, Inv, TypeOK, QueueTypeOK
<1> QED
  BY <1>1, <1>5 DEF Inv

LEMMA DropStaleInv ==
    ASSUME Inv, DropStale
    PROVE  Inv'
<1>1. /\ QueueTypeOK' /\ RoundRobinActive' /\ QueuedJobsCurrent'
      /\ OverCapacityOnlyFinals' /\ DegradedIsFull'
  BY SchedulerUnchanged DEF DropStale
<1>2. TypeOK'
  BY <1>1 DEF DropStale, Inv, TypeOK, QueueTypeOK
<1> QED
  BY <1>1, <1>2 DEF Inv

LEMMA ClearInv ==
    ASSUME Inv, Clear
    PROVE  Inv'
<1>1. /\ \A lang \in Languages : queues'[lang] = <<>>
      /\ queues' = [lang \in Languages |-> <<>>]
      /\ roundRobin' = <<>> /\ degraded' = {}
      /\ latest' = [lang \in Languages |-> [unit \in Units |-> NoVersion]]
      /\ generation' = generation + 1 /\ inFlight' = inFlight
      /\ shown' = [lang \in Languages |-> [unit \in Units |-> NoVersion]]
      /\ passedOver' = [lang \in Languages |-> 0]
  BY DEF Clear, ClearScheduler
<1>2. NoVersion \in Version
  BY DEF NoVersion, Version
<1>3. TypeOK'
  BY <1>1, <1>2 DEF Inv, TypeOK
<1>4. RoundRobinActive'
  BY <1>1 DEF RoundRobinActive
<1>5. QueuedJobsCurrent' /\ OverCapacityOnlyFinals'
  BY <1>1, CapacityAssumption
     DEF QueuedJobsCurrent, OverCapacityOnlyFinals, Drafts
<1>6. DegradedIsFull'
  BY <1>1 DEF DegradedIsFull
<1> QED
  BY <1>3, <1>4, <1>5, <1>6 DEF Inv

LEMMA StepInv == Inv /\ [Next]_vars => Inv'
<1> SUFFICES ASSUME Inv, [Next]_vars PROVE Inv'
  OBVIOUS
<1>1. CASE \E lang \in Languages, unit \in Units, rev \in Revisions,
              final \in BOOLEAN : Submit(lang, unit, rev, final)
  BY <1>1, SubmitInv
<1>2. CASE Take
  BY <1>2, TakeInv
<1>3. CASE Publish
  BY <1>3, PublishInv
<1>4. CASE DropStale
  BY <1>4, DropStaleInv
<1>5. CASE Clear
  BY <1>5, ClearInv
<1>6. CASE UNCHANGED vars
  <2>1. /\ QueueTypeOK' /\ RoundRobinActive' /\ QueuedJobsCurrent'
        /\ OverCapacityOnlyFinals' /\ DegradedIsFull'
    BY <1>6, SchedulerUnchanged DEF vars
  <2>2. TypeOK'
    BY <1>6, <2>1 DEF vars, Inv, TypeOK, QueueTypeOK
  <2> QED
    BY <2>1, <2>2 DEF Inv
<1> QED
  BY <1>1, <1>2, <1>3, <1>4, <1>5, <1>6 DEF Next

-----------------------------------------------------------------------------
(* The inductive invariant holds throughout.                               *)
THEOREM Invariance == Spec => []Inv
BY InitInv, StepInv, PTL DEF Spec

(* Every variable of the scheduler and its callers keeps its type.         *)
THEOREM TypeCorrect == Spec => []TypeOK
<1>1. Inv => TypeOK
  BY DEF Inv
<1> QED
  BY <1>1, Invariance, PTL

(* No language with work is ever missing from the service order, and none  *)
(* stands there twice (_activate, pop_next).                               *)
THEOREM ServiceOrderComplete == Spec => []RoundRobinActive
<1>1. Inv => RoundRobinActive
  BY DEF Inv
<1> QED
  BY <1>1, Invariance, PTL

(* A queue exceeds its capacity only with sealed cues (enqueue).           *)
THEOREM BackpressureSparesFinals == Spec => []OverCapacityOnlyFinals
<1>1. Inv => OverCapacityOnlyFinals
  BY DEF Inv
<1> QED
  BY <1>1, Invariance, PTL

(* Nothing stale is ever queued: coalescing and clearing are complete.     *)
THEOREM QueuesHoldNewest == Spec => []QueuedJobsCurrent
<1>1. Inv => QueuedJobsCurrent
  BY DEF Inv
<1> QED
  BY <1>1, Invariance, PTL

(* A degraded language has a full queue (degraded_languages).              *)
THEOREM DegradationEnds == Spec => []DegradedIsFull
<1>1. Inv => DegradedIsFull
  BY DEF Inv
<1> QED
  BY <1>1, Invariance, PTL
-----------------------------------------------------------------------------
(* Durability: only the worker's turn or a clear removes a sealed cue.     *)
THEOREM SealedCuesDurable == Spec => FinalsDurable
<1> DEFINE Kept ==
      \A lang \in Languages : \A i \in 1 .. Len(queues[lang]) :
          LET job == queues[lang][i] IN
          job.final => \/ \E j \in 1 .. Len(queues'[lang]) :
                             queues'[lang][j] = job
                       \/ i = 1 /\ inFlight = NoJob /\ inFlight' = job
                       \/ generation' > generation
<1>1. Inv /\ [Next]_vars => [Kept]_vars
  <2> SUFFICES ASSUME Inv, Next PROVE Kept
    BY DEF vars
  <2>1. ASSUME NEW lang \in Languages, NEW unit \in Units,
               NEW rev \in Revisions, NEW final \in BOOLEAN,
               Submit(lang, unit, rev, final)
        PROVE  Kept
    <3> DEFINE job == JobOf(lang, unit, rev, final)
    <3>1. IsNext(job) /\ Enqueue(job)
      BY <2>1, SubmittedJob DEF Inv
    <3> HIDE DEF job
    <3> QED
      BY <3>1, EnqueueStep
  <2>2. CASE Take
    <3>1. /\ inFlight = NoJob
          /\ inFlight' = queues[roundRobin[1]][1]
      BY <2>2, TakenJob
    <3>2. \A lang \in Languages : \A k \in 1 .. Len(queues[lang]) :
             \/ k = 1 /\ lang = roundRobin[1]
             \/ \E j \in 1 .. Len(queues'[lang]) :
                   queues'[lang][j] = queues[lang][k]
      BY <2>2, TakenJob, PopStep
    <3> QED
      BY <3>1, <3>2
  <2>3. ASSUME UNCHANGED queues PROVE Kept
    BY <2>3
  <2>4. CASE Clear
    <3>1. generation' = generation + 1 /\ generation \in Nat
      BY <2>4 DEF Clear, ClearScheduler, Inv, TypeOK
    <3>2. generation' > generation
      BY <3>1
    <3> QED
      BY <3>2
  <2>5. Publish \/ DropStale => UNCHANGED queues
    BY DEF Publish, DropStale, schedulerVars
  <2> QED
    BY <2>1, <2>2, <2>3, <2>4, <2>5 DEF Next
<1> QED
  BY <1>1, Invariance, PTL DEF Spec, FinalsDurable

-----------------------------------------------------------------------------
(* Fairness of service: a language waiting at position i of the service    *)
(* order has let at most Cardinality(Languages) - i others go first.       *)
OvertakeInv ==
    /\ \A i \in 1 .. Len(roundRobin) :
           passedOver[roundRobin[i]] + i <= Cardinality(Languages)
    /\ \A lang \in Languages : queues[lang] = <<>> => passedOver[lang] = 0

(* A sequence of distinct languages is no longer than there are languages. *)
LEMMA DistinctLength ==
    ASSUME NEW s \in Seq(Languages),
           \A i, j \in 1 .. Len(s) : s[i] = s[j] => i = j
    PROVE  Len(s) <= Cardinality(Languages)
<1>1. IsFiniteSet(Languages) /\ Cardinality(Languages) \in Nat
  BY LanguagesAssumption, FS_CardinalityType
<1>2. Len(s) \in Nat /\ s \in [1 .. Len(s) -> Languages]
  OBVIOUS
<1>3. /\ IsFiniteSet(1 .. Len(s))
      /\ Cardinality(1 .. Len(s)) = Len(s)
  <2> DEFINE n == Len(s)
  <2>1. n \in Int /\ 1 \in Int
    BY <1>2
  <2>2. /\ IsFiniteSet(1 .. n)
        /\ Cardinality(1 .. n) = IF 1 > n THEN 0 ELSE n - 1 + 1
    BY <2>1, FS_Interval
  <2> HIDE DEF n
  <2>3. n \in Nat
    BY <1>2 DEF n
  <2>4. (IF 1 > n THEN 0 ELSE n - 1 + 1) = n
    BY <2>3
  <2> QED
    BY <2>2, <2>4 DEF n
<1>4. CASE Cardinality(Languages) < Cardinality(1 .. Len(s))
  <2>1. \E x, y \in 1 .. Len(s) : x # y /\ s[x] = s[y]
    BY <1>1, <1>2, <1>3, <1>4, FS_PigeonHole
  <2> QED
    BY <2>1
<1> QED
  BY <1>1, <1>2, <1>3, <1>4

LEMMA OvertakeStep ==
    ASSUME Inv, Inv', OvertakeInv, [Next]_vars
    PROVE  OvertakeInv'
<1>1. /\ roundRobin \in Seq(Languages) /\ roundRobin' \in Seq(Languages)
      /\ passedOver \in [Languages -> Nat]
      /\ Cardinality(Languages) \in Nat
  BY LanguagesAssumption, FS_CardinalityType DEF Inv, TypeOK
<1>2. Len(roundRobin') <= Cardinality(Languages)
  <2>1. \A i, j \in 1 .. Len(roundRobin') :
            roundRobin'[i] = roundRobin'[j] => i = j
    BY DEF Inv, RoundRobinActive
  <2> QED
    BY <1>1, <2>1, DistinctLength
<1>3. ASSUME NEW lang \in Languages, NEW unit \in Units,
             NEW rev \in Revisions, NEW final \in BOOLEAN,
             Submit(lang, unit, rev, final)
      PROVE  OvertakeInv'
  <2> DEFINE job == JobOf(lang, unit, rev, final)
  <2>1. IsNext(job) /\ Enqueue(job) /\ passedOver' = passedOver
    BY <1>3, SubmittedJob DEF Inv, Submit
  <2> HIDE DEF job
  <2>2. job.lang \in Languages
    BY <2>1 DEF IsNext, Job
  <2>3. \/ roundRobin' = roundRobin
        \/ /\ roundRobin' = Append(roundRobin, job.lang)
           /\ \A i \in 1 .. Len(roundRobin) : roundRobin[i] # job.lang
    BY <2>1 DEF Enqueue, EnqueueWithRoom, EnqueueDroppingDraft,
                EnqueueOverCapacity, RejectDraft, Accept
  <2>4. ASSUME NEW i \in 1 .. Len(roundRobin')
        PROVE  passedOver'[roundRobin'[i]] + i <= Cardinality(Languages)
    <3>1. CASE roundRobin' = roundRobin
      BY <2>1, <3>1 DEF OvertakeInv
    <3>2. CASE /\ roundRobin' = Append(roundRobin, job.lang)
               /\ \A k \in 1 .. Len(roundRobin) : roundRobin[k] # job.lang
      <4>1. CASE i \in 1 .. Len(roundRobin)
        <5>1. roundRobin'[i] = roundRobin[i]
          BY <1>1, <2>2, <3>2, <4>1
        <5> QED
          BY <2>1, <4>1, <5>1 DEF OvertakeInv
      <4>2. CASE i = Len(roundRobin')
        <5>1. roundRobin'[i] = job.lang
          BY <1>1, <2>2, <3>2, <4>2
        <5>2. passedOver[job.lang] = 0
          BY <2>2, <3>2 DEF OvertakeInv, Inv, RoundRobinActive
        <5> QED
          BY <1>1, <1>2, <2>1, <4>2, <5>1, <5>2
      <4>3. i \in 1 .. Len(roundRobin) \/ i = Len(roundRobin')
        BY <1>1, <2>2, <3>2
      <4> QED
        BY <4>1, <4>2, <4>3
    <3> QED
      BY <2>3, <3>1, <3>2
  <2>5. ASSUME NEW other \in Languages, queues'[other] = <<>>
        PROVE  passedOver'[other] = 0
    <3>1. ~\E i \in 1 .. Len(roundRobin') : roundRobin'[i] = other
      BY <2>5 DEF Inv, RoundRobinActive
    <3>2. ASSUME NEW i \in 1 .. Len(roundRobin), roundRobin[i] = other
          PROVE  FALSE
      <4>1. i \in 1 .. Len(roundRobin') /\ roundRobin'[i] = roundRobin[i]
        <5>1. CASE roundRobin' = roundRobin
          BY <5>1
        <5>2. CASE roundRobin' = Append(roundRobin, job.lang)
          BY <1>1, <2>2, <5>2
        <5> QED
          BY <2>3, <5>1, <5>2
      <4> QED
        BY <3>1, <3>2, <4>1
    <3>3. queues[other] = <<>>
      BY <3>2 DEF Inv, RoundRobinActive
    <3> QED
      BY <2>1, <3>3 DEF OvertakeInv
  <2> QED
    BY <2>4, <2>5 DEF OvertakeInv
<1>4. CASE Take
  <2> DEFINE lang == roundRobin[1]
             rest == Tail(queues[lang])
             others == SubSeq(roundRobin, 2, Len(roundRobin))
  <2>1. /\ IsNextTurn(1) /\ PopAt(1) /\ lang \in Languages
        /\ queues[lang] # <<>>
        /\ passedOver' = [other \in Languages |->
               IF other = lang \/ queues[other] = <<>> THEN 0
               ELSE passedOver[other] + 1]
    BY <1>4, TakenJob
  <2>2. /\ queues' = [queues EXCEPT ![lang] = rest]
        /\ roundRobin' = IF rest = <<>> THEN others ELSE Append(others, lang)
    BY <2>1 DEF PopAt
  <2>3. /\ others \in Seq(Languages)
        /\ Len(others) = Len(roundRobin) - 1
        /\ \A k \in 1 .. Len(roundRobin) - 1 : others[k] = roundRobin[k + 1]
    <3>1. 1 \in 1 .. Len(roundRobin)
      BY <2>1 DEF IsNextTurn
    <3> QED
      BY <1>1, <3>1, RestOfOrder
  <2> HIDE DEF rest, others
  <2>4. passedOver'[lang] = 0
    BY <2>1
  <2>5. ASSUME NEW k \in 1 .. Len(others)
        PROVE  passedOver'[others[k]] + k <= Cardinality(Languages)
    <3>1. k + 1 \in 1 .. Len(roundRobin) /\ others[k] = roundRobin[k + 1]
      <4>1. Len(roundRobin) \in Nat /\ k \in 1 .. Len(roundRobin) - 1
        BY <1>1, <2>3
      <4> QED
        BY <2>3, <4>1
    <3>2. others[k] \in Languages
      BY <1>1, <3>1
    <3>3. passedOver[others[k]] + (k + 1) <= Cardinality(Languages)
      BY <3>1 DEF OvertakeInv
    <3>4. passedOver'[others[k]] <= passedOver[others[k]] + 1
      BY <1>1, <2>1, <3>2
    <3>5. passedOver'[others[k]] \in Nat /\ passedOver[others[k]] \in Nat
      BY <1>1, <2>1, <3>2
    <3>6. k \in Nat /\ Cardinality(Languages) \in Nat
      BY <1>1
    <3> HIDE DEF lang
    <3> QED
      BY <3>3, <3>4, <3>5, <3>6
  <2>6. ASSUME NEW i \in 1 .. Len(roundRobin')
        PROVE  passedOver'[roundRobin'[i]] + i <= Cardinality(Languages)
    <3>1. CASE i \in 1 .. Len(others)
      <4>1. roundRobin'[i] = others[i]
        BY <2>1, <2>2, <2>3, <3>1
      <4> QED
        BY <2>5, <3>1, <4>1
    <3>2. CASE i \notin 1 .. Len(others)
      <4>1. roundRobin'[i] = lang
        BY <2>1, <2>2, <2>3, <3>2
      <4> QED
        BY <1>1, <1>2, <2>4, <4>1
    <3> QED
      BY <3>1, <3>2
  <2>7. ASSUME NEW other \in Languages, queues'[other] = <<>>
        PROVE  passedOver'[other] = 0
    <3>1. CASE other = lang
      BY <2>4, <3>1
    <3>2. CASE other # lang
      <4>1. queues'[other] = queues[other]
        BY <2>1, <2>2, <3>2 DEF Inv, TypeOK
      <4> QED
        BY <2>1, <2>7, <4>1
    <3> QED
      BY <3>1, <3>2
  <2> QED
    BY <2>6, <2>7 DEF OvertakeInv
<1>5. CASE Clear
  <2>1. /\ roundRobin' = <<>>
        /\ passedOver' = [lang \in Languages |-> 0]
    BY <1>5 DEF Clear, ClearScheduler
  <2> QED
    BY <2>1 DEF OvertakeInv
<1>6. CASE UNCHANGED <<roundRobin, passedOver, queues>>
  BY <1>6 DEF OvertakeInv
<1>7. Publish \/ DropStale \/ UNCHANGED vars =>
          UNCHANGED <<roundRobin, passedOver, queues>>
  BY DEF Publish, DropStale, schedulerVars, vars
<1> QED
  BY <1>3, <1>4, <1>5, <1>6, <1>7 DEF Next

(* Between two turns of a waiting language every other one gets at most    *)
(* one (_round_robin).                                                     *)
THEOREM FairService == Spec => []BoundedOvertaking
<1>1. Init => OvertakeInv
  BY DEF Init, SchedulerInit, OvertakeInv
<1>2. Inv /\ Inv' /\ OvertakeInv /\ [Next]_vars => OvertakeInv'
  BY OvertakeStep
<1>3. Inv /\ OvertakeInv => BoundedOvertaking
  <2> SUFFICES ASSUME Inv, OvertakeInv, NEW lang \in Languages
               PROVE  passedOver[lang] < Cardinality(Languages)
    BY DEF BoundedOvertaking
  <2>1. /\ roundRobin \in Seq(Languages) /\ passedOver[lang] \in Nat
        /\ Cardinality(Languages) \in Nat
    BY LanguagesAssumption, FS_CardinalityType DEF Inv, TypeOK
  <2>2. CASE queues[lang] = <<>>
    <3>1. Cardinality(Languages) # 0
      BY LanguagesAssumption, FS_EmptySet
    <3> QED
      BY <2>1, <2>2, <3>1 DEF OvertakeInv
  <2>3. CASE queues[lang] # <<>>
    <3>1. PICK i \in 1 .. Len(roundRobin) : roundRobin[i] = lang
      BY <2>3 DEF Inv, RoundRobinActive
    <3>2. passedOver[lang] + i <= Cardinality(Languages)
      BY <3>1 DEF OvertakeInv
    <3> QED
      BY <2>1, <3>2
  <2> QED
    BY <2>2, <2>3
<1> QED
  BY <1>1, <1>2, <1>3, Invariance, PTL DEF Spec

-----------------------------------------------------------------------------
(* The scheduler with its callers implements newest-revision delivery:     *)
(* what the audience sees is never overtaken or cleared text.              *)
THEOREM DeliversNewestRevision == Spec => DeliverySafety
<1>1. Init => Delivery!Init
  BY DEF Init, SchedulerInit, NoVersion, Delivery!Init, Delivery!Nothing
<1>2. Inv /\ [Next]_vars => [Delivery!Next]_(Delivery!vars)
  <2> SUFFICES ASSUME Inv, [Next]_vars
               PROVE  Delivery!Next \/ UNCHANGED <<latest, shown>>
    BY DEF Delivery!vars
  <2>1. /\ latest \in [Languages -> [Units -> Version]]
        /\ shown \in [Languages -> [Units -> Version]]
    BY DEF Inv, TypeOK
  <2>2. ASSUME NEW lang \in Languages, NEW unit \in Units,
               NEW rev \in Revisions, NEW final \in BOOLEAN,
               Submit(lang, unit, rev, final)
        PROVE  Delivery!Next \/ UNCHANGED <<latest, shown>>
    <3>1. shown' = shown /\ ~latest[lang][unit].final
          /\ rev > latest[lang][unit].rev
      BY <2>2 DEF Submit
    <3>2. \/ latest' = latest
          \/ latest' = [latest EXCEPT ![lang][unit] =
                            [rev |-> rev, final |-> final]]
      BY <2>2 DEF Submit, Enqueue, EnqueueWithRoom, EnqueueDroppingDraft,
                  EnqueueOverCapacity, RejectDraft, Accept, VersionOf
    <3>3. CASE latest' = [latest EXCEPT ![lang][unit] =
                            [rev |-> rev, final |-> final]]
      <4>1. Delivery!AcceptVersion(lang, unit)
        BY <3>1, <3>3 DEF Delivery!AcceptVersion
      <4> QED
        BY <4>1 DEF Delivery!Next
    <3> QED
      BY <3>1, <3>2, <3>3
  <2>3. CASE Take
    BY <2>3, TakenJob DEF PopAt
  <2>4. CASE Publish
    <3>1. /\ inFlight \in Job /\ latest' = latest
          /\ latest[inFlight.lang][inFlight.unit] = VersionOf(inFlight)
          /\ shown' = [shown EXCEPT ![inFlight.lang][inFlight.unit] =
                           VersionOf(inFlight)]
      BY <2>4 DEF Publish, Inv, TypeOK, IsCurrent, schedulerVars
    <3>2. inFlight.lang \in Languages /\ inFlight.unit \in Units
      BY <3>1 DEF Job
    <3>3. CASE shown[inFlight.lang][inFlight.unit] = VersionOf(inFlight)
      <4>1. shown' = shown
        BY <2>1, <3>1, <3>2, <3>3
      <4> QED
        BY <3>1, <4>1
    <3>4. CASE shown[inFlight.lang][inFlight.unit] # VersionOf(inFlight)
      <4>1. Delivery!Deliver(inFlight.lang, inFlight.unit)
        BY <3>1, <3>4 DEF Delivery!Deliver
      <4> QED
        BY <3>2, <4>1 DEF Delivery!Next
    <3> QED
      BY <3>3, <3>4
  <2>5. CASE DropStale
    BY <2>5 DEF DropStale, schedulerVars
  <2>6. CASE Clear
    <3>1. Delivery!Forget
      BY <2>6 DEF Clear, ClearScheduler, NoVersion, Delivery!Forget,
                  Delivery!Nothing
    <3> QED
      BY <3>1 DEF Delivery!Next
  <2>7. CASE UNCHANGED vars
    BY <2>7 DEF vars, schedulerVars
  <2> QED
    BY <2>2, <2>3, <2>4, <2>5, <2>6, <2>7 DEF Next
<1> QED
  BY <1>1, <1>2, Invariance, PTL DEF Spec, DeliverySafety, Delivery!Spec

=============================================================================
