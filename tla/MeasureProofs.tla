---------------------------- MODULE MeasureProofs ----------------------------
(***************************************************************************)
(* measure-rate, for any PGs, command line and interleaving of the queries  *)
(* with what Ceph does: each copy of the first sample is accounted for, a    *)
(* replay of the capture prints what the run printed, and, where a fraction  *)
(* is the share that has been copied, a rate is that of what arrived and the *)
(* reason given for none is what happened.                                   *)
(***************************************************************************)
EXTENDS MeasureRate, SumProofs

-----------------------------------------------------------------------------
(* The inductive invariant.                                                 *)

\* The times of what a sample holds.
TimesOf(s) == {s.time} \union {s.replies[p].time : p \in DOMAIN s.replies}

IsReply(r) == r = [positions |-> r.positions, time |-> r.time]

IsSeq(s) == s \in Seq(ToSet(s))

IsSample(s) ==
  s = [stats |-> s.stats, time |-> s.time, asked |-> s.asked, replies |-> s.replies,
       failed |-> s.failed, before |-> s.before, past |-> s.past]

SampleOk(s, a, now) ==
  /\ IsSample(s)
  /\ s.asked = Select(a, s.stats, HostOf)
  /\ DOMAIN s.past = DOMAIN s.replies \union s.failed
  /\ \A p \in DOMAIN s.replies : IsReply(s.replies[p])
  /\ \A t \in TimesOf(s) : t \in Int /\ t <= now

\* The PGs a sample has asked about have answered, or failed to, or are yet to.
AskedOk(s, left) ==
  /\ DOMAIN s.past \subseteq s.asked
  /\ s.asked \ DOMAIN s.past = left

Left(k) == IF k = Len(samples) THEN pending ELSE {}

StageInv ==
  /\ args \in Arguments
  /\ clock \in Int /\ wake \in Int
  /\ phase \in {"first", "querying", "waiting", "measured"}
  /\ phase # "querying" => pending = {}
  /\ Len(samples) = 0 <=> phase = "first"
  /\ phase = "waiting" => Len(samples) = 1
  /\ phase = "waiting" \/ Len(samples) = 2 => samples[1].asked # {}

SamplesInv ==
  /\ IsSeq(samples)
  /\ Len(samples) \in 0..2
  /\ \A k \in 1..Len(samples) : SampleOk(samples[k], args, clock) /\ AskedOk(samples[k], Left(k))

WakeInv ==
  /\ phase = "waiting" \/ Len(samples) = 2 => \A t \in TimesOf(samples[1]) : t + Interval <= wake
  /\ Len(samples) = 2 => \A t \in TimesOf(samples[2]) : wake <= t

MeasuredInv ==
  phase = "measured" =>
    /\ Len(samples) = 2 \/ samples[1].asked = {}
    /\ result = Plan(args, samples, HostOf)
    /\ capture = [k \in DOMAIN samples |-> SavedSample(samples[k], samples[1].time)]

SamplingInv == StageInv /\ SamplesInv /\ WakeInv /\ MeasuredInv

-----------------------------------------------------------------------------
(* The steps of a run.                                                      *)

LEMMA ElementsOf == ASSUME NEW S, NEW s \in Seq(S) PROVE IsSeq(s)
<1>1. PICK n : n = Len(s)
  OBVIOUS
<1>2. n \in Nat /\ s \in [1..n -> S]
  BY <1>1
<1>3. s \in [1..n -> ToSet(s)]
  BY <1>2 DEF ToSet
<1> QED
  BY <1>2, <1>3 DEF IsSeq

LEMMA AppendFacts ==
  ASSUME NEW s, IsSeq(s), NEW e
  PROVE  LET t == Append(s, e)
         IN  /\ IsSeq(t)
             /\ Len(t) = Len(s) + 1
             /\ \A k \in 1..Len(s) : t[k] = s[k]
             /\ t[Len(s) + 1] = e
             /\ Len(s) \in Nat
<1>1. PICK S : s \in Seq(S)
  BY DEF IsSeq
<1>2. PICK T : T = S \union {e}
  OBVIOUS
<1>3. s \in Seq(T) /\ e \in T
  BY <1>1, <1>2
<1>4. PICK t : t = Append(s, e)
  OBVIOUS
<1>5. t \in Seq(T) /\ Len(t) = Len(s) + 1 /\ t[Len(s) + 1] = e /\ Len(s) \in Nat
  BY <1>3, <1>4
<1>6. \A k \in 1..Len(s) : t[k] = s[k]
  BY <1>3, <1>4
<1>7. IsSeq(t)
  BY <1>5, ElementsOf
<1> QED
  BY <1>4, <1>5, <1>6, <1>7

Replaced(s, n, e) == [s EXCEPT ![n] = e]

LEMMA ReplaceFacts ==
  ASSUME NEW s, IsSeq(s), NEW n \in 1..Len(s), NEW e, NEW t, t = Replaced(s, n, e)
  PROVE  /\ IsSeq(t)
         /\ Len(t) = Len(s)
         /\ \A k \in (1..Len(s)) \ {n} : t[k] = s[k]
         /\ t[n] = e
<1>1. PICK S : s \in Seq(S)
  BY DEF IsSeq
<1>2. PICK T : T = S \union {e}
  OBVIOUS
<1>3. s \in Seq(T) /\ e \in T /\ DOMAIN s = 1..Len(s) /\ Len(s) \in Nat
  BY <1>1, <1>2
<1>5. DOMAIN t = 1..Len(s) /\ t[n] = e /\ \A k \in (1..Len(s)) \ {n} : t[k] = s[k]
  BY <1>3 DEF Replaced
<1>6. \A k \in 1..Len(s) : t[k] \in T
  BY <1>3, <1>5
<1>7. t = [k \in 1..Len(s) |-> t[k]]
  BY <1>3 DEF Replaced
<1>8. t \in [1..Len(s) -> T]
  BY <1>6, <1>7
<1>9. t \in Seq(T) /\ Len(t) = Len(s)
  BY <1>3, <1>5, <1>8
<1>10. IsSeq(t)
  BY <1>9, ElementsOf
<1> QED
  BY <1>5, <1>9, <1>10

\* The sample that Take adds.
LEMMA TakeFacts ==
  ASSUME SamplesInv, Take
  PROVE  LET n == Len(samples) + 1
         IN  /\ IsSeq(samples')
             /\ Len(samples') = n /\ n \in Nat
             /\ \A k \in 1..Len(samples) : samples'[k] = samples[k]
             /\ samples'[n] = [stats |-> Stats, time |-> clock, asked |-> pending',
                               replies |-> <<>>, failed |-> {}, before |-> past, past |-> <<>>]
             /\ pending' = Select(args, Stats, HostOf)
<1>1. PICK e : e = [stats |-> Stats, time |-> clock, asked |-> pending',
                    replies |-> <<>>, failed |-> {}, before |-> past, past |-> <<>>]
  OBVIOUS
<1>2. samples' = Append(samples, e) /\ pending' = Select(args, Stats, HostOf)
  BY <1>1 DEF Take
<1>3. IsSeq(samples)
  BY DEF SamplesInv
<1>4. PICK t : t = Append(samples, e)
  OBVIOUS
<1>5. /\ IsSeq(t)
      /\ Len(t) = Len(samples) + 1
      /\ \A k \in 1..Len(samples) : t[k] = samples[k]
      /\ t[Len(samples) + 1] = e
      /\ Len(samples) \in Nat
  BY <1>3, <1>4, AppendFacts
<1>6. Len(samples) + 1 \in Nat
  BY <1>5
<1> QED
  BY <1>1, <1>2, <1>4, <1>5, <1>6

\* The sample once a query has answered, or failed.
LEMMA ReplyFacts ==
  ASSUME SamplesInv, StageInv, NEW p, NEW sample, Reply(p, sample), IsSample(sample)
  PROVE  LET n == Len(samples)
             new == samples'[n]
         IN  /\ IsSeq(samples')
             /\ Len(samples') = n /\ n \in 1..2
             /\ \A k \in (1..n) \ {n} : samples'[k] = samples[k]
             /\ new = [stats |-> sample.stats, time |-> sample.time, asked |-> sample.asked,
                       replies |-> sample.replies, failed |-> sample.failed,
                       before |-> sample.before, past |-> Also(sample.past, p, past)]
             /\ p \in pending
             /\ pending' = pending \ {p}
<1>1. PICK n : n = Len(samples)
  OBVIOUS
<1>2. PICK e : e = [sample EXCEPT !.past = Also(@, p, past)]
  OBVIOUS
<1>3. phase = "querying" /\ p \in pending /\ pending' = pending \ {p}
  BY DEF Reply
<1>4. n \in 0..2 /\ n # 0
  BY <1>1, <1>3 DEF SamplesInv, StageInv
<1>5. n \in 1..2 /\ n \in 1..Len(samples)
  BY <1>1, <1>4
<1>7. samples' = [samples EXCEPT ![n] = e]
  BY <1>1, <1>2 DEF Reply
<1>8. PICK t : t = [samples EXCEPT ![n] = e]
  OBVIOUS
<1>9. /\ IsSeq(t)
      /\ Len(t) = Len(samples)
      /\ \A k \in (1..Len(samples)) \ {n} : t[k] = samples[k]
      /\ t[n] = e
  <2>1. PICK s : s = samples
    OBVIOUS
  <2>2. IsSeq(s) /\ n \in 1..Len(s) /\ t = Replaced(s, n, e)
    BY <2>1, <1>5, <1>8 DEF SamplesInv, Replaced
  <2>3. /\ IsSeq(t)
        /\ Len(t) = Len(s)
        /\ \A k \in (1..Len(s)) \ {n} : t[k] = s[k]
        /\ t[n] = e
    BY <2>2, ReplaceFacts
  <2> QED
    BY <2>1, <2>3
<1>10. e = [stats |-> sample.stats, time |-> sample.time, asked |-> sample.asked,
            replies |-> sample.replies, failed |-> sample.failed,
            before |-> sample.before, past |-> Also(sample.past, p, past)]
  BY <1>2 DEF IsSample
<1> QED
  BY <1>1, <1>3, <1>5, <1>7, <1>8, <1>9, <1>10

-----------------------------------------------------------------------------
(* The invariant holds.                                                     *)

LEMMA InitSampling == Init => SamplingInv
<1> SUFFICES ASSUME Init PROVE SamplingInv
  OBVIOUS
<1>1. IsSeq(samples) /\ Len(samples) = 0
  <2>1. samples \in Seq({}) /\ Len(samples) = 0
    BY DEF Init
  <2> QED
    BY <2>1, ElementsOf
<1>2. StageInv
  BY <1>1 DEF Init, StageInv
<1> QED
  BY <1>1, <1>2 DEF Init, SamplesInv, WakeInv, MeasuredInv, SamplingInv

\* As time goes by a sample stays as it should be.
LEMMA SampleKeeps ==
  ASSUME NEW s, NEW a, NEW t \in Int, NEW u \in Int, t <= u, SampleOk(s, a, t)
  PROVE  SampleOk(s, a, u)
BY DEF SampleOk

\* So do all when none is added to.
LEMMA SamplesKeep ==
  ASSUME SamplesInv, samples' = samples, args' = args, pending' = pending,
         clock \in Int, clock' \in Int, clock <= clock'
  PROVE  SamplesInv'
<1>1. ASSUME NEW k \in 1..Len(samples')
      PROVE  SampleOk(samples'[k], args', clock') /\ AskedOk(samples'[k], Left(k)')
  <2>1. SampleOk(samples[k], args, clock) /\ AskedOk(samples[k], Left(k))
    BY <1>1 DEF SamplesInv
  <2>2. Left(k)' = Left(k)
    BY DEF Left
  <2> QED
    BY <2>1, <2>2, SampleKeeps
<1>2. IsSeq(samples') /\ Len(samples') \in 0..2
  BY DEF SamplesInv
<1> QED
  BY <1>1, <1>2 DEF SamplesInv

\* What Ceph does, and the passing of time.
LEMMA CephSampling ==
  ASSUME SamplingInv, UNCHANGED tool, clock' \in Int, clock <= clock'
  PROVE  SamplingInv'
<1>1. StageInv /\ SamplesInv /\ WakeInv /\ MeasuredInv
  BY DEF SamplingInv
<1>2. /\ phase' = phase /\ args' = args /\ samples' = samples /\ pending' = pending
      /\ wake' = wake /\ capture' = capture /\ result' = result
  BY DEF tool
<1>3. StageInv'
  BY <1>1, <1>2 DEF StageInv
<1>4. SamplesInv'
  BY <1>1, <1>2, SamplesKeep DEF StageInv
<1>5. WakeInv'
  BY <1>1, <1>2 DEF WakeInv
<1>6. MeasuredInv'
  BY <1>1, <1>2 DEF MeasuredInv
<1> QED
  BY <1>3, <1>4, <1>5, <1>6 DEF SamplingInv

LEMMA TakeSampling == SamplingInv /\ Take => SamplingInv'
<1> SUFFICES ASSUME SamplingInv, Take PROVE SamplingInv'
  OBVIOUS
<1>1. StageInv /\ SamplesInv /\ WakeInv
  BY DEF SamplingInv
<1>2. PICK n : n = Len(samples) + 1
  OBVIOUS
<1>3. PICK new : new = [stats |-> Stats, time |-> clock, asked |-> pending',
                        replies |-> <<>>, failed |-> {}, before |-> past, past |-> <<>>]
  OBVIOUS
<1>4. /\ IsSeq(samples')
      /\ Len(samples') = n /\ n \in Nat
      /\ \A k \in 1..Len(samples) : samples'[k] = samples[k]
      /\ samples'[n] = new
      /\ pending' = Select(args, Stats, HostOf)
  BY <1>1, <1>2, <1>3, TakeFacts
<1>5. /\ phase' = "querying" /\ phase \in {"first", "waiting"}
      /\ phase = "waiting" => clock >= wake
      /\ args' = args /\ clock' = clock /\ wake' = wake
  BY DEF Take
<1>6. /\ phase = "first" => Len(samples) = 0 /\ n = 1
      /\ phase = "waiting" => Len(samples) = 1 /\ n = 2 /\ samples'[1] = samples[1]
      /\ pending = {} /\ clock \in Int
  BY <1>1, <1>2, <1>4, <1>5 DEF StageInv
<1>7. DOMAIN new.replies = {} /\ DOMAIN new.past = {} /\ new.failed = {}
  BY <1>3
<1>8. TimesOf(new) = {clock}
  BY <1>3, <1>7 DEF TimesOf
<1>9. SampleOk(new, args, clock) /\ AskedOk(new, pending')
  <2>1. new.asked = pending' /\ new.stats = Stats
    BY <1>3
  <2>2. new.asked = Select(args, new.stats, HostOf)
    BY <2>1, <1>4
  <2>3. new = [stats |-> new.stats, time |-> new.time, asked |-> new.asked, replies |-> new.replies,
               failed |-> new.failed, before |-> new.before, past |-> new.past]
    BY <1>3
  <2> QED
    BY <2>1, <2>2, <2>3, <1>6, <1>7, <1>8 DEF SampleOk, AskedOk, IsSample
<1>10. StageInv'
  BY <1>1, <1>4, <1>5, <1>6 DEF StageInv
<1>11. SamplesInv'
  <2>1. Len(samples') \in 0..2
    BY <1>4, <1>5, <1>6
  <2>2. ASSUME NEW k \in 1..Len(samples')
        PROVE  SampleOk(samples'[k], args', clock') /\ AskedOk(samples'[k], Left(k)')
    <3>1. CASE k = n
      BY <3>1, <1>4, <1>5, <1>9 DEF Left
    <3>2. CASE k # n
      <4>1. k = 1 /\ n = 2 /\ Len(samples) = 1 /\ samples'[k] = samples[k]
        BY <3>2, <2>2, <1>4, <1>5, <1>6
      <4>2. SampleOk(samples[k], args, clock) /\ AskedOk(samples[k], Left(k))
        BY <4>1, <1>1 DEF SamplesInv
      <4>3. Left(k) = {} /\ Left(k)' = {}
        BY <4>1, <1>4, <1>6 DEF Left
      <4> QED
        BY <4>1, <4>2, <4>3, <1>5
    <3> QED
      BY <3>1, <3>2
  <2> QED
    BY <2>1, <2>2, <1>4 DEF SamplesInv
<1>12. WakeInv'
  <2>1. CASE phase = "first"
    BY <2>1, <1>4, <1>5, <1>6 DEF WakeInv
  <2>2. CASE phase = "waiting"
    BY <2>2, <1>1, <1>4, <1>5, <1>6, <1>8 DEF WakeInv
  <2> QED
    BY <2>1, <2>2, <1>5
<1>13. MeasuredInv'
  BY <1>5 DEF MeasuredInv
<1> QED
  BY <1>10, <1>11, <1>12, <1>13 DEF SamplingInv

\* What comes of the query of a PG.
Answer(old, sample, p) ==
  /\ IsSample(sample)
  /\ sample.stats = old.stats /\ sample.time = old.time /\ sample.asked = old.asked
  /\ sample.before = old.before /\ sample.past = old.past
  /\ \/ /\ sample.failed = old.failed
        /\ \E r : IsReply(r) /\ r.time = clock /\ sample.replies = Also(old.replies, p, r)
     \/ sample.failed = old.failed \union {p} /\ sample.replies = old.replies

LEMMA QueryFacts ==
  ASSUME SamplingInv, NEW p
  PROVE  LET old == samples[Len(samples)]
             reply == [positions |-> PositionsOf(p, pgs[p]), time |-> clock]
         IN  /\ Query(p) =>
                  \E sample : /\ Reply(p, sample) /\ Answer(old, sample, p)
                             /\ sample.replies = Also(old.replies, p, reply)
             /\ QueryFails(p) =>
                  \E sample : /\ Reply(p, sample) /\ Answer(old, sample, p)
                             /\ sample.replies = old.replies
<1>1. PICK n, old : n = Len(samples) /\ old = samples[n]
  OBVIOUS
<1>2. PICK reply : reply = [positions |-> PositionsOf(p, pgs[p]), time |-> clock]
  OBVIOUS
<1>3. StageInv /\ SamplesInv /\ Last(samples) = old
  BY <1>1 DEF SamplingInv, Last
<1>4. ASSUME phase = "querying" PROVE IsSample(old)
  <2>1. n \in 1..Len(samples)
    BY <1>1, <1>3, <1>4 DEF StageInv, SamplesInv
  <2> QED
    BY <2>1, <1>1, <1>3 DEF SamplesInv, SampleOk
<1>5. PICK st, ti, as, re, fa, be, pa :
         /\ st = old.stats /\ ti = old.time /\ as = old.asked /\ re = old.replies
         /\ fa = old.failed /\ be = old.before /\ pa = old.past
  OBVIOUS
<1>8. IsSample(old) => old = [stats |-> st, time |-> ti, asked |-> as, replies |-> re,
                              failed |-> fa, before |-> be, past |-> pa]
  BY <1>5 DEF IsSample
<1>6. ASSUME Query(p)
      PROVE  \E sample : /\ Reply(p, sample) /\ Answer(old, sample, p)
                         /\ sample.replies = Also(old.replies, p, reply)
  <2>1. PICK sample : sample = [old EXCEPT !.replies = Also(@, p, reply)]
    OBVIOUS
  <2>2. Reply(p, sample)
    BY <2>1, <1>2, <1>3, <1>6 DEF Query
  <2>3. IsSample(old)
    BY <2>2, <1>4 DEF Reply
  <2>4. /\ sample = [stats |-> st, time |-> ti, asked |-> as, replies |-> Also(re, p, reply),
                     failed |-> fa, before |-> be, past |-> pa]
        /\ sample.replies = Also(old.replies, p, reply)
    BY <2>1, <2>3, <1>5, <1>8
  <2>5. IsReply(reply) /\ reply.time = clock
    BY <1>2 DEF IsReply
  <2>6. /\ IsSample(sample)
        /\ sample.stats = old.stats /\ sample.time = old.time /\ sample.asked = old.asked
        /\ sample.before = old.before /\ sample.past = old.past /\ sample.failed = old.failed
    BY <2>4, <1>5 DEF IsSample
  <2>7. Answer(old, sample, p)
    BY <2>4, <2>5, <2>6 DEF Answer
  <2> QED
    BY <2>2, <2>4, <2>7
<1>7. ASSUME QueryFails(p)
      PROVE  \E sample : /\ Reply(p, sample) /\ Answer(old, sample, p)
                         /\ sample.replies = old.replies
  <2>1. PICK sample : sample = [old EXCEPT !.failed = @ \union {p}]
    OBVIOUS
  <2>2. Reply(p, sample)
    BY <2>1, <1>3, <1>7 DEF QueryFails
  <2>3. IsSample(old)
    BY <2>2, <1>4 DEF Reply
  <2>4. sample = [stats |-> st, time |-> ti, asked |-> as, replies |-> re,
                  failed |-> fa \union {p}, before |-> be, past |-> pa]
    BY <2>1, <2>3, <1>5, <1>8
  <2>6. /\ IsSample(sample)
        /\ sample.stats = old.stats /\ sample.time = old.time /\ sample.asked = old.asked
        /\ sample.before = old.before /\ sample.past = old.past
        /\ sample.failed = old.failed \union {p} /\ sample.replies = old.replies
    BY <2>4, <1>5 DEF IsSample
  <2>7. Answer(old, sample, p)
    BY <2>6 DEF Answer
  <2> QED
    BY <2>2, <2>6, <2>7
<1> QED
  BY <1>1, <1>2, <1>6, <1>7

LEMMA ReplySampling ==
  ASSUME SamplingInv, NEW p, NEW sample, Reply(p, sample), Answer(samples[Len(samples)], sample, p)
  PROVE  SamplingInv'
<1>1. StageInv /\ SamplesInv /\ WakeInv
  BY DEF SamplingInv
<1>2. PICK n, old : n = Len(samples) /\ old = samples[n]
  OBVIOUS
<1>3. PICK new : new = [stats |-> sample.stats, time |-> sample.time, asked |-> sample.asked,
                        replies |-> sample.replies, failed |-> sample.failed,
                        before |-> sample.before, past |-> Also(sample.past, p, past)]
  OBVIOUS
<1>a. Answer(old, sample, p)
  BY <1>2
<1>4. /\ IsSeq(samples')
      /\ Len(samples') = n /\ n \in 1..2
      /\ \A k \in (1..n) \ {n} : samples'[k] = samples[k]
      /\ samples'[n] = new
      /\ p \in pending
      /\ pending' = pending \ {p}
  <2>1. IsSample(sample)
    BY <1>a DEF Answer
  <2> QED
    BY <2>1, <1>1, <1>2, <1>3, ReplyFacts
<1>5. /\ phase = "querying" /\ phase' = phase
      /\ args' = args /\ clock' = clock /\ wake' = wake
  BY DEF Reply
<1>6. SampleOk(old, args, clock) /\ AskedOk(old, pending)
  BY <1>1, <1>2, <1>4 DEF SamplesInv, Left
<1>b. /\ new.asked = old.asked /\ new.stats = old.stats /\ new.time = old.time
      /\ new.failed = sample.failed /\ new.replies = sample.replies
      /\ new.past = Also(old.past, p, past)
      /\ IsSample(new)
  BY <1>3, <1>a DEF Answer, IsSample
<1>7. /\ DOMAIN new.past = {p} \union DOMAIN old.past
      /\ DOMAIN new.replies \union new.failed = {p} \union DOMAIN old.replies \union old.failed
      /\ \A q \in DOMAIN new.replies :
           IsReply(new.replies[q]) /\ (new.replies[q].time = clock \/ new.replies[q].time \in TimesOf(old))
  <2>1. DOMAIN new.past = {p} \union DOMAIN old.past
    BY <1>b DEF Also
  <2>2. \A q \in DOMAIN old.replies : IsReply(old.replies[q]) /\ old.replies[q].time \in TimesOf(old)
    BY <1>6 DEF SampleOk, TimesOf
  <2>3. CASE sample.failed = old.failed \union {p} /\ sample.replies = old.replies
    BY <2>1, <2>2, <2>3, <1>b
  <2>4. CASE /\ sample.failed = old.failed
             /\ \E r : IsReply(r) /\ r.time = clock /\ sample.replies = Also(old.replies, p, r)
    <3>1. PICK r : IsReply(r) /\ r.time = clock /\ new.replies = Also(old.replies, p, r)
      BY <2>4, <1>b
    <3>2. /\ DOMAIN new.replies = {p} \union DOMAIN old.replies
          /\ new.replies[p] = r
          /\ \A q \in DOMAIN old.replies : q # p => new.replies[q] = old.replies[q]
      BY <3>1 DEF Also
    <3> QED
      BY <3>1, <3>2, <2>1, <2>2, <2>4, <1>b
  <2> QED
    BY <2>3, <2>4, <1>a DEF Answer
<1>9. \A t \in TimesOf(new) : t = clock \/ t \in TimesOf(old)
  BY <1>b, <1>7 DEF TimesOf
<1>10. clock \in Int
  BY <1>1 DEF StageInv
<1>11. SampleOk(new, args, clock) /\ AskedOk(new, pending')
  <2>2. \A t \in TimesOf(new) : t \in Int /\ t <= clock
    BY <1>6, <1>9, <1>10 DEF SampleOk
  <2>3. DOMAIN new.past = DOMAIN new.replies \union new.failed
    BY <1>6, <1>7 DEF SampleOk
  <2>4. AskedOk(new, pending')
    BY <1>b, <1>4, <1>6, <1>7 DEF AskedOk
  <2>5. new.asked = Select(args, new.stats, HostOf)
    BY <1>b, <1>6 DEF SampleOk
  <2> QED
    BY <2>2, <2>3, <2>4, <2>5, <1>7, <1>b DEF SampleOk
<1>12. StageInv'
  <2>1. samples'[1].asked = samples[1].asked
    <3>1. CASE n = 1
      BY <3>1, <1>2, <1>4, <1>b
    <3>2. CASE n # 1
      BY <3>2, <1>4
    <3> QED
      BY <3>1, <3>2
  <2> QED
    BY <2>1, <1>1, <1>2, <1>4, <1>5 DEF StageInv
<1>13. SamplesInv'
  <2>1. ASSUME NEW k \in 1..Len(samples')
        PROVE  SampleOk(samples'[k], args', clock') /\ AskedOk(samples'[k], Left(k)')
    <3>1. CASE k = n
      BY <3>1, <1>4, <1>5, <1>11 DEF Left
    <3>2. CASE k # n
      <4>1. k \in 1..Len(samples) /\ samples'[k] = samples[k]
        BY <3>2, <2>1, <1>2, <1>4
      <4>2. SampleOk(samples[k], args, clock) /\ AskedOk(samples[k], Left(k))
        BY <4>1, <1>1 DEF SamplesInv
      <4>3. Left(k) = {} /\ Left(k)' = {}
        BY <3>2, <1>2, <1>4 DEF Left
      <4> QED
        BY <4>1, <4>2, <4>3, <1>5
    <3> QED
      BY <3>1, <3>2
  <2>2. Len(samples') \in 0..2
    BY <1>4
  <2> QED
    BY <2>1, <2>2, <1>4 DEF SamplesInv
<1>14. WakeInv'
  <2>1. CASE n = 1
    BY <2>1, <1>4, <1>5 DEF WakeInv
  <2>2. CASE n = 2
    <3>1. \A t \in TimesOf(samples[2]) : wake <= t
      BY <2>2, <1>1, <1>2 DEF WakeInv
    <3>2. wake <= clock
      <4>1. old.time \in TimesOf(old) /\ wake <= old.time /\ old.time <= clock /\ old.time \in Int
        BY <3>1, <2>2, <1>2, <1>6 DEF TimesOf, SampleOk
      <4>2. wake \in Int
        BY <1>1 DEF StageInv
      <4> QED
        BY <4>1, <4>2, <1>10
    <3>3. \A t \in TimesOf(new) : wake <= t
      BY <3>1, <3>2, <2>2, <1>2, <1>9
    <3>4. samples'[1] = samples[1]
      BY <2>2, <1>4
    <3>5. \A t \in TimesOf(samples[1]) : t + Interval <= wake
      BY <2>2, <1>1, <1>2 DEF WakeInv
    <3> QED
      BY <3>3, <3>4, <3>5, <2>2, <1>4, <1>5 DEF WakeInv
  <2> QED
    BY <2>1, <2>2, <1>4
<1>15. MeasuredInv'
  BY <1>5 DEF MeasuredInv
<1> QED
  BY <1>12, <1>13, <1>14, <1>15 DEF SamplingInv

LEMMA QuerySampling ==
  ASSUME SamplingInv, NEW p, Query(p) \/ QueryFails(p)
  PROVE  SamplingInv'
BY QueryFacts, ReplySampling

LEMMA WaitSampling == SamplingInv /\ Wait => SamplingInv'
<1> SUFFICES ASSUME SamplingInv, Wait PROVE SamplingInv'
  OBVIOUS
<1>1. StageInv /\ SamplesInv
  BY DEF SamplingInv
<1>2. /\ phase' = "waiting" /\ pending = {} /\ pending' = pending
      /\ Len(samples) = 1 /\ samples[1].asked # {} /\ samples' = samples
      /\ wake' = clock + Interval /\ clock' = clock /\ args' = args
  BY DEF Wait, WakeTime
<1>3. clock \in Int /\ Interval \in Int
  BY <1>1, MeasureTyped DEF StageInv
<1>4. StageInv'
  BY <1>1, <1>2, <1>3 DEF StageInv
<1>5. SamplesInv'
  BY <1>1, <1>2, <1>3, SamplesKeep
<1>6. WakeInv'
  <2>1. \A t \in TimesOf(samples[1]) : t \in Int /\ t <= clock
    BY <1>1, <1>2 DEF SamplesInv, SampleOk
  <2> QED
    BY <2>1, <1>2, <1>3 DEF WakeInv
<1>7. MeasuredInv'
  BY <1>2 DEF MeasuredInv
<1> QED
  BY <1>4, <1>5, <1>6, <1>7 DEF SamplingInv

LEMMA MeasureSampling == SamplingInv /\ Measure => SamplingInv'
<1> SUFFICES ASSUME SamplingInv, Measure PROVE SamplingInv'
  OBVIOUS
<1>1. StageInv /\ SamplesInv /\ WakeInv
  BY DEF SamplingInv
<1>2. /\ phase = "querying" /\ phase' = "measured" /\ pending = {} /\ pending' = pending
      /\ Len(samples) = 2 \/ samples[1].asked = {}
      /\ samples' = samples /\ wake' = wake /\ clock' = clock /\ args' = args
  BY DEF Measure
<1>3. StageInv'
  BY <1>1, <1>2 DEF StageInv
<1>4. SamplesInv'
  BY <1>1, <1>2, SamplesKeep DEF StageInv
<1>5. WakeInv'
  BY <1>1, <1>2 DEF WakeInv
<1>6. MeasuredInv'
  <2>1. /\ result' = Plan(args, samples, HostOf)
        /\ capture' = [k \in DOMAIN samples |-> SavedSample(samples[k], samples[1].time)]
    BY DEF Measure
  <2> QED
    BY <2>1, <1>2 DEF MeasuredInv
<1> QED
  BY <1>3, <1>4, <1>5, <1>6 DEF SamplingInv

\* Ceph's steps and the clock's leave the run as it is.
LEMMA ElsewhereFacts ==
  /\ Change => UNCHANGED <<tool, clock>>
  /\ Tick => UNCHANGED <<tool, cluster>> /\ clock' = clock + 1
<1>1. ASSUME NEW p, NEW pg, Changed(p, pg) PROVE UNCHANGED <<tool, clock>>
  BY <1>1 DEF Changed
<1>2. ASSUME Change PROVE UNCHANGED <<tool, clock>>
  BY <1>1, <1>2 DEF Change, Finish, Switch, Copy, Restart, Retarget
<1> QED
  BY <1>2 DEF Tick

LEMMA NextSampling == SamplingInv /\ [Next]_vars => SamplingInv'
<1> SUFFICES ASSUME SamplingInv, [Next]_vars PROVE SamplingInv'
  OBVIOUS
<1>1. clock \in Int
  BY DEF SamplingInv, StageInv
<1>2. CASE Take
  BY <1>2, TakeSampling
<1>3. CASE Wait
  BY <1>3, WaitSampling
<1>4. CASE Measure
  BY <1>4, MeasureSampling
<1>5. CASE \E p \in Pg : Query(p) \/ QueryFails(p)
  BY <1>5, QuerySampling
<1>6. CASE Change
  BY <1>6, <1>1, ElsewhereFacts, CephSampling
<1>7. CASE Tick
  BY <1>7, <1>1, ElsewhereFacts, CephSampling
<1>8. CASE UNCHANGED vars
  BY <1>8, <1>1, CephSampling DEF vars, tool
<1> QED
  BY <1>2, <1>3, <1>4, <1>5, <1>6, <1>7, <1>8 DEF Next, Run

LEMMA Sampling == Spec => []SamplingInv
<1> QED
  BY InitSampling, NextSampling, PTL DEF Spec

-----------------------------------------------------------------------------
(* The rows of a sample.                                                    *)

\* All that could be copies.
Copies == {<<x[1], x[2][2], x[2][1]>> : x \in Places}

Peer(c) == <<c[3], c[2]>>

Home(c) == <<c[1], Peer(c)>>

\* The filter of a command line lets a copy through.
Passes(a, hostOf, c) ==
  /\ a.pgs = {} \/ c[1] \in a.pgs
  /\ a.osds = {} \/ c[3] \in a.osds
  /\ a.hosts = {} \/ hostOf[c[3]] \in a.hosts

Visible(a, stats, c) == a.all \/ stats[c[1]].active

RowsOf(a, stats, hostOf) == Shown(a, stats, Movements(a, stats, hostOf))

LEMMA CopiesFacts ==
  /\ \A c \in Copies : c = <<c[1], c[2], c[3]>> /\ c[1] \in Pg /\ c[3] \in Osd /\ Home(c) \in Places
  /\ \A p \in Pg : \A peer \in Peers(p) : <<p, peer>> \in Places
<1>1. \A p \in Pg : \A peer \in Peers(p) : <<p, peer>> \in Places
  BY DEF Places
<1>2. ASSUME NEW x \in Places
      PROVE  x = <<x[1], <<x[2][1], x[2][2]>>>> /\ x[1] \in Pg /\ x[2][1] \in Osd
  <2>1. PICK p \in Pg : x \in {p} \X Peers(p)
    BY DEF Places
  <2>2. PICK peer \in Peers(p) : x = <<p, peer>>
    BY <2>1
  <2>3. peer = <<peer[1], peer[2]>> /\ peer[1] \in Osd
    BY DEF Peers
  <2> QED
    BY <2>2, <2>3
<1>3. ASSUME NEW c \in Copies
      PROVE  c = <<c[1], c[2], c[3]>> /\ c[1] \in Pg /\ c[3] \in Osd /\ Home(c) \in Places
  <2>1. PICK x \in Places : c = <<x[1], x[2][2], x[2][1]>>
    BY DEF Copies
  <2>2. c[1] = x[1] /\ c[2] = x[2][2] /\ c[3] = x[2][1]
    BY <2>1
  <2>3. x = <<x[1], <<x[2][1], x[2][2]>>>> /\ x[1] \in Pg /\ x[2][1] \in Osd
    BY <1>2
  <2>4. Home(c) = x
    BY <2>2, <2>3 DEF Home, Peer
  <2> QED
    BY <2>1, <2>2, <2>3, <2>4
<1> QED
  BY <1>1, <1>3

LEMMA CopiesFinite == IsFiniteSet(Copies)
<1>1. IsFiniteSet(Osd) /\ IsFiniteSet(Pg)
  BY MeasureTyped
<1>2. IsFiniteSet(Shard) /\ IsFiniteSet({0})
  <2>1. IsFiniteSet(Shard)
    <3>1. IsFiniteSet({1} \union {2})
      BY FS_Singleton, FS_Union
    <3>2. Shard = {1} \union {2}
      BY DEF Shard
    <3> QED
      BY <3>1, <3>2
  <2> QED
    BY <2>1, FS_Singleton
<1>3. ASSUME NEW p \in Pg PROVE IsFiniteSet({p} \X Peers(p))
  <2>1. IsFiniteSet(Peers(p))
    BY <1>1, <1>2, FS_Product DEF Peers
  <2> QED
    BY <2>1, FS_Singleton, FS_Product
<1>4. PICK at : at = [p \in Pg |-> {p} \X Peers(p)]
  OBVIOUS
<1>5. PICK Q : Q = {at[p] : p \in Pg}
  OBVIOUS
<1>6. IsFiniteSet(Q)
  <2>1. at \in Surjection(Pg, Q)
    BY <1>4, <1>5 DEF Surjection
  <2> QED
    BY <2>1, <1>1, FS_Surjection
<1>7. IsFiniteSet(UNION Q)
  BY <1>3, <1>4, <1>5, <1>6, FS_UNION
<1>8. UNION Q = Places
  BY <1>4, <1>5 DEF Places
<1>9. PICK of : of = [x \in Places |-> <<x[1], x[2][2], x[2][1]>>]
  OBVIOUS
<1>10. of \in Surjection(Places, Copies)
  BY <1>9 DEF Surjection, Copies
<1> QED
  BY <1>7, <1>8, <1>10, FS_Surjection

\* What find_movements finds.
LEMMA MovementsAre ==
  ASSUME NEW a, NEW stats, NEW hostOf
  PROVE  Movements(a, stats, hostOf)
           = {c \in Copies : Peer(c) \in Targets(c[1], stats[c[1]]) /\ Passes(a, hostOf, c)}
<1> DEFINE Good(x) == /\ x[2] \in Targets(x[1], stats[x[1]])
                      /\ a.pgs = {} \/ x[1] \in a.pgs
                      /\ a.osds = {} \/ x[2][1] \in a.osds
                      /\ a.hosts = {} \/ hostOf[x[2][1]] \in a.hosts
           of(x) == <<x[1], x[2][2], x[2][1]>>
<1>1. Movements(a, stats, hostOf) = {of(x) : x \in {y \in Places : Good(y)}}
  BY DEF Movements
<1>2. ASSUME NEW x \in Places
      PROVE  Good(x) <=> Peer(of(x)) \in Targets(of(x)[1], stats[of(x)[1]]) /\ Passes(a, hostOf, of(x))
  <2>1. x[2] = <<x[2][1], x[2][2]>>
    BY DEF Places, Peers
  <2>2. of(x)[1] = x[1] /\ of(x)[2] = x[2][2] /\ of(x)[3] = x[2][1] /\ Peer(of(x)) = x[2]
    BY <2>1 DEF Peer
  <2> QED
    BY <2>2 DEF Passes
<1>3. Copies = {of(x) : x \in Places}
  BY DEF Copies
<1> HIDE DEF Good, of
<1> QED
  BY <1>1, <1>2, <1>3

LEMMA RowsFacts ==
  ASSUME NEW a, NEW stats, NEW hostOf
  PROVE  /\ RowsOf(a, stats, hostOf) \subseteq Movements(a, stats, hostOf)
         /\ Movements(a, stats, hostOf) \subseteq Copies
         /\ IsFiniteSet(RowsOf(a, stats, hostOf))
         /\ Select(a, stats, hostOf) = {c[1] : c \in RowsOf(a, stats, hostOf)}
         /\ \A c \in Copies :
              c \in RowsOf(a, stats, hostOf) <=> /\ Peer(c) \in Targets(c[1], stats[c[1]])
                                                /\ Passes(a, hostOf, c)
                                                /\ Visible(a, stats, c)
<1>1. /\ RowsOf(a, stats, hostOf) \subseteq Movements(a, stats, hostOf)
      /\ Select(a, stats, hostOf) = {c[1] : c \in RowsOf(a, stats, hostOf)}
  BY DEF RowsOf, Shown, Select
<1>2. Movements(a, stats, hostOf) \subseteq Copies
  BY MovementsAre
<1>3. IsFiniteSet(RowsOf(a, stats, hostOf))
  BY <1>1, <1>2, CopiesFinite, FS_Subset
<1>4. ASSUME NEW c \in Copies
      PROVE  c \in RowsOf(a, stats, hostOf) <=> /\ Peer(c) \in Targets(c[1], stats[c[1]])
                                               /\ Passes(a, hostOf, c)
                                               /\ Visible(a, stats, c)
  <2>1. c \in RowsOf(a, stats, hostOf) <=>
          c \in Movements(a, stats, hostOf) /\ Visible(a, stats, c)
    BY DEF RowsOf, Shown, Visible
  <2>2. c \in Movements(a, stats, hostOf) <=>
          Peer(c) \in Targets(c[1], stats[c[1]]) /\ Passes(a, hostOf, c)
    <3>1. Movements(a, stats, hostOf)
            = {d \in Copies : Peer(d) \in Targets(d[1], stats[d[1]]) /\ Passes(a, hostOf, d)}
      BY MovementsAre
    <3> QED
      BY <3>1
  <2> QED
    BY <2>1, <2>2
<1> QED
  BY <1>1, <1>2, <1>3, <1>4

-----------------------------------------------------------------------------
(* Each copy is accounted for.                                              *)

LEMMA CardinalityIsSum ==
  ASSUME NEW S, IsFiniteSet(S), NEW f, \A x \in S : f[x] = 1
  PROVE  SumFunctionOnSet(f, S) = Cardinality(S)
<1> DEFINE E == {T \in SUBSET S : SumFunctionOnSet(f, T) = Cardinality(T)}
<1>1. ASSUME NEW T \in SUBSET S, \A U \in (SUBSET T) \ {T} : U \in E
      PROVE  T \in E
  <2>1. CASE T = {}
    BY <2>1, SumEmpty, FS_EmptySet
  <2>2. CASE T # {}
    <3>1. PICK x \in T : TRUE
      BY <2>2
    <3>2. IsFiniteSet(T) /\ \A y \in T : f[y] \in Int
      BY FS_Subset
    <3>3. SumFunctionOnSet(f, T) = f[x] + SumFunctionOnSet(f, T \ {x})
      BY <3>1, <3>2, SumTakesOut
    <3>4. SumFunctionOnSet(f, T \ {x}) = Cardinality(T \ {x})
      BY <1>1, <3>1
    <3>5. Cardinality(T \ {x}) = Cardinality(T) - 1 /\ Cardinality(T) \in Nat
      BY <3>1, <3>2, FS_RemoveElement, FS_CardinalityType
    <3>6. f[x] = 1
      BY <3>1
    <3> QED
      BY <3>3, <3>4, <3>5, <3>6
  <2> QED
    BY <2>1, <2>2
<1>2. \A T \in SUBSET S : T \in E
  <2> HIDE DEF E
  <2> QED
    BY <1>1, SubsetInduction
<1> QED
  BY <1>2

CopiesOf(flows) == [k \in DOMAIN flows |-> flows[k].copies]

\* The sums per OSD or host count each row once.
LEMMA FlowsAddUp ==
  ASSUME NEW rows, IsFiniteSet(DOMAIN rows), NEW keyOf
  PROVE  SumFunction(CopiesOf(Flows(rows, keyOf))) = Cardinality(DOMAIN rows)
<1>1. PICK S, K, A, f, g :
        /\ S = DOMAIN rows
        /\ K = {keyOf[c[3]] : c \in S}
        /\ A = [k \in K |-> {c \in S : keyOf[c[3]] = k}]
        /\ f = [c \in S |-> 1]
        /\ g = [k \in K |-> Cardinality(A[k])]
  OBVIOUS
<1>2. IsFiniteSet(S) /\ \A k \in K : A[k] \subseteq S /\ IsFiniteSet(A[k])
  BY <1>1, FS_Subset
<1>3. IsFiniteSet(K)
  <2>1. PICK h : h = [c \in S |-> keyOf[c[3]]]
    OBVIOUS
  <2>2. h \in Surjection(S, K)
    BY <2>1, <1>1 DEF Surjection
  <2> QED
    BY <2>2, <1>2, FS_Surjection
<1>4. \A k \in K : g[k] = SumFunctionOnSet(f, A[k])
  BY <1>1, <1>2, CardinalityIsSum
<1>5. \A k, l \in K : k # l => A[k] \intersect A[l] = {}
  BY <1>1
<1>6. \A k \in K : \A x \in A[k] : f[x] \in Int
  BY <1>1
<1>a. \A k \in K : IsFiniteSet(A[k])
  BY <1>2
<1>7. /\ IsFiniteSet(UNION {A[k] : k \in K})
      /\ SumFunctionOnSet(f, UNION {A[k] : k \in K}) = SumFunctionOnSet(g, K)
  BY <1>a, <1>3, <1>4, <1>5, <1>6, SumUnions
<1>8. UNION {A[k] : k \in K} = S
  <2>1. \A c \in S : keyOf[c[3]] \in K /\ c \in A[keyOf[c[3]]]
    BY <1>1
  <2> QED
    BY <2>1, <1>2
<1>9. SumFunctionOnSet(f, S) = Cardinality(S)
  BY <1>1, <1>2, CardinalityIsSum
<1>10. CopiesOf(Flows(rows, keyOf)) = g
  <2>1. PICK flows : flows = Flows(rows, keyOf)
    OBVIOUS
  <2>2. DOMAIN flows = K
    BY <2>1, <1>1 DEF Flows
  <2>3. ASSUME NEW k \in K PROVE flows[k].copies = g[k]
    BY <2>1, <2>3, <1>1 DEF Flows
  <2> QED
    BY <2>1, <2>2, <2>3, <1>1 DEF CopiesOf
<1>11. DOMAIN g = K
  BY <1>1
<1> QED
  BY <1>1, <1>7, <1>8, <1>9, <1>10, <1>11 DEF SumFunction

\* What plan makes of two samples.
Rates(a, first, second, hostOf) ==
  [c \in RowsOf(a, second.stats, hostOf) |->
     RateOf(first, RowsOf(a, first.stats, hostOf), second, c)]

LEMMA PlanOfTwo ==
  ASSUME NEW a, NEW taken, NEW hostOf, Len(taken) = 2, NEW first, NEW second,
         taken[1] = first, taken[2] = second
  PROVE  Plan(a, taken, hostOf) =
           [rows |-> Rates(a, first, second, hostOf),
            osds |-> Flows(Rates(a, first, second, hostOf), [o \in Osd |-> o]),
            hosts |-> Flows(Rates(a, first, second, hostOf), hostOf),
            gone |-> CountGone(a, RowsOf(a, first.stats, hostOf), second.stats, hostOf),
            hidden |-> Cardinality(Movements(a, second.stats, hostOf) \ RowsOf(a, second.stats, hostOf)),
            queried |-> UNION {taken[i].asked : i \in DOMAIN taken},
            failed |-> Failed(taken)]
BY DEF Plan, RowsOf, Rates

\* Each copy of the first sample is shown again, or left out as inactive, or counted as gone,
\* and only if it ended; the sums per OSD and per host count each row once.
THEOREM CopiesAreAccountedFor == Spec => []CopiesAccountedFor
<1>1. SamplingInv => CopiesAccountedFor
  <2> SUFFICES ASSUME SamplingInv, phase = "measured", Len(samples) = 2
               PROVE  LET rows == Shown(args, samples[1].stats, Movements(args, samples[1].stats, HostOf))
                          still(c) == Peer(c) \in Targets(c[1], samples[2].stats[c[1]])
                      IN  /\ result.gone = Cardinality({c \in rows : ~ still(c)})
                          /\ SumFunction(CopiesOf(result.osds)) = Cardinality(DOMAIN result.rows)
                          /\ SumFunction(CopiesOf(result.hosts)) = Cardinality(DOMAIN result.rows)
    BY DEF CopiesAccountedFor, CopiesOf, Peer
  <2>1. PICK a, first, second, s1, s2, r1, r2, rated :
          /\ a = args /\ first = samples[1] /\ second = samples[2]
          /\ s1 = first.stats /\ s2 = second.stats
          /\ r1 = RowsOf(a, s1, HostOf) /\ r2 = RowsOf(a, s2, HostOf)
          /\ rated = Rates(a, first, second, HostOf)
    OBVIOUS
  <2>2. PICK taken : taken = samples
    OBVIOUS
  <2>3. result = Plan(a, taken, HostOf) /\ Len(taken) = 2 /\ taken[1] = first /\ taken[2] = second
    BY <2>1, <2>2 DEF SamplingInv, MeasuredInv
  <2>4. /\ result.rows = rated
        /\ result.osds = Flows(rated, [o \in Osd |-> o])
        /\ result.hosts = Flows(rated, HostOf)
        /\ result.gone = CountGone(a, r1, s2, HostOf)
    <3>2. PICK hidden, queried, failed :
            /\ hidden = Cardinality(Movements(a, second.stats, HostOf) \ RowsOf(a, second.stats, HostOf))
            /\ queried = UNION {taken[i].asked : i \in DOMAIN taken}
            /\ failed = Failed(taken)
      OBVIOUS
    <3>1. Plan(a, taken, HostOf) =
            [rows |-> Rates(a, first, second, HostOf),
             osds |-> Flows(Rates(a, first, second, HostOf), [o \in Osd |-> o]),
             hosts |-> Flows(Rates(a, first, second, HostOf), HostOf),
             gone |-> CountGone(a, RowsOf(a, first.stats, HostOf), second.stats, HostOf),
             hidden |-> hidden, queried |-> queried, failed |-> failed]
      BY <2>3, <3>2, PlanOfTwo
    <3> QED
      BY <2>1, <2>3, <3>1
  <2>8. CountGone(a, r1, s2, HostOf)
          = Cardinality({c \in r1 : ~ (Peer(c) \in Targets(c[1], s2[c[1]]))})
    <3>1. ASSUME NEW c \in r1
          PROVE  c \in Movements(a, s2, HostOf) <=> Peer(c) \in Targets(c[1], s2[c[1]])
      <4>1. c \in Movements(a, s1, HostOf)
        BY <2>1, RowsFacts
      <4>2. c \in Copies /\ Passes(a, HostOf, c)
        BY <4>1, MovementsAre
      <4> QED
        BY <4>2, MovementsAre
    <3>2. r1 \ Movements(a, s2, HostOf) = {c \in r1 : ~ (Peer(c) \in Targets(c[1], s2[c[1]]))}
      BY <3>1
    <3> QED
      BY <3>2 DEF CountGone
  <2>5. DOMAIN rated = r2 /\ IsFiniteSet(r2)
    BY <2>1, RowsFacts DEF Rates
  <2>6. /\ SumFunction(CopiesOf(result.osds)) = Cardinality(DOMAIN result.rows)
        /\ SumFunction(CopiesOf(result.hosts)) = Cardinality(DOMAIN result.rows)
    BY <2>4, <2>5, FlowsAddUp
  <2>7. r1 = Shown(args, samples[1].stats, Movements(args, samples[1].stats, HostOf))
    BY <2>1 DEF RowsOf
  <2> QED
    BY <2>1, <2>4, <2>6, <2>7, <2>8
<1> QED
  BY <1>1, Sampling, PTL

-----------------------------------------------------------------------------
(* A replay prints what the run did.                                        *)

\* No two hosts have the same stand-in.
LEMMA FakesApart ==
  ASSUME NEW g \in Host, NEW h \in Host, FakeOf(g) = FakeOf(h)
  PROVE  g = h
<1>1. \A x, y : Hashed(x) = Hashed(y) => x = y
  BY DEF Hashed
<1>2. \A x, y : FakeHostname(x) = Hashed(y) => FakeHostname(x) = Hashed(x)
  BY DEF FakeHostname, Hashed
<1>3. /\ FakeOf(g) = Hashed(g) \/ FakeOf(g) = FakeHostname(g)
      /\ FakeOf(h) = Hashed(h) \/ FakeOf(h) = FakeHostname(h)
  BY DEF FakeOf
<1>4. CASE FakeOf(g) = Hashed(g) /\ FakeOf(h) = Hashed(h)
  BY <1>1, <1>4
<1>5. CASE FakeOf(g) = FakeHostname(g) /\ FakeOf(h) = Hashed(h)
  BY <1>1, <1>2, <1>5
<1>6. CASE FakeOf(g) = Hashed(g) /\ FakeOf(h) = FakeHostname(h)
  BY <1>1, <1>2, <1>6
<1>7. CASE FakeOf(g) = FakeHostname(g) /\ FakeOf(h) = FakeHostname(h)
  <2>1. CASE g # h
    <3>1. FakeHostname(g) = FakeHostname(h)
      BY <1>7
    <3>2. FakeOf(g) = Hashed(g) /\ FakeOf(h) = Hashed(h)
      BY <2>1, <3>1 DEF FakeOf
    <3> QED
      BY <1>4, <3>2
  <2> QED
    BY <2>1
<1> QED
  BY <1>3, <1>4, <1>5, <1>6, <1>7

LEMMA FakeFields ==
  ASSUME NEW a \in Arguments
  PROVE  /\ a.hosts \subseteq Host
         /\ Fake(a).osds = a.osds /\ Fake(a).pgs = a.pgs /\ Fake(a).all = a.all
         /\ Fake(a).hosts = {FakeOf(h) : h \in a.hosts}
<1>1. a \in [osds : SUBSET Osd, hosts : SUBSET Host, pgs : SUBSET Pg, all : BOOLEAN]
  BY MeasureTyped
<1>2. PICK o, h, p, l : a = [osds |-> o, hosts |-> h, pgs |-> p, all |-> l] /\ h \subseteq Host
  BY <1>1
<1>3. Fake(a) = [osds |-> o, hosts |-> {FakeOf(x) : x \in h}, pgs |-> p, all |-> l]
  BY <1>2 DEF Fake
<1> QED
  BY <1>2, <1>3

\* The filter means the same of the stand-ins.
LEMMA FakeRows ==
  ASSUME NEW a \in Arguments, NEW stats
  PROVE  /\ Movements(Fake(a), stats, FakeHostOf) = Movements(a, stats, HostOf)
         /\ RowsOf(Fake(a), stats, FakeHostOf) = RowsOf(a, stats, HostOf)
         /\ Select(Fake(a), stats, FakeHostOf) = Select(a, stats, HostOf)
<1>1. PICK b : b = Fake(a)
  OBVIOUS
<1>2. /\ a.hosts \subseteq Host /\ b.osds = a.osds /\ b.pgs = a.pgs /\ b.all = a.all
      /\ b.hosts = {FakeOf(h) : h \in a.hosts}
  BY <1>1, FakeFields
<1>3. ASSUME NEW c \in Copies
      PROVE  Passes(b, FakeHostOf, c) <=> Passes(a, HostOf, c)
  <2>1. c[3] \in Osd
    BY CopiesFacts
  <2>2. HostOf[c[3]] \in Host /\ FakeHostOf[c[3]] = FakeOf(HostOf[c[3]])
    BY <2>1, MeasureTyped DEF FakeHostOf
  <2>3. PICK host \in Host : host = HostOf[c[3]]
    BY <2>2
  <2>4. FakeOf(host) \in b.hosts <=> host \in a.hosts
    BY <1>2, FakesApart
  <2>5. b.hosts = {} <=> a.hosts = {}
    BY <1>2
  <2> QED
    BY <1>2, <2>2, <2>3, <2>4, <2>5 DEF Passes
<1>4. PICK found : found = Movements(a, stats, HostOf)
  OBVIOUS
<1>5. Movements(b, stats, FakeHostOf) = found
  <2>1. Movements(b, stats, FakeHostOf)
          = {c \in Copies : Peer(c) \in Targets(c[1], stats[c[1]]) /\ Passes(b, FakeHostOf, c)}
    BY MovementsAre
  <2>2. found = {c \in Copies : Peer(c) \in Targets(c[1], stats[c[1]]) /\ Passes(a, HostOf, c)}
    BY <1>4, MovementsAre
  <2> QED
    BY <2>1, <2>2, <1>3
<1>6. Shown(b, stats, found) = Shown(a, stats, found)
  BY <1>2 DEF Shown
<1> QED
  BY <1>1, <1>4, <1>5, <1>6 DEF RowsOf, Select

\* A narrower command line selects less.
LEMMA NarrowRows ==
  ASSUME NEW a \in Arguments, NEW b \in Arguments, Narrower(a, b)
  PROVE  /\ a.all => b.all
         /\ \A c \in Copies : Passes(a, HostOf, c) => Passes(b, HostOf, c)
         /\ \A stats : /\ RowsOf(a, stats, HostOf) \subseteq RowsOf(b, stats, HostOf)
                       /\ Select(a, stats, HostOf) \subseteq Select(b, stats, HostOf)
<1>1. /\ a.all => b.all
      /\ b.osds = {} \/ (a.osds # {} /\ a.osds \subseteq b.osds)
      /\ b.hosts = {} \/ (a.hosts # {} /\ a.hosts \subseteq b.hosts)
      /\ b.pgs = {} \/ (a.pgs # {} /\ a.pgs \subseteq b.pgs)
  BY DEF Narrower
<1>2. ASSUME NEW c \in Copies, Passes(a, HostOf, c) PROVE Passes(b, HostOf, c)
  BY <1>1, <1>2 DEF Passes
<1>3. ASSUME NEW stats
      PROVE  /\ RowsOf(a, stats, HostOf) \subseteq RowsOf(b, stats, HostOf)
             /\ Select(a, stats, HostOf) \subseteq Select(b, stats, HostOf)
  <2>1. \A c : Visible(a, stats, c) => Visible(b, stats, c)
    BY <1>1 DEF Visible
  <2>2. PICK ra, rb : ra = RowsOf(a, stats, HostOf) /\ rb = RowsOf(b, stats, HostOf)
    OBVIOUS
  <2>3. ASSUME NEW c \in ra PROVE c \in rb
    <3>1. c \in Copies
      BY <2>2, RowsFacts
    <3>2. Peer(c) \in Targets(c[1], stats[c[1]]) /\ Passes(a, HostOf, c) /\ Visible(a, stats, c)
      BY <2>2, <3>1, RowsFacts
    <3> QED
      BY <2>1, <2>2, <3>1, <3>2, <1>2, RowsFacts
  <2>4. Select(a, stats, HostOf) = {c[1] : c \in ra} /\ Select(b, stats, HostOf) = {c[1] : c \in rb}
    BY <2>2, RowsFacts
  <2> QED
    BY <2>2, <2>3, <2>4
<1> QED
  BY <1>1, <1>2, <1>3

\* The sample that is replayed.
LEMMA ReplayedFacts ==
  ASSUME NEW a \in Arguments, NEW s, NEW o, NEW b, NEW now, SampleOk(s, b, now)
  PROVE  LET r == Replayed(Fake(a), SavedSample(s, o))
         IN  /\ r.stats = s.stats /\ r.time = s.time - o
             /\ r.asked = Select(a, s.stats, HostOf)
             /\ DOMAIN r.replies = r.asked \intersect DOMAIN s.replies
             /\ \A p \in DOMAIN r.replies : /\ r.replies[p].positions = s.replies[p].positions
                                           /\ r.replies[p].time = s.replies[p].time - o
<1>1. PICK saved : saved = SavedSample(s, o)
  OBVIOUS
<1>2. /\ saved.stats = s.stats /\ saved.time = s.time - o
      /\ saved.replies = [p \in DOMAIN s.replies |-> [s.replies[p] EXCEPT !.time = @ - o]]
  BY <1>1 DEF SavedSample
<1>3. ASSUME NEW p \in DOMAIN s.replies
      PROVE  /\ saved.replies[p].positions = s.replies[p].positions
             /\ saved.replies[p].time = s.replies[p].time - o
  <2>1. PICK x, y : s.replies[p] = [positions |-> x, time |-> y]
    BY DEF SampleOk, IsReply
  <2>2. saved.replies[p] = [s.replies[p] EXCEPT !.time = @ - o]
    BY <1>2
  <2>3. saved.replies[p] = [positions |-> x, time |-> y - o]
    BY <2>1, <2>2
  <2> QED
    BY <2>1, <2>3
<1>4. PICK r : r = Replayed(Fake(a), saved)
  OBVIOUS
<1>5. /\ r.stats = saved.stats /\ r.time = saved.time
      /\ r.asked = Select(Fake(a), saved.stats, FakeHostOf)
      /\ r.replies = [p \in r.asked \intersect DOMAIN saved.replies |-> saved.replies[p]]
  BY <1>4 DEF Replayed
<1>6. r.asked = Select(a, s.stats, HostOf)
  BY <1>2, <1>5, FakeRows
<1>7. DOMAIN saved.replies = DOMAIN s.replies
  BY <1>2
<1>8. /\ DOMAIN r.replies = r.asked \intersect DOMAIN s.replies
      /\ \A p \in DOMAIN r.replies : p \in DOMAIN s.replies /\ r.replies[p] = saved.replies[p]
  BY <1>5, <1>7
<1> QED
  BY <1>1, <1>2, <1>3, <1>4, <1>5, <1>6, <1>8

Known(s, c) == c[1] \in DOMAIN s.replies /\ Peer(c) \in DOMAIN s.replies[c[1]].positions

Told(s, c) == Fraction[<<s.replies[c[1]].positions[Peer(c)], Seed[c[1]]>>]

\* When a copy's progress is that of its position, the reply's time is its time.
LEMMA ProgressIs ==
  ASSUME NEW s, NEW c
  PROVE  /\ Known(s, c) /\ Told(s, c) # Unknown =>
              Progress(s, c) = [pct |-> Told(s, c), exact |-> TRUE]
         /\ ~ (Known(s, c) /\ Told(s, c) # Unknown) =>
              /\ Progress(s, c) = CounterProgress(c[1], s.stats[c[1]])
              /\ Progress(s, c).exact = FALSE
<1>1. Progress(s, c) = IF Known(s, c) /\ Told(s, c) # Unknown
                       THEN [pct |-> Told(s, c), exact |-> TRUE]
                       ELSE CounterProgress(c[1], s.stats[c[1]])
  <2>1. PICK known, told : known = Known(s, c) /\ told = Told(s, c)
    OBVIOUS
  <2>2. Progress(s, c) = LET pct == IF known THEN told ELSE Unknown
                         IN  IF pct = Unknown THEN CounterProgress(c[1], s.stats[c[1]])
                             ELSE [pct |-> pct, exact |-> TRUE]
    BY <2>1 DEF Progress, Known, Told, Peer
  <2>3. known \in BOOLEAN
    BY <2>1 DEF Known
  <2> QED
    BY <2>1, <2>2, <2>3
<1>2. CounterProgress(c[1], s.stats[c[1]]).exact = FALSE
  BY DEF CounterProgress
<1> QED
  BY <1>1, <1>2

LEMMA TimeIs ==
  ASSUME NEW s, NEW c, NEW b, NEW now, SampleOk(s, b, now)
  PROVE  /\ ProgressTime(s, c) = IF Progress(s, c).exact THEN s.replies[c[1]].time ELSE s.time
         /\ Progress(s, c).exact => c[1] \in DOMAIN s.replies
         /\ ProgressTime(s, c) \in TimesOf(s)
         /\ ProgressTime(s, c) \in Int
<1>1. ProgressTime(s, c) = IF Progress(s, c).exact THEN s.replies[c[1]].time ELSE s.time
  BY DEF ProgressTime
<1>2. Progress(s, c).exact => c[1] \in DOMAIN s.replies
  BY ProgressIs DEF Known
<1>3. ProgressTime(s, c) \in TimesOf(s)
  BY <1>1, <1>2 DEF TimesOf
<1>4. ProgressTime(s, c) \in Int
  BY <1>3 DEF SampleOk
<1> QED
  BY <1>1, <1>2, <1>3, <1>4

\* The replay of a sample is as far with each copy that it shows, at the same time.
LEMMA ReplayedProgress ==
  ASSUME NEW a \in Arguments, NEW s, NEW o \in Int, NEW b, NEW now, SampleOk(s, b, now),
         NEW r, r = Replayed(Fake(a), SavedSample(s, o)),
         NEW c, c[1] \in Select(a, s.stats, HostOf)
  PROVE  /\ Progress(r, c) = Progress(s, c)
         /\ ProgressTime(r, c) = ProgressTime(s, c) - o
<1>1. /\ r.stats = s.stats /\ r.time = s.time - o
      /\ r.asked = Select(a, s.stats, HostOf)
      /\ DOMAIN r.replies = r.asked \intersect DOMAIN s.replies
      /\ \A p \in DOMAIN r.replies : /\ r.replies[p].positions = s.replies[p].positions
                                    /\ r.replies[p].time = s.replies[p].time - o
  BY ReplayedFacts
<1>2. c[1] \in DOMAIN r.replies <=> c[1] \in DOMAIN s.replies
  BY <1>1
<1>3. (Known(r, c) <=> Known(s, c)) /\ (Known(s, c) => Told(r, c) = Told(s, c))
  BY <1>1, <1>2 DEF Known, Told
<1>4. Progress(r, c) = Progress(s, c)
  <2>1. CASE Known(s, c) /\ Told(s, c) # Unknown
    BY <2>1, <1>3, ProgressIs
  <2>2. CASE ~ (Known(s, c) /\ Told(s, c) # Unknown)
    BY <2>2, <1>1, <1>3, ProgressIs
  <2> QED
    BY <2>1, <2>2
<1>5. ProgressTime(r, c) = ProgressTime(s, c) - o
  <2>1. ProgressTime(r, c) = IF Progress(r, c).exact THEN r.replies[c[1]].time ELSE r.time
    BY DEF ProgressTime
  <2>2. CASE Progress(s, c).exact
    <3>1. c[1] \in DOMAIN r.replies
      BY <2>2, <1>2, TimeIs
    <3> QED
      BY <2>1, <2>2, <3>1, <1>1, <1>4, TimeIs
  <2>3. CASE ~ Progress(s, c).exact
    BY <2>1, <2>3, <1>1, <1>4, TimeIs
  <2> QED
    BY <2>2, <2>3
<1> QED
  BY <1>4, <1>5

LEMMA RateIs ==
  ASSUME NEW first, NEW rows, NEW second, NEW c
  PROVE  RateOf(first, rows, second, c) =
           IF c \notin rows THEN NoRate("new")
           ELSE CopyRate(Progress(first, c), Progress(second, c),
                         ProgressTime(second, c) - ProgressTime(first, c))
<1>1. CASE c \notin rows
  <2>1. SameCopy(c, rows) = {}
    BY <1>1 DEF SameCopy
  <2> QED
    BY <1>1, <2>1 DEF RateOf
<1>2. CASE c \in rows
  <2>1. SameCopy(c, rows) # {} /\ (CHOOSE x \in SameCopy(c, rows) : TRUE) = c
    BY <1>2 DEF SameCopy
  <2> QED
    BY <1>2, <2>1 DEF RateOf
<1> QED
  BY <1>1, <1>2

\* The rate of a copy that both samples show is that of the replay.
LEMMA ReplayedRate ==
  ASSUME NEW a \in Arguments, NEW o \in Int, NEW b, NEW now,
         NEW s1, SampleOk(s1, b, now), NEW s2, SampleOk(s2, b, now),
         NEW r1, r1 = Replayed(Fake(a), SavedSample(s1, o)),
         NEW r2, r2 = Replayed(Fake(a), SavedSample(s2, o)),
         NEW c, c[1] \in Select(a, s1.stats, HostOf), c[1] \in Select(a, s2.stats, HostOf)
  PROVE  CopyRate(Progress(r1, c), Progress(r2, c), ProgressTime(r2, c) - ProgressTime(r1, c))
           = CopyRate(Progress(s1, c), Progress(s2, c), ProgressTime(s2, c) - ProgressTime(s1, c))
<1>1. PICK t1 \in Int, t2 \in Int : t1 = ProgressTime(s1, c) /\ t2 = ProgressTime(s2, c)
  BY TimeIs
<1>2. Progress(r1, c) = Progress(s1, c) /\ ProgressTime(r1, c) = t1 - o
  BY <1>1, ReplayedProgress
<1>3. Progress(r2, c) = Progress(s2, c) /\ ProgressTime(r2, c) = t2 - o
  BY <1>1, ReplayedProgress
<1>4. (t2 - o) - (t1 - o) = t2 - t1
  OBVIOUS
<1> QED
  BY <1>1, <1>2, <1>3, <1>4

LEMMA ReplayedRates ==
  ASSUME NEW a \in Arguments, NEW b \in Arguments, Narrower(a, b), NEW o \in Int, NEW now,
         NEW s1, SampleOk(s1, b, now), NEW s2, SampleOk(s2, b, now),
         NEW r1, r1 = Replayed(Fake(a), SavedSample(s1, o)),
         NEW r2, r2 = Replayed(Fake(a), SavedSample(s2, o)),
         NEW f, f = Rates(Fake(a), r1, r2, FakeHostOf),
         NEW g, g = Rates(b, s1, s2, HostOf)
  PROVE  /\ DOMAIN f = RowsOf(a, s2.stats, HostOf) /\ DOMAIN g = RowsOf(b, s2.stats, HostOf)
         /\ \A c \in DOMAIN f :
              /\ c \in DOMAIN g
              /\ f[c] # g[c] => f[c].why = "new" /\ b.all # a.all
<1>1. PICK fr1, fr2, gr1, gr2 :
        /\ fr1 = RowsOf(a, s1.stats, HostOf) /\ fr2 = RowsOf(a, s2.stats, HostOf)
        /\ gr1 = RowsOf(b, s1.stats, HostOf) /\ gr2 = RowsOf(b, s2.stats, HostOf)
  OBVIOUS
<1>2. r1.stats = s1.stats /\ r2.stats = s2.stats
  BY ReplayedFacts
<1>3. /\ RowsOf(Fake(a), r1.stats, FakeHostOf) = fr1
      /\ RowsOf(Fake(a), r2.stats, FakeHostOf) = fr2
  BY <1>1, <1>2, FakeRows
<1>4. f = [c \in fr2 |-> RateOf(r1, fr1, r2, c)] /\ g = [c \in gr2 |-> RateOf(s1, gr1, s2, c)]
  BY <1>1, <1>3 DEF Rates
<1>5. fr1 \subseteq gr1 /\ fr2 \subseteq gr2
  BY <1>1, NarrowRows
<1>6. ASSUME NEW c \in fr2, f[c] # g[c]
      PROVE  f[c].why = "new" /\ b.all # a.all
  <2>1. f[c] = RateOf(r1, fr1, r2, c) /\ g[c] = RateOf(s1, gr1, s2, c)
    BY <1>4, <1>5
  <2>2. CASE c \in fr1
    <3>1. c \in gr1
      BY <2>2, <1>5
    <3>2. c[1] \in Select(a, s1.stats, HostOf) /\ c[1] \in Select(a, s2.stats, HostOf)
      BY <2>2, <1>1, RowsFacts
    <3>3. CopyRate(Progress(r1, c), Progress(r2, c), ProgressTime(r2, c) - ProgressTime(r1, c))
            = CopyRate(Progress(s1, c), Progress(s2, c), ProgressTime(s2, c) - ProgressTime(s1, c))
      BY <3>2, ReplayedRate
    <3>4. f[c] = g[c]
      BY <2>1, <2>2, <3>1, <3>3, RateIs
    <3> QED
      BY <3>4, <1>6
  <2>3. CASE c \notin fr1
    <3>1. f[c] = NoRate("new")
      BY <2>1, <2>3, RateIs
    <3>2. c \in gr1
      <4>1. CASE c \notin gr1
        <5>1. g[c] = NoRate("new")
          BY <2>1, <4>1, RateIs
        <5> QED
          BY <5>1, <3>1, <1>6
      <4> QED
        BY <4>1
    <3>3. c \in Copies
      BY <1>1, RowsFacts
    <3>4. Peer(c) \in Targets(c[1], s1.stats[c[1]]) /\ Visible(b, s1.stats, c)
      BY <3>2, <3>3, <1>1, RowsFacts
    <3>5. Passes(a, HostOf, c)
      BY <3>3, <1>1, RowsFacts
    <3>6. ~ Visible(a, s1.stats, c)
      BY <3>3, <3>4, <3>5, <2>3, <1>1, RowsFacts
    <3>7. b.all # a.all
      BY <3>4, <3>6 DEF Visible
    <3> QED
      BY <3>1, <3>7 DEF NoRate
  <2> QED
    BY <2>2, <2>3
<1>7. DOMAIN f = fr2 /\ DOMAIN g = gr2
  BY <1>4
<1> QED
  BY <1>1, <1>5, <1>6, <1>7

\* What plan makes of one sample: nothing is rated.
LEMMA PlanOfOne ==
  ASSUME NEW a, NEW taken, NEW hostOf, Len(taken) = 1, NEW only, taken[1] = only
  PROVE  Plan(a, taken, hostOf) =
           [rows |-> <<>>,
            osds |-> Flows(<<>>, [o \in Osd |-> o]),
            hosts |-> Flows(<<>>, hostOf),
            gone |-> 0,
            hidden |-> Cardinality(Movements(a, only.stats, hostOf) \ RowsOf(a, only.stats, hostOf)),
            queried |-> UNION {taken[i].asked : i \in DOMAIN taken},
            failed |-> Failed(taken)]
BY DEF Plan, RowsOf

\* The sums per host are those per stand-in.
LEMMA FakeFlows ==
  ASSUME NEW rated, DOMAIN rated \subseteq Copies
  PROVE  \A h \in DOMAIN Flows(rated, HostOf) :
            Flows(rated, FakeHostOf)[FakeOf(h)] = Flows(rated, HostOf)[h]
<1>1. \A c \in DOMAIN rated : HostOf[c[3]] \in Host /\ FakeHostOf[c[3]] = FakeOf(HostOf[c[3]])
  <2>1. \A c \in DOMAIN rated : c[3] \in Osd
    BY CopiesFacts
  <2> QED
    BY <2>1, MeasureTyped DEF FakeHostOf
<1>2. PICK K : K = {HostOf[c[3]] : c \in DOMAIN rated}
  OBVIOUS
<1>3. DOMAIN Flows(rated, HostOf) = K /\ K \subseteq Host
  BY <1>1, <1>2 DEF Flows
<1>4. ASSUME NEW h \in K
      PROVE  Flows(rated, FakeHostOf)[FakeOf(h)] = Flows(rated, HostOf)[h]
  <2>1. \A c \in DOMAIN rated : FakeHostOf[c[3]] = FakeOf(h) <=> HostOf[c[3]] = h
    <3> SUFFICES ASSUME NEW c \in DOMAIN rated
                 PROVE  FakeHostOf[c[3]] = FakeOf(h) <=> HostOf[c[3]] = h
      OBVIOUS
    <3>1. PICK g \in Host : g = HostOf[c[3]] /\ FakeHostOf[c[3]] = FakeOf(g)
      BY <1>1
    <3>2. h \in Host
      BY <1>3
    <3> QED
      BY <3>1, <3>2, FakesApart
  <2>2. PICK here : here = {c \in DOMAIN rated : HostOf[c[3]] = h}
    OBVIOUS
  <2>3. {c \in DOMAIN rated : FakeHostOf[c[3]] = FakeOf(h)} = here
    BY <2>1, <2>2
  <2>4. FakeOf(h) \in {FakeHostOf[c[3]] : c \in DOMAIN rated}
    BY <1>1, <1>2
  <2>5. PICK summed : summed = {c \in here : rated[c].why = "measured"}
    OBVIOUS
  <2>6. Flows(rated, HostOf)[h] = [copies |-> Cardinality(here), summed |-> summed,
                                  exact |-> \A c \in summed : rated[c].exact]
    BY <1>2, <2>2, <2>5 DEF Flows
  <2>7. Flows(rated, FakeHostOf)[FakeOf(h)] = [copies |-> Cardinality(here), summed |-> summed,
                                              exact |-> \A c \in summed : rated[c].exact]
    BY <2>3, <2>4, <2>5 DEF Flows
  <2> QED
    BY <2>6, <2>7
<1> QED
  BY <1>3, <1>4

Blanked(x) == [x EXCEPT !.hosts = <<>>, !.failed = {}]

Result(rows, osds, hosts, gone, hidden, queried, failed) ==
  [rows |-> rows, osds |-> osds, hosts |-> hosts, gone |-> gone, hidden |-> hidden,
   queried |-> queried, failed |-> failed]

LEMMA BlankedIs ==
  ASSUME NEW x, NEW rows, NEW osds, NEW hosts, NEW gone, NEW hidden, NEW queried, NEW failed,
         x = Result(rows, osds, hosts, gone, hidden, queried, failed)
  PROVE  Blanked(x) = Result(rows, osds, <<>>, gone, hidden, queried, {})
<1>1. PICK none, nothing : none = <<>> /\ nothing = {}
  OBVIOUS
<1>2. Blanked(x) = [x EXCEPT !.hosts = none, !.failed = nothing]
  BY <1>1 DEF Blanked
<1>3. Blanked(x) = Result(rows, osds, none, gone, hidden, queried, nothing)
  BY <1>2 DEF Result
<1> QED
  BY <1>1, <1>3

\* The parts of a result that a replay of the same command line repeats.
Repeated(replay, printed) ==
  /\ Blanked(replay) = Blanked(printed)
  /\ \A h \in DOMAIN printed.hosts : replay.hosts[FakeOf(h)] = printed.hosts[h]

\* A run that had nothing to wait for: neither it nor a replay rates anything.
LEMMA ReplayOfOne ==
  ASSUME NEW a \in Arguments, NEW b \in Arguments, Narrower(a, b), NEW now,
         NEW taken, Len(taken) = 1, DOMAIN taken = {1}, NEW s, taken[1] = s, SampleOk(s, b, now), s.asked = {},
         NEW r, r = Replayed(Fake(a), SavedSample(s, s.time)),
         NEW printed, printed = Plan(b, taken, HostOf),
         NEW replay, replay = Plan(Fake(a), <<r>>, FakeHostOf)
  PROVE  /\ r.asked = {}
         /\ DOMAIN replay.rows = {}
         /\ a = b => Repeated(replay, printed)
<1>1. r.stats = s.stats /\ r.asked = Select(a, s.stats, HostOf)
  BY ReplayedFacts
<1>2. r.asked = {}
  <2>1. Select(a, s.stats, HostOf) \subseteq Select(b, s.stats, HostOf)
    BY NarrowRows
  <2>2. Select(b, s.stats, HostOf) = {}
    BY DEF SampleOk
  <2> QED
    BY <2>1, <2>2, <1>1
<1>3. PICK one : one = <<r>>
  OBVIOUS
<1>4. Len(one) = 1 /\ one[1] = r /\ DOMAIN one = {1}
  BY <1>3
<1>5. PICK hidden, queried, failed, osds :
        /\ hidden = Cardinality(Movements(Fake(a), r.stats, FakeHostOf) \ RowsOf(Fake(a), r.stats, FakeHostOf))
        /\ queried = UNION {one[i].asked : i \in DOMAIN one}
        /\ failed = Failed(one)
        /\ osds = Flows(<<>>, [o \in Osd |-> o])
  OBVIOUS
<1>6. replay = [rows |-> <<>>, osds |-> osds, hosts |-> Flows(<<>>, FakeHostOf), gone |-> 0,
                hidden |-> hidden, queried |-> queried, failed |-> failed]
  <2>1. replay = Plan(Fake(a), one, FakeHostOf)
    BY <1>3
  <2> QED
    BY <2>1, <1>4, <1>5, PlanOfOne
<1>7. DOMAIN replay.rows = {}
  BY <1>6
<1>8. ASSUME a = b PROVE Repeated(replay, printed)
  <2>1. hidden = Cardinality(Movements(b, s.stats, HostOf) \ RowsOf(b, s.stats, HostOf))
    BY <1>1, <1>5, <1>8, FakeRows
  <2>2. queried = {} /\ UNION {taken[i].asked : i \in DOMAIN taken} = {}
    BY <1>2, <1>4, <1>5
  <2>3. PICK f2, q2, h2 : /\ f2 = Failed(taken) /\ q2 = UNION {taken[i].asked : i \in DOMAIN taken}
                          /\ h2 = Cardinality(Movements(b, s.stats, HostOf) \ RowsOf(b, s.stats, HostOf))
    OBVIOUS
  <2>4. printed = [rows |-> <<>>, osds |-> osds, hosts |-> Flows(<<>>, HostOf), gone |-> 0,
                   hidden |-> h2, queried |-> q2, failed |-> f2]
    BY <2>3, <1>5, PlanOfOne
  <2>5. h2 = hidden /\ q2 = queried
    BY <2>1, <2>2, <2>3
  <2>6. DOMAIN printed.hosts = {}
    BY <2>4 DEF Flows
  <2>7. Blanked(replay) = Blanked(printed)
    <3>1. /\ replay = Result(<<>>, osds, Flows(<<>>, FakeHostOf), 0, hidden, queried, failed)
          /\ printed = Result(<<>>, osds, Flows(<<>>, HostOf), 0, hidden, queried, f2)
      BY <2>4, <2>5, <1>6 DEF Result
    <3>2. PICK like : like = Result(<<>>, osds, <<>>, 0, hidden, queried, {})
      OBVIOUS
    <3>3. Blanked(replay) = like /\ Blanked(printed) = like
      BY <3>1, <3>2, BlankedIs
    <3> QED
      BY <3>3
  <2> QED
    BY <2>6, <2>7 DEF Repeated
<1> QED
  BY <1>2, <1>7, <1>8

\* A run that rated two samples.
LEMMA ReplayOfTwo ==
  ASSUME NEW a \in Arguments, NEW b \in Arguments, Narrower(a, b), NEW now,
         NEW taken, Len(taken) = 2, DOMAIN taken = {1, 2},
         NEW s1, taken[1] = s1, SampleOk(s1, b, now), NEW s2, taken[2] = s2, SampleOk(s2, b, now),
         NEW r1, r1 = Replayed(Fake(a), SavedSample(s1, s1.time)),
         NEW r2, r2 = Replayed(Fake(a), SavedSample(s2, s1.time)),
         NEW printed, printed = Plan(b, taken, HostOf),
         NEW replay, replay = Plan(Fake(a), <<r1, r2>>, FakeHostOf)
  PROVE  /\ \A c \in DOMAIN replay.rows :
              /\ c \in DOMAIN printed.rows
              /\ replay.rows[c] # printed.rows[c] => replay.rows[c].why = "new" /\ b.all # a.all
         /\ a = b => Repeated(replay, printed)
<1>1. /\ r1.stats = s1.stats /\ r1.asked = Select(a, s1.stats, HostOf)
      /\ r2.stats = s2.stats /\ r2.asked = Select(a, s2.stats, HostOf)
  BY ReplayedFacts
<1>2. PICK two : two = <<r1, r2>>
  OBVIOUS
<1>3. Len(two) = 2 /\ two[1] = r1 /\ two[2] = r2 /\ DOMAIN two = {1, 2}
  BY <1>2
<1>4. PICK f, g : f = Rates(Fake(a), r1, r2, FakeHostOf) /\ g = Rates(b, s1, s2, HostOf)
  OBVIOUS
<1>5. PICK gone, hidden, queried, failed, osds :
        /\ gone = CountGone(Fake(a), RowsOf(Fake(a), r1.stats, FakeHostOf), r2.stats, FakeHostOf)
        /\ hidden = Cardinality(Movements(Fake(a), r2.stats, FakeHostOf) \ RowsOf(Fake(a), r2.stats, FakeHostOf))
        /\ queried = UNION {two[i].asked : i \in DOMAIN two}
        /\ failed = Failed(two)
        /\ osds = Flows(f, [o \in Osd |-> o])
  OBVIOUS
<1>6. replay = [rows |-> f, osds |-> osds, hosts |-> Flows(f, FakeHostOf), gone |-> gone,
                hidden |-> hidden, queried |-> queried, failed |-> failed]
  <2>1. replay = Plan(Fake(a), two, FakeHostOf)
    BY <1>2
  <2> QED
    BY <2>1, <1>3, <1>4, <1>5, PlanOfTwo
<1>7. PICK gone2, hidden2, queried2, failed2 :
        /\ gone2 = CountGone(b, RowsOf(b, s1.stats, HostOf), s2.stats, HostOf)
        /\ hidden2 = Cardinality(Movements(b, s2.stats, HostOf) \ RowsOf(b, s2.stats, HostOf))
        /\ queried2 = UNION {taken[i].asked : i \in DOMAIN taken}
        /\ failed2 = Failed(taken)
  OBVIOUS
<1>8. printed = [rows |-> g, osds |-> Flows(g, [o \in Osd |-> o]), hosts |-> Flows(g, HostOf), gone |-> gone2,
                 hidden |-> hidden2, queried |-> queried2, failed |-> failed2]
  BY <1>4, <1>7, PlanOfTwo
<1>9. s1.time \in Int
  BY DEF SampleOk, TimesOf
<1>10. /\ DOMAIN f = RowsOf(a, s2.stats, HostOf) /\ DOMAIN g = RowsOf(b, s2.stats, HostOf)
       /\ \A c \in DOMAIN f :
            /\ c \in DOMAIN g
            /\ f[c] # g[c] => f[c].why = "new" /\ b.all # a.all
  BY <1>4, <1>9, ReplayedRates
<1>11. ASSUME a = b PROVE Repeated(replay, printed)
  <2>1. f = g
    <3>1. DOMAIN f = DOMAIN g /\ \A c \in DOMAIN f : f[c] = g[c]
      BY <1>10, <1>11
    <3>2. f = [c \in DOMAIN f |-> f[c]] /\ g = [c \in DOMAIN g |-> g[c]]
      BY <1>4 DEF Rates
    <3> QED
      BY <3>1, <3>2
  <2>2. gone = gone2 /\ hidden = hidden2
    <3>1. /\ Movements(Fake(a), r2.stats, FakeHostOf) = Movements(b, s2.stats, HostOf)
          /\ RowsOf(Fake(a), r2.stats, FakeHostOf) = RowsOf(b, s2.stats, HostOf)
          /\ RowsOf(Fake(a), r1.stats, FakeHostOf) = RowsOf(b, s1.stats, HostOf)
      BY <1>1, <1>11, FakeRows
    <3> QED
      BY <3>1, <1>5, <1>7 DEF CountGone
  <2>3. queried = queried2
    <3>1. r1.asked = s1.asked /\ r2.asked = s2.asked
      BY <1>1, <1>11 DEF SampleOk
    <3>2. queried = r1.asked \union r2.asked
      BY <1>3, <1>5
    <3>3. queried2 = s1.asked \union s2.asked
      BY <1>7
    <3> QED
      BY <3>1, <3>2, <3>3
  <2>4. DOMAIN g \subseteq Copies
    BY <1>10, RowsFacts
  <2>5. \A h \in DOMAIN Flows(g, HostOf) : Flows(g, FakeHostOf)[FakeOf(h)] = Flows(g, HostOf)[h]
    BY <2>4, FakeFlows
  <2>6. PICK fake, real : fake = Flows(g, FakeHostOf) /\ real = Flows(g, HostOf)
    OBVIOUS
  <2>7. replay.hosts = fake /\ printed.hosts = real
    BY <2>1, <2>6, <1>6, <1>8
  <2>8. \A h \in DOMAIN printed.hosts : replay.hosts[FakeOf(h)] = printed.hosts[h]
    BY <2>5, <2>6, <2>7
  <2>9. replay = [rows |-> g, osds |-> osds, hosts |-> fake, gone |-> gone2,
                  hidden |-> hidden2, queried |-> queried2, failed |-> failed]
    BY <2>1, <2>2, <2>3, <2>6, <1>6
  <2>10. printed = [rows |-> g, osds |-> osds, hosts |-> real, gone |-> gone2,
                    hidden |-> hidden2, queried |-> queried2, failed |-> failed2]
    BY <2>1, <2>6, <1>5, <1>8
  <2>11. Blanked(replay) = Blanked(printed)
    <3>1. /\ replay = Result(g, osds, fake, gone2, hidden2, queried2, failed)
          /\ printed = Result(g, osds, real, gone2, hidden2, queried2, failed2)
      BY <2>9, <2>10 DEF Result
    <3>2. PICK like : like = Result(g, osds, <<>>, gone2, hidden2, queried2, {})
      OBVIOUS
    <3>3. Blanked(replay) = like /\ Blanked(printed) = like
      BY <3>1, <3>2, BlankedIs
    <3> QED
      BY <3>3
  <2> QED
    BY <2>8, <2>11 DEF Repeated
<1> QED
  BY <1>6, <1>8, <1>10, <1>11

\* A replay prints what the run printed, and one that asks for less prints that part of it,
\* whatever the live queries made of it and however hosts are renamed; but a row may be new
\* to a replay without --all (LiveSampler.save, ReplaySampler.take, _fake_hostnames).
THEOREM ReplaysAgreeAlways == Spec => []ReplaysAgree
<1>1. SamplingInv => ReplaysAgree
  <2> SUFFICES ASSUME SamplingInv, phase = "measured",
                      NEW a \in {x \in Arguments : Narrower(x, args)},
                      NEW replay, replay = PlanReplay(Fake(a))
               PROVE  /\ \A c \in DOMAIN replay.rows :
                           /\ c \in DOMAIN result.rows
                           /\ replay.rows[c] # result.rows[c] => replay.rows[c].why = "new" /\ args.all # a.all
                      /\ a = args => Repeated(replay, result)
    BY DEF ReplaysAgree, Repeated, Blanked
  <2>1. StageInv /\ SamplesInv /\ MeasuredInv
    BY DEF SamplingInv
  <2>2. PICK b, now, taken, printed : b = args /\ now = clock /\ taken = samples /\ printed = result
    OBVIOUS
  <2>3. /\ a \in Arguments /\ b \in Arguments /\ Narrower(a, b)
        /\ printed = Plan(b, taken, HostOf)
        /\ Len(taken) \in 1..2
        /\ Len(taken) = 2 \/ taken[1].asked = {}
        /\ Len(taken) = 2 => taken[1].asked # {}
        /\ \A k \in 1..Len(taken) : SampleOk(taken[k], b, now)
        /\ capture = [k \in DOMAIN taken |-> SavedSample(taken[k], taken[1].time)]
    <3>1. Len(samples) \in 0..2 /\ Len(samples) # 0
      BY <2>1 DEF StageInv, SamplesInv
    <3>2. Len(taken) \in 1..2
      BY <2>2, <3>1
    <3>3. a \in Arguments /\ b \in Arguments /\ Narrower(a, b)
      BY <2>1, <2>2 DEF StageInv
    <3>4. printed = Plan(b, taken, HostOf) /\ (Len(taken) = 2 \/ taken[1].asked = {})
      BY <2>1, <2>2 DEF MeasuredInv
    <3>5. capture = [k \in DOMAIN taken |-> SavedSample(taken[k], taken[1].time)]
      BY <2>1, <2>2 DEF MeasuredInv
    <3>6. \A k \in 1..Len(taken) : SampleOk(taken[k], b, now)
      BY <2>1, <2>2 DEF SamplesInv
    <3>7. Len(taken) = 2 => taken[1].asked # {}
      BY <2>1, <2>2 DEF StageInv
    <3> QED
      BY <3>2, <3>3, <3>4, <3>5, <3>6, <3>7
  <2>4. DOMAIN taken = 1..Len(taken)
    BY <2>1, <2>2 DEF SamplesInv, IsSeq
  <2>5. PICK s1, r1 : s1 = taken[1] /\ r1 = Replayed(Fake(a), SavedSample(s1, s1.time))
    OBVIOUS
  <2>6. capture[1] = SavedSample(s1, s1.time) /\ SampleOk(s1, b, now)
    BY <2>3, <2>4, <2>5
  <2>7. replay = IF r1.asked = {} THEN Plan(Fake(a), <<r1>>, FakeHostOf)
                 ELSE Plan(Fake(a), <<r1, Replayed(Fake(a), capture[2])>>, FakeHostOf)
    BY <2>5, <2>6 DEF PlanReplay
  <2>8. CASE Len(taken) = 1
    <3>1. DOMAIN taken = {1} /\ s1.asked = {}
      BY <2>3, <2>4, <2>5, <2>8
    <3>2. PICK other : other = Plan(Fake(a), <<r1>>, FakeHostOf)
      OBVIOUS
    <3>3. /\ r1.asked = {}
          /\ DOMAIN other.rows = {}
          /\ a = b => Repeated(other, printed)
      BY <3>1, <3>2, <2>3, <2>5, <2>6, <2>8, ReplayOfOne
    <3>4. replay = other
      BY <3>2, <3>3, <2>7
    <3> QED
      BY <3>3, <3>4, <2>2
  <2>9. CASE Len(taken) = 2
    <3>1. PICK s2, r2 : s2 = taken[2] /\ r2 = Replayed(Fake(a), SavedSample(s2, s1.time))
      OBVIOUS
    <3>2. DOMAIN taken = {1, 2}
      BY <2>4, <2>9
    <3>3. capture[2] = SavedSample(s2, s1.time) /\ SampleOk(s2, b, now)
      BY <3>1, <3>2, <2>3, <2>5, <2>9
    <3>4. CASE r1.asked = {}
      <4>1. replay = Plan(Fake(a), <<r1>>, FakeHostOf)
        BY <3>4, <2>7
      <4>2. PICK one : one = <<r1>>
        OBVIOUS
      <4>3. Len(one) = 1 /\ one[1] = r1
        BY <4>2
      <4>4. DOMAIN replay.rows = {}
        BY <4>1, <4>2, <4>3 DEF Plan
      <4>5. r1.asked = Select(a, s1.stats, HostOf)
        BY <2>3, <2>5, <2>6, ReplayedFacts
      <4>6. s1.asked = Select(b, s1.stats, HostOf)
        BY <2>6 DEF SampleOk
      <4>7. a # b
        BY <4>5, <4>6, <3>4, <2>3, <2>5, <2>9
      <4> QED
        BY <4>4, <4>7, <2>2
    <3>5. CASE r1.asked # {}
      <4>1. replay = Plan(Fake(a), <<r1, r2>>, FakeHostOf)
        BY <3>1, <3>3, <3>5, <2>7
      <4>2. /\ \A c \in DOMAIN replay.rows :
                 /\ c \in DOMAIN printed.rows
                 /\ replay.rows[c] # printed.rows[c] => replay.rows[c].why = "new" /\ b.all # a.all
            /\ a = b => Repeated(replay, printed)
        BY <4>1, <3>1, <3>2, <3>3, <2>3, <2>5, <2>6, <2>9, ReplayOfTwo
      <4> QED
        BY <4>2, <2>2
    <3> QED
      BY <3>4, <3>5
  <2> QED
    BY <2>3, <2>8, <2>9
<1> QED
  BY <1>1, Sampling, PTL

-----------------------------------------------------------------------------
(* What became of each copy.                                                *)

Each(p) == Full \div Size(p)

Histories == [arrived : [Places -> Nat], restarts : [Places -> Nat], ended : [Places -> Nat]]

PgOk(p, pg) ==
  /\ pg = [up |-> pg.up, acting |-> pg.acting, active |-> pg.active, done |-> pg.done, left |-> pg.left]
  /\ pg.up \in [Shard -> Osd \union {None}]
  /\ pg.acting \in [Shard -> Osd \union {None}]
  /\ pg.done \in [Peers(p) -> 0..Size(p)]

\* A copy that had m objects at a time has n at another, by what arrived in between.
Onward(m, h, n, g, x) ==
  /\ h.arrived[x] <= g.arrived[x] /\ h.restarts[x] <= g.restarts[x]
  /\ n <= m + (g.arrived[x] - h.arrived[x])
  /\ h.restarts[x] = g.restarts[x] => n = m + (g.arrived[x] - h.arrived[x])

\* The numbers of objects that a position may stand for.
Copied(p, position) == {m \in Nat : Fraction[<<position, Seed[p]>>] = m * Each(p)}

\* What the PGs g become, and their history h.
Goes(g, h, now, past2) ==
  \A p \in Pg : \A peer \in Peers(p) :
    /\ Onward(g[p].done[peer], h, now[p].done[peer], past2, <<p, peer>>)
    /\ h.ended[<<p, peer>>] <= past2.ended[<<p, peer>>]
    /\ peer \in Targets(p, g[p]) =>
         peer \in Targets(p, now[p]) \/ h.ended[<<p, peer>>] < past2.ended[<<p, peer>>]

\* A target that a sample saw is still one, or has ended since.
TargetsOk(s, g, h) ==
  \A p \in Pg :
    /\ Targets(p, s.stats[p]) \subseteq Peers(p)
    /\ \A peer \in Peers(p) : s.before.ended[<<p, peer>>] <= h.ended[<<p, peer>>]
    /\ \A peer \in Targets(p, s.stats[p]) :
         peer \in Targets(p, g[p]) \/ s.before.ended[<<p, peer>>] < h.ended[<<p, peer>>]

\* ... or had when the PG answered; what the answer tells of is on its way.
AnswersOk(s, g, h) ==
  \A p \in DOMAIN s.replies :
    /\ p \in Pg
    /\ DOMAIN s.replies[p].positions \subseteq Peers(p)
    /\ \A peer \in Targets(p, s.stats[p]) \ DOMAIN s.replies[p].positions :
         s.before.ended[<<p, peer>>] < s.past[p].ended[<<p, peer>>]
    /\ \A peer \in DOMAIN s.replies[p].positions :
         \E m \in Copied(p, s.replies[p].positions[peer]) :
           Onward(m, s.past[p], g[p].done[peer], h, <<p, peer>>)

\* The answers of two samples.
PairOk(s, t) ==
  \A p \in DOMAIN s.replies \intersect DOMAIN t.replies :
    \A peer \in DOMAIN s.replies[p].positions \intersect DOMAIN t.replies[p].positions :
      \E m \in Copied(p, s.replies[p].positions[peer]), n \in Copied(p, t.replies[p].positions[peer]) :
        Onward(m, s.past[p], n, t.past[p], <<p, peer>>)

HistoryOk(s, g, h) ==
  /\ s.before \in Histories
  /\ \A p \in DOMAIN s.replies : s.past[p] \in Histories
  /\ TargetsOk(s, g, h)
  /\ AnswersOk(s, g, h)

\* PGs, and their history, that may be.
PgsOk(g, h) == DOMAIN g = Pg /\ (\A p \in Pg : PgOk(p, g[p])) /\ h \in Histories

HistoryInv ==
  /\ PgsOk(pgs, past)
  /\ \A k \in 1..Len(samples) : HistoryOk(samples[k], pgs, past)
  /\ Len(samples) = 2 => PairOk(samples[1], samples[2])

LEMMA ShareFacts ==
  ASSUME FractionIsShare, NEW p \in Pg
  PROVE  /\ Size(p) \in Nat /\ Each(p) \in Nat
         /\ \A n \in 0..Size(p) : n \in Copied(p, PositionAfter[Seed[p]][n])
<1>1. Seed[p] \in Seeds
  BY MeasureTyped DEF Seeds
<1>2. PICK seed \in Seeds : seed = Seed[p]
  BY <1>1
<1>3. PICK objects, each : objects = Objects[seed] /\ each = Full \div objects
  OBVIOUS
<1>4. /\ objects \in Nat /\ each \in Nat
      /\ \A k \in 0..objects : Fraction[<<PositionAfter[seed][k], seed>>] = k * each
  <2>1. objects = Cardinality(Keys(Width, PgNum)[seed]) /\ each = End(Width) \div objects
    BY <1>3 DEF Objects, Full
  <2>2. seed \in 0..(PgNum - 1)
    BY DEF Seeds
  <2> QED
    BY <2>1, <2>2 DEF FractionIsShare, SharesAreExact, Fraction, PositionAfter
<1>5. Size(p) = objects /\ Each(p) = each
  BY <1>2, <1>3 DEF Size, Each
<1>6. \A n \in 0..objects : n \in Nat
  BY <1>4
<1> QED
  BY <1>2, <1>4, <1>5, <1>6 DEF Copied

LEMMA HistoryTypes ==
  ASSUME NEW h \in Histories, NEW x \in Places
  PROVE  h.arrived[x] \in Nat /\ h.restarts[x] \in Nat /\ h.ended[x] \in Nat
BY DEF Histories

LEMMA OnwardAlways ==
  ASSUME NEW h \in Histories, NEW x \in Places, NEW m \in Int
  PROVE  Onward(m, h, m, h, x)
BY HistoryTypes DEF Onward

LEMMA OnwardFurther ==
  ASSUME NEW h \in Histories, NEW g \in Histories, NEW f \in Histories, NEW x \in Places,
         NEW m \in Int, NEW n \in Int, NEW q \in Int, Onward(m, h, n, g, x), Onward(n, g, q, f, x)
  PROVE  Onward(m, h, q, f, x)
<1>1. PICK ha \in Nat, hr \in Nat : ha = h.arrived[x] /\ hr = h.restarts[x]
  BY HistoryTypes
<1>2. PICK ga \in Nat, gr \in Nat : ga = g.arrived[x] /\ gr = g.restarts[x]
  BY HistoryTypes
<1>3. PICK fa \in Nat, fr \in Nat : fa = f.arrived[x] /\ fr = f.restarts[x]
  BY HistoryTypes
<1>4. ha <= ga /\ hr <= gr /\ n <= m + (ga - ha) /\ (hr = gr => n = m + (ga - ha))
  BY <1>1, <1>2 DEF Onward
<1>5. ga <= fa /\ gr <= fr /\ q <= n + (fa - ga) /\ (gr = fr => q = n + (fa - ga))
  BY <1>2, <1>3 DEF Onward
<1>6. ha <= fa /\ hr <= fr /\ q <= m + (fa - ha) /\ (hr = fr => q = m + (fa - ha))
  BY <1>4, <1>5
<1> QED
  BY <1>1, <1>3, <1>6 DEF Onward

\* Data is going to the PG's own places only.
LEMMA TargetsAreFound ==
  ASSUME NEW p \in Pg, NEW pg, PgOk(p, pg)
  PROVE  Targets(p, pg) \subseteq Peers(p)
<1>1. DOMAIN pg.up = Shard /\ \A i \in Shard : pg.up[i] \in Osd \union {None}
  BY DEF PgOk
<1>2. CASE p \in Ec
  <2>1. Peers(p) = Osd \X Shard
    BY <1>2 DEF Peers
  <2>2. \A i \in Shard : pg.up[i] # None => <<pg.up[i], i>> \in Osd \X Shard
    BY <1>1
  <2> QED
    BY <1>1, <1>2, <2>1, <2>2 DEF Targets
<1>3. CASE p \notin Ec
  <2>1. Peers(p) = Osd \X {0}
    BY <1>3 DEF Peers
  <2>2. RealIn(pg.up) \subseteq Osd
    BY <1>1 DEF RealIn, ToSet
  <2> QED
    BY <1>3, <2>1, <2>2 DEF Targets
<1> QED
  BY <1>2, <1>3

\* Only the up set and the acting set say where data is going.
LEMMA TargetsDepend ==
  ASSUME NEW p, NEW a, NEW b, a.up = b.up, a.acting = b.acting
  PROVE  Targets(p, a) = Targets(p, b)
BY DEF Targets

\* A PG that is given other fields.
LEMMA PgParts ==
  ASSUME NEW p, NEW pg, PgOk(p, pg)
  PROVE  \E up, acting, active, done, left :
           /\ pg = [up |-> up, acting |-> acting, active |-> active, done |-> done, left |-> left]
           /\ up \in [Shard -> Osd \union {None}] /\ acting \in [Shard -> Osd \union {None}]
           /\ done \in [Peers(p) -> 0..Size(p)]
BY DEF PgOk

LEMMA PgWhole ==
  ASSUME NEW p, NEW up \in [Shard -> Osd \union {None}], NEW acting \in [Shard -> Osd \union {None}],
         NEW active, NEW done \in [Peers(p) -> 0..Size(p)], NEW left, NEW pg,
         pg = [up |-> up, acting |-> acting, active |-> active, done |-> done, left |-> left]
  PROVE  PgOk(p, pg)
BY DEF PgOk

-----------------------------------------------------------------------------
(* The steps of Ceph.                                                       *)

\* What happens to one PG leaves the history of the others alone.
Elsewhere(h, f, p) ==
  \A x \in Places :
    /\ h.ended[x] <= f.ended[x]
    /\ x[1] # p => f.arrived[x] = h.arrived[x] /\ f.restarts[x] = h.restarts[x]

\* What Goes says of one PG.
GoesOf(p, was, h, pg, f) ==
  \A peer \in Peers(p) :
    /\ Onward(was.done[peer], h, pg.done[peer], f, <<p, peer>>)
    /\ peer \in Targets(p, was) =>
         peer \in Targets(p, pg) \/ h.ended[<<p, peer>>] < f.ended[<<p, peer>>]

\* It is enough to look at the PG that changes.
LEMMA GoesIfOne ==
  ASSUME FractionIsShare, NEW g, NEW h, PgsOk(g, h), NEW p \in Pg, NEW pg, PgOk(p, pg), NEW f \in Histories,
         NEW now, now = Replaced(g, p, pg), Elsewhere(h, f, p), GoesOf(p, g[p], h, pg, f)
  PROVE  PgsOk(now, f) /\ Goes(g, h, now, f)
<1>1. DOMAIN g = Pg /\ (\A q \in Pg : PgOk(q, g[q])) /\ h \in Histories
  BY DEF PgsOk
<1>2. DOMAIN now = Pg /\ now[p] = pg /\ \A q \in Pg \ {p} : now[q] = g[q]
  BY <1>1 DEF Replaced
<1>3. PgsOk(now, f)
  BY <1>1, <1>2 DEF PgsOk
<1>4. ASSUME NEW q \in Pg, NEW peer \in Peers(q)
      PROVE  /\ Onward(g[q].done[peer], h, now[q].done[peer], f, <<q, peer>>)
             /\ h.ended[<<q, peer>>] <= f.ended[<<q, peer>>]
             /\ peer \in Targets(q, g[q]) =>
                  peer \in Targets(q, now[q]) \/ h.ended[<<q, peer>>] < f.ended[<<q, peer>>]
  <2>1. PICK x \in Places : x = <<q, peer>>
    BY <1>4, CopiesFacts
  <2>2. h.ended[x] <= f.ended[x]
    BY DEF Elsewhere
  <2>3. CASE q = p
    BY <2>1, <2>2, <2>3, <1>2 DEF GoesOf
  <2>4. CASE q # p
    <3>1. x[1] # p
      BY <2>1, <2>4
    <3>2. f.arrived[x] = h.arrived[x] /\ f.restarts[x] = h.restarts[x]
      BY <3>1 DEF Elsewhere
    <3>3. PICK n \in Int : n = g[q].done[peer]
      <4>1. PgOk(q, g[q]) /\ Size(q) \in Nat
        BY <1>1, ShareFacts
      <4> QED
        BY <4>1, <1>4 DEF PgOk
    <3>5. h.arrived[x] \in Nat /\ h.restarts[x] \in Nat
      BY <1>1, HistoryTypes
    <3>6. Onward(n, h, n, f, x)
      BY <3>2, <3>5 DEF Onward
    <3>7. now[q] = g[q]
      BY <2>4, <1>2
    <3> QED
      BY <2>1, <2>2, <3>3, <3>6, <3>7
  <2> QED
    BY <2>3, <2>4
<1> QED
  BY <1>3, <1>4 DEF Goes

\* The fields of a history.
LEMMA HistoryParts ==
  ASSUME NEW h \in Histories
  PROVE  h = [arrived |-> h.arrived, restarts |-> h.restarts, ended |-> h.ended]
BY DEF Histories

MoreArrived(h, x, n) == [h EXCEPT !.arrived[x] = @ + n]

\* The history f, of a copy that some objects arrive for.
Arrives(h, x, n, f) ==
  /\ f \in Histories /\ f.restarts = h.restarts /\ f.ended = h.ended
  /\ f.arrived[x] = h.arrived[x] + n
  /\ \A y \in Places : y # x => f.arrived[y] = h.arrived[y]

LEMMA ArrivedFacts ==
  ASSUME NEW h \in Histories, NEW x \in Places, NEW n \in Nat
  PROVE  Arrives(h, x, n, MoreArrived(h, x, n))
<1>0. PICK f : f = MoreArrived(h, x, n)
  OBVIOUS
<1>1. PICK a, r, e : h = [arrived |-> a, restarts |-> r, ended |-> e] /\ a = h.arrived
  BY HistoryParts
<1>2. a \in [Places -> Nat] /\ r \in [Places -> Nat] /\ e \in [Places -> Nat]
  BY <1>1 DEF Histories
<1>3. PICK b : b = [a EXCEPT ![x] = @ + n]
  OBVIOUS
<1>4. f = [arrived |-> b, restarts |-> r, ended |-> e]
  BY <1>0, <1>1, <1>3 DEF MoreArrived
<1>5. b \in [Places -> Nat] /\ b[x] = a[x] + n /\ \A y \in Places : y # x => b[y] = a[y]
  BY <1>2, <1>3
<1>6. Arrives(h, x, n, f)
  BY <1>1, <1>2, <1>4, <1>5 DEF Histories, Arrives
<1> QED
  BY <1>0, <1>6

Restarted(h, x) == [h EXCEPT !.restarts[x] = @ + 1]

LEMMA RestartFacts ==
  ASSUME NEW h \in Histories, NEW x \in Places, NEW f, f = Restarted(h, x)
  PROVE  /\ f \in Histories /\ f.arrived = h.arrived /\ f.ended = h.ended
         /\ f.restarts[x] = h.restarts[x] + 1
         /\ \A y \in Places : y # x => f.restarts[y] = h.restarts[y]
<1>1. PICK a, r, e : h = [arrived |-> a, restarts |-> r, ended |-> e] /\ r = h.restarts
  BY HistoryParts
<1>2. a \in [Places -> Nat] /\ r \in [Places -> Nat] /\ e \in [Places -> Nat]
  BY <1>1 DEF Histories
<1>3. PICK b : b = [r EXCEPT ![x] = @ + 1]
  OBVIOUS
<1>4. f = [arrived |-> a, restarts |-> b, ended |-> e]
  BY <1>1, <1>3 DEF Restarted
<1>5. b \in [Places -> Nat] /\ b[x] = r[x] + 1 /\ \A y \in Places : y # x => b[y] = r[y]
  BY <1>2, <1>3
<1> QED
  BY <1>1, <1>2, <1>4, <1>5 DEF Histories

\* What Ended makes of a history, if these targets are lost.
EndedAt(h, p, lost) ==
  [h EXCEPT !.ended = [x \in Places |-> IF x[1] = p /\ x[2] \in lost THEN @[x] + 1 ELSE @[x]]]

LEMMA EndedFacts ==
  ASSUME NEW h \in Histories, NEW p \in Pg, NEW lost, NEW f, f = EndedAt(h, p, lost)
  PROVE  /\ f \in Histories /\ f.arrived = h.arrived /\ f.restarts = h.restarts
         /\ \A x \in Places : h.ended[x] <= f.ended[x]
         /\ \A peer \in Peers(p) : peer \in lost => h.ended[<<p, peer>>] < f.ended[<<p, peer>>]
<1>1. PICK a, r, e : h = [arrived |-> a, restarts |-> r, ended |-> e] /\ e = h.ended
  BY HistoryParts
<1>2. a \in [Places -> Nat] /\ r \in [Places -> Nat] /\ e \in [Places -> Nat]
  BY <1>1 DEF Histories
<1>4. PICK b : b = [x \in Places |-> IF x[1] = p /\ x[2] \in lost THEN e[x] + 1 ELSE e[x]]
  OBVIOUS
<1>5. f = [arrived |-> a, restarts |-> r, ended |-> b]
  BY <1>1, <1>4 DEF EndedAt
<1>6. ASSUME NEW x \in Places PROVE b[x] \in Nat /\ e[x] <= b[x]
  <2>1. e[x] \in Nat /\ (b[x] = e[x] \/ b[x] = e[x] + 1)
    BY <1>2, <1>4
  <2> QED
    BY <2>1
<1>7. b \in [Places -> Nat]
  BY <1>4, <1>6
<1>8. ASSUME NEW peer \in Peers(p), peer \in lost PROVE e[<<p, peer>>] < b[<<p, peer>>]
  <2>1. PICK x \in Places : x = <<p, peer>>
    BY CopiesFacts
  <2>2. x[1] = p /\ x[2] = peer
    BY <2>1
  <2>3. b[x] = e[x] + 1 /\ e[x] \in Nat
    BY <2>2, <1>2, <1>4, <1>8
  <2> QED
    BY <2>1, <2>3
<1> QED
  BY <1>1, <1>2, <1>5, <1>6, <1>7, <1>8 DEF Histories

\* A PG one of whose peers has another number of objects.
Received(pg, peer, n) == [pg EXCEPT !.done[peer] = @ + n, !.left = Max({0, @ - n})]

Emptied(pg, peer) == [pg EXCEPT !.done[peer] = 0]

LEMMA ReceivedFacts ==
  ASSUME NEW p, NEW was, PgOk(p, was), Size(p) \in Nat, NEW peer \in Peers(p),
         NEW n \in 1..(Size(p) - was.done[peer]), NEW pg, pg = Received(was, peer, n)
  PROVE  /\ PgOk(p, pg) /\ Targets(p, pg) = Targets(p, was)
         /\ n \in Nat /\ was.done[peer] \in Nat /\ pg.done[peer] = was.done[peer] + n
         /\ \A other \in Peers(p) : other # peer => pg.done[other] = was.done[other]
<1>1. PICK up, acting, active, done, left :
        /\ was = [up |-> up, acting |-> acting, active |-> active, done |-> done, left |-> left]
        /\ up \in [Shard -> Osd \union {None}] /\ acting \in [Shard -> Osd \union {None}]
        /\ done \in [Peers(p) -> 0..Size(p)]
  BY PgParts
<1>2. was.done = done /\ was.left = left /\ was.up = up /\ was.acting = acting
  BY <1>1
<1>3. PICK more, rest : more = [done EXCEPT ![peer] = @ + n] /\ rest = Max({0, left - n})
  OBVIOUS
<1>4. pg = [up |-> up, acting |-> acting, active |-> active, done |-> more, left |-> rest]
  BY <1>1, <1>3 DEF Received
<1>5. done[peer] \in Nat /\ n \in Nat /\ done[peer] + n \in 0..Size(p)
  BY <1>1, <1>2
<1>6. /\ more \in [Peers(p) -> 0..Size(p)] /\ more[peer] = done[peer] + n
      /\ \A other \in Peers(p) : other # peer => more[other] = done[other]
  BY <1>1, <1>3, <1>5
<1>7. PgOk(p, pg)
  BY <1>1, <1>4, <1>6, PgWhole
<1>8. pg.done = more /\ pg.up = up /\ pg.acting = acting
  BY <1>4
<1>9. Targets(p, pg) = Targets(p, was)
  BY <1>2, <1>8, TargetsDepend
<1> QED
  BY <1>2, <1>5, <1>6, <1>7, <1>8, <1>9

LEMMA EmptiedFacts ==
  ASSUME NEW p, NEW was, PgOk(p, was), Size(p) \in Nat, NEW peer \in Peers(p),
         NEW pg, pg = Emptied(was, peer)
  PROVE  /\ PgOk(p, pg) /\ Targets(p, pg) = Targets(p, was)
         /\ was.done[peer] \in Nat /\ pg.done[peer] = 0
         /\ \A other \in Peers(p) : other # peer => pg.done[other] = was.done[other]
<1>1. PICK up, acting, active, done, left :
        /\ was = [up |-> up, acting |-> acting, active |-> active, done |-> done, left |-> left]
        /\ up \in [Shard -> Osd \union {None}] /\ acting \in [Shard -> Osd \union {None}]
        /\ done \in [Peers(p) -> 0..Size(p)]
  BY PgParts
<1>2. was.done = done /\ was.up = up /\ was.acting = acting
  BY <1>1
<1>3. PICK none : none = [done EXCEPT ![peer] = 0]
  OBVIOUS
<1>4. pg = [up |-> up, acting |-> acting, active |-> active, done |-> none, left |-> left]
  BY <1>1, <1>3 DEF Emptied
<1>6. /\ none \in [Peers(p) -> 0..Size(p)] /\ none[peer] = 0 /\ done[peer] \in Nat
      /\ \A other \in Peers(p) : other # peer => none[other] = done[other]
  BY <1>1, <1>3
<1>7. PgOk(p, pg)
  BY <1>1, <1>4, <1>6, PgWhole
<1>8. pg.done = none /\ pg.up = up /\ pg.acting = acting
  BY <1>4
<1>9. Targets(p, pg) = Targets(p, was)
  BY <1>2, <1>8, TargetsDepend
<1> QED
  BY <1>2, <1>6, <1>7, <1>8, <1>9

LEMMA ArrivalGoes ==
  ASSUME FractionIsShare, NEW g, NEW h, PgsOk(g, h), NEW p \in Pg, NEW peer \in Peers(p),
         NEW n \in 1..(Size(p) - g[p].done[peer]),
         NEW now, now = Replaced(g, p, Received(g[p], peer, n)),
         NEW f, f = MoreArrived(h, <<p, peer>>, n)
  PROVE  PgsOk(now, f) /\ Goes(g, h, now, f)
<1>1. Size(p) \in Nat /\ h \in Histories /\ PgOk(p, g[p])
  BY ShareFacts DEF PgsOk
<1>2. PICK was, pg : was = g[p] /\ pg = Received(was, peer, n)
  OBVIOUS
<1>3. /\ PgOk(p, pg) /\ Targets(p, pg) = Targets(p, was)
      /\ n \in Nat /\ was.done[peer] \in Nat /\ pg.done[peer] = was.done[peer] + n
      /\ \A other \in Peers(p) : other # peer => pg.done[other] = was.done[other]
  BY <1>1, <1>2, ReceivedFacts
<1>4. PICK x \in Places : x = <<p, peer>>
  BY CopiesFacts
<1>5. /\ f \in Histories /\ f.restarts = h.restarts /\ f.ended = h.ended
      /\ f.arrived[x] = h.arrived[x] + n
      /\ \A y \in Places : y # x => f.arrived[y] = h.arrived[y]
  <2>1. PICK m \in Nat : m = n
    BY <1>3
  <2>2. f = MoreArrived(h, x, m)
    BY <2>1, <1>4
  <2>3. Arrives(h, x, m, f)
    BY <2>2, <1>1, ArrivedFacts
  <2> QED
    BY <2>1, <2>3 DEF Arrives
<1>6. Elsewhere(h, f, p)
  <2>1. ASSUME NEW y \in Places
        PROVE  /\ h.ended[y] <= f.ended[y]
               /\ y[1] # p => f.arrived[y] = h.arrived[y] /\ f.restarts[y] = h.restarts[y]
    <3>1. h.ended[y] \in Nat
      BY <1>1, HistoryTypes
    <3>2. y[1] # p => y # x
      BY <1>4
    <3> QED
      BY <3>1, <3>2, <1>5
  <2> QED
    BY <2>1 DEF Elsewhere
<1>7. GoesOf(p, was, h, pg, f)
  <2>1. ASSUME NEW other \in Peers(p)
        PROVE  Onward(was.done[other], h, pg.done[other], f, <<p, other>>)
    <3>1. PICK y \in Places : y = <<p, other>>
      BY CopiesFacts
    <3>2. h.arrived[y] \in Nat /\ h.restarts[y] \in Nat /\ was.done[other] \in Int
      BY <1>1, <1>2, HistoryTypes DEF PgOk
    <3>3. y = x <=> other = peer
      BY <1>4, <3>1
    <3>4. CASE other = peer
      BY <3>1, <3>2, <3>3, <3>4, <1>3, <1>5 DEF Onward
    <3>5. CASE other # peer
      BY <3>1, <3>2, <3>3, <3>5, <1>3, <1>5 DEF Onward
    <3> QED
      BY <3>4, <3>5
  <2> QED
    BY <2>1, <1>3 DEF GoesOf
<1> QED
  BY <1>2, <1>3, <1>5, <1>6, <1>7, GoesIfOne

LEMMA RestartGoes ==
  ASSUME FractionIsShare, NEW g, NEW h, PgsOk(g, h), NEW p \in Pg, NEW peer \in Peers(p),
         NEW now, now = Replaced(g, p, Emptied(g[p], peer)),
         NEW f, f = Restarted(h, <<p, peer>>)
  PROVE  PgsOk(now, f) /\ Goes(g, h, now, f)
<1>1. Size(p) \in Nat /\ h \in Histories /\ PgOk(p, g[p])
  BY ShareFacts DEF PgsOk
<1>2. PICK was, pg : was = g[p] /\ pg = Emptied(was, peer)
  OBVIOUS
<1>3. /\ PgOk(p, pg) /\ Targets(p, pg) = Targets(p, was)
      /\ was.done[peer] \in Nat /\ pg.done[peer] = 0
      /\ \A other \in Peers(p) : other # peer => pg.done[other] = was.done[other]
  BY <1>1, <1>2, EmptiedFacts
<1>4. PICK x \in Places : x = <<p, peer>>
  BY CopiesFacts
<1>5. /\ f \in Histories /\ f.arrived = h.arrived /\ f.ended = h.ended
      /\ f.restarts[x] = h.restarts[x] + 1
      /\ \A y \in Places : y # x => f.restarts[y] = h.restarts[y]
  BY <1>1, <1>4, RestartFacts
<1>6. Elsewhere(h, f, p)
  <2>1. ASSUME NEW y \in Places
        PROVE  /\ h.ended[y] <= f.ended[y]
               /\ y[1] # p => f.arrived[y] = h.arrived[y] /\ f.restarts[y] = h.restarts[y]
    <3>1. h.ended[y] \in Nat
      BY <1>1, HistoryTypes
    <3>2. y[1] # p => y # x
      BY <1>4
    <3> QED
      BY <3>1, <3>2, <1>5
  <2> QED
    BY <2>1 DEF Elsewhere
<1>7. GoesOf(p, was, h, pg, f)
  <2>1. ASSUME NEW other \in Peers(p)
        PROVE  Onward(was.done[other], h, pg.done[other], f, <<p, other>>)
    <3>1. PICK y \in Places : y = <<p, other>>
      BY CopiesFacts
    <3>2. h.arrived[y] \in Nat /\ h.restarts[y] \in Nat /\ was.done[other] \in Int
      BY <1>1, <1>2, HistoryTypes DEF PgOk
    <3>3. y = x <=> other = peer
      BY <1>4, <3>1
    <3>4. CASE other = peer
      BY <3>1, <3>2, <3>3, <3>4, <1>3, <1>5 DEF Onward
    <3>5. CASE other # peer
      BY <3>1, <3>2, <3>3, <3>5, <1>3, <1>5 DEF Onward
    <3> QED
      BY <3>4, <3>5
  <2> QED
    BY <2>1, <1>3 DEF GoesOf
<1> QED
  BY <1>2, <1>3, <1>5, <1>6, <1>7, GoesIfOne

\* A PG that keeps what has been copied.
LEMMA KeptGoes ==
  ASSUME FractionIsShare, NEW g, NEW h, PgsOk(g, h), NEW p \in Pg, NEW pg, PgOk(p, pg), pg.done = g[p].done,
         NEW lost, lost = Targets(p, g[p]) \ Targets(p, pg),
         NEW now, now = Replaced(g, p, pg), NEW f, f = EndedAt(h, p, lost) \/ (f = h /\ lost = {})
  PROVE  PgsOk(now, f) /\ Goes(g, h, now, f)
<1>1. Size(p) \in Nat /\ h \in Histories /\ PgOk(p, g[p])
  BY ShareFacts DEF PgsOk
<1>2. PICK was : was = g[p]
  OBVIOUS
<1>3. /\ f \in Histories /\ f.arrived = h.arrived /\ f.restarts = h.restarts
      /\ \A x \in Places : h.ended[x] <= f.ended[x]
      /\ \A peer \in Peers(p) : peer \in lost => h.ended[<<p, peer>>] < f.ended[<<p, peer>>]
  <2>1. CASE f = EndedAt(h, p, lost)
    BY <2>1, <1>1, EndedFacts
  <2>2. CASE f = h /\ lost = {}
    <3>1. \A x \in Places : h.ended[x] <= h.ended[x]
      BY <1>1, HistoryTypes
    <3> QED
      BY <3>1, <2>2, <1>1
  <2> QED
    BY <2>1, <2>2
<1>4. Elsewhere(h, f, p)
  BY <1>3 DEF Elsewhere
<1>5. GoesOf(p, was, h, pg, f)
  <2>1. ASSUME NEW peer \in Peers(p)
        PROVE  Onward(was.done[peer], h, pg.done[peer], f, <<p, peer>>)
    <3>1. PICK x \in Places : x = <<p, peer>>
      BY CopiesFacts
    <3>2. h.arrived[x] \in Nat /\ h.restarts[x] \in Nat
      BY <1>1, HistoryTypes
    <3>3. PICK n \in Int : n = was.done[peer]
      BY <1>1, <1>2 DEF PgOk
    <3>4. Onward(n, h, n, f, x)
      BY <3>2, <1>3 DEF Onward
    <3> QED
      BY <3>1, <3>3, <3>4, <1>2
  <2> QED
    BY <2>1, <1>2, <1>3 DEF GoesOf
<1> QED
  BY <1>2, <1>3, <1>4, <1>5, GoesIfOne

\* What Finish, Retarget and Switch make of a PG.
Finished(pg) == [pg EXCEPT !.acting = pg.up, !.active = FALSE, !.left = 0]

Retargeted(pg, i, o, left) == [[pg EXCEPT !.up[i] = o] EXCEPT !.left = left]

Switched(pg) == [pg EXCEPT !.active = ~ @]

LEMMA KeptParts ==
  ASSUME NEW p, NEW was, PgOk(p, was), NEW pg,
         \/ pg = Finished(was)
         \/ \E i \in Shard, o \in Osd : \E left : pg = Retargeted(was, i, o, left)
         \/ pg = Switched(was)
  PROVE  PgOk(p, pg) /\ pg.done = was.done
<1>1. PICK up, acting, active, done, left :
        /\ was = [up |-> up, acting |-> acting, active |-> active, done |-> done, left |-> left]
        /\ up \in [Shard -> Osd \union {None}] /\ acting \in [Shard -> Osd \union {None}]
        /\ done \in [Peers(p) -> 0..Size(p)]
  BY PgParts
<1>2. CASE pg = Finished(was)
  <2>1. pg = [up |-> up, acting |-> up, active |-> FALSE, done |-> done, left |-> 0]
    BY <1>1, <1>2 DEF Finished
  <2> QED
    BY <2>1, <1>1, PgWhole
<1>3. CASE \E i \in Shard, o \in Osd : \E rest : pg = Retargeted(was, i, o, rest)
  <2>1. PICK i \in Shard, o \in Osd : \E rest : pg = Retargeted(was, i, o, rest)
    BY <1>3
  <2>5. PICK rest : pg = Retargeted(was, i, o, rest)
    BY <2>1
  <2>2. PICK other : other = [up EXCEPT ![i] = o]
    OBVIOUS
  <2>3. other \in [Shard -> Osd \union {None}]
    BY <1>1, <2>2
  <2>4. pg = [up |-> other, acting |-> acting, active |-> active, done |-> done, left |-> rest]
    BY <1>1, <2>5, <2>2 DEF Retargeted
  <2> QED
    BY <2>3, <2>4, <1>1, PgWhole
<1>4. CASE pg = Switched(was)
  <2>1. pg = [up |-> up, acting |-> acting, active |-> ~ active, done |-> done, left |-> left]
    BY <1>1, <1>4 DEF Switched
  <2> QED
    BY <2>1, <1>1, PgWhole
<1> QED
  BY <1>2, <1>3, <1>4

LEMMA SwitchedTargets ==
  ASSUME NEW p, NEW was, PgOk(p, was), NEW pg, pg = Switched(was)
  PROVE  Targets(p, pg) = Targets(p, was)
<1>1. pg.up = was.up /\ pg.acting = was.acting
  BY DEF PgOk, Switched
<1> QED
  BY <1>1, TargetsDepend

\* Whatever Ceph does.
LEMMA ChangeGoes ==
  ASSUME FractionIsShare, PgsOk(pgs, past), Change
  PROVE  PgsOk(pgs', past') /\ Goes(pgs, past, pgs', past')
<1>1. PICK g, h, now, f : g = pgs /\ h = past /\ now = pgs' /\ f = past'
  OBVIOUS
<1>2. PgsOk(g, h)
  BY <1>1
<1>3. SUFFICES PgsOk(now, f) /\ Goes(g, h, now, f)
  BY <1>1
<1>4. PICK p \in Pg :
        \/ Finish(p) \/ Switch(p)
        \/ \E peer \in Peers(p) : Copy(p, peer) \/ Restart(p, peer)
        \/ \E i \in Shard, o \in Osd : Retarget(p, i, o)
  BY DEF Change
<1>5. PgOk(p, g[p])
  BY <1>2 DEF PgsOk
<1>6. ASSUME NEW pg, Changed(p, pg) PROVE now = Replaced(g, p, pg)
  BY <1>1, <1>6 DEF Changed, Replaced
<1>7. ASSUME NEW to, Ended(p, to) PROVE f = EndedAt(h, p, Targets(p, g[p]) \ Targets(p, to))
  BY <1>1, <1>7 DEF Ended, EndedAt
<1>8. CASE Finish(p)
  <2>1. PICK to : to = Finished(g[p]) /\ Changed(p, to) /\ Ended(p, to)
    BY <1>1, <1>8 DEF Finish, Finished
  <2>2. PgOk(p, to) /\ to.done = g[p].done
    BY <2>1, <1>5, KeptParts
  <2> QED
    BY <2>1, <2>2, <1>2, <1>6, <1>7, KeptGoes
<1>9. CASE Switch(p)
  <2>1. PICK to : to = Switched(g[p]) /\ Changed(p, to)
    BY <1>1, <1>9 DEF Switch, Switched
  <2>2. PgOk(p, to) /\ to.done = g[p].done /\ Targets(p, to) = Targets(p, g[p])
    BY <2>1, <1>5, KeptParts, SwitchedTargets
  <2>3. f = h
    BY <1>1, <1>9 DEF Switch
  <2>4. PICK lost : lost = Targets(p, g[p]) \ Targets(p, to)
    OBVIOUS
  <2>5. lost = {}
    BY <2>2, <2>4
  <2> QED
    BY <2>1, <2>2, <2>3, <2>4, <2>5, <1>2, <1>6, KeptGoes
<1>10. CASE \E i \in Shard, o \in Osd : Retarget(p, i, o)
  <2>1. PICK i \in Shard, o \in Osd : Retarget(p, i, o)
    BY <1>10
  <2>2. PICK mid : mid = [g[p] EXCEPT !.up[i] = o]
    OBVIOUS
  <2>3. PICK left : left = CopiesMoving(p, mid) * Size(p)
    OBVIOUS
  <2>4. Changed(p, [mid EXCEPT !.left = left]) /\ Ended(p, mid)
    BY <2>1, <2>2, <2>3, <1>1 DEF Retarget
  <2>5. PICK to : to = Retargeted(g[p], i, o, left) /\ to = [mid EXCEPT !.left = left]
    BY <2>2 DEF Retargeted
  <2>6. PgOk(p, to) /\ to.done = g[p].done
    <3>1. \E j \in Shard, other \in Osd : \E rest : to = Retargeted(g[p], j, other, rest)
      BY <2>5
    <3> QED
      BY <3>1, <1>5, KeptParts
  <2>7. Targets(p, to) = Targets(p, mid)
    <3>1. to.up = mid.up /\ to.acting = mid.acting
      BY <2>5, <2>6 DEF PgOk
    <3> QED
      BY <3>1, TargetsDepend
  <2>8. now = Replaced(g, p, to)
    BY <2>4, <2>5, <1>6
  <2>9. f = EndedAt(h, p, Targets(p, g[p]) \ Targets(p, to))
    BY <2>4, <2>7, <1>7
  <2> QED
    BY <2>6, <2>8, <2>9, <1>2, KeptGoes
<1>11. CASE \E peer \in Peers(p) : Copy(p, peer) \/ Restart(p, peer)
  <2>1. PICK peer \in Peers(p) : Copy(p, peer) \/ Restart(p, peer)
    BY <1>11
  <2>2. CASE Copy(p, peer)
    <3>1. PICK n \in 1..(Size(p) - g[p].done[peer]) :
            /\ Changed(p, Received(g[p], peer, n))
            /\ f = MoreArrived(h, <<p, peer>>, n)
      BY <2>2, <1>1 DEF Copy, Received, MoreArrived
    <3> QED
      BY <3>1, <1>2, <1>6, ArrivalGoes
  <2>3. CASE Restart(p, peer)
    <3>1. Changed(p, Emptied(g[p], peer)) /\ f = Restarted(h, <<p, peer>>)
      BY <2>3, <1>1 DEF Restart, Emptied, Restarted
    <3> QED
      BY <3>1, <1>2, <1>6, RestartGoes
  <2> QED
    BY <2>1, <2>2, <2>3
<1> QED
  BY <1>4, <1>8, <1>9, <1>10, <1>11

-----------------------------------------------------------------------------
(* What a sample says stays true.                                           *)

LEMMA TargetsKeep ==
  ASSUME NEW g, NEW h, NEW now, NEW f, PgsOk(g, h), PgsOk(now, f), Goes(g, h, now, f),
         NEW s, HistoryOk(s, g, h)
  PROVE  TargetsOk(s, now, f)
<1>1. h \in Histories /\ f \in Histories /\ s.before \in Histories /\ TargetsOk(s, g, h)
  BY DEF PgsOk, HistoryOk
<1>2. ASSUME NEW p \in Pg, NEW peer \in Peers(p)
      PROVE  /\ s.before.ended[<<p, peer>>] <= f.ended[<<p, peer>>]
             /\ peer \in Targets(p, s.stats[p]) =>
                  peer \in Targets(p, now[p]) \/ s.before.ended[<<p, peer>>] < f.ended[<<p, peer>>]
  <2>1. PICK x \in Places : x = <<p, peer>>
    BY CopiesFacts
  <2>2. PICK b \in Nat, a \in Nat, c \in Nat : b = s.before.ended[x] /\ a = h.ended[x] /\ c = f.ended[x]
    BY <1>1, HistoryTypes
  <2>3. b <= a /\ (peer \in Targets(p, s.stats[p]) => peer \in Targets(p, g[p]) \/ b < a)
    BY <1>1, <2>1, <2>2 DEF TargetsOk
  <2>4. a <= c /\ (peer \in Targets(p, g[p]) => peer \in Targets(p, now[p]) \/ a < c)
    BY <2>1, <2>2 DEF Goes
  <2>5. b <= c /\ (peer \in Targets(p, s.stats[p]) => peer \in Targets(p, now[p]) \/ b < c)
    BY <2>3, <2>4
  <2> QED
    BY <2>1, <2>2, <2>5
<1>3. ASSUME NEW p \in Pg PROVE Targets(p, s.stats[p]) \subseteq Peers(p)
  BY <1>1 DEF TargetsOk
<1> QED
  BY <1>2, <1>3 DEF TargetsOk

LEMMA AnswersKeep ==
  ASSUME FractionIsShare, NEW g, NEW h, NEW now, NEW f, PgsOk(g, h), PgsOk(now, f), Goes(g, h, now, f),
         NEW s, HistoryOk(s, g, h)
  PROVE  AnswersOk(s, now, f)
<1>1. h \in Histories /\ f \in Histories /\ AnswersOk(s, g, h)
  BY DEF PgsOk, HistoryOk
<1>2. ASSUME NEW p \in DOMAIN s.replies, NEW peer \in DOMAIN s.replies[p].positions
      PROVE  \E m \in Copied(p, s.replies[p].positions[peer]) :
               Onward(m, s.past[p], now[p].done[peer], f, <<p, peer>>)
  <2>1. p \in Pg /\ peer \in Peers(p)
    BY <1>1, <1>2 DEF AnswersOk
  <2>2. PICK m \in Copied(p, s.replies[p].positions[peer]) :
          Onward(m, s.past[p], g[p].done[peer], h, <<p, peer>>)
    BY <1>1, <1>2 DEF AnswersOk
  <2>3. PICK x \in Places : x = <<p, peer>>
    BY <2>1, CopiesFacts
  <2>4. PICK e \in Histories : e = s.past[p]
    BY <1>2 DEF HistoryOk
  <2>5. m \in Int
    BY <2>2 DEF Copied
  <2>6. PICK n \in Int, q \in Int : n = g[p].done[peer] /\ q = now[p].done[peer]
    <3>1. Size(p) \in Nat /\ PgOk(p, g[p]) /\ PgOk(p, now[p])
      BY <2>1, ShareFacts DEF PgsOk
    <3> QED
      BY <3>1, <2>1 DEF PgOk
  <2>7. Onward(m, e, n, h, x)
    BY <2>2, <2>3, <2>4, <2>6
  <2>8. Onward(n, h, q, f, x)
    BY <2>1, <2>3, <2>6 DEF Goes
  <2>9. Onward(m, e, q, f, x)
    BY <2>5, <2>7, <2>8, <1>1, OnwardFurther
  <2> QED
    BY <2>3, <2>4, <2>6, <2>9
<1> QED
  BY <1>1, <1>2 DEF AnswersOk

LEMMA HistoryKeeps ==
  ASSUME FractionIsShare, NEW g, NEW h, NEW now, NEW f, PgsOk(g, h), PgsOk(now, f), Goes(g, h, now, f),
         NEW s, HistoryOk(s, g, h)
  PROVE  HistoryOk(s, now, f)
<1>1. TargetsOk(s, now, f) /\ AnswersOk(s, now, f)
  BY TargetsKeep, AnswersKeep
<1> QED
  BY <1>1 DEF HistoryOk

\* A sample that is taken.
LEMMA TakenOk ==
  ASSUME NEW g, NEW h, PgsOk(g, h), NEW s, s.before = h, DOMAIN s.replies = {},
         \A p \in Pg : s.stats[p].up = g[p].up /\ s.stats[p].acting = g[p].acting
  PROVE  HistoryOk(s, g, h)
<1>1. h \in Histories
  BY DEF PgsOk
<1>2. ASSUME NEW p \in Pg PROVE Targets(p, s.stats[p]) = Targets(p, g[p])
  BY TargetsDepend
<1>3. ASSUME NEW p \in Pg PROVE Targets(p, g[p]) \subseteq Peers(p)
  BY TargetsAreFound DEF PgsOk
<1>4. ASSUME NEW p \in Pg, NEW peer \in Peers(p) PROVE h.ended[<<p, peer>>] <= h.ended[<<p, peer>>]
  <2>1. <<p, peer>> \in Places
    BY CopiesFacts
  <2> QED
    BY <2>1, <1>1, HistoryTypes
<1>5. TargetsOk(s, g, h)
  BY <1>2, <1>3, <1>4 DEF TargetsOk
<1> QED
  BY <1>1, <1>5 DEF HistoryOk, AnswersOk

\* An answer that tells how far a PG is.
Tells(p, r, pg) == \A peer \in DOMAIN r.positions : pg.done[peer] \in Copied(p, r.positions[peer])

\* A PG that answers.
LEMMA AnswerOk ==
  ASSUME FractionIsShare, NEW g, NEW h, PgsOk(g, h), NEW s, HistoryOk(s, g, h), NEW p \in Pg, NEW r,
         r.positions = PositionsOf(p, g[p]), NEW t, t.stats = s.stats, t.before = s.before,
         t.replies = Also(s.replies, p, r), t.past = Also(s.past, p, h),
         DOMAIN s.replies \subseteq DOMAIN s.past
  PROVE  HistoryOk(t, g, h) /\ Tells(p, r, g[p])
<1>1. /\ DOMAIN t.replies = DOMAIN s.replies \union {p} /\ t.replies[p] = r
      /\ \A q \in DOMAIN s.replies : q # p => t.replies[q] = s.replies[q]
  BY DEF Also
<1>2. t.past[p] = h /\ \A q \in DOMAIN s.replies : q # p => t.past[q] = s.past[q]
  BY DEF Also
<1>3. h \in Histories /\ PgOk(p, g[p]) /\ Size(p) \in Nat
  BY ShareFacts DEF PgsOk
<1>4. TargetsOk(s, g, h) /\ AnswersOk(s, g, h)
  BY DEF HistoryOk
<1>5. TargetsOk(t, g, h)
  BY <1>4 DEF TargetsOk
<1>6. DOMAIN r.positions = Targets(p, g[p]) /\ Targets(p, g[p]) \subseteq Peers(p)
  BY <1>3, TargetsAreFound DEF PositionsOf
<1>7. ASSUME NEW peer \in DOMAIN r.positions
      PROVE  g[p].done[peer] \in Copied(p, r.positions[peer])
  <2>1. PICK n \in 0..Size(p) : n = g[p].done[peer]
    BY <1>3, <1>6, <1>7 DEF PgOk
  <2>2. r.positions[peer] = PositionAfter[Seed[p]][n]
    BY <2>1, <1>6, <1>7 DEF PositionsOf
  <2> QED
    BY <2>1, <2>2, ShareFacts
<1>8. ASSUME NEW q \in DOMAIN t.replies
      PROVE  /\ q \in Pg
             /\ DOMAIN t.replies[q].positions \subseteq Peers(q)
             /\ \A peer \in Targets(q, t.stats[q]) \ DOMAIN t.replies[q].positions :
                  t.before.ended[<<q, peer>>] < t.past[q].ended[<<q, peer>>]
             /\ \A peer \in DOMAIN t.replies[q].positions :
                  \E m \in Copied(q, t.replies[q].positions[peer]) :
                    Onward(m, t.past[q], g[q].done[peer], h, <<q, peer>>)
  <2>1. CASE q # p
    <3>1. q \in DOMAIN s.replies /\ t.replies[q] = s.replies[q] /\ t.past[q] = s.past[q]
      BY <2>1, <1>1, <1>2, <1>8
    <3> QED
      BY <3>1, <1>4 DEF AnswersOk
  <2>2. CASE q = p
    <3>1. DOMAIN r.positions \subseteq Peers(p)
      BY <1>6
    <3>2. \A peer \in Targets(p, s.stats[p]) \ DOMAIN r.positions :
            s.before.ended[<<p, peer>>] < h.ended[<<p, peer>>]
      BY <1>4, <1>6 DEF TargetsOk
    <3>3. ASSUME NEW peer \in DOMAIN r.positions
          PROVE  \E m \in Copied(p, r.positions[peer]) : Onward(m, h, g[p].done[peer], h, <<p, peer>>)
      <4>1. PICK x \in Places : x = <<p, peer>>
        BY <3>1, <3>3, CopiesFacts
      <4>2. PICK m \in Int : m = g[p].done[peer]
        BY <1>3, <3>1, <3>3 DEF PgOk
      <4>3. Onward(m, h, m, h, x)
        BY <1>3, OnwardAlways
      <4> QED
        BY <4>1, <4>2, <4>3, <1>7, <3>3
    <3> QED
      BY <3>1, <3>2, <3>3, <2>2, <1>1, <1>2
  <2> QED
    BY <2>1, <2>2
<1>9. AnswersOk(t, g, h)
  BY <1>8 DEF AnswersOk
<1>10. \A q \in DOMAIN t.replies : t.past[q] \in Histories
  BY <1>1, <1>2, <1>3 DEF HistoryOk
<1>11. t.before \in Histories
  BY DEF HistoryOk
<1> QED
  BY <1>5, <1>7, <1>9, <1>10, <1>11 DEF HistoryOk, Tells

\* A PG that does not.
LEMMA NoAnswerOk ==
  ASSUME NEW g, NEW h, NEW s, HistoryOk(s, g, h), NEW p,
         NEW t, t.stats = s.stats, t.before = s.before, t.replies = s.replies,
         t.past = Also(s.past, p, h), p \notin DOMAIN s.replies, DOMAIN s.replies \subseteq DOMAIN s.past
  PROVE  HistoryOk(t, g, h)
<1>1. \A q \in DOMAIN s.replies : t.past[q] = s.past[q]
  BY DEF Also
<1>2. TargetsOk(t, g, h)
  BY DEF HistoryOk, TargetsOk
<1>3. AnswersOk(t, g, h)
  BY <1>1 DEF HistoryOk, AnswersOk
<1> QED
  BY <1>1, <1>2, <1>3 DEF HistoryOk

\* An answer of a PG that had answered before, too.
LEMMA AnswerPairs ==
  ASSUME NEW g, NEW h, NEW s, HistoryOk(s, g, h), NEW old, PairOk(s, old), NEW p, NEW r, NEW t,
         t.replies = Also(old.replies, p, r), t.past = Also(old.past, p, h),
         Tells(p, r, g[p]),
         DOMAIN old.replies \subseteq DOMAIN old.past
  PROVE  PairOk(s, t)
<1>1. /\ DOMAIN t.replies = DOMAIN old.replies \union {p} /\ t.replies[p] = r
      /\ \A q \in DOMAIN old.replies : q # p => t.replies[q] = old.replies[q]
  BY DEF Also
<1>2. t.past[p] = h /\ \A q \in DOMAIN old.replies : q # p => t.past[q] = old.past[q]
  BY DEF Also
<1>3. ASSUME NEW q \in DOMAIN s.replies \intersect DOMAIN t.replies,
             NEW peer \in DOMAIN s.replies[q].positions \intersect DOMAIN t.replies[q].positions
      PROVE  \E m \in Copied(q, s.replies[q].positions[peer]), n \in Copied(q, t.replies[q].positions[peer]) :
               Onward(m, s.past[q], n, t.past[q], <<q, peer>>)
  <2>1. CASE q # p
    <3>1. q \in DOMAIN old.replies /\ t.replies[q] = old.replies[q] /\ t.past[q] = old.past[q]
      BY <2>1, <1>1, <1>2, <1>3
    <3> QED
      BY <3>1, <1>3 DEF PairOk
  <2>2. CASE q = p
    <3>1. PICK m \in Copied(p, s.replies[p].positions[peer]) :
            Onward(m, s.past[p], g[p].done[peer], h, <<p, peer>>)
      BY <2>2, <1>3 DEF HistoryOk, AnswersOk
    <3>2. g[p].done[peer] \in Copied(p, r.positions[peer])
      BY <2>2, <1>1, <1>3 DEF Tells
    <3> QED
      BY <3>1, <3>2, <2>2, <1>1, <1>2
  <2> QED
    BY <2>1, <2>2
<1> QED
  BY <1>3 DEF PairOk

-----------------------------------------------------------------------------
(* The invariant holds.                                                     *)

LEMMA InitHistory == Init => HistoryInv
<1> SUFFICES ASSUME Init PROVE HistoryInv
  OBVIOUS
<1>1. DOMAIN pgs = Pg /\ \A p \in Pg : PgTyped(p, pgs[p])
  BY MeasureTyped DEF Init
<1>2. ASSUME NEW p \in Pg PROVE PgOk(p, pgs[p])
  <2>1. PICK pg : pg = pgs[p]
    OBVIOUS
  <2>2. PgTyped(p, pg)
    BY <1>1, <2>1
  <2>3. PgOk(p, pg)
    BY <2>2 DEF PgTyped, PgOk
  <2> QED
    BY <2>1, <2>3
<1>3. past \in Histories
  BY DEF Init, Histories
<1>4. Len(samples) = 0
  BY DEF Init
<1> QED
  BY <1>1, <1>2, <1>3, <1>4 DEF HistoryInv, PgsOk

\* What leaves the samples alone.
LEMMA CephHistory ==
  ASSUME FractionIsShare, HistoryInv, samples' = samples, PgsOk(pgs', past'), Goes(pgs, past, pgs', past')
  PROVE  HistoryInv'
<1>1. PICK g, h, now, f : g = pgs /\ h = past /\ now = pgs' /\ f = past'
  OBVIOUS
<1>2. PgsOk(g, h) /\ PgsOk(now, f) /\ Goes(g, h, now, f)
  BY <1>1 DEF HistoryInv
<1>3. ASSUME NEW k \in 1..Len(samples) PROVE HistoryOk(samples[k], now, f)
  <2>1. PICK s : s = samples[k]
    OBVIOUS
  <2>2. HistoryOk(s, g, h)
    BY <1>1, <1>3, <2>1 DEF HistoryInv
  <2> QED
    BY <2>1, <2>2, <1>2, HistoryKeeps
<1> QED
  BY <1>1, <1>2, <1>3 DEF HistoryInv

LEMMA StillHistory ==
  ASSUME HistoryInv, UNCHANGED <<pgs, past, samples>>
  PROVE  HistoryInv'
BY DEF HistoryInv

LEMMA TakeHistory ==
  ASSUME SamplingInv, HistoryInv, Take
  PROVE  HistoryInv'
<1>1. StageInv /\ SamplesInv
  BY DEF SamplingInv
<1>2. PICK n, new : n = Len(samples) + 1 /\ new = samples'[n]
  OBVIOUS
<1>3. /\ Len(samples') = n /\ n \in Nat
      /\ \A k \in 1..Len(samples) : samples'[k] = samples[k]
      /\ new = [stats |-> Stats, time |-> clock, asked |-> pending',
                replies |-> <<>>, failed |-> {}, before |-> past, past |-> <<>>]
  BY <1>1, <1>2, TakeFacts
<1>4. pgs' = pgs /\ past' = past
  BY DEF Take, cluster
<1>5. Len(samples) \in {0, 1} /\ n \in {1, 2}
  BY <1>1, <1>2 DEF StageInv, SamplesInv, Take
<1>6. PICK g, h : g = pgs /\ h = past
  OBVIOUS
<1>7. HistoryOk(new, g, h)
  <2>1. new.before = h /\ new.replies = <<>> /\ new.stats = Stats
    BY <1>3, <1>6
  <2>2. DOMAIN new.replies = {}
    BY <2>1
  <2>3. \A p \in Pg : new.stats[p].up = g[p].up /\ new.stats[p].acting = g[p].acting
    BY <2>1, <1>6 DEF Stats
  <2>4. PgsOk(g, h)
    BY <1>6 DEF HistoryInv
  <2> QED
    BY <2>1, <2>2, <2>3, <2>4, TakenOk
<1>8. ASSUME NEW k \in 1..n PROVE HistoryOk(samples'[k], g, h)
  <2>1. CASE k = n
    BY <2>1, <1>2, <1>7
  <2>2. CASE k # n
    <3>1. k \in 1..Len(samples) /\ samples'[k] = samples[k]
      BY <2>2, <1>2, <1>3, <1>5
    <3> QED
      BY <3>1, <1>6 DEF HistoryInv
  <2> QED
    BY <2>1, <2>2
<1>9. n = 2 => PairOk(samples'[1], samples'[2])
  <2>1. new.replies = <<>>
    BY <1>3
  <2>2. DOMAIN new.replies = {}
    BY <2>1
  <2> QED
    BY <2>2, <1>2 DEF PairOk
<1> QED
  BY <1>3, <1>4, <1>6, <1>8, <1>9 DEF HistoryInv

LEMMA ReplyHistory ==
  ASSUME FractionIsShare, SamplingInv, HistoryInv, NEW p \in Pg, Query(p) \/ QueryFails(p)
  PROVE  HistoryInv'
<1>1. StageInv /\ SamplesInv
  BY DEF SamplingInv
<1>2. PICK n, old : n = Len(samples) /\ old = samples[n]
  OBVIOUS
<1>3. PICK g, h : g = pgs /\ h = past
  OBVIOUS
<1>4. PICK r : r = [positions |-> PositionsOf(p, g[p]), time |-> clock]
  OBVIOUS
<1>5. PICK sample : /\ Reply(p, sample) /\ Answer(old, sample, p)
                    /\ \/ sample.replies = Also(old.replies, p, r)
                       \/ sample.replies = old.replies
  BY <1>2, <1>3, <1>4, QueryFacts
<1>6. PICK new : new = samples'[n]
  OBVIOUS
<1>7. /\ Len(samples') = n /\ n \in 1..2
      /\ \A k \in (1..n) \ {n} : samples'[k] = samples[k]
      /\ new.stats = old.stats /\ new.before = old.before /\ new.replies = sample.replies
      /\ new.past = Also(old.past, p, h)
      /\ p \in pending
  <2>1. IsSample(sample)
    BY <1>5 DEF Answer
  <2>2. /\ Len(samples') = n /\ n \in 1..2
        /\ \A k \in (1..n) \ {n} : samples'[k] = samples[k]
        /\ new = [stats |-> sample.stats, time |-> sample.time, asked |-> sample.asked,
                  replies |-> sample.replies, failed |-> sample.failed,
                  before |-> sample.before, past |-> Also(sample.past, p, past)]
        /\ p \in pending
    BY <2>1, <1>1, <1>2, <1>5, <1>6, ReplyFacts
  <2>3. /\ new.stats = sample.stats /\ new.before = sample.before /\ new.replies = sample.replies
        /\ new.past = Also(sample.past, p, past)
    BY <2>2
  <2> QED
    BY <2>2, <2>3, <1>3, <1>5 DEF Answer
<1>8. pgs' = g /\ past' = h
  BY <1>3, <1>5 DEF Reply, cluster
<1>9. PgsOk(g, h) /\ \A k \in 1..n : HistoryOk(samples[k], g, h)
  BY <1>2, <1>3 DEF HistoryInv
<1>10. SampleOk(old, args, clock) /\ AskedOk(old, pending)
  BY <1>1, <1>2, <1>7 DEF SamplesInv, Left
<1>11. DOMAIN old.replies \subseteq DOMAIN old.past /\ p \notin DOMAIN old.replies
  BY <1>7, <1>10 DEF SampleOk, AskedOk
<1>12. HistoryOk(old, g, h)
  BY <1>2, <1>7, <1>9
<1>13. CASE sample.replies = Also(old.replies, p, r)
  <2>1. r.positions = PositionsOf(p, g[p])
    BY <1>4
  <2>2. new.replies = Also(old.replies, p, r)
    BY <1>7, <1>13
  <2>3. HistoryOk(new, g, h) /\ Tells(p, r, g[p])
    BY <2>1, <2>2, <1>7, <1>9, <1>11, <1>12, AnswerOk
  <2>4. ASSUME n = 2 PROVE PairOk(samples[1], new)
    <3>1. PICK s : s = samples[1]
      OBVIOUS
    <3>2. PairOk(s, old) /\ HistoryOk(s, g, h)
      BY <2>4, <3>1, <1>2, <1>9 DEF HistoryInv
    <3> QED
      BY <3>1, <3>2, <2>2, <2>3, <1>7, <1>11, AnswerPairs
  <2> QED
    BY <2>3, <2>4, <1>2, <1>6, <1>7, <1>8, <1>9 DEF HistoryInv
<1>14. CASE sample.replies = old.replies
  <2>1. new.replies = old.replies
    BY <1>7, <1>14
  <2>2. HistoryOk(new, g, h)
    BY <2>1, <1>7, <1>11, <1>12, NoAnswerOk
  <2>3. ASSUME n = 2 PROVE PairOk(samples[1], new)
    <3>1. PICK s : s = samples[1]
      OBVIOUS
    <3>2. PairOk(s, old)
      BY <2>3, <3>1, <1>2 DEF HistoryInv
    <3>3. \A q \in DOMAIN old.replies : q # p
      BY <1>11
    <3>4. \A q \in DOMAIN old.replies : new.past[q] = old.past[q]
      BY <3>3, <1>7, <1>11 DEF Also
    <3>5. PairOk(s, new)
      BY <3>2, <3>4, <2>1 DEF PairOk
    <3> QED
      BY <3>1, <3>5
  <2> QED
    BY <2>2, <2>3, <1>2, <1>6, <1>7, <1>8, <1>9 DEF HistoryInv
<1> QED
  BY <1>5, <1>13, <1>14

LEMMA NextHistory ==
  ASSUME FractionIsShare, SamplingInv, HistoryInv, [Next]_vars
  PROVE  HistoryInv'
<1>1. CASE Change
  <2>1. PgsOk(pgs', past') /\ Goes(pgs, past, pgs', past')
    BY <1>1, ChangeGoes DEF HistoryInv
  <2>2. samples' = samples
    BY <1>1 DEF Change, Finish, Switch, Copy, Restart, Retarget, Changed, tool
  <2> QED
    BY <2>1, <2>2, CephHistory
<1>2. CASE Take
  BY <1>2, TakeHistory
<1>3. CASE \E p \in Pg : Query(p) \/ QueryFails(p)
  BY <1>3, ReplyHistory
<1>4. CASE Wait \/ Measure \/ Tick \/ UNCHANGED vars
  <2>1. UNCHANGED <<pgs, past, samples>>
    BY <1>4 DEF Wait, Measure, Tick, vars, cluster, tool
  <2> QED
    BY <2>1, StillHistory
<1> QED
  BY <1>1, <1>2, <1>3, <1>4 DEF Next, Run

LEMMA History == ASSUME FractionIsShare PROVE Spec => [](SamplingInv /\ HistoryInv)
<1>1. Init => SamplingInv /\ HistoryInv
  BY InitSampling, InitHistory
<1>2. (SamplingInv /\ HistoryInv) /\ [Next]_vars => (SamplingInv /\ HistoryInv)'
  BY NextSampling, NextHistory
<1> QED
  BY <1>1, <1>2, PTL DEF Spec

-----------------------------------------------------------------------------
(* The rates, and the reasons for there being none.                         *)

\* What a row of the result is made of.
RowMade(c, first, second) ==
  /\ Len(samples) = 2 /\ first = samples[1] /\ second = samples[2]
  /\ c \in RowsOf(args, second.stats, HostOf)
  /\ result.rows[c] = RateOf(first, RowsOf(args, first.stats, HostOf), second, c)
  /\ result.failed = Failed(samples)

LEMMA RowIs ==
  ASSUME SamplingInv, phase = "measured", NEW c \in DOMAIN result.rows
  PROVE  \E first, second : RowMade(c, first, second)
<1>1. PICK a, taken, rows, failed :
        /\ a = args /\ taken = samples /\ rows = result.rows /\ failed = result.failed
  OBVIOUS
<1>2. result = Plan(a, taken, HostOf) /\ Len(taken) \in {1, 2}
  BY <1>1 DEF SamplingInv, MeasuredInv, StageInv, SamplesInv
<1>3. PICK first, second : first = taken[1] /\ second = taken[2]
  OBVIOUS
<1>4. CASE Len(taken) = 1
  <2>1. PICK hidden, queried, lost, osds, hosts :
          /\ hidden = Cardinality(Movements(a, first.stats, HostOf) \ RowsOf(a, first.stats, HostOf))
          /\ queried = UNION {taken[i].asked : i \in DOMAIN taken}
          /\ lost = Failed(taken)
          /\ osds = Flows(<<>>, [o \in Osd |-> o]) /\ hosts = Flows(<<>>, HostOf)
    OBVIOUS
  <2>2. Plan(a, taken, HostOf) =
          [rows |-> <<>>, osds |-> osds, hosts |-> hosts, gone |-> 0,
           hidden |-> hidden, queried |-> queried, failed |-> lost]
    BY <2>1, <1>3, <1>4, PlanOfOne
  <2>3. rows = <<>>
    BY <2>2, <1>1, <1>2
  <2> QED
    BY <2>3, <1>1
<1>5. CASE Len(taken) = 2
  <2>1. PICK rated, hidden, queried, lost, osds, hosts, gone :
          /\ rated = Rates(a, first, second, HostOf)
          /\ hidden = Cardinality(Movements(a, second.stats, HostOf) \ RowsOf(a, second.stats, HostOf))
          /\ queried = UNION {taken[i].asked : i \in DOMAIN taken}
          /\ lost = Failed(taken)
          /\ osds = Flows(rated, [o \in Osd |-> o]) /\ hosts = Flows(rated, HostOf)
          /\ gone = CountGone(a, RowsOf(a, first.stats, HostOf), second.stats, HostOf)
    OBVIOUS
  <2>2. Plan(a, taken, HostOf) =
          [rows |-> rated, osds |-> osds, hosts |-> hosts, gone |-> gone,
           hidden |-> hidden, queried |-> queried, failed |-> lost]
    BY <2>1, <1>3, <1>5, PlanOfTwo
  <2>3. rows = rated /\ failed = lost
    BY <2>2, <1>1, <1>2
  <2>4. /\ c \in RowsOf(a, second.stats, HostOf)
        /\ rated[c] = RateOf(first, RowsOf(a, first.stats, HostOf), second, c)
    BY <2>1, <2>3, <1>1 DEF Rates
  <2> QED
    BY <2>1, <2>3, <2>4, <1>1, <1>3, <1>5 DEF RowMade
<1> QED
  BY <1>2, <1>4, <1>5

LEMMA CopyRateFacts ==
  ASSUME NEW b, NEW a, NEW seconds, NEW r, r = CopyRate(b, a, seconds)
  PROVE  /\ r.why = "measured" =>
              /\ r.seconds = seconds /\ r.delta = a.pct - b.pct
              /\ r.exact = a.exact /\ b.exact = a.exact
         /\ r.why = "backwards" => b.exact = a.exact /\ a.pct < b.pct
         /\ r.why = "mixed" => b.exact # a.exact
<1>1. CASE b.pct = Unknown \/ a.pct = Unknown \/ seconds = 0
  <2>1. r = NoRate("unknown")
    BY <1>1 DEF CopyRate
  <2>2. r.why = "unknown"
    BY <2>1 DEF NoRate
  <2> QED
    BY <2>2
<1>2. CASE ~ (b.pct = Unknown \/ a.pct = Unknown \/ seconds = 0)
  <2>1. CASE b.exact # a.exact
    <3>1. r = NoRate("mixed")
      BY <1>2, <2>1 DEF CopyRate
    <3>2. r.why = "mixed"
      BY <3>1 DEF NoRate
    <3> QED
      BY <3>2, <2>1
  <2>2. CASE b.exact = a.exact /\ a.pct < b.pct
    <3>1. r = NoRate("backwards")
      BY <1>2, <2>2 DEF CopyRate
    <3>2. r.why = "backwards"
      BY <3>1 DEF NoRate
    <3> QED
      BY <3>2, <2>2
  <2>3. CASE b.exact = a.exact /\ ~ (a.pct < b.pct)
    <3>1. PICK delta, toGo : delta = a.pct - b.pct /\ toGo = Full - a.pct
      OBVIOUS
    <3>2. r = [why |-> "measured", delta |-> delta, seconds |-> seconds, toGo |-> toGo, exact |-> a.exact]
      BY <3>1, <1>2, <2>3 DEF CopyRate
    <3>3. r.why = "measured" /\ r.delta = delta /\ r.seconds = seconds /\ r.exact = a.exact
      BY <3>2
    <3> QED
      BY <3>1, <3>3, <2>3
  <2> QED
    BY <2>1, <2>2, <2>3
<1> QED
  BY <1>1, <1>2

\* Where a row's PG answered, its progress is exact, and is what had arrived.
LEMMA KnownIsExact ==
  ASSUME FractionIsShare, NEW g, NEW h, NEW s, HistoryOk(s, g, h), NEW c, Known(s, c)
  PROVE  Progress(s, c) = [pct |-> Told(s, c), exact |-> TRUE]
<1>1. PICK p, peer : p = c[1] /\ peer = Peer(c)
  OBVIOUS
<1>2. p \in DOMAIN s.replies /\ peer \in DOMAIN s.replies[p].positions
  BY <1>1 DEF Known
<1>3. p \in Pg /\ \E m : m \in Copied(p, s.replies[p].positions[peer])
  BY <1>2 DEF HistoryOk, AnswersOk
<1>4. PICK m \in Nat, each \in Nat : each = Each(p) /\ Told(s, c) = m * each
  BY <1>1, <1>3, ShareFacts DEF Copied, Told
<1>5. m * each >= 0
  BY <1>4
<1>6. Told(s, c) # Unknown
  BY <1>4, <1>5 DEF Unknown
<1> QED
  BY <1>6, ProgressIs

LEMMA PairFacts ==
  ASSUME FractionIsShare, NEW g, NEW h, NEW s, NEW t, HistoryOk(s, g, h), HistoryOk(t, g, h), PairOk(s, t),
         NEW c \in Copies, Known(s, c), Known(t, c)
  PROVE  \E m \in Nat, n \in Nat, d \in Nat, r \in Nat :
           /\ Progress(s, c).pct = m * Each(c[1]) /\ Progress(t, c).pct = n * Each(c[1])
           /\ d = t.past[c[1]].arrived[Home(c)] - s.past[c[1]].arrived[Home(c)]
           /\ r = t.past[c[1]].restarts[Home(c)] - s.past[c[1]].restarts[Home(c)]
           /\ n <= m + d /\ (r = 0 => n = m + d)
<1>1. PICK p, peer : p = c[1] /\ peer = Peer(c)
  OBVIOUS
<1>2. /\ p \in DOMAIN s.replies /\ peer \in DOMAIN s.replies[p].positions
      /\ p \in DOMAIN t.replies /\ peer \in DOMAIN t.replies[p].positions
  BY <1>1 DEF Known
<1>3. PICK m \in Copied(p, s.replies[p].positions[peer]), n \in Copied(p, t.replies[p].positions[peer]) :
        Onward(m, s.past[p], n, t.past[p], <<p, peer>>)
  BY <1>2 DEF PairOk
<1>4. m \in Nat /\ n \in Nat /\ Told(s, c) = m * Each(p) /\ Told(t, c) = n * Each(p)
  BY <1>1, <1>3 DEF Copied, Told
<1>5. Progress(s, c).pct = m * Each(p) /\ Progress(t, c).pct = n * Each(p)
  BY <1>4, KnownIsExact
<1>6. PICK x \in Places : x = <<p, peer>> /\ x = Home(c)
  BY <1>1, CopiesFacts DEF Home
<1>7. s.past[p] \in Histories /\ t.past[p] \in Histories
  BY <1>2 DEF HistoryOk
<1>8. PICK sa \in Nat, sr \in Nat, ta \in Nat, tr \in Nat :
        /\ sa = s.past[p].arrived[x] /\ sr = s.past[p].restarts[x]
        /\ ta = t.past[p].arrived[x] /\ tr = t.past[p].restarts[x]
  BY <1>6, <1>7, HistoryTypes
<1>9. sa <= ta /\ sr <= tr /\ n <= m + (ta - sa) /\ (sr = tr => n = m + (ta - sa))
  BY <1>3, <1>6, <1>8 DEF Onward
<1>10. /\ ta - sa \in Nat /\ tr - sr \in Nat
       /\ n <= m + (ta - sa) /\ (tr - sr = 0 => n = m + (ta - sa))
  BY <1>4, <1>9
<1> QED
  BY <1>1, <1>4, <1>5, <1>6, <1>8, <1>10

LEMMA Shares ==
  ASSUME NEW m \in Nat, NEW n \in Nat, NEW d \in Nat, NEW e \in Nat,
         NEW delta, delta = n * e - m * e, NEW came, came = d * e, n <= m + d
  PROVE  delta <= came /\ (n = m + d => delta = came)
<1>1. (m + d) * e = m * e + d * e
  OBVIOUS
<1>2. PICK k \in Nat : m + d = n + k
  <2>1. m + d - n \in Nat /\ m + d = n + (m + d - n)
    OBVIOUS
  <2> QED
    BY <2>1
<1>3. (n + k) * e = n * e + k * e /\ k * e >= 0
  OBVIOUS
<1>4. m * e \in Int /\ n * e \in Int /\ d * e \in Int /\ k * e \in Int
  OBVIOUS
<1>5. delta <= came
  BY <1>1, <1>2, <1>3, <1>4
<1>6. n = m + d => delta = came
  BY <1>1, <1>4
<1> QED
  BY <1>5, <1>6

LEMMA FewerShares ==
  ASSUME NEW m \in Nat, NEW n \in Nat, NEW e \in Nat, n * e < m * e
  PROVE  n < m
<1>1. ASSUME m <= n PROVE m * e <= n * e
  <2>1. n - m \in Nat /\ n = m + (n - m)
    BY <1>1
  <2>2. PICK k \in Nat : n = m + k
    BY <2>1
  <2>3. (m + k) * e = m * e + k * e /\ k * e >= 0
    OBVIOUS
  <2> QED
    BY <2>2, <2>3
<1>2. m * e \in Int /\ n * e \in Int
  OBVIOUS
<1> QED
  BY <1>1, <1>2

\* Where a row's PG was asked and did not fail to answer, the copy is known or ended meanwhile.
LEMMA AnsweredOrEnded ==
  ASSUME SamplingInv, NEW g, NEW h, phase = "measured", NEW k \in 1..Len(samples), NEW s, s = samples[k],
         HistoryOk(s, g, h), NEW c \in RowsOf(args, s.stats, HostOf), c[1] \notin Failed(samples)
  PROVE  /\ c \in Copies
         /\ Known(s, c) \/ s.before.ended[Home(c)] < s.past[c[1]].ended[Home(c)]
<1>1. PICK p, peer : p = c[1] /\ peer = Peer(c)
  OBVIOUS
<1>2. SampleOk(s, args, clock) /\ AskedOk(s, Left(k))
  BY DEF SamplingInv, SamplesInv
<1>3. Left(k) = {}
  BY DEF SamplingInv, StageInv, Left
<1>4. p \in s.asked
  BY <1>1, <1>2, RowsFacts DEF SampleOk
<1>5. s.failed \subseteq Failed(samples)
  BY DEF Failed, SamplingInv, SamplesInv, IsSeq
<1>6. p \in DOMAIN s.replies
  BY <1>1, <1>2, <1>3, <1>4, <1>5 DEF AskedOk, SampleOk
<1>7. c \in Copies /\ peer \in Targets(p, s.stats[p])
  <2>1. c \in Copies
    BY RowsFacts
  <2> QED
    BY <2>1, <1>1, RowsFacts
<1>8. peer \in DOMAIN s.replies[p].positions \/ s.before.ended[<<p, peer>>] < s.past[p].ended[<<p, peer>>]
  BY <1>6, <1>7 DEF HistoryOk, AnswersOk
<1> QED
  BY <1>1, <1>6, <1>7, <1>8 DEF Known, Home

\* What two samples say of the state they are in.
LEMMA SamplesFacts ==
  ASSUME SamplingInv, HistoryInv, NEW c, NEW first, NEW second, RowMade(c, first, second)
  PROVE  /\ SampleOk(first, args, clock) /\ SampleOk(second, args, clock)
         /\ HistoryOk(first, pgs, past) /\ HistoryOk(second, pgs, past)
         /\ PairOk(first, second)
         /\ 1 \in 1..Len(samples) /\ 2 \in 1..Len(samples)
<1>1. Len(samples) = 2 /\ first = samples[1] /\ second = samples[2]
  BY DEF RowMade
<1>2. 1 \in 1..Len(samples) /\ 2 \in 1..Len(samples)
  BY <1>1
<1>3. SampleOk(samples[1], args, clock) /\ SampleOk(samples[2], args, clock)
  BY <1>2 DEF SamplingInv, SamplesInv
<1>4. HistoryOk(samples[1], pgs, past) /\ HistoryOk(samples[2], pgs, past)
  BY <1>2 DEF HistoryInv
<1>5. PairOk(samples[1], samples[2])
  BY <1>1 DEF HistoryInv
<1> QED
  BY <1>1, <1>2, <1>3, <1>4, <1>5

\* The time between the readings of a row.
LEMMA LongEnough ==
  ASSUME SamplingInv, HistoryInv, NEW c, NEW first, NEW second, RowMade(c, first, second)
  PROVE  ProgressTime(second, c) - ProgressTime(first, c) >= Interval
<1>1. Len(samples) = 2 /\ first = samples[1] /\ second = samples[2]
  BY DEF RowMade
<1>2. SampleOk(first, args, clock) /\ SampleOk(second, args, clock)
  BY SamplesFacts
<1>3. PICK a \in Int, b \in Int : /\ a = ProgressTime(first, c) /\ a \in TimesOf(first)
                                 /\ b = ProgressTime(second, c) /\ b \in TimesOf(second)
  BY <1>2, TimeIs
<1>4. a + Interval <= wake /\ wake <= b
  BY <1>1, <1>3 DEF SamplingInv, WakeInv
<1>5. wake \in Int /\ Interval \in Int
  BY MeasureTyped DEF SamplingInv, StageInv
<1> QED
  BY <1>3, <1>4, <1>5

\* Every row is measured over at least the interval, and a rate that is exact is that of what
\* arrived on the row's OSD between the two readings, and of less if the backfill started over
\* in between, whatever else became of the PG.
THEOREM RatesAreArrivals == ASSUME FractionIsShare PROVE Spec => []RateIsArrival
<1>1. ASSUME SamplingInv, HistoryInv PROVE RateIsArrival
  <2> SUFFICES ASSUME phase = "measured", NEW c \in Rated
               PROVE  /\ result.rows[c].seconds >= Interval
                      /\ result.rows[c].exact =>
                           LET came == Between("arrived", c) * (Full \div Size(c[1]))
                           IN  IF Between("restarts", c) = 0 THEN result.rows[c].delta = came
                               ELSE result.rows[c].delta <= came
    BY DEF RateIsArrival
  <2>1. c \in DOMAIN result.rows
    BY DEF Rated
  <2>2. PICK first, second : RowMade(c, first, second)
    BY <2>1, <1>1, RowIs
  <2>3. PICK g, h, r, p : g = pgs /\ h = past /\ r = result.rows[c] /\ p = c[1]
    OBVIOUS
  <2>4. /\ HistoryOk(first, g, h) /\ HistoryOk(second, g, h) /\ PairOk(first, second)
        /\ SampleOk(first, args, clock) /\ SampleOk(second, args, clock)
    BY <2>2, <2>3, <1>1, SamplesFacts
  <2>5. PICK b, a, seconds : /\ b = Progress(first, c) /\ a = Progress(second, c)
                             /\ seconds = ProgressTime(second, c) - ProgressTime(first, c)
    OBVIOUS
  <2>6. r.why = "measured"
    BY <2>3 DEF Rated
  <2>7. r = CopyRate(b, a, seconds)
    <3>1. PICK shown : shown = RowsOf(args, first.stats, HostOf)
      OBVIOUS
    <3>2. r = IF c \notin shown THEN NoRate("new") ELSE CopyRate(b, a, seconds)
      BY <2>2, <2>3, <2>5, <3>1, RateIs DEF RowMade
    <3>3. NoRate("new").why = "new"
      BY DEF NoRate
    <3> QED
      BY <3>2, <3>3, <2>6
  <2>8. r.seconds = seconds /\ r.delta = a.pct - b.pct /\ r.exact = a.exact /\ b.exact = a.exact
    BY <2>6, <2>7, CopyRateFacts
  <2>9. seconds >= Interval
    BY <2>2, <2>5, <1>1, LongEnough
  <2>10. ASSUME r.exact
         PROVE  LET came == Between("arrived", c) * (Full \div Size(c[1]))
                IN  IF Between("restarts", c) = 0 THEN r.delta = came ELSE r.delta <= came
    <3>1. a.exact /\ b.exact
      BY <2>8, <2>10
    <3>2. Known(first, c) /\ Known(second, c)
      BY <3>1, <2>5, ProgressIs
    <3>3. c \in Copies
      BY <2>2, RowsFacts DEF RowMade
    <3>4. PICK m \in Nat, n \in Nat, d \in Nat, t \in Nat :
            /\ b.pct = m * Each(p) /\ a.pct = n * Each(p)
            /\ d = second.past[p].arrived[Home(c)] - first.past[p].arrived[Home(c)]
            /\ t = second.past[p].restarts[Home(c)] - first.past[p].restarts[Home(c)]
            /\ n <= m + d /\ (t = 0 => n = m + d)
      BY <3>2, <3>3, <2>3, <2>4, <2>5, PairFacts
    <3>5. Between("arrived", c) = d /\ Between("restarts", c) = t
      BY <3>4, <2>2, <2>3 DEF Between, RowMade, Home, Peer
    <3>6. PICK e \in Nat : e = Each(p) /\ e = Full \div Size(c[1])
      <4>1. p \in Pg
        BY <3>3, <2>3, CopiesFacts
      <4> QED
        BY <4>1, <2>3, ShareFacts DEF Each
    <3>7. r.delta = n * e - m * e
      BY <3>4, <3>6, <2>8
    <3>8. PICK delta, came : delta = r.delta /\ came = d * e
      OBVIOUS
    <3>9. delta <= came /\ (n = m + d => delta = came)
      BY <3>4, <3>7, <3>8, Shares
    <3> QED
      BY <3>4, <3>5, <3>6, <3>8, <3>9
  <2> QED
    BY <2>3, <2>8, <2>9, <2>10
<1> QED
  BY <1>1, History, PTL

\* What the footnotes say of a row without a rate is what happened: it started over, or a
\* query failed that is reported, or it was re-targeted while a sample was taken.
THEOREM ReasonsAreGiven == ASSUME FractionIsShare PROVE Spec => []ReasonsAreTrue
<1>1. ASSUME SamplingInv, HistoryInv PROVE ReasonsAreTrue
  <2> SUFFICES ASSUME phase = "measured", NEW c \in DOMAIN result.rows
               PROVE  LET x == <<c[1], <<c[3], c[2]>>>>
                          row == result.rows[c]
                          midway(k) == samples[k].past[c[1]].ended[x] > samples[k].before.ended[x]
                      IN  /\ row.why = "backwards" /\ c[1] \notin result.failed =>
                               Between("restarts", c) > 0 \/ \E k \in {1, 2} : midway(k)
                          /\ row.why = "mixed" => c[1] \in result.failed \/ \E k \in {1, 2} : midway(k)
    BY DEF ReasonsAreTrue
  <2>2. PICK first, second : RowMade(c, first, second)
    BY <1>1, RowIs
  <2>3. PICK g, h, r, p, x : g = pgs /\ h = past /\ r = result.rows[c] /\ p = c[1] /\ x = Home(c)
    OBVIOUS
  <2>4. /\ HistoryOk(first, g, h) /\ HistoryOk(second, g, h) /\ PairOk(first, second)
        /\ 1 \in 1..Len(samples) /\ 2 \in 1..Len(samples)
    BY <2>2, <2>3, <1>1, SamplesFacts
  <2>5. PICK b, a, seconds : /\ b = Progress(first, c) /\ a = Progress(second, c)
                             /\ seconds = ProgressTime(second, c) - ProgressTime(first, c)
    OBVIOUS
  <2>6. \/ r.why = "new"
        \/ c \in RowsOf(args, first.stats, HostOf) /\ r = CopyRate(b, a, seconds)
    <3>1. PICK shown : shown = RowsOf(args, first.stats, HostOf)
      OBVIOUS
    <3>2. r = IF c \notin shown THEN NoRate("new") ELSE CopyRate(b, a, seconds)
      BY <2>2, <2>3, <2>5, <3>1, RateIs DEF RowMade
    <3>3. NoRate("new").why = "new"
      BY DEF NoRate
    <3> QED
      BY <3>1, <3>2, <3>3
  <2>7. result.failed = Failed(samples) /\ first = samples[1] /\ second = samples[2]
        /\ c \in RowsOf(args, second.stats, HostOf)
    BY <2>2 DEF RowMade
  <2>8. ASSUME r.why \in {"backwards", "mixed"}, p \notin result.failed
        PROVE  \/ first.before.ended[x] < first.past[p].ended[x]
               \/ second.before.ended[x] < second.past[p].ended[x]
               \/ r.why = "backwards" /\ Between("restarts", c) > 0
    <3>1. c \in RowsOf(args, first.stats, HostOf) /\ r = CopyRate(b, a, seconds)
      BY <2>6, <2>8
    <3>2. /\ c \in Copies
          /\ Known(first, c) \/ first.before.ended[x] < first.past[p].ended[x]
          /\ Known(second, c) \/ second.before.ended[x] < second.past[p].ended[x]
      <4>1. c[1] \notin Failed(samples)
        BY <2>3, <2>7, <2>8
      <4>2. c \in Copies /\ (Known(first, c) \/ first.before.ended[x] < first.past[p].ended[x])
        BY <4>1, <3>1, <2>3, <2>4, <2>7, <1>1, AnsweredOrEnded
      <4>3. Known(second, c) \/ second.before.ended[x] < second.past[p].ended[x]
        BY <4>1, <2>3, <2>4, <2>7, <1>1, AnsweredOrEnded
      <4> QED
        BY <4>2, <4>3
    <3>3. CASE Known(first, c) /\ Known(second, c)
      <4>1. b.exact = TRUE /\ a.exact = TRUE
        BY <3>3, <2>4, <2>5, KnownIsExact
      <4>2. r.why = "backwards" /\ a.pct < b.pct
        BY <4>1, <3>1, <2>8, CopyRateFacts
      <4>3. PICK m \in Nat, n \in Nat, d \in Nat, t \in Nat :
              /\ b.pct = m * Each(p) /\ a.pct = n * Each(p)
              /\ d = second.past[p].arrived[Home(c)] - first.past[p].arrived[Home(c)]
              /\ t = second.past[p].restarts[Home(c)] - first.past[p].restarts[Home(c)]
              /\ n <= m + d /\ (t = 0 => n = m + d)
        BY <3>2, <3>3, <2>3, <2>4, <2>5, PairFacts
      <4>4. Between("restarts", c) = t
        BY <4>3, <2>3, <2>7 DEF Between, Home, Peer
      <4>5. PICK e \in Nat : e = Each(p)
        <5>1. p \in Pg
          BY <3>2, <2>3, CopiesFacts
        <5> QED
          BY <5>1, ShareFacts
      <4>6. n < m
        <5>1. n * e < m * e
          BY <4>2, <4>3, <4>5
        <5> QED
          BY <5>1, FewerShares
      <4>7. t > 0
        BY <4>3, <4>6
      <4> QED
        BY <4>2, <4>4, <4>7
    <3> QED
      BY <3>2, <3>3
  <2>9. x = <<c[1], <<c[3], c[2]>>>>
    BY <2>3 DEF Home, Peer
  <2>10. ASSUME NEW k \in {1, 2}, samples[k].before.ended[x] < samples[k].past[p].ended[x]
         PROVE  samples[k].past[p].ended[x] > samples[k].before.ended[x]
    BY <2>10
  <2>11. r.why \in {"backwards", "mixed"} /\ p \notin result.failed =>
           \/ \E k \in {1, 2} : samples[k].past[p].ended[x] > samples[k].before.ended[x]
           \/ r.why = "backwards" /\ Between("restarts", c) > 0
    BY <2>7, <2>8, <2>10
  <2> QED
    BY <2>3, <2>9, <2>11
<1> QED
  BY <1>1, History, PTL
=============================================================================
