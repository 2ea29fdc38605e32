--------------------------- MODULE VerdictsProofs ---------------------------
(***************************************************************************)
(* The verdict processor, for any partitions and logs, any number of       *)
(* consumers, batch sizes, retries, faults, rebalances and cancellations.  *)
(***************************************************************************)
EXTENDS Verdicts, SequenceTheorems, WellFoundedInduction, TLAPS

-----------------------------------------------------------------------------
(* Verdicts and offsets. *)

LEMMA VerdictIsPair ==
    /\ \A v \in Verdict : /\ v[1] \in Partition /\ v[2] \in 1..Len(Log[v[1]])
                          /\ v = <<v[1], v[2]>> /\ v # <<>>
                          /\ Of(v).msg \in Message /\ Of(v).status \in Status
    /\ \A p \in Partition : Len(Log[p]) \in Nat
    /\ \A p \in Partition, o \in Nat : 1 <= o /\ o <= Len(Log[p]) => <<p, o>> \in Verdict
    /\ \A p \in Partition, o \in Nat : <<p, o>>[1] = p /\ <<p, o>>[2] = o
<1>1. \A p \in Partition : Log[p] \in Seq([msg : Message, status : Status])
  BY VerdictsAssumption
<1>2. ASSUME NEW p \in Partition
      PROVE  /\ Len(Log[p]) \in Nat
             /\ \A o \in 1..Len(Log[p]) : Log[p][o] \in [msg : Message, status : Status]
  <2>1. PICK l \in Seq([msg : Message, status : Status]) : l = Log[p]
    BY <1>1
  <2>2. Len(l) \in Nat /\ \A o \in 1..Len(l) : l[o] \in [msg : Message, status : Status]
    BY ElementOfSeq, LenProperties
  <2> QED
    BY <2>1, <2>2
<1>3. \A v \in Verdict : \E p \in Partition : \E o \in 1..Len(Log[p]) : v = <<p, o>>
  BY DEF Verdict
<1>4. \A p \in Partition : \A o \in 1..Len(Log[p]) : <<p, o>> \in Verdict
  BY DEF Verdict
<1>5. ASSUME NEW v \in Verdict
      PROVE  /\ v[1] \in Partition /\ v[2] \in 1..Len(Log[v[1]])
             /\ v = <<v[1], v[2]>> /\ v # <<>>
             /\ Of(v).msg \in Message /\ Of(v).status \in Status
  <2>1. PICK p \in Partition : \E o \in 1..Len(Log[p]) : v = <<p, o>>
    BY <1>3
  <2>2. PICK o \in 1..Len(Log[p]) : v = <<p, o>>
    BY <2>1
  <2>3. Log[p][o] \in [msg : Message, status : Status]
    BY <1>2
  <2> QED
    BY <2>2, <2>3 DEF Of
<1> QED
  BY <1>2, <1>4, <1>5

(* A set of offsets has a highest one. *)
LEMMA HighestIsIn ==
    ASSUME NEW n \in Nat, NEW S \in SUBSET (0..n), S # {}
    PROVE  Highest(S) \in S /\ \A y \in S : y <= Highest(S)
<1> DEFINE Below == OpToRel(<, Nat)
           T == {m \in 0..n : n - m \in S}
<1>1. IsWellFoundedOn(Below, Nat)
  BY NatLessThanWellFounded
<1>2. Below = {ss \in Nat \X Nat : ss[1] < ss[2]}
  BY DEF OpToRel
<1>3. T # {}
  <2>1. PICK s \in S : s \in 0..n
    OBVIOUS
  <2>2. n - s \in 0..n /\ n - (n - s) = s
    BY <2>1
  <2>3. n - s \in T
    BY <2>1, <2>2
  <2> QED
    BY <2>3
<1> HIDE DEF Below
<1>4. PICK x \in T : \A y \in T : ~ (<<y, x>> \in Below)
  BY <1>1, <1>3, T \subseteq Nat, WFMin
<1>5. \A y \in T : ~(y < x)
  BY <1>2, <1>4, T \subseteq Nat
<1>6. n - x \in S
  BY <1>4
<1>7. ASSUME NEW y \in S PROVE y <= n - x
  <2>1. n - y \in 0..n /\ n - (n - y) = y /\ x \in 0..n
    BY <1>4
  <2>2. n - y \in T
    BY <2>1
  <2> HIDE DEF T
  <2>3. ~(n - y < x)
    BY <1>5, <2>2
  <2> QED
    BY <2>1, <2>3
<1> QED
  BY <1>6, <1>7 DEF Highest

LEMMA OffsetsOfPartition ==
    ASSUME TypeOK, NEW c \in Consumer, NEW p \in Partition, OffsetsIn(batch[c], p) # {}
    PROVE  /\ <<p, Highest(OffsetsIn(batch[c], p))>> \in Held(c)
           /\ Highest(OffsetsIn(batch[c], p)) \in 1..Len(Log[p])
<1> DEFINE S == OffsetsIn(batch[c], p)
<1>1. batch[c] \in Seq(Verdict)
  BY DEF TypeOK
<1>2. \A x \in 1..Len(batch[c]) : batch[c][x] \in Verdict
  BY <1>1
<1>3. /\ \A o \in S : o \in 1..Len(Log[p])
      /\ \A o \in S : <<p, o>> \in Held(c)
  BY <1>2, VerdictIsPair DEF OffsetsIn, Held
<1>4. Len(Log[p]) \in Nat
  BY VerdictIsPair
<1> HIDE DEF S
<1>5. S \in SUBSET (0..Len(Log[p])) /\ S # {}
  <2>1. S # {}
    BY DEF S
  <2>2. ASSUME NEW o \in S PROVE o \in 0..Len(Log[p])
    <3>1. PICK l \in Nat : l = Len(Log[p])
      BY <1>4
    <3>2. o \in 1..l
      BY <1>3, <3>1
    <3> QED
      BY <3>1, <3>2
  <2> QED
    BY <2>1, <2>2
<1>6. Highest(S) \in S
  BY <1>4, <1>5, HighestIsIn
<1> QED
  BY <1>3, <1>6 DEF S

-----------------------------------------------------------------------------
(* Types and stages.  What a consumer has in hand is one part of the state, *)
(* what the database and Kafka keep is the other.                          *)

KafkaTypes ==
    /\ committed \in [Partition -> Nat] /\ fetched \in [Partition -> Nat]
    /\ \A p \in Partition : committed[p] <= Len(Log[p]) /\ fetched[p] <= Len(Log[p])
    /\ owner \in [Partition -> Consumer \cup {Nobody}]

WorkTypes ==
    /\ hand \in [Consumer -> Verdict \cup {<<>>}]
    /\ fetcher \in [Consumer -> {"run", "failed", "gone"}]
    /\ pc \in [Consumer -> {"collect", "check", "process", "dlq", "commit", "exited"}]
    /\ batch \in [Consumer -> Seq(Verdict)]
    /\ \A c \in Consumer : Len(batch[c]) <= BatchSize
    /\ i \in [Consumer -> Nat] /\ tries \in [Consumer -> 0..Retries]

TableTypes ==
    /\ visible \subseteq Message /\ blocked \subseteq Message
    /\ sentJobs \in [Message -> Nat] /\ blockedJobs \in [Message -> Nat]
    /\ applied \in [Verdict -> Nat]
    /\ dlq \subseteq Verdict /\ dropped \subseteq Verdict

BoundTypes ==
    /\ proc \in {"up", "stopping", "down"}
    /\ faults \in 0..MaxFaults /\ moves \in 0..MaxMoves
    /\ cancels \in 0..MaxCancels /\ fetchErrors \in 0..MaxFetchErrors

LEMMA Numbers ==
    /\ BatchSize \in Nat /\ BatchSize > 0 /\ Retries \in Nat /\ Retries > 0
    /\ MaxFaults \in Nat /\ MaxMoves \in Nat /\ MaxCancels \in Nat /\ MaxFetchErrors \in Nat
BY VerdictsAssumption

LEMMA CurrentIsVerdict ==
    ASSUME TypeOK, Stages, NEW c \in Consumer, pc[c] \in {"process", "dlq"}
    PROVE  /\ Current(c) \in Verdict /\ i[c] \in 1..Len(batch[c]) /\ Len(batch[c]) \in Nat
           /\ Of(Current(c)).msg \in Message
<1>1. batch[c] \in Seq(Verdict) /\ i[c] \in 1..Len(batch[c])
  BY DEF TypeOK, Stages
<1>2. batch[c][i[c]] \in Verdict /\ Len(batch[c]) \in Nat
  BY <1>1, ElementOfSeq, LenProperties
<1> QED
  BY <1>1, <1>2, VerdictIsPair DEF Current

LEMMA FetchTypes ==
    ASSUME TypeOK, Stages, NEW c \in Consumer, Fetch(c)
    PROVE  TypeOK' /\ Stages'
<1>1. PICK p \in Partition :
             /\ owner[p] = c /\ fetched[p] < Len(Log[p])
             /\ fetched' = [fetched EXCEPT ![p] = @ + 1]
             /\ hand' = [hand EXCEPT ![c] = <<p, fetched[p] + 1>>]
  BY DEF Fetch
<1>2. fetched[p] \in Nat /\ Len(Log[p]) \in Nat
  BY VerdictIsPair DEF TypeOK
<1>3. PICK o \in Nat : o = fetched[p] + 1
  BY <1>2
<1>4. 1 <= o /\ o <= Len(Log[p])
  BY <1>1, <1>2, <1>3
<1>5. <<p, o>> \in Verdict
  BY <1>4, VerdictIsPair
<1>6. KafkaTypes'
  <2>1. KafkaTypes /\ UNCHANGED <<committed, owner>>
    BY DEF Fetch, TypeOK, KafkaTypes
  <2>2. fetched[p] + 1 \in Nat /\ fetched[p] + 1 <= Len(Log[p])
    BY <1>2, <1>3, <1>4
  <2> QED
    BY <1>1, <2>1, <2>2 DEF KafkaTypes
<1>7. WorkTypes'
  <2>1. PICK w \in Verdict : w = <<p, o>>
    BY <1>5
  <2>2. hand' = [hand EXCEPT ![c] = w]
    BY <1>1, <1>3, <2>1
  <2> QED
    BY <2>2 DEF Fetch, TypeOK, WorkTypes
<1>8. TableTypes' /\ BoundTypes'
  BY DEF Fetch, TypeOK, TableTypes, BoundTypes, tables, letters, bounds
<1> QED
  BY <1>6, <1>7, <1>8 DEF TypeOK, KafkaTypes, WorkTypes, TableTypes, BoundTypes, Fetch, Stages

LEMMA WaitTypes ==
    ASSUME TypeOK, Stages, NEW c \in Consumer,
           FetchFails(c) \/ BatchTimeout(c) \/ Reject(c) \/ EmptyBatch(c)
    PROVE  TypeOK' /\ Stages'
<1> USE Numbers
<1>1. BoundTypes'
  BY DEF FetchFails, BatchTimeout, Reject, EmptyBatch, TypeOK, BoundTypes, bounds, vars
<1>2. /\ UNCHANGED <<kafka, tables, letters, proc, batch, i, tries, hand>>
      /\ fetcher' = fetcher \/ fetcher' = [fetcher EXCEPT ![c] = "failed"]
      /\ pc' = pc \/ pc' = [pc EXCEPT ![c] = "check"] \/ pc' = [pc EXCEPT ![c] = "dlq"]
  BY DEF FetchFails, BatchTimeout, Reject, EmptyBatch, GoTo, vars, consumers
<1>3. TypeOK'
  BY <1>1, <1>2 DEF TypeOK, BoundTypes, kafka, tables, letters
<1>4. \A d \in Consumer : pc'[d] = pc[d] \/ pc'[d] = "check" \/ (pc'[d] = "dlq" /\ pc[d] = "process")
  BY DEF FetchFails, BatchTimeout, Reject, EmptyBatch, GoTo, TypeOK, vars, consumers
<1> QED
  BY <1>2, <1>3, <1>4 DEF Stages, kafka

LEMMA CollectTypes ==
    ASSUME TypeOK, Stages, NEW c \in Consumer, Collect(c)
    PROVE  /\ TypeOK' /\ Stages'
           /\ Len(batch'[c]) = Len(batch[c]) + 1 /\ batch'[c][Len(batch[c]) + 1] = hand[c]
           /\ \A x \in 1..Len(batch[c]) : batch'[c][x] = batch[c][x]
<1> USE Numbers
<1>1. batch[c] \in Seq(Verdict) /\ hand[c] \in Verdict /\ Len(batch[c]) \in Nat
  BY DEF Collect, TypeOK
<1>2. PICK b \in Seq(Verdict) : b = Append(batch[c], hand[c])
  BY <1>1, AppendProperties
<1>3. /\ Len(b) = Len(batch[c]) + 1 /\ b[Len(batch[c]) + 1] = hand[c]
      /\ \A x \in 1..Len(batch[c]) : b[x] = batch[c][x]
  BY <1>1, <1>2, AppendProperties
<1>4. /\ pc[c] = "collect" /\ batch' = [batch EXCEPT ![c] = b] /\ hand' = [hand EXCEPT ![c] = <<>>]
      /\ IF Len(b) = BatchSize THEN pc' = [pc EXCEPT ![c] = "check"] ELSE pc' = pc
      /\ UNCHANGED <<kafka, fetcher, i, tries, tables, letters, proc, bounds>>
  <2>1. batch' = [batch EXCEPT ![c] = b] /\ batch'[c] = b
    BY <1>2 DEF Collect, AppendTo, TypeOK
  <2> QED
    BY <2>1 DEF Collect, GoTo
<1>5. Len(batch[c]) < BatchSize
  BY <1>4 DEF Stages
<1>6. WorkTypes'
  <2>1. Len(b) <= BatchSize
    BY <1>1, <1>3, <1>5
  <2> QED
    BY <1>4, <2>1 DEF TypeOK, WorkTypes
<1>7. TypeOK'
  BY <1>4, <1>6 DEF TypeOK, WorkTypes, kafka, tables, letters, bounds
<1>8. Stages'
  BY <1>1, <1>3, <1>4, <1>5 DEF Stages, TypeOK, kafka
<1> QED
  BY <1>3, <1>4, <1>7, <1>8 DEF TypeOK

LEMMA LeaveTypes ==
    ASSUME TypeOK, Stages, NEW c \in Consumer, SeeFetchError(c) \/ CheckContext(c)
    PROVE  TypeOK' /\ Stages'
<1> USE Numbers
<1>1. <<>> \in Seq(Verdict) /\ Len(<<>>) = 0
  OBVIOUS
<1>2. batch[c] \in Seq(Verdict) /\ Len(batch[c]) \in Nat /\ (Len(batch[c]) = 0 => batch[c] = <<>>)
  BY EmptySeq DEF TypeOK
<1>3. UNCHANGED <<tables, letters, proc, bounds, committed, fetched>>
  BY DEF SeeFetchError, CheckContext, Leave, kafka
<1>4. CASE Leave(c)
  <2>1. WorkTypes'
    BY <1>1, <1>4 DEF Leave, GoTo, TypeOK, WorkTypes
  <2>2. KafkaTypes' /\ (proc = "down" => \A p \in Partition : owner'[p] = Nobody)
    BY <1>4 DEF Leave, TypeOK, KafkaTypes, Stages
  <2>3. TypeOK'
    BY <1>3, <2>1, <2>2 DEF TypeOK, KafkaTypes, WorkTypes, tables, letters, bounds
  <2> QED
    BY <1>3, <1>4, <2>2, <2>3 DEF Stages, Leave, GoTo, TypeOK
<1>5. CASE CheckContext(c) /\ ~Leave(c)
  <2>1. /\ pc' = [pc EXCEPT ![c] = IF batch[c] = <<>> THEN "collect" ELSE "process"]
        /\ i' = [i EXCEPT ![c] = 1] /\ tries' = [tries EXCEPT ![c] = 0]
        /\ UNCHANGED <<kafka, hand, fetcher, batch>>
    BY <1>5 DEF CheckContext, GoTo
  <2>2. WorkTypes'
    BY <2>1 DEF TypeOK, WorkTypes
  <2>3. TypeOK'
    BY <1>3, <2>1, <2>2 DEF TypeOK, WorkTypes, tables, letters, bounds, kafka
  <2>4. Len(batch[c]) = 0 \/ (batch[c] # <<>> /\ Len(batch[c]) > 0)
    BY <1>2
  <2>5. /\ pc'[c] = "collect" => Len(batch[c]) < BatchSize
        /\ pc'[c] = "process" => Len(batch[c]) >= 1
        /\ pc'[c] \in {"collect", "process"} /\ i'[c] = 1 /\ tries'[c] = 0
    BY <1>1, <2>1, <2>4 DEF TypeOK
  <2>6. \A d \in Consumer \ {c} : pc'[d] = pc[d] /\ i'[d] = i[d] /\ tries'[d] = tries[d]
    BY <2>1 DEF TypeOK
  <2> QED
    BY <1>2, <1>3, <2>1, <2>3, <2>5, <2>6 DEF Stages, kafka
<1> QED
  BY <1>4, <1>5 DEF SeeFetchError

LEMMA AdvanceTypes ==
    ASSUME TypeOK, Stages, NEW c \in Consumer, pc[c] \in {"process", "dlq"}, Advance(c),
           UNCHANGED <<kafka, hand, fetcher, batch, proc>>
    PROVE  KafkaTypes' /\ WorkTypes' /\ Stages'
<1> USE Numbers
<1>1. i[c] \in 1..Len(batch[c]) /\ Len(batch[c]) \in Nat /\ i[c] \in Nat
  BY CurrentIsVerdict DEF TypeOK
<1>2. /\ pc' = [pc EXCEPT ![c] = IF i[c] = Len(batch[c]) THEN "commit" ELSE "process"]
      /\ i' = [i EXCEPT ![c] = i[c] + 1] /\ tries' = [tries EXCEPT ![c] = 0]
  BY DEF Advance, GoTo
<1>3. WorkTypes'
  BY <1>1, <1>2 DEF TypeOK, WorkTypes
<1>4. KafkaTypes'
  BY DEF TypeOK, KafkaTypes, kafka
<1>5. /\ pc'[c] = "commit" => i'[c] = Len(batch[c]) + 1
      /\ pc'[c] = "process" => i'[c] \in 1..Len(batch[c])
      /\ pc'[c] \in {"commit", "process"} /\ tries'[c] = 0
  BY <1>1, <1>2 DEF TypeOK
<1>6. \A d \in Consumer \ {c} : pc'[d] = pc[d] /\ i'[d] = i[d] /\ tries'[d] = tries[d]
  BY <1>2 DEF TypeOK
<1> QED
  BY <1>3, <1>4, <1>5, <1>6 DEF Stages, kafka

(* The transaction of a verdict: what it writes, and that a flag is set    *)
(* with the job that tells of it.                                          *)
LEMMA Transaction ==
    ASSUME TypeOK, NEW v \in Verdict, ApplyVerdict(v) \/ RolledBack(v)
    PROVE  /\ visible' \subseteq Message /\ blocked' \subseteq Message
           /\ sentJobs' \in [Message -> Nat] /\ blockedJobs' \in [Message -> Nat]
           /\ applied' \in [Verdict -> Nat]
           /\ applied' = applied \/ applied' = [applied EXCEPT ![v] = @ + 1]
           /\ FlagsMatchJobs => FlagsMatchJobs'
<1>1. Of(v).msg \in Message
  BY VerdictIsPair
<1>2. CASE RolledBack(v)
  BY <1>2 DEF RolledBack, tables, TypeOK, FlagsMatchJobs
<1>3. CASE ApplyVerdict(v)
  <2>1. PICK m \in Message : m = Of(v).msg
    BY <1>1
  <2>2. /\ \/ /\ visible' = visible \cup {m} /\ sentJobs' = [sentJobs EXCEPT ![m] = @ + 1]
              /\ UNCHANGED <<blocked, blockedJobs>>
           \/ /\ blocked' = blocked \cup {m} /\ blockedJobs' = [blockedJobs EXCEPT ![m] = @ + 1]
              /\ UNCHANGED <<visible, sentJobs>>
        /\ applied' = [applied EXCEPT ![v] = @ + 1]
    BY <1>3, <2>1 DEF ApplyVerdict
  <2>3. /\ visible' \subseteq Message /\ blocked' \subseteq Message
        /\ sentJobs' \in [Message -> Nat] /\ blockedJobs' \in [Message -> Nat]
        /\ applied' \in [Verdict -> Nat]
    <3>1. applied \in [Verdict -> Nat]
      BY DEF TypeOK
    <3>2. applied' \in [Verdict -> Nat]
      BY <2>2, <3>1
    <3>3. sentJobs \in [Message -> Nat] /\ blockedJobs \in [Message -> Nat]
      BY DEF TypeOK
    <3>4. sentJobs' \in [Message -> Nat] /\ blockedJobs' \in [Message -> Nat]
      BY <2>2, <3>3
    <3>5. visible' \subseteq Message /\ blocked' \subseteq Message
      BY <2>2 DEF TypeOK
    <3> QED
      BY <3>2, <3>4, <3>5
  <2>4. ASSUME FlagsMatchJobs PROVE FlagsMatchJobs'
    <3>1. ASSUME NEW n \in Message
          PROVE  /\ sentJobs'[n] > 0 <=> n \in visible'
                 /\ blockedJobs'[n] > 0 <=> n \in blocked'
      <4>1. /\ sentJobs[n] \in Nat /\ blockedJobs[n] \in Nat
            /\ sentJobs[n] > 0 <=> n \in visible
            /\ blockedJobs[n] > 0 <=> n \in blocked
        BY <2>4 DEF TypeOK, FlagsMatchJobs
      <4>2. CASE n = m
        BY <2>2, <4>1, <4>2 DEF TypeOK
      <4>3. CASE n # m
        BY <2>2, <4>1, <4>3 DEF TypeOK
      <4> QED
        BY <4>2, <4>3
    <3> QED
      BY <3>1 DEF FlagsMatchJobs
  <2> QED
    BY <2>2, <2>3, <2>4
<1> QED
  BY <1>2, <1>3

LEMMA ApplyTypes ==
    ASSUME TypeOK, Stages, NEW c \in Consumer, Apply(c) \/ ApplyFails(c)
    PROVE  /\ TypeOK' /\ Stages'
           /\ \/ applied' = applied
              \/ applied' = [applied EXCEPT ![Current(c)] = @ + 1]
           /\ FlagsMatchJobs => FlagsMatchJobs'
<1> USE Numbers
<1>1. pc[c] = "process" /\ UNCHANGED <<kafka, hand, fetcher, batch, proc, letters>>
  BY DEF Apply, ApplyFails
<1>2. Current(c) \in Verdict /\ i[c] \in 1..Len(batch[c])
  BY <1>1, CurrentIsVerdict
<1>3. ApplyVerdict(Current(c)) \/ RolledBack(Current(c))
  BY DEF Apply, ApplyFails
<1>4. PICK v \in Verdict : v = Current(c)
  BY <1>2
<1>5. /\ visible' \subseteq Message /\ blocked' \subseteq Message
      /\ sentJobs' \in [Message -> Nat] /\ blockedJobs' \in [Message -> Nat]
      /\ applied' \in [Verdict -> Nat]
      /\ applied' = applied \/ applied' = [applied EXCEPT ![v] = @ + 1]
      /\ FlagsMatchJobs => FlagsMatchJobs'
  BY <1>3, <1>4, Transaction
<1>6. TableTypes'
  BY <1>1, <1>5 DEF TypeOK, TableTypes, letters
<1>7. BoundTypes'
  <2>1. faults' = faults \/ Fault
    BY DEF Apply, ApplyFails, bounds
  <2>2. UNCHANGED <<moves, cancels, fetchErrors>>
    BY DEF Apply, ApplyFails, bounds
  <2>3. faults' \in 0..MaxFaults
    BY <2>1 DEF TypeOK, Fault
  <2> QED
    BY <1>1, <2>2, <2>3 DEF TypeOK, BoundTypes
<1>8. CASE Apply(c)
  <2>1. KafkaTypes' /\ WorkTypes' /\ Stages'
    BY <1>1, <1>8, AdvanceTypes DEF Apply
  <2> QED
    BY <1>4, <1>5, <1>6, <1>7, <2>1 DEF TypeOK, KafkaTypes, WorkTypes, TableTypes, BoundTypes
<1>9. CASE ApplyFails(c)
  <2>1. /\ tries' = [tries EXCEPT ![c] = tries[c] + 1] /\ i' = i
        /\ pc' = [pc EXCEPT ![c] = IF tries[c] + 1 = Retries THEN "dlq" ELSE "process"]
    BY <1>9 DEF ApplyFails, GoTo, LastTry
  <2>2. tries[c] \in 0..Retries /\ tries[c] < Retries
    BY <1>1 DEF TypeOK, Stages
  <2>3. KafkaTypes' /\ WorkTypes'
    BY <1>1, <2>1, <2>2 DEF TypeOK, KafkaTypes, WorkTypes, kafka
  <2>4. /\ pc'[c] \in {"dlq", "process"} /\ i'[c] \in 1..Len(batch'[c])
        /\ pc'[c] = "process" => tries'[c] < Retries
    <3>1. pc'[c] = (IF tries[c] + 1 = Retries THEN "dlq" ELSE "process") /\ tries'[c] = tries[c] + 1
      BY <2>1 DEF TypeOK
    <3>2. i'[c] \in 1..Len(batch'[c])
      BY <1>1, <1>2, <2>1
    <3> QED
      BY <2>2, <3>1, <3>2
  <2>5. \A d \in Consumer \ {c} : pc'[d] = pc[d] /\ i'[d] = i[d] /\ tries'[d] = tries[d]
    BY <2>1 DEF TypeOK
  <2>6. Stages'
    BY <1>1, <2>4, <2>5 DEF Stages, kafka
  <2> QED
    BY <1>4, <1>5, <1>6, <1>7, <2>3, <2>6 DEF TypeOK, KafkaTypes, WorkTypes, TableTypes, BoundTypes
<1> QED
  BY <1>8, <1>9

LEMMA LetterTypes ==
    ASSUME TypeOK, Stages, NEW c \in Consumer, WriteDlq(c) \/ WriteDlqFails(c)
    PROVE  TypeOK' /\ Stages'
<1> USE Numbers
<1>1. /\ pc[c] = "dlq" /\ Advance(c)
      /\ UNCHANGED <<kafka, hand, fetcher, batch, proc, tables, moves, cancels, fetchErrors>>
  BY DEF WriteDlq, WriteDlqFails, bounds
<1>2. Current(c) \in Verdict
  BY <1>1, CurrentIsVerdict
<1>3. KafkaTypes' /\ WorkTypes' /\ Stages'
  BY <1>1, AdvanceTypes
<1>4. BoundTypes'
  BY <1>1 DEF TypeOK, BoundTypes, WriteDlq, WriteDlqFails, Fault, bounds
<1>5. TableTypes'
  <2>1. /\ dlq' = dlq \/ dlq' = dlq \cup {Current(c)}
        /\ dropped' = dropped \/ dropped' = dropped \cup {Current(c)}
    BY DEF WriteDlq, WriteDlqFails
  <2> QED
    BY <1>1, <1>2, <2>1 DEF TypeOK, TableTypes, tables
<1> QED
  BY <1>3, <1>4, <1>5 DEF TypeOK, KafkaTypes, WorkTypes, TableTypes, BoundTypes

LEMMA CommitTypes ==
    ASSUME TypeOK, Stages, NEW c \in Consumer, CommitMessages(c)
    PROVE  TypeOK' /\ Stages'
<1> USE Numbers
<1>1. <<>> \in Seq(Verdict) /\ Len(<<>>) = 0
  OBVIOUS
<1>2. /\ committed' = committed \/ committed' = CommitBatch(c)
      /\ batch' = [batch EXCEPT ![c] = <<>>] /\ pc' = [pc EXCEPT ![c] = "collect"]
      /\ UNCHANGED <<owner, fetched, hand, fetcher, i, tries, tables, letters, proc>>
  BY DEF CommitMessages, NewBatch, GoTo
<1>3. WorkTypes'
  BY <1>1, <1>2 DEF TypeOK, WorkTypes
<1>4. KafkaTypes'
  <2>1. ASSUME NEW p \in Partition
        PROVE  CommitBatch(c)[p] \in Nat /\ CommitBatch(c)[p] <= Len(Log[p])
    <3>1. PICK n \in Nat : n = Len(Log[p])
      BY VerdictIsPair
    <3>2. CASE OffsetsIn(batch[c], p) = {}
      BY <3>2 DEF CommitBatch, TypeOK
    <3>3. CASE OffsetsIn(batch[c], p) # {}
      <4>1. Highest(OffsetsIn(batch[c], p)) \in 1..n
        BY <3>1, <3>3, OffsetsOfPartition
      <4>2. PICK h \in 1..n : h = Highest(OffsetsIn(batch[c], p))
        BY <4>1
      <4>3. CommitBatch(c)[p] = h
        BY <3>3, <4>2 DEF CommitBatch
      <4> QED
        BY <3>1, <4>2, <4>3
    <3> QED
      BY <3>2, <3>3
  <2>2. CommitBatch(c) \in [Partition -> Nat]
    <3>1. CommitBatch(c) = [p \in Partition |-> CommitBatch(c)[p]]
      BY DEF CommitBatch
    <3> HIDE DEF CommitBatch
    <3> QED
      BY <2>1, <3>1
  <2> HIDE DEF CommitBatch
  <2>3. \A p \in Partition : CommitBatch(c)[p] <= Len(Log[p])
    BY <2>1
  <2> QED
    BY <1>2, <2>2, <2>3 DEF TypeOK, KafkaTypes
<1>5. TableTypes' /\ BoundTypes'
  BY <1>2 DEF CommitMessages, Fault, TypeOK, TableTypes, BoundTypes, tables, letters
<1>6. Stages'
  BY <1>1, <1>2 DEF Stages, TypeOK
<1> QED
  BY <1>3, <1>4, <1>5, <1>6 DEF TypeOK, KafkaTypes, WorkTypes, TableTypes, BoundTypes

LEMMA GroupTypes ==
    ASSUME TypeOK, Stages, NEW p \in Partition, NEW c \in Consumer, Join(p, c) \/ Rebalance(p, c)
    PROVE  TypeOK' /\ Stages'
<1> USE Numbers
<1>1. /\ owner' = [owner EXCEPT ![p] = c] /\ fetched' = [fetched EXCEPT ![p] = committed[p]]
      /\ UNCHANGED <<committed, consumers, tables, letters, proc, faults, cancels, fetchErrors>>
  BY DEF Join, Rebalance, Assign, bounds
<1>2. proc # "down"
  BY DEF Join, Rebalance, Stages
<1>3. KafkaTypes'
  BY <1>1 DEF TypeOK, KafkaTypes
<1>4. WorkTypes' /\ TableTypes'
  BY <1>1 DEF TypeOK, WorkTypes, TableTypes, consumers, tables, letters
<1>5. BoundTypes'
  BY <1>1 DEF TypeOK, BoundTypes, Join, Rebalance, bounds
<1>6. Stages'
  BY <1>1, <1>2 DEF Stages, consumers
<1> QED
  BY <1>3, <1>4, <1>5, <1>6 DEF TypeOK, KafkaTypes, WorkTypes, TableTypes, BoundTypes

LEMMA ProcessTypes ==
    ASSUME TypeOK, Stages, Cancel \/ Down \/ Start
    PROVE  TypeOK' /\ Stages'
<1> USE Numbers
<1>1. <<>> \in Seq(Verdict) /\ Len(<<>>) = 0
  OBVIOUS
<1>2. UNCHANGED <<committed, fetched, tables, letters>>
  BY DEF Cancel, Down, Start, kafka, Unassign
<1>3. TableTypes' /\ BoundTypes'
  BY <1>2 DEF Cancel, Down, Start, Fault, TypeOK, TableTypes, BoundTypes, tables, letters, bounds
<1>4. KafkaTypes'
  BY <1>2 DEF Cancel, Down, Start, Unassign, TypeOK, KafkaTypes, kafka
<1>5. WorkTypes'
  <2>1. CASE Cancel
    BY <2>1 DEF Cancel, TypeOK, WorkTypes, consumers
  <2>2. CASE Down
    BY <1>1, <2>2 DEF Down, EveryConsumer, TypeOK, WorkTypes
  <2>3. CASE Start
    BY <1>1, <2>3 DEF Start, EveryConsumer, TypeOK, WorkTypes
  <2> QED
    BY <2>1, <2>2, <2>3
<1>6. Stages'
  <2>1. CASE Cancel
    BY <2>1 DEF Cancel, Stages, consumers, kafka
  <2>2. CASE Down \/ Start
    <3>1. \A d \in Consumer : pc'[d] \in {"exited", "collect"} /\ Len(batch'[d]) = 0
      BY <1>1, <2>2 DEF Down, Start, EveryConsumer
    <3>2. proc' = "down" => \A p \in Partition : owner'[p] = Nobody
      BY <2>2 DEF Down, Start, Unassign
    <3> QED
      BY <3>1, <3>2 DEF Stages
  <2> QED
    BY <2>1, <2>2
<1> QED
  BY <1>3, <1>4, <1>5, <1>6 DEF TypeOK, KafkaTypes, WorkTypes, TableTypes, BoundTypes

LEMMA TypeStep ==
    ASSUME TypeOK, Stages, [Next]_vars
    PROVE  TypeOK' /\ Stages'
<1>1. CASE UNCHANGED vars
  BY <1>1 DEF TypeOK, Stages, vars, kafka, consumers, tables, letters, bounds
<1>2. CASE Next
  BY <1>2, FetchTypes, WaitTypes, CollectTypes, LeaveTypes, ApplyTypes, LetterTypes,
     CommitTypes, GroupTypes, ProcessTypes
     DEF Next, Work
<1> QED
  BY <1>1, <1>2

-----------------------------------------------------------------------------
(* Steps, seen from a consumer, from a partition and from a verdict.       *)

InWork(c) == pc[c] \in {"process", "dlq"}

Stays(c) ==
    /\ hand'[c] = hand[c] /\ batch'[c] = batch[c]
    /\ \/ FirstLeft(c)' = FirstLeft(c)
       \/ /\ InWork(c) /\ FirstLeft(c)' = i[c] + 1
          /\ \E v \in Verdict : v = Current(c) /\ Settled(v)'

TakesFrom(p, c) ==
    /\ owner[p] = c /\ owner'[p] = c
    /\ hand[c] = <<>> /\ hand'[c] = <<p, fetched[p] + 1>> /\ fetched'[p] = fetched[p] + 1
    /\ batch'[c] = batch[c] /\ FirstLeft(c)' = FirstLeft(c)

Adds(c) ==
    /\ hand[c] # <<>> /\ hand'[c] = <<>> /\ FirstLeft(c) = 1 /\ FirstLeft(c)' = 1
    /\ Len(batch'[c]) = Len(batch[c]) + 1 /\ batch'[c][Len(batch[c]) + 1] = hand[c]
    /\ \A x \in 1..Len(batch[c]) : batch'[c][x] = batch[c][x]

Finishes(c) == pc[c] = "commit" /\ hand'[c] = hand[c] /\ batch'[c] = <<>>

Loses(c) == hand'[c] = <<>> /\ batch'[c] = <<>> /\ \A p \in Partition : owner'[p] # c

WorkStep(c) ==
    Stays(c) \/ (\E p \in Partition : TakesFrom(p, c)) \/ Adds(c) \/ Finishes(c) \/ Loses(c)

PartitionStep(p) ==
    \/ owner'[p] = owner[p] /\ fetched'[p] = fetched[p]
    \/ owner'[p] = Nobody
    \/ owner'[p] \in Consumer /\ fetched'[p] = committed[p]
    \/ owner[p] \in Consumer /\ TakesFrom(p, owner[p])

VerdictStep ==
    \A v \in Verdict :
        /\ Settled(v) => Settled(v)'
        /\ Settled(v)' => Settled(v) \/ \E c \in Consumer : InWork(c) /\ v = Current(c)

Alone(c) ==
    \A d \in Consumer \ {c} :
        hand'[d] = hand[d] /\ batch'[d] = batch[d] /\ pc'[d] = pc[d] /\ i'[d] = i[d]

LEMMA OthersStay ==
    ASSUME NEW c \in Consumer, Alone(c), WorkStep(c)
    PROVE  \A d \in Consumer : WorkStep(d)
<1>1. \A d \in Consumer \ {c} : Stays(d)
  BY DEF Alone, Stays, FirstLeft
<1> QED
  BY <1>1 DEF WorkStep

LEMMA FetchStep ==
    ASSUME TypeOK, Stages, NEW c \in Consumer, Fetch(c)
    PROVE  VerdictStep /\ (\A d \in Consumer : WorkStep(d)) /\ (\A p \in Partition : PartitionStep(p))
<1>1. PICK p \in Partition :
             /\ owner[p] = c /\ fetched' = [fetched EXCEPT ![p] = fetched[p] + 1]
             /\ hand' = [hand EXCEPT ![c] = <<p, fetched[p] + 1>>]
  BY DEF Fetch
<1>2. hand[c] = <<>> /\ UNCHANGED <<owner, batch, pc, i, applied, dlq, dropped>>
  BY DEF Fetch, tables, letters
<1>3. TakesFrom(p, c)
  BY <1>1, <1>2 DEF TakesFrom, FirstLeft, TypeOK
<1>4. Alone(c)
  BY <1>1, <1>2 DEF Alone, TypeOK
<1>5. VerdictStep
  BY <1>2 DEF VerdictStep, Settled
<1>6. \A d \in Consumer : WorkStep(d)
  BY <1>3, <1>4, OthersStay DEF WorkStep
<1>7. ASSUME NEW q \in Partition PROVE PartitionStep(q)
  BY <1>1, <1>2, <1>3 DEF PartitionStep, TypeOK
<1> QED
  BY <1>5, <1>6, <1>7

LEMMA WaitStep ==
    ASSUME TypeOK, Stages, NEW c \in Consumer,
           FetchFails(c) \/ BatchTimeout(c) \/ Reject(c) \/ EmptyBatch(c)
    PROVE  VerdictStep /\ (\A d \in Consumer : WorkStep(d)) /\ (\A p \in Partition : PartitionStep(p))
<1>1. /\ UNCHANGED <<owner, fetched, applied, dlq, dropped, hand, batch, i>>
      /\ \/ pc' = pc
         \/ pc[c] = "collect" /\ pc' = [pc EXCEPT ![c] = "check"]
         \/ pc[c] = "process" /\ pc' = [pc EXCEPT ![c] = "dlq"]
  BY DEF FetchFails, BatchTimeout, Reject, EmptyBatch, GoTo, vars, consumers, kafka, tables, letters
<1>2. FirstLeft(c)' = FirstLeft(c) /\ Alone(c)
  BY <1>1 DEF FirstLeft, Alone, TypeOK
<1>3. WorkStep(c)
  BY <1>1, <1>2 DEF WorkStep, Stays
<1> QED
  BY <1>1, <1>2, <1>3, OthersStay DEF VerdictStep, Settled, PartitionStep

LEMMA CollectStep ==
    ASSUME TypeOK, Stages, NEW c \in Consumer, Collect(c)
    PROVE  VerdictStep /\ (\A d \in Consumer : WorkStep(d)) /\ (\A p \in Partition : PartitionStep(p))
<1>1. /\ UNCHANGED <<owner, fetched, applied, dlq, dropped, i>>
      /\ pc[c] = "collect" /\ (pc' = pc \/ pc' = [pc EXCEPT ![c] = "check"])
      /\ hand[c] # <<>> /\ hand' = [hand EXCEPT ![c] = <<>>]
      /\ batch' = [batch EXCEPT ![c] = AppendTo(@, hand[c])]
  BY DEF Collect, GoTo, kafka, tables, letters
<1>2. Adds(c)
  <2>1. FirstLeft(c) = 1 /\ FirstLeft(c)' = 1
    BY <1>1 DEF FirstLeft, TypeOK
  <2>2. hand[c] # <<>> /\ hand'[c] = <<>>
    BY <1>1 DEF TypeOK
  <2> QED
    BY <2>1, <2>2, CollectTypes DEF Adds
<1>3. Alone(c)
  BY <1>1 DEF Alone, TypeOK
<1> QED
  BY <1>1, <1>2, <1>3, OthersStay DEF WorkStep, VerdictStep, Settled, PartitionStep

LEMMA LeaveStep ==
    ASSUME TypeOK, Stages, NEW c \in Consumer, SeeFetchError(c) \/ CheckContext(c)
    PROVE  VerdictStep /\ (\A d \in Consumer : WorkStep(d)) /\ (\A p \in Partition : PartitionStep(p))
<1>1. UNCHANGED <<applied, dlq, dropped>>
  BY DEF SeeFetchError, CheckContext, tables, letters
<1>2. VerdictStep
  BY <1>1 DEF VerdictStep, Settled
<1>3. CASE Leave(c)
  <2>1. \A p \in Partition : PartitionStep(p) /\ owner'[p] # c
    BY <1>3, VerdictsAssumption DEF Leave, PartitionStep
  <2>2. Alone(c) /\ hand'[c] = <<>> /\ batch'[c] = <<>>
    BY <1>3 DEF Leave, GoTo, Alone, TypeOK
  <2> QED
    BY <1>2, <2>1, <2>2, OthersStay DEF WorkStep, Loses
<1>4. CASE CheckContext(c) /\ ~Leave(c)
  <2>1. /\ pc[c] = "check" /\ UNCHANGED <<owner, fetched, hand, batch>>
        /\ pc' = [pc EXCEPT ![c] = IF batch[c] = <<>> THEN "collect" ELSE "process"]
        /\ i' = [i EXCEPT ![c] = 1]
    BY <1>4 DEF CheckContext, GoTo, kafka
  <2>2. FirstLeft(c)' = FirstLeft(c) /\ Alone(c)
    BY <2>1 DEF FirstLeft, Alone, TypeOK
  <2> QED
    BY <1>2, <2>1, <2>2, OthersStay DEF WorkStep, Stays, PartitionStep
<1> QED
  BY <1>3, <1>4 DEF SeeFetchError

LEMMA AppliesStep ==
    ASSUME TypeOK, Stages, NEW c \in Consumer,
           Apply(c) \/ ApplyFails(c) \/ WriteDlq(c) \/ WriteDlqFails(c)
    PROVE  VerdictStep /\ (\A d \in Consumer : WorkStep(d)) /\ (\A p \in Partition : PartitionStep(p))
<1>1. /\ InWork(c) /\ UNCHANGED <<owner, fetched, hand, batch>>
      /\ \/ Apply(c) /\ dlq' = dlq /\ dropped' = dropped
         \/ ApplyFails(c) /\ dlq' = dlq /\ dropped' = dropped
         \/ applied' = applied /\ dlq' = dlq \cup {Current(c)} /\ dropped' = dropped
         \/ /\ applied' = applied /\ dropped' = dropped \cup {Current(c)}
            /\ dlq' = dlq \/ dlq' = dlq \cup {Current(c)}
  BY DEF Apply, ApplyFails, WriteDlq, WriteDlqFails, InWork, kafka, tables, letters
<1>2. PICK v \in Verdict : v = Current(c)
  BY <1>1, CurrentIsVerdict DEF InWork
<1>3. /\ applied \in [Verdict -> Nat]
      /\ applied' = applied \/ applied' = [applied EXCEPT ![v] = @ + 1]
  BY <1>1, <1>2, ApplyTypes DEF TypeOK
<1>4. \A w \in Verdict : /\ applied[w] \in Nat /\ applied'[w] \in Nat
                         /\ applied[w] > 0 => applied'[w] > 0
                         /\ applied'[w] > 0 => applied[w] > 0 \/ w = v
  BY <1>3
<1>5. VerdictStep
  BY <1>1, <1>2, <1>4 DEF VerdictStep, Settled
<1>6. CASE ApplyFails(c)
  <2>1. i' = i /\ (pc' = [pc EXCEPT ![c] = "dlq"] \/ pc' = [pc EXCEPT ![c] = "process"])
    BY <1>6 DEF ApplyFails, GoTo
  <2>2. FirstLeft(c)' = FirstLeft(c) /\ Alone(c)
    BY <1>1, <2>1 DEF FirstLeft, Alone, InWork, TypeOK
  <2> QED
    BY <1>1, <1>5, <2>2, OthersStay DEF WorkStep, Stays, PartitionStep
<1>7. CASE ~ApplyFails(c)
  <2>1. Advance(c)
    BY <1>7 DEF Apply, WriteDlq, WriteDlqFails
  <2>2. /\ pc' = [pc EXCEPT ![c] = IF i[c] = Len(batch[c]) THEN "commit" ELSE "process"]
        /\ i' = [i EXCEPT ![c] = i[c] + 1]
    BY <2>1 DEF Advance, GoTo
  <2>3. FirstLeft(c)' = i[c] + 1 /\ Alone(c)
    BY <1>1, <2>2 DEF FirstLeft, Alone, TypeOK
  <2>4. applied'[v] > 0 \/ v \in dlq' \/ v \in dropped'
    <3>1. CASE Apply(c)
      <4>1. applied' = [applied EXCEPT ![v] = @ + 1]
        BY <1>2, <3>1 DEF Apply, ApplyVerdict
      <4> QED
        BY <1>3, <4>1
    <3>2. CASE ~Apply(c)
      BY <1>1, <1>2, <1>7, <3>2
    <3> QED
      BY <3>1, <3>2
  <2>5. WorkStep(c)
    BY <1>1, <1>2, <2>3, <2>4 DEF WorkStep, Stays, Settled
  <2> QED
    BY <1>1, <1>5, <2>3, <2>5, OthersStay DEF PartitionStep
<1> QED
  BY <1>6, <1>7

LEMMA CommitStep ==
    ASSUME TypeOK, Stages, NEW c \in Consumer, CommitMessages(c)
    PROVE  VerdictStep /\ (\A d \in Consumer : WorkStep(d)) /\ (\A p \in Partition : PartitionStep(p))
<1>1. /\ pc[c] = "commit" /\ pc' = [pc EXCEPT ![c] = "collect"]
      /\ batch' = [batch EXCEPT ![c] = <<>>]
      /\ UNCHANGED <<owner, fetched, hand, i, applied, dlq, dropped>>
  BY DEF CommitMessages, NewBatch, GoTo, tables, letters
<1>2. Finishes(c) /\ Alone(c)
  BY <1>1 DEF Finishes, Alone, TypeOK
<1> QED
  BY <1>1, <1>2, OthersStay DEF WorkStep, VerdictStep, Settled, PartitionStep

LEMMA GroupStep ==
    ASSUME TypeOK, Stages, NEW p \in Partition, NEW c \in Consumer, Join(p, c) \/ Rebalance(p, c)
    PROVE  VerdictStep /\ (\A d \in Consumer : WorkStep(d)) /\ (\A q \in Partition : PartitionStep(q))
<1>1. /\ owner' = [owner EXCEPT ![p] = c] /\ fetched' = [fetched EXCEPT ![p] = committed[p]]
      /\ UNCHANGED <<hand, batch, pc, i, applied, dlq, dropped>>
  BY DEF Join, Rebalance, Assign, consumers, tables, letters
<1>2. VerdictStep
  BY <1>1 DEF VerdictStep, Settled
<1>3. \A d \in Consumer : WorkStep(d)
  BY <1>1 DEF WorkStep, Stays, FirstLeft
<1>4. \A q \in Partition : PartitionStep(q)
  BY <1>1 DEF PartitionStep, TypeOK
<1> QED
  BY <1>2, <1>3, <1>4

LEMMA ProcessStep ==
    ASSUME TypeOK, Stages, Cancel \/ Down \/ Start
    PROVE  VerdictStep /\ (\A d \in Consumer : WorkStep(d)) /\ (\A p \in Partition : PartitionStep(p))
<1>1. UNCHANGED <<fetched, applied, dlq, dropped>>
  BY DEF Cancel, Down, Start, Unassign, kafka, tables, letters
<1>2. VerdictStep
  BY <1>1 DEF VerdictStep, Settled
<1>3. \A p \in Partition : PartitionStep(p)
  BY <1>1 DEF PartitionStep, Cancel, Down, Start, Unassign, kafka
<1>4. CASE Cancel
  BY <1>2, <1>3, <1>4 DEF WorkStep, Stays, FirstLeft, Cancel, consumers
<1>5. CASE Down \/ Start
  <2>1. \A d \in Consumer : hand'[d] = <<>> /\ batch'[d] = <<>>
    BY <1>5 DEF Down, Start, EveryConsumer
  <2>2. \A p \in Partition : owner'[p] = Nobody
    BY <1>5 DEF Down, Start, Unassign, Stages, kafka
  <2> QED
    BY <1>2, <1>3, <2>1, <2>2, VerdictsAssumption DEF WorkStep, Loses
<1> QED
  BY <1>4, <1>5

LEMMA Steps ==
    ASSUME TypeOK, Stages, [Next]_vars
    PROVE  VerdictStep /\ (\A d \in Consumer : WorkStep(d)) /\ (\A p \in Partition : PartitionStep(p))
<1>1. CASE UNCHANGED vars
  <2>1. UNCHANGED <<owner, fetched, hand, batch, pc, i, applied, dlq, dropped>>
    BY <1>1 DEF vars, kafka, consumers, tables, letters
  <2> QED
    BY <2>1 DEF VerdictStep, Settled, WorkStep, Stays, FirstLeft, PartitionStep
<1>2. CASE Next
  BY <1>2, FetchStep, WaitStep, CollectStep, LeaveStep, AppliesStep, CommitStep, GroupStep, ProcessStep
     DEF Next, Work
<1> QED
  BY <1>1, <1>2

-----------------------------------------------------------------------------
(* Nothing is skipped, so verdicts are settled in their order and what is  *)
(* committed is settled.                                                   *)

LEMMA BatchElements ==
    ASSUME TypeOK, NEW c \in Consumer
    PROVE  /\ Len(batch[c]) \in Nat
           /\ \A x \in 1..Len(batch[c]) : batch[c][x] \in Verdict
BY ElementOfSeq, LenProperties DEF TypeOK

BatchFilled(c) ==
    \A v \in Verdict : \A x \in 1..Len(batch[c]) :
        /\ x < FirstLeft(c) => Settled(batch[c][x])
        /\ v[1] = batch[c][x][1] /\ v[2] < batch[c][x][2] =>
               Settled(v) \/ \E y \in 1..(x - 1) : batch[c][y] = v

HandNext(c) ==
    \A v \in Verdict :
        hand[c] # <<>> /\ v[1] = hand[c][1] /\ v[2] < hand[c][2] => Settled(v) \/ v \in Held(c)

NonePassed(v) ==
    v[2] <= fetched[v[1]] /\ owner[v[1]] # Nobody =>
        Settled(v) \/ v \in Held(owner[v[1]]) \/ v = hand[owner[v[1]]]

LEMMA SkippedParts ==
    NothingSkipped <=> /\ \A c \in Consumer : BatchFilled(c) /\ HandNext(c)
                       /\ \A v \in Verdict : NonePassed(v)
BY DEF NothingSkipped, BatchFilled, HandNext, NonePassed

LEMMA OrderStep ==
    ASSUME TypeOK, Stages, NothingSkipped, SettledInOrder, VerdictStep
    PROVE  SettledInOrder'
<1>1. ASSUME NEW v \in Verdict, Settled(v)', NEW o \in 1..(v[2] - 1)
      PROVE  Settled(<<v[1], o>>)'
  <2>1. <<v[1], o>> \in Verdict /\ <<v[1], o>>[1] = v[1] /\ <<v[1], o>>[2] = o /\ o < v[2]
    <3>1. v[1] \in Partition /\ v[2] \in 1..Len(Log[v[1]]) /\ Len(Log[v[1]]) \in Nat
      BY VerdictIsPair
    <3>2. o \in Nat /\ 1 <= o /\ o <= Len(Log[v[1]]) /\ o < v[2]
      BY <3>1
    <3> QED
      BY <3>1, <3>2, VerdictIsPair
  <2>2. PICK w \in Verdict : w = <<v[1], o>>
    BY <2>1
  <2>3. Settled(w)
    <3>1. CASE Settled(v)
      BY <2>2, <3>1 DEF SettledInOrder
    <3>2. CASE ~Settled(v)
      <4>1. PICK c \in Consumer : InWork(c) /\ v = Current(c)
        BY <1>1, <3>2 DEF VerdictStep
      <4>2. i[c] \in 1..Len(batch[c]) /\ Len(batch[c]) \in Nat /\ v = batch[c][i[c]] /\ FirstLeft(c) = i[c]
        BY <4>1, CurrentIsVerdict DEF InWork, Current, FirstLeft
      <4>3. BatchFilled(c)
        BY SkippedParts
      <4>4. Settled(w) \/ \E y \in 1..(i[c] - 1) : batch[c][y] = w
        BY <2>1, <2>2, <4>2, <4>3 DEF BatchFilled
      <4>5. \A y \in 1..(i[c] - 1) : Settled(batch[c][y])
        BY <4>2, <4>3, <1>1 DEF BatchFilled
      <4> QED
        BY <4>4, <4>5
    <3> QED
      BY <3>1, <3>2
  <2> QED
    BY <2>2, <2>3 DEF VerdictStep
<1> QED
  BY <1>1 DEF SettledInOrder

LEMMA CommitEffect ==
    ASSUME [Next]_vars
    PROVE  \/ committed' = committed
           \/ \E c \in Consumer : pc[c] = "commit" /\ committed' = CommitBatch(c)
BY DEF Next, Work, Join, Rebalance, Assign, Fetch, FetchFails, Collect, EmptyBatch, BatchTimeout,
       SeeFetchError, CheckContext, Leave, Reject, Apply, ApplyFails, WriteDlq, WriteDlqFails,
       CommitMessages, Cancel, Down, Unassign, Start, kafka, vars

LEMMA CommittedBatchSettled ==
    ASSUME TypeOK, Stages, NothingSkipped, NEW c \in Consumer, pc[c] = "commit"
    PROVE  \A v \in Held(c) : Settled(v)
<1>1. Len(batch[c]) \in Nat /\ FirstLeft(c) = Len(batch[c]) + 1
  BY BatchElements DEF FirstLeft, Stages
<1>2. BatchFilled(c)
  BY SkippedParts
<1>3. \A x \in 1..Len(batch[c]) : batch[c][x] \in Verdict /\ x < FirstLeft(c)
  BY <1>1, BatchElements
<1>4. \A x \in 1..Len(batch[c]) : Settled(batch[c][x])
  BY <1>2, <1>3 DEF BatchFilled
<1> QED
  BY <1>4 DEF Held

LEMMA CommittedStep ==
    ASSUME TypeOK, Stages, NothingSkipped, SettledInOrder, CommittedIsSettled, VerdictStep, [Next]_vars
    PROVE  CommittedIsSettled'
<1>1. ASSUME NEW v \in Verdict, v[2] <= committed'[v[1]]
      PROVE  Settled(v)'
  <2>1. v[1] \in Partition /\ v[2] \in Nat /\ 1 <= v[2] /\ v = <<v[1], v[2]>> /\ Len(Log[v[1]]) \in Nat
    <3>1. Len(Log[v[1]]) \in Nat /\ v[2] \in 1..Len(Log[v[1]])
      BY VerdictIsPair
    <3> QED
      BY <3>1, VerdictIsPair
  <2>2. CASE committed'[v[1]] = committed[v[1]]
    BY <1>1, <2>2 DEF CommittedIsSettled, VerdictStep
  <2>3. CASE committed'[v[1]] # committed[v[1]]
    <3>1. PICK c \in Consumer : pc[c] = "commit" /\ committed' = CommitBatch(c)
      BY <2>3, CommitEffect
    <3>2. /\ OffsetsIn(batch[c], v[1]) # {}
          /\ committed'[v[1]] = Highest(OffsetsIn(batch[c], v[1]))
      BY <2>1, <2>3, <3>1 DEF CommitBatch
    <3>3. /\ <<v[1], committed'[v[1]]>> \in Held(c)
          /\ committed'[v[1]] \in 1..Len(Log[v[1]])
      BY <2>1, <3>2, OffsetsOfPartition
    <3>4. PICK h \in Nat : h = committed'[v[1]] /\ 1 <= h /\ h <= Len(Log[v[1]])
      BY <2>1, <3>3
    <3>5. Settled(<<v[1], h>>)
      BY <3>1, <3>3, <3>4, CommittedBatchSettled
    <3>6. <<v[1], h>> \in Verdict /\ <<v[1], h>>[1] = v[1] /\ <<v[1], h>>[2] = h
      BY <2>1, <3>4, VerdictIsPair
    <3>7. PICK w \in Verdict : w = <<v[1], h>>
      BY <3>6
    <3>8. w[1] = v[1] /\ w[2] = h /\ Settled(w) /\ v[2] <= h
      BY <1>1, <3>4, <3>5, <3>6, <3>7
    <3>9. Settled(v)
      <4>1. CASE v[2] = h
        BY <2>1, <3>7, <3>8, <4>1
      <4>2. CASE v[2] # h
        <5>1. v[2] \in 1..(w[2] - 1)
          BY <2>1, <3>4, <3>8, <4>2
        <5>2. Settled(<<w[1], v[2]>>)
          BY <3>8, <5>1 DEF SettledInOrder
        <5> QED
          BY <2>1, <3>8, <5>2
      <4> QED
        BY <4>1, <4>2
    <3> QED
      BY <3>9 DEF VerdictStep
  <2> QED
    BY <2>2, <2>3
<1> QED
  BY <1>1 DEF CommittedIsSettled

LEMMA WorkKeepsOrder ==
    ASSUME TypeOK, Stages, NothingSkipped, VerdictStep, NEW c \in Consumer, WorkStep(c)
    PROVE  BatchFilled(c)' /\ HandNext(c)'
<1> USE DEF Held
<1>1. BatchFilled(c) /\ HandNext(c) /\ \A v \in Verdict : NonePassed(v)
  BY SkippedParts
<1>2. /\ Len(batch[c]) \in Nat /\ \A x \in 1..Len(batch[c]) : batch[c][x] \in Verdict
      /\ hand[c] \in Verdict \cup {<<>>} /\ Len(<<>>) = 0
  BY BatchElements DEF TypeOK
<1>3. \A v \in Verdict : Settled(v) => Settled(v)'
  BY DEF VerdictStep
<1>4. CASE Stays(c)
  <2>1. hand'[c] = hand[c] /\ batch'[c] = batch[c]
    BY <1>4 DEF Stays
  <2>2. ASSUME NEW x \in 1..Len(batch[c]), x < FirstLeft(c)'
        PROVE  Settled(batch[c][x])'
    <3>1. PICK w \in Verdict : w = batch[c][x]
      BY <1>2
    <3>2. CASE x < FirstLeft(c)
      <4>1. Settled(w)
        BY <1>1, <3>1, <3>2 DEF BatchFilled
      <4>2. Settled(w)'
        BY <1>3, <4>1
      <4> QED
        BY <2>1, <3>1, <4>2
    <3>3. CASE ~(x < FirstLeft(c))
      <4>1. /\ InWork(c) /\ FirstLeft(c)' = i[c] + 1
            /\ \E v \in Verdict : v = Current(c) /\ Settled(v)'
        BY <1>4, <2>2, <3>3 DEF Stays
      <4>2. FirstLeft(c) = i[c] /\ i[c] \in 1..Len(batch[c])
        BY <4>1, CurrentIsVerdict DEF InWork, FirstLeft
      <4>3. x = i[c]
        BY <1>2, <2>2, <3>3, <4>1, <4>2
      <4>4. w = Current(c)
        BY <3>1, <4>3 DEF Current
      <4>5. Settled(w)'
        BY <4>1, <4>4
      <4> QED
        BY <2>1, <3>1, <4>5
    <3> QED
      BY <3>2, <3>3
  <2>3. BatchFilled(c)'
    BY <1>1, <1>3, <2>1, <2>2 DEF BatchFilled
  <2>4. HandNext(c)'
    BY <1>1, <1>3, <2>1 DEF HandNext
  <2> QED
    BY <2>3, <2>4
<1>5. CASE \E p \in Partition : TakesFrom(p, c)
  <2>1. PICK p \in Partition : TakesFrom(p, c)
    BY <1>5
  <2>2. batch'[c] = batch[c] /\ FirstLeft(c)' = FirstLeft(c)
    BY <2>1 DEF TakesFrom
  <2>3. BatchFilled(c)'
    <3>1. ASSUME NEW x \in 1..Len(batch[c]), x < FirstLeft(c)
          PROVE  Settled(batch[c][x])'
      <4>1. PICK w \in Verdict : w = batch[c][x]
        BY <1>2
      <4>2. Settled(w)
        BY <1>1, <3>1, <4>1 DEF BatchFilled
      <4>3. Settled(w)'
        BY <1>3, <4>2
      <4> QED
        BY <2>2, <4>1, <4>3
    <3> QED
      BY <1>1, <1>3, <2>2, <3>1 DEF BatchFilled
  <2>4. HandNext(c)'
    <3>1. ASSUME NEW v \in Verdict, v[1] = hand'[c][1], v[2] < hand'[c][2]
          PROVE  Settled(v)' \/ v \in Held(c)
      <4>1. PICK o \in Nat : o = fetched[p] + 1
        BY DEF TypeOK
      <4>2. hand'[c] = <<p, o>> /\ owner[p] = c /\ hand[c] = <<>>
        BY <2>1, <4>1 DEF TakesFrom
      <4>3. hand'[c][1] = p /\ hand'[c][2] = o
        BY <4>2, VerdictIsPair
      <4>4. v[2] \in Nat /\ fetched[p] \in Nat
        <5>1. v[2] \in 1..Len(Log[v[1]])
          BY VerdictIsPair
        <5> QED
          BY <5>1 DEF TypeOK
      <4>5. v[2] <= fetched[v[1]] /\ owner[v[1]] = c /\ c # Nobody
        BY <3>1, <4>1, <4>2, <4>3, <4>4, VerdictsAssumption
      <4>6. Settled(v) \/ v \in Held(c) \/ v = hand[c]
        BY <1>1, <4>5 DEF NonePassed
      <4> QED
        BY <1>3, <4>2, <4>6, VerdictIsPair
    <3> QED
      BY <2>2, <3>1 DEF HandNext
  <2> QED
    BY <2>3, <2>4
<1>6. CASE Adds(c)
  <2>1. /\ hand[c] \in Verdict /\ hand'[c] = <<>> /\ FirstLeft(c)' = 1
        /\ Len(batch'[c]) = Len(batch[c]) + 1 /\ batch'[c][Len(batch[c]) + 1] = hand[c]
        /\ \A x \in 1..Len(batch[c]) : batch'[c][x] = batch[c][x]
    BY <1>2, <1>6 DEF Adds
  <2>2. ASSUME NEW v \in Verdict, NEW x \in 1..Len(batch'[c]),
               v[1] = batch'[c][x][1], v[2] < batch'[c][x][2], ~Settled(v)'
        PROVE  \E y \in 1..(x - 1) : batch'[c][y] = v
    <3>1. ~Settled(v)
      BY <1>3, <2>2
    <3>2. PICK n \in Nat : n = Len(batch[c])
      BY <1>2
    <3>3. \E y \in 1..n : y < x /\ batch[c][y] = v
      <4>1. CASE x = n + 1
        <5>1. v \in Held(c)
          BY <1>1, <2>1, <2>2, <3>1, <3>2, <4>1, VerdictIsPair DEF HandNext
        <5> QED
          BY <3>2, <4>1, <5>1
      <4>2. CASE x # n + 1
        <5>1. x \in 1..n
          BY <2>1, <3>2, <4>2
        <5>2. batch'[c][x] = batch[c][x]
          BY <2>1, <3>2, <5>1
        <5>3. \E y \in 1..(x - 1) : batch[c][y] = v
          BY <1>1, <2>2, <3>1, <3>2, <5>1, <5>2 DEF BatchFilled
        <5> QED
          BY <5>1, <5>3
      <4> QED
        BY <4>1, <4>2
    <3>4. PICK y \in 1..n : y < x /\ batch[c][y] = v
      BY <3>3
    <3>5. x \in Nat /\ y \in 1..(x - 1) /\ batch'[c][y] = v
      BY <2>1, <3>2, <3>4
    <3> QED
      BY <3>5
  <2>3. BatchFilled(c)'
    <3>1. \A x \in 1..Len(batch'[c]) : ~(x < FirstLeft(c)')
      BY <1>2, <2>1
    <3> QED
      BY <2>2, <3>1 DEF BatchFilled
  <2>4. HandNext(c)'
    BY <2>1 DEF HandNext
  <2> QED
    BY <2>3, <2>4
<1>7. CASE Finishes(c)
  <2>1. pc[c] = "commit" /\ hand'[c] = hand[c] /\ Len(batch'[c]) = 0
    BY <1>2, <1>7 DEF Finishes
  <2>2. \A v \in Held(c) : Settled(v)
    BY <2>1, CommittedBatchSettled
  <2>3. BatchFilled(c)'
    BY <2>1 DEF BatchFilled
  <2>4. HandNext(c)'
    BY <1>1, <1>3, <2>1, <2>2 DEF HandNext
  <2> QED
    BY <2>3, <2>4
<1>8. CASE Loses(c)
  <2>1. hand'[c] = <<>> /\ Len(batch'[c]) = 0
    BY <1>2, <1>8 DEF Loses
  <2> QED
    BY <2>1 DEF BatchFilled, HandNext
<1> QED
  BY <1>4, <1>5, <1>6, <1>7, <1>8 DEF WorkStep

(* Whatever a consumer held is still with it, settled, or no longer its    *)
(* business.                                                               *)
LEMMA HeldOrSettled ==
    ASSUME TypeOK, Stages, NothingSkipped, VerdictStep, NEW c \in Consumer, WorkStep(c),
           NEW p \in Partition, owner'[p] = c,
           NEW v \in Verdict, v \in Held(c) \/ v = hand[c]
    PROVE  Settled(v)' \/ v \in Held(c)' \/ v = hand'[c]
<1> USE DEF Held
<1>1. v # <<>> /\ Len(batch[c]) \in Nat
  BY VerdictIsPair, BatchElements
<1>2. CASE Stays(c)
  BY <1>2 DEF Stays
<1>3. CASE \E q \in Partition : TakesFrom(q, c)
  BY <1>1, <1>3 DEF TakesFrom
<1>4. CASE Adds(c)
  <2>1. PICK n \in Nat : n = Len(batch[c])
    BY <1>1
  <2>2. /\ Len(batch'[c]) = n + 1 /\ batch'[c][n + 1] = hand[c]
        /\ \A x \in 1..n : batch'[c][x] = batch[c][x]
    BY <1>4, <2>1 DEF Adds
  <2>3. \E x \in 1..(n + 1) : batch'[c][x] = v
    <3>1. CASE v = hand[c]
      BY <2>2, <3>1
    <3>2. CASE v \in Held(c)
      <4>1. PICK x \in 1..n : batch[c][x] = v
        BY <2>1, <3>2
      <4>2. x \in 1..(n + 1) /\ batch'[c][x] = v
        BY <2>2, <4>1
      <4> QED
        BY <4>2
    <3> QED
      BY <3>1, <3>2
  <2> QED
    BY <2>2, <2>3
<1>5. CASE Finishes(c)
  BY <1>5, CommittedBatchSettled DEF Finishes, VerdictStep
<1>6. CASE Loses(c)
  BY <1>6 DEF Loses
<1> QED
  BY <1>2, <1>3, <1>4, <1>5, <1>6 DEF WorkStep

LEMMA PartitionKeepsOrder ==
    ASSUME TypeOK, Stages, NothingSkipped, CommittedIsSettled, VerdictStep,
           \A c \in Consumer : WorkStep(c), \A p \in Partition : PartitionStep(p),
           owner' \in [Partition -> Consumer \cup {Nobody}],
           NEW v \in Verdict
    PROVE  NonePassed(v)'
<1>1. SUFFICES ASSUME v[2] <= fetched'[v[1]], owner'[v[1]] # Nobody, NEW c \in Consumer,
                      c = owner'[v[1]]
               PROVE  Settled(v)' \/ v \in Held(c)' \/ v = hand'[c]
  BY VerdictIsPair DEF NonePassed, Held
<1>2. PICK p \in Partition : p = v[1] /\ v = <<p, v[2]>> /\ v[2] \in 1..Len(Log[p])
  BY VerdictIsPair
<1>3. /\ v[2] \in Nat /\ fetched[p] \in Nat
      /\ Settled(v) => Settled(v)'
      /\ NonePassed(v)
  BY <1>2, VerdictIsPair, SkippedParts DEF TypeOK, VerdictStep
<1>4. c = owner'[p]
  BY <1>1, <1>2
<1>5. CASE owner'[p] = owner[p] /\ fetched'[p] = fetched[p]
  <2>1. Settled(v) \/ v \in Held(c) \/ v = hand[c]
    BY <1>1, <1>2, <1>3, <1>4, <1>5 DEF NonePassed
  <2> QED
    BY <1>3, <1>4, <2>1, HeldOrSettled
<1>6. CASE fetched'[p] = committed[p]
  BY <1>1, <1>2, <1>3, <1>6 DEF CommittedIsSettled
<1>7. CASE owner[p] \in Consumer /\ TakesFrom(p, owner[p])
  <2>1. /\ owner[p] = c /\ hand'[c] = <<p, fetched[p] + 1>> /\ fetched'[p] = fetched[p] + 1
    BY <1>4, <1>7 DEF TakesFrom
  <2>2. CASE v[2] = fetched[p] + 1
    <3>1. v = hand'[c]
      BY <1>2, <2>1, <2>2
    <3> QED
      BY <1>2, <1>4, <3>1
  <2>3. CASE v[2] # fetched[p] + 1
    <3>1. v[2] <= fetched[p]
      BY <1>1, <1>2, <1>3, <2>1, <2>3
    <3>2. owner[p] # Nobody
      BY <1>7, VerdictsAssumption
    <3>3. Settled(v) \/ v \in Held(c) \/ v = hand[c]
      BY <1>2, <1>3, <2>1, <3>1, <3>2 DEF NonePassed
    <3> QED
      BY <1>3, <1>4, <3>3, HeldOrSettled
  <2> QED
    BY <2>2, <2>3
<1> QED
  BY <1>1, <1>2, <1>5, <1>6, <1>7 DEF PartitionStep

LEMMA SkippedStep ==
    ASSUME TypeOK, Stages, NothingSkipped, CommittedIsSettled, [Next]_vars
    PROVE  NothingSkipped'
<1>1. VerdictStep /\ (\A c \in Consumer : WorkStep(c)) /\ \A p \in Partition : PartitionStep(p)
  BY Steps
<1>2. owner' \in [Partition -> Consumer \cup {Nobody}]
  BY TypeStep DEF TypeOK
<1>3. \A c \in Consumer : BatchFilled(c)' /\ HandNext(c)'
  BY <1>1, WorkKeepsOrder
<1>4. \A v \in Verdict : NonePassed(v)'
  BY <1>1, <1>2, PartitionKeepsOrder
<1>5. NothingSkipped' <=> /\ \A c \in Consumer : BatchFilled(c)' /\ HandNext(c)'
                          /\ \A v \in Verdict : NonePassed(v)'
  BY DEF NothingSkipped, BatchFilled, HandNext, NonePassed
<1> QED
  BY <1>3, <1>4, <1>5

-----------------------------------------------------------------------------
(* Tries, the dead letter topic, flags and jobs.                           *)

LEMMA BoundsGrow ==
    ASSUME TypeOK, [Next]_vars
    PROVE  /\ faults \in Nat /\ moves \in Nat /\ cancels \in Nat /\ fetchErrors \in Nat
           /\ faults' >= faults /\ moves' >= moves /\ cancels' >= cancels
           /\ fetchErrors' >= fetchErrors
<1> USE Numbers
<1>1. faults \in Nat /\ moves \in Nat /\ cancels \in Nat /\ fetchErrors \in Nat
  BY DEF TypeOK
<1>2. /\ faults' = faults \/ faults' = faults + 1
      /\ moves' = moves \/ moves' = moves + 1
      /\ cancels' = cancels \/ cancels' = cancels + 1
      /\ fetchErrors' = fetchErrors \/ fetchErrors' = fetchErrors + 1
  BY DEF Next, Work, Join, Rebalance, Fetch, FetchFails, Collect, EmptyBatch, BatchTimeout,
         SeeFetchError, CheckContext, Reject, Apply, ApplyFails, WriteDlq, WriteDlqFails,
         CommitMessages, Cancel, Down, Start, Fault, vars, bounds
<1> QED
  BY <1>1, <1>2

FaultyTries(c) ==
    InWork(c) /\ Applicable(Current(c)) /\ Of(Current(c)).msg \in Known =>
        /\ proc = "up" => tries[c] <= faults
        /\ pc[c] = "dlq" => tries[c] >= Retries

(* What a step does to the tries of a consumer.                            *)
TriesStep(c) ==
    \/ /\ pc'[c] = pc[c] /\ batch'[c] = batch[c] /\ i'[c] = i[c] /\ tries'[c] = tries[c]
       /\ proc' = "up" => proc = "up"
    \/ pc'[c] \notin {"process", "dlq"}
    \/ pc'[c] = "process" /\ tries'[c] = 0
    \/ InWork(c) /\ ~Applicable(Current(c)) /\ batch'[c] = batch[c] /\ i'[c] = i[c]
    \/ /\ pc[c] = "process" /\ batch'[c] = batch[c] /\ i'[c] = i[c] /\ tries'[c] = tries[c] + 1
       /\ pc'[c] = (IF tries[c] + 1 = Retries THEN "dlq" ELSE "process")
       /\ proc' = proc /\ (proc = "up" /\ Of(Current(c)).msg \in Known => faults' = faults + 1)

LEMMA TriesSteps ==
    ASSUME TypeOK, Stages, [Next]_vars
    PROVE  \A c \in Consumer : TriesStep(c)
<1>1. CASE UNCHANGED vars
  BY <1>1 DEF vars, consumers, TriesStep
<1>2. CASE \E p \in Partition, c \in Consumer : Join(p, c) \/ Rebalance(p, c)
  BY <1>2 DEF Join, Rebalance, consumers, TriesStep
<1>3. ASSUME NEW c \in Consumer, Work(c) PROVE \A d \in Consumer : TriesStep(d)
  <2>1. CASE Fetch(c) \/ FetchFails(c) \/ EmptyBatch(c)
    BY <2>1 DEF Fetch, FetchFails, EmptyBatch, TriesStep, vars, consumers
  <2>2. CASE Collect(c) \/ BatchTimeout(c) \/ CommitMessages(c)
    <3>1. /\ pc[c] \notin {"process", "dlq"}
          /\ pc' = pc \/ pc' = [pc EXCEPT ![c] = "check"] \/ pc' = [pc EXCEPT ![c] = "collect"]
          /\ batch' = batch \/ (\E b : batch' = [batch EXCEPT ![c] = b])
          /\ i' = i /\ tries' = tries /\ proc' = proc
      BY <2>2 DEF Collect, BatchTimeout, CommitMessages, NewBatch, GoTo
    <3>2. \A d \in Consumer \ {c} : pc'[d] = pc[d] /\ batch'[d] = batch[d]
      BY <3>1 DEF TypeOK
    <3>3. pc'[c] \notin {"process", "dlq"}
      BY <3>1 DEF TypeOK
    <3> QED
      BY <3>1, <3>2, <3>3 DEF TriesStep
  <2>3. CASE SeeFetchError(c) \/ CheckContext(c)
    <3>1. /\ proc' = proc
          /\ \/ Leave(c)
             \/ /\ \/ pc' = [pc EXCEPT ![c] = "collect"]
                   \/ pc' = [pc EXCEPT ![c] = "process"]
                /\ i' = [i EXCEPT ![c] = 1] /\ tries' = [tries EXCEPT ![c] = 0] /\ batch' = batch
      BY <2>3 DEF SeeFetchError, CheckContext, GoTo
    <3>2. \A d \in Consumer \ {c} :
              pc'[d] = pc[d] /\ batch'[d] = batch[d] /\ i'[d] = i[d] /\ tries'[d] = tries[d]
      BY <3>1 DEF Leave, GoTo, TypeOK
    <3>3. pc'[c] \notin {"process", "dlq"} \/ (pc'[c] = "process" /\ tries'[c] = 0)
      BY <3>1 DEF Leave, GoTo, TypeOK
    <3> QED
      BY <3>1, <3>2, <3>3 DEF TriesStep
  <2>4. CASE Reject(c)
    <3>1. /\ InWork(c) /\ ~Applicable(Current(c)) /\ pc' = [pc EXCEPT ![c] = "dlq"]
          /\ UNCHANGED <<batch, i, tries, proc>>
      BY <2>4 DEF Reject, GoTo, InWork
    <3> QED
      BY <3>1 DEF TriesStep, TypeOK
  <2>5. CASE Apply(c) \/ WriteDlq(c) \/ WriteDlqFails(c)
    <3>1. /\ pc' = [pc EXCEPT ![c] = IF i[c] = Len(batch[c]) THEN "commit" ELSE "process"]
          /\ i' = [i EXCEPT ![c] = @ + 1] /\ tries' = [tries EXCEPT ![c] = 0]
          /\ batch' = batch /\ proc' = proc
      BY <2>5 DEF Apply, WriteDlq, WriteDlqFails, Advance, GoTo
    <3> QED
      BY <3>1 DEF TriesStep, TypeOK
  <2>6. CASE ApplyFails(c)
    <3>1. /\ pc[c] = "process" /\ UNCHANGED <<batch, i, proc>>
          /\ pc' = [pc EXCEPT ![c] = IF tries[c] + 1 = Retries THEN "dlq" ELSE "process"]
          /\ tries' = [tries EXCEPT ![c] = tries[c] + 1]
          /\ proc = "up" /\ Of(Current(c)).msg \in Known => faults' = faults + 1
      BY <2>6 DEF ApplyFails, GoTo, LastTry, Fault
    <3> QED
      BY <3>1 DEF TriesStep, TypeOK
  <2> QED
    BY <1>3, <2>1, <2>2, <2>3, <2>4, <2>5, <2>6 DEF Work
<1>4. CASE Cancel \/ Down \/ Start
  BY <1>4 DEF Cancel, Down, Start, EveryConsumer, consumers, TriesStep
<1> QED
  BY <1>1, <1>2, <1>3, <1>4 DEF Next

(* Only Cancel ends the context, and nobody works in a process that is     *)
(* down.                                                                   *)
Stopped == proc # "up" => cancels > 0 \/ \A c \in Consumer : pc[c] = "exited"

LEMMA CancelsGrow ==
    ASSUME TypeOK, Stages, [Next]_vars
    PROVE  cancels \in Nat /\ cancels' \in Nat /\ cancels' >= cancels
<1> USE Numbers
<1>1. cancels \in 0..MaxCancels
  BY DEF TypeOK
<1>2. cancels' \in 0..MaxCancels
  BY TypeStep DEF TypeOK
<1> QED
  BY <1>1, <1>2, BoundsGrow

LEMMA StoppedStep ==
    ASSUME TypeOK, Stages, Stopped, [Next]_vars
    PROVE  Stopped'
<1>1. cancels \in Nat /\ cancels' \in Nat /\ cancels' >= cancels
  BY CancelsGrow
<1>2. CASE Cancel
  BY <1>1, <1>2 DEF Cancel, Stopped
<1>3. CASE Down \/ Start
  BY <1>3 DEF Down, Start, EveryConsumer, Stopped
<1>4. CASE UNCHANGED vars \/ (\E p \in Partition, d \in Consumer : Join(p, d) \/ Rebalance(p, d))
  BY <1>1, <1>4 DEF Join, Rebalance, vars, consumers, bounds, Stopped
<1>5. ASSUME NEW c \in Consumer, Work(c) PROVE Stopped'
  <2>1. pc[c] # "exited" /\ proc' = proc
    BY <1>5 DEF Work, Fetch, FetchFails, Collect, EmptyBatch, BatchTimeout, SeeFetchError,
                CheckContext, Reject, Apply, ApplyFails, WriteDlq, WriteDlqFails,
                CommitMessages, vars
  <2> QED
    BY <1>1, <2>1 DEF Stopped
<1> QED
  BY <1>2, <1>3, <1>4, <1>5 DEF Next

LEMMA FaultyTriesStep ==
    ASSUME TypeOK, Stages, TriesAreFaults, [Next]_vars
    PROVE  TriesAreFaults'
<1> USE Numbers
<1>1. ASSUME NEW c \in Consumer
      PROVE  FaultyTries(c)'
  <2>1. TriesStep(c) /\ faults \in Nat /\ faults' \in Nat /\ faults' >= faults /\ tries[c] \in Nat
    <3>1. TriesStep(c) /\ faults \in Nat /\ faults' >= faults
      BY TriesSteps, BoundsGrow
    <3>2. TypeOK'
      BY TypeStep
    <3>3. faults' \in Nat
      BY <3>2 DEF TypeOK
    <3>4. tries[c] \in 0..Retries
      BY DEF TypeOK
    <3> QED
      BY <3>1, <3>3, <3>4
  <2>2. FaultyTries(c)
    BY DEF TriesAreFaults, FaultyTries, InWork
  <2>3. CASE pc'[c] \notin {"process", "dlq"}
    BY <2>3 DEF FaultyTries, InWork
  <2>4. CASE pc'[c] = "process" /\ tries'[c] = 0
    BY <2>1, <2>4 DEF FaultyTries, InWork
  <2>5. CASE InWork(c) /\ ~Applicable(Current(c)) /\ batch'[c] = batch[c] /\ i'[c] = i[c]
    BY <2>5 DEF FaultyTries, Current, Applicable
  <2>6. CASE /\ pc'[c] = pc[c] /\ batch'[c] = batch[c] /\ i'[c] = i[c] /\ tries'[c] = tries[c]
             /\ proc' = "up" => proc = "up"
    BY <2>1, <2>2, <2>6 DEF FaultyTries, Current, Applicable, InWork
  <2>7. CASE /\ pc[c] = "process" /\ batch'[c] = batch[c] /\ i'[c] = i[c]
             /\ tries'[c] = tries[c] + 1
             /\ pc'[c] = (IF tries[c] + 1 = Retries THEN "dlq" ELSE "process")
             /\ proc' = proc /\ (proc = "up" /\ Of(Current(c)).msg \in Known => faults' = faults + 1)
    <3>1. SUFFICES ASSUME Applicable(Current(c)), Of(Current(c)).msg \in Known
                   PROVE  /\ proc' = "up" => tries'[c] <= faults'
                          /\ pc'[c] = "dlq" => tries'[c] >= Retries
      BY <2>7 DEF FaultyTries, Current, Applicable, Of
    <3>2. proc = "up" => tries[c] <= faults /\ faults' = faults + 1
      BY <2>2, <2>7, <3>1 DEF FaultyTries, InWork
    <3> QED
      BY <2>1, <2>7, <3>2
  <2> QED
    BY <2>1, <2>3, <2>4, <2>5, <2>6, <2>7 DEF TriesStep
<1>2. Stopped'
  BY StoppedStep DEF TriesAreFaults, Stopped
<1> QED
  BY <1>1, <1>2 DEF TriesAreFaults, FaultyTries, InWork, Stopped

LEMMA DlqStep ==
    ASSUME TypeOK, Stages, TriesAreFaults, DlqOnlyAfterRetries, [Next]_vars
    PROVE  DlqOnlyAfterRetries'
<1> USE Numbers
<1>1. \/ dlq' = dlq
      \/ \E c \in Consumer : pc[c] = "dlq" /\ dlq' = dlq \cup {Current(c)}
  BY DEF Next, Work, Join, Rebalance, Fetch, FetchFails, Collect, EmptyBatch, BatchTimeout,
         SeeFetchError, CheckContext, Reject, Apply, ApplyFails, WriteDlq, WriteDlqFails,
         CommitMessages, Cancel, Down, Start, vars, letters
<1>2. faults \in Nat /\ faults' \in Nat /\ faults' >= faults
  <2>1. faults \in 0..MaxFaults
    BY DEF TypeOK
  <2>2. faults' \in 0..MaxFaults
    BY TypeStep DEF TypeOK
  <2> QED
    BY <2>1, <2>2, BoundsGrow
<1>3. ASSUME NEW v \in dlq', Applicable(v), Of(v).msg \in Known
      PROVE  faults >= Retries \/ cancels > 0
  <2>1. CASE v \in dlq
    BY <1>3, <2>1 DEF DlqOnlyAfterRetries
  <2>2. CASE v \notin dlq
    <3>1. PICK c \in Consumer : pc[c] = "dlq" /\ v = Current(c)
      BY <1>1, <1>3, <2>2
    <3>2. tries[c] \in Nat
      BY DEF TypeOK
    <3>3. tries[c] >= Retries /\ (proc = "up" => tries[c] <= faults)
      BY <1>3, <3>1 DEF TriesAreFaults
    <3>4. proc = "up" \/ cancels > 0
      BY <3>1 DEF TriesAreFaults
    <3> QED
      BY <1>2, <3>2, <3>3, <3>4
  <2> QED
    BY <2>1, <2>2
<1>4. cancels \in Nat /\ cancels' \in Nat /\ cancels' >= cancels
  BY CancelsGrow
<1> QED
  BY <1>2, <1>3, <1>4 DEF DlqOnlyAfterRetries, Applicable

LEMMA FlagsStep ==
    ASSUME TypeOK, Stages, FlagsMatchJobs, [Next]_vars
    PROVE  FlagsMatchJobs'
<1>1. CASE \E c \in Consumer : Apply(c) \/ ApplyFails(c)
  BY <1>1, ApplyTypes
<1>2. CASE ~ \E c \in Consumer : Apply(c) \/ ApplyFails(c)
  <2>1. UNCHANGED tables
    BY <1>2 DEF Next, Work, Join, Rebalance, Fetch, FetchFails, Collect, EmptyBatch,
         BatchTimeout, SeeFetchError, CheckContext, Reject, WriteDlq, WriteDlqFails,
         CommitMessages, Cancel, Down, Start, vars
  <2> QED
    BY <2>1 DEF tables, FlagsMatchJobs
<1> QED
  BY <1>1, <1>2

-----------------------------------------------------------------------------
(* Undisturbed, a verdict is in one place and applied once.                *)

AllRun == proc = "up" /\ \A c \in Consumer : fetcher[c] = "run" /\ pc[c] # "exited"

TakenIsFetched ==
    \A v \in Verdict : Taken(v) => v[2] <= fetched[v[1]] /\ owner[v[1]] # Nobody

OneBatch ==
    \A c, d \in Consumer : \A x \in 1..Len(batch[c]) :
        \A y \in 1..Len(batch[d]) : batch[c][x] = batch[d][y] => c = d /\ x = y

NotInHand == \A c, d \in Consumer : \A x \in 1..Len(batch[c]) : batch[c][x] # hand[d]

LeftNotApplied ==
    \A c \in Consumer : \A x \in 1..Len(batch[c]) : x >= FirstLeft(c) => applied[batch[c][x]] = 0

OneHand ==
    \A c, d \in Consumer :
        hand[c] # <<>> => applied[hand[c]] = 0 /\ (hand[c] = hand[d] => c = d)

Placed == TakenIsFetched /\ OneBatch /\ NotInHand /\ LeftNotApplied /\ OneHand

LEMMA PlaceParts == OnePlace <=> (Undisturbed => AllRun /\ Placed)
BY DEF OnePlace, AllRun, Placed, TakenIsFetched, OneBatch, NotInHand, LeftNotApplied, OneHand

(* The steps there are when nothing disturbs.                              *)
Quiet ==
    /\ UNCHANGED <<owner, fetched, hand, batch, applied>>
    /\ \A c \in Consumer : FirstLeft(c)' >= FirstLeft(c)

Joins ==
    \E p \in Partition, c \in Consumer :
        /\ owner[p] = Nobody /\ c # Nobody /\ owner' = [owner EXCEPT ![p] = c]
        /\ \A q \in Partition \ {p} : fetched'[q] = fetched[q]
        /\ UNCHANGED <<hand, batch, applied, pc, i>>

Fetches ==
    \E p \in Partition, c \in Consumer :
        /\ TakesFrom(p, c) /\ c # Nobody
        /\ UNCHANGED <<owner, batch, applied, pc, i>>
        /\ \A q \in Partition \ {p} : fetched'[q] = fetched[q]
        /\ \A d \in Consumer \ {c} : hand'[d] = hand[d]

Collects ==
    \E c \in Consumer : Adds(c) /\ Alone(c) /\ UNCHANGED <<owner, fetched, applied>>

Applies ==
    \E c \in Consumer :
        /\ InWork(c) /\ FirstLeft(c)' = i[c] + 1 /\ Alone(c)
        /\ applied' = [applied EXCEPT ![Current(c)] = @ + 1]
        /\ UNCHANGED <<owner, fetched, hand, batch>>

Commits ==
    \E c \in Consumer :
        /\ batch'[c] = <<>> /\ Alone(c) /\ UNCHANGED <<owner, fetched, hand, applied>>

LEMMA StillUndisturbed ==
    ASSUME TypeOK, [Next]_vars, Undisturbed'
    PROVE  /\ Undisturbed /\ UNCHANGED bounds
<1>1. /\ faults \in Nat /\ moves \in Nat /\ cancels \in Nat /\ fetchErrors \in Nat
      /\ faults' >= faults /\ moves' >= moves /\ cancels' >= cancels
      /\ fetchErrors' >= fetchErrors
      /\ faults' \in Nat /\ moves' \in Nat /\ cancels' \in Nat /\ fetchErrors' \in Nat
  <2>1. /\ faults' = faults \/ faults' = faults + 1
        /\ moves' = moves \/ moves' = moves + 1
        /\ cancels' = cancels \/ cancels' = cancels + 1
        /\ fetchErrors' = fetchErrors \/ fetchErrors' = fetchErrors + 1
    BY DEF Next, Work, Join, Rebalance, Fetch, FetchFails, Collect, EmptyBatch, BatchTimeout,
           SeeFetchError, CheckContext, Reject, Apply, ApplyFails, WriteDlq, WriteDlqFails,
           CommitMessages, Cancel, Down, Start, Fault, vars, bounds
  <2> QED
    BY <2>1, BoundsGrow
<1>2. faults' + moves' + cancels' + fetchErrors' = 0
  BY DEF Undisturbed
<1>3. faults' = 0 /\ moves' = 0 /\ cancels' = 0 /\ fetchErrors' = 0
  <2>1. \A j, k, l, m \in Nat : j + k + l + m = 0 => j = 0 /\ k = 0 /\ l = 0 /\ m = 0
    OBVIOUS
  <2>2. faults' \in Nat /\ moves' \in Nat /\ cancels' \in Nat /\ fetchErrors' \in Nat
    BY <1>1
  <2> QED
    BY <1>2, <2>1, <2>2
<1>4. faults = 0 /\ moves = 0 /\ cancels = 0 /\ fetchErrors = 0
  BY <1>1, <1>3
<1> QED
  BY <1>3, <1>4 DEF Undisturbed, bounds

LEMMA CalmSteps ==
    ASSUME TypeOK, Stages, AllRun, [Next]_vars, UNCHANGED bounds
    PROVE  AllRun' /\ (Quiet \/ Joins \/ Fetches \/ Collects \/ Applies \/ Commits)
<1>1. /\ faults' = faults /\ moves' = moves /\ cancels' = cancels /\ fetchErrors' = fetchErrors
      /\ faults \in Nat /\ moves \in Nat /\ cancels \in Nat /\ fetchErrors \in Nat
  BY BoundsGrow DEF bounds
<1>2. ~Fault /\ proc = "up"
  BY <1>1 DEF Fault, AllRun
<1>3. \A c \in Consumer : FirstLeft(c) \in Nat /\ c # Nobody
  BY VerdictsAssumption DEF FirstLeft, TypeOK
<1>4. CASE UNCHANGED vars
  <2>1. UNCHANGED <<owner, fetched, hand, batch, applied, pc, i, proc, fetcher>>
    BY <1>4 DEF vars, kafka, consumers, tables
  <2> QED
    BY <1>3, <2>1 DEF Quiet, AllRun, FirstLeft
<1>5. ASSUME NEW p \in Partition, NEW c \in Consumer, Join(p, c) \/ Rebalance(p, c)
      PROVE  AllRun' /\ Joins
  <2>1. Join(p, c)
    BY <1>1, <1>5 DEF Rebalance
  <2>2. /\ owner[p] = Nobody /\ owner' = [owner EXCEPT ![p] = c]
        /\ fetched' = [fetched EXCEPT ![p] = committed[p]]
        /\ UNCHANGED <<hand, batch, applied, pc, i, proc, fetcher>>
    BY <2>1 DEF Join, Assign, consumers, tables
  <2>3. \A q \in Partition \ {p} : fetched'[q] = fetched[q]
    BY <2>2 DEF TypeOK
  <2> QED
    BY <1>3, <2>2, <2>3 DEF Joins, AllRun
<1>6. ASSUME NEW c \in Consumer, Fetch(c) PROVE AllRun' /\ Fetches
  <2>1. PICK p \in Partition :
               /\ owner[p] = c /\ fetched' = [fetched EXCEPT ![p] = fetched[p] + 1]
               /\ hand' = [hand EXCEPT ![c] = <<p, fetched[p] + 1>>]
    BY <1>6 DEF Fetch
  <2>2. hand[c] = <<>> /\ UNCHANGED <<owner, batch, pc, i, applied, proc, fetcher>>
    BY <1>6 DEF Fetch, tables
  <2>3. TakesFrom(p, c)
    BY <2>1, <2>2 DEF TakesFrom, FirstLeft, TypeOK
  <2>4. /\ \A q \in Partition \ {p} : fetched'[q] = fetched[q]
        /\ \A d \in Consumer \ {c} : hand'[d] = hand[d]
    BY <2>1 DEF TypeOK
  <2> QED
    BY <1>3, <2>2, <2>3, <2>4 DEF Fetches, AllRun
<1>7. ASSUME NEW c \in Consumer, Collect(c) PROVE AllRun' /\ Collects
  <2>1. /\ UNCHANGED <<owner, fetched, applied, i, proc, fetcher>>
        /\ pc[c] = "collect" /\ (pc' = pc \/ pc' = [pc EXCEPT ![c] = "check"])
        /\ hand[c] # <<>> /\ hand' = [hand EXCEPT ![c] = <<>>]
        /\ batch' = [batch EXCEPT ![c] = AppendTo(@, hand[c])]
    BY <1>7 DEF Collect, GoTo, kafka, tables
  <2>2. FirstLeft(c) = 1 /\ FirstLeft(c)' = 1 /\ hand[c] # <<>> /\ hand'[c] = <<>>
    BY <2>1 DEF FirstLeft, TypeOK
  <2>3. Adds(c)
    BY <1>7, <2>2, CollectTypes DEF Adds
  <2>4. Alone(c) /\ \A d \in Consumer : pc'[d] # "exited"
    BY <2>1 DEF Alone, TypeOK, AllRun
  <2> QED
    BY <2>1, <2>3, <2>4 DEF Collects, AllRun
<1>8. ASSUME NEW c \in Consumer,
             FetchFails(c) \/ EmptyBatch(c) \/ BatchTimeout(c) \/ Reject(c)
      PROVE  AllRun' /\ Quiet
  <2>1. ~FetchFails(c)
    BY <1>1, <1>2 DEF FetchFails
  <2>2. /\ UNCHANGED <<owner, fetched, applied, hand, batch, i, proc, fetcher>>
        /\ \/ pc' = pc
           \/ pc[c] = "collect" /\ pc' = [pc EXCEPT ![c] = "check"]
           \/ pc[c] = "process" /\ pc' = [pc EXCEPT ![c] = "dlq"]
    BY <1>8, <2>1 DEF EmptyBatch, BatchTimeout, Reject, GoTo, vars, consumers, kafka, tables
  <2>3. \A d \in Consumer : FirstLeft(d)' = FirstLeft(d) /\ pc'[d] # "exited"
    BY <2>2 DEF FirstLeft, TypeOK, AllRun
  <2> QED
    BY <1>3, <2>2, <2>3 DEF Quiet, AllRun
<1>9. ASSUME NEW c \in Consumer, SeeFetchError(c) \/ CheckContext(c)
      PROVE  AllRun' /\ Quiet
  <2>1. ~SeeFetchError(c)
    BY DEF SeeFetchError, AllRun
  <2>2. /\ pc[c] = "check" /\ UNCHANGED <<owner, fetched, hand, batch, applied, proc, fetcher>>
        /\ pc' = [pc EXCEPT ![c] = IF batch[c] = <<>> THEN "collect" ELSE "process"]
        /\ i' = [i EXCEPT ![c] = 1]
    BY <1>2, <1>9, <2>1 DEF CheckContext, GoTo, kafka, tables
  <2>3. \A d \in Consumer : FirstLeft(d)' = FirstLeft(d) /\ pc'[d] # "exited"
    BY <2>2 DEF FirstLeft, TypeOK, AllRun
  <2> QED
    BY <1>3, <2>2, <2>3 DEF Quiet, AllRun
<1>10. ASSUME NEW c \in Consumer, ApplyFails(c) PROVE AllRun' /\ Quiet
  <2>1. /\ pc[c] = "process" /\ UNCHANGED <<owner, fetched, hand, batch, applied, i, proc, fetcher>>
        /\ pc' = [pc EXCEPT ![c] = "dlq"] \/ pc' = [pc EXCEPT ![c] = "process"]
    BY <1>2, <1>10 DEF ApplyFails, GoTo, RolledBack, kafka, tables
  <2>2. \A d \in Consumer : FirstLeft(d)' = FirstLeft(d) /\ pc'[d] # "exited"
    BY <2>1 DEF FirstLeft, TypeOK, AllRun
  <2> QED
    BY <1>3, <2>1, <2>2 DEF Quiet, AllRun
<1>11. ASSUME NEW c \in Consumer, Apply(c) \/ WriteDlq(c) \/ WriteDlqFails(c)
       PROVE  AllRun' /\ (Quiet \/ Applies)
  <2>1. /\ InWork(c) /\ UNCHANGED <<owner, fetched, hand, batch, proc, fetcher>>
        /\ pc' = [pc EXCEPT ![c] = IF i[c] = Len(batch[c]) THEN "commit" ELSE "process"]
        /\ i' = [i EXCEPT ![c] = i[c] + 1]
        /\ \/ applied' = applied
           \/ applied' = [applied EXCEPT ![Current(c)] = @ + 1]
    BY <1>11 DEF Apply, ApplyVerdict, WriteDlq, WriteDlqFails, Advance, GoTo, InWork, kafka, tables
  <2>2. /\ FirstLeft(c) = i[c] /\ FirstLeft(c)' = i[c] + 1 /\ Alone(c)
        /\ \A d \in Consumer \ {c} : FirstLeft(d)' = FirstLeft(d)
        /\ \A d \in Consumer : pc'[d] # "exited"
    BY <2>1 DEF FirstLeft, InWork, Alone, TypeOK, AllRun
  <2>3. \A d \in Consumer : FirstLeft(d)' >= FirstLeft(d)
    BY <1>3, <2>2
  <2>4. Quiet \/ Applies
    BY <2>1, <2>2, <2>3 DEF Quiet, Applies
  <2> QED
    BY <2>1, <2>2, <2>4 DEF AllRun
<1>12. ASSUME NEW c \in Consumer, CommitMessages(c) PROVE AllRun' /\ Commits
  <2>1. /\ pc' = [pc EXCEPT ![c] = "collect"] /\ batch' = [batch EXCEPT ![c] = <<>>]
        /\ UNCHANGED <<owner, fetched, hand, i, applied, proc, fetcher>>
    BY <1>12 DEF CommitMessages, NewBatch, GoTo, tables
  <2>2. batch'[c] = <<>> /\ Alone(c) /\ \A d \in Consumer : pc'[d] # "exited"
    BY <2>1 DEF Alone, TypeOK, AllRun
  <2> QED
    BY <2>1, <2>2 DEF Commits, AllRun
<1>13. ~Cancel /\ ~Down /\ ~Start
  BY <1>1, <1>2 DEF Cancel, Down, Start
<1> QED
  BY <1>4, <1>5, <1>6, <1>7, <1>8, <1>9, <1>10, <1>11, <1>12, <1>13 DEF Next, Work

LEMMA QuietPlaced ==
    ASSUME TypeOK, TypeOK', Placed, Quiet
    PROVE  Placed'
<1>1. \A c \in Consumer : /\ Len(batch[c]) \in Nat
                          /\ FirstLeft(c) \in Nat /\ FirstLeft(c)' \in Nat /\ FirstLeft(c)' >= FirstLeft(c)
  BY BatchElements DEF FirstLeft, TypeOK, Quiet
<1>2. UNCHANGED <<owner, fetched, hand, batch, applied>>
  BY DEF Quiet
<1>3. TakenIsFetched' /\ OneBatch' /\ NotInHand' /\ OneHand'
  BY <1>2 DEF Placed, TakenIsFetched, Taken, Held, OneBatch, NotInHand, OneHand
<1>4. LeftNotApplied'
  <2>1. ASSUME NEW c \in Consumer, NEW x \in 1..Len(batch[c]), x >= FirstLeft(c)'
        PROVE  applied[batch[c][x]] = 0
    <3>1. x >= FirstLeft(c)
      BY <1>1, <2>1
    <3> QED
      BY <3>1 DEF Placed, LeftNotApplied
  <2> QED
    BY <1>2, <2>1 DEF LeftNotApplied
<1> QED
  BY <1>3, <1>4 DEF Placed

LEMMA JoinPlaced ==
    ASSUME TypeOK, Placed, Joins
    PROVE  Placed'
<1>1. PICK p \in Partition, c \in Consumer :
          /\ owner[p] = Nobody /\ c # Nobody /\ owner' = [owner EXCEPT ![p] = c]
          /\ \A q \in Partition \ {p} : fetched'[q] = fetched[q]
          /\ UNCHANGED <<hand, batch, applied, pc, i>>
  BY DEF Joins
<1>2. OneBatch' /\ NotInHand' /\ LeftNotApplied' /\ OneHand'
  BY <1>1 DEF Placed, OneBatch, NotInHand, LeftNotApplied, OneHand, FirstLeft
<1>3. ASSUME NEW v \in Verdict, Taken(v)
      PROVE  v[2] <= fetched'[v[1]] /\ owner'[v[1]] # Nobody
  <2>1. v[2] <= fetched[v[1]] /\ owner[v[1]] # Nobody
    BY <1>3 DEF Placed, TakenIsFetched
  <2>2. v[1] \in Partition \ {p}
    BY <1>1, <2>1, VerdictIsPair
  <2> QED
    BY <1>1, <2>1, <2>2 DEF TypeOK
<1>4. TakenIsFetched'
  BY <1>1, <1>3 DEF TakenIsFetched, Taken, Held
<1> QED
  BY <1>2, <1>4 DEF Placed

LEMMA FetchPlaced ==
    ASSUME TypeOK, TypeOK', Placed, Fetches
    PROVE  Placed'
<1>1. PICK p \in Partition, c \in Consumer :
          /\ TakesFrom(p, c) /\ c # Nobody
          /\ UNCHANGED <<owner, batch, applied, pc, i>>
          /\ \A q \in Partition \ {p} : fetched'[q] = fetched[q]
          /\ \A d \in Consumer \ {c} : hand'[d] = hand[d]
  BY DEF Fetches
<1>2. PICK o \in Nat : o = fetched[p] + 1
  <2>1. fetched[p] \in Nat
    BY DEF TypeOK
  <2> QED
    BY <2>1
<1>3. /\ owner[p] = c /\ hand[c] = <<>> /\ hand'[c] = <<p, o>> /\ fetched'[p] = o
      /\ fetched[p] \in Nat
  <2>1. fetched[p] \in Nat
    BY DEF TypeOK
  <2> QED
    BY <1>1, <1>2, <2>1 DEF TakesFrom
<1>4. <<p, o>> \in Verdict
  <2>1. hand'[c] \in Verdict \cup {<<>>}
    BY DEF TypeOK
  <2>2. <<p, o>> # <<>>
    OBVIOUS
  <2> QED
    BY <1>3, <2>1, <2>2
<1>5. PICK w \in Verdict : w = <<p, o>>
  BY <1>4
<1>6. w[1] = p /\ w[2] = o /\ ~(o <= fetched[p])
  BY <1>2, <1>3, <1>5, VerdictIsPair
<1>7. ~Taken(w)
  BY <1>6 DEF Placed, TakenIsFetched
<1>8. /\ applied[w] = 0
      /\ \A d \in Consumer : w # hand[d] /\ \A x \in 1..Len(batch[d]) : batch[d][x] # w
  <2>1. applied[w] \in Nat
    BY DEF TypeOK
  <2>2. ~(applied[w] > 0) /\ \A d \in Consumer : w \notin Held(d) /\ w # hand[d]
    BY <1>7 DEF Taken
  <2> QED
    BY <2>1, <2>2 DEF Held
<1>9. hand'[c] = w /\ w # <<>>
  BY <1>3, <1>5, VerdictIsPair
<1>10. OneBatch' /\ LeftNotApplied'
  BY <1>1 DEF Placed, OneBatch, LeftNotApplied, FirstLeft
<1>11. NotInHand'
  BY <1>1, <1>8, <1>9 DEF Placed, NotInHand
<1>12. OneHand'
  BY <1>1, <1>8, <1>9 DEF Placed, OneHand
<1>13. ASSUME NEW v \in Verdict, Taken(v)'
       PROVE  v[2] <= fetched'[v[1]] /\ owner'[v[1]] # Nobody
  <2>1. CASE v = w
    BY <1>1, <1>3, <1>6, <2>1
  <2>2. CASE v # w
    <3>1. Taken(v)
      BY <1>1, <1>9, <1>13, <2>2 DEF Taken, Held
    <3>2. v[2] <= fetched[v[1]] /\ owner[v[1]] # Nobody
      BY <3>1 DEF Placed, TakenIsFetched
    <3>3. v[1] \in Partition /\ v[2] \in Nat
      <4>1. v[1] \in Partition /\ v[2] \in 1..Len(Log[v[1]])
        BY VerdictIsPair
      <4> QED
        BY <4>1
    <3>4. v[2] <= fetched'[v[1]]
      BY <1>1, <1>2, <1>3, <3>2, <3>3
    <3> QED
      BY <1>1, <3>2, <3>4
  <2> QED
    BY <2>1, <2>2
<1>14. TakenIsFetched'
  BY <1>13 DEF TakenIsFetched
<1> QED
  BY <1>10, <1>11, <1>12, <1>14 DEF Placed

LEMMA CollectPlaced ==
    ASSUME TypeOK, Placed, Collects
    PROVE  Placed'
<1>1. PICK c \in Consumer : Adds(c) /\ Alone(c) /\ UNCHANGED <<owner, fetched, applied>>
  BY DEF Collects
<1>2. PICK n \in Nat : n = Len(batch[c])
  BY BatchElements
<1>3. /\ hand[c] # <<>> /\ hand'[c] = <<>> /\ FirstLeft(c) = 1 /\ FirstLeft(c)' = 1
      /\ Len(batch'[c]) = n + 1 /\ batch'[c][n + 1] = hand[c]
      /\ \A x \in 1..n : batch'[c][x] = batch[c][x]
  BY <1>1, <1>2 DEF Adds
<1>4. \A d \in Consumer \ {c} : /\ hand'[d] = hand[d] /\ batch'[d] = batch[d]
                                /\ FirstLeft(d)' = FirstLeft(d) /\ Len(batch[d]) \in Nat
  BY <1>1, BatchElements DEF Alone, FirstLeft
<1>5. \A x \in 1..(n + 1) : x \in 1..n \/ x = n + 1
  OBVIOUS
<1>6. \A x \in 1..n : x \in 1..Len(batch'[c])
  BY <1>3
<1>7. /\ applied[hand[c]] = 0
      /\ \A d \in Consumer : /\ \A x \in 1..Len(batch[d]) : batch[d][x] # hand[c]
                             /\ hand[c] = hand[d] => c = d
  BY <1>3 DEF Placed, NotInHand, OneHand
<1>8. OneBatch'
  <2>1. ASSUME NEW d \in Consumer, NEW e \in Consumer, NEW x \in 1..Len(batch'[d]),
               NEW y \in 1..Len(batch'[e]), batch'[d][x] = batch'[e][y]
        PROVE  d = e /\ x = y
    <3>1. \/ x \in 1..Len(batch[d]) /\ batch'[d][x] = batch[d][x]
          \/ d = c /\ x = n + 1 /\ batch'[d][x] = hand[c]
      BY <1>2, <1>3, <1>4, <1>5
    <3>2. \/ y \in 1..Len(batch[e]) /\ batch'[e][y] = batch[e][y]
          \/ e = c /\ y = n + 1 /\ batch'[e][y] = hand[c]
      BY <1>2, <1>3, <1>4, <1>5
    <3>3. \A k \in 1..Len(batch[d]), l \in 1..Len(batch[e]) : batch[d][k] = batch[e][l] => d = e /\ k = l
      BY DEF Placed, OneBatch
    <3> QED
      BY <1>7, <2>1, <3>1, <3>2, <3>3
  <2> QED
    BY <2>1 DEF OneBatch
<1>9. NotInHand'
  <2>1. ASSUME NEW d \in Consumer, NEW e \in Consumer, NEW x \in 1..Len(batch'[d])
        PROVE  batch'[d][x] # hand'[e]
    <3>1. \/ x \in 1..Len(batch[d]) /\ batch'[d][x] = batch[d][x]
          \/ d = c /\ x = n + 1 /\ batch'[d][x] = hand[c]
      BY <1>2, <1>3, <1>4, <1>5
    <3>2. CASE e = c
      <4>1. \A k \in 1..Len(batch[d]) : batch[d][k] # <<>>
        BY BatchElements, VerdictIsPair
      <4> QED
        BY <1>3, <3>1, <3>2, <4>1
    <3>3. CASE e # c
      <4>1. hand'[e] = hand[e] /\ hand[c] # hand[e]
        BY <1>4, <1>7, <3>3
      <4>2. \A k \in 1..Len(batch[d]) : batch[d][k] # hand[e]
        BY DEF Placed, NotInHand
      <4> QED
        BY <3>1, <4>1, <4>2
    <3> QED
      BY <3>2, <3>3
  <2> QED
    BY <2>1 DEF NotInHand
<1>10. LeftNotApplied'
  <2>1. ASSUME NEW d \in Consumer, NEW x \in 1..Len(batch'[d]), x >= FirstLeft(d)'
        PROVE  applied[batch'[d][x]] = 0
    <3>1. CASE d = c
      <4>1. \A k \in 1..n : applied[batch[c][k]] = 0
        BY <1>2, <1>3 DEF Placed, LeftNotApplied
      <4> QED
        BY <1>3, <1>5, <1>7, <3>1, <4>1
    <3>2. CASE d # c
      BY <1>4, <2>1, <3>2 DEF Placed, LeftNotApplied
    <3> QED
      BY <3>1, <3>2
  <2> QED
    BY <1>1, <2>1 DEF LeftNotApplied
<1>11. OneHand'
  BY <1>1, <1>3, <1>4 DEF Placed, OneHand
<1>12. ASSUME NEW v \in Verdict, Taken(v)' PROVE Taken(v)
  <2>1. CASE applied[v] > 0
    BY <2>1 DEF Taken
  <2>2. CASE ~(applied[v] > 0)
    <3>1. PICK d \in Consumer : (\E x \in 1..Len(batch'[d]) : v = batch'[d][x]) \/ v = hand'[d]
      BY <1>1, <1>12, <2>2 DEF Taken, Held
    <3>2. CASE d = c
      <4>1. v # <<>>
        BY VerdictIsPair
      <4>2. PICK x \in 1..(n + 1) : v = batch'[c][x]
        BY <1>3, <3>1, <3>2, <4>1
      <4>3. (\E k \in 1..Len(batch[c]) : v = batch[c][k]) \/ v = hand[c]
        BY <1>2, <1>3, <1>5, <4>2
      <4> QED
        BY <4>3 DEF Taken, Held
    <3>3. CASE d # c
      BY <1>4, <3>1, <3>3 DEF Taken, Held
    <3> QED
      BY <3>2, <3>3
  <2> QED
    BY <2>1, <2>2
<1>13. TakenIsFetched'
  BY <1>1, <1>12 DEF Placed, TakenIsFetched
<1> QED
  BY <1>8, <1>9, <1>10, <1>11, <1>13 DEF Placed

LEMMA ApplyPlaced ==
    ASSUME TypeOK, Stages, Placed, Applies
    PROVE  /\ Placed'
           /\ \E v \in Verdict : applied[v] = 0 /\ applied' = [applied EXCEPT ![v] = @ + 1]
<1>1. PICK c \in Consumer :
          /\ InWork(c) /\ FirstLeft(c)' = i[c] + 1 /\ Alone(c)
          /\ applied' = [applied EXCEPT ![Current(c)] = @ + 1]
          /\ UNCHANGED <<owner, fetched, hand, batch>>
  BY DEF Applies
<1>2. /\ Current(c) \in Verdict /\ i[c] \in 1..Len(batch[c]) /\ Len(batch[c]) \in Nat
      /\ Current(c) = batch[c][i[c]] /\ FirstLeft(c) = i[c]
  BY <1>1, CurrentIsVerdict DEF InWork, Current, FirstLeft
<1>3. PICK v \in Verdict : v = batch[c][i[c]] /\ v = Current(c)
  BY <1>2
<1>4. applied[v] = 0
  BY <1>2, <1>3 DEF Placed, LeftNotApplied
<1>5. applied' = [applied EXCEPT ![v] = @ + 1] /\ \A w \in Verdict \ {v} : applied'[w] = applied[w]
  BY <1>1, <1>3 DEF TypeOK
<1>6. OneBatch' /\ NotInHand'
  BY <1>1 DEF Placed, OneBatch, NotInHand
<1>7. OneHand'
  <2>1. ASSUME NEW d \in Consumer, hand[d] # <<>> PROVE applied'[hand[d]] = 0
    <3>1. hand[d] \in Verdict /\ hand[d] # v /\ applied[hand[d]] = 0
      BY <1>2, <1>3, <2>1 DEF TypeOK, Placed, NotInHand, OneHand
    <3> QED
      BY <1>5, <3>1
  <2> QED
    BY <1>1, <2>1 DEF Placed, OneHand
<1>8. LeftNotApplied'
  <2>1. ASSUME NEW d \in Consumer, NEW x \in 1..Len(batch[d]), x >= FirstLeft(d)'
        PROVE  applied'[batch[d][x]] = 0
    <3>1. batch[d][x] \in Verdict /\ x >= FirstLeft(d) /\ batch[d][x] # v
      <4>1. batch[d][x] \in Verdict
        BY BatchElements
      <4>2. batch[d][x] = v => d = c /\ x = i[c]
        BY <1>2, <1>3 DEF Placed, OneBatch
      <4>3. CASE d = c
        BY <1>1, <1>2, <2>1, <4>1, <4>2, <4>3
      <4>4. CASE d # c
        BY <1>1, <2>1, <4>1, <4>2, <4>4 DEF Alone, FirstLeft
      <4> QED
        BY <4>3, <4>4
    <3>2. applied[batch[d][x]] = 0
      BY <3>1 DEF Placed, LeftNotApplied
    <3> QED
      BY <1>5, <3>1, <3>2
  <2> QED
    BY <1>1, <2>1 DEF LeftNotApplied
<1>9. ASSUME NEW w \in Verdict, Taken(w)' PROVE Taken(w)
  <2>1. CASE w = v
    BY <1>2, <1>3, <2>1 DEF Taken, Held
  <2>2. CASE w # v
    BY <1>1, <1>5, <1>9, <2>2 DEF Taken, Held
  <2> QED
    BY <2>1, <2>2
<1>10. TakenIsFetched'
  BY <1>1, <1>9 DEF Placed, TakenIsFetched
<1> QED
  BY <1>4, <1>5, <1>6, <1>7, <1>8, <1>10 DEF Placed

LEMMA CommitPlaced ==
    ASSUME TypeOK, Placed, Commits
    PROVE  Placed'
<1>1. PICK c \in Consumer :
          batch'[c] = <<>> /\ Alone(c) /\ UNCHANGED <<owner, fetched, hand, applied>>
  BY DEF Commits
<1>2. /\ Len(batch'[c]) = 0
      /\ \A d \in Consumer \ {c} : batch'[d] = batch[d] /\ FirstLeft(d)' = FirstLeft(d)
  BY <1>1 DEF Alone, FirstLeft
<1>3. \A d \in Consumer : \A x \in 1..Len(batch'[d]) : d # c
  BY <1>2
<1>4. OneBatch' /\ NotInHand' /\ LeftNotApplied' /\ OneHand'
  BY <1>1, <1>2, <1>3 DEF Placed, OneBatch, NotInHand, LeftNotApplied, OneHand
<1>5. \A v \in Verdict : Taken(v)' => Taken(v)
  BY <1>1, <1>2, <1>3 DEF Taken, Held
<1>6. TakenIsFetched'
  BY <1>1, <1>5 DEF Placed, TakenIsFetched
<1> QED
  BY <1>4, <1>6 DEF Placed

LEMMA OnePlaceStep ==
    ASSUME TypeOK, Stages, OnePlace, UndisturbedIsOnce, [Next]_vars
    PROVE  OnePlace' /\ UndisturbedIsOnce'
<1>1. TypeOK'
  BY TypeStep
<1>2. CASE ~Undisturbed'
  BY <1>2 DEF OnePlace, UndisturbedIsOnce
<1>3. CASE Undisturbed'
  <2>1. Undisturbed /\ UNCHANGED bounds
    BY <1>3, StillUndisturbed
  <2>2. AllRun /\ Placed
    BY <2>1, PlaceParts
  <2>3. AllRun' /\ (Quiet \/ Joins \/ Fetches \/ Collects \/ Applies \/ Commits)
    BY <2>1, <2>2, CalmSteps
  <2>4. Placed'
    BY <1>1, <2>2, <2>3, QuietPlaced, JoinPlaced, FetchPlaced, CollectPlaced, ApplyPlaced, CommitPlaced
  <2>5. OnePlace'
    BY <2>3, <2>4 DEF OnePlace, AllRun, Placed, TakenIsFetched, OneBatch, NotInHand, LeftNotApplied, OneHand
  <2>6. \/ applied' = applied
        \/ \E v \in Verdict : applied[v] = 0 /\ applied' = [applied EXCEPT ![v] = @ + 1]
    BY <2>2, <2>3, ApplyPlaced DEF Quiet, Joins, Fetches, Collects, Commits
  <2>7. \A v \in Verdict : applied[v] <= 1 /\ applied[v] \in Nat
    BY <2>1 DEF UndisturbedIsOnce, TypeOK
  <2>8. ASSUME NEW w \in Verdict PROVE applied'[w] <= 1
    <3>1. CASE applied' = applied
      BY <2>7, <3>1
    <3>2. CASE applied' # applied
      <4>1. PICK v \in Verdict : applied[v] = 0 /\ applied' = [applied EXCEPT ![v] = @ + 1]
        BY <2>6, <3>2
      <4>2. applied \in [Verdict -> Nat]
        BY DEF TypeOK
      <4> QED
        BY <2>7, <4>1, <4>2
    <3> QED
      BY <3>1, <3>2
  <2> QED
    BY <2>5, <2>8 DEF UndisturbedIsOnce
<1> QED
  BY <1>2, <1>3

-----------------------------------------------------------------------------
LEMMA VerdictsInit == Init => VerdictsInv
<1> SUFFICES ASSUME Init PROVE VerdictsInv
  OBVIOUS
<1> USE Numbers
<1>1. <<>> \in Seq(Verdict) /\ Len(<<>>) = 0
  OBVIOUS
<1>2. \A p \in Partition : Len(Log[p]) \in Nat
  BY VerdictIsPair
<1>3. KafkaTypes /\ BoundTypes
  BY <1>2 DEF Init, KafkaTypes, BoundTypes
<1>4. WorkTypes
  BY <1>1 DEF Init, EveryConsumer, WorkTypes
<1>5. TableTypes
  BY DEF Init, TableTypes
<1>6. TypeOK
  BY <1>3, <1>4, <1>5 DEF TypeOK, KafkaTypes, BoundTypes, WorkTypes, TableTypes
<1>7. \A c \in Consumer : pc[c] = "collect" /\ hand[c] = <<>> /\ Len(batch[c]) = 0 /\ fetcher[c] = "run"
  BY <1>1 DEF Init, EveryConsumer
<1>8. \A v \in Verdict : ~Settled(v) /\ ~Taken(v) /\ applied[v] = 0
  BY <1>7, VerdictIsPair DEF Init, Settled, Taken, Held
<1>9. \A v \in Verdict : /\ v[1] \in Partition /\ ~(v[2] <= 0)
                         /\ committed[v[1]] = 0 /\ owner[v[1]] = Nobody
  <2>1. ASSUME NEW v \in Verdict PROVE v[1] \in Partition /\ ~(v[2] <= 0)
    <3>1. v[1] \in Partition /\ v[2] \in 1..Len(Log[v[1]]) /\ Len(Log[v[1]]) \in Nat
      BY VerdictIsPair
    <3> QED
      BY <3>1
  <2> QED
    BY <2>1 DEF Init
<1>10. Stages
  BY <1>7 DEF Stages, Init
<1>11. NothingSkipped
  BY <1>7, <1>9 DEF NothingSkipped
<1>12. SettledInOrder /\ CommittedIsSettled
  BY <1>8, <1>9 DEF SettledInOrder, CommittedIsSettled
<1>13. TriesAreFaults /\ DlqOnlyAfterRetries /\ FlagsMatchJobs
  BY <1>7 DEF TriesAreFaults, DlqOnlyAfterRetries, FlagsMatchJobs, Init
<1>14. OnePlace
  BY <1>7, <1>8 DEF OnePlace, Init
<1>15. UndisturbedIsOnce
  BY <1>8 DEF UndisturbedIsOnce
<1> QED
  BY <1>6, <1>10, <1>11, <1>12, <1>13, <1>14, <1>15 DEF VerdictsInv

LEMMA VerdictsStep == VerdictsInv /\ [Next]_vars => VerdictsInv'
<1> SUFFICES ASSUME VerdictsInv, [Next]_vars PROVE VerdictsInv'
  OBVIOUS
<1>1. /\ TypeOK /\ Stages /\ NothingSkipped /\ SettledInOrder /\ CommittedIsSettled
      /\ TriesAreFaults /\ DlqOnlyAfterRetries /\ FlagsMatchJobs /\ OnePlace /\ UndisturbedIsOnce
  BY DEF VerdictsInv
<1>2. VerdictStep
  BY <1>1, Steps
<1>3. TypeOK' /\ Stages'
  BY <1>1, TypeStep
<1>4. NothingSkipped'
  BY <1>1, SkippedStep
<1>5. SettledInOrder' /\ CommittedIsSettled'
  BY <1>1, <1>2, OrderStep, CommittedStep
<1>6. TriesAreFaults' /\ DlqOnlyAfterRetries' /\ FlagsMatchJobs'
  BY <1>1, FaultyTriesStep, DlqStep, FlagsStep
<1>7. OnePlace' /\ UndisturbedIsOnce'
  BY <1>1, OnePlaceStep
<1> QED
  BY <1>3, <1>4, <1>5, <1>6, <1>7 DEF VerdictsInv

(* What follows holds in every state of the processor, whatever consumers, *)
(* logs, batches and bounds: the inductive invariant with its parts.       *)
THEOREM VerdictsInvariant == Spec => []VerdictsInv
<1>1. Init => VerdictsInv
  BY VerdictsInit
<1>2. VerdictsInv /\ [Next]_vars => VerdictsInv'
  BY VerdictsStep
<1> QED
  BY <1>1, <1>2, PTL DEF Spec

(* CommitMessages covers only verdicts that processBatch applied or gave   *)
(* to the dead letter topic, after crashes and rebalances too.             *)
THEOREM OffsetsOnlyCoverSettled == Spec => []CommittedIsSettled
<1>1. VerdictsInv => CommittedIsSettled
  BY DEF VerdictsInv
<1> QED
  BY <1>1, VerdictsInvariant, PTL

(* processBatch settles the verdicts of a partition in their order, though *)
(* a rebalance lets two consumers work on the same ones.                   *)
THEOREM PartitionOrder == Spec => []SettledInOrder
<1>1. VerdictsInv => SettledInOrder
  BY DEF VerdictsInv
<1> QED
  BY <1>1, VerdictsInvariant, PTL

(* A verdict that can be applied reaches the dead letter topic only after  *)
(* the retries of processBatch have all failed, by faults or because the   *)
(* context of Run was done.                                                *)
THEOREM RetriesComeFirst == Spec => []DlqOnlyAfterRetries
<1>1. VerdictsInv => DlqOnlyAfterRetries
  BY DEF VerdictsInv
<1> QED
  BY <1>1, VerdictsInvariant, PTL

(* The transaction of processVerdict keeps a message's flags and the jobs  *)
(* that tell its author together.                                          *)
THEOREM FlagAndJobTogether == Spec => []FlagsMatchJobs
<1>1. VerdictsInv => FlagsMatchJobs
  BY DEF VerdictsInv
<1> QED
  BY <1>1, VerdictsInvariant, PTL

(* Without a fault, a cancellation or a rebalance processVerdict commits a *)
(* verdict once, however fetching and processing interleave.               *)
THEOREM AppliedOnce == Spec => []UndisturbedIsOnce
<1>1. VerdictsInv => UndisturbedIsOnce
  BY DEF VerdictsInv
<1> QED
  BY <1>1, VerdictsInvariant, PTL
=============================================================================
