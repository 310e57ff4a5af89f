-------------------------- MODULE CompactionProofs --------------------------
(***************************************************************************)
(* Proofs about Compaction, for any number of messages and events.         *)
(***************************************************************************)
EXTENDS Compaction, SequenceTheorems, WellFoundedInduction, TLAPS

(* The cut is at most the wanted one, and parts no result from its call. *)
LEMMA SafeCutoff ==
    ASSUME NEW ms \in Seq(Message), NEW initial \in Nat
    PROVE  /\ safe_compaction_cutoff(ms, initial) \in 0..initial
           /\ safe_compaction_cutoff(ms, initial) # 0 =>
                Unmatched(ms, safe_compaction_cutoff(ms, initial)) = {}
<1> DEFINE safe == {c \in 0..initial : Unmatched(ms, c) = {}}
           far == {initial - c : c \in safe}
<1>1. CASE safe = {}
  BY <1>1 DEF safe_compaction_cutoff
<1>2. CASE safe # {}
  <2>1. far \in SUBSET Nat /\ far # {}
    BY <1>2
  <2>2. PICK n \in far : \A m \in far : n <= m
    <3> HIDE DEF far
    <3>1. PICK n \in far : \A m \in far : <<m, n>> \notin OpToRel(<, Nat)
      BY <2>1, NatLessThanWellFounded, WFMin
    <3>2. \A m \in far : ~(m < n)
      BY <2>1, <3>1 DEF OpToRel
    <3> QED BY <2>1, <3>2
  <2>3. PICK c \in safe : n = initial - c
    OBVIOUS
  <2>4. ASSUME NEW d \in safe PROVE d <= c
    <3>1. initial - d \in far
      OBVIOUS
    <3>2. n <= initial - d
      BY <2>2, <3>1
    <3> QED BY <2>3, <3>2
  <2>5. \E k \in safe : \A d \in safe : d <= k
    BY <2>4
  <2>6. safe_compaction_cutoff(ms, initial) \in safe
    BY <1>2, <2>5 DEF safe_compaction_cutoff
  <2> QED BY <2>6
<1> QED BY <1>1, <1>2

(* The messages that are not compacted. *)
LEMMA ActiveMessages ==
    ASSUME NEW n \in Nat, NEW ms \in Seq(Message)
    PROVE  /\ ActiveStart(n, ms) \in 0..Len(ms)
           /\ Active(n, ms) \in Seq(Message)
           /\ Len(Active(n, ms)) = Len(ms) - ActiveStart(n, ms)
           /\ \A i \in 1..Len(Active(n, ms)) :
                Active(n, ms)[i] = ms[i + ActiveStart(n, ms)]
<1>1. ActiveStart(n, ms) \in 0..Len(ms)
  BY DEF ActiveStart
<1>2. \A i \in ActiveStart(n, ms) + 1..Len(ms) : ms[i] \in Message
  BY <1>1
<1>3. /\ Active(n, ms) \in Seq(Message)
      /\ Len(Active(n, ms)) = Len(ms) - ActiveStart(n, ms)
  BY <1>1, <1>2, SubSeqProperties DEF Active
<1>4. \A i \in 1..Len(Active(n, ms)) : Active(n, ms)[i] = ms[ActiveStart(n, ms) + 1 + i - 1]
  BY <1>1, <1>2, <1>3, SubSeqProperties DEF Active
<1>5. \A i \in 1..Len(Active(n, ms)) : ActiveStart(n, ms) + 1 + i - 1 = i + ActiveStart(n, ms)
  BY <1>1, <1>3
<1> QED BY <1>1, <1>3, <1>4, <1>5

(* The first k messages. *)
LEMMA FirstMessages ==
    ASSUME NEW ms \in Seq(Message), NEW k \in 0..Len(ms)
    PROVE  /\ SubSeq(ms, 1, k) \in Seq(Message) /\ Len(SubSeq(ms, 1, k)) = k
           /\ \A i \in 1..k : SubSeq(ms, 1, k)[i] = ms[i]
<1>1. \A i \in 1..k : ms[i] \in Message
  OBVIOUS
<1>2. /\ SubSeq(ms, 1, k) \in Seq(Message) /\ Len(SubSeq(ms, 1, k)) = k
      /\ \A i \in 1..k : SubSeq(ms, 1, k)[i] = ms[1 + i - 1]
  BY <1>1, SubSeqProperties
<1>3. \A i \in 1..k : 1 + i - 1 = i
  OBVIOUS
<1> QED BY <1>2, <1>3

(* The ids of messages. *)
LEMMA IdsType ==
    ASSUME NEW ms \in Seq(Message)
    PROVE  Ids(ms) \subseteq Nat
<1>1. \A i \in DOMAIN ms : ms[i] \in Message
  OBVIOUS
<1> QED BY <1>1 DEF Ids, Message

(* A summary is a text or encrypted content. *)
LEMMA CoveredType ==
    ASSUME NEW s \in Summary \cup {None}
    PROVE  /\ Covered(s) \subseteq Nat /\ Texts(s) \subseteq Nat /\ Encrypted(s) \subseteq Nat
           /\ Covered(s) = Texts(s) \cup Encrypted(s)
<1>1. CASE s = None
  BY <1>1 DEF Covered, Texts, Encrypted
<1>2. CASE s # None
  <2>1. s \in Summary /\ s.covers \subseteq Nat /\ s.kind \in {"text", "native"}
    BY <1>2 DEF Summary
  <2> QED BY <1>2, <2>1 DEF Covered, Texts, Encrypted
<1> QED BY <1>1, <1>2

(* A summary with words or content is one. *)
LEMMA SummaryType ==
    ASSUME NEW k \in {"text", "native"}, NEW c \in SUBSET Nat
    PROVE  /\ [kind |-> k, covers |-> c] \in Summary
           /\ [kind |-> k, covers |-> c] # None
           /\ Covered([kind |-> k, covers |-> c]) = c
<1>1. [kind |-> k, covers |-> c] \in Summary
  BY DEF Summary
<1>2. [kind |-> k, covers |-> c] # None
  BY <1>1, NoneAssumption
<1> QED BY <1>1, <1>2 DEF Covered

(* What a background compaction writes is a summary. *)
LEMMA ArtifactType ==
    ASSUME NEW p \in Pending
    PROVE  /\ Artifact(p) \in Summary /\ Artifact(p) # None
           /\ Covered(Artifact(p)) = IF p.state = "native" THEN Covered(p.old) \cup p.new
                                     ELSE Texts(p.old) \cup p.new
<1>1. p.old \in Summary \cup {None} /\ p.new \subseteq Nat
  BY DEF Pending
<1>2. Covered(p.old) \cup p.new \in SUBSET Nat /\ Texts(p.old) \cup p.new \in SUBSET Nat
  BY <1>1, CoveredType
<1>3. CASE p.state = "native"
  BY <1>2, <1>3, SummaryType DEF Artifact
<1>4. CASE p.state # "native"
  BY <1>2, <1>4, SummaryType DEF Artifact
<1> QED BY <1>3, <1>4

(* What Starts returns is a compaction that can be pending: it is given the *)
(* summary and the messages up to its cutoff.                              *)
LEMMA StartsPending ==
    ASSUME NEW n \in Nat, NEW s \in Summary \cup {None}, NEW ms \in Seq(Message),
           NEW wanted \in 1..Len(Active(n, ms)), NEW p \in Starts(n, s, ms, wanted),
           provider \in {"openai", "other", "bedrock"}
    PROVE  /\ p \in Pending
           /\ p.count = n /\ p.cutoff > 0 /\ p.old = s
           /\ n <= Len(ms) => /\ Len(p.prefix) = n + p.cutoff
                              /\ \A i \in n + 1..Len(p.prefix) : p.prefix[i].id \in p.new
           /\ n > Len(ms) => Len(p.prefix) = p.cutoff
<1> DEFINE active == Active(n, ms)
           start == ActiveStart(n, ms)
           cut == safe_compaction_cutoff(active, wanted)
           pre == SubSeq(active, 1, cut)
           pfx == SubSeq(ms, 1, start + cut)
<1>1. /\ start \in 0..Len(ms) /\ active \in Seq(Message) /\ Len(active) = Len(ms) - start
      /\ \A i \in 1..Len(active) : active[i] = ms[i + start]
  BY ActiveMessages
<1>2. cut \in 0..wanted /\ cut <= Len(active) /\ cut \in 0..Len(active)
  <2>1. wanted \in 1..Len(active)
    OBVIOUS
  <2> HIDE DEF active
  <2>2. wanted \in Nat /\ Len(active) \in Nat
    BY <1>1, <2>1
  <2>3. cut \in 0..wanted
    BY <1>1, <2>2, SafeCutoff
  <2> QED BY <2>1, <2>2, <2>3
<1>4. cut # 0 /\ p = [cutoff |-> cut, old |-> s, new |-> Ids(pre), asks |-> provider,
                     state |-> "running", count |-> n, prefix |-> pfx]
  BY DEF Starts
<1>5. start = IF n <= Len(ms) THEN n ELSE 0
  BY DEF ActiveStart
<1> HIDE DEF active, start, cut
<1>6. pre \in Seq(Message) /\ Len(pre) = cut /\ \A i \in 1..cut : pre[i] = active[i]
  BY <1>1, <1>2, FirstMessages
<1>7. pfx \in Seq(Message) /\ Len(pfx) = start + cut /\ \A i \in 1..start + cut : pfx[i] = ms[i]
  <2>1. start + cut \in 0..Len(ms)
    BY <1>1, <1>2
  <2> QED BY <2>1, FirstMessages
<1>8. Ids(pre) \subseteq Nat
  BY <1>6, IdsType
<1>9. p \in Pending
  BY <1>2, <1>4, <1>7, <1>8 DEF Pending
<1>10. ASSUME NEW i \in start + 1..start + cut PROVE pfx[i].id \in Ids(pre)
  <2> HIDE DEF pre, pfx
  <2>3. i - start \in 1..cut /\ i \in 1..start + cut /\ i - start + start = i
    BY <1>1, <1>2
  <2>4. pre[i - start] = active[i - start] /\ pfx[i] = ms[i]
    BY <1>6, <1>7, <2>3
  <2>5. i - start \in 1..Len(active)
    BY <1>1, <1>2, <2>3
  <2>1. i - start \in 1..cut /\ pre[i - start] = pfx[i]
    BY <1>1, <2>3, <2>4, <2>5
  <2>2. i - start \in DOMAIN pre
    BY <1>2, <1>6, <2>1
  <2> QED BY <2>1, <2>2 DEF Ids
<1> HIDE DEF pre, pfx
<1>11. CASE n <= Len(ms)
  BY <1>2, <1>4, <1>5, <1>7, <1>9, <1>10, <1>11
<1>12. CASE n > Len(ms)
  BY <1>2, <1>4, <1>5, <1>7, <1>9, <1>12
<1> QED BY <1>11, <1>12
-----------------------------------------------------------------------------
(* The pieces of the actions keep their types. *)
LEMMA MessageTypes ==
    ASSUME NEW n \in Nat, NEW c \in Nat
    PROVE  Text(n) \in Message /\ Call(n) \in Message /\ Result(n, c) \in Message
BY DEF Text, Call, Result, Message

(* hard_compact_with leaves a count and a summary. *)
LEMMA HardType ==
    ASSUME TypeOK, hard_compact_with
    PROVE  /\ count' \in Nat /\ summary' \in Summary /\ event' = TRUE
           /\ lost' \in SUBSET Nat
<1> DEFINE active == Active(count, messages)
<1>1. active \in Seq(Message)
  BY ActiveMessages DEF TypeOK
<1>2. PICK keep \in MinTurns..RecentTurns :
        LET cutoff == safe_compaction_cutoff(active, Len(active) - keep)
        IN /\ keep < Len(active) /\ cutoff > 0
           /\ count' = count + cutoff
           /\ summary' = [kind |-> "text",
                          covers |-> Texts(summary) \cup Ids(SubSeq(active, 1, cutoff))]
           /\ lost' = lost \cup Encrypted(summary)
           /\ event' = TRUE
  BY DEF hard_compact_with
<1> DEFINE cutoff == safe_compaction_cutoff(active, Len(active) - keep)
<1>3. Len(active) - keep \in Nat
  BY <1>1, <1>2, TurnsAssumption
<1>4. cutoff \in 0..Len(active) - keep
  BY <1>1, <1>3, SafeCutoff
<1> HIDE DEF active, cutoff
<1>5. cutoff \in 0..Len(active)
  BY <1>1, <1>2, <1>3, <1>4, TurnsAssumption
<1>6. Ids(SubSeq(active, 1, cutoff)) \subseteq Nat
  BY <1>1, <1>5, FirstMessages, IdsType
<1>7. Texts(summary) \subseteq Nat /\ Encrypted(summary) \subseteq Nat
  BY CoveredType DEF TypeOK
<1>8. summary' \in Summary
  BY <1>2, <1>6, <1>7, SummaryType DEF cutoff
<1>9. count' \in Nat /\ event' = TRUE
  <2>1. count' = count + cutoff /\ event' = TRUE
    BY <1>2 DEF cutoff
  <2>2. Len(active) \in Nat
    BY <1>1
  <2> QED BY <1>5, <2>1, <2>2 DEF TypeOK
<1>10. lost' \in SUBSET Nat
  <2>1. lost' = lost \cup Encrypted(summary)
    BY <1>2
  <2> QED BY <1>7, <2>1 DEF TypeOK
<1> QED BY <1>8, <1>9, <1>10

(* check_and_apply_compaction leaves a count and a summary. *)
LEMMA ApplyType ==
    ASSUME TypeOK, check_and_apply_compaction
    PROVE  /\ count' \in Nat /\ summary' \in Summary /\ pending' = None /\ sound' \in BOOLEAN
           /\ lost' \in SUBSET Nat
<1>1. pending \in Pending
  BY DEF TypeOK, check_and_apply_compaction
<1>2. pending.cutoff \in Nat /\ pending.old \in Summary \cup {None}
  BY <1>1 DEF Pending
<1>3. summary' \in Summary
  BY <1>1, ArtifactType DEF check_and_apply_compaction
<1>4. lost' \in SUBSET Nat
  BY <1>2, CoveredType DEF TypeOK, check_and_apply_compaction
<1> QED BY <1>2, <1>3, <1>4 DEF TypeOK, check_and_apply_compaction, Clean

(* persisted_state exports a view. *)
LEMMA PersistedType ==
    ASSUME count' \in Nat, summary' \in Summary \cup {None}
    PROVE  persisted_state' \in View \cup {None}
<1>1. CASE summary' = None
  BY <1>1 DEF persisted_state
<1>2. CASE summary' # None
  <2>1. summary'.kind \in {"text", "native"} /\ summary'.covers \in SUBSET Nat
    BY <1>2 DEF Summary
  <2>2. persisted_state' = [count |-> count', kind |-> summary'.kind, covers |-> summary'.covers]
    BY <1>2 DEF persisted_state
  <2> QED BY <2>1, <2>2 DEF View
<1> QED BY <1>1, <1>2

(* seed_compaction_from_session leaves a view. *)
LEMMA SeedType ==
    ASSUME NEW ms \in Seq(Message), NEW view \in View \cup {None}, seed_compaction(ms, view)
    PROVE  count' \in Nat /\ summary' \in Summary \cup {None} /\ pending' = None /\ event' = FALSE
<1>1. CASE view = None
  BY <1>1 DEF seed_compaction
<1>2. CASE view # None
  <2>1. view.count \in Nat /\ view.kind \in {"text", "native"} /\ view.covers \in SUBSET Nat
    BY <1>2 DEF View
  <2>2. summary' \in Summary
    BY <1>2, <2>1, SummaryType DEF seed_compaction
  <2> QED BY <1>2, <2>1, <2>2 DEF seed_compaction
<1> QED BY <1>1, <1>2

(* A response leaves the messages before it as they are. *)
LEMMA ResponseMessages ==
    ASSUME messages \in Seq(Message), ids \in Nat, Response
    PROVE  /\ messages' \in Seq(Message) /\ ids' \in Nat /\ pc' \in {"idle", "ready"}
           /\ Len(messages) <= Len(messages')
           /\ \A i \in 1..Len(messages) : messages'[i] = messages[i]
<1>1. pc' \in {"idle", "ready"}
  BY DEF Response
<1>2. ASSUME NEW m \in Message, messages' = Append(messages, m)
      PROVE  /\ messages' \in Seq(Message) /\ Len(messages) <= Len(messages')
             /\ \A i \in 1..Len(messages) : messages'[i] = messages[i]
  <2>1. /\ messages' \in Seq(Message) /\ Len(messages') = Len(messages) + 1
        /\ \A i \in 1..Len(messages) : messages'[i] = messages[i]
    BY <1>2, AppendProperties
  <2> QED BY <2>1
<1>3. CASE NextId /\ messages' = Append(messages, Text(ids'))
  <2>1. ids' \in Nat /\ Text(ids') \in Message
    BY <1>3, MessageTypes DEF NextId
  <2> QED BY <1>1, <1>2, <1>3, <2>1
<1>4. CASE NextId /\ messages' = Append(messages, Call(ids'))
  <2>1. ids' \in Nat /\ Call(ids') \in Message
    BY <1>4, MessageTypes DEF NextId
  <2> QED BY <1>1, <1>2, <1>4, <2>1
<1>5. CASE /\ ids' = ids + 2
           /\ messages' = messages \o <<Call(ids + 1), Result(ids + 2, ids + 1)>>
  <2> DEFINE t == <<Call(ids + 1), Result(ids + 2, ids + 1)>>
             u == messages \o t
  <2>1. t \in Seq(Message) /\ Len(t) = 2
    BY MessageTypes
  <2>2. messages' = u
    BY <1>5
  <2> HIDE DEF t
  <2>3. u \in Seq(Message) /\ Len(u) = Len(messages) + Len(t)
    BY <2>1, ConcatProperties
  <2>4. \A i \in 1..Len(messages) + Len(t) :
           u[i] = IF i <= Len(messages) THEN messages[i] ELSE t[i - Len(messages)]
    BY <2>1, ConcatProperties
  <2> HIDE DEF u
  <2>5. \A i \in 1..Len(messages) : u[i] = messages[i]
    BY <2>1, <2>4
  <2> QED BY <1>1, <1>5, <2>1, <2>2, <2>3, <2>5
<1>6. CASE UNCHANGED <<messages, ids>>
  <2>1. Len(messages) <= Len(messages')
    BY <1>6
  <2> QED BY <1>1, <1>6, <2>1
<1> QED BY <1>3, <1>4, <1>5, <1>6 DEF Response

(* A repair puts the missing result behind its call. *)
LEMMA RepairedMessages ==
    ASSUME NEW ms \in Seq(Message), NEW i \in 1..Len(ms), NEW n \in Nat
    PROVE  /\ Repaired(ms, i, n) \in Seq(Message)
           /\ Len(Repaired(ms, i, n)) = Len(ms) + 1
           /\ \A k \in 1..Len(ms) + 1 :
                Repaired(ms, i, n)[k] = IF k <= i THEN ms[k]
                                        ELSE IF k = i + 1 THEN Result(n, ms[i].id) ELSE ms[k - 1]
<1> DEFINE front == SubSeq(ms, 1, i)
           mid == <<Result(n, ms[i].id)>>
           back == SubSeq(ms, i + 1, Len(ms))
<1>1. front \in Seq(Message) /\ Len(front) = i /\ \A k \in 1..i : front[k] = ms[k]
  BY FirstMessages
<1>2. mid \in Seq(Message) /\ Len(mid) = 1 /\ mid[1] = Result(n, ms[i].id)
  <2>2. ms[i] \in Message
    OBVIOUS
  <2>1. ms[i].id \in Nat
    BY <2>2 DEF Message
  <2> QED BY <2>1, MessageTypes
<1>3. /\ back \in Seq(Message) /\ Len(back) = Len(ms) - i
      /\ \A k \in 1..Len(ms) - i : back[k] = ms[k + i]
  <2>1. \A k \in i + 1..Len(ms) : ms[k] \in Message
    OBVIOUS
  <2>2. /\ back \in Seq(Message) /\ Len(back) = Len(ms) - i
        /\ \A k \in 1..Len(ms) - i : back[k] = ms[i + 1 + k - 1]
    BY <2>1, SubSeqProperties
  <2>3. \A k \in 1..Len(ms) - i : i + 1 + k - 1 = k + i
    OBVIOUS
  <2> QED BY <2>2, <2>3
<1>4. /\ (front \o mid) \in Seq(Message) /\ Len(front \o mid) = i + 1
      /\ \A k \in 1..i + 1 : (front \o mid)[k] = IF k <= i THEN front[k] ELSE mid[k - i]
  BY <1>1, <1>2, ConcatProperties
<1>5. /\ ((front \o mid) \o back) \in Seq(Message)
      /\ Len((front \o mid) \o back) = Len(ms) + 1
      /\ \A k \in 1..Len(ms) + 1 : ((front \o mid) \o back)[k] =
            IF k <= i + 1 THEN (front \o mid)[k] ELSE back[k - (i + 1)]
  <2> HIDE DEF front, mid, back
  <2> DEFINE fm == front \o mid
  <2>2. fm \in Seq(Message) /\ Len(fm) = i + 1
    BY <1>4
  <2> HIDE DEF fm
  <2>3. /\ fm \o back \in Seq(Message) /\ Len(fm \o back) = Len(fm) + Len(back)
        /\ \A k \in 1..Len(fm) + Len(back) : (fm \o back)[k] =
              IF k <= Len(fm) THEN fm[k] ELSE back[k - Len(fm)]
    BY <1>3, <2>2, ConcatProperties
  <2>4. Len(fm) + Len(back) = Len(ms) + 1
    BY <1>3, <2>2
  <2>5. /\ fm \o back \in Seq(Message) /\ Len(fm \o back) = Len(ms) + 1
        /\ \A k \in 1..Len(ms) + 1 : (fm \o back)[k] =
              IF k <= i + 1 THEN fm[k] ELSE back[k - (i + 1)]
    BY <2>2, <2>3, <2>4
  <2> QED BY <2>5 DEF fm
<1>6. Repaired(ms, i, n) = (front \o mid) \o back
  BY DEF Repaired
<1> HIDE DEF front, mid, back
<1>7. ASSUME NEW k \in 1..Len(ms) + 1
      PROVE Repaired(ms, i, n)[k] = IF k <= i THEN ms[k]
                                    ELSE IF k = i + 1 THEN Result(n, ms[i].id) ELSE ms[k - 1]
  <2>1. CASE k <= i
    BY <1>1, <1>4, <1>5, <1>6, <2>1
  <2>2. CASE k = i + 1
    BY <1>2, <1>4, <1>5, <1>6, <2>2
  <2>3. CASE k > i + 1
    <3>1. /\ k - (i + 1) \in 1..Len(ms) - i /\ k - (i + 1) + i = k - 1
          /\ ~(k <= i + 1) /\ ~(k <= i) /\ k # i + 1
      BY <2>3
    <3> DEFINE whole == (front \o mid) \o back
    <3>4. \A m \in 1..Len(ms) + 1 : ~(m <= i + 1) => whole[m] = back[m - (i + 1)]
      BY <1>5
    <3>5. Repaired(ms, i, n) = whole
      BY <1>6
    <3> HIDE DEF whole
    <3>2. Repaired(ms, i, n)[k] = back[k - (i + 1)]
      BY <3>1, <3>4, <3>5
    <3>3. back[k - (i + 1)] = ms[k - 1]
      BY <1>3, <3>1
    <3> QED BY <3>1, <3>2, <3>3
  <2> QED BY <2>1, <2>2, <2>3
<1> QED BY <1>5, <1>6, <1>7
-----------------------------------------------------------------------------
(* What a request speaks of. *)
SentIds == IF pc = "raw" THEN Ids(messages)
           ELSE Covered(summary) \cup Ids(Active(count, messages))

LEMMA SentType ==
    ASSUME TypeOK
    PROVE  SentIds \in SUBSET Nat
<1>1. Active(count, messages) \in Seq(Message) /\ messages \in Seq(Message)
  BY ActiveMessages DEF TypeOK
<1>2. Ids(messages) \subseteq Nat /\ Ids(Active(count, messages)) \subseteq Nat
  BY <1>1, IdsType
<1>3. Covered(summary) \subseteq Nat
  BY CoveredType DEF TypeOK
<1> QED BY <1>2, <1>3 DEF SentIds

(* Every action keeps the types. *)
LEMMA TypeStep ==
    ASSUME TypeOK, [Next]_vars
    PROVE  TypeOK'
<1>1. CASE UNCHANGED vars
  BY <1>1 DEF vars, TypeOK
<1>2. CASE StartTurn
  <2>1. messages' \in Seq(Message)
    BY <1>2, MessageTypes, AppendProperties DEF StartTurn, NextId, TypeOK
  <2> QED BY <1>2, <2>1 DEF StartTurn, NextId, manager, history, TypeOK
<1>3. CASE RepairCalls
  <2>1. PICK i \in Dangling(messages) : /\ messages' = Repaired(messages, i, ids + 1)
                                        /\ sound' = (sound /\ count < i)
    BY <1>3 DEF RepairCalls
  <2>2. i \in 1..Len(messages) /\ ids + 1 \in Nat /\ messages \in Seq(Message)
    BY <2>1 DEF Dangling, TypeOK
  <2>3. messages' \in Seq(Message)
    BY <2>1, <2>2, RepairedMessages
  <2>4. sound' \in BOOLEAN
    BY <2>1
  <2> QED BY <1>3, <2>3, <2>4 DEF RepairCalls, NextId, manager, TypeOK
<1>4. CASE StartCompaction
  <2>1. pending' \in Pending \cup {None}
    <3>1. CASE pending' = pending
      BY <3>1 DEF TypeOK
    <3>2. CASE \E wanted \in 1..Standard(count, messages) :
                 pending' \in Starts(count, summary, messages, wanted)
      <4>1. PICK wanted \in 1..Standard(count, messages) :
              pending' \in Starts(count, summary, messages, wanted)
        BY <3>2
      <4>2. wanted \in 1..Len(Active(count, messages))
        <5>1. Active(count, messages) \in Seq(Message)
          BY ActiveMessages DEF TypeOK
        <5> QED BY <5>1, TurnsAssumption DEF Standard
      <4> QED BY <4>1, <4>2, StartsPending DEF TypeOK
    <3> QED BY <1>4, <3>1, <3>2 DEF StartCompaction
  <2> QED BY <1>4, <2>1 DEF StartCompaction, history, TypeOK
<1>5. CASE HardCompact
  <2>1. /\ count' \in Nat /\ summary' \in Summary \cup {None} /\ event' \in BOOLEAN
        /\ lost' \in SUBSET Nat
    <3>1. CASE UNCHANGED <<count, summary, event, lost>>
      BY <3>1 DEF TypeOK
    <3>2. CASE hard_compact_with
      BY <3>2, HardType
    <3> QED BY <1>5, <3>1, <3>2 DEF HardCompact
  <2> QED BY <1>5, <2>1 DEF HardCompact, TypeOK
<1>6. CASE SendCompacted
  <2>1. PICK applied \in BOOLEAN :
          /\ \/ applied /\ check_and_apply_compaction
             \/ /\ ~applied
                /\ pending' = IF pending # None /\ pending.state = "failed" THEN None ELSE pending
                /\ UNCHANGED <<count, summary, history>>
          /\ event' = ((applied \/ event) /\ ~uses_jcode_compaction)
          /\ stored' = IF (applied \/ event) /\ uses_jcode_compaction
                       THEN persisted_state' ELSE stored
    BY <1>6 DEF SendCompacted
  <2>2. /\ count' \in Nat /\ summary' \in Summary \cup {None} /\ pending' \in Pending \cup {None}
        /\ sound' \in BOOLEAN /\ lost' \in SUBSET Nat
    <3>1. CASE check_and_apply_compaction
      <4>1. /\ count' \in Nat /\ summary' \in Summary /\ pending' = None /\ sound' \in BOOLEAN
            /\ lost' \in SUBSET Nat
        BY <3>1, ApplyType
      <4> QED BY <4>1
    <3>2. CASE /\ pending' = IF pending # None /\ pending.state = "failed" THEN None ELSE pending
               /\ UNCHANGED <<count, summary, history>>
      BY <3>2 DEF TypeOK, history
    <3> QED BY <2>1, <3>1, <3>2
  <2>3. stored' \in View \cup {None}
    <3>1. stored \in View \cup {None}
      BY DEF TypeOK
    <3>2. persisted_state' \in View \cup {None}
      BY <2>2, PersistedType
    <3> QED BY <2>1, <3>1, <3>2
  <2>4. event' \in BOOLEAN
    BY <2>1
  <2>5. /\ messages' = messages /\ pc' = "sent" /\ provider' = provider /\ manual' = manual
        /\ undo' = undo /\ ids' = ids /\ events' = events
    BY <1>6 DEF SendCompacted
  <2>6. /\ messages' \in Seq(Message) /\ provider' \in {"openai", "other", "bedrock"}
        /\ manual' \in BOOLEAN /\ undo' \in Seq(Message) \cup {None}
        /\ ids' \in Nat /\ events' \in Nat
    BY <2>5 DEF TypeOK
  <2>7. pc' \in {"idle", "ready", "started", "fits", "sent", "raw"}
    BY <2>5
  <2> QED BY <2>2, <2>3, <2>4, <2>6, <2>7, Zenon DEF TypeOK
<1>7. CASE SendAll
  BY <1>7 DEF SendAll, manager, history, TypeOK
<1>8. CASE Respond
  <2>1. messages' \in Seq(Message) /\ ids' \in Nat /\ pc' \in {"idle", "ready"}
    BY <1>8, ResponseMessages DEF Respond, TypeOK
  <2> QED BY <1>8, <2>1 DEF Respond, manager, history, TypeOK
<1>9. CASE RespondCompacted
  <2>1. messages' \in Seq(Message) /\ ids' \in Nat /\ pc' \in {"idle", "ready"}
    BY <1>9, ResponseMessages DEF RespondCompacted, TypeOK
  <2>2. SentIds \in SUBSET Nat
    BY SentType
  <2>3. summary' \in Summary /\ lost' \in SUBSET Nat
    <3>1. CASE summary' = [kind |-> "native", covers |-> SentIds] /\ lost' = lost
      BY <2>2, <3>1, SummaryType DEF TypeOK
    <3>2. CASE summary' = [kind |-> "text", covers |-> {}] /\ lost' = lost \cup SentIds
      BY <2>2, <3>2, SummaryType DEF TypeOK
    <3> QED BY <1>9, <3>1, <3>2 DEF RespondCompacted, SentIds
  <2>4. /\ count' = Len(messages) /\ stored' = persisted_state' /\ pending' = None
        /\ event' = FALSE /\ sound' = (pc = "raw" \/ sound)
        /\ UNCHANGED <<provider, manual, undo, events>>
    BY <1>9 DEF RespondCompacted
  <2>5. count' \in Nat
    BY <2>4 DEF TypeOK
  <2>6. stored' \in View \cup {None}
    BY <2>3, <2>4, <2>5, PersistedType
  <2>7. sound' \in BOOLEAN
    BY <2>4
  <2> QED BY <2>1, <2>3, <2>4, <2>5, <2>6, <2>7 DEF TypeOK
<1>10. CASE ContextLimit
  <2>1. CASE hard_compact_with /\ stored' = persisted_state' /\ pc' = "ready"
    <3>1. count' \in Nat /\ summary' \in Summary /\ event' = TRUE /\ lost' \in SUBSET Nat
      BY <2>1, HardType
    <3>2. stored' \in View \cup {None}
      BY <2>1, <3>1, PersistedType
    <3> QED BY <1>10, <2>1, <3>1, <3>2 DEF ContextLimit, NextEvent, TypeOK
  <2>2. CASE UNCHANGED <<count, summary, event, stored, lost>> /\ pc' = "idle"
    BY <1>10, <2>2 DEF ContextLimit, NextEvent, TypeOK
  <2> QED BY <1>10, <2>1, <2>2 DEF ContextLimit
<1>11. CASE PendingEnds
  <2>1. PICK end \in {"text", "native", "failed"} : pending' = [pending EXCEPT !.state = end]
    BY <1>11 DEF PendingEnds
  <2>2. pending \in Pending
    BY <1>11 DEF PendingEnds, TypeOK
  <2>3. pending' \in Pending
    BY <2>1, <2>2 DEF Pending
  <2> QED BY <1>11, <2>3 DEF PendingEnds, history, TypeOK
<1>12. CASE ForceCompact \/ ManualEnds \/ SwitchProvider
  <2>1. CASE ForceCompact
    BY <2>1 DEF ForceCompact, NextEvent, manager, history, TypeOK
  <2>2. CASE ManualEnds
    BY <2>2 DEF ManualEnds, manager, history, TypeOK
  <2>3. CASE SwitchProvider
    <3>1. provider' \in {"openai", "other", "bedrock"}
      BY <2>3 DEF SwitchProvider
    <3> QED BY <2>3, <3>1 DEF SwitchProvider, NextEvent, manager, history, TypeOK
  <2> QED BY <1>12, <2>1, <2>2, <2>3
<1>14. CASE rewind_to_message
  <2>1. PICK n \in 1..Len(messages) : /\ messages' = SubSeq(messages, 1, n)
                                      /\ sound' = (sound /\ count <= n)
    BY <1>14 DEF rewind_to_message
  <2>2. n \in 0..Len(messages) /\ messages \in Seq(Message)
    BY DEF TypeOK
  <2>3. messages' \in Seq(Message)
    BY <2>1, <2>2, FirstMessages
  <2>4. sound' \in BOOLEAN
    BY <2>1
  <2> QED BY <1>14, <2>3, <2>4 DEF rewind_to_message, NextEvent, manager, TypeOK
<1>15. CASE undo_rewind
  BY <1>15 DEF undo_rewind, manager, TypeOK
<1>16. CASE restore_session
  <2>1. count' \in Nat /\ summary' \in Summary \cup {None} /\ pending' = None /\ event' = FALSE
    BY <1>16, SeedType DEF restore_session, TypeOK
  <2>2. /\ messages' = messages /\ pc' = "idle" /\ stored' = stored /\ manual' = FALSE
        /\ undo' = None /\ ids' = ids /\ events' = events + 1 /\ sound' = sound
        /\ provider' = provider /\ lost' = lost
    BY <1>16 DEF restore_session, NextEvent, history
  <2>3. /\ messages' \in Seq(Message) /\ stored' \in View \cup {None}
        /\ provider' \in {"openai", "other", "bedrock"} /\ lost' \in SUBSET Nat
    BY <2>2 DEF TypeOK
  <2>5. undo' \in Seq(Message) \cup {None} /\ pending' \in Pending \cup {None}
    BY <2>1, <2>2, Zenon
  <2>4. manual' \in BOOLEAN
    BY <2>2
  <2>6. ids' \in Nat /\ events' \in Nat /\ sound' \in BOOLEAN
    BY <2>2 DEF TypeOK
  <2>7. pc' \in {"idle", "ready", "started", "fits", "sent", "raw"} /\ event' \in BOOLEAN
    BY <2>1, <2>2
  <2> QED BY <2>1, <2>3, <2>4, <2>5, <2>6, <2>7, Zenon DEF TypeOK
<1>17. CASE clear
  <2>1. <<>> \in Seq(Message)
    OBVIOUS
  <2>2. count' \in Nat /\ summary' \in Summary \cup {None} /\ pending' = None /\ event' = FALSE
    BY <1>17, <2>1, SeedType DEF clear
  <2>3. /\ messages' = <<>> /\ pc' = pc /\ stored' = None /\ manual' = manual
        /\ undo' = None /\ ids' = ids /\ events' = events + 1 /\ sound' = TRUE
        /\ provider' = provider /\ lost' = {}
    BY <1>17 DEF clear, NextEvent
  <2>4. messages' \in Seq(Message) /\ undo' \in Seq(Message) \cup {None}
    BY <2>1, <2>3, Zenon
  <2>5. stored' \in View \cup {None} /\ pending' \in Pending \cup {None}
    BY <2>2, <2>3, Zenon
  <2>6. ids' \in Nat /\ events' \in Nat /\ sound' \in BOOLEAN /\ lost' \in SUBSET Nat
    BY <2>3 DEF TypeOK
  <2>7. manual' \in BOOLEAN /\ provider' \in {"openai", "other", "bedrock"}
    BY <2>3 DEF TypeOK
  <2>8. pc' \in {"idle", "ready", "started", "fits", "sent", "raw"} /\ event' \in BOOLEAN
    BY <2>2, <2>3 DEF TypeOK
  <2> QED BY <2>2, <2>4, <2>5, <2>6, <2>7, <2>8, Zenon DEF TypeOK
<1> QED BY <1>1, <1>2, <1>3, <1>4, <1>5, <1>6, <1>7, <1>8, <1>9, <1>10, <1>11, <1>12,
           <1>14, <1>15, <1>16, <1>17 DEF Next

(* The types hold at the start. *)
LEMMA TypeInit ==
    ASSUME Init
    PROVE  TypeOK
<1>1. <<>> \in Seq(Message) /\ 0 \in Nat
  OBVIOUS
<1>2. messages \in Seq(Message) /\ count \in Nat /\ ids \in Nat /\ events \in Nat
  BY <1>1 DEF Init
<1>3. summary \in Summary \cup {None} /\ pending \in Pending \cup {None}
  BY Zenon DEF Init
<1>4. undo \in Seq(Message) \cup {None} /\ manual \in BOOLEAN
  BY Zenon DEF Init
<1>5. stored \in View \cup {None} /\ event \in BOOLEAN /\ sound \in BOOLEAN /\ pc = "idle"
  BY Zenon DEF Init
<1>6. provider \in {"openai", "other", "bedrock"} /\ lost \in SUBSET Nat
  BY DEF Init
<1> QED BY <1>2, <1>3, <1>4, <1>5, <1>6, Zenon DEF TypeOK

(* Every action keeps the types: the counts stay numbers, and what is      *)
(* pending, stored or copied stays a compaction, a view or a list of       *)
(* messages.                                                               *)
THEOREM TypeCorrect == Spec => []TypeOK
<1>1. Init => TypeOK
  BY TypeInit
<1>2. TypeOK /\ [Next]_vars => TypeOK'
  BY TypeStep
<1> QED BY <1>1, <1>2, PTL DEF Spec
-----------------------------------------------------------------------------
(* Messages whose ids are the numbers given out so far, each once, and in   *)
(* which a result comes after its call and is the only one of it.          *)
WellFormed(ms, n) ==
    /\ \A i \in 1..Len(ms) : ms[i].id \in 1..n
    /\ \A i, j \in 1..Len(ms) : ms[i].id = ms[j].id => i = j
    /\ \A i \in 1..Len(ms) : ms[i].kind # "result" => ms[i].of = 0
    /\ \A i \in 1..Len(ms) : ms[i].kind = "result" =>
          \E j \in 1..i - 1 : ms[j].kind = "call" /\ ms[j].id = ms[i].of
    /\ \A i, j \in 1..Len(ms) : ms[i].of = ms[j].of /\ ms[i].of # 0 => i = j

(* The first c messages are spoken of, and every call among them has its    *)
(* result among them.                                                      *)
Tells(ms, c, covers) == \A i \in 1..c : ms[i].id \in covers
Closed(ms, c) == \A i \in 1..c : ms[i].kind = "call" => \E j \in 1..c : ms[j].of = ms[i].id

Holds(ms, c, covers) == c <= Len(ms) /\ Tells(ms, c, covers) /\ Closed(ms, c)

MessagesInv == /\ WellFormed(messages, ids)
               /\ undo # None => WellFormed(undo, ids)

PreparedInv == pc \in {"started", "fits", "sent", "raw"} => Dangling(messages) = {}

(* A pending compaction that still counts from where it was started has the *)
(* summary of the manager, and speaks of all else that it would drop.      *)
PendingInv ==
    pending # None =>
      /\ pending.cutoff > 0 /\ pending.count <= count
      /\ pending.count = count =>
           /\ pending.old = summary
           /\ Len(pending.prefix) = count + pending.cutoff =>
                \A i \in count + 1..Len(pending.prefix) : pending.prefix[i].id \in pending.new

ViewInv ==
    sound => /\ Holds(messages, count, Covered(summary) \cup lost)
             /\ ~event => stored = persisted_state
             /\ stored # None => /\ stored.count <= count
                                 /\ Holds(messages, stored.count, stored.covers \cup lost)

IInv == TypeOK /\ MessagesInv /\ PreparedInv /\ PendingInv /\ ViewInv

(* A new message may be put behind the first k: a text or a call anywhere,  *)
(* a result behind its call when that has none.                            *)
LEMMA InsertWellFormed ==
    ASSUME NEW ms \in Seq(Message), NEW n \in Nat, WellFormed(ms, n),
           NEW k \in 0..Len(ms), NEW m \in Message, NEW b \in Seq(Message),
           Len(b) = Len(ms) + 1,
           \A i \in 1..Len(ms) + 1 :
              b[i] = IF i <= k THEN ms[i] ELSE IF i = k + 1 THEN m ELSE ms[i - 1],
           m.id = n + 1,
           m.kind # "result" => m.of = 0,
           m.kind = "result" => \E j \in 1..k : /\ ms[j].kind = "call" /\ ms[j].id = m.of
                                                /\ \A h \in 1..Len(ms) : ms[h].of # m.of
    PROVE  WellFormed(b, n + 1)
<1> DEFINE from(i) == IF i <= k THEN i ELSE i - 1
<1>1. Len(ms) \in Nat /\ k \in Nat
  OBVIOUS
<1>2. ASSUME NEW i \in 1..Len(b), i # k + 1
      PROVE  from(i) \in 1..Len(ms) /\ b[i] = ms[from(i)]
  <2>1. CASE i <= k
    BY <1>1, <1>2, <2>1
  <2>2. CASE ~(i <= k)
    <3>1. i - 1 \in 1..Len(ms)
      BY <1>1, <1>2, <2>2
    <3> QED BY <1>1, <1>2, <2>2, <3>1
  <2> QED BY <2>1, <2>2
<1>3. \A i, j \in 1..Len(b) : i # k + 1 /\ j # k + 1 /\ from(i) = from(j) => i = j
  BY <1>1
<1>4. k + 1 \in 1..Len(b) /\ b[k + 1] = m
  <2>1. k + 1 \in 1..Len(ms) + 1 /\ ~(k + 1 <= k)
    BY <1>1
  <2> QED BY <2>1
<1>5. ASSUME NEW j \in 1..Len(ms)
      PROVE  \E i \in 1..Len(b) : i # k + 1 /\ from(i) = j /\ b[i] = ms[j] /\ (j <= k => i = j)
                                  /\ i <= j + 1
  <2>1. CASE j <= k
    BY <1>1, <2>1
  <2>2. CASE ~(j <= k)
    <3>1. j + 1 \in 1..Len(b) /\ j + 1 # k + 1 /\ ~(j + 1 <= k) /\ j + 1 - 1 = j
      BY <1>1, <2>2
    <3>2. from(j + 1) = j
      BY <3>1
    <3>3. b[j + 1] = ms[j]
      BY <1>2, <3>1, <3>2
    <3>4. j + 1 <= j + 1
      OBVIOUS
    <3> HIDE DEF from
    <3> QED BY <2>2, <3>1, <3>2, <3>3, <3>4, Zenon
  <2> QED BY <2>1, <2>2
<1>6. ASSUME NEW i \in 1..Len(b) PROVE b[i].id \in 1..n + 1 /\ (i # k + 1 => b[i].id \in 1..n)
  <2>1. CASE i = k + 1
    BY <1>4, <2>1
  <2>2. CASE i # k + 1
    <3> HIDE DEF from
    <3>1. b[i].id \in 1..n
      BY <1>2, <2>2 DEF WellFormed
    <3> QED BY <3>1
  <2> QED BY <2>1, <2>2
<1>7. ASSUME NEW i \in 1..Len(b), NEW j \in 1..Len(b), b[i].id = b[j].id PROVE i = j
  <2>1. CASE i = k + 1 /\ j # k + 1
    BY <1>4, <1>6, <1>7, <2>1
  <2>2. CASE j = k + 1 /\ i # k + 1
    BY <1>4, <1>6, <1>7, <2>2
  <2>3. CASE i # k + 1 /\ j # k + 1
    <3>1. from(i) \in 1..Len(ms) /\ from(j) \in 1..Len(ms) /\ ms[from(i)].id = ms[from(j)].id
      BY <1>2, <1>7, <2>3
    <3> HIDE DEF from
    <3>2. from(i) = from(j)
      BY <3>1 DEF WellFormed
    <3> QED BY <1>3, <2>3, <3>2
  <2> QED BY <2>1, <2>2, <2>3
<1>8. ASSUME NEW i \in 1..Len(b), b[i].kind # "result" PROVE b[i].of = 0
  <2> HIDE DEF from
  <2>1. CASE i = k + 1
    BY <1>4, <1>8, <2>1
  <2>2. CASE i # k + 1
    BY <1>2, <1>8, <2>2 DEF WellFormed
  <2> QED BY <2>1, <2>2
<1>9. ASSUME NEW i \in 1..Len(b), b[i].kind = "result"
      PROVE  \E j \in 1..i - 1 : b[j].kind = "call" /\ b[j].id = b[i].of
  <2>1. CASE i = k + 1
    <3>1. PICK j \in 1..k : ms[j].kind = "call" /\ ms[j].id = m.of
      BY <1>4, <1>9, <2>1
    <3>2. j \in 1..i - 1 /\ j \in 1..Len(ms) + 1 /\ j <= k
      BY <1>1, <2>1
    <3>3. b[j] = ms[j]
      BY <3>2
    <3> QED BY <1>4, <2>1, <3>1, <3>2, <3>3
  <2>2. CASE i # k + 1
    <3>1. from(i) \in 1..Len(ms) /\ b[i] = ms[from(i)]
      BY <1>2, <2>2
    <3>2. PICK j \in 1..from(i) - 1 : ms[j].kind = "call" /\ ms[j].id = ms[from(i)].of
      <4> HIDE DEF from
      <4> QED BY <1>9, <3>1 DEF WellFormed
    <3>3. j \in 1..Len(ms)
      BY <1>1, <3>1
    <3>4. PICK h \in 1..Len(b) : h # k + 1 /\ from(h) = j /\ b[h] = ms[j] /\ (j <= k => h = j)
                                 /\ h <= j + 1
      BY <1>5, <3>3
    <3>5. h \in 1..i - 1
      BY <1>1, <2>2, <3>2, <3>4
    <3> HIDE DEF from
    <3> QED BY <3>1, <3>2, <3>4, <3>5
  <2> QED BY <2>1, <2>2
<1>10. ASSUME NEW i \in 1..Len(b), NEW j \in 1..Len(b), b[i].of = b[j].of, b[i].of # 0 PROVE i = j
  <2>1. ASSUME NEW h \in 1..Len(b), h # k + 1, b[h].of = m.of, m.of # 0 PROVE FALSE
    <3> HIDE DEF from
    <3>1. m.kind = "result"
      BY <2>1
    <3>2. \A g \in 1..Len(ms) : ms[g].of # m.of
      BY <3>1
    <3> QED BY <1>2, <2>1, <3>2
  <2>2. CASE i = k + 1 /\ j # k + 1
    BY <1>4, <1>10, <2>1, <2>2
  <2>3. CASE j = k + 1 /\ i # k + 1
    BY <1>4, <1>10, <2>1, <2>3
  <2>4. CASE i # k + 1 /\ j # k + 1
    <3>1. from(i) \in 1..Len(ms) /\ from(j) \in 1..Len(ms) /\ ms[from(i)].of = ms[from(j)].of
          /\ ms[from(i)].of # 0
      BY <1>2, <1>10, <2>4
    <3>2. from(i) = from(j)
      <4> HIDE DEF from
      <4> QED BY <3>1 DEF WellFormed
    <3> QED BY <1>3, <2>4, <3>2
  <2> QED BY <2>2, <2>3, <2>4
<1> HIDE DEF from
<1> QED BY <1>6, <1>7, <1>8, <1>9, <1>10 DEF WellFormed

(* The first messages of well-formed ones are well-formed. *)
LEMMA FirstWellFormed ==
    ASSUME NEW ms \in Seq(Message), NEW n \in Nat, WellFormed(ms, n), NEW k \in 0..Len(ms)
    PROVE  WellFormed(SubSeq(ms, 1, k), n)
<1> DEFINE b == SubSeq(ms, 1, k)
<1>1. Len(b) = k /\ \A i \in 1..k : b[i] = ms[i]
  BY FirstMessages
<1>2. \A i \in 1..k : i \in 1..Len(ms) /\ \A j \in 1..i - 1 : j \in 1..k
  OBVIOUS
<1> HIDE DEF b
<1>3. WellFormed(b, n)
  BY <1>1, <1>2, SMTT(60) DEF WellFormed
<1> QED BY <1>3 DEF b

(* Ids may be given out to other messages. *)
LEMMA LaterWellFormed ==
    ASSUME NEW ms \in Seq(Message), NEW n \in Nat, NEW m \in Nat, n <= m, WellFormed(ms, n)
    PROVE  WellFormed(ms, m)
<1>1. \A i \in 1..Len(ms) : ms[i].id \in 1..m
  BY DEF WellFormed
<1> QED BY <1>1 DEF WellFormed

(* What holds of the first c messages depends on them only. *)
LEMMA SamePrefix ==
    ASSUME NEW a \in Seq(Message), NEW b \in Seq(Message), NEW c \in Nat, NEW covers,
           Holds(a, c, covers), c <= Len(b), \A i \in 1..c : b[i] = a[i]
    PROVE  Holds(b, c, covers)
BY DEF Holds, Tells, Closed

(* More may be spoken of. *)
LEMMA MoreHolds ==
    ASSUME NEW ms, NEW c, NEW a, NEW b, a \subseteq b, Holds(ms, c, a)
    PROVE  Holds(ms, c, b)
BY DEF Holds, Tells

(* A cut of what is not compacted that parts no result from its call keeps  *)
(* what holds, when every call has its result.                             *)
LEMMA CutHolds ==
    ASSUME NEW ms \in Seq(Message), NEW n \in Nat, WellFormed(ms, n),
           Dangling(ms) = {}, NEW covers, NEW c \in Nat,
           Holds(ms, c, covers),
           NEW cut \in 0..Len(Active(c, ms)), Unmatched(Active(c, ms), cut) = {}
    PROVE  Holds(ms, c + cut, covers \cup Ids(SubSeq(Active(c, ms), 1, cut)))
<1> DEFINE active == Active(c, ms)
           pre == SubSeq(active, 1, cut)
<1>1. /\ c <= Len(ms) /\ Len(ms) \in Nat
      /\ active \in Seq(Message) /\ Len(active) = Len(ms) - c
      /\ \A i \in 1..Len(active) : active[i] = ms[i + c]
  BY ActiveMessages DEF Holds, ActiveStart
<1>2. cut \in 0..Len(active) /\ Unmatched(active, cut) = {}
  OBVIOUS
<1> HIDE DEF active
<1>3. Len(pre) = cut /\ pre \in Seq(Message) /\ \A i \in 1..cut : pre[i] = active[i]
  BY <1>1, <1>2, FirstMessages
<1> HIDE DEF pre
<1>4. c + cut <= Len(ms) /\ cut \in Nat /\ c + cut \in Nat
  BY <1>1, <1>2
<1>5. ASSUME NEW i \in c + 1..Len(ms)
      PROVE  i - c \in 1..Len(active) /\ active[i - c] = ms[i]
  <2>1. i - c \in 1..Len(active) /\ i - c + c = i
    BY <1>1
  <2> QED BY <1>1, <2>1
<1>6. Tells(ms, c + cut, covers \cup Ids(pre))
  <2>1. ASSUME NEW i \in 1..c + cut PROVE ms[i].id \in covers \cup Ids(pre)
    <3>1. CASE i <= c
      <4>1. i \in 1..c
        BY <3>1
      <4> QED BY <4>1 DEF Holds, Tells
    <3>2. CASE ~(i <= c)
      <4>1. i \in c + 1..Len(ms) /\ i - c \in 1..cut
        BY <1>1, <1>4, <3>2
      <4>2. pre[i - c] = ms[i]
        BY <1>3, <1>5, <4>1
      <4>3. i - c \in DOMAIN pre
        BY <1>3, <4>1
      <4> QED BY <4>2, <4>3 DEF Ids
    <3> QED BY <3>1, <3>2
  <2> QED BY <2>1 DEF Tells
<1>7. Closed(ms, c + cut)
  <2>1. ASSUME NEW i \in 1..c + cut, ms[i].kind = "call"
        PROVE  \E j \in 1..c + cut : ms[j].of = ms[i].id
    <3>1. i \in 1..Len(ms) /\ DOMAIN ms = 1..Len(ms)
      BY <1>1, <1>4
    <3>2. PICK j \in 1..Len(ms) : ms[j].of = ms[i].id
      BY <2>1, <3>1 DEF Dangling
    <3>3. ASSUME j \notin 1..c + cut PROVE FALSE
      <4>1. ms[j].of # 0
        BY <3>1, <3>2 DEF WellFormed
      <4>2. ms[j].kind = "result"
        BY <4>1 DEF WellFormed
      <4>3. j \in c + 1..Len(ms) /\ j - c \in cut + 1..Len(active)
        BY <1>1, <1>4, <3>3
      <4>4. active[j - c] = ms[j]
        BY <1>5, <4>3
      <4>5. ms[j].of \in {active[g].id : g \in {h \in cut + 1..Len(active) : active[h].kind = "call"}}
        BY <1>2, <4>2, <4>3, <4>4 DEF Unmatched
      <4>6. PICK g \in cut + 1..Len(active) : active[g].id = ms[j].of
        BY <4>5
      <4>7. g \in 1..Len(active) /\ g + c \in 1..Len(ms) /\ g + c > c + cut
        BY <1>1, <1>4
      <4>8. ms[g + c].id = ms[i].id
        BY <1>1, <3>2, <4>6, <4>7
      <4>9. g + c = i
        BY <3>1, <4>7, <4>8 DEF WellFormed
      <4> QED BY <1>4, <4>7, <4>9
    <3> QED BY <3>2, <3>3
  <2> QED BY <2>1 DEF Closed
<1>8. Holds(ms, c + cut, covers \cup Ids(pre))
  BY <1>4, <1>6, <1>7 DEF Holds
<1> QED BY <1>8 DEF pre, active

(* A request that carries a view which holds is complete. *)
LEMMA ViewIsComplete ==
    ASSUME NEW ms \in Seq(Message), NEW n \in Nat, WellFormed(ms, n),
           NEW c \in Nat, NEW covers \in SUBSET Nat, Holds(ms, c, covers)
    PROVE  /\ Ids(ms) \subseteq covers \cup Ids(Active(c, ms))
           /\ Unmatched(Active(c, ms), 0) = {}
<1> DEFINE active == Active(c, ms)
<1>1. /\ c <= Len(ms) /\ Len(ms) \in Nat
      /\ active \in Seq(Message) /\ Len(active) = Len(ms) - c
      /\ \A i \in 1..Len(active) : active[i] = ms[i + c]
  <2>1. c <= Len(ms) /\ ActiveStart(c, ms) = c
    BY DEF Holds, ActiveStart
  <2> QED BY <2>1, ActiveMessages
<1> HIDE DEF active
<1>2. ASSUME NEW i \in c + 1..Len(ms)
      PROVE  i - c \in 1..Len(active) /\ active[i - c] = ms[i]
  <2>1. i - c \in 1..Len(active) /\ i - c + c = i
    BY <1>1
  <2> QED BY <1>1, <2>1
<1>3. ASSUME NEW i \in 1..Len(ms) PROVE ms[i].id \in covers \cup Ids(active)
  <2>1. CASE i <= c
    <3>1. i \in 1..c
      BY <2>1
    <3> QED BY <3>1 DEF Holds, Tells
  <2>2. CASE ~(i <= c)
    <3>1. i \in c + 1..Len(ms)
      BY <1>1, <2>2
    <3>2. i - c \in DOMAIN active
      BY <1>1, <1>2, <3>1
    <3> QED BY <1>2, <3>1, <3>2 DEF Ids
  <2> QED BY <2>1, <2>2
<1>4. Ids(ms) \subseteq covers \cup Ids(active)
  <2> HIDE DEF active
  <2>1. ASSUME NEW x \in Ids(ms) PROVE x \in covers \cup Ids(active)
    <3>1. PICK i \in 1..Len(ms) : x = ms[i].id
      BY DEF Ids
    <3> QED BY <1>3, <3>1
  <2> QED BY <2>1
<1>5. ASSUME NEW i \in 1..Len(active), active[i].kind = "result"
      PROVE  \E g \in 1..Len(active) : active[g].kind = "call" /\ active[g].id = active[i].of
  <2>1. i + c \in 1..Len(ms) /\ i + c > c /\ active[i] = ms[i + c]
    BY <1>1
  <2>2. PICK k \in 1..i + c - 1 : ms[k].kind = "call" /\ ms[k].id = ms[i + c].of
    <3>1. ms[i + c].kind = "result"
      BY <1>5, <2>1
    <3> QED BY <2>1, <3>1 DEF WellFormed
  <2>3. k \in 1..Len(ms)
    BY <1>1, <2>1
  <2>4. ms[k].id # 0
    BY <2>3 DEF WellFormed
  <2>5. ASSUME k <= c PROVE FALSE
    <3>1. k \in 1..c
      BY <2>5
    <3>2. PICK j \in 1..c : ms[j].of = ms[k].id
      BY <2>2, <3>1 DEF Holds, Closed
    <3>3. j \in 1..Len(ms)
      BY <1>1
    <3>4. j = i + c
      BY <2>1, <2>2, <2>4, <3>2, <3>3 DEF WellFormed
    <3> QED BY <2>1, <3>4
  <2>6. k \in c + 1..Len(ms)
    BY <1>1, <2>3, <2>5
  <2> QED BY <1>2, <2>1, <2>2, <2>6
<1>6. Unmatched(active, 0) = {}
  <2>1. 0 + 1 = 1
    OBVIOUS
  <2> QED BY <1>5, <2>1 DEF Unmatched
<1> QED BY <1>4, <1>6 DEF active
-----------------------------------------------------------------------------
(* The same at the end of the messages. *)
LEMMA AppendWellFormed ==
    ASSUME NEW ms \in Seq(Message), NEW n \in Nat, WellFormed(ms, n), NEW m \in Message,
           m.id = n + 1,
           m.kind # "result" => m.of = 0,
           m.kind = "result" => \E j \in 1..Len(ms) : /\ ms[j].kind = "call" /\ ms[j].id = m.of
                                                      /\ \A h \in 1..Len(ms) : ms[h].of # m.of
    PROVE  WellFormed(Append(ms, m), n + 1)
<1> DEFINE b == Append(ms, m)
           k == Len(ms)
<1>1. /\ b \in Seq(Message) /\ Len(b) = Len(ms) + 1 /\ k \in 0..Len(ms)
      /\ \A i \in 1..Len(ms) : b[i] = ms[i]
      /\ b[Len(ms) + 1] = m
  BY AppendProperties
<1> HIDE DEF b
<1>2. \A i \in 1..Len(ms) + 1 :
         b[i] = IF i <= k THEN ms[i] ELSE IF i = k + 1 THEN m ELSE ms[i - 1]
  BY <1>1
<1>3. m.kind = "result" => \E j \in 1..k : /\ ms[j].kind = "call" /\ ms[j].id = m.of
                                           /\ \A h \in 1..Len(ms) : ms[h].of # m.of
  OBVIOUS
<1> HIDE DEF k
<1>4. WellFormed(b, n + 1)
  BY <1>1, <1>2, <1>3, InsertWellFormed
<1> QED BY <1>4 DEF b

(* A call and its result behind the others. *)
LEMMA ExchangeWellFormed ==
    ASSUME NEW ms \in Seq(Message), NEW n \in Nat, WellFormed(ms, n)
    PROVE  WellFormed(ms \o <<Call(n + 1), Result(n + 2, n + 1)>>, n + 2)
<1> DEFINE a == Append(ms, Call(n + 1))
           m == Result(n + 2, n + 1)
<1>1. Call(n + 1) \in Message /\ m \in Message
  BY MessageTypes
<1>2. a \in Seq(Message) /\ Len(a) = Len(ms) + 1 /\ a[Len(ms) + 1] = Call(n + 1)
      /\ \A i \in 1..Len(ms) : a[i] = ms[i]
  BY <1>1, AppendProperties
<1>3. WellFormed(a, n + 1)
  <2>1. Call(n + 1).id = n + 1 /\ Call(n + 1).kind = "call" /\ Call(n + 1).of = 0
    BY DEF Call
  <2> QED BY <1>1, <2>1, AppendWellFormed
<1>4. ms \o <<Call(n + 1), m>> = Append(a, m)
  BY <1>1
<1> HIDE DEF a
<1>5. \A h \in 1..Len(a) : a[h].of # n + 1
  <2>1. ASSUME NEW h \in 1..Len(a), a[h].of = n + 1 PROVE FALSE
    <3>1. CASE h = Len(ms) + 1
      BY <1>2, <2>1, <3>1 DEF Call
    <3>2. CASE h # Len(ms) + 1
      <4>1. h \in 1..Len(ms) /\ ms[h].of = n + 1
        BY <1>2, <2>1, <3>2
      <4>2. n + 1 # 0 /\ n + 1 \notin 1..n
        OBVIOUS
      <4>3. ms[h].kind = "result"
        BY <4>1, <4>2 DEF WellFormed
      <4>4. PICK j \in 1..h - 1 : ms[j].id = ms[h].of
        BY <4>1, <4>3 DEF WellFormed
      <4>5. j \in 1..Len(ms)
        BY <4>1
      <4>6. ms[j].id \in 1..n
        BY <4>5 DEF WellFormed
      <4> QED BY <4>1, <4>2, <4>4, <4>6
    <3> QED BY <3>1, <3>2
  <2> QED BY <2>1
<1>6. /\ m.kind = "result" /\ m.id = n + 1 + 1 /\ m.of = n + 1
  BY DEF Result
<1>7. \E j \in 1..Len(a) : a[j].kind = "call" /\ a[j].id = m.of
  <2>1. Len(ms) + 1 \in 1..Len(a) /\ a[Len(ms) + 1].kind = "call" /\ a[Len(ms) + 1].id = n + 1
    BY <1>2 DEF Call
  <2> QED BY <1>6, <2>1
<1>8. \A h \in 1..Len(a) : a[h].of # m.of
  BY <1>5, <1>6
<1> HIDE DEF m
<1>9. n + 1 \in Nat
  OBVIOUS
<1>10. WellFormed(Append(a, m), n + 1 + 1)
  BY <1>1, <1>2, <1>3, <1>6, <1>7, <1>8, <1>9, AppendWellFormed
<1>11. n + 1 + 1 = n + 2
  OBVIOUS
<1> QED BY <1>4, <1>10, <1>11 DEF m

(* The result that a repair puts in is the only one of its call. *)
LEMMA RepairWellFormed ==
    ASSUME NEW ms \in Seq(Message), NEW n \in Nat, WellFormed(ms, n), NEW i \in Dangling(ms)
    PROVE  WellFormed(Repaired(ms, i, n + 1), n + 1)
<1> DEFINE m == Result(n + 1, ms[i].id)
           b == Repaired(ms, i, n + 1)
<1>1. /\ i \in 1..Len(ms) /\ ms[i].kind = "call" /\ ms[i].id \in Nat
      /\ \A h \in 1..Len(ms) : ms[h].of # ms[i].id
  BY DEF Dangling, WellFormed
<1>2. m \in Message /\ m.id = n + 1 /\ m.kind = "result" /\ m.of = ms[i].id
  BY <1>1, MessageTypes DEF Result
<1>3. /\ b \in Seq(Message) /\ Len(b) = Len(ms) + 1
      /\ \A k \in 1..Len(ms) + 1 :
           b[k] = IF k <= i THEN ms[k] ELSE IF k = i + 1 THEN m ELSE ms[k - 1]
  <2>1. n + 1 \in Nat
    OBVIOUS
  <2> QED BY <1>1, <2>1, RepairedMessages
<1> HIDE DEF m, b
<1>4. i \in 0..Len(ms) /\ i \in 1..i
  BY <1>1
<1>5. \E j \in 1..i : /\ ms[j].kind = "call" /\ ms[j].id = m.of
                      /\ \A h \in 1..Len(ms) : ms[h].of # m.of
  BY <1>1, <1>2, <1>4
<1>6. WellFormed(b, n + 1)
  BY <1>2, <1>3, <1>4, <1>5, InsertWellFormed
<1> QED BY <1>6 DEF b

(* Every action keeps the conversation and the undo copy well-formed. *)
LEMMA MessagesStep ==
    ASSUME IInv, [Next]_vars
    PROVE  MessagesInv'
<1> USE DEF IInv
<1>1. messages \in Seq(Message) /\ ids \in Nat /\ (undo # None => undo \in Seq(Message))
  BY DEF TypeOK
<1>2. WellFormed(messages, ids) /\ (undo # None => WellFormed(undo, ids))
  BY DEF MessagesInv
<1>3. ASSUME WellFormed(messages', ids'), undo' = undo, ids' \in Nat, ids <= ids'
      PROVE  MessagesInv'
  <2>1. undo' # None => WellFormed(undo', ids')
    BY <1>1, <1>2, <1>3, LaterWellFormed
  <2> QED BY <1>3, <2>1 DEF MessagesInv
<1>4. ASSUME messages' = messages, ids' = ids, undo' = undo PROVE MessagesInv'
  BY <1>2, <1>4 DEF MessagesInv
<1>5. ASSUME messages' = Append(messages, Text(ids + 1)) PROVE WellFormed(messages', ids + 1)
  <2>1. Text(ids + 1) \in Message /\ Text(ids + 1).id = ids + 1
        /\ Text(ids + 1).kind = "text" /\ Text(ids + 1).of = 0
    BY <1>1, MessageTypes DEF Text
  <2> QED BY <1>1, <1>2, <1>5, <2>1, AppendWellFormed
<1>6. CASE UNCHANGED vars
  BY <1>4, <1>6 DEF vars
<1>7. CASE StartTurn
  BY <1>1, <1>3, <1>5, <1>7 DEF StartTurn, NextId
<1>8. CASE RepairCalls
  <2>1. PICK i \in Dangling(messages) : messages' = Repaired(messages, i, ids + 1)
    BY <1>8 DEF RepairCalls
  <2>2. WellFormed(messages', ids + 1)
    BY <1>1, <1>2, <2>1, RepairWellFormed
  <2> QED BY <1>1, <1>3, <1>8, <2>2 DEF RepairCalls, NextId
<1>9. CASE StartCompaction \/ HardCompact \/ SendCompacted \/ SendAll \/ ContextLimit
           \/ PendingEnds \/ ForceCompact \/ ManualEnds \/ SwitchProvider
  BY <1>4, <1>9 DEF StartCompaction, HardCompact, SendCompacted, SendAll, ContextLimit,
                    PendingEnds, ForceCompact, ManualEnds, SwitchProvider
<1>10. CASE Respond \/ RespondCompacted
  <2>0. Response /\ undo' = undo
    BY <1>10 DEF Respond, RespondCompacted
  <2>1. CASE NextId /\ messages' = Append(messages, Text(ids'))
    BY <1>1, <1>3, <1>5, <2>0, <2>1 DEF NextId
  <2>2. CASE NextId /\ messages' = Append(messages, Call(ids'))
    <3>1. Call(ids + 1) \in Message /\ Call(ids + 1).id = ids + 1
          /\ Call(ids + 1).kind = "call" /\ Call(ids + 1).of = 0
      BY <1>1, MessageTypes DEF Call
    <3>2. messages' = Append(messages, Call(ids + 1)) /\ ids' = ids + 1
      BY <2>2 DEF NextId
    <3>3. WellFormed(messages', ids + 1)
      BY <1>1, <1>2, <3>1, <3>2, AppendWellFormed
    <3> QED BY <1>1, <1>3, <2>0, <3>2, <3>3
  <2>3. CASE /\ ids' = ids + 2
             /\ messages' = messages \o <<Call(ids + 1), Result(ids + 2, ids + 1)>>
    <3>1. WellFormed(messages', ids + 2)
      BY <1>1, <1>2, <2>3, ExchangeWellFormed
    <3> QED BY <1>1, <1>3, <2>0, <2>3, <3>1
  <2>4. CASE UNCHANGED <<messages, ids>>
    BY <1>4, <2>0, <2>4
  <2> QED BY <2>0, <2>1, <2>2, <2>3, <2>4 DEF Response
<1>12. CASE rewind_to_message
  <2>1. PICK n \in 1..Len(messages) : messages' = SubSeq(messages, 1, n)
    BY <1>12 DEF rewind_to_message
  <2>2. n \in 0..Len(messages)
    BY <1>1
  <2>3. WellFormed(messages', ids)
    BY <1>1, <1>2, <2>1, <2>2, FirstWellFormed
  <2>4. undo' = messages /\ ids' = ids
    BY <1>12 DEF rewind_to_message
  <2> QED BY <1>2, <2>3, <2>4 DEF MessagesInv
<1>13. CASE undo_rewind
  <2>1. undo # None /\ messages' = undo /\ undo' = None /\ ids' = ids
    BY <1>13 DEF undo_rewind
  <2> QED BY <1>2, <2>1 DEF MessagesInv
<1>14. CASE restore_session
  <2>1. messages' = messages /\ undo' = None /\ ids' = ids
    BY <1>14 DEF restore_session
  <2> QED BY <1>2, <2>1 DEF MessagesInv
<1>15. CASE clear
  <2>1. messages' = <<>> /\ undo' = None
    BY <1>15 DEF clear
  <2> QED BY <2>1 DEF MessagesInv, WellFormed
<1> QED BY <1>6, <1>7, <1>8, <1>9, <1>10, <1>12, <1>13, <1>14, <1>15 DEF Next

(* Only a conversation without open calls is prepared and sent. *)
LEMMA PreparedStep ==
    ASSUME IInv, [Next]_vars
    PROVE  PreparedInv'
<1> DEFINE Prepared == {"started", "fits", "sent", "raw"}
<1>1. pc \in Prepared => Dangling(messages) = {}
  BY DEF IInv, PreparedInv
<1>2. ASSUME pc' \notin Prepared PROVE PreparedInv'
  BY <1>2 DEF PreparedInv
<1>3. ASSUME messages' = messages, pc' \in Prepared => pc \in Prepared \/ Dangling(messages) = {}
      PROVE  PreparedInv'
  <2>1. Dangling(messages)' = Dangling(messages')
    BY DEF Dangling
  <2> QED BY <1>1, <1>3, <2>1 DEF PreparedInv
<1>4. CASE UNCHANGED vars
  BY <1>3, <1>4 DEF vars
<1>5. CASE StartTurn \/ RepairCalls \/ Respond \/ RespondCompacted \/ ContextLimit
           \/ rewind_to_message \/ undo_rewind \/ restore_session \/ clear
  BY <1>2, <1>5 DEF StartTurn, RepairCalls, Respond, RespondCompacted, Response, ContextLimit,
                    rewind_to_message, undo_rewind, restore_session, clear
<1>6. CASE StartCompaction \/ HardCompact \/ SendCompacted \/ SendAll \/ PendingEnds
           \/ ForceCompact \/ ManualEnds \/ SwitchProvider
  BY <1>3, <1>6 DEF StartCompaction, HardCompact, SendCompacted, Consulted, SendAll, PendingEnds,
                    ForceCompact, ManualEnds, SwitchProvider
<1> QED BY <1>4, <1>5, <1>6 DEF Next

-----------------------------------------------------------------------------
(* A hard compaction moves the count by a cut of what is not compacted. *)
LEMMA HardCut ==
    ASSUME TypeOK, hard_compact_with
    PROVE  \E cut \in 1..Len(Active(count, messages)) :
              /\ Unmatched(Active(count, messages), cut) = {}
              /\ count' = count + cut
              /\ summary' = [kind |-> "text",
                             covers |-> Texts(summary)
                                          \cup Ids(SubSeq(Active(count, messages), 1, cut))]
              /\ lost' = lost \cup Encrypted(summary)
              /\ event' = TRUE
<1> DEFINE active == Active(count, messages)
           Cuts(c) == /\ count' = count + c
                      /\ summary' = [kind |-> "text",
                                     covers |-> Texts(summary) \cup Ids(SubSeq(active, 1, c))]
                      /\ lost' = lost \cup Encrypted(summary)
                      /\ event' = TRUE
<1>1. active \in Seq(Message)
  BY ActiveMessages DEF TypeOK
<1>2. PICK keep \in MinTurns..RecentTurns :
        LET cutoff == safe_compaction_cutoff(active, Len(active) - keep)
        IN /\ keep < Len(active) /\ cutoff > 0
           /\ Cuts(cutoff)
  BY DEF hard_compact_with
<1> DEFINE cut == safe_compaction_cutoff(active, Len(active) - keep)
<1> HIDE DEF active, Cuts
<1>3. Len(active) - keep \in Nat /\ Len(active) \in Nat /\ keep \in Nat
  BY <1>1, <1>2, TurnsAssumption
<1>4. cut \in 0..Len(active) - keep /\ (cut # 0 => Unmatched(active, cut) = {})
  BY <1>1, <1>3, SafeCutoff
<1>5. cut > 0 /\ Cuts(cut)
  BY <1>2
<1> HIDE DEF cut
<1>6. cut \in 1..Len(active) /\ cut # 0
  BY <1>3, <1>4, <1>5
<1>7. \E c \in 1..Len(active) : Unmatched(active, c) = {} /\ Cuts(c)
  BY <1>4, <1>5, <1>6
<1> QED BY <1>7 DEF active, Cuts

(* A compaction that was just started. *)
LEMMA StartedPending ==
    ASSUME TypeOK, NEW ms \in Seq(Message), NEW wanted \in 1..Len(Active(count, ms)),
           pending' \in Starts(count, summary, ms, wanted), UNCHANGED <<count, summary>>
    PROVE  PendingInv'
<1> DEFINE p == pending'
<1>1. /\ p.count = count /\ p.cutoff > 0 /\ p.cutoff \in Nat /\ p.old = summary
      /\ count <= Len(ms) => /\ Len(p.prefix) = count + p.cutoff
                             /\ \A i \in count + 1..Len(p.prefix) : p.prefix[i].id \in p.new
      /\ count > Len(ms) => Len(p.prefix) = p.cutoff
  <2>1. /\ count \in Nat /\ summary \in Summary \cup {None}
        /\ p \in Starts(count, summary, ms, wanted) /\ provider \in {"openai", "other", "bedrock"}
    BY DEF TypeOK
  <2> HIDE DEF p
  <2>2. /\ p \in Pending /\ p.count = count /\ p.cutoff > 0 /\ p.old = summary
        /\ count <= Len(ms) => /\ Len(p.prefix) = count + p.cutoff
                               /\ \A i \in count + 1..Len(p.prefix) : p.prefix[i].id \in p.new
        /\ count > Len(ms) => Len(p.prefix) = p.cutoff
    <3>1. p \in Pending
      BY <2>1, StartsPending
    <3>2. p.count = count
      BY <2>1, StartsPending
    <3>3. p.cutoff > 0
      BY <2>1, StartsPending
    <3>4. p.old = summary
      BY <2>1, StartsPending
    <3>5. count <= Len(ms) => /\ Len(p.prefix) = count + p.cutoff
                              /\ \A i \in count + 1..Len(p.prefix) : p.prefix[i].id \in p.new
      BY <2>1, StartsPending
    <3>6. count > Len(ms) => Len(p.prefix) = p.cutoff
      BY <2>1, StartsPending
    <3> QED BY <3>1, <3>2, <3>3, <3>4, <3>5, <3>6
  <2>3. p.cutoff \in Nat
    BY <2>2 DEF Pending
  <2> QED BY <2>2, <2>3
<1>2. count \in Nat /\ Len(ms) \in Nat
  BY DEF TypeOK
<1>4. Len(p.prefix) = count + p.cutoff =>
         \A i \in count + 1..Len(p.prefix) : p.prefix[i].id \in p.new
  <2>1. CASE count <= Len(ms)
    BY <1>1, <2>1
  <2>2. CASE count > Len(ms)
    <3>1. p.cutoff # count + p.cutoff
      BY <1>1, <1>2, <2>2
    <3> QED BY <1>1, <2>2, <3>1
  <2> QED BY <1>2, <2>1, <2>2
<1>5. count <= count
  BY <1>2
<1> QED BY <1>1, <1>4, <1>5 DEF PendingInv

(* A pending compaction speaks of what it drops, or can no longer be clean. *)
LEMMA PendingStep ==
    ASSUME IInv, [Next]_vars
    PROVE  PendingInv'
<1> USE DEF IInv
<1>1. ASSUME UNCHANGED <<pending, count, summary>> PROVE PendingInv'
  BY <1>1 DEF PendingInv
<1>2. ASSUME pending' = None PROVE PendingInv'
  BY <1>2 DEF PendingInv
<1>3. ASSUME hard_compact_with, pending' = pending PROVE PendingInv'
  <2>1. PICK cut \in 1..Len(Active(count, messages)) : count' = count + cut
    BY <1>3, HardCut
  <2>2. count \in Nat /\ (pending # None => pending.count \in Nat)
    BY DEF TypeOK, Pending
  <2>3. pending # None => pending.count <= count /\ pending.cutoff > 0
    BY DEF PendingInv
  <2>4. cut \in Nat /\ cut > 0
    <3>1. Active(count, messages) \in Seq(Message)
      BY ActiveMessages DEF TypeOK
    <3> QED BY <3>1
  <2>5. pending # None => pending.count <= count' /\ pending.count # count'
    BY <2>1, <2>2, <2>3, <2>4
  <2> QED BY <1>3, <2>3, <2>5 DEF PendingInv
<1>4. CASE UNCHANGED vars
  BY <1>1, <1>4 DEF vars
<1>5. CASE StartTurn \/ RepairCalls \/ SendAll \/ Respond \/ ForceCompact \/ ManualEnds
           \/ SwitchProvider \/ rewind_to_message \/ undo_rewind
  BY <1>1, <1>5 DEF StartTurn, RepairCalls, SendAll, Respond, ForceCompact, ManualEnds,
                    SwitchProvider, rewind_to_message, undo_rewind, manager
<1>6. CASE StartCompaction
  <2>1. UNCHANGED <<count, summary>>
    BY <1>6 DEF StartCompaction
  <2>2. CASE pending' = pending
    BY <1>1, <2>1, <2>2
  <2>3. CASE \E wanted \in 1..Standard(count, messages) :
               pending' \in Starts(count, summary, messages, wanted)
    <3>1. PICK wanted \in 1..Standard(count, messages) :
            pending' \in Starts(count, summary, messages, wanted)
      BY <2>3
    <3>2. messages \in Seq(Message) /\ count \in Nat
      BY DEF TypeOK
    <3>3. Active(count, messages) \in Seq(Message)
      BY <3>2, ActiveMessages
    <3>4. wanted \in 1..Len(Active(count, messages))
      BY <3>3, TurnsAssumption DEF Standard
    <3> QED BY <2>1, <3>1, <3>2, <3>4, StartedPending
  <2> QED BY <1>6, <2>2, <2>3 DEF StartCompaction
<1>7. CASE HardCompact
  BY <1>1, <1>3, <1>7 DEF HardCompact
<1>8. CASE SendCompacted
  <2>1. CASE check_and_apply_compaction
    BY <1>2, <2>1 DEF check_and_apply_compaction
  <2>2. CASE pending' = None
    BY <1>2, <2>2
  <2>3. CASE UNCHANGED <<pending, count, summary>>
    BY <1>1, <2>3
  <2> QED BY <1>8, <2>1, <2>2, <2>3 DEF SendCompacted
<1>9. CASE RespondCompacted \/ restore_session \/ clear
  BY <1>2, <1>9 DEF RespondCompacted, restore_session, clear, seed_compaction
<1>10. CASE ContextLimit
  BY <1>1, <1>3, <1>10 DEF ContextLimit
<1>11. CASE PendingEnds
  <2>1. PICK end \in {"text", "native", "failed"} : pending' = [pending EXCEPT !.state = end]
    BY <1>11 DEF PendingEnds
  <2>2. pending # None /\ pending \in Pending /\ UNCHANGED <<count, summary>>
    BY <1>11 DEF PendingEnds, TypeOK
  <2>3. /\ pending'.count = pending.count /\ pending'.cutoff = pending.cutoff
        /\ pending'.old = pending.old /\ pending'.new = pending.new /\ pending'.prefix = pending.prefix
    BY <2>1, <2>2 DEF Pending
  <2> QED BY <2>2, <2>3 DEF PendingInv
<1> QED BY <1>4, <1>5, <1>6, <1>7, <1>8, <1>9, <1>10, <1>11 DEF Next
-----------------------------------------------------------------------------
(* The pending compaction, applied to the messages it was given, leaves a   *)
(* view that holds.                                                        *)
LEMMA AppliedHolds ==
    ASSUME IInv, check_and_apply_compaction, sound'
    PROVE  Holds(messages, count', Covered(summary') \cup lost')
<1> USE DEF IInv
<1> DEFINE p == pending
           c == count + p.cutoff
           told == Covered(summary') \cup lost'
<1>1. /\ p # None /\ p \in Pending /\ count' = c /\ summary' = Artifact(p)
      /\ sound /\ Clean(p, count, messages)
      /\ lost' = IF p.state = "native" THEN lost ELSE lost \cup Encrypted(p.old)
  BY DEF check_and_apply_compaction, TypeOK
<1>2. told = Covered(p.old) \cup p.new \cup lost
  <2>1. Covered(p.old) = Texts(p.old) \cup Encrypted(p.old)
    BY <1>1, CoveredType DEF Pending
  <2>2. Covered(summary') = IF p.state = "native" THEN Covered(p.old) \cup p.new
                            ELSE Texts(p.old) \cup p.new
    BY <1>1, ArtifactType
  <2> QED BY <1>1, <2>1, <2>2
<1> HIDE DEF told
<1>3. /\ p.count = count /\ p.prefix = SubSeq(messages, 1, c) /\ c <= Len(messages)
      /\ Dangling(p.prefix) = {}
  BY <1>1 DEF Clean
<1>4. messages \in Seq(Message) /\ count \in Nat /\ p.cutoff \in Nat /\ Len(messages) \in Nat
  BY <1>1 DEF TypeOK, Pending
<1>5. c \in 0..Len(messages)
  BY <1>3, <1>4
<1>6. Len(p.prefix) = c /\ p.prefix \in Seq(Message) /\ \A i \in 1..c : p.prefix[i] = messages[i]
  BY <1>3, <1>4, <1>5, FirstMessages
<1>7. ASSUME NEW i \in 1..c PROVE messages[i].id \in told
  <2>1. CASE i <= count
    <3>1. i \in 1..count
      BY <1>4, <2>1
    <3>2. messages[i].id \in Covered(summary) \cup lost
      BY <1>1, <3>1 DEF ViewInv, Holds, Tells
    <3>3. p.old = summary
      BY <1>1, <1>3 DEF PendingInv
    <3> QED BY <1>2, <3>2, <3>3
  <2>2. CASE ~(i <= count)
    <3>1. i \in count + 1..Len(p.prefix)
      BY <1>4, <1>6, <2>2
    <3>2. p.prefix[i].id \in p.new
      BY <1>1, <1>3, <1>6, <3>1 DEF PendingInv
    <3> QED BY <1>2, <1>6, <3>2
  <2> QED BY <2>1, <2>2
<1>8. ASSUME NEW i \in 1..c, messages[i].kind = "call"
      PROVE  \E j \in 1..c : messages[j].of = messages[i].id
  <2>1. DOMAIN p.prefix = 1..c
    BY <1>6
  <2>2. PICK j \in 1..c : p.prefix[j].of = p.prefix[i].id
    BY <1>3, <1>6, <1>8, <2>1 DEF Dangling
  <2> QED BY <1>6, <2>2
<1>9. Tells(messages, c, told) /\ Closed(messages, c)
  BY <1>7, <1>8 DEF Tells, Closed
<1>10. Holds(messages, count', told)
  BY <1>1, <1>3, <1>9 DEF Holds
<1> QED BY <1>10 DEF told

(* The messages of the view are kept, and the view is not changed. *)
LEMMA ViewKept ==
    ASSUME IInv, TypeOK', sound, UNCHANGED <<count, summary, event, stored, lost>>,
           count <= Len(messages'), \A i \in 1..count : messages'[i] = messages[i]
    PROVE  ViewInv'
<1> USE DEF IInv
<1>1. /\ messages \in Seq(Message) /\ messages' \in Seq(Message) /\ count \in Nat
      /\ Len(messages') \in Nat /\ stored # None => stored.count \in Nat
  BY DEF TypeOK, View
<1>2. /\ Holds(messages, count, Covered(summary) \cup lost) /\ (~event => stored = persisted_state)
      /\ stored # None => stored.count <= count /\ Holds(messages, stored.count, stored.covers \cup lost)
  BY DEF ViewInv
<1>3. Holds(messages', count, Covered(summary) \cup lost)
  BY <1>1, <1>2, SamePrefix
<1>4. stored # None => Holds(messages', stored.count, stored.covers \cup lost)
  <2> SUFFICES ASSUME stored # None PROVE Holds(messages', stored.count, stored.covers \cup lost)
    OBVIOUS
  <2>1. \A i \in 1..stored.count : messages'[i] = messages[i]
    BY <1>1, <1>2
  <2>2. stored.count <= Len(messages')
    BY <1>1, <1>2
  <2> QED BY <1>1, <1>2, <2>1, <2>2, SamePrefix
<1>5. Covered(summary)' = Covered(summary) /\ persisted_state' = persisted_state
  BY DEF Covered, persisted_state
<1>6. Holds(messages, count, Covered(summary) \cup lost)' = Holds(messages', count, Covered(summary) \cup lost)
  BY <1>5 DEF Holds, Tells, Closed
<1>7. Holds(messages, stored.count, stored.covers \cup lost)' = Holds(messages', stored.count, stored.covers \cup lost)
  BY DEF Holds, Tells, Closed
<1> QED BY <1>2, <1>3, <1>4, <1>5, <1>6, <1>7 DEF ViewInv

(* A hard compaction leaves a view that holds. *)
LEMMA HardHolds ==
    ASSUME IInv, sound, Dangling(messages) = {}, hard_compact_with
    PROVE  /\ Holds(messages, count', Covered(summary') \cup lost')
           /\ count < count' /\ event' /\ lost \subseteq lost'
<1> USE DEF IInv
<1>1. PICK cut \in 1..Len(Active(count, messages)) :
        /\ Unmatched(Active(count, messages), cut) = {}
        /\ count' = count + cut
        /\ summary' = [kind |-> "text",
                       covers |-> Texts(summary)
                                    \cup Ids(SubSeq(Active(count, messages), 1, cut))]
        /\ lost' = lost \cup Encrypted(summary)
        /\ event' = TRUE
  BY HardCut
<1> DEFINE told == Covered(summary) \cup lost
           dropped == Ids(SubSeq(Active(count, messages), 1, cut))
<1>2. /\ messages \in Seq(Message) /\ ids \in Nat /\ count \in Nat
      /\ summary \in Summary \cup {None}
  BY DEF TypeOK
<1>3. Active(count, messages) \in Seq(Message)
  BY <1>2, ActiveMessages
<1>4. cut \in 0..Len(Active(count, messages)) /\ cut \in Nat /\ cut > 0
  BY <1>3
<1>5. WellFormed(messages, ids) /\ Holds(messages, count, told)
  BY DEF MessagesInv, ViewInv
<1> HIDE DEF told
<1>6. Holds(messages, count + cut, told \cup dropped)
  BY <1>1, <1>2, <1>4, <1>5, CutHolds
<1>7. Covered(summary') = Texts(summary) \cup dropped
  <2>1. SubSeq(Active(count, messages), 1, cut) \in Seq(Message)
    BY <1>3, <1>4, FirstMessages
  <2>2. Texts(summary) \cup dropped \in SUBSET Nat
    BY <1>2, <2>1, CoveredType, IdsType
  <2> QED BY <1>1, <2>2, SummaryType
<1>8. told \cup dropped = Covered(summary') \cup lost'
  <2>1. Covered(summary) = Texts(summary) \cup Encrypted(summary)
    BY <1>2, CoveredType
  <2> QED BY <1>1, <1>7, <2>1 DEF told
<1>9. count < count'
  BY <1>1, <1>2, <1>4
<1> QED BY <1>1, <1>6, <1>8, <1>9

(* Parts of the invariant in the next state. *)
LEMMA NextHolds ==
    /\ Holds(messages, count, Covered(summary) \cup lost)'
         <=> Holds(messages', count', Covered(summary') \cup lost')
    /\ Holds(messages, stored.count, stored.covers \cup lost)'
         <=> Holds(messages', stored'.count, stored'.covers \cup lost')
BY DEF Holds, Tells, Closed, Covered

(* The new view is also the stored one. *)
LEMMA ViewStored ==
    ASSUME TypeOK', Holds(messages', count', Covered(summary') \cup lost'),
           stored' = persisted_state'
    PROVE  ViewInv'
<1>1. stored' # None => /\ stored'.count <= count'
                        /\ Holds(messages', stored'.count, stored'.covers \cup lost')
  <2> SUFFICES ASSUME stored' # None
               PROVE  /\ stored'.count <= count'
                      /\ Holds(messages', stored'.count, stored'.covers \cup lost')
    OBVIOUS
  <2>1. /\ summary' # None
        /\ stored' = [count |-> count', kind |-> summary'.kind, covers |-> summary'.covers]
    BY DEF persisted_state
  <2>2. Covered(summary') = summary'.covers
    BY <2>1 DEF Covered
  <2>3. count' <= count'
    BY DEF TypeOK
  <2> QED BY <2>1, <2>2, <2>3
<1> QED BY <1>1, NextHolds DEF ViewInv

(* The session is not told of the new view. *)
LEMMA ViewAhead ==
    ASSUME IInv, TypeOK', sound, messages' = messages, stored' = stored, event',
           count <= count', lost \subseteq lost',
           Holds(messages', count', Covered(summary') \cup lost')
    PROVE  ViewInv'
<1>1. stored' # None => /\ stored'.count <= count'
                        /\ Holds(messages', stored'.count, stored'.covers \cup lost')
  <2> SUFFICES ASSUME stored # None
               PROVE  /\ stored.count <= count'
                      /\ Holds(messages, stored.count, stored.covers \cup lost')
    OBVIOUS
  <2>1. stored.count <= count /\ Holds(messages, stored.count, stored.covers \cup lost)
    BY DEF IInv, ViewInv
  <2>2. stored.covers \cup lost \subseteq stored.covers \cup lost'
    OBVIOUS
  <2>3. Holds(messages, stored.count, stored.covers \cup lost')
    BY <2>1, <2>2, MoreHolds
  <2>4. stored.count \in Nat /\ count \in Nat /\ count' \in Nat
    BY DEF IInv, TypeOK, View
  <2> QED BY <2>1, <2>3, <2>4
<1> QED BY <1>1, NextHolds DEF ViewInv

(* Every action keeps what the views promise. *)
LEMMA ViewStep ==
    ASSUME IInv, TypeOK', [Next]_vars
    PROVE  ViewInv'
<1> USE DEF IInv
<1>1. SUFFICES ASSUME sound' PROVE ViewInv'
  BY DEF ViewInv
<1>2. /\ messages \in Seq(Message) /\ messages' \in Seq(Message) /\ count \in Nat
      /\ Len(messages) \in Nat /\ ids \in Nat
  BY DEF TypeOK
<1>3. sound => /\ count <= Len(messages) /\ Holds(messages, count, Covered(summary) \cup lost)
               /\ ~event => stored = persisted_state
               /\ stored # None => /\ stored.count <= count
                                   /\ Holds(messages, stored.count, stored.covers \cup lost)
  BY DEF ViewInv, Holds
<1>4. ASSUME sound, messages' = messages, UNCHANGED <<count, summary, event, stored, lost>>
      PROVE  ViewInv'
  BY <1>3, <1>4, ViewKept
<1>5. ASSUME sound, UNCHANGED <<count, summary, event, stored, lost>>, NEW m \in Message,
             messages' = Append(messages, m)
      PROVE  ViewInv'
  <2>1. Len(messages') = Len(messages) + 1 /\ \A i \in 1..Len(messages) : messages'[i] = messages[i]
    BY <1>2, <1>5, AppendProperties
  <2>2. count <= Len(messages') /\ \A i \in 1..count : messages'[i] = messages[i]
    BY <1>2, <1>3, <1>5, <2>1
  <2> QED BY <1>5, <2>2, ViewKept
<1>6. CASE UNCHANGED vars
  BY <1>1, <1>4, <1>6 DEF vars
<1>7. CASE StartTurn
  <2>1. Text(ids') \in Message
    BY <1>2, <1>7, MessageTypes DEF StartTurn, NextId
  <2> QED BY <1>1, <1>5, <1>7, <2>1 DEF StartTurn, manager, history
<1>8. CASE RepairCalls
  <2>1. PICK i \in Dangling(messages) : /\ messages' = Repaired(messages, i, ids + 1)
                                        /\ sound' = (sound /\ count < i)
    BY <1>8 DEF RepairCalls
  <2>2. sound /\ count < i /\ i \in 1..Len(messages) /\ ids + 1 \in Nat
    <3>1. sound /\ count < i
      BY <1>1, <2>1, Zenon
    <3>2. i \in 1..Len(messages)
      BY <1>2 DEF Dangling
    <3> QED BY <1>2, <3>1, <3>2
  <2>3. /\ Len(messages') = Len(messages) + 1
        /\ \A k \in 1..Len(messages) + 1 :
              messages'[k] = IF k <= i THEN messages[k]
                             ELSE IF k = i + 1 THEN Result(ids + 1, messages[i].id)
                             ELSE messages[k - 1]
    <3> DEFINE b == Repaired(messages, i, ids + 1)
    <3>1. /\ Len(b) = Len(messages) + 1
          /\ \A k \in 1..Len(messages) + 1 :
                b[k] = IF k <= i THEN messages[k]
                       ELSE IF k = i + 1 THEN Result(ids + 1, messages[i].id)
                       ELSE messages[k - 1]
      BY <1>2, <2>2, RepairedMessages
    <3> HIDE DEF b
    <3>2. messages' = b
      BY <2>1 DEF b
    <3> QED BY <3>1, <3>2
  <2>4. count <= Len(messages') /\ \A k \in 1..count : messages'[k] = messages[k]
    BY <1>2, <2>2, <2>3
  <2> QED BY <1>8, <2>2, <2>4, ViewKept DEF RepairCalls, manager
<1>9. CASE StartCompaction \/ SendAll \/ PendingEnds \/ ForceCompact \/ ManualEnds \/ SwitchProvider
  BY <1>1, <1>4, <1>9 DEF StartCompaction, SendAll, PendingEnds, ForceCompact, ManualEnds,
                          SwitchProvider, manager, history
<1>10. CASE HardCompact
  <2>1. sound /\ messages' = messages /\ stored' = stored /\ Dangling(messages) = {}
    BY <1>1, <1>10 DEF HardCompact, PreparedInv
  <2>2. CASE UNCHANGED <<count, summary, event, lost>>
    BY <1>4, <2>1, <2>2
  <2>3. CASE hard_compact_with
    <3>1. /\ Holds(messages', count', Covered(summary') \cup lost')
          /\ count < count' /\ event' /\ lost \subseteq lost'
      BY <2>1, <2>3, HardHolds
    <3>2. count <= count'
      BY <3>1 DEF TypeOK
    <3> QED BY <2>1, <3>1, <3>2, ViewAhead
  <2> QED BY <1>10, <2>2, <2>3 DEF HardCompact
<1>11. CASE SendCompacted
  <2>1. PICK applied \in BOOLEAN :
          /\ \/ applied /\ check_and_apply_compaction
             \/ ~applied /\ UNCHANGED <<count, summary, history>>
          /\ event' = ((applied \/ event) /\ ~uses_jcode_compaction)
          /\ stored' = IF (applied \/ event) /\ uses_jcode_compaction
                       THEN persisted_state' ELSE stored
    BY <1>11 DEF SendCompacted
  <2>2. messages' = messages
    BY <1>11 DEF SendCompacted
  <2>3. /\ sound /\ count <= count' /\ lost \subseteq lost'
        /\ Holds(messages', count', Covered(summary') \cup lost')
        /\ ~applied => UNCHANGED <<count, summary, lost>>
    <3>1. CASE applied /\ check_and_apply_compaction
      <4>1. sound /\ count' = count + pending.cutoff /\ lost \subseteq lost' /\ pending.cutoff \in Nat
        BY <1>1, <3>1 DEF check_and_apply_compaction, TypeOK, Pending
      <4>2. count <= count'
        BY <1>2, <4>1
      <4>3. Holds(messages, count', Covered(summary') \cup lost')
        BY <1>1, <3>1, AppliedHolds
      <4> QED BY <2>2, <3>1, <4>1, <4>2, <4>3
    <3>2. CASE ~applied /\ UNCHANGED <<count, summary, history>>
      <4>1. sound /\ UNCHANGED <<count, summary, lost>>
        BY <1>1, <3>2 DEF history
      <4>2. count <= count' /\ lost \subseteq lost'
        BY <1>2, <4>1
      <4>3. Covered(summary') = Covered(summary)
        BY <4>1 DEF Covered
      <4> QED BY <1>3, <2>2, <4>1, <4>2, <4>3
    <3> QED BY <2>1, <3>1, <3>2
  <2>4. CASE (applied \/ event) /\ uses_jcode_compaction
    <3>1. stored' = persisted_state'
      BY <2>1, <2>4
    <3> QED BY <2>3, <3>1, ViewStored
  <2>5. CASE (applied \/ event) /\ ~uses_jcode_compaction
    <3>1. stored' = stored /\ event'
      BY <2>1, <2>5
    <3> QED BY <2>2, <2>3, <3>1, ViewAhead
  <2>6. CASE ~applied /\ ~event
    <3>1. stored' = stored /\ event' = event
      BY <2>1, <2>6 DEF TypeOK
    <3> QED BY <1>4, <2>2, <2>3, <2>6, <3>1
  <2> QED BY <2>4, <2>5, <2>6
<1>12. CASE Respond
  <2>1. sound /\ UNCHANGED <<count, summary, event, stored, lost>>
    BY <1>1, <1>12 DEF Respond, manager, history
  <2>2. /\ Len(messages) <= Len(messages')
        /\ \A i \in 1..Len(messages) : messages'[i] = messages[i]
    BY <1>2, <1>12, ResponseMessages DEF Respond
  <2>3. Len(messages') \in Nat
    BY <1>2
  <2>4. count <= Len(messages') /\ \A i \in 1..count : messages'[i] = messages[i]
    BY <1>2, <1>3, <2>1, <2>2, <2>3
  <2> QED BY <2>1, <2>4, ViewKept
<1>13. CASE RespondCompacted
  <2> DEFINE n == Len(messages)
             told == Covered(summary') \cup lost'
  <2>1. /\ count' = n /\ stored' = persisted_state' /\ Response
        /\ pc = "raw" \/ sound
        /\ pc \in {"sent", "raw"}
        /\ \/ summary' = [kind |-> "native", covers |-> SentIds] /\ lost' = lost
           \/ summary' = [kind |-> "text", covers |-> {}] /\ lost' = lost \cup SentIds
    BY <1>1, <1>13 DEF RespondCompacted, Sent, SentIds
  <2>2. told = SentIds \cup lost
    <3>1. SentIds \in SUBSET Nat
      BY SentType
    <3>2. CASE summary' = [kind |-> "native", covers |-> SentIds] /\ lost' = lost
      <4>1. Covered(summary') = SentIds
        BY <3>1, <3>2, SummaryType
      <4> QED BY <3>2, <4>1
    <3>3. CASE summary' = [kind |-> "text", covers |-> {}] /\ lost' = lost \cup SentIds
      <4>1. {} \in SUBSET Nat
        OBVIOUS
      <4>2. Covered(summary') = {}
        BY <3>3, <4>1, SummaryType
      <4> QED BY <3>3, <4>2
    <3> QED BY <2>1, <3>2, <3>3
  <2> HIDE DEF told
  <2>3. DOMAIN messages = 1..n
    BY <1>2
  <2>4. \A i \in 1..n : messages[i].id \in told
    <3>1. \A i \in 1..n : messages[i].id \in Ids(messages)
      BY <2>3 DEF Ids
    <3>2. CASE pc = "raw"
      BY <2>2, <3>1, <3>2 DEF SentIds
    <3>3. CASE pc # "raw"
      <4> DEFINE covers == Covered(summary) \cup lost
      <4>1. covers \in SUBSET Nat
        BY CoveredType DEF TypeOK
      <4>2. WellFormed(messages, ids)
        BY DEF MessagesInv
      <4>3. Holds(messages, count, covers)
        BY <1>3, <2>1, <3>3
      <4>4. SentIds = Covered(summary) \cup Ids(Active(count, messages))
        BY <3>3 DEF SentIds
      <4> HIDE DEF covers
      <4>5. Ids(messages) \subseteq covers \cup Ids(Active(count, messages))
        BY <1>2, <4>1, <4>2, <4>3, ViewIsComplete
      <4> QED BY <2>2, <3>1, <4>4, <4>5 DEF covers
    <3> QED BY <3>2, <3>3
  <2>5. Len(messages') \in Nat /\ n <= Len(messages') /\ \A i \in 1..n : messages'[i] = messages[i]
    BY <1>2, <2>1, ResponseMessages
  <2>6. Tells(messages', n, told)
    BY <2>4, <2>5 DEF Tells
  <2>7. Closed(messages', n)
    <3>1. Dangling(messages) = {}
      BY <2>1 DEF PreparedInv
    <3>2. \A i \in 1..n : messages[i].kind = "call" => \E j \in 1..n : messages[j].of = messages[i].id
      BY <2>3, <3>1 DEF Dangling
    <3> HIDE DEF n
    <3> QED BY <2>5, <3>2 DEF Closed
  <2>8. Holds(messages', n, told)
    BY <2>5, <2>6, <2>7 DEF Holds
  <2> QED BY <2>1, <2>8, ViewStored DEF told
<1>14. CASE ContextLimit
  <2>1. sound /\ messages' = messages /\ Dangling(messages) = {}
    BY <1>1, <1>14 DEF ContextLimit, Sent, PreparedInv
  <2>2. CASE hard_compact_with /\ stored' = persisted_state'
    <3>1. Holds(messages', count', Covered(summary') \cup lost')
      BY <2>1, <2>2, HardHolds
    <3> QED BY <2>2, <3>1, ViewStored
  <2>3. CASE UNCHANGED <<count, summary, event, stored, lost>>
    BY <1>4, <2>1, <2>3
  <2> QED BY <1>14, <2>2, <2>3 DEF ContextLimit
<1>15. CASE rewind_to_message
  <2>1. PICK n \in 1..Len(messages) : /\ messages' = SubSeq(messages, 1, n)
                                      /\ sound' = (sound /\ count <= n)
    BY <1>15 DEF rewind_to_message
  <2>2. sound /\ count <= n /\ n \in 0..Len(messages)
    <3>1. sound /\ count <= n
      BY <1>1, <2>1, Zenon
    <3> QED BY <1>2, <3>1
  <2>3. Len(messages') = n /\ \A i \in 1..n : messages'[i] = messages[i]
    BY <1>2, <2>1, <2>2, FirstMessages
  <2>4. count <= Len(messages') /\ \A i \in 1..count : messages'[i] = messages[i]
    BY <1>2, <2>2, <2>3
  <2> QED BY <1>15, <2>2, <2>4, ViewKept DEF rewind_to_message, manager
<1>16. CASE undo_rewind
  <2>1. /\ messages' = undo /\ undo \in Seq(Message) /\ sound /\ count <= Len(undo)
        /\ SubSeq(undo, 1, count) = SubSeq(messages, 1, count)
    BY <1>1, <1>16 DEF undo_rewind, TypeOK
  <2>2. count \in 0..Len(undo) /\ count \in 0..Len(messages)
    BY <1>2, <1>3, <2>1
  <2>3. \A i \in 1..count : SubSeq(undo, 1, count)[i] = undo[i]
    BY <2>1, <2>2, FirstMessages
  <2>4. \A i \in 1..count : SubSeq(messages, 1, count)[i] = messages[i]
    BY <1>2, <2>2, FirstMessages
  <2>5. \A i \in 1..count : messages'[i] = messages[i]
    BY <2>1, <2>3, <2>4
  <2> QED BY <1>16, <2>1, <2>5, ViewKept DEF undo_rewind, manager
<1>17. CASE restore_session
  <2>1. messages' = messages /\ stored' = stored /\ sound /\ seed_compaction(messages, stored)
    BY <1>1, <1>17 DEF restore_session, history
  <2>2. CASE stored = None
    <3>1. count' = 0 /\ summary' = None
      BY <2>1, <2>2 DEF seed_compaction
    <3>2. stored' = persisted_state'
      BY <2>1, <2>2, <3>1 DEF persisted_state
    <3>3. Holds(messages', count', Covered(summary') \cup lost')
      BY <1>2, <2>1, <3>1 DEF Holds, Tells, Closed
    <3> QED BY <3>2, <3>3, ViewStored
  <2>3. CASE stored # None
    <3>1. /\ stored \in View /\ stored.count <= Len(messages)
          /\ stored.kind \in {"text", "native"} /\ stored.covers \in SUBSET Nat
      BY <1>3, <2>1, <2>3 DEF TypeOK, Holds, View
    <3>2. count' = stored.count /\ summary' = [kind |-> stored.kind, covers |-> stored.covers]
      BY <2>1, <2>3, <3>1 DEF seed_compaction
    <3>3. summary' # None /\ Covered(summary') = stored.covers
      BY <3>1, <3>2, SummaryType
    <3>5. persisted_state' = [count |-> stored.count, kind |-> stored.kind, covers |-> stored.covers]
      BY <3>2, <3>3 DEF persisted_state
    <3>6. stored = [count |-> stored.count, kind |-> stored.kind, covers |-> stored.covers]
      BY <3>1 DEF View
    <3>7. lost' = lost /\ stored' = persisted_state'
      BY <1>17, <2>1, <3>5, <3>6 DEF restore_session, history
    <3>8. Holds(messages', count', Covered(summary') \cup lost')
      BY <1>3, <2>1, <2>3, <3>2, <3>3, <3>7
    <3> QED BY <3>7, <3>8, ViewStored
  <2> QED BY <2>2, <2>3
<1>18. CASE clear
  <2>1. messages' = <<>> /\ stored' = None /\ count' = 0 /\ summary' = None
    BY <1>18 DEF clear, seed_compaction
  <2>2. stored' = persisted_state'
    BY <2>1 DEF persisted_state
  <2>3. Holds(messages', count', Covered(summary') \cup lost')
    BY <2>1 DEF Holds, Tells, Closed
  <2> QED BY <2>2, <2>3, ViewStored
<1> QED BY <1>6, <1>7, <1>8, <1>9, <1>10, <1>11, <1>12, <1>13, <1>14, <1>15, <1>16, <1>17, <1>18
     DEF Next
-----------------------------------------------------------------------------
(* The inductive invariant: the messages are well-formed; a request is      *)
(* prepared only when every call has its result; the pending compaction    *)
(* speaks of what it would drop; and the view of the manager and the one   *)
(* in the session each speak of their messages and part no call from its   *)
(* result.                                                                 *)
THEOREM Inductive == Spec => []IInv
<1>1. Init => IInv
  <2> SUFFICES ASSUME Init PROVE IInv
    OBVIOUS
  <2>1. TypeOK
    BY TypeInit
  <2>2. MessagesInv /\ PreparedInv /\ PendingInv
    BY DEF Init, MessagesInv, WellFormed, PreparedInv, PendingInv
  <2>3. ViewInv
    BY DEF Init, ViewInv, Holds, Tells, Closed, persisted_state
  <2> QED BY <2>1, <2>2, <2>3 DEF IInv
<1>2. IInv /\ [Next]_vars => IInv'
  <2> SUFFICES ASSUME IInv, [Next]_vars PROVE IInv'
    OBVIOUS
  <2>1. TypeOK'
    BY TypeStep DEF IInv
  <2> QED BY <2>1, MessagesStep, PreparedStep, PendingStep, ViewStep DEF IInv
<1> QED BY <1>1, <1>2, PTL DEF Spec

(* While every compaction meets the messages it summarised, a request tells *)
(* the model of every message, but of those whose encrypted content was    *)
(* dropped, and shows it no result without its call, for any number of     *)
(* messages kept, rewinds, restarts, switches of the model and responses in*)
(* which OpenAI compacts.                                                  *)
THEOREM RequestsAreComplete == Spec => []RequestIsComplete
<1>1. IInv => RequestIsComplete
  <2> SUFFICES ASSUME IInv, pc = "sent", sound
               PROVE  /\ Ids(messages)
                           \subseteq Covered(summary) \cup Ids(Active(count, messages)) \cup lost
                      /\ Unmatched(Active(count, messages), 0) = {}
    BY DEF RequestIsComplete
  <2> DEFINE covers == Covered(summary) \cup lost
  <2>1. messages \in Seq(Message) /\ ids \in Nat /\ count \in Nat /\ covers \in SUBSET Nat
    BY CoveredType DEF IInv, TypeOK
  <2>2. WellFormed(messages, ids) /\ Holds(messages, count, covers)
    BY DEF IInv, MessagesInv, ViewInv
  <2> HIDE DEF covers
  <2>3. /\ Ids(messages) \subseteq covers \cup Ids(Active(count, messages))
        /\ Unmatched(Active(count, messages), 0) = {}
    BY <2>1, <2>2, ViewIsComplete
  <2> QED BY <2>3 DEF covers
<1> QED BY <1>1, Inductive, PTL

(* Under the same condition the session stores the view of every request    *)
(* that was sent, unless an event still waits for a provider with jcode's  *)
(* compaction; and a restart with whatever view it stores misses no message*)
(* for it.                                                                 *)
THEOREM RestartsKeepTheView == Spec => []RestartKeepsView
<1>1. IInv => RestartKeepsView
  <2> SUFFICES ASSUME IInv, pc = "sent", sound
               PROVE  /\ ~event => stored = persisted_state
                      /\ stored # None =>
                           Ids(messages) \subseteq stored.covers
                                           \cup Ids(Active(stored.count, messages)) \cup lost
    BY DEF RestartKeepsView
  <2>1. ~event => stored = persisted_state
    BY DEF IInv, ViewInv
  <2>2. ASSUME stored # None
        PROVE  Ids(messages) \subseteq stored.covers \cup Ids(Active(stored.count, messages)) \cup lost
    <3> DEFINE covers == stored.covers \cup lost
    <3>1. /\ messages \in Seq(Message) /\ ids \in Nat
          /\ stored.count \in Nat /\ covers \in SUBSET Nat
      BY <2>2 DEF IInv, TypeOK, View
    <3>2. WellFormed(messages, ids) /\ Holds(messages, stored.count, covers)
      BY <2>2 DEF IInv, MessagesInv, ViewInv
    <3> HIDE DEF covers
    <3>3. Ids(messages) \subseteq covers \cup Ids(Active(stored.count, messages))
      BY <3>1, <3>2, ViewIsComplete
    <3> QED BY <3>3 DEF covers
  <2> QED BY <2>1, <2>2
<1> QED BY <1>1, Inductive, PTL
=============================================================================
