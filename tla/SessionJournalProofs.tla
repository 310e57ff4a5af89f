------------------------ MODULE SessionJournalProofs ------------------------
(***************************************************************************)
(* Proofs about SessionJournal, for any writers, limits and number of      *)
(* changes and crashes.                                                    *)
(*                                                                         *)
(* QuietDiskIsSaved needs what holds in the middle of a save: RunInv (what *)
(* each writer counts as persisted), SoleInv (one save at a time until two *)
(* overlap), WholeInv (no line is spoiled) and CleanInv (the files read    *)
(* back, and every writer counts as persisted what was saved last).        *)
(* LoadKeepsSaved holds after cut and failed saves too, where the files are *)
(* only known to have the items of the last save: KeptInv.                 *)
(***************************************************************************)
EXTENDS SessionJournal, SequenceTheorems, TLAPS

PCs == {"idle", "append", "write", "moved", "placed", "stopped"}

(* What a copy counts as persisted of a vector, while the vector has only  *)
(* grown.                                                                  *)
Base(w, v) == SubSeq(mem[w].vec[v], 1, persist[w].len[v])

Grows(w, v) == ~persist[w].full[v] /\ persist[w].len[v] <= Len(mem[w].vec[v])

(* The writers: a line is appended only to a vector that has grown, a      *)
(* client never changes a vector, the owner marks every other change.      *)
RunInv ==
    /\ \A w \in Writers : pc[w] = "append" => persist[w].exists /\ \A v \in Vectors : Grows(w, v)
    /\ \A c \in Clients : /\ pc[c] # "idle"
                          /\ Busy(c) => \A v \in Vectors : persist[c].len[v] = Len(mem[c].vec[v])
    /\ pc[Owner] = "stopped" => ~persist[Owner].exists
    /\ \A v \in Vectors : Grows(Owner, v) \/ persist[Owner].full[v]

(* Until saves overlap one writer is busy, with the save begun last. *)
SoleInv ==
    trouble # "raced" =>
        /\ \A w, q \in Writers : Busy(w) /\ Busy(q) => w = q
        /\ \A w \in Writers : Busy(w) => attempt = mem[w]
        /\ \A w \in Writers : pc[w] = "placed" => snapshot = mem[w]

(* Until a line is spoiled every line is replayed. *)
WholeInv == trouble \in {"none", "cut"} => ~journal.bad

(* What holds until a save fails, is cut off or meets another: the files   *)
(* read back as the session saved last whenever no save is under way and   *)
(* whenever a line is about to be appended, and what every writer counts   *)
(* as persisted is what was saved last.                                    *)
ReadsBack == snapshot # None /\ Loaded = saved

CleanInv ==
    trouble = "none" =>
        /\ saved = None => snapshot = None \/ pc[Owner] = "placed"
        /\ Quiet /\ saved # None => ReadsBack
        /\ \A w \in Writers : pc[w] = "append" => saved # None /\ ReadsBack
        /\ persist[Owner].exists =>
              saved # None /\ \A v \in Vectors : Grows(Owner, v) => Base(Owner, v) = saved.vec[v]
        /\ \A c \in Clients : Busy(c) =>
              saved # None /\ \A v \in Vectors : mem[c].vec[v] = saved.vec[v]

(* What a restart finds while saves may be cut off or fail, but no line was *)
(* appended to an unfinished one and no two saves overlapped.  Items are    *)
(* only added to what a load would read, until a snapshot takes its place;  *)
(* and what a busy client saves has the items of the last save and the ones *)
(* the owner counts as persisted.                                          *)
Within(s, t) == \A v \in Vectors : Items(s.vec[v]) \subseteq Items(t.vec[v])

BaseWithin(t) ==
    \A v \in Vectors : Grows(Owner, v) => Items(Base(Owner, v)) \subseteq Items(t.vec[v])

KeptInv ==
    trouble \in {"none", "cut"} =>
        /\ saved # None /\ snapshot # None => Within(saved, Loaded) \/ Within(attempt, Loaded)
        /\ saved # None /\ snapshot # None /\ pc[Owner] \notin {"stopped", "placed"} =>
              Within(saved, Loaded)
        /\ snapshot # None /\ persist[Owner].exists => BaseWithin(Loaded)
        /\ \A c \in Clients : Busy(c) =>
              /\ snapshot # None => Within(mem[c], Loaded)
              /\ pc[Owner] # "stopped" /\ saved # None => Within(saved, mem[c])
              /\ persist[Owner].exists => BaseWithin(mem[c])

(* What a file operation or a crash does to the copy of its writer: it     *)
(* keeps it, counts it as persisted or drops it.                           *)
Keeps(w) == mem'[w] = mem[w] /\ persist'[w] = persist[w]

Persists(w) == mem'[w] = mem[w] /\ persist'[w] = reset_persist_state(mem[w], TRUE)

Drops(w) == /\ mem'[w] = NewSession /\ persist'[w] = reset_persist_state(NewSession, FALSE)
            /\ pc'[w] = "stopped"

OthersKeep(w) ==
    \A q \in Writers \ {w} : mem'[q] = mem[q] /\ persist'[q] = persist[q] /\ pc'[q] = pc[q]

(* A line goes to a journal whose lines are finished. *)
Appended(w, how) ==
    /\ pc[w] = "append" /\ journal.tail = "closed"
    /\ journal' = AppendLine(journal, SessionJournalEntry(w), how)

(* What all the file operations and crashes have in common. *)
FileEffect(w) ==
    /\ OthersKeep(w)
    /\ \/ (Keeps(w) \/ Persists(w)) /\ (w = Owner => pc'[w] # "stopped")
       \/ Drops(w)
    /\ pc'[w] \in PCs \ {"append"} /\ (w # Owner => pc'[w] # "idle")
    /\ Busy(w)' => Busy(w) /\ mem'[w] = mem[w]
    /\ ~Busy(w) => snapshot' = snapshot
    /\ pc'[w] = "placed" => snapshot' = mem[w]
    /\ attempt' = attempt
    /\ trouble = "raced" => trouble' = "raced"
    /\ trouble' \in {"none", "cut"} =>
          \/ journal' = NoJournal
          \/ /\ trouble \in {"none", "cut"}
             /\ journal' = journal \/ \E how \in {"closed", "open", "torn"} : Appended(w, how)

-----------------------------------------------------------------------------
(* Sequences of items. *)

(* What a save counts as persisted and what it appends make the whole. *)
LEMMA SplitSeq ==
    ASSUME NEW s \in Seq(Nat), NEW n \in 0..Len(s)
    PROVE  SubSeq(s, 1, n) \o SubSeq(s, n + 1, Len(s)) = s
<1> DEFINE a == SubSeq(s, 1, n)
           b == SubSeq(s, n + 1, Len(s))
<1>1. a \in Seq(Nat) /\ Len(a) = n /\ \A i \in 1..n : a[i] = s[i]
  BY SubSeqProperties
<1>2. b \in Seq(Nat) /\ Len(b) = Len(s) - n /\ \A i \in 1..Len(s) - n : b[i] = s[n + i]
  BY SubSeqProperties
<1> HIDE DEF a, b
<1>3. /\ a \o b \in Seq(Nat) /\ Len(a \o b) = Len(s)
      /\ \A i \in 1..Len(s) : (a \o b)[i] = IF i <= n THEN a[i] ELSE b[i - n]
  <2>1. Len(s) \in Nat /\ Len(a) + Len(b) = Len(s)
    BY <1>1, <1>2
  <2>2. /\ a \o b \in Seq(Nat) /\ Len(a \o b) = Len(a) + Len(b)
        /\ \A i \in 1..Len(a) + Len(b) :
              (a \o b)[i] = IF i <= Len(a) THEN a[i] ELSE b[i - Len(a)]
    <3>1. a \in Seq(Nat) /\ b \in Seq(Nat)
      BY <1>1, <1>2
    <3> QED BY ONLY <3>1, ConcatProperties
  <2>3. Len(a) = n
    BY <1>1
  <2> HIDE DEF a, b
  <2> QED BY ONLY <2>1, <2>2, <2>3
<1>4. ASSUME NEW i \in 1..Len(s) PROVE (a \o b)[i] = s[i]
  <2>1. CASE i <= n
    BY <1>1, <1>3, <2>1
  <2>2. CASE ~ (i <= n)
    <3>1. i - n \in 1..Len(s) - n /\ n + (i - n) = i
      BY <2>2
    <3>2. b[i - n] = s[n + (i - n)]
      BY <1>2, <3>1
    <3> QED BY <1>3, <2>2, <3>1, <3>2
  <2> QED BY <2>1, <2>2
<1> DEFINE c == a \o b
<1> HIDE DEF c
<1>5. c = s
  BY <1>3, <1>4, SeqEqual DEF c
<1> QED BY <1>5 DEF a, b, c

(* Lines are replayed one by one or all at once. *)
LEMMA SeqAssociative ==
    ASSUME NEW a \in Seq(Nat), NEW b \in Seq(Nat), NEW c \in Seq(Nat)
    PROVE  (a \o b) \o c = a \o (b \o c)
<1>1. \A S : \A s, t, u \in Seq(S) : (s \o t) \o u = s \o (t \o u)
  BY ConcatAssociative
<1> QED BY ONLY <1>1, a \in Seq(Nat), b \in Seq(Nat), c \in Seq(Nat), SMTT(60)

(* A sequence is its own prefix. *)
LEMMA WholeSeq ==
    ASSUME NEW s \in Seq(Nat)
    PROVE  SubSeq(s, 1, Len(s)) = s
BY SubSeqFull

(* An addition leaves the prefixes alone. *)
LEMMA PrefixOfAppend ==
    ASSUME NEW s \in Seq(Nat), NEW x \in Nat, NEW n \in 0..Len(s)
    PROVE  SubSeq(Append(s, x), 1, n) = SubSeq(s, 1, n)
<1> DEFINE t == Append(s, x)
<1>1. t \in Seq(Nat) /\ Len(t) = Len(s) + 1 /\ \A i \in 1..Len(s) : t[i] = s[i]
  BY AppendProperties
<1> HIDE DEF t
<1>2. /\ SubSeq(t, 1, n) \in Seq(Nat) /\ Len(SubSeq(t, 1, n)) = n
      /\ \A i \in 1..n : SubSeq(t, 1, n)[i] = t[i]
  BY <1>1, SubSeqProperties
<1>3. /\ SubSeq(s, 1, n) \in Seq(Nat) /\ Len(SubSeq(s, 1, n)) = n
      /\ \A i \in 1..n : SubSeq(s, 1, n)[i] = s[i]
  BY SubSeqProperties
<1>4. SubSeq(t, 1, n) = SubSeq(s, 1, n)
  BY <1>1, <1>2, <1>3, SeqEqual
<1> QED BY <1>4 DEF t

(* The items of a concatenation. *)
LEMMA ItemsOfConcat ==
    ASSUME NEW s \in Seq(Nat), NEW t \in Seq(Nat)
    PROVE  Items(s \o t) = Items(s) \cup Items(t)
<1> DEFINE u == s \o t
<1>1. /\ u \in Seq(Nat) /\ Len(u) = Len(s) + Len(t)
      /\ \A i \in 1..Len(s) + Len(t) : u[i] = IF i <= Len(s) THEN s[i] ELSE t[i - Len(s)]
  BY ConcatProperties
<1> HIDE DEF u
<1>2. DOMAIN s = 1..Len(s) /\ DOMAIN t = 1..Len(t) /\ DOMAIN u = 1..Len(s) + Len(t)
  BY <1>1, LenProperties
<1>3. Len(s) \in Nat /\ Len(t) \in Nat
  BY LenProperties
<1>4. ASSUME NEW i \in DOMAIN u PROVE u[i] \in Items(s) \cup Items(t)
  <2>1. CASE i <= Len(s)
    BY <1>1, <1>2, <1>3, <2>1 DEF Items
  <2>2. CASE ~ (i <= Len(s))
    <3>1. i - Len(s) \in DOMAIN t /\ u[i] = t[i - Len(s)]
      BY <1>1, <1>2, <1>3, <2>2
    <3> QED BY <3>1 DEF Items
  <2> QED BY <2>1, <2>2
<1>5. ASSUME NEW i \in DOMAIN s PROVE s[i] \in Items(u)
  <2>1. i \in DOMAIN u /\ u[i] = s[i]
    BY <1>1, <1>2, <1>3
  <2> QED BY <2>1 DEF Items
<1>6. ASSUME NEW i \in DOMAIN t PROVE t[i] \in Items(u)
  <2>1. Len(s) + i \in DOMAIN u /\ u[Len(s) + i] = t[i]
    <3>1. Len(s) + i \in 1..Len(s) + Len(t) /\ ~ (Len(s) + i <= Len(s))
          /\ Len(s) + i - Len(s) = i
      BY <1>2, <1>3
    <3> QED BY <1>1, <1>2, <3>1
  <2> QED BY <2>1 DEF Items
<1>7. Items(u) = Items(s) \cup Items(t)
  <2>1. Items(u) \subseteq Items(s) \cup Items(t)
    BY <1>4 DEF Items
  <2>2. Items(s) \subseteq Items(u)
    BY <1>5 DEF Items
  <2>3. Items(t) \subseteq Items(u)
    BY <1>6 DEF Items
  <2> QED BY <2>1, <2>2, <2>3
<1> QED BY <1>7 DEF u

-----------------------------------------------------------------------------
(* Types. *)

(* The worse of two troubles. *)
LEMMA WorseTrouble ==
    ASSUME trouble \in DOMAIN Troubles
    PROVE  /\ Worse("cut") = IF trouble = "none" THEN "cut" ELSE trouble
           /\ Worse("spoiled") = IF trouble = "raced" THEN "raced" ELSE "spoiled"
           /\ DOMAIN Troubles = {"none", "cut", "spoiled", "raced"}
BY DEF Worse, Troubles

(* A persist state that counts everything as persisted. *)
LEMMA ResetState ==
    ASSUME NEW s \in Session, NEW e \in BOOLEAN
    PROVE  /\ reset_persist_state(s, e) \in SessionPersistState
           /\ reset_persist_state(s, e).exists = e
           /\ \A v \in Vectors : /\ reset_persist_state(s, e).len[v] = Len(s.vec[v])
                                 /\ reset_persist_state(s, e).full[v] = FALSE
<1>1. \A v \in Vectors : Len(s.vec[v]) \in Nat
  <2>1. \A v \in Vectors : s.vec[v] \in Seq(Nat)
    BY DEF Session
  <2> QED BY <2>1, LenProperties
<1>2. s.meta.hard \in Nat
  BY DEF Session, Meta
<1> QED BY <1>1, <1>2 DEF reset_persist_state, SessionPersistState

(* The empty session, line and journal. *)
LEMMA EmptyTypes == NewSession \in Session /\ NoLines \in Replay /\ NoJournal \in Journal
<1>1. NoItems \in [Vectors -> Seq(Nat)]
  BY DEF NoItems
<1>2. NewSession \in Session
  BY <1>1 DEF NewSession, Session, Meta
<1>3. NoLines \in Replay
  BY <1>1 DEF NoLines, Replay
<1> QED BY <1>2, <1>3 DEF NoJournal, Journal

(* What a load reads is a session. *)
LEMMA LoadedType ==
    ASSUME TypeOK, snapshot # None
    PROVE  /\ Loaded \in Session
           /\ \A v \in Vectors : /\ snapshot.vec[v] \in Seq(Nat)
                                 /\ journal.replay.vec[v] \in Seq(Nat)
                                 /\ Loaded.vec[v] = snapshot.vec[v] \o journal.replay.vec[v]
<1>1. snapshot \in Session /\ journal.replay \in Replay
  BY DEF TypeOK, Journal
<1>2. /\ snapshot.vec \in [Vectors -> Seq(Nat)] /\ snapshot.meta \in Meta
      /\ journal.replay.vec \in [Vectors -> Seq(Nat)] /\ journal.replay.meta \in Meta \cup {None}
  BY <1>1 DEF Session, Replay
<1>3. \A v \in Vectors : snapshot.vec[v] \o journal.replay.vec[v] \in Seq(Nat)
  BY <1>2, ConcatProperties
<1>4. /\ Loaded.vec = [v \in Vectors |-> snapshot.vec[v] \o journal.replay.vec[v]]
      /\ Loaded.meta \in Meta
  BY <1>2 DEF Loaded
<1>5. Loaded \in Session
  BY <1>3, <1>4 DEF Loaded, Session
<1> QED BY <1>2, <1>4, <1>5

(* What a load reads is a session, in every state with a snapshot. *)
LEMMA LoadedSession == TypeOK /\ snapshot # None => Loaded \in Session
BY LoadedType

(* The line that a save appends. *)
LEMMA EntryType ==
    ASSUME TypeOK, NEW w \in Writers
    PROVE  /\ SessionJournalEntry(w) \in Replay
           /\ SessionJournalEntry(w).meta = mem[w].meta
           /\ \A v \in Vectors : SessionJournalEntry(w).vec[v] =
                  SubSeq(mem[w].vec[v], persist[w].len[v] + 1, Len(mem[w].vec[v]))
<1>1. mem[w] \in Session /\ persist[w] \in SessionPersistState
  BY DEF TypeOK
<1>2. /\ \A v \in Vectors : mem[w].vec[v] \in Seq(Nat) /\ persist[w].len[v] \in Nat
      /\ mem[w].meta \in Meta
  BY <1>1 DEF Session, SessionPersistState
<1>3. ASSUME NEW v \in Vectors
      PROVE  SubSeq(mem[w].vec[v], persist[w].len[v] + 1, Len(mem[w].vec[v])) \in Seq(Nat)
  <2>1. mem[w].vec[v] \in Seq(Nat) /\ persist[w].len[v] + 1 \in Int /\ Len(mem[w].vec[v]) \in Int
    BY <1>2, LenProperties
  <2>2. \A i \in persist[w].len[v] + 1 .. Len(mem[w].vec[v]) : mem[w].vec[v][i] \in Nat
    <3>1. \A i \in 1..Len(mem[w].vec[v]) : mem[w].vec[v][i] \in Nat
      BY <2>1, LenProperties
    <3> QED BY <1>2, <3>1, <2>1
  <2> QED BY <2>1, <2>2, SubSeqProperties
<1> QED BY <1>2, <1>3 DEF SessionJournalEntry, Replay

(* The journal behind a line. *)
LEMMA AppendLineType ==
    ASSUME NEW j \in Journal, NEW e \in Replay, NEW how \in {"closed", "open", "torn"}
    PROVE  AppendLine(j, e, how) \in Journal
<1>1. /\ j.size \in Nat /\ j.replay \in Replay /\ j.before \in Replay
      /\ j.tail \in {"closed", "open", "torn"} /\ j.bad \in BOOLEAN
  BY DEF Journal
<1>2. ASSUME NEW r \in Replay PROVE Replayed(r, e) \in Replay
  <2>1. \A v \in Vectors : r.vec[v] \in Seq(Nat) /\ e.vec[v] \in Seq(Nat)
    BY DEF Replay
  <2>2. \A v \in Vectors : r.vec[v] \o e.vec[v] \in Seq(Nat)
    BY <2>1, ConcatProperties
  <2> QED BY <2>2 DEF Replayed, Replay
<1> DEFINE spoils == j.tail # "closed"
           kept == IF spoils THEN j.before ELSE j.replay
           counts == ~spoils /\ ~j.bad /\ how # "torn"
           size == IF j.size > JournalLimit THEN j.size ELSE j.size + 1
           replay == IF counts THEN Replayed(kept, e) ELSE kept
           tail == IF how = "closed" THEN "closed" ELSE IF counts THEN "open" ELSE "torn"
           bad == j.bad \/ (spoils /\ (how = "closed" \/ j.tail = "open"))
<1>3. AppendLine(j, e, how) = [size |-> size, replay |-> replay, before |-> kept,
                                tail |-> tail, bad |-> bad]
  BY DEF AppendLine
<1>4. kept \in Replay /\ size \in Nat
  BY <1>1, LimitAssumption
<1>5. replay \in Replay
  BY <1>2, <1>4
<1>6. tail \in {"closed", "open", "torn"}
  OBVIOUS
<1>7. bad \in BOOLEAN
  BY Zenon
<1> HIDE DEF size, replay, kept, tail, bad
<1> QED BY <1>3, <1>4, <1>5, <1>6, <1>7 DEF Journal

(* A writer that moves on stays well typed. *)
LEMMA GotoType ==
    ASSUME TypeOK, NEW w \in Writers, NEW p \in PCs, NEW s \in Session,
           NEW ps \in SessionPersistState, Goto(w, p, s, ps)
    PROVE  /\ mem' \in [Writers -> Session] /\ persist' \in [Writers -> SessionPersistState]
           /\ pc' \in [Writers -> PCs]
           /\ mem'[w] = s /\ persist'[w] = ps /\ pc'[w] = p
           /\ \A q \in Writers \ {w} : mem'[q] = mem[q] /\ persist'[q] = persist[q]
                                       /\ pc'[q] = pc[q]
BY DEF TypeOK, Goto, PCs

(* So does one that stops. *)
LEMMA StopType ==
    ASSUME TypeOK, NEW w \in Writers, Stop(w)
    PROVE  /\ mem' \in [Writers -> Session] /\ persist' \in [Writers -> SessionPersistState]
           /\ pc' \in [Writers -> PCs]
           /\ mem'[w] = NewSession /\ persist'[w] = reset_persist_state(NewSession, FALSE)
           /\ pc'[w] = "stopped"
           /\ \A q \in Writers \ {w} : mem'[q] = mem[q] /\ persist'[q] = persist[q]
                                       /\ pc'[q] = pc[q]
<1> DEFINE s == NewSession
           ps == reset_persist_state(NewSession, FALSE)
<1>1. s \in Session /\ ps \in SessionPersistState
  BY EmptyTypes, ResetState
<1>2. Goto(w, "stopped", s, ps) /\ "stopped" \in PCs
  BY DEF Stop, PCs
<1> HIDE DEF s, ps
<1>3. /\ mem' \in [Writers -> Session] /\ persist' \in [Writers -> SessionPersistState]
      /\ pc' \in [Writers -> PCs]
      /\ mem'[w] = s /\ persist'[w] = ps /\ pc'[w] = "stopped"
      /\ \A q \in Writers \ {w} : mem'[q] = mem[q] /\ persist'[q] = persist[q]
                                  /\ pc'[q] = pc[q]
  BY <1>1, <1>2, GotoType
<1> QED BY <1>3 DEF s, ps

(* So does one that returns from save. *)
LEMMA ReturnType ==
    ASSUME TypeOK, NEW w \in Writers, NEW ps \in SessionPersistState, Return(w, ps)
    PROVE  /\ mem' \in [Writers -> Session] /\ persist' \in [Writers -> SessionPersistState]
           /\ pc' \in [Writers -> PCs]
           /\ w = Owner => mem'[w] = mem[w] /\ persist'[w] = ps /\ pc'[w] = "idle"
           /\ w # Owner => /\ mem'[w] = NewSession /\ pc'[w] = "stopped"
                           /\ persist'[w] = reset_persist_state(NewSession, FALSE)
           /\ \A q \in Writers \ {w} : mem'[q] = mem[q] /\ persist'[q] = persist[q]
                                       /\ pc'[q] = pc[q]
<1>1. CASE w = Owner
  <2>1. Goto(w, "idle", mem[w], ps) /\ "idle" \in PCs /\ mem[w] \in Session
    BY <1>1 DEF Return, PCs, TypeOK
  <2> QED BY <1>1, <2>1, GotoType
<1>2. CASE w # Owner
  <2>1. Stop(w)
    BY <1>2 DEF Return
  <2> QED BY <1>2, <2>1, StopType
<1> QED BY <1>1, <1>2

(* The parts of a copy. *)
LEMMA CopyType ==
    ASSUME TypeOK, NEW w \in Writers
    PROVE  /\ mem[w] \in Session /\ persist[w] \in SessionPersistState /\ pc[w] \in PCs
           /\ mem[w].meta \in Meta /\ persist[w].exists \in BOOLEAN
           /\ \A v \in Vectors : /\ mem[w].vec[v] \in Seq(Nat) /\ Len(mem[w].vec[v]) \in Nat
                                 /\ persist[w].len[v] \in Nat /\ persist[w].full[v] \in BOOLEAN
<1>1. mem[w] \in Session /\ persist[w] \in SessionPersistState /\ pc[w] \in PCs
  BY DEF TypeOK, PCs
<1>2. \A v \in Vectors : mem[w].vec[v] \in Seq(Nat)
  BY <1>1 DEF Session
<1>3. \A v \in Vectors : Len(mem[w].vec[v]) \in Nat
  BY <1>2, LenProperties
<1> QED BY <1>1, <1>2, <1>3 DEF Session, SessionPersistState

(* What a change of one vector does to the copy of the owner. *)
LEMMA ChangeEffect ==
    ASSUME TypeOK, NEW v \in Vectors, NEW s \in Seq(Nat), NEW full \in BOOLEAN,
           Change(v, s, full)
    PROVE  /\ mem' \in [Writers -> Session] /\ persist' \in [Writers -> SessionPersistState]
           /\ mem'[Owner].vec[v] = s
           /\ persist'[Owner].full[v] = (persist[Owner].full[v] \/ full)
           /\ persist'[Owner].len = persist[Owner].len
           /\ persist'[Owner].exists = persist[Owner].exists
           /\ \A u \in Vectors \ {v} : /\ mem'[Owner].vec[u] = mem[Owner].vec[u]
                                       /\ persist'[Owner].full[u] = persist[Owner].full[u]
           /\ \A q \in Writers \ {Owner} : mem'[q] = mem[q] /\ persist'[q] = persist[q]
           /\ pc[Owner] = "idle"
           /\ UNCHANGED <<pc, snapshot, journal, crashes, saved, attempt, trouble>>
<1> DEFINE m == mem[Owner]
           p == persist[Owner]
           f == p.full[v] \/ full
           m2 == [m EXCEPT !.vec[v] = s]
           p2 == [p EXCEPT !.full[v] = f]
<1>0. Owner \in Writers
  BY DEF Writers
<1>1. m \in Session /\ p \in SessionPersistState
  BY <1>0, CopyType
<1>2. f \in BOOLEAN
  BY Zenon
<1>3. mem' = [mem EXCEPT ![Owner] = m2] /\ persist' = [persist EXCEPT ![Owner] = p2]
  BY DEF Change
<1>4. mem \in [Writers -> Session] /\ persist \in [Writers -> SessionPersistState]
  BY DEF TypeOK
<1> HIDE DEF f, m, p
<1>5. /\ m2 \in Session /\ m2.vec[v] = s
      /\ \A u \in Vectors \ {v} : m2.vec[u] = m.vec[u]
  BY <1>1 DEF Session
<1>6. p2 \in SessionPersistState /\ p2.len = p.len /\ p2.exists = p.exists
  BY <1>1, <1>2 DEF SessionPersistState
<1>7. p2.full[v] = f /\ \A u \in Vectors \ {v} : p2.full[u] = p.full[u]
  BY <1>1 DEF SessionPersistState
<1> HIDE DEF m2, p2
<1>8. /\ mem' \in [Writers -> Session] /\ persist' \in [Writers -> SessionPersistState]
      /\ mem'[Owner] = m2 /\ persist'[Owner] = p2
      /\ \A q \in Writers \ {Owner} : mem'[q] = mem[q] /\ persist'[q] = persist[q]
  BY <1>0, <1>3, <1>4, <1>5, <1>6
<1>9. pc[Owner] = "idle" /\ UNCHANGED <<pc, snapshot, journal, crashes, saved, attempt, trouble>>
  BY DEF Change, disk
<1>10. persist'[Owner].full[v] = (persist[Owner].full[v] \/ full)
  BY <1>7, <1>8 DEF f, p
<1>11. /\ mem'[Owner].vec[v] = s
       /\ persist'[Owner].len = persist[Owner].len
       /\ persist'[Owner].exists = persist[Owner].exists
       /\ \A u \in Vectors \ {v} : /\ mem'[Owner].vec[u] = mem[Owner].vec[u]
                                   /\ persist'[Owner].full[u] = persist[Owner].full[u]
  BY <1>5, <1>6, <1>7, <1>8 DEF m, p
<1> QED BY <1>8, <1>9, <1>10, <1>11, Zenon

(* The four changes of a vector: each appends a new value or asks for a     *)
(* snapshot.                                                               *)
Appends(v) ==
    /\ Change(v, Append(mem[Owner].vec[v], changes'), FALSE)
    /\ changes' \in Nat

Rewrites(v, s) == Change(v, s, TRUE) /\ changes' \in Nat

(* The mutations of session.rs are of these kinds, or set metadata. *)
LEMMA Mutations ==
    ASSUME TypeOK, Mutate
    PROVE  \/ \E v \in Vectors : Appends(v)
           \/ \E v \in Vectors, s \in Seq(Nat) : Rewrites(v, s)
           \/ \E field \in {"hard", "soft"} : SetMeta(field)
<1> DEFINE ms == mem[Owner].vec["messages"]
           es == mem[Owner].vec["env_snapshots"]
<1>1. ms \in Seq(Nat) /\ es \in Seq(Nat) /\ changes \in Nat
  <2>1. Owner \in Writers /\ "messages" \in Vectors /\ "env_snapshots" \in Vectors
    BY DEF Writers, Vectors
  <2> QED BY <2>1, CopyType DEF TypeOK
<1> HIDE DEF ms, es
<1>2. CASE append_stored_message
  <2>1. changes' \in Nat
    BY <1>1, <1>2 DEF append_stored_message, NewValue
  <2>2. Change("messages", Append(mem[Owner].vec["messages"], changes'), FALSE)
    BY <1>2, Zenon DEF append_stored_message
  <2>3. Appends("messages") /\ "messages" \in Vectors
    BY <2>1, <2>2, Zenon DEF Appends, Vectors
  <2> QED BY <2>3
<1>3. CASE insert_message
  <2>0. changes' \in Nat
    BY <1>1, <1>3 DEF insert_message, NewValue
  <2>1. changes' \in Nat /\ Change("messages", <<changes'>> \o ms, TRUE)
    BY <2>0, <1>3, Zenon DEF insert_message, ms
  <2>2. <<changes'>> \o ms \in Seq(Nat)
    BY <1>1, <2>1, ConcatProperties
  <2>3. Rewrites("messages", <<changes'>> \o ms) /\ "messages" \in Vectors
    BY <2>1 DEF Rewrites, Vectors
  <2> QED BY <2>2, <2>3
<1>4. CASE \E len \in 0..MaxChanges : truncate_messages(len)
  <2>1. PICK len \in 0..MaxChanges : truncate_messages(len)
    BY <1>4
  <2>2. /\ Change("messages", SubSeq(ms, 1, len), TRUE) /\ changes' \in Nat
        /\ len < Len(ms) /\ len \in Nat
    <3>1. changes' \in Nat /\ len < Len(ms) /\ len \in Nat
      BY <1>1, <2>1, BoundsAssumption DEF truncate_messages, ms
    <3>2. Change("messages", SubSeq(ms, 1, len), TRUE)
      BY <2>1, Zenon DEF truncate_messages, ms
    <3> QED BY <3>1, <3>2, Zenon
  <2>3. SubSeq(ms, 1, len) \in Seq(Nat)
    <3>1. \A i \in 1..len : ms[i] \in Nat
      BY <1>1, <2>2, LenProperties
    <3> QED BY <2>2, <3>1, SubSeqProperties
  <2>4. Rewrites("messages", SubSeq(ms, 1, len)) /\ "messages" \in Vectors
    BY <2>2 DEF Rewrites, Vectors
  <2> QED BY <2>3, <2>4
<1>5. CASE record_env_snapshot
  <2> DEFINE grown == Append(es, changes')
             excess == Len(grown) - MaxEnvSnapshots
             kept == SubSeq(grown, excess + 1, Len(grown))
  <2>1. /\ changes' \in Nat
        /\ IF excess > 0 THEN Change("env_snapshots", kept, TRUE)
                         ELSE Change("env_snapshots", grown, FALSE)
    <3>1. changes' \in Nat
      BY <1>1, <1>5 DEF record_env_snapshot, NewValue
    <3>2. IF excess > 0 THEN Change("env_snapshots", kept, TRUE)
                        ELSE Change("env_snapshots", grown, FALSE)
      BY <1>5, Zenon DEF record_env_snapshot, es
    <3> QED BY <3>1, <3>2, Zenon
  <2>2. grown \in Seq(Nat)
    BY <1>1, <2>1, AppendProperties
  <2>3. CASE excess > 0
    <3>1. \A i \in excess + 1 .. Len(grown) : grown[i] \in Nat
      <4> HIDE DEF grown
      <4> QED BY <2>2, <2>3, LenProperties, LimitAssumption
    <3>2. Len(grown) \in Int /\ excess + 1 \in Int
      <4> HIDE DEF grown
      <4> QED BY <2>2, LenProperties, LimitAssumption
    <3>3. kept \in Seq(Nat)
      <4> HIDE DEF grown, excess
      <4> QED BY <3>1, <3>2, SubSeqProperties
    <3>4. Rewrites("env_snapshots", kept) /\ "env_snapshots" \in Vectors
      <4> HIDE DEF kept
      <4> QED BY <2>1, <2>3 DEF Rewrites, Vectors
    <3> QED BY <3>3, <3>4
  <2>4. CASE ~ (excess > 0)
    <3>1. Appends("env_snapshots") /\ "env_snapshots" \in Vectors
      BY <2>1, <2>4 DEF Appends, Vectors, es
    <3> QED BY <3>1
  <2> QED BY <2>3, <2>4
<1>6. CASE \E field \in {"hard", "soft"} : SetMeta(field)
  BY <1>6
<1> QED BY <1>2, <1>3, <1>4, <1>5, <1>6 DEF Mutate

(* A session that the metadata of one field was set in. *)
LEMMA MetaType ==
    ASSUME NEW s \in Session, NEW field \in {"hard", "soft"}, NEW x \in Nat
    PROVE  [s EXCEPT !.meta[field] = x] \in Session
           /\ [s EXCEPT !.meta[field] = x].vec = s.vec
BY DEF Session, Meta

(* The start of a save. *)
LEMMA BeginEffect ==
    ASSUME TypeOK, NEW w \in Writers, NEW s \in Session, NEW ps \in SessionPersistState,
           Begin(w, s, ps)
    PROVE  /\ mem' \in [Writers -> Session] /\ persist' \in [Writers -> SessionPersistState]
           /\ pc' \in [Writers -> PCs]
           /\ mem'[w] = s /\ persist'[w] = ps
           /\ pc'[w] = IF NeedsSnapshot(s, ps) THEN "write" ELSE "append"
           /\ \A q \in Writers \ {w} : mem'[q] = mem[q] /\ persist'[q] = persist[q]
                                       /\ pc'[q] = pc[q]
           /\ attempt' = s
           /\ trouble' = IF \E q \in Writers \ {w} : Busy(q) THEN "raced" ELSE trouble
           /\ UNCHANGED <<snapshot, journal, crashes, saved>>
<1> DEFINE p == IF NeedsSnapshot(s, ps) THEN "write" ELSE "append"
<1>1. p \in PCs /\ Goto(w, p, s, ps)
  BY DEF Begin, PCs
<1> HIDE DEF p
<1>2. /\ mem' \in [Writers -> Session] /\ persist' \in [Writers -> SessionPersistState]
      /\ pc' \in [Writers -> PCs]
      /\ mem'[w] = s /\ persist'[w] = ps /\ pc'[w] = p
      /\ \A q \in Writers \ {w} : mem'[q] = mem[q] /\ persist'[q] = persist[q]
                                  /\ pc'[q] = pc[q]
  BY <1>1, GotoType
<1>3. /\ attempt' = s
      /\ trouble' = IF \E q \in Writers \ {w} : Busy(q) THEN "raced" ELSE trouble
      /\ UNCHANGED <<snapshot, journal, crashes, saved>>
  BY DEF Begin, disk
<1>4. pc'[w] = IF NeedsSnapshot(s, ps) THEN "write" ELSE "append"
  BY <1>2 DEF p
<1> QED BY <1>2, <1>3, <1>4

(* Every change, file operation and crash keeps the state well typed. *)
LEMMA TypeStep == TypeOK /\ [Next]_vars => TypeOK'
<1> SUFFICES ASSUME TypeOK, [Next]_vars PROVE TypeOK'
  OBVIOUS
<1> DEFINE Copies == /\ mem' \in [Writers -> Session]
                     /\ persist' \in [Writers -> SessionPersistState]
                     /\ pc' \in [Writers -> PCs]
           Files == snapshot' \in Session \cup {None} /\ journal' \in Journal
           Counts == changes' \in Nat /\ crashes' \in Nat
           Histories == /\ saved' \in Session \cup {None} /\ attempt' \in Session \cup {None}
                        /\ trouble' \in {"none", "cut", "spoiled", "raced"}
<1>0. /\ mem \in [Writers -> Session] /\ persist \in [Writers -> SessionPersistState]
      /\ pc \in [Writers -> PCs]
      /\ snapshot \in Session \cup {None} /\ journal \in Journal
      /\ changes \in Nat /\ crashes \in Nat
      /\ saved \in Session \cup {None} /\ attempt \in Session \cup {None}
      /\ trouble \in {"none", "cut", "spoiled", "raced"} /\ Owner \in Writers
  BY WorseTrouble DEF TypeOK, PCs, Writers
<1>w. /\ Worse("cut") \in {"none", "cut", "spoiled", "raced"}
      /\ Worse("spoiled") \in {"none", "cut", "spoiled", "raced"}
  BY <1>0, WorseTrouble DEF TypeOK
<1>q. ASSUME Copies, Files, Counts, Histories PROVE TypeOK'
  <2>1. trouble' \in DOMAIN Troubles
    BY <1>q, WorseTrouble DEF TypeOK
  <2> QED BY <1>q, <2>1, Zenon DEF TypeOK, PCs
<1>1. CASE Mutate
  <2>1. ASSUME NEW v \in Vectors, Appends(v) PROVE TypeOK'
    <3>1. Append(mem[Owner].vec[v], changes') \in Seq(Nat) /\ changes' \in Nat
      <4>1. mem[Owner].vec[v] \in Seq(Nat) /\ changes' \in Nat
        BY <2>1, <1>0, CopyType DEF Appends
      <4> QED BY <4>1, AppendProperties
    <3>2. Change(v, Append(mem[Owner].vec[v], changes'), FALSE)
      BY <2>1, Zenon DEF Appends
    <3> DEFINE s == Append(mem[Owner].vec[v], changes')
    <3> HIDE DEF s
    <3>3. Change(v, s, FALSE) /\ s \in Seq(Nat)
      BY <3>1, <3>2, Zenon DEF s
    <3>4. /\ mem' \in [Writers -> Session] /\ persist' \in [Writers -> SessionPersistState]
          /\ UNCHANGED <<pc, snapshot, journal, crashes, saved, attempt, trouble>>
      BY <3>3, ChangeEffect
    <3> QED BY <1>0, <1>q, <3>1, <3>4
  <2>2. ASSUME NEW v \in Vectors, NEW s \in Seq(Nat), Rewrites(v, s) PROVE TypeOK'
    <3>1. Change(v, s, TRUE)
      BY <2>2, Zenon DEF Rewrites
    <3>2. /\ mem' \in [Writers -> Session] /\ persist' \in [Writers -> SessionPersistState]
          /\ UNCHANGED <<pc, snapshot, journal, crashes, saved, attempt, trouble>>
      BY <3>1, ChangeEffect
    <3> QED BY <1>0, <1>q, <2>2, <3>2 DEF Rewrites
  <2>3. ASSUME NEW field \in {"hard", "soft"}, SetMeta(field) PROVE TypeOK'
    <3> DEFINE s == [mem[Owner] EXCEPT !.meta[field] = changes']
    <3>1. changes' \in Nat /\ mem' = [mem EXCEPT ![Owner] = s]
      BY <1>0, <2>3 DEF SetMeta, NewValue
    <3>2. s \in Session
      BY <1>0, <3>1, MetaType
    <3> HIDE DEF s
    <3>3. mem' \in [Writers -> Session]
      BY <1>0, <3>1, <3>2
    <3>4. UNCHANGED <<persist, pc, snapshot, journal, crashes, saved, attempt, trouble>>
      BY <2>3 DEF SetMeta, disk
    <3> QED BY <1>0, <1>q, <3>1, <3>3, <3>4
  <2> QED BY <1>1, <2>1, <2>2, <2>3, Mutations
<1>2. CASE save
  <2>1. Begin(Owner, mem[Owner], persist[Owner]) /\ UNCHANGED changes
    BY <1>2 DEF save
  <2>2. mem[Owner] \in Session /\ persist[Owner] \in SessionPersistState
    BY <1>0
  <2>3. /\ Copies /\ attempt' = mem[Owner] /\ trouble' \in {trouble, "raced"}
        /\ UNCHANGED <<snapshot, journal, crashes, saved>>
    BY <1>0, <2>1, <2>2, BeginEffect
  <2> QED BY <1>0, <1>q, <2>1, <2>2, <2>3
<1>3. CASE load
  <2>1. Loaded \in Session
    BY <1>3, LoadedType DEF load
  <2>2. reset_persist_state(Loaded, TRUE) \in SessionPersistState
    BY <2>1, ResetState
  <2>3. Goto(Owner, "idle", Loaded, reset_persist_state(Loaded, TRUE)) /\ "idle" \in PCs
    BY <1>3 DEF load, PCs
  <2>4. Copies
    BY <1>0, <2>1, <2>2, <2>3, GotoType
  <2>5. /\ saved' = Loaded /\ attempt' = Loaded /\ trouble' \in {"raced", "spoiled", "none"}
        /\ UNCHANGED <<snapshot, journal, changes, crashes>>
    BY <1>3 DEF load, disk, bounds
  <2> QED BY <1>0, <1>q, <2>1, <2>4, <2>5
<1>4. ASSUME NEW c \in Clients, NEW field \in {"hard", "soft"},
             persist_remote_session_metadata(c, field)
      PROVE  TypeOK'
  <2> DEFINE s == [Loaded EXCEPT !.meta[field] = changes']
             ps == reset_persist_state(Loaded, TRUE)
  <2>0. c \in Writers /\ changes' \in Nat /\ snapshot # None
    BY <1>0, <1>4 DEF persist_remote_session_metadata, NewValue, Writers
  <2>1. Begin(c, s, ps) /\ c \in Writers /\ changes' \in Nat /\ snapshot # None
    BY <1>4, <2>0, Zenon DEF persist_remote_session_metadata
  <2>2. s \in Session /\ ps \in SessionPersistState
    BY <2>1, LoadedType, ResetState, MetaType
  <2> HIDE DEF s, ps
  <2>3. /\ Copies /\ attempt' = s /\ trouble' \in {trouble, "raced"}
        /\ UNCHANGED <<snapshot, journal, crashes, saved>>
    BY <2>1, <2>2, BeginEffect
  <2> QED BY <1>0, <1>q, <2>1, <2>2, <2>3
<1>5. ASSUME NEW w \in Writers PROVE FileStep(w) \/ Crash(w) => TypeOK'
  <2>0. /\ mem[w] \in Session /\ persist[w] \in SessionPersistState
        /\ reset_persist_state(mem[w], TRUE) \in SessionPersistState
        /\ "write" \in PCs /\ "moved" \in PCs /\ "placed" \in PCs
        /\ SessionJournalEntry(w) \in Replay
    BY <1>0, ResetState, EntryType DEF PCs
  <2>l. \A how \in {"closed", "open", "torn"} :
           AppendLine(journal, SessionJournalEntry(w), how) \in Journal
    BY <1>0, <2>0, AppendLineType
  <2>1. CASE append_json_line_fast(w)
    <3>1. /\ journal' \in Journal /\ saved' = mem[w]
          /\ trouble' \in {trouble, Worse("spoiled")}
          /\ UNCHANGED <<snapshot, changes, crashes, attempt>>
          /\ \/ Goto(w, "write", mem[w], reset_persist_state(mem[w], TRUE))
             \/ Return(w, reset_persist_state(mem[w], TRUE))
      BY <2>1, <2>l DEF append_json_line_fast, bounds
    <3>2. Copies
      BY <2>0, <3>1, GotoType, ReturnType
    <3> QED BY <1>0, <1>w, <1>q, <2>0, <3>1, <3>2
  <2>2. CASE AppendFails(w)
    <3>1. /\ journal' \in Journal
          /\ trouble' \in {Worse("cut"), Worse("spoiled")}
          /\ UNCHANGED <<snapshot, changes, crashes, saved, attempt>>
          /\ Goto(w, "write", mem[w], persist[w])
      BY <1>0, <2>2, <2>l DEF AppendFails, bounds
    <3>2. Copies
      BY <2>0, <3>1, GotoType
    <3> QED BY <1>0, <1>w, <1>q, <3>1, <3>2
  <2>3. CASE RenameToBackup(w)
    <3>1. /\ snapshot' \in Session \cup {None}
          /\ UNCHANGED <<journal, changes, crashes, saved, attempt, trouble>>
          /\ Goto(w, "moved", mem[w], persist[w])
      BY <1>0, <2>3 DEF RenameToBackup, bounds
    <3>2. Copies
      BY <2>0, <3>1, GotoType
    <3> QED BY <1>0, <1>q, <3>1, <3>2
  <2>4. CASE RenameIntoPlace(w)
    <3>1. /\ snapshot' = mem[w]
          /\ UNCHANGED <<journal, changes, crashes, saved, attempt, trouble>>
          /\ Goto(w, "placed", mem[w], persist[w])
      BY <2>4 DEF RenameIntoPlace, bounds
    <3>2. Copies
      BY <2>0, <3>1, GotoType
    <3> QED BY <1>0, <1>q, <2>0, <3>1, <3>2
  <2>5. CASE RemoveJournal(w)
    <3>1. /\ journal' \in {journal, NoJournal} /\ saved' = mem[w]
          /\ trouble' \in {trouble, "none", Worse("cut")}
          /\ UNCHANGED <<snapshot, changes, crashes, attempt>>
          /\ Return(w, reset_persist_state(mem[w], TRUE))
      BY <2>5 DEF RemoveJournal, bounds
    <3>2. Copies
      BY <2>0, <3>1, ReturnType
    <3>3. journal' \in Journal
      BY <1>0, <3>1, EmptyTypes
    <3> QED BY <1>0, <1>w, <1>q, <2>0, <3>1, <3>2, <3>3
  <2>6. CASE CheckpointFails(w)
    <3>1. /\ trouble' = Worse("cut") /\ Return(w, persist[w])
          /\ UNCHANGED <<snapshot, journal, changes, crashes, saved, attempt>>
      BY <2>6 DEF CheckpointFails, bounds, disk
    <3>2. Copies
      BY <2>0, <3>1, ReturnType
    <3> QED BY <1>0, <1>w, <1>q, <3>1, <3>2
  <2>7. CASE Crash(w)
    <3>1. /\ journal' \in Journal /\ crashes' \in Nat
          /\ trouble' \in {trouble, Worse("cut"), Worse("spoiled")}
          /\ UNCHANGED <<snapshot, changes, saved, attempt>>
          /\ Stop(w)
      BY <1>0, <2>7, <2>l DEF Crash
    <3>2. Copies
      BY <3>1, StopType
    <3> QED BY <1>0, <1>w, <1>q, <3>1, <3>2
  <2> QED BY <2>1, <2>2, <2>3, <2>4, <2>5, <2>6, <2>7 DEF FileStep
<1>6. CASE UNCHANGED vars
  BY <1>0, <1>6, <1>q DEF vars
<1> HIDE DEF Copies, Files, Counts, Histories
<1> QED BY <1>1, <1>2, <1>3, <1>4, <1>5, <1>6 DEF Next, Edit

(* The type invariant of the writers, the files and the histories: what    *)
(* the files hold reads back as a session after any sequence of changes,   *)
(* failed writes and crashes.                                              *)
THEOREM TypeCorrect == Spec => []TypeOK
<1>1. Init => TypeOK
  <2> SUFFICES ASSUME Init PROVE TypeOK
    OBVIOUS
  <2>1. /\ NewSession \in Session /\ NoJournal \in Journal
        /\ reset_persist_state(NewSession, FALSE) \in SessionPersistState
    BY EmptyTypes, ResetState
  <2>2. mem \in [Writers -> Session] /\ persist \in [Writers -> SessionPersistState]
    BY <2>1 DEF Init
  <2>3. trouble \in DOMAIN Troubles
    BY DEF Init, Troubles
  <2> QED BY <2>1, <2>2, <2>3 DEF Init, TypeOK
<1> QED BY <1>1, TypeStep, PTL DEF Spec

-----------------------------------------------------------------------------
(* What the steps do to the copies and to what a load would read. *)

(* Two sessions with the same parts are the same. *)
LEMMA SessionEqual ==
    ASSUME NEW s \in Session, NEW t \in Session, s.meta = t.meta,
           \A v \in Vectors : s.vec[v] = t.vec[v]
    PROVE  s = t
<1>1. s.vec \in [Vectors -> Seq(Nat)] /\ t.vec \in [Vectors -> Seq(Nat)]
  BY DEF Session
<1>2. s.vec = t.vec
  BY <1>1
<1> QED BY <1>2 DEF Session

(* A writer whose persist state was reset. *)
LEMMA FreshBase ==
    ASSUME NEW w \in Writers, NEW s \in Session, NEW e \in BOOLEAN,
           mem'[w] = s, persist'[w] = reset_persist_state(s, e)
    PROVE  /\ persist'[w].exists = e
           /\ \A v \in Vectors : /\ Grows(w, v)' /\ Base(w, v)' = s.vec[v]
                                 /\ persist'[w].len[v] = Len(mem'[w].vec[v])
<1>1. \A v \in Vectors : s.vec[v] \in Seq(Nat)
  BY DEF Session
<1>2. \A v \in Vectors : Len(s.vec[v]) \in Nat /\ SubSeq(s.vec[v], 1, Len(s.vec[v])) = s.vec[v]
  BY <1>1, LenProperties, WholeSeq
<1> DEFINE ps == reset_persist_state(s, e)
<1>3. /\ ps.exists = e
      /\ \A v \in Vectors : ps.len[v] = Len(s.vec[v]) /\ ps.full[v] = FALSE
  BY ResetState
<1>4. persist'[w] = ps
  OBVIOUS
<1> HIDE DEF ps
<1>5. persist'[w].exists = e
  BY <1>3, <1>4
<1>6. ASSUME NEW v \in Vectors
      PROVE  /\ Grows(w, v)' /\ Base(w, v)' = s.vec[v]
             /\ persist'[w].len[v] = Len(mem'[w].vec[v])
  <2>1. /\ ~persist'[w].full[v] /\ persist'[w].len[v] = Len(s.vec[v])
        /\ mem'[w].vec[v] = s.vec[v]
    BY <1>3, <1>4
  <2>2. Len(s.vec[v]) <= Len(s.vec[v])
    BY <1>2
  <2>3. Grows(w, v)'
    BY <2>1, <2>2, Zenon DEF Grows
  <2>4. Base(w, v)' = s.vec[v]
    BY <1>2, <2>1, Zenon DEF Base
  <2> QED BY <2>1, <2>3, <2>4, Zenon
<1> QED BY <1>5, <1>6

(* The owner changes its session: what it counts as persisted stays the    *)
(* same in every vector that still has only grown.                         *)
LEMMA MutateEffect ==
    ASSUME TypeOK, RunInv, Mutate
    PROVE  /\ pc[Owner] = "idle"
           /\ UNCHANGED <<pc, snapshot, journal, crashes, saved, attempt, trouble>>
           /\ persist'[Owner].exists = persist[Owner].exists
           /\ \A q \in Writers \ {Owner} : mem'[q] = mem[q] /\ persist'[q] = persist[q]
           /\ \A v \in Vectors : /\ Grows(Owner, v)' => Grows(Owner, v) /\ Base(Owner, v)' = Base(Owner, v)
                                 /\ Grows(Owner, v)' \/ persist'[Owner].full[v]
<1>0. Owner \in Writers
  BY DEF Writers
<1>1. \A v \in Vectors : /\ mem[Owner].vec[v] \in Seq(Nat) /\ Len(mem[Owner].vec[v]) \in Nat
                         /\ persist[Owner].len[v] \in Nat /\ persist[Owner].full[v] \in BOOLEAN
                         /\ Grows(Owner, v) \/ persist[Owner].full[v]
  BY <1>0, CopyType DEF RunInv
<1>2. ASSUME NEW v \in Vectors, Appends(v)
      PROVE  /\ pc[Owner] = "idle"
             /\ UNCHANGED <<pc, snapshot, journal, crashes, saved, attempt, trouble>>
             /\ persist'[Owner].exists = persist[Owner].exists
             /\ \A q \in Writers \ {Owner} : mem'[q] = mem[q] /\ persist'[q] = persist[q]
             /\ \A u \in Vectors : /\ Grows(Owner, u)' => Grows(Owner, u) /\ Base(Owner, u)' = Base(Owner, u)
                                   /\ Grows(Owner, u)' \/ persist'[Owner].full[u]
  <2> DEFINE m == mem[Owner].vec[v]
             s == Append(m, changes')
  <2>1. changes' \in Nat /\ m \in Seq(Nat)
    BY <1>1, <1>2 DEF Appends
  <2>2. s \in Seq(Nat) /\ Len(s) = Len(m) + 1
    BY <2>1, AppendProperties
  <2>3. Change(v, s, FALSE)
    BY <1>2, Zenon DEF Appends
  <2>4. \A n \in 0..Len(m) : SubSeq(s, 1, n) = SubSeq(m, 1, n)
    BY <2>1, PrefixOfAppend
  <2> HIDE DEF s
  <2>5. /\ mem'[Owner].vec[v] = s
        /\ persist'[Owner].len = persist[Owner].len
        /\ persist'[Owner].exists = persist[Owner].exists
        /\ \A u \in Vectors \ {v} : /\ mem'[Owner].vec[u] = mem[Owner].vec[u]
                                    /\ persist'[Owner].full[u] = persist[Owner].full[u]
        /\ \A q \in Writers \ {Owner} : mem'[q] = mem[q] /\ persist'[q] = persist[q]
        /\ pc[Owner] = "idle"
        /\ UNCHANGED <<pc, snapshot, journal, crashes, saved, attempt, trouble>>
    BY <2>2, <2>3, ChangeEffect
  <2>6. persist'[Owner].full[v] = persist[Owner].full[v]
    <3>1. persist'[Owner].full[v] = (persist[Owner].full[v] \/ FALSE)
      BY <2>2, <2>3, ChangeEffect
    <3> QED BY <1>1, <3>1
  <2>7. ASSUME NEW u \in Vectors
        PROVE  /\ Grows(Owner, u)' => Grows(Owner, u) /\ Base(Owner, u)' = Base(Owner, u)
               /\ Grows(Owner, u)' \/ persist'[Owner].full[u]
    <3>1. CASE u # v
      BY <1>1, <2>5, <3>1 DEF Grows, Base
    <3>2. CASE u = v
      <4>1. persist[Owner].full[v] \/ persist[Owner].len[v] \in 0..Len(m)
        BY <1>1 DEF Grows
      <4>2. CASE persist[Owner].full[v]
        BY <2>6, <3>2, <4>2 DEF Grows
      <4>3. CASE ~persist[Owner].full[v]
        <5>1. persist[Owner].len[v] \in 0..Len(m) /\ Grows(Owner, v)
          BY <4>1, <4>3, <1>1 DEF Grows
        <5>2. Grows(Owner, v)'
          BY <1>1, <2>2, <2>5, <2>6, <4>3, <5>1 DEF Grows
        <5>3. Base(Owner, v)' = Base(Owner, v)
          BY <2>4, <2>5, <5>1 DEF Base
        <5> QED BY <3>2, <5>1, <5>2, <5>3
      <4> QED BY <4>2, <4>3
    <3> QED BY <3>1, <3>2
  <2> QED BY <2>5, <2>7
<1>3. ASSUME NEW v \in Vectors, NEW s \in Seq(Nat), Rewrites(v, s)
      PROVE  /\ pc[Owner] = "idle"
             /\ UNCHANGED <<pc, snapshot, journal, crashes, saved, attempt, trouble>>
             /\ persist'[Owner].exists = persist[Owner].exists
             /\ \A q \in Writers \ {Owner} : mem'[q] = mem[q] /\ persist'[q] = persist[q]
             /\ \A u \in Vectors : /\ Grows(Owner, u)' => Grows(Owner, u) /\ Base(Owner, u)' = Base(Owner, u)
                                   /\ Grows(Owner, u)' \/ persist'[Owner].full[u]
  <2>1. Change(v, s, TRUE)
    BY <1>3, Zenon DEF Rewrites
  <2>2. /\ persist'[Owner].len = persist[Owner].len
        /\ persist'[Owner].exists = persist[Owner].exists
        /\ \A u \in Vectors \ {v} : /\ mem'[Owner].vec[u] = mem[Owner].vec[u]
                                    /\ persist'[Owner].full[u] = persist[Owner].full[u]
        /\ \A q \in Writers \ {Owner} : mem'[q] = mem[q] /\ persist'[q] = persist[q]
        /\ pc[Owner] = "idle"
        /\ UNCHANGED <<pc, snapshot, journal, crashes, saved, attempt, trouble>>
    BY <2>1, ChangeEffect
  <2>3. persist'[Owner].full[v]
    <3>1. persist'[Owner].full[v] = (persist[Owner].full[v] \/ TRUE)
      BY <2>1, ChangeEffect
    <3> QED BY <3>1
  <2> QED BY <1>1, <2>2, <2>3 DEF Grows, Base
<1>4. ASSUME NEW field \in {"hard", "soft"}, SetMeta(field)
      PROVE  /\ pc[Owner] = "idle"
             /\ UNCHANGED <<pc, snapshot, journal, crashes, saved, attempt, trouble>>
             /\ persist'[Owner].exists = persist[Owner].exists
             /\ \A q \in Writers \ {Owner} : mem'[q] = mem[q] /\ persist'[q] = persist[q]
             /\ \A u \in Vectors : /\ Grows(Owner, u)' => Grows(Owner, u) /\ Base(Owner, u)' = Base(Owner, u)
                                   /\ Grows(Owner, u)' \/ persist'[Owner].full[u]
  <2> DEFINE s == [mem[Owner] EXCEPT !.meta[field] = changes']
  <2>1. /\ mem' = [mem EXCEPT ![Owner] = s] /\ pc[Owner] = "idle" /\ changes' \in Nat
        /\ UNCHANGED <<persist, pc, snapshot, journal, crashes, saved, attempt, trouble>>
    BY <1>4 DEF SetMeta, NewValue, disk, TypeOK
  <2>2. s.vec = mem[Owner].vec
    BY <1>0, <2>1, CopyType, MetaType
  <2> HIDE DEF s
  <2>3. mem'[Owner].vec = mem[Owner].vec /\ \A q \in Writers \ {Owner} : mem'[q] = mem[q]
    BY <1>0, <2>1, <2>2 DEF TypeOK
  <2> QED BY <1>1, <2>1, <2>3 DEF Grows, Base
<1> QED BY <1>2, <1>3, <1>4, Mutations

(* A writer that returns from save. *)
LEMMA ReturnEffect ==
    ASSUME TypeOK, NEW w \in Writers, NEW ps \in SessionPersistState, Return(w, ps)
    PROVE  /\ OthersKeep(w) /\ pc'[w] \in {"idle", "stopped"}
           /\ w = Owner => mem'[w] = mem[w] /\ persist'[w] = ps /\ pc'[w] = "idle"
           /\ w # Owner => Drops(w)
<1>1. OthersKeep(w)
  BY ReturnType DEF OthersKeep
<1>2. w = Owner => mem'[w] = mem[w] /\ persist'[w] = ps /\ pc'[w] = "idle"
  BY ReturnType
<1>3. w # Owner => Drops(w)
  BY ReturnType DEF Drops
<1> QED BY <1>1, <1>2, <1>3 DEF Drops

(* A writer that goes on with its copy. *)
LEMMA GoesOn ==
    ASSUME TypeOK, NEW w \in Writers, NEW p \in PCs, NEW ps \in SessionPersistState,
           Goto(w, p, mem[w], ps)
    PROVE  OthersKeep(w) /\ pc'[w] = p /\ mem'[w] = mem[w] /\ persist'[w] = ps
<1>1. mem[w] \in Session
  BY CopyType
<1> QED BY <1>1, GotoType DEF OthersKeep

(* The effect of each file operation. *)
LEMMA FileEffects ==
    ASSUME TypeOK, NEW w \in Writers, FileStep(w) \/ Crash(w)
    PROVE  FileEffect(w)
<1> DEFINE rs == reset_persist_state(mem[w], TRUE)
<1>0. /\ persist[w] \in SessionPersistState /\ rs \in SessionPersistState
      /\ "write" \in PCs /\ "moved" \in PCs /\ "placed" \in PCs /\ "idle" \in PCs
      /\ "stopped" \in PCs
      /\ trouble \in {"none", "cut", "spoiled", "raced"}
      /\ Worse("cut") = IF trouble = "none" THEN "cut" ELSE trouble
      /\ Worse("spoiled") = IF trouble = "raced" THEN "raced" ELSE "spoiled"
  BY CopyType, ResetState, WorseTrouble DEF PCs, TypeOK
<1>1. CASE append_json_line_fast(w)
  <2>1. /\ pc[w] = "append" /\ attempt' = attempt /\ snapshot' = snapshot
        /\ journal' = AppendLine(journal, SessionJournalEntry(w), "closed")
        /\ trouble' = IF journal.tail = "closed" THEN trouble ELSE Worse("spoiled")
        /\ Goto(w, "write", mem[w], rs) \/ Return(w, rs)
    BY <1>1 DEF append_json_line_fast
  <2>2. CASE Goto(w, "write", mem[w], rs)
    <3>1. OthersKeep(w) /\ pc'[w] = "write" /\ Persists(w)
      BY <1>0, <2>2, GoesOn DEF Persists
    <3> QED BY <1>0, <2>1, <3>1 DEF FileEffect, Appended, Busy, Persists
  <2>3. CASE Return(w, rs)
    <3>1. /\ OthersKeep(w) /\ pc'[w] \in {"idle", "stopped"}
          /\ w = Owner => Persists(w) /\ pc'[w] = "idle"
          /\ w # Owner => Drops(w)
      BY <1>0, <2>3, ReturnEffect DEF Persists
    <3> QED BY <1>0, <2>1, <3>1 DEF FileEffect, Appended, Busy, Drops
  <2> QED BY <2>1, <2>2, <2>3
<1>2. CASE AppendFails(w)
  <2>1. /\ pc[w] = "append" /\ attempt' = attempt /\ snapshot' = snapshot
        /\ journal' = journal \/ \E how \in {"open", "torn"} :
               journal' = AppendLine(journal, SessionJournalEntry(w), how)
        /\ trouble' = IF journal.tail = "closed" THEN Worse("cut") ELSE Worse("spoiled")
        /\ Goto(w, "write", mem[w], persist[w])
    BY <1>2 DEF AppendFails
  <2>2. OthersKeep(w) /\ pc'[w] = "write" /\ Keeps(w)
    BY <1>0, <2>1, GoesOn DEF Keeps
  <2> QED BY <1>0, <2>1, <2>2 DEF FileEffect, Appended, Busy, Keeps
<1>3. CASE RenameToBackup(w)
  <2>1. /\ pc[w] = "write" /\ UNCHANGED <<journal, attempt, trouble>>
        /\ Goto(w, "moved", mem[w], persist[w])
    BY <1>3 DEF RenameToBackup
  <2>2. OthersKeep(w) /\ pc'[w] = "moved" /\ Keeps(w)
    BY <1>0, <2>1, GoesOn DEF Keeps
  <2> QED BY <1>0, <2>1, <2>2 DEF FileEffect, Busy, Keeps
<1>4. CASE RenameIntoPlace(w)
  <2>1. /\ pc[w] = "moved" /\ snapshot' = mem[w] /\ UNCHANGED <<journal, attempt, trouble>>
        /\ Goto(w, "placed", mem[w], persist[w])
    BY <1>4 DEF RenameIntoPlace
  <2>2. OthersKeep(w) /\ pc'[w] = "placed" /\ Keeps(w)
    BY <1>0, <2>1, GoesOn DEF Keeps
  <2> QED BY <1>0, <2>1, <2>2 DEF FileEffect, Busy, Keeps
<1>5. CASE RemoveJournal(w)
  <2>1. /\ pc[w] = "placed" /\ snapshot' = snapshot /\ attempt' = attempt
        /\ \/ journal' = NoJournal /\ (trouble = "raced" => trouble' = "raced")
           \/ journal' = journal /\ trouble' = Worse("cut")
        /\ Return(w, rs)
    BY <1>5 DEF RemoveJournal
  <2>2. /\ OthersKeep(w) /\ pc'[w] \in {"idle", "stopped"}
        /\ w = Owner => Persists(w) /\ pc'[w] = "idle"
        /\ w # Owner => Drops(w)
    BY <1>0, <2>1, ReturnEffect DEF Persists
  <2> QED BY <1>0, <2>1, <2>2 DEF FileEffect, Busy, Drops
<1>6. CASE CheckpointFails(w)
  <2>1. /\ pc[w] \in {"write", "moved"} /\ UNCHANGED <<snapshot, journal, attempt>>
        /\ trouble' = Worse("cut") /\ Return(w, persist[w])
    BY <1>6 DEF CheckpointFails, disk
  <2>2. /\ OthersKeep(w) /\ pc'[w] \in {"idle", "stopped"}
        /\ w = Owner => Keeps(w) /\ pc'[w] = "idle"
        /\ w # Owner => Drops(w)
    BY <1>0, <2>1, ReturnEffect DEF Keeps
  <2> QED BY <1>0, <2>1, <2>2 DEF FileEffect, Busy, Drops
<1>7. CASE Crash(w)
  <2>1. /\ UNCHANGED <<snapshot, attempt>> /\ Stop(w)
        /\ \/ journal' = journal
           \/ /\ pc[w] = "append"
              /\ \E how \in {"closed", "open", "torn"} :
                    journal' = AppendLine(journal, SessionJournalEntry(w), how)
        /\ trouble' = IF ~Busy(w) THEN trouble
                      ELSE IF pc[w] = "append" /\ journal.tail # "closed"
                           THEN Worse("spoiled") ELSE Worse("cut")
    BY <1>7 DEF Crash
  <2>2. OthersKeep(w) /\ Drops(w)
    BY <2>1, StopType DEF OthersKeep, Drops
  <2> QED BY <1>0, <2>1, <2>2 DEF FileEffect, Appended, Busy, Drops
<1> QED BY <1>1, <1>2, <1>3, <1>4, <1>5, <1>6, <1>7 DEF FileStep

(* The start of a save of writer w: the owner saves its copy, a client what  *)
(* it has loaded, with new metadata.                                       *)
Starts(w, s, ps) ==
    /\ ~Busy(w) /\ Begin(w, s, ps)
    /\ \/ w = Owner /\ pc[w] = "idle" /\ s = mem[w] /\ ps = persist[w]
       \/ /\ w \in Clients /\ snapshot # None
          /\ \A v \in Vectors : s.vec[v] = Loaded.vec[v]
          /\ ps = reset_persist_state(Loaded, TRUE)

(* save and persist_remote_session_metadata start a save. *)
LEMMA SaveStarts ==
    ASSUME TypeOK, save \/ Edit
    PROVE  \E w \in Writers, s \in Session, ps \in SessionPersistState : Starts(w, s, ps)
<1>1. CASE save
  <2>1. /\ Owner \in Writers /\ pc[Owner] = "idle" /\ ~Busy(Owner)
        /\ Begin(Owner, mem[Owner], persist[Owner])
    BY <1>1 DEF save, Busy, Writers
  <2>2. mem[Owner] \in Session /\ persist[Owner] \in SessionPersistState
    BY <2>1, CopyType
  <2>3. Starts(Owner, mem[Owner], persist[Owner])
    BY <2>1 DEF Starts
  <2> QED BY <2>1, <2>2, <2>3
<1>2. ASSUME NEW c \in Clients, NEW field \in {"hard", "soft"},
             persist_remote_session_metadata(c, field)
      PROVE  \E w \in Writers, s \in Session, ps \in SessionPersistState : Starts(w, s, ps)
  <2> DEFINE s == [Loaded EXCEPT !.meta[field] = changes']
             ps == reset_persist_state(Loaded, TRUE)
  <2>1. c \in Writers /\ changes' \in Nat /\ snapshot # None /\ pc[c] = "stopped"
    BY <1>2 DEF persist_remote_session_metadata, NewValue, Writers, TypeOK
  <2>2. Begin(c, s, ps)
    BY <1>2, Zenon DEF persist_remote_session_metadata
  <2>3. s \in Session /\ ps \in SessionPersistState /\ s.vec = Loaded.vec
    <3>1. Loaded \in Session
      BY <2>1, LoadedType
    <3>2. ps \in SessionPersistState
      BY <3>1, ResetState
    <3> HIDE DEF ps
    <3> QED BY <2>1, <3>1, <3>2, MetaType
  <2> HIDE DEF s
  <2>4. Starts(c, s, ps)
    BY <2>1, <2>2, <2>3 DEF Starts, Busy
  <2> QED BY <2>1, <2>3, <2>4
<1> QED BY <1>1, <1>2 DEF Edit

(* The effect of the start. *)
LEMMA StartEffect ==
    ASSUME TypeOK, NEW w \in Writers, NEW s \in Session, NEW ps \in SessionPersistState,
           Starts(w, s, ps)
    PROVE  /\ OthersKeep(w) /\ mem'[w] = s /\ persist'[w] = ps
           /\ pc'[w] \in {"append", "write"} /\ Busy(w)'
           /\ pc'[w] = "append" => persist'[w].exists /\ \A v \in Vectors : Grows(w, v)'
           /\ attempt' = s
           /\ trouble' = IF \E q \in Writers \ {w} : Busy(q) THEN "raced" ELSE trouble
           /\ UNCHANGED <<snapshot, journal, saved>>
           /\ w # Owner => \A v \in Vectors : persist'[w].len[v] = Len(mem'[w].vec[v])
<1>1. Begin(w, s, ps)
  BY DEF Starts
<1>2. /\ mem'[w] = s /\ persist'[w] = ps
      /\ pc'[w] = IF NeedsSnapshot(s, ps) THEN "write" ELSE "append"
      /\ attempt' = s
      /\ trouble' = IF \E q \in Writers \ {w} : Busy(q) THEN "raced" ELSE trouble
      /\ UNCHANGED <<snapshot, journal, saved>>
  BY <1>1, BeginEffect
<1>3. OthersKeep(w)
  BY <1>1, BeginEffect DEF OthersKeep
<1>4. ASSUME pc'[w] = "append"
      PROVE  persist'[w].exists /\ \A v \in Vectors : Grows(w, v)'
  <2>1. ~NeedsSnapshot(s, ps)
    BY <1>2, <1>4
  <2>2. \A v \in Vectors : Len(s.vec[v]) \in Nat /\ ps.len[v] \in Nat
    <3>1. \A v \in Vectors : s.vec[v] \in Seq(Nat) /\ ps.len[v] \in Nat
      BY DEF Session, SessionPersistState
    <3> QED BY <3>1, LenProperties
  <2>3. ps.exists /\ \A v \in Vectors : ~ps.full[v] /\ ~(Len(s.vec[v]) < ps.len[v])
    BY <2>1 DEF NeedsSnapshot
  <2>4. \A v \in Vectors : ps.len[v] <= Len(s.vec[v])
    BY <2>2, <2>3
  <2> QED BY <1>2, <2>3, <2>4 DEF Grows
<1>5. ASSUME w # Owner
      PROVE  \A v \in Vectors : persist'[w].len[v] = Len(mem'[w].vec[v])
  <2>1. /\ snapshot # None /\ \A v \in Vectors : s.vec[v] = Loaded.vec[v]
        /\ ps = reset_persist_state(Loaded, TRUE)
    BY <1>5 DEF Starts
  <2>2. \A v \in Vectors : ps.len[v] = Len(Loaded.vec[v])
    BY <2>1, LoadedType, ResetState
  <2> QED BY <1>2, <2>1, <2>2
<1> QED BY <1>2, <1>3, <1>4, <1>5 DEF Busy

(* The effect of a restart. *)
LEMMA LoadEffect ==
    ASSUME TypeOK, load
    PROVE  /\ OthersKeep(Owner) /\ Owner \in Writers
           /\ pc[Owner] = "stopped" /\ pc'[Owner] = "idle" /\ snapshot # None
           /\ mem'[Owner] = Loaded /\ persist'[Owner] = reset_persist_state(Loaded, TRUE)
           /\ saved' = Loaded /\ attempt' = Loaded /\ Loaded \in Session
           /\ trouble' = IF \E c \in Clients : Busy(c) THEN "raced"
                         ELSE IF journal.bad THEN "spoiled" ELSE "none"
           /\ UNCHANGED <<snapshot, journal>>
<1> DEFINE s == Loaded
           ps == reset_persist_state(Loaded, TRUE)
<1>1. /\ pc[Owner] = "stopped" /\ snapshot # None /\ Goto(Owner, "idle", s, ps)
      /\ saved' = s /\ attempt' = s
      /\ trouble' = IF \E c \in Clients : Busy(c) THEN "raced"
                    ELSE IF journal.bad THEN "spoiled" ELSE "none"
      /\ UNCHANGED <<snapshot, journal>> /\ Owner \in Writers /\ "idle" \in PCs
  BY DEF load, disk, Writers, PCs
<1>2. s \in Session /\ ps \in SessionPersistState
  BY <1>1, LoadedType, ResetState
<1> HIDE DEF s, ps
<1>3. OthersKeep(Owner) /\ pc'[Owner] = "idle" /\ mem'[Owner] = s /\ persist'[Owner] = ps
  BY <1>1, <1>2, GotoType DEF OthersKeep
<1> QED BY <1>1, <1>2, <1>3 DEF s, ps

(* Every step of the system is one of these. *)
LEMMA Steps ==
    ASSUME TypeOK, [Next]_vars
    PROVE  \/ Mutate \/ load
           \/ \E w \in Writers, s \in Session, ps \in SessionPersistState : Starts(w, s, ps)
           \/ \E w \in Writers : FileStep(w) \/ Crash(w)
           \/ UNCHANGED vars
BY SaveStarts DEF Next

-----------------------------------------------------------------------------
(* Every step keeps the invariant of the writers. *)
LEMMA RunStep == TypeOK /\ RunInv /\ [Next]_vars => RunInv'
<1> SUFFICES ASSUME TypeOK, RunInv, [Next]_vars PROVE RunInv'
  OBVIOUS
<1>0. Owner \in Writers /\ Clients \subseteq Writers /\ Owner \notin Clients
  BY WriterAssumption DEF Writers
<1>1. CASE Mutate
  <2>1. /\ pc' = pc /\ pc[Owner] = "idle"
        /\ \A q \in Writers \ {Owner} : mem'[q] = mem[q] /\ persist'[q] = persist[q]
        /\ \A v \in Vectors : Grows(Owner, v)' \/ persist'[Owner].full[v]
    BY <1>1, MutateEffect
  <2> QED BY <1>0, <2>1 DEF RunInv, Grows, Busy
<1>2. ASSUME NEW w \in Writers, NEW s \in Session, NEW ps \in SessionPersistState,
             Starts(w, s, ps)
      PROVE  RunInv'
  <2>1. /\ OthersKeep(w) /\ mem'[w] = s /\ persist'[w] = ps
        /\ pc'[w] \in {"append", "write"}
        /\ pc'[w] = "append" => persist'[w].exists /\ \A v \in Vectors : Grows(w, v)'
        /\ w # Owner => \A v \in Vectors : persist'[w].len[v] = Len(mem'[w].vec[v])
    BY <1>2, StartEffect
  <2>2. w = Owner => s = mem[w] /\ ps = persist[w]
    BY <1>0, <1>2 DEF Starts
  <2> QED BY <1>0, <2>1, <2>2 DEF RunInv, Grows, Busy, OthersKeep
<1>3. CASE load
  <2>1. OthersKeep(Owner) /\ pc'[Owner] = "idle"
    BY <1>3, LoadEffect
  <2>2. /\ mem'[Owner] = Loaded /\ persist'[Owner] = reset_persist_state(Loaded, TRUE)
        /\ Loaded \in Session
    BY <1>3, LoadEffect
  <2>3. \A v \in Vectors : Grows(Owner, v)'
    BY <1>0, <2>2, FreshBase
  <2> QED BY <1>0, <2>1, <2>3 DEF RunInv, Grows, Busy, OthersKeep
<1>4. ASSUME NEW w \in Writers, FileStep(w) \/ Crash(w) PROVE RunInv'
  <2>1. FileEffect(w)
    BY <1>4, FileEffects
  <2>2. CASE Keeps(w) /\ (w = Owner => pc'[w] # "stopped")
    BY <1>0, <2>1, <2>2 DEF FileEffect, Keeps, RunInv, Grows, Busy, OthersKeep
  <2>3. CASE Persists(w) /\ (w = Owner => pc'[w] # "stopped")
    <3>1. mem[w] \in Session
      BY CopyType
    <3>2. \A v \in Vectors : Grows(w, v)' /\ persist'[w].len[v] = Len(mem'[w].vec[v])
      BY <2>3, <3>1, FreshBase DEF Persists
    <3> QED BY <1>0, <2>1, <2>3, <3>2 DEF FileEffect, RunInv, Grows, Busy, OthersKeep
  <2>4. CASE Drops(w)
    <3>1. NewSession \in Session
      BY EmptyTypes
    <3>2. persist'[w].exists = FALSE /\ \A v \in Vectors : Grows(w, v)'
      BY <2>4, <3>1, FreshBase DEF Drops
    <3>3. pc'[w] = "stopped"
      BY <2>4 DEF Drops
    <3> QED BY <1>0, <2>1, <3>2, <3>3 DEF FileEffect, RunInv, Grows, Busy, OthersKeep
  <2> QED BY <2>1, <2>2, <2>3, <2>4 DEF FileEffect
<1>5. CASE UNCHANGED vars
  BY <1>5 DEF vars, RunInv, Grows, Busy
<1> QED BY <1>1, <1>2, <1>3, <1>4, <1>5, Steps

(* Every step keeps the saves apart or notes that they overlapped. *)
LEMMA SoleStep == TypeOK /\ RunInv /\ SoleInv /\ [Next]_vars => SoleInv'
<1> SUFFICES ASSUME TypeOK, RunInv, SoleInv, [Next]_vars, trouble' # "raced"
             PROVE  /\ \A w, q \in Writers : Busy(w)' /\ Busy(q)' => w = q
                    /\ \A w \in Writers : Busy(w)' => attempt' = mem'[w]
                    /\ \A w \in Writers : pc'[w] = "placed" => snapshot' = mem'[w]
  BY DEF SoleInv
<1>0. Owner \in Writers /\ Clients \subseteq Writers /\ Writers = Clients \cup {Owner}
  BY DEF Writers
<1>1. CASE Mutate
  <2>1. /\ UNCHANGED <<pc, snapshot, attempt, trouble>> /\ pc[Owner] = "idle"
        /\ \A q \in Writers \ {Owner} : mem'[q] = mem[q]
    BY <1>1, MutateEffect
  <2> QED BY <1>0, <2>1 DEF SoleInv, Busy
<1>2. ASSUME NEW w \in Writers, NEW s \in Session, NEW ps \in SessionPersistState,
             Starts(w, s, ps)
      PROVE  /\ \A a, q \in Writers : Busy(a)' /\ Busy(q)' => a = q
             /\ \A a \in Writers : Busy(a)' => attempt' = mem'[a]
             /\ \A a \in Writers : pc'[a] = "placed" => snapshot' = mem'[a]
  <2>1. /\ OthersKeep(w) /\ mem'[w] = s /\ attempt' = s /\ pc'[w] \in {"append", "write"}
        /\ trouble' = IF \E q \in Writers \ {w} : Busy(q) THEN "raced" ELSE trouble
        /\ snapshot' = snapshot
    BY <1>2, StartEffect
  <2>2. \A q \in Writers \ {w} : ~Busy(q) /\ ~Busy(q)'
    BY <2>1 DEF OthersKeep, Busy
  <2> QED BY <2>1, <2>2 DEF Busy
<1>3. CASE load
  <2>1. /\ OthersKeep(Owner) /\ pc'[Owner] = "idle"
        /\ \A c \in Clients : ~Busy(c)
    BY <1>3, LoadEffect
  <2> QED BY <1>0, <2>1 DEF OthersKeep, Busy
<1>4. ASSUME NEW w \in Writers, FileStep(w) \/ Crash(w)
      PROVE  /\ \A a, q \in Writers : Busy(a)' /\ Busy(q)' => a = q
             /\ \A a \in Writers : Busy(a)' => attempt' = mem'[a]
             /\ \A a \in Writers : pc'[a] = "placed" => snapshot' = mem'[a]
  <2>1. FileEffect(w)
    BY <1>4, FileEffects
  <2>2. trouble # "raced"
    BY <2>1 DEF FileEffect
  <2>3. \A q \in Writers \ {w} : Busy(w) /\ Busy(q) => FALSE
    BY <2>2 DEF SoleInv
  <2> QED BY <2>1, <2>2, <2>3 DEF FileEffect, SoleInv, OthersKeep, Busy
<1>5. CASE UNCHANGED vars
  BY <1>5 DEF vars, SoleInv, Busy
<1> QED BY <1>1, <1>2, <1>3, <1>4, <1>5, Steps

(* A line that is appended to finished lines is replayed behind them, if it *)
(* is complete.                                                            *)
LEMMA AppendedLine ==
    ASSUME TypeOK, NEW w \in Writers, NEW how \in {"closed", "open", "torn"},
           Appended(w, how), ~journal.bad
    PROVE  /\ ~journal'.bad
           /\ journal'.replay \in {journal.replay, Replayed(journal.replay, SessionJournalEntry(w))}
           /\ how = "closed" => journal'.replay = Replayed(journal.replay, SessionJournalEntry(w))
<1> DEFINE e == SessionJournalEntry(w)
<1>1. journal' = AppendLine(journal, e, how) /\ journal.tail = "closed"
  BY DEF Appended
<1> HIDE DEF e
<1>2. journal'.bad = (journal.bad \/ (journal.tail # "closed" /\ (how = "closed" \/ journal.tail = "open")))
  BY <1>1, Zenon DEF AppendLine
<1>3. journal'.replay = IF how # "torn" THEN Replayed(journal.replay, e) ELSE journal.replay
  BY <1>1 DEF AppendLine
<1>4. ~journal'.bad
  BY <1>1, <1>2
<1> QED BY <1>3, <1>4 DEF e

(* Every step keeps the lines readable or notes that one was spoiled. *)
LEMMA WholeStep == TypeOK /\ RunInv /\ WholeInv /\ [Next]_vars => WholeInv'
<1> SUFFICES ASSUME TypeOK, RunInv, WholeInv, [Next]_vars, trouble' \in {"none", "cut"}
             PROVE  ~journal'.bad
  BY DEF WholeInv
<1>1. CASE Mutate
  BY <1>1, MutateEffect DEF WholeInv
<1>2. ASSUME NEW w \in Writers, NEW s \in Session, NEW ps \in SessionPersistState,
             Starts(w, s, ps)
      PROVE  ~journal'.bad
  <2>1. journal' = journal /\ trouble' \in {trouble, "raced"}
    BY <1>2, StartEffect
  <2> QED BY <2>1 DEF WholeInv
<1>3. CASE load
  BY <1>3, LoadEffect
<1>4. ASSUME NEW w \in Writers, FileStep(w) \/ Crash(w) PROVE ~journal'.bad
  <2>1. \/ journal' = NoJournal
        \/ /\ trouble \in {"none", "cut"}
           /\ journal' = journal \/ \E how \in {"closed", "open", "torn"} : Appended(w, how)
    BY <1>4, FileEffects DEF FileEffect
  <2>2. CASE journal' = NoJournal
    BY <2>2 DEF NoJournal
  <2>3. CASE trouble \in {"none", "cut"} /\ journal' = journal
    BY <2>3 DEF WholeInv
  <2>4. ASSUME trouble \in {"none", "cut"}, NEW how \in {"closed", "open", "torn"}, Appended(w, how)
        PROVE  ~journal'.bad
    BY <2>4, AppendedLine DEF WholeInv
  <2> QED BY <2>1, <2>2, <2>3, <2>4
<1>5. CASE UNCHANGED vars
  BY <1>5 DEF vars, WholeInv
<1> QED BY <1>1, <1>2, <1>3, <1>4, <1>5, Steps

-----------------------------------------------------------------------------
(* What a load reads once the snapshot has replaced the journal. *)
LEMMA PlacedReads ==
    ASSUME NEW s \in Session, snapshot' = s, journal' = NoJournal
    PROVE  Loaded' = s
<1>1. /\ s.vec \in [Vectors -> Seq(Nat)] /\ s.meta \in Meta
      /\ s = [vec |-> s.vec, meta |-> s.meta]
  BY DEF Session
<1>2. \A v \in Vectors : s.vec[v] \o <<>> = s.vec[v]
  BY <1>1, ConcatEmptySeq
<1>3. journal'.replay.meta = None /\ \A v \in Vectors : journal'.replay.vec[v] = <<>>
  BY DEF NoJournal, NoLines, NoItems
<1>4. Loaded' = [vec |-> [v \in Vectors |-> snapshot'.vec[v] \o journal'.replay.vec[v]],
                 meta |-> IF journal'.replay.meta = None THEN snapshot'.meta
                                                         ELSE journal'.replay.meta]
  BY DEF Loaded
<1>5. [v \in Vectors |-> snapshot'.vec[v] \o journal'.replay.vec[v]] = s.vec
  BY <1>1, <1>2, <1>3
<1> QED BY <1>1, <1>3, <1>4, <1>5

(* What a load reads of a vector once a line was replayed behind the others. *)
LEMMA LineReads ==
    ASSUME TypeOK, TypeOK', NEW w \in Writers, snapshot # None, snapshot' = snapshot,
           journal'.replay = Replayed(journal.replay, SessionJournalEntry(w))
    PROVE  /\ Loaded'.meta = mem[w].meta
           /\ \A v \in Vectors : Loaded'.vec[v] = Loaded.vec[v] \o SessionJournalEntry(w).vec[v]
<1> DEFINE e == SessionJournalEntry(w)
<1>1. e \in Replay /\ e.meta = mem[w].meta /\ mem[w].meta \in Meta
  BY EntryType, CopyType
<1> HIDE DEF e
<1>2. \A v \in Vectors : e.vec[v] \in Seq(Nat)
  BY <1>1 DEF Replay
<1>3. journal'.replay = Replayed(journal.replay, e)
  BY DEF e
<1> DEFINE r == journal.replay
           r2 == journal'.replay
           vec == [v \in Vectors |-> r.vec[v] \o e.vec[v]]
<1>a. r2 = [vec |-> vec, meta |-> e.meta]
  BY <1>3, Zenon DEF Replayed
<1>b. \A v \in Vectors : vec[v] = r.vec[v] \o e.vec[v]
  OBVIOUS
<1>c. r2.meta = e.meta /\ r2.vec = vec
  <2> HIDE DEF vec, r2
  <2> QED BY <1>a
<1>4. /\ journal'.replay.meta = e.meta
      /\ \A v \in Vectors : journal'.replay.vec[v] = journal.replay.vec[v] \o e.vec[v]
  <2> HIDE DEF vec
  <2> QED BY <1>b, <1>c
<1> HIDE DEF r, r2, vec
<1>5. Loaded'.meta = mem[w].meta
  BY <1>1, <1>4, NoneAssumption DEF Loaded
<1>6. ASSUME NEW v \in Vectors PROVE Loaded'.vec[v] = Loaded.vec[v] \o e.vec[v]
  <2> DEFINE a == snapshot.vec[v]
             b == journal.replay.vec[v]
             c == e.vec[v]
  <2>1. /\ a \in Seq(Nat) /\ b \in Seq(Nat) /\ c \in Seq(Nat)
        /\ Loaded.vec[v] = a \o b
    BY <1>2, LoadedType
  <2>2. Loaded'.vec[v] = snapshot'.vec[v] \o journal'.replay.vec[v]
    BY DEF Loaded
  <2>3. Loaded'.vec[v] = a \o (b \o c)
    BY <1>4, <2>2
  <2> HIDE DEF a, b, c
  <2>4. (a \o b) \o c = a \o (b \o c)
    BY <2>1, SeqAssociative
  <2> QED BY <2>1, <2>3, <2>4 DEF c
<1> QED BY <1>5, <1>6 DEF e

(* The line of a save completes what was persisted. *)
LEMMA LineCompletes ==
    ASSUME TypeOK, NEW w \in Writers, NEW v \in Vectors, Grows(w, v)
    PROVE  /\ Base(w, v) \o SessionJournalEntry(w).vec[v] = mem[w].vec[v]
           /\ Base(w, v) \in Seq(Nat) /\ SessionJournalEntry(w).vec[v] \in Seq(Nat)
<1> DEFINE m == mem[w].vec[v]
           n == persist[w].len[v]
<1>1. m \in Seq(Nat) /\ Len(m) \in Nat /\ n \in Nat /\ n <= Len(m)
  BY CopyType DEF Grows
<1>2. SessionJournalEntry(w).vec[v] = SubSeq(m, n + 1, Len(m)) /\ Base(w, v) = SubSeq(m, 1, n)
  BY EntryType DEF Base
<1>3. SessionJournalEntry(w).vec[v] \in Seq(Nat)
  BY EntryType DEF Replay
<1> HIDE DEF m, n
<1>4. n \in 0..Len(m)
  BY <1>1
<1>5. SubSeq(m, 1, n) \o SubSeq(m, n + 1, Len(m)) = m
  BY <1>1, <1>4, SplitSeq
<1>6. SubSeq(m, 1, n) \in Seq(Nat)
  <2>1. \A i \in 1..n : m[i] \in Nat
    BY <1>1, <1>4, LenProperties
  <2> QED BY <1>1, <2>1, SubSeqProperties
<1> QED BY <1>2, <1>3, <1>5, <1>6 DEF m

(* A complete line makes the files read back as the session of the save. *)
LEMMA AppendReads ==
    ASSUME TypeOK, TypeOK', NEW w \in Writers, snapshot # None, snapshot' = snapshot,
           Appended(w, "closed"), ~journal.bad,
           \A v \in Vectors : Grows(w, v) /\ Base(w, v) = Loaded.vec[v]
    PROVE  Loaded' = mem[w]
<1>1. journal'.replay = Replayed(journal.replay, SessionJournalEntry(w))
  BY AppendedLine
<1>2. /\ Loaded'.meta = mem[w].meta
      /\ \A v \in Vectors : Loaded'.vec[v] = Loaded.vec[v] \o SessionJournalEntry(w).vec[v]
  BY <1>1, LineReads
<1>3. \A v \in Vectors : Base(w, v) \o SessionJournalEntry(w).vec[v] = mem[w].vec[v]
  BY LineCompletes
<1>4. \A v \in Vectors : Loaded'.vec[v] = mem[w].vec[v]
  BY <1>2, <1>3
<1>5. Loaded' \in Session
  <2>1. (TypeOK /\ snapshot # None => Loaded \in Session)'
    BY LoadedSession, PTL
  <2> QED BY <2>1
<1>6. mem[w] \in Session
  BY CopyType
<1> QED BY <1>2, <1>4, <1>5, <1>6, SessionEqual

(* A save of w has just succeeded, the files read back as its session and  *)
(* no other writer is busy: the files are clean.                           *)
LEMMA CleanAfterSave ==
    ASSUME TypeOK, NEW w \in Writers, OthersKeep(w),
           snapshot' # None, Loaded' = mem[w], saved' = mem[w],
           pc'[w] # "append", w # Owner => pc'[w] # "idle",
           \A q \in Writers \ {w} : ~Busy(q),
           w = Owner => Persists(w),
           w # Owner => Persists(w) \/ Drops(w),
           w # Owner => (persist[Owner].exists =>
               \A v \in Vectors : Grows(Owner, v) => Base(Owner, v) = mem[w].vec[v])
    PROVE  CleanInv'
<1>0. /\ mem[w] \in Session /\ mem[w] # None /\ Owner \in Writers
      /\ Clients \subseteq Writers /\ Owner \notin Clients
  BY CopyType, NoneAssumption, WriterAssumption DEF Writers
<1>1. saved' # None /\ ReadsBack'
  BY <1>0 DEF ReadsBack
<1>2. \A q \in Writers : pc'[q] # "append"
  BY DEF OthersKeep, Busy
<1>3. ASSUME persist'[Owner].exists, NEW v \in Vectors, Grows(Owner, v)'
      PROVE  Base(Owner, v)' = saved'.vec[v]
  <2>1. CASE w = Owner
    <3>1. Base(Owner, v)' = mem[w].vec[v]
      BY <1>0, <2>1, FreshBase DEF Persists
    <3> QED BY <3>1
  <2>2. CASE w # Owner
    <3>1. mem'[Owner] = mem[Owner] /\ persist'[Owner] = persist[Owner]
      BY <1>0, <2>2 DEF OthersKeep
    <3> QED BY <1>3, <2>2, <3>1 DEF Grows, Base
  <2> QED BY <2>1, <2>2
<1>4. ASSUME NEW c \in Clients, Busy(c)' PROVE \A v \in Vectors : mem'[c].vec[v] = saved'.vec[v]
  <2>1. c = w /\ ~Drops(w)
    BY <1>0, <1>4 DEF OthersKeep, Busy, Drops
  <2> QED BY <1>0, <2>1 DEF Persists
<1> QED BY <1>1, <1>2, <1>3, <1>4 DEF CleanInv

(* Every step keeps the files clean or notes the trouble. *)
LEMMA CleanStep ==
    TypeOK /\ TypeOK' /\ RunInv /\ SoleInv /\ WholeInv /\ CleanInv /\ [Next]_vars => CleanInv'
<1> SUFFICES ASSUME TypeOK, TypeOK', RunInv, SoleInv, WholeInv, CleanInv, [Next]_vars,
                    trouble' = "none"
             PROVE  CleanInv'
  BY DEF CleanInv
<1>0. /\ Owner \in Writers /\ Clients \subseteq Writers /\ Owner \notin Clients
      /\ Writers = Clients \cup {Owner}
  BY WriterAssumption DEF Writers
<1>1. CASE Mutate
  <2>1. /\ UNCHANGED <<pc, snapshot, journal, saved, trouble>>
        /\ persist'[Owner].exists = persist[Owner].exists
        /\ \A q \in Writers \ {Owner} : mem'[q] = mem[q]
        /\ \A v \in Vectors : Grows(Owner, v)' => Grows(Owner, v) /\ Base(Owner, v)' = Base(Owner, v)
    BY <1>1, MutateEffect
  <2>2. Loaded' = Loaded
    BY <2>1 DEF Loaded
  <2> QED BY <1>0, <2>1, <2>2 DEF CleanInv, ReadsBack, Quiet, Busy
<1>2. ASSUME NEW w \in Writers, NEW s \in Session, NEW ps \in SessionPersistState,
             Starts(w, s, ps)
      PROVE  CleanInv'
  <2>1. /\ OthersKeep(w) /\ mem'[w] = s /\ persist'[w] = ps
        /\ pc'[w] \in {"append", "write"} /\ Busy(w)'
        /\ pc'[w] = "append" => persist'[w].exists
        /\ UNCHANGED <<snapshot, journal, saved>>
        /\ trouble = "none" /\ \A q \in Writers \ {w} : ~Busy(q)
    BY <1>2, StartEffect
  <2>2. Quiet /\ Loaded' = Loaded /\ ReadsBack' = ReadsBack /\ ~Quiet'
    BY <1>2, <2>1 DEF Starts, Quiet, Loaded, ReadsBack
  <2>3. \A q \in Writers \ {w} : ~Busy(q)'
    BY <2>1 DEF OthersKeep, Busy
  <2>4. CASE w = Owner
    <3>1. pc[w] = "idle" /\ s = mem[w] /\ ps = persist[w]
      BY <1>0, <1>2, <2>4 DEF Starts
    <3>2. \A v \in Vectors : Grows(Owner, v)' = Grows(Owner, v) /\ Base(Owner, v)' = Base(Owner, v)
      BY <2>1, <2>4, <3>1 DEF Grows, Base
    <3>3. \A c \in Clients : ~Busy(c)'
      BY <1>0, <2>3, <2>4
    <3>4. persist[Owner].exists => saved # None /\ \A v \in Vectors : Grows(Owner, v) => Base(Owner, v) = saved.vec[v]
      BY <2>1 DEF CleanInv
    <3>5. saved # None => ReadsBack
      BY <2>1, <2>2 DEF CleanInv
    <3>6. saved = None => snapshot = None
      BY <2>1, <2>4, <3>1 DEF CleanInv
    <3>7. \A q \in Writers : pc'[q] = "append" => q = w
      BY <2>3 DEF Busy
    <3> QED BY <2>1, <2>2, <2>4, <3>1, <3>2, <3>3, <3>4, <3>5, <3>6, <3>7 DEF CleanInv
  <2>5. CASE w # Owner
    <3>1. /\ w \in Clients /\ snapshot # None
          /\ \A v \in Vectors : s.vec[v] = Loaded.vec[v]
      BY <1>0, <1>2, <2>5 DEF Starts
    <3>2. saved # None /\ ReadsBack
      BY <1>0, <2>1, <2>2, <2>5, <3>1 DEF CleanInv, Busy
    <3>3. /\ mem'[Owner] = mem[Owner] /\ persist'[Owner] = persist[Owner]
          /\ \A v \in Vectors : Grows(Owner, v)' = Grows(Owner, v) /\ Base(Owner, v)' = Base(Owner, v)
      BY <1>0, <2>1, <2>5 DEF OthersKeep, Grows, Base
    <3>4. ASSUME NEW c \in Clients, Busy(c)' PROVE \A v \in Vectors : mem'[c].vec[v] = saved'.vec[v]
      <4>1. c = w
        BY <1>0, <2>3, <3>4
      <4>2. \A v \in Vectors : s.vec[v] = saved.vec[v]
        BY <3>1, <3>2 DEF ReadsBack
      <4> QED BY <2>1, <4>1, <4>2
    <3>5. persist[Owner].exists => \A v \in Vectors : Grows(Owner, v) => Base(Owner, v) = saved.vec[v]
      BY <2>1 DEF CleanInv
    <3> QED BY <2>1, <2>2, <3>2, <3>3, <3>4, <3>5 DEF CleanInv
  <2> QED BY <2>4, <2>5
<1>3. CASE load
  <2>1. /\ OthersKeep(Owner) /\ pc'[Owner] = "idle" /\ snapshot # None
        /\ saved' = Loaded /\ UNCHANGED <<snapshot, journal>>
        /\ \A c \in Clients : ~Busy(c)
    BY <1>3, LoadEffect
  <2>2. /\ mem'[Owner] = Loaded /\ persist'[Owner] = reset_persist_state(Loaded, TRUE)
        /\ Loaded \in Session /\ Loaded # None
    BY <1>3, LoadEffect, NoneAssumption
  <2> DEFINE s == Loaded
  <2>a. mem'[Owner] = s /\ persist'[Owner] = reset_persist_state(s, TRUE) /\ s \in Session
    BY <2>2
  <2>b. \A v \in Vectors : s.vec[v] = Loaded.vec[v]
    OBVIOUS
  <2> HIDE DEF s
  <2>c. \A v \in Vectors : Base(Owner, v)' = s.vec[v]
    <3>1. Owner \in Writers /\ TRUE \in BOOLEAN
      BY <1>0
    <3> QED BY <2>a, <3>1, FreshBase, Zenon
  <2>3. \A v \in Vectors : Base(Owner, v)' = Loaded.vec[v]
    BY <2>b, <2>c, Zenon
  <2>4. Loaded' = Loaded
    BY <2>1 DEF Loaded
  <2>5. \A q \in Writers : ~Busy(q)'
    BY <1>0, <2>1 DEF OthersKeep, Busy
  <2>6. saved' # None /\ ReadsBack' /\ \A v \in Vectors : Base(Owner, v)' = saved'.vec[v]
    BY <2>1, <2>2, <2>3, <2>4 DEF ReadsBack
  <2> QED BY <1>0, <2>5, <2>6 DEF CleanInv, Busy
<1>4. ASSUME NEW w \in Writers, FileStep(w) \/ Crash(w) PROVE CleanInv'
  <2>0. FileEffect(w) /\ trouble # "raced" /\ mem[w] \in Session /\ mem[w] # None
    BY <1>4, FileEffects, CopyType, NoneAssumption DEF FileEffect
  <2>w. /\ trouble \in {"none", "cut", "spoiled", "raced"}
        /\ Worse("cut") = IF trouble = "none" THEN "cut" ELSE trouble
        /\ Worse("spoiled") = IF trouble = "raced" THEN "raced" ELSE "spoiled"
        /\ Worse("cut") # "none" /\ Worse("spoiled") # "none"
    BY WorseTrouble DEF TypeOK
  <2>s. Busy(w) => \A q \in Writers \ {w} : ~Busy(q)
    BY <2>0 DEF SoleInv
  <2>1. CASE append_json_line_fast(w)
    <3>1. /\ pc[w] = "append" /\ saved' = mem[w] /\ snapshot' = snapshot
          /\ journal' = AppendLine(journal, SessionJournalEntry(w), "closed")
          /\ journal.tail = "closed" /\ trouble = "none"
      BY <2>1, <2>w DEF append_json_line_fast
    <3>2. /\ Appended(w, "closed") /\ ~journal.bad /\ Busy(w)
          /\ saved # None /\ ReadsBack
          /\ persist[w].exists /\ \A v \in Vectors : Grows(w, v)
      BY <3>1 DEF Appended, WholeInv, Busy, CleanInv, RunInv
    <3>3. ASSUME NEW v \in Vectors PROVE Base(w, v) = saved.vec[v]
      <4>1. CASE w = Owner
        BY <3>1, <3>2, <4>1 DEF CleanInv
      <4>2. CASE w # Owner
        <5>1. w \in Clients
          BY <1>0, <4>2
        <5>2. persist[w].len[v] = Len(mem[w].vec[v]) /\ mem[w].vec[v] = saved.vec[v]
          BY <3>1, <3>2, <5>1 DEF RunInv, CleanInv
        <5>3. SubSeq(mem[w].vec[v], 1, Len(mem[w].vec[v])) = mem[w].vec[v]
          BY CopyType, WholeSeq
        <5> QED BY <5>2, <5>3 DEF Base
      <4> QED BY <4>1, <4>2
    <3>4. Loaded' = mem[w] /\ snapshot' # None
      BY <3>1, <3>2, <3>3, AppendReads DEF ReadsBack
    <3>5. /\ w = Owner => Persists(w)
          /\ w # Owner => Persists(w) \/ Drops(w)
      <4>1. /\ Goto(w, "write", mem[w], reset_persist_state(mem[w], TRUE))
               \/ Return(w, reset_persist_state(mem[w], TRUE))
            /\ reset_persist_state(mem[w], TRUE) \in SessionPersistState /\ "write" \in PCs
        BY <2>0, <2>1, ResetState DEF append_json_line_fast, PCs
      <4>2. CASE Goto(w, "write", mem[w], reset_persist_state(mem[w], TRUE))
        BY <4>1, <4>2, GoesOn DEF Persists
      <4>3. CASE Return(w, reset_persist_state(mem[w], TRUE))
        BY <4>1, <4>3, ReturnEffect DEF Persists
      <4> QED BY <4>1, <4>2, <4>3
    <3>6. w # Owner => (persist[Owner].exists =>
               \A v \in Vectors : Grows(Owner, v) => Base(Owner, v) = mem[w].vec[v])
      BY <1>0, <3>1, <3>2 DEF CleanInv
    <3>7. OthersKeep(w) /\ pc'[w] # "append" /\ (w # Owner => pc'[w] # "idle")
      BY <2>0 DEF FileEffect
    <3> QED BY <2>s, <3>1, <3>2, <3>4, <3>5, <3>6, <3>7, CleanAfterSave
  <2>2. CASE AppendFails(w)
    BY <2>2, <2>w DEF AppendFails
  <2>3. CASE RenameToBackup(w)
    <3>1. /\ pc[w] = "write" /\ snapshot' \in {None, snapshot}
          /\ UNCHANGED <<journal, saved, trouble>>
          /\ Goto(w, "moved", mem[w], persist[w])
      BY <2>3 DEF RenameToBackup
    <3>2. pc'[w] = "moved" /\ Keeps(w) /\ OthersKeep(w)
      BY <3>1, GoesOn, CopyType DEF Keeps, PCs
    <3>3. /\ Busy(w) /\ Busy(w)' /\ \A q \in Writers : pc'[q] # "append"
          /\ trouble = "none"
      BY <2>s, <3>1, <3>2 DEF Busy, OthersKeep
    <3>4. \A q \in Writers : mem'[q] = mem[q] /\ persist'[q] = persist[q] /\ Busy(q)' = Busy(q)
      BY <3>2, <3>3 DEF Keeps, OthersKeep, Busy
    <3>5. saved = None => snapshot' = None
      <4>1. CASE w = Owner
        BY <3>1, <3>3, <4>1 DEF CleanInv
      <4>2. CASE w # Owner
        BY <1>0, <3>3, <4>2 DEF CleanInv
      <4> QED BY <4>1, <4>2
    <3> QED BY <1>0, <3>1, <3>3, <3>4, <3>5 DEF CleanInv, Quiet, Grows, Base
  <2>4. CASE RenameIntoPlace(w)
    <3>1. /\ pc[w] = "moved" /\ snapshot' = mem[w] /\ UNCHANGED <<journal, saved, trouble>>
          /\ Goto(w, "placed", mem[w], persist[w])
      BY <2>4 DEF RenameIntoPlace
    <3>2. pc'[w] = "placed" /\ Keeps(w) /\ OthersKeep(w)
      BY <3>1, GoesOn, CopyType DEF Keeps, PCs
    <3>3. /\ Busy(w) /\ Busy(w)' /\ \A q \in Writers : pc'[q] # "append"
          /\ trouble = "none"
      BY <2>s, <3>1, <3>2 DEF Busy, OthersKeep
    <3>4. \A q \in Writers : mem'[q] = mem[q] /\ persist'[q] = persist[q] /\ Busy(q)' = Busy(q)
      BY <3>2, <3>3 DEF Keeps, OthersKeep, Busy
    <3>5. saved = None => pc'[Owner] = "placed"
      BY <1>0, <3>2, <3>3 DEF CleanInv
    <3> QED BY <1>0, <3>1, <3>3, <3>4, <3>5 DEF CleanInv, Quiet, Grows, Base
  <2>5. CASE RemoveJournal(w)
    <3>1. /\ pc[w] = "placed" /\ saved' = mem[w] /\ snapshot' = snapshot
          /\ journal' = NoJournal
          /\ trouble' = IF w = Owner /\ trouble # "raced" THEN "none" ELSE trouble
          /\ Return(w, reset_persist_state(mem[w], TRUE))
      BY <2>5, <2>w DEF RemoveJournal
    <3>2. Busy(w) /\ snapshot = mem[w]
      BY <2>0, <3>1 DEF Busy, SoleInv
    <3>3. Loaded' = mem[w] /\ snapshot' # None
      BY <2>0, <3>1, <3>2, PlacedReads
    <3>4. (w = Owner => Persists(w)) /\ (w # Owner => Drops(w))
      <4>1. reset_persist_state(mem[w], TRUE) \in SessionPersistState
        BY <2>0, ResetState
      <4> QED BY <3>1, <4>1, ReturnEffect DEF Persists
    <3>5. w # Owner => (persist[Owner].exists =>
               \A v \in Vectors : Grows(Owner, v) => Base(Owner, v) = mem[w].vec[v])
      BY <1>0, <3>1, <3>2 DEF CleanInv
    <3>6. OthersKeep(w) /\ pc'[w] # "append" /\ (w # Owner => pc'[w] # "idle")
      BY <2>0 DEF FileEffect
    <3> QED BY <2>s, <3>1, <3>2, <3>3, <3>4, <3>5, <3>6, CleanAfterSave
  <2>6. CASE CheckpointFails(w)
    BY <2>6, <2>w DEF CheckpointFails
  <2>7. CASE Crash(w)
    <3>1. ~Busy(w) /\ trouble = "none" /\ pc[w] # "stopped" /\ Stop(w) /\ UNCHANGED <<snapshot, saved>>
      BY <2>7, <2>w DEF Crash
    <3>2. w = Owner /\ pc[w] = "idle" /\ journal' = journal
      BY <1>0, <2>7, <3>1 DEF RunInv, Busy, Crash
    <3>3. Drops(w) /\ OthersKeep(w) /\ NewSession \in Session
      BY <3>1, StopType, EmptyTypes DEF Drops, OthersKeep
    <3>4. persist'[Owner].exists = FALSE
      BY <3>2, <3>3, FreshBase DEF Drops
    <3>5. /\ \A q \in Writers : Busy(q)' = Busy(q) /\ (pc'[q] = "append" => pc[q] = "append")
          /\ \A c \in Clients : mem'[c] = mem[c]
      BY <1>0, <3>1, <3>2, <3>3 DEF Drops, OthersKeep, Busy
    <3>6. Loaded' = Loaded
      BY <3>1, <3>2 DEF Loaded
    <3> QED BY <1>0, <3>1, <3>2, <3>4, <3>5, <3>6 DEF CleanInv, ReadsBack, Quiet
  <2> QED BY <1>4, <2>1, <2>2, <2>3, <2>4, <2>5, <2>6, <2>7 DEF FileStep
<1>5. CASE UNCHANGED vars
  BY <1>5 DEF vars, CleanInv, ReadsBack, Loaded, Quiet, Busy, Grows, Base
<1> QED BY <1>1, <1>2, <1>3, <1>4, <1>5, Steps

(* In the state the server creates the session in, nothing is on disk and  *)
(* nothing counts as persisted.                                            *)
LEMMA InitInv == Init => RunInv /\ SoleInv /\ WholeInv /\ CleanInv
<1> SUFFICES ASSUME Init PROVE RunInv /\ SoleInv /\ WholeInv /\ CleanInv
  OBVIOUS
<1>0. Owner \in Writers /\ Clients \subseteq Writers /\ Owner \notin Clients
  BY WriterAssumption DEF Writers
<1>1. /\ \A w \in Writers : ~Busy(w) /\ pc[w] # "append" /\ pc[w] # "placed"
      /\ pc[Owner] = "idle" /\ \A c \in Clients : pc[c] = "stopped"
  BY <1>0 DEF Init, Busy
<1>2. ~persist[Owner].exists
  BY <1>0 DEF Init, reset_persist_state
<1>3. ASSUME NEW v \in Vectors PROVE Grows(Owner, v)
  <2>1. mem[Owner] = NewSession /\ persist[Owner] = reset_persist_state(NewSession, FALSE)
    BY <1>0 DEF Init
  <2>2. NewSession.vec[v] = <<>>
    BY DEF NewSession, NoItems
  <2> DEFINE ps == reset_persist_state(NewSession, FALSE)
  <2>3. ps.len[v] = Len(NewSession.vec[v]) /\ ps.full[v] = FALSE
    BY DEF reset_persist_state
  <2> HIDE DEF ps
  <2>4. persist[Owner] = ps
    BY <2>1 DEF ps
  <2>5. /\ persist[Owner].full[v] = FALSE /\ persist[Owner].len[v] = Len(mem[Owner].vec[v])
        /\ mem[Owner].vec[v] = <<>>
    BY <2>1, <2>2, <2>3, <2>4, Zenon
  <2>6. Len(mem[Owner].vec[v]) <= Len(mem[Owner].vec[v])
    BY <2>5
  <2> QED BY <2>5, <2>6, Zenon DEF Grows
<1>4. RunInv
  BY <1>0, <1>1, <1>2, <1>3 DEF RunInv
<1>5. SoleInv
  BY <1>1 DEF SoleInv
<1>6. WholeInv
  BY DEF WholeInv, Init, NoJournal
<1>7. CleanInv
  BY <1>0, <1>1, <1>2 DEF CleanInv, Init
<1> QED BY <1>4, <1>5, <1>6, <1>7

(* The invariants of the writers, the saves, the lines and the files.      *)
LEMMA CleanAlways == Spec => [](TypeOK /\ RunInv /\ SoleInv /\ WholeInv /\ CleanInv)
<1> DEFINE Inv == RunInv /\ SoleInv /\ WholeInv /\ CleanInv
<1>1. Init => Inv
  BY InitInv
<1>2. TypeOK /\ TypeOK' /\ Inv /\ [Next]_vars => Inv'
  BY RunStep, SoleStep, WholeStep, CleanStep
<1> QED BY <1>1, <1>2, TypeCorrect, PTL DEF Spec

(* As long as no save has failed, was cut off or met another, a quiet disk *)
(* reads back as exactly the session of the last save: the append of what  *)
(* the vectors gained and the checkpoint are the same to a load, whatever  *)
(* the owner and the clients did in between.                               *)
THEOREM QuietDiskReadsBack == Spec => []QuietDiskIsSaved
<1>1. CleanInv => QuietDiskIsSaved
  BY DEF CleanInv, ReadsBack, QuietDiskIsSaved
<1> QED BY <1>1, CleanAlways, PTL

-----------------------------------------------------------------------------
(* What a restart finds after a failure. *)

(* The items of a session are its own. *)
LEMMA WithinItself == \A s : Within(s, s)
BY DEF Within

(* A larger session has the items too. *)
LEMMA WithinTrans ==
    ASSUME NEW s, NEW t, NEW u, Within(t, u)
    PROVE  /\ Within(s, t) => Within(s, u)
           /\ BaseWithin(t) => BaseWithin(u)
BY DEF Within, BaseWithin

(* Appending to finished lines only adds to what a load reads. *)
LEMMA LoadedGrows ==
    ASSUME TypeOK, TypeOK', NEW w \in Writers, snapshot # None, snapshot' = snapshot,
           ~journal.bad,
           journal' = journal \/ \E how \in {"closed", "open", "torn"} : Appended(w, how)
    PROVE  Within(Loaded, Loaded')
<1>1. CASE journal' = journal
  <2>1. Loaded' = Loaded
    BY <1>1 DEF Loaded
  <2> QED BY <2>1, WithinItself
<1>2. ASSUME NEW how \in {"closed", "open", "torn"}, Appended(w, how)
      PROVE  Within(Loaded, Loaded')
  <2>1. journal'.replay \in {journal.replay, Replayed(journal.replay, SessionJournalEntry(w))}
    BY <1>2, AppendedLine
  <2>2. CASE journal'.replay = journal.replay
    <3>1. Loaded' = Loaded
      BY <2>2 DEF Loaded
    <3> QED BY <3>1, WithinItself
  <2>3. CASE journal'.replay = Replayed(journal.replay, SessionJournalEntry(w))
    <3>1. ASSUME NEW v \in Vectors PROVE Items(Loaded.vec[v]) \subseteq Items(Loaded'.vec[v])
      <4> DEFINE a == Loaded.vec[v]
                 b == SessionJournalEntry(w).vec[v]
      <4>1. Loaded'.vec[v] = a \o b
        BY <2>3, LineReads
      <4>2. a \in Seq(Nat) /\ b \in Seq(Nat)
        BY LoadedSession, EntryType DEF Session, Replay
      <4> HIDE DEF a, b
      <4>3. Items(a \o b) = Items(a) \cup Items(b)
        BY <4>2, ItemsOfConcat
      <4> QED BY <4>1, <4>3 DEF a
    <3> QED BY <3>1 DEF Within
  <2> QED BY <2>1, <2>2, <2>3
<1> QED BY <1>1, <1>2

(* What the owner counts as persisted is in its session. *)
LEMMA BaseOfCopy == ASSUME TypeOK PROVE BaseWithin(mem[Owner])
<1>0. Owner \in Writers
  BY DEF Writers
<1>1. ASSUME NEW v \in Vectors, Grows(Owner, v)
      PROVE  Items(Base(Owner, v)) \subseteq Items(mem[Owner].vec[v])
  <2> DEFINE a == Base(Owner, v)
             b == SessionJournalEntry(Owner).vec[v]
  <2>1. a \o b = mem[Owner].vec[v] /\ a \in Seq(Nat) /\ b \in Seq(Nat)
    BY <1>0, <1>1, LineCompletes
  <2> HIDE DEF a, b
  <2>2. Items(a \o b) = Items(a) \cup Items(b)
    BY <2>1, ItemsOfConcat
  <2> QED BY <2>1, <2>2 DEF a
<1> QED BY <1>1 DEF BaseWithin

(* A snapshot that is put in place is part of what a load reads, with or   *)
(* without the journal behind it.                                          *)
LEMMA SnapshotWithin ==
    ASSUME TypeOK, snapshot # None
    PROVE  Within(snapshot, Loaded)
<1>1. ASSUME NEW v \in Vectors PROVE Items(snapshot.vec[v]) \subseteq Items(Loaded.vec[v])
  <2> DEFINE a == snapshot.vec[v]
             b == journal.replay.vec[v]
  <2>1. a \in Seq(Nat) /\ b \in Seq(Nat) /\ Loaded.vec[v] = a \o b
    BY LoadedType
  <2> HIDE DEF a, b
  <2>2. Items(a \o b) = Items(a) \cup Items(b)
    BY <2>1, ItemsOfConcat
  <2> QED BY <2>1, <2>2 DEF a
<1> QED BY <1>1 DEF Within

(* A step of w that saves nothing and at most adds to the files. *)
LEMMA KeptGrows ==
    ASSUME TypeOK, KeptInv, trouble \in {"none", "cut"}, NEW w \in Writers,
           OthersKeep(w), Keeps(w) \/ Drops(w), Busy(w)' => Busy(w),
           saved' = saved, attempt' = attempt,
           snapshot' # None => snapshot # None /\ Within(Loaded, Loaded'),
           pc[Owner] \in {"stopped", "placed"} => pc'[Owner] = "stopped"
    PROVE  KeptInv'
<1>0. /\ Owner \in Writers /\ Clients \subseteq Writers /\ Owner \notin Clients
      /\ NewSession \in Session
  BY WriterAssumption, EmptyTypes DEF Writers
<1>1. persist'[Owner].exists =>
         /\ persist[Owner].exists /\ mem'[Owner] = mem[Owner] /\ persist'[Owner] = persist[Owner]
  <2>1. CASE w # Owner
    BY <1>0, <2>1 DEF OthersKeep
  <2>2. CASE w = Owner /\ Keeps(w)
    BY <2>2 DEF Keeps
  <2>3. CASE w = Owner /\ Drops(w)
    <3>1. persist'[Owner].exists = FALSE
      BY <1>0, <2>3, FreshBase DEF Drops
    <3> QED BY <3>1
  <2> QED BY <2>1, <2>2, <2>3
<1>3. ASSUME snapshot' # None
      PROVE  /\ \A s : Within(s, Loaded) => Within(s, Loaded')
             /\ BaseWithin(Loaded) => BaseWithin(Loaded')
  BY <1>3, WithinTrans
<1>4. \A c \in Clients : Busy(c)' => Busy(c) /\ mem'[c] = mem[c]
  BY <1>0 DEF OthersKeep, Keeps, Drops, Busy
<1>5. saved' # None /\ snapshot' # None => Within(saved', Loaded') \/ Within(attempt', Loaded')
  BY <1>3 DEF KeptInv
<1>6. saved' # None /\ snapshot' # None /\ pc'[Owner] \notin {"stopped", "placed"} =>
         Within(saved', Loaded')
  BY <1>3 DEF KeptInv
<1>7. snapshot' # None /\ persist'[Owner].exists => BaseWithin(Loaded)'
  BY <1>1, <1>3 DEF KeptInv, BaseWithin, Grows, Base
<1>8. ASSUME NEW c \in Clients, Busy(c)'
      PROVE  /\ snapshot' # None => Within(mem'[c], Loaded')
             /\ pc'[Owner] # "stopped" /\ saved' # None => Within(saved', mem'[c])
             /\ persist'[Owner].exists => BaseWithin(mem[c])'
  <2>1. /\ Busy(c) /\ mem'[c] = mem[c]
    BY <1>4, <1>8
  <2>2. snapshot' # None => Within(mem'[c], Loaded')
    BY <1>3, <2>1 DEF KeptInv
  <2>3. pc'[Owner] # "stopped" /\ saved' # None => Within(saved', mem'[c])
    BY <2>1 DEF KeptInv
  <2>4. persist'[Owner].exists => BaseWithin(mem[c])'
    BY <1>1, <2>1 DEF KeptInv, BaseWithin, Grows, Base
  <2> QED BY <2>2, <2>3, <2>4
<1> QED BY <1>5, <1>6, <1>7, <1>8 DEF KeptInv

(* The save of w has just succeeded. *)
LEMMA KeptAfterSave ==
    ASSUME TypeOK, NEW w \in Writers, OthersKeep(w), saved' = mem[w],
           snapshot' # None => Within(mem[w], Loaded'),
           \A q \in Writers \ {w} : ~Busy(q),
           w = Owner => Persists(w),
           w # Owner => /\ Persists(w) \/ Drops(w)
                        /\ persist[Owner].exists => BaseWithin(mem[w])
    PROVE  KeptInv'
<1>0. /\ mem[w] \in Session /\ Owner \in Writers
      /\ Clients \subseteq Writers /\ Owner \notin Clients
  BY CopyType, WriterAssumption DEF Writers
<1>1. ASSUME persist'[Owner].exists, NEW v \in Vectors, Grows(Owner, v)'
      PROVE  Items(Base(Owner, v)') \subseteq Items(mem[w].vec[v])
  <2>1. CASE w = Owner
    <3>1. Base(Owner, v)' = mem[w].vec[v]
      BY <1>0, <2>1, FreshBase DEF Persists
    <3> QED BY <3>1
  <2>2. CASE w # Owner
    <3>1. mem'[Owner] = mem[Owner] /\ persist'[Owner] = persist[Owner]
      BY <1>0, <2>2 DEF OthersKeep
    <3>2. BaseWithin(mem[w])
      BY <1>1, <2>2, <3>1
    <3> QED BY <1>1, <3>1, <3>2 DEF BaseWithin, Grows, Base
  <2> QED BY <2>1, <2>2
<1>2. snapshot' # None => Within(saved', Loaded')
  OBVIOUS
<1>3. snapshot' # None /\ persist'[Owner].exists => BaseWithin(Loaded)'
  BY <1>1 DEF BaseWithin, Within
<1>4. ASSUME NEW c \in Clients, Busy(c)'
      PROVE  /\ snapshot' # None => Within(mem'[c], Loaded')
             /\ Within(saved', mem'[c])
             /\ persist'[Owner].exists => BaseWithin(mem[c])'
  <2>1. c = w /\ ~Drops(w)
    BY <1>0, <1>4 DEF OthersKeep, Busy, Drops
  <2>2. mem'[c] = mem[w]
    BY <1>0, <2>1 DEF Persists
  <2>3. Within(saved', mem'[c])
    BY <2>2, WithinItself
  <2> QED BY <1>1, <2>2, <2>3 DEF BaseWithin
<1> QED BY <1>2, <1>3, <1>4 DEF KeptInv

(* Every step keeps the items of the last save where a restart finds them, *)
(* or notes that saves overlapped or that a line was spoiled.              *)
LEMMA KeptStep ==
    TypeOK /\ TypeOK' /\ RunInv /\ SoleInv /\ WholeInv /\ KeptInv /\ [Next]_vars => KeptInv'
<1> SUFFICES ASSUME TypeOK, TypeOK', RunInv, SoleInv, WholeInv, KeptInv, [Next]_vars,
                    trouble' \in {"none", "cut"}
             PROVE  KeptInv'
  BY DEF KeptInv
<1>0. /\ Owner \in Writers /\ Clients \subseteq Writers /\ Owner \notin Clients
      /\ Writers = Clients \cup {Owner}
  BY WriterAssumption DEF Writers
<1>1. CASE Mutate
  <2>1. /\ UNCHANGED <<pc, snapshot, journal, saved, attempt, trouble>>
        /\ persist'[Owner].exists = persist[Owner].exists
        /\ \A q \in Writers \ {Owner} : mem'[q] = mem[q]
        /\ \A v \in Vectors : Grows(Owner, v)' => Grows(Owner, v) /\ Base(Owner, v)' = Base(Owner, v)
    BY <1>1, MutateEffect
  <2>2. Loaded' = Loaded
    BY <2>1 DEF Loaded
  <2>3. /\ BaseWithin(Loaded) => BaseWithin(Loaded)'
        /\ \A c \in Clients : BaseWithin(mem[c]) => BaseWithin(mem[c])'
    BY <1>0, <2>1, <2>2 DEF BaseWithin
  <2> QED BY <1>0, <2>1, <2>2, <2>3 DEF KeptInv, Busy
<1>2. ASSUME NEW w \in Writers, NEW s \in Session, NEW ps \in SessionPersistState,
             Starts(w, s, ps)
      PROVE  KeptInv'
  <2>1. /\ OthersKeep(w) /\ mem'[w] = s /\ persist'[w] = ps
        /\ pc'[w] \in {"append", "write"} /\ Busy(w)' /\ attempt' = s
        /\ UNCHANGED <<snapshot, journal, saved>>
        /\ trouble \in {"none", "cut"} /\ \A q \in Writers \ {w} : ~Busy(q)
    BY <1>2, StartEffect
  <2>2. ~Busy(w) /\ Loaded' = Loaded
    BY <1>2, <2>1 DEF Starts, Loaded
  <2>3. \A q \in Writers \ {w} : ~Busy(q)'
    BY <2>1 DEF OthersKeep, Busy
  <2>4. CASE w = Owner
    <3>1. pc[w] = "idle" /\ mem'[Owner] = mem[Owner] /\ persist'[Owner] = persist[Owner]
      BY <1>0, <1>2, <2>1, <2>4 DEF Starts
    <3>2. \A c \in Clients : ~Busy(c)'
      BY <1>0, <2>3, <2>4
    <3>3. saved # None /\ snapshot # None => Within(saved, Loaded)
      BY <2>1, <2>4, <3>1 DEF KeptInv
    <3>4. snapshot # None /\ persist[Owner].exists => BaseWithin(Loaded)'
      BY <2>1, <2>2, <3>1 DEF KeptInv, BaseWithin, Grows, Base
    <3> QED BY <2>1, <2>2, <3>1, <3>2, <3>3, <3>4 DEF KeptInv
  <2>5. CASE w # Owner
    <3>1. /\ w \in Clients /\ snapshot # None
          /\ \A v \in Vectors : s.vec[v] = Loaded.vec[v]
      BY <1>0, <1>2, <2>5 DEF Starts
    <3>2. /\ mem'[Owner] = mem[Owner] /\ persist'[Owner] = persist[Owner]
          /\ pc'[Owner] = pc[Owner] /\ ~Busy(Owner)
      BY <1>0, <2>1, <2>5 DEF OthersKeep
    <3>3. Within(s, Loaded) /\ Within(Loaded, s)
      BY <3>1 DEF Within
    <3>4. saved # None /\ pc[Owner] # "stopped" => Within(saved, Loaded) /\ Within(saved, s)
      <4>1. pc[Owner] \notin {"placed"}
        BY <3>2 DEF Busy
      <4> QED BY <2>1, <3>1, <3>3, <4>1, WithinTrans DEF KeptInv
    <3>5. persist[Owner].exists => BaseWithin(Loaded) /\ BaseWithin(s)
      BY <2>1, <3>1, <3>3, WithinTrans DEF KeptInv
    <3>6. persist'[Owner].exists => BaseWithin(Loaded)' /\ BaseWithin(mem[w])'
      BY <2>1, <2>2, <3>2, <3>5 DEF BaseWithin, Grows, Base
    <3>7. \A c \in Clients : Busy(c)' => c = w
      BY <1>0, <2>3
    <3> QED BY <2>1, <2>2, <3>2, <3>3, <3>4, <3>6, <3>7 DEF KeptInv
  <2> QED BY <2>4, <2>5
<1>3. CASE load
  <2>1. /\ OthersKeep(Owner) /\ pc'[Owner] = "idle" /\ saved' = Loaded
        /\ UNCHANGED <<snapshot, journal>> /\ \A c \in Clients : ~Busy(c)
    BY <1>3, LoadEffect
  <2>2. /\ mem'[Owner] = Loaded /\ Loaded' = Loaded
    BY <1>3, <2>1, LoadEffect DEF Loaded
  <2>3. \A c \in Clients : ~Busy(c)'
    BY <1>0, <2>1 DEF OthersKeep, Busy
  <2>4. BaseWithin(mem[Owner])'
    <3>1. (TypeOK => BaseWithin(mem[Owner]))'
      BY BaseOfCopy, PTL
    <3> QED BY <3>1
  <2>5. BaseWithin(Loaded)'
    BY <2>2, <2>4 DEF BaseWithin
  <2> QED BY <2>1, <2>2, <2>3, <2>5, WithinItself DEF KeptInv
<1>4. ASSUME NEW w \in Writers, FileStep(w) \/ Crash(w) PROVE KeptInv'
  <2>0. FileEffect(w) /\ trouble # "raced" /\ mem[w] \in Session /\ mem[w] # None
    BY <1>4, FileEffects, CopyType, NoneAssumption DEF FileEffect
  <2>w. /\ trouble \in {"none", "cut", "spoiled", "raced"}
        /\ Worse("cut") = IF trouble = "none" THEN "cut" ELSE trouble
        /\ Worse("spoiled") = IF trouble = "raced" THEN "raced" ELSE "spoiled"
    BY WorseTrouble DEF TypeOK
  <2>s. Busy(w) => \A q \in Writers \ {w} : ~Busy(q)
    BY <2>0 DEF SoleInv
  <2>f. /\ OthersKeep(w) /\ attempt' = attempt /\ (Busy(w)' => Busy(w))
        /\ journal' = NoJournal
           \/ /\ trouble \in {"none", "cut"}
              /\ journal' = journal \/ \E how \in {"closed", "open", "torn"} : Appended(w, how)
    BY <2>0 DEF FileEffect
  <2>g. ASSUME trouble \in {"none", "cut"}, snapshot' \in {None, snapshot},
               journal' = journal \/ \E how \in {"closed", "open", "torn"} : Appended(w, how)
        PROVE  snapshot' # None => snapshot # None /\ Within(Loaded, Loaded')
    BY <2>g, LoadedGrows DEF WholeInv
  <2>1. CASE append_json_line_fast(w)
    <3>1. /\ pc[w] = "append" /\ saved' = mem[w] /\ snapshot' = snapshot
          /\ journal' = AppendLine(journal, SessionJournalEntry(w), "closed")
          /\ journal.tail = "closed" /\ trouble \in {"none", "cut"}
      BY <2>1, <2>w DEF append_json_line_fast
    <3>2. Appended(w, "closed") /\ Busy(w) /\ ~journal.bad
      BY <3>1 DEF Appended, Busy, WholeInv
    <3>3. ASSUME snapshot' # None PROVE Within(mem[w], Loaded')
      <4>1. Within(Loaded, Loaded')
        BY <2>g, <3>1, <3>2, <3>3
      <4>2. CASE w = Owner
        <5>1. BaseWithin(Loaded) /\ \A v \in Vectors : Grows(w, v)
          BY <3>1, <3>3, <4>2 DEF KeptInv, RunInv
        <5>2. /\ journal'.replay = Replayed(journal.replay, SessionJournalEntry(w))
              /\ snapshot # None
          BY <3>1, <3>2, <3>3, AppendedLine
        <5>3. ASSUME NEW v \in Vectors PROVE Items(mem[w].vec[v]) \subseteq Items(Loaded'.vec[v])
          <6> DEFINE a == Loaded.vec[v]
                     b == SessionJournalEntry(w).vec[v]
                     base == Base(w, v)
          <6>1. Loaded'.vec[v] = a \o b
            BY <3>1, <5>2, LineReads
          <6>2. /\ base \o b = mem[w].vec[v] /\ base \in Seq(Nat) /\ b \in Seq(Nat)
                /\ a \in Seq(Nat) /\ Items(base) \subseteq Items(a)
            <7>1. base \o b = mem[w].vec[v] /\ base \in Seq(Nat) /\ b \in Seq(Nat)
              BY <5>1, LineCompletes
            <7>2. a \in Seq(Nat)
              BY <5>2, LoadedSession DEF Session
            <7>3. Items(base) \subseteq Items(a)
              BY <4>2, <5>1 DEF BaseWithin
            <7> QED BY <7>1, <7>2, <7>3
          <6> HIDE DEF a, b, base
          <6>3. Items(a \o b) = Items(a) \cup Items(b) /\ Items(base \o b) = Items(base) \cup Items(b)
            BY <6>2, ItemsOfConcat
          <6> QED BY <6>1, <6>2, <6>3
        <5> QED BY <5>3 DEF Within
      <4>3. CASE w # Owner
        <5>1. Within(mem[w], Loaded)
          BY <1>0, <3>1, <3>2, <3>3, <4>3 DEF KeptInv
        <5> QED BY <4>1, <5>1, WithinTrans
      <4> QED BY <4>2, <4>3
    <3>4. /\ w = Owner => Persists(w)
          /\ w # Owner => Persists(w) \/ Drops(w)
      <4>1. /\ Goto(w, "write", mem[w], reset_persist_state(mem[w], TRUE))
               \/ Return(w, reset_persist_state(mem[w], TRUE))
            /\ reset_persist_state(mem[w], TRUE) \in SessionPersistState /\ "write" \in PCs
        BY <2>0, <2>1, ResetState DEF append_json_line_fast, PCs
      <4>2. CASE Goto(w, "write", mem[w], reset_persist_state(mem[w], TRUE))
        BY <4>1, <4>2, GoesOn DEF Persists
      <4>3. CASE Return(w, reset_persist_state(mem[w], TRUE))
        BY <4>1, <4>3, ReturnEffect DEF Persists
      <4> QED BY <4>1, <4>2, <4>3
    <3>5. w # Owner => (persist[Owner].exists => BaseWithin(mem[w]))
      BY <1>0, <3>1, <3>2 DEF KeptInv
    <3> QED BY <2>f, <2>s, <3>1, <3>2, <3>3, <3>4, <3>5, KeptAfterSave
  <2>2. CASE AppendFails(w)
    <3>1. /\ pc[w] = "append" /\ snapshot' = snapshot /\ saved' = saved
          /\ Goto(w, "write", mem[w], persist[w])
          /\ journal.tail = "closed" /\ trouble \in {"none", "cut"}
      BY <2>2, <2>w DEF AppendFails
    <3>2. journal' = journal \/ \E how \in {"closed", "open", "torn"} : Appended(w, how)
      BY <2>2, <3>1 DEF AppendFails, Appended
    <3>3. snapshot' # None => snapshot # None /\ Within(Loaded, Loaded')
      BY <2>g, <3>1, <3>2
    <3>4. Keeps(w) /\ pc'[w] = "write"
      BY <3>1, GoesOn, CopyType DEF Keeps, PCs
    <3>5. pc[Owner] \in {"stopped", "placed"} => pc'[Owner] = "stopped"
      BY <1>0, <2>f, <2>s, <3>1, <3>4 DEF OthersKeep, Busy
    <3> QED BY <2>f, <3>1, <3>3, <3>4, <3>5, KeptGrows
  <2>3. CASE RenameToBackup(w)
    <3>1. /\ pc[w] = "write" /\ snapshot' \in {None, snapshot}
          /\ UNCHANGED <<journal, saved, trouble>>
          /\ Goto(w, "moved", mem[w], persist[w])
      BY <2>3 DEF RenameToBackup
    <3>2. snapshot' # None => snapshot # None /\ Within(Loaded, Loaded')
      BY <2>g, <3>1
    <3>3. Keeps(w) /\ pc'[w] = "moved"
      BY <3>1, GoesOn, CopyType DEF Keeps, PCs
    <3>4. pc[Owner] \in {"stopped", "placed"} => pc'[Owner] = "stopped"
      BY <1>0, <2>f, <2>s, <3>1, <3>3 DEF OthersKeep, Busy
    <3> QED BY <2>f, <3>1, <3>2, <3>3, <3>4, KeptGrows
  <2>4. CASE RenameIntoPlace(w)
    <3>1. /\ pc[w] = "moved" /\ snapshot' = mem[w] /\ UNCHANGED <<journal, saved, trouble>>
          /\ Goto(w, "placed", mem[w], persist[w])
      BY <2>4 DEF RenameIntoPlace
    <3>2. pc'[w] = "placed" /\ Keeps(w)
      BY <3>1, GoesOn, CopyType DEF Keeps, PCs
    <3>3. Busy(w) /\ attempt = mem[w]
      BY <2>0, <3>1 DEF Busy, SoleInv
    <3>4. Within(mem[w], Loaded')
      <4>1. (TypeOK /\ snapshot # None => Within(snapshot, Loaded))'
        BY SnapshotWithin, PTL
      <4>2. Within(snapshot, Loaded)' = Within(snapshot', Loaded')
        BY DEF Within
      <4> QED BY <2>0, <3>1, <4>1, <4>2
    <3>5. mem'[Owner] = mem[Owner] /\ persist'[Owner] = persist[Owner]
      BY <1>0, <2>f, <3>2 DEF Keeps, OthersKeep
    <3>6. ASSUME persist[Owner].exists PROVE BaseWithin(mem[w])
      <4>1. CASE w = Owner
        BY <4>1, BaseOfCopy
      <4>2. CASE w # Owner
        BY <1>0, <3>1, <3>3, <3>6, <4>2 DEF KeptInv
      <4> QED BY <4>1, <4>2
    <3>7. persist'[Owner].exists => BaseWithin(Loaded)' /\ BaseWithin(mem[w])'
      <4>1. persist[Owner].exists => BaseWithin(Loaded')
        BY <3>4, <3>6, WithinTrans
      <4> QED BY <3>2, <3>5, <3>6, <4>1 DEF BaseWithin, Grows, Base, Keeps
    <3>8. ASSUME w # Owner, saved # None, pc[Owner] # "stopped"
          PROVE  Within(saved, mem[w]) /\ Within(saved, Loaded')
      <4>1. Within(saved, mem[w])
        BY <1>0, <3>1, <3>3, <3>8 DEF KeptInv
      <4> QED BY <3>4, <4>1, WithinTrans
    <3>9. /\ \A c \in Clients : Busy(c)' => c = w
          /\ w # Owner => pc'[Owner] = pc[Owner]
          /\ mem'[w] = mem[w]
      BY <1>0, <2>f, <2>s, <3>2, <3>3 DEF OthersKeep, Busy, Keeps
    <3> QED BY <2>f, <3>1, <3>2, <3>3, <3>4, <3>7, <3>8, <3>9 DEF KeptInv
  <2>5. CASE RemoveJournal(w)
    <3>1. /\ pc[w] = "placed" /\ saved' = mem[w] /\ snapshot' = snapshot
          /\ Return(w, reset_persist_state(mem[w], TRUE))
          /\ w # Owner => trouble \in {"none", "cut"}
      BY <2>5, <2>w DEF RemoveJournal
    <3>2. Busy(w) /\ snapshot = mem[w]
      BY <2>0, <3>1 DEF Busy, SoleInv
    <3>3. Within(mem[w], Loaded')
      <4>1. (TypeOK /\ snapshot # None => Within(snapshot, Loaded))'
        BY SnapshotWithin, PTL
      <4>2. Within(snapshot, Loaded)' = Within(snapshot', Loaded')
        BY DEF Within
      <4> QED BY <2>0, <3>1, <3>2, <4>1, <4>2
    <3>4. (w = Owner => Persists(w)) /\ (w # Owner => Drops(w))
      <4>1. reset_persist_state(mem[w], TRUE) \in SessionPersistState
        BY <2>0, ResetState
      <4> QED BY <3>1, <4>1, ReturnEffect DEF Persists
    <3>5. w # Owner => (persist[Owner].exists => BaseWithin(mem[w]))
      BY <1>0, <3>1, <3>2 DEF KeptInv
    <3> QED BY <2>f, <2>s, <3>1, <3>2, <3>3, <3>4, <3>5, KeptAfterSave
  <2>6. CASE CheckpointFails(w)
    <3>1. /\ pc[w] \in {"write", "moved"} /\ UNCHANGED <<snapshot, journal, saved>>
          /\ Return(w, persist[w]) /\ trouble \in {"none", "cut"}
      BY <2>6, <2>w DEF CheckpointFails, disk
    <3>2. snapshot' # None => snapshot # None /\ Within(Loaded, Loaded')
      BY <2>g, <3>1
    <3>3. Keeps(w) \/ Drops(w)
      BY <3>1, ReturnEffect, CopyType DEF Keeps
    <3>4. pc[Owner] \in {"stopped", "placed"} => pc'[Owner] = "stopped"
      BY <1>0, <2>f, <2>s, <3>1 DEF OthersKeep, Busy
    <3> QED BY <2>f, <3>1, <3>2, <3>3, <3>4, KeptGrows
  <2>7. CASE Crash(w)
    <3>1. /\ pc[w] # "stopped" /\ Stop(w) /\ UNCHANGED <<snapshot, saved>>
          /\ trouble \in {"none", "cut"}
      BY <2>7, <2>w DEF Crash
    <3>2. Drops(w)
      BY <3>1, StopType DEF Drops
    <3>3. journal' = journal \/ \E how \in {"closed", "open", "torn"} : Appended(w, how)
      <4>1. \/ journal' = journal
            \/ /\ pc[w] = "append" /\ Busy(w)
               /\ \E how \in {"closed", "open", "torn"} :
                    journal' = AppendLine(journal, SessionJournalEntry(w), how)
        BY <2>7 DEF Crash, Busy
      <4>2. pc[w] = "append" /\ Busy(w) => journal.tail = "closed"
        BY <2>7, <2>w DEF Crash
      <4> QED BY <4>1, <4>2 DEF Appended
    <3>4. snapshot' # None => snapshot # None /\ Within(Loaded, Loaded')
      BY <2>g, <3>1, <3>3
    <3>5. pc[Owner] \in {"stopped", "placed"} => pc'[Owner] = "stopped"
      <4>1. CASE w = Owner
        BY <3>2, <4>1 DEF Drops
      <4>2. CASE w # Owner
        <5>1. Busy(w) /\ pc'[Owner] = pc[Owner]
          BY <1>0, <2>f, <3>1, <4>2 DEF RunInv, Busy, OthersKeep
        <5> QED BY <1>0, <2>s, <4>2, <5>1 DEF Busy
      <4> QED BY <4>1, <4>2
    <3> QED BY <2>f, <3>1, <3>2, <3>4, <3>5, KeptGrows
  <2> QED BY <1>4, <2>1, <2>2, <2>3, <2>4, <2>5, <2>6, <2>7 DEF FileStep
<1>5. CASE UNCHANGED vars
  BY <1>5 DEF vars, KeptInv, Loaded, Busy, BaseWithin, Grows, Base
<1> QED BY <1>1, <1>2, <1>3, <1>4, <1>5, Steps

(* Whatever crashes and failed writes came between, a restart that can     *)
(* read the files finds every item of the session that was saved last, or  *)
(* every item of the save that was cut off after it, unless saves          *)
(* overlapped or a line was appended to an unfinished one.                 *)
THEOREM RestartKeepsSaved == Spec => LoadKeepsSaved
<1>1. Init => KeptInv
  <2>1. ASSUME Init PROVE saved = None /\ snapshot = None /\ \A c \in Clients : ~Busy(c)
    BY <2>1, WriterAssumption DEF Init, Busy, Writers
  <2> QED BY <2>1 DEF KeptInv
<1>2. TypeOK /\ KeptInv /\ [Next]_vars =>
         [(load /\ saved # None /\ trouble \in {"none", "cut"}) =>
            \E s \in {saved, attempt} : \A v \in Vectors :
               Items(s.vec[v]) \subseteq Items(mem'[Owner].vec[v])]_vars
  <2> SUFFICES ASSUME TypeOK, KeptInv, load, saved # None, trouble \in {"none", "cut"}
               PROVE  \E s \in {saved, attempt} : \A v \in Vectors :
                         Items(s.vec[v]) \subseteq Items(mem'[Owner].vec[v])
    OBVIOUS
  <2>1. mem'[Owner] = Loaded /\ snapshot # None
    BY LoadEffect
  <2>2. \E s \in {saved, attempt} : Within(s, Loaded)
    BY <2>1 DEF KeptInv
  <2> QED BY <2>1, <2>2 DEF Within
<1>3. Spec => []KeptInv
  BY <1>1, CleanAlways, KeptStep, PTL DEF Spec
<1> QED BY <1>2, <1>3, CleanAlways, PTL DEF Spec, LoadKeepsSaved
=============================================================================
