------------------------ MODULE FollowupQueueProofs -------------------------
(* What the followup queue keeps of every message, for any number of       *)
(* messages, queue objects, settings and failing runs.                     *)
EXTENDS FollowupQueue, FiniteSetTheorems, SequenceTheorems, TLAPS

(* An object that was not made is as Init left it.                         *)
Unmade ==
    \A id \in Queues : id > made => drain[id] = Off /\ queue[id].items = <<>>

Running(id) == drain[id].pc = "run"
Prompted(id, m) == Running(id) /\ m \in ToSet(drain[id].turn.prompt)
Behind(id, m) == m \in ToSet(DropFirst(queue[id].items, drain[id].turn.remove))

(* What m may still be answered for: a place in an object or in the prompt *)
(* of its run, and a second one behind the items that the run takes away.  *)
Claims(m) ==
    {c \in Queues \X {1, 2} :
        \/ c[2] = 1 /\ (m \in ToSet(queue[c[1]].items) \/ Prompted(c[1], m))
        \/ c[2] = 2 /\ Prompted(c[1], m) /\ Behind(c[1], m)}
Claimed == \A m \in Messages : answered[m] + Cardinality(Claims(m)) <= accepted[m]

(* While nothing risky happened, the object that is drained is the one the *)
(* key names, and a run takes away what is in its prompt.                  *)
Ours == \A id \in Queues : drain[id].pc # "off" => id = current
Taken ==
    \A id \in Queues : Running(id) =>
        LET t == drain[id].turn
            q == queue[id]
        IN  /\ t.remove <= Len(q.items) /\ Len(t.prompt) = t.remove
            /\ \A i \in 1 .. t.remove : q.items[i] = t.prompt[i]
            /\ t.summary => t.listed = q.summaryLines
Careful == ~risky => Ours /\ Taken /\ \A m \in Messages : ~Lost(m)

Inv == TypeOK /\ QueuesSound /\ Unmade /\ Claimed /\ Careful

-----------------------------------------------------------------------------
(* Sequences.                                                              *)

LEMMA ToSetKnown ==
  ASSUME NEW S, NEW s \in Seq(S)
  PROVE  /\ ToSet(s) = {s[i] : i \in 1 .. Len(s)} /\ ToSet(s) \subseteq S
         /\ s = <<>> <=> Len(s) = 0
         /\ s = <<>> => ToSet(s) = {}
         /\ \A i \in 1 .. Len(s) : s[i] \in ToSet(s)
         /\ \A x \in ToSet(s) : \E i \in 1 .. Len(s) : x = s[i]
  <1>1. DOMAIN s = 1 .. Len(s) /\ Len(s) \in Nat
    BY LenProperties
  <1>2. \A i \in 1 .. Len(s) : s[i] \in S
    BY ElementOfSeq
  <1>3. s = <<>> <=> Len(s) = 0
    BY EmptySeq
  <1> QED BY <1>1, <1>2, <1>3 DEF ToSet

LEMMA DropFirstKnown ==
  ASSUME NEW S, NEW s \in Seq(S), NEW n \in Nat
  PROVE  LET d == DropFirst(s, n) IN
         /\ d \in Seq(S) /\ Len(d) = IF n >= Len(s) THEN 0 ELSE Len(s) - n
         /\ \A i \in 1 .. Len(d) : d[i] = s[i + n]
         /\ ToSet(d) = {s[i] : i \in n + 1 .. Len(s)}
         /\ IsInjective(s) => IsInjective(d)
  <1> DEFINE d == DropFirst(s, n)
  <1>1. Len(s) \in Nat /\ DOMAIN s = 1 .. Len(s) /\ \A i \in 1 .. Len(s) : s[i] \in S
    BY LenProperties, ElementOfSeq
  <1>2. CASE n >= Len(s)
    <2>1. d = <<>>
      BY <1>2 DEF DropFirst
    <2>2. n + 1 .. Len(s) = {}
      BY <1>1, <1>2
    <2>3. <<>> \in Seq(S) /\ Len(<<>>) = 0 /\ ToSet(<<>>) = {}
      BY EmptySeq, ToSetKnown
    <2>4. DOMAIN d = {} /\ IsInjective(d)
      BY <2>1 DEF IsInjective
    <2>5. {s[i] : i \in n + 1 .. Len(s)} = {}
      BY <2>2
    <2> HIDE DEF d
    <2>6. /\ d \in Seq(S) /\ Len(d) = 0 /\ ToSet(d) = {s[i] : i \in n + 1 .. Len(s)}
          /\ \A i \in 1 .. Len(d) : d[i] = s[i + n]
      <3>1. d \in Seq(S) /\ Len(d) = 0 /\ ToSet(d) = {}
        BY <2>1, <2>3
      <3>2. 1 .. Len(d) = {}
        BY <3>1
      <3> QED BY <2>5, <3>1, <3>2
    <2> QED BY <1>2, <2>4, <2>6 DEF d
  <1>3. CASE n < Len(s)
    <2>1. d = SubSeq(s, n + 1, Len(s))
      BY <1>1, <1>3 DEF DropFirst
    <2>2. \A i \in n + 1 .. Len(s) : s[i] \in S
      BY <1>1
    <2> HIDE DEF d
    <2>3. /\ d \in Seq(S) /\ Len(d) = Len(s) - n
          /\ \A i \in 1 .. Len(s) - (n + 1) + 1 : d[i] = s[(n + 1) + i - 1]
      <3>1. \A k, l \in Int : (\A i \in k .. l : s[i] \in S) =>
                /\ SubSeq(s, k, l) \in Seq(S)
                /\ Len(SubSeq(s, k, l)) = IF k <= l THEN l - k + 1 ELSE 0
                /\ \A i \in 1 .. l - k + 1 : SubSeq(s, k, l)[i] = s[k + i - 1]
        BY SubSeqProperties
      <3>2. n + 1 \in Int /\ Len(s) \in Int /\ n + 1 <= Len(s)
            /\ Len(s) - (n + 1) + 1 = Len(s) - n
        BY <1>1, <1>3
      <3>3. /\ d \in Seq(S)
            /\ Len(d) = IF n + 1 <= Len(s) THEN Len(s) - (n + 1) + 1 ELSE 0
            /\ \A i \in 1 .. Len(s) - (n + 1) + 1 : d[i] = s[(n + 1) + i - 1]
        BY <2>1, <2>2, <3>1, <3>2
      <3> QED BY <3>2, <3>3
    <2>4. \A i \in 1 .. Len(d) : d[i] = s[i + n] /\ i + n \in n + 1 .. Len(s)
      BY <1>1, <1>3, <2>3
    <2>5. ToSet(d) = {s[i] : i \in n + 1 .. Len(s)}
      <3>1. ToSet(d) = {d[i] : i \in 1 .. Len(d)}
        BY <2>3, ToSetKnown
      <3>2. ASSUME NEW i \in n + 1 .. Len(s)
            PROVE  i - n \in 1 .. Len(d) /\ d[i - n] = s[i]
        BY <1>1, <1>3, <2>3, <2>4
      <3>3. ToSet(d) \subseteq {s[i] : i \in n + 1 .. Len(s)}
        BY <2>4, <3>1
      <3>4. {s[i] : i \in n + 1 .. Len(s)} \subseteq ToSet(d)
        BY <3>1, <3>2
      <3> QED BY <3>3, <3>4
    <2>6. ASSUME IsInjective(s)
          PROVE  IsInjective(d)
      <3>1. DOMAIN d = 1 .. Len(d)
        BY <2>3, LenProperties
      <3>2. ASSUME NEW a \in 1 .. Len(d), NEW b \in 1 .. Len(d), d[a] = d[b]
            PROVE  a = b
        <4>1. s[a + n] = s[b + n] /\ a + n \in 1 .. Len(s) /\ b + n \in 1 .. Len(s)
          BY <1>1, <1>3, <2>3, <2>4, <3>2
        <4>2. a + n = b + n
          BY <1>1, <2>6, <4>1 DEF IsInjective
        <4> QED BY <4>2
      <3> QED BY <3>1, <3>2 DEF IsInjective
    <2>7. Len(d) = IF n >= Len(s) THEN 0 ELSE Len(s) - n
      <3>1. Len(d) = Len(s) - n
        BY <2>3
      <3>2. Len(s) \in Nat /\ ~(n >= Len(s))
        BY <1>1, <1>3
      <3> QED BY <3>1, <3>2
    <2> QED BY <2>3, <2>4, <2>5, <2>6, <2>7 DEF d
  <1>4. n >= Len(s) \/ n < Len(s)
    BY <1>1
  <1> QED BY <1>2, <1>3, <1>4

LEMMA DroppedSet ==
  ASSUME NEW S
  PROVE  \A s \in Seq(S), n \in Nat :
             ToSet(DropFirst(s, n)) = {s[i] : i \in n + 1 .. Len(s)}
  <1> TAKE s \in Seq(S), n \in Nat
  <1>1. /\ DropFirst(s, n) \in Seq(S)
        /\ ToSet(DropFirst(s, n)) = {s[i] : i \in n + 1 .. Len(s)}
    BY DropFirstKnown
  <1> QED BY <1>1

(* What is behind n items is behind them as well when others went before.  *)
LEMMA DropTwice ==
  ASSUME NEW S, NEW s \in Seq(S), NEW k \in Nat, NEW n \in Nat
  PROVE  /\ ToSet(DropFirst(s, k)) \subseteq ToSet(s)
         /\ ToSet(DropFirst(DropFirst(s, k), n)) \subseteq ToSet(DropFirst(s, n))
  <1> DEFINE d == DropFirst(s, k)
  <1>1. /\ d \in Seq(S) /\ Len(d) = IF k >= Len(s) THEN 0 ELSE Len(s) - k
        /\ \A i \in 1 .. Len(d) : d[i] = s[i + k]
        /\ ToSet(d) = {s[i] : i \in k + 1 .. Len(s)}
    BY DropFirstKnown
  <1> HIDE DEF d
  <1>2. ToSet(DropFirst(s, n)) = {s[i] : i \in n + 1 .. Len(s)}
    BY DroppedSet
  <1>3. ToSet(DropFirst(d, n)) = {d[i] : i \in n + 1 .. Len(d)}
    BY <1>1, DroppedSet
  <1>4. Len(s) \in Nat /\ ToSet(s) = {s[i] : i \in 1 .. Len(s)}
    BY LenProperties, ToSetKnown
  <1>5. ASSUME NEW i \in n + 1 .. Len(d)
        PROVE  d[i] = s[i + k] /\ i + k \in n + 1 .. Len(s)
    BY <1>1, <1>4, <1>5
  <1>6. ToSet(DropFirst(d, n)) \subseteq ToSet(DropFirst(s, n))
    BY <1>2, <1>3, <1>5
  <1>7. ToSet(d) \subseteq ToSet(s)
    BY <1>1, <1>4
  <1> QED BY <1>6, <1>7 DEF d

LEMMA AppendKnown ==
  ASSUME NEW S, NEW s \in Seq(S), NEW e \in S, NEW n \in Nat
  PROVE  LET a == Append(s, e) IN
         /\ a \in Seq(S) /\ a # <<>> /\ Len(a) = Len(s) + 1 /\ \A i \in 1 .. Len(s) : a[i] = s[i]
         /\ ToSet(a) = ToSet(s) \cup {e}
         /\ ToSet(DropFirst(a, n)) \subseteq ToSet(DropFirst(s, n)) \cup {e}
         /\ (IsInjective(s) /\ e \notin ToSet(s)) => IsInjective(a)
  <1> DEFINE a == Append(s, e)
  <1>1. /\ a \in Seq(S) /\ a # <<>> /\ Len(a) = Len(s) + 1 /\ \A i \in 1 .. Len(s) : a[i] = s[i]
        /\ a[Len(s) + 1] = e /\ Len(s) \in Nat
    BY AppendProperties, LenProperties
  <1>2. /\ ToSet(a) = {a[i] : i \in 1 .. Len(a)} /\ ToSet(s) = {s[i] : i \in 1 .. Len(s)}
        /\ DOMAIN a = 1 .. Len(a) /\ DOMAIN s = 1 .. Len(s)
    BY <1>1, ToSetKnown, LenProperties
  <1> HIDE DEF a
  <1>3. /\ ToSet(DropFirst(a, n)) = {a[i] : i \in n + 1 .. Len(a)}
        /\ ToSet(DropFirst(s, n)) = {s[i] : i \in n + 1 .. Len(s)}
    <2>1. \A z \in Seq(S) : ToSet(DropFirst(z, n)) = {z[i] : i \in n + 1 .. Len(z)}
      BY DroppedSet
    <2> QED BY <1>1, <2>1
  <1>4. ToSet(a) = ToSet(s) \cup {e}
    <2>1. \A i \in 1 .. Len(a) : i \in 1 .. Len(s) \/ i = Len(s) + 1
      BY <1>1
    <2>2. \A i \in 1 .. Len(s) : i \in 1 .. Len(a)
      BY <1>1
    <2>3. Len(s) + 1 \in 1 .. Len(a)
      BY <1>1
    <2> QED BY <1>1, <1>2, <2>1, <2>2, <2>3
  <1>5. ToSet(DropFirst(a, n)) \subseteq ToSet(DropFirst(s, n)) \cup {e}
    <2>1. \A i \in n + 1 .. Len(a) : (i \in n + 1 .. Len(s) /\ i \in 1 .. Len(s)) \/ i = Len(s) + 1
      BY <1>1
    <2> QED BY <1>1, <1>3, <2>1
  <1>6. ASSUME IsInjective(s), e \notin ToSet(s)
        PROVE  IsInjective(a)
    <2>1. ASSUME NEW i \in 1 .. Len(a), NEW k \in 1 .. Len(a), a[i] = a[k]
          PROVE  i = k
      <3>1. \A l \in 1 .. Len(s) : a[l] = s[l] /\ s[l] # e
        BY <1>1, <1>2, <1>6
      <3>2. (i \in 1 .. Len(s) \/ i = Len(s) + 1) /\ (k \in 1 .. Len(s) \/ k = Len(s) + 1)
        BY <1>1
      <3> QED BY <1>1, <1>2, <1>6, <2>1, <3>1, <3>2 DEF IsInjective
    <2> QED BY <1>2, <2>1 DEF IsInjective
  <1> QED BY <1>1, <1>4, <1>5, <1>6 DEF a

LEMMA ConcatSet ==
  ASSUME NEW S, NEW s \in Seq(S), NEW t \in Seq(S)
  PROVE  s \o t \in Seq(S) /\ ToSet(s \o t) = ToSet(s) \cup ToSet(t)
  <1> DEFINE c == s \o t
  <1>1. /\ c \in Seq(S) /\ Len(c) = Len(s) + Len(t) /\ Len(s) \in Nat /\ Len(t) \in Nat
        /\ \A i \in 1 .. Len(s) + Len(t) : c[i] = IF i <= Len(s) THEN s[i] ELSE t[i - Len(s)]
    BY ConcatProperties, LenProperties
  <1> HIDE DEF c
  <1>2. /\ ToSet(c) = {c[i] : i \in 1 .. Len(c)} /\ ToSet(s) = {s[i] : i \in 1 .. Len(s)}
        /\ ToSet(t) = {t[i] : i \in 1 .. Len(t)}
    BY <1>1, ToSetKnown
  <1>3. ToSet(c) \subseteq ToSet(s) \cup ToSet(t)
    <2>1. ASSUME NEW i \in 1 .. Len(c)
          PROVE  c[i] \in ToSet(s) \cup ToSet(t)
      <3>1. CASE i <= Len(s)
        BY <1>1, <1>2, <3>1
      <3>2. CASE i > Len(s)
        <4>1. i - Len(s) \in 1 .. Len(t)
          BY <1>1, <3>2
        <4> QED BY <1>1, <1>2, <3>2, <4>1
      <3> QED BY <1>1, <3>1, <3>2
    <2> QED BY <1>2, <2>1
  <1>4. ToSet(s) \subseteq ToSet(c)
    <2>1. ASSUME NEW i \in 1 .. Len(s)
          PROVE  i \in 1 .. Len(c) /\ c[i] = s[i]
      BY <1>1
    <2> QED BY <1>2, <2>1
  <1>5. ToSet(t) \subseteq ToSet(c)
    <2>1. ASSUME NEW i \in 1 .. Len(t)
          PROVE  i + Len(s) \in 1 .. Len(c) /\ c[i + Len(s)] = t[i]
      <3>1. /\ i + Len(s) \in 1 .. Len(s) + Len(t) /\ ~(i + Len(s) <= Len(s))
            /\ (i + Len(s)) - Len(s) = i
        BY <1>1
      <3> QED BY <1>1, <3>1
    <2> QED BY <1>2, <2>1
  <1> QED BY <1>1, <1>3, <1>4, <1>5 DEF c

-----------------------------------------------------------------------------
(* Queue objects.                                                          *)

(* What settings never change, and a new object.                           *)
LEMMA SettingsKnown ==
  ASSUME NEW s \in Settings
  PROVE  /\ \A q \in QueueObject :
               LET new == WithSettings(q, s) IN
               /\ new \in QueueObject /\ new.items = q.items /\ new.droppedCount = q.droppedCount
               /\ new.summaryLines = q.summaryLines
         /\ NewQueue(s) \in QueueObject /\ NewQueue(s).items = <<>>
         /\ NewQueue(s).droppedCount = 0 /\ NewQueue(s).summaryLines = <<>>
  <1>1. <<>> \in Seq(Messages)
    BY EmptySeq
  <1> QED BY <1>1 DEF WithSettings, NewQueue, Settings, QueueObject

LEMMA LastLinesKnown ==
  ASSUME NEW lines \in Seq(Messages), NEW limit \in Nat
  PROVE  LastLines(lines, limit) \in Seq(Messages) /\ Len(LastLines(lines, limit)) <= Len(lines)
  <1>1. Len(lines) \in Nat
    BY LenProperties
  <1>2. CASE Len(lines) <= limit
    BY <1>1, <1>2 DEF LastLines
  <1>3. CASE ~(Len(lines) <= limit)
    <2> DEFINE n == Len(lines) - limit
               d == DropFirst(lines, n)
    <2>1. n \in Nat
      BY <1>1, <1>3
    <2>2. LastLines(lines, limit) = d
      BY <1>3 DEF LastLines
    <2> HIDE DEF n
    <2>3. d \in Seq(Messages) /\ Len(d) = IF n >= Len(lines) THEN 0 ELSE Len(lines) - n
      BY <2>1, DropFirstKnown
    <2> HIDE DEF d
    <2> QED BY <1>1, <2>1, <2>2, <2>3
  <1> QED BY <1>2, <1>3

(* The items that go, and those that stay.                                 *)
LEMMA OverflowKnown ==
  ASSUME NEW q \in QueueObject, Overflows(q)
  PROVE  LET gone == Overflow(q)
             kept == DropFirst(q.items, Len(gone))
         IN  /\ gone \in Seq(Messages) /\ Len(gone) \in Nat /\ kept \in Seq(Messages)
             /\ ToSet(q.items) \subseteq ToSet(gone) \cup ToSet(kept)
  <1> DEFINE n == Len(q.items) - q.cap + 1
             gone == SubSeq(q.items, 1, n)
             kept == DropFirst(q.items, Len(gone))
  <1>1. /\ q.items \in Seq(Messages) /\ Len(q.items) \in Nat /\ q.cap \in Nat \ {0}
        /\ q.cap <= Len(q.items)
    <2>1. q.items \in Seq(Messages) /\ q.cap \in Nat \ {0} /\ Len(q.items) >= q.cap
      BY DEF QueueObject, Overflows
    <2> QED BY <2>1, LenProperties
  <1>2. n \in Nat /\ 1 <= n /\ n <= Len(q.items) /\ n - 1 + 1 = n
    BY <1>1
  <1>3. Overflow(q) = gone
    BY DEF Overflow
  <1> HIDE DEF n
  <1>4. gone \in Seq(Messages) /\ Len(gone) = n /\ \A i \in 1 .. n : gone[i] = q.items[i]
    <2>1. \A k, l \in Int : (\A i \in k .. l : q.items[i] \in Messages) =>
              /\ SubSeq(q.items, k, l) \in Seq(Messages)
              /\ Len(SubSeq(q.items, k, l)) = IF k <= l THEN l - k + 1 ELSE 0
              /\ \A i \in 1 .. l - k + 1 : SubSeq(q.items, k, l)[i] = q.items[k + i - 1]
      BY SubSeqProperties
    <2>2. \A i \in 1 .. n : q.items[i] \in Messages /\ 1 + i - 1 = i
      BY <1>1, <1>2, ElementOfSeq
    <2> QED BY <1>2, <2>1, <2>2
  <1>5. /\ kept \in Seq(Messages)
        /\ ToSet(kept) = {q.items[i] : i \in n + 1 .. Len(q.items)}
    <2>1. kept = DropFirst(q.items, n)
      BY <1>4
    <2> HIDE DEF kept
    <2> QED BY <1>1, <1>2, <2>1, DropFirstKnown
  <1>6. ToSet(gone) = {gone[i] : i \in 1 .. n} /\ ToSet(q.items) = {q.items[i] : i \in 1 .. Len(q.items)}
    <2> HIDE DEF gone
    <2>1. \A z \in Seq(Messages) : ToSet(z) = {z[i] : i \in 1 .. Len(z)}
      BY ToSetKnown
    <2> QED BY <1>1, <1>4, <2>1
  <1>7. ASSUME NEW i \in 1 .. Len(q.items)
        PROVE  i \in 1 .. n \/ i \in n + 1 .. Len(q.items)
    BY <1>1, <1>2
  <1>8. ToSet(q.items) \subseteq ToSet(gone) \cup ToSet(kept)
    <2> HIDE DEF gone, kept
    <2> QED BY <1>4, <1>5, <1>6, <1>7
  <1> QED BY <1>2, <1>3, <1>4, <1>5, <1>8

(* Making room: no message disappears that is not forgotten.               *)
LEMMA MakeRoomKnown ==
  ASSUME NEW q \in QueueObject, Overflows(q), Len(q.summaryLines) <= q.droppedCount
  PROVE  LET new == MakeRoom(q) IN
         /\ new \in QueueObject /\ Len(new.summaryLines) <= new.droppedCount
         /\ \E k \in Nat : new.items = DropFirst(q.items, k)
         /\ Forgotten(q) \subseteq Messages
         /\ ToSet(q.items) \cup ToSet(q.summaryLines) \subseteq
                ToSet(new.items) \cup ToSet(new.summaryLines) \cup Forgotten(q)
  <1> DEFINE gone == Overflow(q)
             new == MakeRoom(q)
             lines == q.summaryLines \o gone
             some == LastLines(lines, q.cap)
  <1>1. /\ q.summaryLines \in Seq(Messages) /\ q.droppedCount \in Nat /\ q.cap \in Nat
        /\ Len(q.summaryLines) \in Nat
    <2>1. q.summaryLines \in Seq(Messages) /\ q.droppedCount \in Nat /\ q.cap \in Nat
      BY DEF QueueObject
    <2> QED BY <2>1, LenProperties
  <1>2. /\ gone \in Seq(Messages) /\ Len(gone) \in Nat
        /\ DropFirst(q.items, Len(gone)) \in Seq(Messages)
        /\ ToSet(q.items) \subseteq ToSet(gone) \cup ToSet(DropFirst(q.items, Len(gone)))
    BY OverflowKnown
  <1> HIDE DEF gone
  <1>3. /\ lines \in Seq(Messages) /\ Len(lines) = Len(q.summaryLines) + Len(gone)
        /\ ToSet(lines) = ToSet(q.summaryLines) \cup ToSet(gone)
    BY <1>1, <1>2, ConcatSet, ConcatProperties
  <1> HIDE DEF lines
  <1>4. some \in Seq(Messages) /\ Len(some) <= Len(lines) /\ Len(some) \in Nat
    <2>1. some \in Seq(Messages) /\ Len(some) <= Len(lines)
      BY <1>1, <1>3, LastLinesKnown
    <2> HIDE DEF some
    <2> QED BY <2>1, LenProperties
  <1> HIDE DEF some
  <1>5. ToSet(gone) \subseteq Messages /\ ToSet(lines) \subseteq Messages
    BY <1>2, <1>3, ToSetKnown
  <1>6. CASE q.dropPolicy = "old"
    <2>1. /\ new \in QueueObject /\ new.items = DropFirst(q.items, Len(gone))
          /\ new.summaryLines = q.summaryLines /\ new.droppedCount = q.droppedCount
      BY <1>2, <1>6 DEF gone, MakeRoom, QueueObject
    <2>2. Forgotten(q) = ToSet(gone)
      BY <1>6 DEF Forgotten, gone
    <2> HIDE DEF new
    <2> QED BY <1>2, <1>5, <2>1, <2>2 DEF new
  <1>7. CASE q.dropPolicy # "old"
    <2>1. /\ new \in QueueObject /\ new.items = DropFirst(q.items, Len(gone))
          /\ new.summaryLines = some /\ new.droppedCount = q.droppedCount + Len(gone)
      <3> DEFINE kept == [q EXCEPT !.items = DropFirst(q.items, Len(gone))]
                 count == q.droppedCount + Len(gone)
      <3>1. /\ kept \in QueueObject /\ kept.items = DropFirst(q.items, Len(gone))
            /\ kept.droppedCount = q.droppedCount /\ kept.summaryLines = q.summaryLines
        BY <1>2 DEF QueueObject
      <3>2. new = [kept EXCEPT !.droppedCount = kept.droppedCount + Len(gone),
                               !.summaryLines = LastLines(kept.summaryLines \o gone, q.cap)]
        BY <1>7 DEF gone, MakeRoom
      <3> HIDE DEF kept
      <3>3. new = [kept EXCEPT !.droppedCount = count, !.summaryLines = some]
        BY <3>1, <3>2 DEF some, lines
      <3>4. count \in Nat
        BY <1>1, <1>2
      <3> HIDE DEF count, new
      <3>5. new \in QueueObject /\ new.items = kept.items /\ new.summaryLines = some /\ new.droppedCount = count
        BY <1>4, <3>1, <3>3, <3>4 DEF QueueObject
      <3> QED BY <3>1, <3>5 DEF count
    <2>2. Forgotten(q) = ToSet(lines) \ ToSet(new.summaryLines)
      BY <1>7 DEF Forgotten, gone, lines
    <2> HIDE DEF new
    <2>3. Len(new.summaryLines) <= new.droppedCount
      BY <1>1, <1>2, <1>3, <1>4, <2>1
    <2>4. ToSet(q.items) \cup ToSet(q.summaryLines) \subseteq
              ToSet(new.items) \cup ToSet(new.summaryLines) \cup Forgotten(q)
      BY <1>2, <1>3, <2>1, <2>2
    <2>5. Forgotten(q) \subseteq Messages
      BY <1>5, <2>2
    <2> QED BY <1>2, <2>1, <2>3, <2>4, <2>5 DEF new
  <1> QED BY <1>6, <1>7

-----------------------------------------------------------------------------
(* Claims.                                                                 *)

LEMMA FewerElements ==
  ASSUME NEW C, NEW D, IsFiniteSet(D)
  PROVE  /\ C \subseteq D => IsFiniteSet(C) /\ Cardinality(C) <= Cardinality(D)
         /\ \A x : C \subseteq D \cup {x} => Cardinality(C) <= Cardinality(D) + 1
         /\ \A x : (C \subseteq D \ {x} /\ x \in D) => Cardinality(C) + 1 <= Cardinality(D)
         /\ Cardinality(D) \in Nat
  <1>1. Cardinality(D) \in Nat
    BY FS_CardinalityType
  <1>2. \A E : C \subseteq E /\ IsFiniteSet(E) =>
              IsFiniteSet(C) /\ Cardinality(C) <= Cardinality(E) /\ Cardinality(C) \in Nat
    <2>1. \A E : C \subseteq E /\ IsFiniteSet(E) => IsFiniteSet(C) /\ Cardinality(C) <= Cardinality(E)
      BY FS_Subset
    <2>2. IsFiniteSet(C) => Cardinality(C) \in Nat
      BY FS_CardinalityType
    <2> QED BY <2>1, <2>2
  <1>3. ASSUME NEW x, C \subseteq D \cup {x}
        PROVE  Cardinality(C) <= Cardinality(D) + 1
    <2>1. /\ IsFiniteSet(D \cup {x})
          /\ Cardinality(D \cup {x}) = IF x \in D THEN Cardinality(D) ELSE Cardinality(D) + 1
      BY FS_AddElement
    <2> QED BY <1>1, <1>2, <1>3, <2>1
  <1>4. ASSUME NEW x, C \subseteq D \ {x}, x \in D
        PROVE  Cardinality(C) + 1 <= Cardinality(D)
    <2>1. /\ IsFiniteSet(D \ {x})
          /\ Cardinality(D \ {x}) = IF x \in D THEN Cardinality(D) - 1 ELSE Cardinality(D)
      BY FS_RemoveElement
    <2> QED BY <1>1, <1>2, <1>4, <2>1
  <1> QED BY <1>1, <1>2, <1>3, <1>4

LEMMA ClaimsFinite ==
  ASSUME NEW m
  PROVE  IsFiniteSet(Claims(m)) /\ Claims(m) \subseteq Queues \X {1, 2}
  <1>1. IsFiniteSet(Queues)
    BY FollowupAssumption, FS_Interval DEF Queues
  <1>2. IsFiniteSet({1, 2})
    <2>1. IsFiniteSet({1})
      BY FS_Singleton
    <2>2. {1, 2} = {1} \cup {2}
      OBVIOUS
    <2> QED BY <2>1, <2>2, FS_AddElement
  <1>3. IsFiniteSet(Queues \X {1, 2})
    BY <1>1, <1>2, FS_Product
  <1> QED BY <1>3, FS_Subset DEF Claims

(* Where no message was accepted and none answered, none may claim more.   *)
LEMMA ClaimsKept ==
  ASSUME Claimed, UNCHANGED <<accepted, answered>>,
         accepted \in [Messages -> Nat], answered \in [Messages -> Nat],
         \A m \in Messages : Claims(m)' \subseteq Claims(m)
  PROVE  Claimed'
  <1>1. ASSUME NEW m \in Messages
        PROVE  answered'[m] + Cardinality(Claims(m)') <= accepted'[m]
    <2> DEFINE new == Claims(m)'
    <2>1. new \subseteq Claims(m) /\ IsFiniteSet(Claims(m))
      BY ClaimsFinite
    <2> HIDE DEF new
    <2>2. Cardinality(new) <= Cardinality(Claims(m)) /\ Cardinality(Claims(m)) \in Nat
          /\ IsFiniteSet(new)
      BY <2>1, FewerElements
    <2>3. Cardinality(new) \in Nat
      BY <2>2, FS_CardinalityType
    <2>4. answered[m] + Cardinality(Claims(m)) <= accepted[m]
      BY DEF Claimed
    <2>5. answered[m] \in Nat /\ accepted[m] \in Nat
      OBVIOUS
    <2>6. answered[m] + Cardinality(new) <= accepted[m]
      BY <2>2, <2>3, <2>4, <2>5
    <2> QED BY <2>6 DEF new
  <1> QED BY <1>1 DEF Claimed

(* What the invariant says of the types.                                   *)
LEMMA Types ==
  ASSUME Inv
  PROVE  /\ queue \in [Queues -> QueueObject] /\ drain \in [Queues -> Drain]
         /\ accepted \in [Messages -> Nat] /\ answered \in [Messages -> Nat]
         /\ made \in Nat /\ MaxQueues \in Nat \ {0} /\ made <= MaxQueues
         /\ \A id \in Queues :
               /\ id \in Nat /\ id # None
               /\ queue[id] \in QueueObject /\ drain[id] \in Drain
               /\ queue[id].items \in Seq(Messages) /\ queue[id].summaryLines \in Seq(Messages)
               /\ queue[id].droppedCount \in Nat
               /\ drain[id].turn \in Turns /\ drain[id].turn.remove \in Nat
               /\ drain[id].pc \in {"off", "debounce", "run"}
               /\ IsInjective(queue[id].items)
               /\ Len(queue[id].summaryLines) <= queue[id].droppedCount
         /\ current # None => current \in Queues /\ current <= made
         /\ NoTurn \in Turns /\ Off \in Drain
  <1>1. TypeOK /\ QueuesSound
    BY DEF Inv
  <1>2. MaxQueues \in Nat \ {0}
    BY FollowupAssumption
  <1>3. /\ queue \in [Queues -> QueueObject] /\ drain \in [Queues -> Drain]
        /\ accepted \in [Messages -> Nat] /\ answered \in [Messages -> Nat]
        /\ made \in 0..MaxQueues /\ current \in {None} \cup 1..made
    BY <1>1 DEF TypeOK
  <1>4. ASSUME NEW id \in Queues
        PROVE  /\ id \in Nat /\ id # None
               /\ queue[id] \in QueueObject /\ drain[id] \in Drain
               /\ queue[id].items \in Seq(Messages) /\ queue[id].summaryLines \in Seq(Messages)
               /\ queue[id].droppedCount \in Nat
               /\ drain[id].turn \in Turns /\ drain[id].turn.remove \in Nat
               /\ drain[id].pc \in {"off", "debounce", "run"}
    <2>1. id \in Nat /\ id # None
      BY <1>2 DEF Queues, None
    <2>2. queue[id] \in QueueObject /\ drain[id] \in Drain
      BY <1>3
    <2> QED BY <2>1, <2>2 DEF QueueObject, Drain, Turns
  <1>5. current # None => current \in Queues /\ current <= made
    BY <1>2, <1>3 DEF Queues
  <1>6. NoTurn \in Turns /\ Off \in Drain
    <2>1. <<>> \in Seq(Messages)
      BY EmptySeq
    <2> QED BY <2>1 DEF NoTurn, Off, Turns, Drain
  <1> QED BY <1>1, <1>2, <1>3, <1>4, <1>5, <1>6 DEF QueuesSound

(* With nothing risky, a message that is accounted for nowhere else is in  *)
(* the object that the key names.                                          *)
LEMMA InCurrent ==
  ASSUME Inv, ~risky, NEW m \in Messages,
         accepted[m] > 0, answered[m] = 0, m \notin told \cup removed
  PROVE  /\ current \in Queues
         /\ m \in ToSet(queue[current].items) \cup ToSet(queue[current].summaryLines)
  <1>1. Reachable(m)
    BY DEF Inv, Careful, Lost
  <1>2. PICK id \in Queues : /\ id = current \/ drain[id].pc # "off"
                             /\ m \in ToSet(queue[id].items \o queue[id].summaryLines)
    BY <1>1 DEF Reachable
  <1>3. id = current
    BY <1>2 DEF Inv, Careful, Ours
  <1>4. ToSet(queue[id].items \o queue[id].summaryLines) =
            ToSet(queue[id].items) \cup ToSet(queue[id].summaryLines)
    BY Types, ConcatSet
  <1> QED BY <1>2, <1>3, <1>4

LEMMA InReach ==
  ASSUME NEW id \in Queues, NEW m,
         queue[id].items \in Seq(Messages), queue[id].summaryLines \in Seq(Messages),
         m \in ToSet(queue[id].items) \cup ToSet(queue[id].summaryLines), id = current
  PROVE  Reachable(m)
  <1>1. ToSet(queue[id].items \o queue[id].summaryLines) =
            ToSet(queue[id].items) \cup ToSet(queue[id].summaryLines)
    BY ConcatSet
  <1> QED BY <1>1 DEF Reachable

-----------------------------------------------------------------------------
(* Enqueueing.                                                             *)

(* The object that takes a message becomes new: what it held is in it, or  *)
(* removed, and what was accepted is in it.                                *)
Arrives(id, new) ==
    /\ IF current = None THEN id = made + 1 /\ made' = id ELSE id = current /\ made' = made
    /\ new \in QueueObject /\ IsInjective(new.items) /\ Len(new.summaryLines) <= new.droppedCount
    /\ queue' = [queue EXCEPT ![id] = new] /\ current' = id
    /\ drain[id].pc = "off" => ~Empty(new)
    /\ UNCHANGED <<config, drain, failures, answered, told>>
    /\ arrivals' \in 0 .. MaxArrivals /\ accepted' \in [Messages -> Nat]
    /\ \A m \in Messages : accepted'[m] = accepted[m] \/ m \in ToSet(new.items)
    /\ removed \subseteq removed' /\ removed' \subseteq Messages /\ risky' \in BOOLEAN
    /\ \/ current = None
       \/ ToSet(queue[id].items) \cup ToSet(queue[id].summaryLines) \subseteq
              ToSet(new.items) \cup ToSet(new.summaryLines) \cup removed'
    /\ ~risky' =>
          /\ ~risky
          /\ Running(id) =>
                /\ Len(queue[id].items) <= Len(new.items)
                /\ \A i \in 1 .. Len(queue[id].items) : new.items[i] = queue[id].items[i]
                /\ new.summaryLines = queue[id].summaryLines

LEMMA ArrivalInv ==
  ASSUME Inv, Claimed', NEW id \in Queues, NEW new, Arrives(id, new)
  PROVE  Inv'
  <1> USE DEF Arrives
  <1>1. /\ queue \in [Queues -> QueueObject] /\ made \in Nat /\ MaxQueues \in Nat /\ id \in Nat /\ id # None
        /\ id >= 1 /\ id <= MaxQueues
    BY Types DEF Queues
  <1>2. /\ queue' \in [Queues -> QueueObject] /\ queue'[id] = new
        /\ \A k \in Queues : k # id => queue'[k] = queue[k]
    BY <1>1
  <1>3. made' \in 0 .. MaxQueues /\ made <= made' /\ current' \in 1 .. made'
    <2>1. current # None => current <= made /\ made <= MaxQueues
      BY Types
    <2> QED BY <1>1, <2>1
  <1>4. TypeOK'
    BY <1>2, <1>3 DEF Inv, TypeOK
  <1>5. QueuesSound'
    <2>1. ASSUME NEW k \in Queues
          PROVE  IsInjective(queue'[k].items) /\ Len(queue'[k].summaryLines) <= queue'[k].droppedCount
      BY <1>2, Types
    <2>2. (current' # None /\ drain'[current'].pc = "off") => ~Empty(queue'[current'])
      BY <1>2
    <2> QED BY <2>1, <2>2 DEF QueuesSound
  <1>6. Unmade'
    <2>1. ASSUME NEW k \in Queues, k > made'
          PROVE  drain[k] = Off /\ queue'[k].items = <<>>
      <3>1. k > made /\ k # id
        <4>1. k \in Nat
          BY Types
        <4>2. current # None => current <= made
          BY Types
        <4> QED BY <1>1, <1>3, <2>1, <4>1, <4>2
      <3> QED BY <1>2, <3>1 DEF Inv, Unmade
    <2> QED BY <2>1 DEF Unmade
  <1>7. ASSUME ~risky'
        PROVE  Ours' /\ Taken' /\ \A m \in Messages : ~Lost(m)'
    <2>1. Ours /\ Taken /\ ~risky
      BY <1>7 DEF Inv, Careful
    <2>2. Ours'
      <3>1. ASSUME NEW k \in Queues, drain[k].pc # "off"
            PROVE  k = id
        <4>1. k = current /\ k # None
          BY <2>1, <3>1, Types DEF Ours
        <4> QED BY <4>1
      <3> QED BY <3>1 DEF Ours
    <2>3. Taken'
      <3>1. ASSUME NEW k \in Queues, Running(k)
            PROVE  LET t == drain[k].turn
                       q == queue'[k]
                   IN  /\ t.remove <= Len(q.items) /\ Len(t.prompt) = t.remove
                       /\ \A i \in 1 .. t.remove : q.items[i] = t.prompt[i]
                       /\ t.summary => t.listed = q.summaryLines
        <4>1. LET t == drain[k].turn
                  q == queue[k]
              IN  /\ t.remove <= Len(q.items) /\ Len(t.prompt) = t.remove
                  /\ \A i \in 1 .. t.remove : q.items[i] = t.prompt[i]
                  /\ t.summary => t.listed = q.summaryLines
          BY <2>1, <3>1 DEF Taken
        <4>2. /\ Len(queue[k].items) \in Nat /\ Len(queue'[k].items) \in Nat
              /\ drain[k].turn.remove \in Nat
          <5>1. queue[k].items \in Seq(Messages) /\ queue'[k].items \in Seq(Messages)
            BY <1>2, Types DEF QueueObject
          <5> QED BY <5>1, LenProperties, Types
        <4>3. CASE k = id
          BY <1>2, <1>7, <3>1, <4>1, <4>2, <4>3
        <4>4. CASE k # id
          BY <1>2, <4>1, <4>4
        <4> QED BY <4>3, <4>4
      <3> QED BY <3>1 DEF Taken, Running
    <2>4. ASSUME NEW m \in Messages, accepted'[m] > 0, answered[m] = 0, m \notin told \cup removed'
          PROVE  Reachable(m)'
      <3>1. m \in ToSet(new.items) \cup ToSet(new.summaryLines)
        <4>1. CASE m \in ToSet(new.items)
          BY <4>1
        <4>2. CASE accepted'[m] = accepted[m]
          <5>1. /\ current \in Queues
                /\ m \in ToSet(queue[current].items) \cup ToSet(queue[current].summaryLines)
            BY <2>1, <2>4, <4>2, InCurrent
          <5>2. id = current /\ current # None
            BY <5>1, Types
          <5> QED BY <2>4, <5>1, <5>2
        <4> QED BY <4>1, <4>2
      <3>2. /\ queue'[id].items \in Seq(Messages) /\ queue'[id].summaryLines \in Seq(Messages)
            /\ m \in ToSet(queue'[id].items) \cup ToSet(queue'[id].summaryLines)
        BY <1>2, <3>1 DEF QueueObject
      <3>3. ToSet(queue'[id].items \o queue'[id].summaryLines) =
                ToSet(queue'[id].items) \cup ToSet(queue'[id].summaryLines)
        BY <3>2, ConcatSet
      <3> QED BY <3>2, <3>3 DEF Reachable
    <2> QED BY <2>2, <2>3, <2>4 DEF Lost
  <1> QED BY <1>4, <1>5, <1>6, <1>7 DEF Inv, Careful

(* No claim is made by an object that has the same items as before, or     *)
(* only some of them, in their order.                                      *)
LEMMA ClaimsOfItems ==
  ASSUME Inv, NEW id \in Queues, NEW new,
         queue' = [queue EXCEPT ![id] = new], UNCHANGED drain, NEW m \in Messages,
         m \in ToSet(new.items) => m \in ToSet(queue[id].items),
         \A n \in Nat : m \in ToSet(DropFirst(new.items, n)) => m \in ToSet(DropFirst(queue[id].items, n))
  PROVE  Claims(m)' \subseteq Claims(m)
  <1>1. /\ queue'[id] = new /\ \A k \in Queues : k # id => queue'[k] = queue[k]
        /\ \A k \in Queues : drain[k].turn.remove \in Nat
    BY Types
  <1>2. ASSUME NEW k \in Queues
        PROVE  /\ m \in ToSet(queue'[k].items) => m \in ToSet(queue[k].items)
               /\ Behind(k, m)' => Behind(k, m)
    BY <1>1 DEF Behind
  <1>3. ASSUME NEW k \in Queues
        PROVE  Prompted(k, m)' <=> Prompted(k, m)
    BY DEF Prompted, Running
  <1>4. ASSUME NEW c \in Queues \X {1, 2}
        PROVE  c[1] \in Queues
    OBVIOUS
  <1> QED BY <1>2, <1>3, <1>4 DEF Claims

(* The object that a message comes to, with its settings.                  *)
LEMMA EnqueueKnown ==
  ASSUME Inv, NEW m \in Messages, NEW s \in config, enqueueFollowupRun(m, s)
  PROVE  LET made1 == IF current = None THEN made + 1 ELSE made
             id == IF current = None THEN made1 ELSE current
             q == WithSettings(IF current = None THEN NewQueue(s) ELSE queue[id], s)
         IN  /\ id \in Queues
             /\ IF current = None THEN id = made + 1 /\ made' = id ELSE id = current /\ made' = made
             /\ q \in QueueObject /\ q.items = queue[id].items /\ IsInjective(q.items)
             /\ Len(q.summaryLines) <= q.droppedCount
             /\ current # None => q.summaryLines = queue[id].summaryLines
                                  /\ q.droppedCount = queue[id].droppedCount
             /\ current = None => q.items = <<>> /\ drain[id].pc = "off"
  <1> DEFINE made1 == IF current = None THEN made + 1 ELSE made
             id == IF current = None THEN made1 ELSE current
             q == WithSettings(IF current = None THEN NewQueue(s) ELSE queue[id], s)
  <1>1. s \in Settings
    BY FollowupAssumption DEF Inv, TypeOK
  <1>2. made1 <= MaxQueues /\ made' = made1 /\ made \in Nat /\ MaxQueues \in Nat
    BY Types DEF enqueueFollowupRun
  <1>3. CASE current = None
    <2>1. id = made + 1 /\ made' = id /\ id \in Queues /\ id > made
      BY <1>2, <1>3 DEF Queues
    <2>2. drain[id] = Off /\ queue[id].items = <<>>
      BY <2>1 DEF Inv, Unmade
    <2>3. q = WithSettings(NewQueue(s), s)
      BY <1>3
    <2> HIDE DEF q, id
    <2>4. q \in QueueObject /\ q.items = <<>> /\ q.droppedCount = 0 /\ q.summaryLines = <<>>
      BY <1>1, <2>3, SettingsKnown
    <2>5. IsInjective(<<>>) /\ Len(<<>>) = 0
      BY DEF IsInjective
    <2>6. Len(q.summaryLines) <= q.droppedCount
      BY <2>4, <2>5
    <2>7. drain[id].pc = "off"
      BY <2>2 DEF Off
    <2> QED BY <1>3, <2>1, <2>2, <2>4, <2>5, <2>6, <2>7 DEF id, q
  <1>4. CASE current # None
    <2>1. id = current /\ made' = made /\ id \in Queues
      BY <1>2, <1>4, Types
    <2>2. q = WithSettings(queue[id], s)
      BY <1>4
    <2>3. /\ queue[id] \in QueueObject /\ IsInjective(queue[id].items)
          /\ Len(queue[id].summaryLines) <= queue[id].droppedCount
      BY <2>1, Types
    <2> HIDE DEF q, id
    <2>4. /\ q \in QueueObject /\ q.items = queue[id].items /\ q.droppedCount = queue[id].droppedCount
          /\ q.summaryLines = queue[id].summaryLines
      BY <1>1, <2>2, <2>3, SettingsKnown
    <2> QED BY <1>4, <2>1, <2>3, <2>4 DEF id, q
  <1> QED BY <1>3, <1>4

(* The object before the message is pushed.                                *)
LEMMA RoomKnown ==
  ASSUME NEW q \in QueueObject, IsInjective(q.items), Len(q.summaryLines) <= q.droppedCount,
         NEW makesRoom \in BOOLEAN, makesRoom => Overflows(q)
  PROVE  LET base == IF makesRoom THEN MakeRoom(q) ELSE q IN
         /\ base \in QueueObject /\ IsInjective(base.items)
         /\ Len(base.summaryLines) <= base.droppedCount
         /\ ToSet(base.items) \subseteq ToSet(q.items)
         /\ \A n \in Nat : ToSet(DropFirst(base.items, n)) \subseteq ToSet(DropFirst(q.items, n))
         /\ makesRoom => /\ Forgotten(q) \subseteq Messages
                         /\ ToSet(q.items) \cup ToSet(q.summaryLines) \subseteq
                                ToSet(base.items) \cup ToSet(base.summaryLines) \cup Forgotten(q)
  <1>1. q.items \in Seq(Messages)
    BY DEF QueueObject
  <1>2. CASE makesRoom
    <2> DEFINE base == MakeRoom(q)
    <2>1. /\ base \in QueueObject /\ Len(base.summaryLines) <= base.droppedCount
          /\ \E k \in Nat : base.items = DropFirst(q.items, k)
          /\ Forgotten(q) \subseteq Messages
          /\ ToSet(q.items) \cup ToSet(q.summaryLines) \subseteq
                 ToSet(base.items) \cup ToSet(base.summaryLines) \cup Forgotten(q)
      BY <1>2, MakeRoomKnown
    <2> HIDE DEF base
    <2>2. PICK k \in Nat : base.items = DropFirst(q.items, k)
      BY <2>1
    <2>3. IsInjective(base.items)
      BY <1>1, <2>2, DropFirstKnown
    <2>4. /\ ToSet(base.items) \subseteq ToSet(q.items)
          /\ \A n \in Nat : ToSet(DropFirst(base.items, n)) \subseteq ToSet(DropFirst(q.items, n))
      BY <1>1, <2>2, DropTwice
    <2> QED BY <1>2, <2>1, <2>3, <2>4 DEF base
  <1>3. CASE ~makesRoom
    BY <1>3
  <1> QED BY <1>2, <1>3

LEMMA PushKnown ==
  ASSUME NEW base \in QueueObject, IsInjective(base.items), NEW m \in Messages,
         m \notin ToSet(base.items)
  PROVE  LET new == Push(base, m) IN
         /\ new \in QueueObject /\ IsInjective(new.items) /\ ~Empty(new)
         /\ new.summaryLines = base.summaryLines /\ new.droppedCount = base.droppedCount
         /\ ToSet(new.items) = ToSet(base.items) \cup {m}
         /\ \A n \in Nat :
               ToSet(DropFirst(new.items, n)) \subseteq ToSet(DropFirst(base.items, n)) \cup {m}
         /\ Len(base.items) <= Len(new.items)
         /\ \A i \in 1 .. Len(base.items) : new.items[i] = base.items[i]
  <1> DEFINE a == Append(base.items, m)
  <1>1. base.items \in Seq(Messages) /\ Len(base.items) \in Nat
    <2>1. base.items \in Seq(Messages)
      BY DEF QueueObject
    <2> QED BY <2>1, LenProperties
  <1>2. /\ a \in Seq(Messages) /\ a # <<>> /\ Len(a) = Len(base.items) + 1
        /\ \A i \in 1 .. Len(base.items) : a[i] = base.items[i]
        /\ ToSet(a) = ToSet(base.items) \cup {m} /\ IsInjective(a)
    BY <1>1, AppendKnown
  <1>3. \A n \in Nat : ToSet(DropFirst(a, n)) \subseteq ToSet(DropFirst(base.items, n)) \cup {m}
    BY <1>1, AppendKnown
  <1>4. /\ Push(base, m) = [base EXCEPT !.items = a, !.hasLastRun = TRUE]
    BY DEF Push
  <1> HIDE DEF a
  <1>5. /\ Push(base, m) \in QueueObject /\ Push(base, m).items = a
        /\ Push(base, m).summaryLines = base.summaryLines
        /\ Push(base, m).droppedCount = base.droppedCount
    BY <1>2, <1>4 DEF QueueObject
  <1>6. Len(base.items) <= Len(a)
    BY <1>1, <1>2
  <1> QED BY <1>2, <1>3, <1>5, <1>6 DEF Empty

(* The message that is pushed may be answered once more.                   *)
LEMMA PushClaims ==
  ASSUME Inv, NEW id \in Queues, NEW m \in Messages, m \notin ToSet(queue[id].items), NEW new,
         queue' = [queue EXCEPT ![id] = new], UNCHANGED <<drain, answered>>,
         accepted' = [accepted EXCEPT ![m] = @ + 1],
         ToSet(new.items) \subseteq ToSet(queue[id].items) \cup {m},
         \A n \in Nat :
             ToSet(DropFirst(new.items, n)) \subseteq ToSet(DropFirst(queue[id].items, n)) \cup {m}
  PROVE  Claimed'
  <1>1. /\ accepted \in [Messages -> Nat] /\ answered \in [Messages -> Nat]
        /\ queue'[id] = new /\ \A k \in Queues : k # id => queue'[k] = queue[k]
        /\ queue[id].items \in Seq(Messages) /\ \A k \in Queues : drain[k].turn.remove \in Nat
    BY Types
  <1>2. /\ accepted'[m] = accepted[m] + 1
        /\ \A x \in Messages : x # m => accepted'[x] = accepted[x]
    BY <1>1
  <1>3. ASSUME NEW x \in Messages, x # m
        PROVE  answered[x] + Cardinality(Claims(x)') <= accepted'[x]
    <2> DEFINE claims == Claims(x)'
    <2>1. claims \subseteq Claims(x)
      <3>1. x \in ToSet(new.items) => x \in ToSet(queue[id].items)
        BY <1>3
      <3>2. \A n \in Nat : x \in ToSet(DropFirst(new.items, n)) => x \in ToSet(DropFirst(queue[id].items, n))
        BY <1>3
      <3> QED BY <3>1, <3>2, ClaimsOfItems
    <2> HIDE DEF claims
    <2>2. IsFiniteSet(Claims(x))
      BY ClaimsFinite
    <2>3. Cardinality(claims) <= Cardinality(Claims(x)) /\ Cardinality(Claims(x)) \in Nat /\ IsFiniteSet(claims)
      BY <2>1, <2>2, FewerElements
    <2>4. Cardinality(claims) \in Nat
      BY <2>3, FS_CardinalityType
    <2>5. answered[x] + Cardinality(Claims(x)) <= accepted[x] /\ accepted'[x] = accepted[x]
      BY <1>2, <1>3 DEF Inv, Claimed
    <2>6. answered[x] \in Nat /\ accepted[x] \in Nat
      BY <1>1
    <2>7. answered[x] + Cardinality(claims) <= accepted'[x]
      BY <2>3, <2>4, <2>5, <2>6
    <2> QED BY <2>7 DEF claims
  <1>4. answered[m] + Cardinality(Claims(m)') <= accepted'[m]
    <2> DEFINE claims == Claims(m)'
               extra == IF Prompted(id, m) THEN <<id, 2>> ELSE <<id, 1>>
    <2>1. ASSUME NEW k \in Queues
          PROVE  /\ m \in ToSet(queue'[k].items) => m \in ToSet(queue[k].items) \/ k = id
                 /\ Behind(k, m)' => Behind(k, m) \/ k = id
                 /\ Prompted(k, m)' <=> Prompted(k, m)
      BY <1>1 DEF Behind, Prompted, Running
    <2>2. ASSUME NEW c \in Claims(m)', c \notin Claims(m)
          PROVE  c = extra
      <3>1. /\ c \in Queues \X {1, 2} /\ c[1] \in Queues /\ c = <<c[1], c[2]>>
            /\ \/ c[2] = 1 /\ (m \in ToSet(queue'[c[1]].items) \/ Prompted(c[1], m)')
               \/ c[2] = 2 /\ Prompted(c[1], m)' /\ Behind(c[1], m)'
        BY <2>2 DEF Claims
      <3>2. \/ c[2] = 1 /\ (m \in ToSet(queue[c[1]].items) \/ c[1] = id \/ Prompted(c[1], m))
            \/ c[2] = 2 /\ Prompted(c[1], m) /\ (Behind(c[1], m) \/ c[1] = id)
        BY <2>1, <3>1
      <3>3. /\ c[2] = 1 => ~(m \in ToSet(queue[c[1]].items) \/ Prompted(c[1], m))
            /\ c[2] = 2 => ~(Prompted(c[1], m) /\ Behind(c[1], m))
        BY <2>2, <3>1 DEF Claims
      <3>4. c[1] = id /\ (c[2] = 1 => ~Prompted(id, m)) /\ (c[2] = 2 => Prompted(id, m))
            /\ c[2] \in {1, 2}
        BY <3>1, <3>2, <3>3
      <3> QED BY <3>1, <3>4
    <2>3. claims \subseteq Claims(m) \cup {extra}
      BY <2>2
    <2> HIDE DEF claims, extra
    <2>4. IsFiniteSet(Claims(m))
      BY ClaimsFinite
    <2>5. Cardinality(claims) <= Cardinality(Claims(m)) + 1 /\ Cardinality(Claims(m)) \in Nat
      BY <2>3, <2>4, FewerElements
    <2>6. Cardinality(claims) \in Nat
      <3>1. IsFiniteSet(Claims(m) \cup {extra})
        BY <2>4, FS_AddElement
      <3> QED BY <2>3, <3>1, FS_Subset, FS_CardinalityType
    <2>7. answered[m] + Cardinality(Claims(m)) <= accepted[m]
      BY DEF Inv, Claimed
    <2>8. answered[m] \in Nat /\ accepted[m] \in Nat
      BY <1>1
    <2>9. answered[m] + Cardinality(claims) <= accepted'[m]
      BY <1>2, <2>5, <2>6, <2>7, <2>8
    <2> QED BY <2>9 DEF claims
  <1> QED BY <1>3, <1>4 DEF Claimed

LEMMA EnqueueInv ==
  ASSUME Inv, NEW m \in Messages, NEW s \in config, enqueueFollowupRun(m, s)
  PROVE  Inv'
  <1> DEFINE made1 == IF current = None THEN made + 1 ELSE made
             id == IF current = None THEN made1 ELSE current
             q == WithSettings(IF current = None THEN NewQueue(s) ELSE queue[id], s)
             makesRoom == Overflows(q) /\ q.dropPolicy # "new"
             base == IF makesRoom THEN MakeRoom(q) ELSE q
  <1>1. /\ id \in Queues
        /\ IF current = None THEN id = made + 1 /\ made' = id ELSE id = current /\ made' = made
        /\ q \in QueueObject /\ q.items = queue[id].items /\ IsInjective(q.items)
        /\ Len(q.summaryLines) <= q.droppedCount
        /\ current # None => q.summaryLines = queue[id].summaryLines
                             /\ q.droppedCount = queue[id].droppedCount
        /\ current = None => q.items = <<>> /\ drain[id].pc = "off"
    BY EnqueueKnown
  <1>2. /\ current' = id /\ UNCHANGED <<config, drain, failures, answered, told>>
        /\ arrivals' = arrivals + 1 /\ arrivals < MaxArrivals
        /\ \/ /\ Duplicate(q, m)
              /\ queue' = [queue EXCEPT ![id] = q]
              /\ UNCHANGED <<accepted, removed, risky>>
           \/ /\ ~Duplicate(q, m) /\ Overflows(q) /\ q.dropPolicy = "new"
              /\ queue' = [queue EXCEPT ![id] = [q EXCEPT !.hasLastRun = TRUE]]
              /\ UNCHANGED <<accepted, removed, risky>>
           \/ /\ ~Duplicate(q, m) /\ ~(Overflows(q) /\ q.dropPolicy = "new")
              /\ queue' = [queue EXCEPT ![id] = Push(base, m)]
              /\ accepted' = [accepted EXCEPT ![m] = @ + 1]
              /\ removed' = IF makesRoom THEN removed \cup Forgotten(q) ELSE removed
              /\ risky' = (risky \/ (makesRoom /\ drain[id].pc = "run"))
    BY DEF enqueueFollowupRun
  <1> HIDE DEF id, q
  <1>3. arrivals' \in 0 .. MaxArrivals /\ removed \subseteq Messages /\ risky \in BOOLEAN
        /\ accepted \in [Messages -> Nat] /\ answered \in [Messages -> Nat]
    BY <1>2, FollowupAssumption DEF Inv, TypeOK
  <1>4. /\ q.items \in Seq(Messages) /\ Len(q.items) \in Nat /\ q.cap \in Nat \ {0}
        /\ queue[id].items \in Seq(Messages)
    <2>1. q.items \in Seq(Messages) /\ q.cap \in Nat \ {0}
      BY <1>1 DEF QueueObject
    <2> QED BY <1>1, <2>1, LenProperties
  <1>5. (drain[id].pc = "off" /\ current # None) => ~Empty(q)
    BY <1>1 DEF Inv, QueuesSound, Empty
  <1>6. CASE /\ Duplicate(q, m)
             /\ queue' = [queue EXCEPT ![id] = q]
             /\ UNCHANGED <<accepted, removed, risky>>
    <2>1. current # None /\ m \in ToSet(q.items)
      BY <1>1, <1>4, <1>6, ToSetKnown DEF Duplicate
    <2>2. \A x \in Messages : Claims(x)' \subseteq Claims(x)
      BY <1>1, <1>2, <1>6, ClaimsOfItems
    <2>3. Claimed'
      BY <1>2, <1>3, <1>6, <2>2, ClaimsKept DEF Inv
    <2>4. Arrives(id, q)
      BY <1>1, <1>2, <1>3, <1>5, <1>6, <2>1 DEF Arrives
    <2> QED BY <1>1, <2>3, <2>4, ArrivalInv
  <1>7. CASE /\ ~Duplicate(q, m) /\ Overflows(q) /\ q.dropPolicy = "new"
             /\ queue' = [queue EXCEPT ![id] = [q EXCEPT !.hasLastRun = TRUE]]
             /\ UNCHANGED <<accepted, removed, risky>>
    <2> DEFINE new == [q EXCEPT !.hasLastRun = TRUE]
    <2>1. /\ new \in QueueObject /\ new.items = q.items /\ new.droppedCount = q.droppedCount
          /\ new.summaryLines = q.summaryLines
      BY <1>1 DEF QueueObject
    <2> HIDE DEF new
    <2>2. queue' = [queue EXCEPT ![id] = new]
      BY <1>7 DEF new
    <2>3. current # None /\ ~Empty(new)
      <3>1. Len(q.items) > 0
        BY <1>4, <1>7 DEF Overflows
      <3>2. q.items # <<>>
        BY <1>4, <3>1, ToSetKnown
      <3> QED BY <1>1, <2>1, <3>2 DEF Empty
    <2>4. \A x \in Messages : Claims(x)' \subseteq Claims(x)
      <3>1. id \in Queues /\ new.items = queue[id].items /\ UNCHANGED drain
        BY <1>1, <1>2, <2>1
      <3> QED BY <2>2, <3>1, ClaimsOfItems
    <2>5. Claimed'
      <3>1. Claimed
        BY DEF Inv
      <3> QED BY <1>2, <1>3, <1>7, <2>4, <3>1, ClaimsKept
    <2>6. Arrives(id, new)
      <3>1. /\ new.items = queue[id].items /\ new.summaryLines = queue[id].summaryLines
            /\ new.droppedCount = q.droppedCount /\ IsInjective(new.items)
            /\ Len(new.summaryLines) <= new.droppedCount /\ Len(new.items) \in Nat
        BY <1>1, <1>4, <2>1, <2>3
      <3>2. IF current = None THEN id = made + 1 /\ made' = id ELSE id = current /\ made' = made
        BY <1>1
      <3>3. UNCHANGED <<accepted, removed, risky>>
        BY <1>7
      <3> QED BY <1>2, <1>3, <2>1, <2>2, <2>3, <3>1, <3>2, <3>3 DEF Arrives
    <2> QED BY <1>1, <2>5, <2>6, ArrivalInv
  <1>8. CASE /\ ~Duplicate(q, m) /\ ~(Overflows(q) /\ q.dropPolicy = "new")
             /\ queue' = [queue EXCEPT ![id] = Push(base, m)]
             /\ accepted' = [accepted EXCEPT ![m] = @ + 1]
             /\ removed' = IF makesRoom THEN removed \cup Forgotten(q) ELSE removed
             /\ risky' = (risky \/ (makesRoom /\ drain[id].pc = "run"))
    <2> DEFINE new == Push(base, m)
    <2>1. /\ base \in QueueObject /\ IsInjective(base.items)
          /\ Len(base.summaryLines) <= base.droppedCount
          /\ ToSet(base.items) \subseteq ToSet(q.items)
          /\ \A n \in Nat : ToSet(DropFirst(base.items, n)) \subseteq ToSet(DropFirst(q.items, n))
          /\ makesRoom => /\ Forgotten(q) \subseteq Messages
                          /\ ToSet(q.items) \cup ToSet(q.summaryLines) \subseteq
                                 ToSet(base.items) \cup ToSet(base.summaryLines) \cup Forgotten(q)
      BY <1>1, RoomKnown
    <2>2. ~makesRoom => base = q
      OBVIOUS
    <2> HIDE DEF base
    <2>3. m \notin ToSet(q.items)
      BY <1>8 DEF Duplicate
    <2>4. /\ new \in QueueObject /\ IsInjective(new.items) /\ ~Empty(new)
          /\ new.summaryLines = base.summaryLines /\ new.droppedCount = base.droppedCount
          /\ ToSet(new.items) = ToSet(base.items) \cup {m}
          /\ \A n \in Nat :
                ToSet(DropFirst(new.items, n)) \subseteq ToSet(DropFirst(base.items, n)) \cup {m}
          /\ Len(base.items) <= Len(new.items)
          /\ \A i \in 1 .. Len(base.items) : new.items[i] = base.items[i]
      BY <2>1, <2>3, PushKnown
    <2> HIDE DEF new, makesRoom
    <2>5. queue' = [queue EXCEPT ![id] = new]
      BY <1>8 DEF new
    <2>6. Claimed'
      <3>1. ToSet(new.items) \subseteq ToSet(queue[id].items) \cup {m}
        BY <1>1, <2>1, <2>4
      <3>2. \A n \in Nat :
               ToSet(DropFirst(new.items, n)) \subseteq ToSet(DropFirst(queue[id].items, n)) \cup {m}
        BY <1>1, <2>1, <2>4
      <3>3. /\ id \in Queues /\ m \notin ToSet(queue[id].items)
            /\ UNCHANGED drain /\ UNCHANGED answered /\ accepted' = [accepted EXCEPT ![m] = @ + 1]
        BY <1>1, <1>2, <1>8, <2>3
      <3> QED BY <2>5, <3>1, <3>2, <3>3, PushClaims
    <2>7. /\ accepted' \in [Messages -> Nat]
          /\ \A x \in Messages : accepted'[x] = accepted[x] \/ x \in ToSet(new.items)
      BY <1>3, <1>8, <2>4
    <2>8. /\ removed \subseteq removed' /\ removed' \subseteq Messages /\ risky' \in BOOLEAN
      BY <1>3, <1>8, <2>1
    <2>9. ToSet(queue[id].items) \cup ToSet(queue[id].summaryLines) \subseteq
             ToSet(new.items) \cup ToSet(new.summaryLines) \cup removed' \/ current = None
      <3>1. CASE makesRoom
        BY <1>1, <1>8, <2>1, <2>4, <3>1
      <3>2. CASE ~makesRoom
        BY <1>1, <2>2, <2>4, <3>2
      <3> QED BY <3>1, <3>2
    <2>10. ~risky' => /\ ~risky
                      /\ Running(id) =>
                           /\ Len(queue[id].items) <= Len(new.items)
                           /\ \A i \in 1 .. Len(queue[id].items) : new.items[i] = queue[id].items[i]
                           /\ new.summaryLines = queue[id].summaryLines
      <3> SUFFICES ASSUME ~risky'
                   PROVE  /\ ~risky
                          /\ Running(id) =>
                               /\ Len(queue[id].items) <= Len(new.items)
                               /\ \A i \in 1 .. Len(queue[id].items) : new.items[i] = queue[id].items[i]
                               /\ new.summaryLines = queue[id].summaryLines
        OBVIOUS
      <3>1. ~risky /\ (Running(id) => ~makesRoom)
        BY <1>8 DEF Running
      <3>2. Running(id) => current # None
        BY <1>1 DEF Running
      <3> QED BY <1>1, <2>2, <2>4, <3>1, <3>2
    <2>11. Len(new.summaryLines) <= new.droppedCount
      BY <2>1, <2>4
    <2>12. Arrives(id, new)
      BY <1>1, <1>2, <1>3, <2>4, <2>5, <2>7, <2>8, <2>9, <2>10, <2>11 DEF Arrives
    <2> QED BY <1>1, <2>6, <2>12, ArrivalInv
  <1> QED BY <1>2, <1>6, <1>7, <1>8

-----------------------------------------------------------------------------
(* Draining.                                                               *)

LEMMA OneChanges ==
  ASSUME NEW A, NEW B, NEW f \in [A -> B], NEW a \in A, NEW b \in B
  PROVE  LET g == [f EXCEPT ![a] = b] IN
         g \in [A -> B] /\ g[a] = b /\ \A k \in A : k # a => g[k] = f[k]
  OBVIOUS

LEMMA DrainRecords ==
  /\ Off \in Drain /\ Off.pc = "off"
  /\ \A force \in BOOLEAN : Debounce(force) \in Drain /\ Debounce(force).pc = "debounce"
  <1>1. NoTurn \in Turns
    BY EmptySeq DEF NoTurn, Turns
  <1>2. Off \in Drain /\ Off.pc = "off"
    BY <1>1 DEF Off, Drain
  <1>3. ASSUME NEW force \in BOOLEAN
        PROVE  Debounce(force) \in Drain /\ Debounce(force).pc = "debounce"
    BY <1>1 DEF Debounce, Drain
  <1> QED BY <1>2, <1>3

(* How the loop of a drain, or its finally block, leaves the drains.       *)
LEMMA LoopKnown ==
  ASSUME Inv, NEW id \in Queues, NEW q, Finally(id, q) \/ Loop(id, q)
  PROVE  /\ drain' \in [Queues -> Drain]
         /\ drain'[id].pc \in {"off", "debounce"}
         /\ \A k \in Queues : k # id =>
               \/ drain'[k] = drain[k]
               \/ k = current /\ drain[k].pc = "off" /\ drain'[k].pc = "debounce"
         /\ \/ /\ current' = current
               /\ (current # None /\ drain'[current].pc = "off") =>
                      current # id /\ drain[current].pc = "off"
            \/ /\ current' = None /\ Empty(q) /\ drain'[id].pc = "off"
               /\ \A k \in Queues : k # id => drain'[k] = drain[k]
  <1>1. /\ drain \in [Queues -> Drain]
        /\ current # None => current \in Queues
    BY Types
  <1>2. ASSUME Finally(id, q)
        PROVE  /\ drain' \in [Queues -> Drain]
               /\ drain'[id].pc \in {"off", "debounce"}
               /\ \A k \in Queues : k # id =>
                     \/ drain'[k] = drain[k]
                     \/ k = current /\ drain[k].pc = "off" /\ drain'[k].pc = "debounce"
               /\ \/ /\ current' = current
                     /\ (current # None /\ drain'[current].pc = "off") =>
                            current # id /\ drain[current].pc = "off"
                  \/ /\ current' = None /\ Empty(q) /\ drain'[id].pc = "off"
                     /\ \A k \in Queues : k # id => drain'[k] = drain[k]
    <2> DEFINE over == [drain EXCEPT ![id] = Off]
               again == [over EXCEPT ![current] = Debounce(FALSE)]
    <2>1. over \in [Queues -> Drain] /\ over[id] = Off /\ \A k \in Queues : k # id => over[k] = drain[k]
      BY <1>1, DrainRecords, OneChanges
    <2>2. CASE Empty(q)
      <3>1. drain' = over /\ current' = None
        BY <1>2, <2>2 DEF Finally
      <3> HIDE DEF over
      <3> QED BY <2>1, <2>2, <3>1, DrainRecords
    <2>3. CASE ~Empty(q) /\ current = None
      <3>1. drain' = over /\ current' = current
        BY <1>2, <2>3 DEF Finally, Scheduled
      <3> HIDE DEF over
      <3> QED BY <2>1, <2>3, <3>1, DrainRecords
    <2>4. CASE ~Empty(q) /\ current # None
      <3>1. drain' = IF over[current].pc # "off" THEN over ELSE again
        BY <1>2, <2>4, DrainRecords DEF Finally, Scheduled
      <3> HIDE DEF over
      <3>2. again \in [Queues -> Drain] /\ again[current].pc = "debounce"
            /\ \A k \in Queues : k # current => again[k] = over[k]
        <4>1. current \in Queues
          BY <1>1, <2>4
        <4> QED BY <2>1, <4>1, DrainRecords, OneChanges
      <3> HIDE DEF again
      <3>3. current' = current
        BY <1>2, <2>4 DEF Finally
      <3>4. CASE over[current].pc # "off"
        BY <1>1, <2>1, <2>4, <3>1, <3>3, <3>4, DrainRecords
      <3>5. CASE over[current].pc = "off"
        <4>1. drain' = again
          BY <3>1, <3>5
        <4>2. \A k \in Queues : k # id =>
                 drain'[k] = drain[k] \/ (k = current /\ drain[k].pc = "off" /\ drain'[k].pc = "debounce")
          <5>1. ASSUME NEW k \in Queues, k # id
                PROVE  drain'[k] = drain[k] \/ (k = current /\ drain[k].pc = "off" /\ drain'[k].pc = "debounce")
            <6>1. CASE k = current
              BY <2>1, <3>2, <3>5, <4>1, <5>1, <6>1
            <6>2. CASE k # current
              BY <2>1, <3>2, <4>1, <5>1, <6>2
            <6> QED BY <6>1, <6>2
          <5> QED BY <5>1
        <4>3. drain'[id].pc \in {"off", "debounce"}
          BY <2>1, <3>2, <4>1, DrainRecords
        <4> QED BY <3>2, <3>3, <4>1, <4>2, <4>3
      <3> QED BY <3>4, <3>5
    <2> QED BY <2>2, <2>3, <2>4
  <1>3. CASE Loop(id, q) /\ ~Empty(q)
    <2> DEFINE next == Debounce(drain[id].force)
               on == [drain EXCEPT ![id] = next]
    <2>1. drain' = on /\ current' = current
      BY <1>3 DEF Loop
    <2>2. drain[id].force \in BOOLEAN
      <3>1. drain[id] \in Drain
        BY <1>1
      <3> QED BY <3>1 DEF Drain
    <2>4. next \in Drain /\ next.pc = "debounce"
      BY <2>2, DrainRecords
    <2> HIDE DEF next
    <2>5. on \in [Queues -> Drain] /\ on[id] = next
          /\ \A k \in Queues : k # id => on[k] = drain[k]
      BY <1>1, <2>4, OneChanges
    <2> HIDE DEF on
    <2>6. drain'[id].pc = "debounce" /\ \A k \in Queues : k # id => drain'[k] = drain[k]
      BY <2>1, <2>4, <2>5
    <2>7. ASSUME current # None, drain'[current].pc = "off"
          PROVE  current # id /\ drain[current].pc = "off"
      BY <1>1, <2>6, <2>7
    <2> QED BY <2>1, <2>4, <2>5, <2>6, <2>7
  <1> QED BY <1>2, <1>3 DEF Loop

(* A drain goes on, or ends, with its object as new: what it held is in    *)
(* it, answered or told.                                                   *)
DrainsOn(id, new) ==
    /\ drain[id].pc # "off" /\ (Finally(id, new) \/ Loop(id, new))
    /\ new \in QueueObject /\ IsInjective(new.items) /\ Len(new.summaryLines) <= new.droppedCount
    /\ queue' = [queue EXCEPT ![id] = new]
    /\ UNCHANGED <<config, made, arrivals, accepted, removed, risky>>
    /\ failures' \in 0 .. MaxFailures /\ told \subseteq told' /\ told' \subseteq Messages
    /\ answered' \in [Messages -> Nat] /\ \A m \in Messages : answered[m] <= answered'[m]
    /\ ~risky =>
          \A m \in ToSet(queue[id].items) \cup ToSet(queue[id].summaryLines) :
              \/ m \in ToSet(new.items) \cup ToSet(new.summaryLines)
              \/ answered'[m] > 0 \/ m \in told'

LEMMA DrainsOnInv ==
  ASSUME Inv, Claimed', NEW id \in Queues, NEW new, DrainsOn(id, new)
  PROVE  Inv'
  <1> USE DEF DrainsOn
  <1>1. /\ drain' \in [Queues -> Drain]
        /\ drain'[id].pc \in {"off", "debounce"}
        /\ \A k \in Queues : k # id =>
              \/ drain'[k] = drain[k]
              \/ k = current /\ drain[k].pc = "off" /\ drain'[k].pc = "debounce"
        /\ \/ /\ current' = current
              /\ (current # None /\ drain'[current].pc = "off") =>
                     current # id /\ drain[current].pc = "off"
           \/ /\ current' = None /\ Empty(new) /\ drain'[id].pc = "off"
              /\ \A k \in Queues : k # id => drain'[k] = drain[k]
    BY LoopKnown
  <1>2. /\ queue \in [Queues -> QueueObject] /\ queue' \in [Queues -> QueueObject] /\ queue'[id] = new
        /\ \A k \in Queues : k # id => queue'[k] = queue[k]
    BY Types
  <1>3. TypeOK'
    BY <1>1, <1>2 DEF Inv, TypeOK
  <1>4. QueuesSound'
    <2>1. ASSUME NEW k \in Queues
          PROVE  IsInjective(queue'[k].items) /\ Len(queue'[k].summaryLines) <= queue'[k].droppedCount
      BY <1>2, Types
    <2>2. ASSUME current' # None, drain'[current'].pc = "off"
          PROVE  ~Empty(queue'[current'])
      <3>1. /\ current' = current /\ current # id /\ drain[current].pc = "off" /\ current # None
            /\ current \in Queues
        BY <1>1, <2>2, Types
      <3>2. ~Empty(queue[current])
        BY <3>1 DEF Inv, QueuesSound
      <3> QED BY <1>2, <3>1, <3>2
    <2> QED BY <2>1, <2>2 DEF QueuesSound
  <1>5. Unmade'
    <2>1. ASSUME NEW k \in Queues, k > made
          PROVE  drain'[k] = Off /\ queue'[k].items = <<>>
      <3>1. drain[k] = Off /\ queue[k].items = <<>>
        BY <2>1 DEF Inv, Unmade
      <3>2. k # id
        BY <3>1 DEF Off
      <3>3. k # current
        BY <2>1, Types
      <3> QED BY <1>1, <1>2, <3>1, <3>2, <3>3
    <2> QED BY <2>1 DEF Unmade
  <1>6. ASSUME ~risky
        PROVE  Ours' /\ Taken' /\ \A m \in Messages : ~Lost(m)'
    <2>1. id = current /\ \A k \in Queues : k # id => drain'[k].pc = "off"
      <3>1. Ours
        BY <1>6 DEF Inv, Careful
      <3>2. id = current
        BY <3>1 DEF Ours
      <3>3. \A k \in Queues : k # id => drain[k].pc = "off"
        BY <3>1, <3>2 DEF Ours
      <3> QED BY <1>1, <3>2, <3>3
    <2>2. Ours' /\ Taken'
      <3>1. Ours'
        BY <1>1, <2>1 DEF Ours
      <3>2. Taken'
        BY <1>1, <2>1 DEF Taken, Running
      <3> QED BY <3>1, <3>2
    <2>3. ASSUME NEW m \in Messages, accepted[m] > 0, answered'[m] = 0, m \notin told' \cup removed
          PROVE  Reachable(m)'
      <3>1. answered[m] = 0 /\ m \notin told
        <4>1. answered[m] \in Nat /\ answered[m] <= answered'[m]
          BY Types
        <4> QED BY <2>3, <4>1
      <3>2. m \in ToSet(queue[id].items) \cup ToSet(queue[id].summaryLines)
        BY <1>6, <2>1, <2>3, <3>1, InCurrent
      <3>3. m \in ToSet(new.items) \cup ToSet(new.summaryLines)
        BY <1>6, <2>3, <3>2
      <3>4. /\ new.items \in Seq(Messages) /\ new.summaryLines \in Seq(Messages)
            /\ new.droppedCount \in Nat /\ Len(new.summaryLines) \in Nat
        <4>1. /\ new.items \in Seq(Messages) /\ new.summaryLines \in Seq(Messages)
              /\ new.droppedCount \in Nat
          BY DEF QueueObject
        <4> QED BY <4>1, LenProperties
      <3>5. current' = id
        <4>1. ASSUME Empty(new)
              PROVE  FALSE
          <5>1. new.items = <<>> /\ Len(new.summaryLines) = 0
            BY <3>4, <4>1 DEF Empty
          <5>2. ToSet(new.items) = {} /\ ToSet(new.summaryLines) = {}
            BY <3>4, <5>1, ToSetKnown
          <5> QED BY <3>3, <5>2
        <4> QED BY <1>1, <2>1, <4>1
      <3>6. ToSet(new.items \o new.summaryLines) = ToSet(new.items) \cup ToSet(new.summaryLines)
        BY <3>4, ConcatSet
      <3> QED BY <1>2, <3>3, <3>5, <3>6 DEF Reachable
    <2> QED BY <2>2, <2>3 DEF Lost
  <1> QED BY <1>3, <1>4, <1>5, <1>6 DEF Inv, Careful

(* A drain that is no longer in its run claims less.                       *)
LEMMA ClaimsOfDrains ==
  ASSUME UNCHANGED queue, \A k \in Queues : drain'[k].pc = "run" => drain'[k] = drain[k],
         NEW m
  PROVE  Claims(m)' \subseteq Claims(m)
  <1>1. ASSUME NEW c \in Queues \X {1, 2}
        PROVE  c[1] \in Queues
    OBVIOUS
  <1> QED BY <1>1 DEF Claims, Prompted, Running, Behind

LEMMA SameObject ==
  ASSUME Inv, NEW id \in Queues, UNCHANGED queue
  PROVE  queue' = [queue EXCEPT ![id] = queue[id]]
  BY Types

LEMMA SameClaims ==
  ASSUME Inv, UNCHANGED <<queue, accepted, answered>>,
         \A k \in Queues : drain'[k].pc = "run" => drain'[k] = drain[k]
  PROVE  Claimed'
  <1>1. \A m \in Messages : Claims(m)' \subseteq Claims(m)
    BY ClaimsOfDrains
  <1>2. Claimed /\ accepted \in [Messages -> Nat] /\ answered \in [Messages -> Nat]
    BY Types DEF Inv
  <1> QED BY <1>1, <1>2, ClaimsKept

LEMMA StopDrainInv ==
  ASSUME Inv, NEW id \in Queues, StopDrain(id)
  PROVE  Inv'
  <1>1. drain[id].pc # "off" /\ Finally(id, queue[id])
        /\ UNCHANGED <<config, queue, made, arrivals, failures, accepted, answered, told, removed, risky>>
    BY DEF StopDrain
  <1>2. \A k \in Queues : drain'[k].pc = "run" => drain'[k] = drain[k]
    BY <1>1, LoopKnown
  <1>3. Claimed'
    BY <1>1, <1>2, SameClaims
  <1>4. /\ queue[id] \in QueueObject /\ IsInjective(queue[id].items)
        /\ Len(queue[id].summaryLines) <= queue[id].droppedCount
        /\ queue' = [queue EXCEPT ![id] = queue[id]] /\ answered \in [Messages -> Nat]
    BY <1>1, SameObject, Types
  <1>5. failures \in 0 .. MaxFailures /\ told \subseteq Messages
    BY DEF Inv, TypeOK
  <1>6. DrainsOn(id, queue[id])
    <2>1. answered' \in [Messages -> Nat] /\ \A m \in Messages : answered[m] <= answered'[m]
      BY <1>1, <1>4
    <2>2. told \subseteq told' /\ told' \subseteq Messages /\ failures' \in 0 .. MaxFailures
      BY <1>1, <1>5
    <2>3. UNCHANGED <<config, made, arrivals, accepted, removed, risky>>
      BY <1>1
    <2> QED BY <1>1, <1>4, <2>1, <2>2, <2>3 DEF DrainsOn
  <1> QED BY <1>3, <1>6, DrainsOnInv

LEMMA TurnFailsInv ==
  ASSUME Inv, NEW id \in Queues, TurnFails(id)
  PROVE  Inv'
  <1>1. drain[id].pc # "off" /\ Finally(id, queue[id])
        /\ failures < MaxFailures /\ failures' = failures + 1
        /\ UNCHANGED <<config, queue, made, arrivals, accepted, answered, told, removed, risky>>
    BY DEF TurnFails
  <1>2. \A k \in Queues : drain'[k].pc = "run" => drain'[k] = drain[k]
    BY <1>1, LoopKnown
  <1>3. Claimed'
    BY <1>1, <1>2, SameClaims
  <1>4. /\ queue[id] \in QueueObject /\ IsInjective(queue[id].items)
        /\ Len(queue[id].summaryLines) <= queue[id].droppedCount
        /\ queue' = [queue EXCEPT ![id] = queue[id]] /\ answered \in [Messages -> Nat]
    BY <1>1, SameObject, Types
  <1>5. failures' \in 0 .. MaxFailures /\ told \subseteq Messages
    BY <1>1, FollowupAssumption DEF Inv, TypeOK
  <1>6. DrainsOn(id, queue[id])
    <2>1. answered' \in [Messages -> Nat] /\ \A m \in Messages : answered[m] <= answered'[m]
      BY <1>1, <1>4
    <2>2. told \subseteq told' /\ told' \subseteq Messages /\ failures' \in 0 .. MaxFailures
      BY <1>1, <1>5
    <2>3. UNCHANGED <<config, made, arrivals, accepted, removed, risky>>
      BY <1>1
    <2> QED BY <1>1, <1>4, <2>1, <2>2, <2>3 DEF DrainsOn
  <1> QED BY <1>3, <1>6, DrainsOnInv

(* Only drains change, and the one that does is of the queue in the map    *)
(* and starts.                                                             *)
LEMMA RunReturnsInv ==
  ASSUME Inv, RunReturns
  PROVE  Inv'
  <1>1. /\ current # None /\ drain' = Scheduled(current, drain)
        /\ UNCHANGED <<config, current, queue, made, arrivals, failures, accepted, answered,
                       told, removed, risky>>
    BY DEF RunReturns
  <1>2. /\ current \in Queues /\ current <= made /\ made \in Nat
        /\ drain \in [Queues -> Drain]
    BY <1>1, Types
  <1>3. /\ drain' \in [Queues -> Drain] /\ drain'[current].pc # "off"
        /\ drain'[current] = drain[current] \/ drain'[current].pc = "debounce"
        /\ \A k \in Queues : k # current => drain'[k] = drain[k]
    <2>1. CASE drain[current].pc # "off"
      BY <1>1, <1>2, <2>1 DEF Scheduled
    <2>2. CASE drain[current].pc = "off"
      <3>1. drain' = [drain EXCEPT ![current] = Debounce(FALSE)]
        BY <1>1, <2>2 DEF Scheduled
      <3> QED BY <1>2, <3>1, OneChanges, DrainRecords
    <2> QED BY <2>1, <2>2
  <1>4. \A k \in Queues : drain'[k].pc = "run" => drain'[k] = drain[k]
    BY <1>3
  <1>5. TypeOK' /\ QueuesSound'
    <2>1. TypeOK'
      BY <1>1, <1>3 DEF Inv, TypeOK
    <2>2. QueuesSound'
      BY <1>1, <1>3 DEF Inv, QueuesSound
    <2> QED BY <2>1, <2>2
  <1>6. Unmade'
    <2>1. ASSUME NEW k \in Queues, k > made
          PROVE  drain'[k] = Off /\ queue'[k].items = <<>>
      <3>1. k # current /\ drain[k] = Off /\ queue[k].items = <<>>
        <4>1. k \in Nat /\ current \in Nat
          BY <1>2, <2>1, Types
        <4> QED BY <1>2, <2>1, <4>1 DEF Inv, Unmade
      <3> QED BY <1>1, <1>3, <2>1, <3>1
    <2> QED BY <1>1, <2>1 DEF Unmade
  <1>7. Claimed'
    BY <1>1, <1>4, SameClaims
  <1>8. Careful'
    <2> SUFFICES ASSUME ~risky
                 PROVE  Ours' /\ Taken' /\ \A m \in Messages : ~Lost(m)'
      BY <1>1 DEF Careful
    <2>1. Ours /\ Taken /\ \A m \in Messages : ~Lost(m)
      BY DEF Inv, Careful
    <2>2. Ours'
      BY <1>1, <1>3, <2>1 DEF Ours
    <2>3. Taken'
      BY <1>1, <1>4, <2>1 DEF Taken, Running
    <2>4. ASSUME NEW m \in Messages, Reachable(m)
          PROVE  Reachable(m)'
      BY <1>1, <1>3, <2>4 DEF Reachable
    <2> QED BY <1>1, <2>1, <2>2, <2>3, <2>4 DEF Lost
  <1> QED BY <1>5, <1>6, <1>7, <1>8 DEF Inv

(* A queue that is not drained takes what it holds to removed.             *)
LEMMA ClearInv ==
  ASSUME Inv, clearFollowupQueue
  PROVE  Inv'
  <1> DEFINE q == queue[current]
             new == [q EXCEPT !.items = <<>>, !.droppedCount = 0, !.summaryLines = <<>>,
                              !.hasLastRun = FALSE]
  <1>1. /\ current # None /\ current' = None
        /\ queue' = [queue EXCEPT ![current] =
               [@ EXCEPT !.items = <<>>, !.droppedCount = 0, !.summaryLines = <<>>,
                         !.hasLastRun = FALSE]]
        /\ removed' = removed \cup ToSet(q.items) \cup ToSet(q.summaryLines)
        /\ risky' = (risky \/ drain[current].pc # "off")
        /\ UNCHANGED <<config, drain, made, arrivals, failures, accepted, answered, told>>
    BY DEF clearFollowupQueue
  <1>2. /\ current \in Queues /\ current <= made /\ made \in Nat
        /\ queue \in [Queues -> QueueObject] /\ q \in QueueObject
        /\ q.items \in Seq(Messages) /\ q.summaryLines \in Seq(Messages)
    BY <1>1, Types
  <1>3. queue' = [queue EXCEPT ![current] = new]
    BY <1>1
  <1>4. /\ new \in QueueObject /\ new.items = <<>> /\ new.summaryLines = <<>> /\ new.droppedCount = 0
        /\ IsInjective(new.items) /\ Len(new.summaryLines) = 0
    <2>1. <<>> \in Seq(Messages) /\ Len(<<>>) = 0 /\ IsInjective(<<>>)
      BY EmptySeq DEF IsInjective
    <2> QED BY <1>2, <2>1 DEF QueueObject
  <1> HIDE DEF new
  <1>5. /\ queue' \in [Queues -> QueueObject] /\ queue'[current] = new
        /\ \A k \in Queues : k # current => queue'[k] = queue[k]
    BY <1>2, <1>3, <1>4, OneChanges
  <1>6. TypeOK'
    <2>1. TypeOK
      BY DEF Inv
    <2>2. ToSet(q.items) \subseteq Messages /\ ToSet(q.summaryLines) \subseteq Messages
      BY <1>2, ToSetKnown
    <2>3. removed' \subseteq Messages /\ risky' \in BOOLEAN
      BY <1>1, <2>1, <2>2 DEF TypeOK
    <2> QED BY <1>1, <1>5, <2>1, <2>3 DEF TypeOK
  <1>7. QueuesSound'
    <2>1. QueuesSound
      BY DEF Inv
    <2> QED BY <1>1, <1>4, <1>5, <2>1 DEF QueuesSound
  <1>8. Unmade'
    <2>1. ASSUME NEW k \in Queues, k > made
          PROVE  drain[k] = Off /\ queue'[k].items = <<>>
      <3>1. k # current /\ drain[k] = Off /\ queue[k].items = <<>>
        <4>1. k \in Nat /\ current \in Nat
          BY <1>2, <2>1, Types
        <4> QED BY <1>2, <2>1, <4>1 DEF Inv, Unmade
      <3> QED BY <1>5, <2>1, <3>1
    <2> QED BY <1>1, <2>1 DEF Unmade
  <1>9. Claimed'
    <2>1. ToSet(new.items) = {} /\ \A n \in Nat : ToSet(DropFirst(new.items, n)) = {}
      <3>1. new.items \in Seq(Messages) /\ Len(new.items) = 0
        <4>1. <<>> \in Seq(Messages) /\ Len(<<>>) = 0
          BY EmptySeq
        <4> QED BY <1>4, <4>1
      <3>2. ASSUME NEW n \in Nat
            PROVE  DropFirst(new.items, n) = <<>>
        BY <3>1, <3>2 DEF DropFirst
      <3>3. ToSet(new.items) = {}
        BY <1>4, <3>1, ToSetKnown
      <3>4. \A n \in Nat : DropFirst(new.items, n) = new.items
        BY <1>4, <3>2
      <3> QED BY <3>3, <3>4
    <2>2. ASSUME NEW m \in Messages
          PROVE  Claims(m)' \subseteq Claims(m)
      BY <1>1, <1>2, <1>3, <2>1, ClaimsOfItems
    <2>3. Claimed /\ accepted \in [Messages -> Nat] /\ answered \in [Messages -> Nat]
      BY Types DEF Inv
    <2> QED BY <1>1, <2>2, <2>3, ClaimsKept
  <1>10. Careful'
    <2> SUFFICES ASSUME ~risky'
                 PROVE  Ours' /\ Taken' /\ \A m \in Messages : ~Lost(m)'
      BY DEF Careful
    <2>1. ~risky /\ drain[current].pc = "off"
      BY <1>1
    <2>2. \A k \in Queues : drain[k].pc = "off"
      BY <2>1 DEF Inv, Careful, Ours
    <2>3. Ours' /\ Taken'
      BY <1>1, <2>2 DEF Ours, Taken, Running
    <2>4. ASSUME NEW m \in Messages, Lost(m)'
          PROVE  FALSE
      <3>1. accepted[m] > 0 /\ answered[m] = 0 /\ m \notin told \cup removed'
        BY <1>1, <2>4 DEF Lost
      <3>2. m \in ToSet(q.items) \cup ToSet(q.summaryLines)
        BY <1>1, <2>1, <3>1, InCurrent
      <3> QED BY <1>1, <3>1, <3>2
    <2> QED BY <2>3, <2>4
  <1> QED BY <1>6, <1>7, <1>8, <1>9, <1>10 DEF Inv

(* What a turn takes: its prompt is at the front of the items, and is no   *)
(* longer than what the turn removes.                                      *)
LEMMA TurnKnown ==
  ASSUME Inv, NEW id \in Queues, ~Breaks(id)
  PROVE  LET t == Turn(id)
             q == queue[id]
         IN  /\ t \in Turns /\ ToSet(t.prompt) \subseteq ToSet(q.items)
             /\ ToSet(t.prompt) \cap ToSet(DropFirst(q.items, t.remove)) = {}
             /\ (q.mode = "collect" \/ ~Summarizes(q)) =>
                   /\ t.remove <= Len(q.items) /\ Len(t.prompt) = t.remove
                   /\ \A i \in 1 .. t.remove : q.items[i] = t.prompt[i]
                   /\ t.summary => t.listed = q.summaryLines
  <1> DEFINE q == queue[id]
             lines == IF Summarizes(q) THEN q.summaryLines ELSE <<>>
             all == [prompt |-> q.items, listed |-> lines, remove |-> Len(q.items),
                     summary |-> Summarizes(q)]
             told1 == [prompt |-> <<>>, listed |-> lines, remove |-> 1, summary |-> TRUE]
  <1>1. /\ q \in QueueObject /\ q.items \in Seq(Messages) /\ Len(q.items) \in Nat
        /\ q.summaryLines \in Seq(Messages) /\ IsInjective(q.items)
        /\ <<>> \in Seq(Messages) /\ Summarizes(q) \in BOOLEAN
    <2>1. q.items \in Seq(Messages)
      BY Types
    <2>2. Summarizes(q) \in BOOLEAN
      BY DEF Summarizes
    <2> QED BY <2>1, <2>2, Types, LenProperties, EmptySeq
  <1>2. lines \in Seq(Messages) /\ (Summarizes(q) => lines = q.summaryLines)
    BY <1>1
  <1>3. CASE q.mode = "collect" /\ ~Individually(id)
    <2>1. Turn(id) = all
      BY <1>3 DEF Turn
    <2> HIDE DEF lines, q
    <2>2. /\ all \in Turns /\ all.prompt = q.items /\ all.remove = Len(q.items)
          /\ all.summary = Summarizes(q) /\ all.listed = lines
      BY <1>1, <1>2 DEF Turns
    <2> HIDE DEF all
    <2>3. DropFirst(q.items, Len(q.items)) = <<>>
      BY <1>1 DEF DropFirst
    <2>4. ToSet(<<>>) = {}
      BY <1>1, ToSetKnown
    <2> QED BY <1>1, <1>2, <2>1, <2>2, <2>3, <2>4 DEF q
  <1>4. CASE q.mode # "collect" /\ Summarizes(q)
    <2>1. Turn(id) = told1
      BY <1>4 DEF Turn
    <2> HIDE DEF lines, q
    <2>2. told1 \in Turns /\ told1.prompt = <<>>
      BY <1>1, <1>2 DEF Turns
    <2> HIDE DEF told1
    <2>3. ToSet(<<>>) = {}
      BY <1>1, ToSetKnown
    <2> QED BY <1>4, <2>1, <2>2, <2>3 DEF q
  <1>5. CASE /\ ~(q.mode = "collect" /\ ~Individually(id))
             /\ ~(q.mode # "collect" /\ Summarizes(q))
    <2> DEFINE h == Head(q.items)
               one == [prompt |-> <<h>>, listed |-> <<>>, remove |-> 1, summary |-> FALSE]
    <2>1. Turn(id) = one
      BY <1>5 DEF Turn, FirstItem
    <2>2. q.items # <<>>
      BY <1>5 DEF Breaks
    <2> HIDE DEF q
    <2>3. Len(q.items) > 0
      BY <1>1, <2>2, ToSetKnown
    <2>4. h = q.items[1] /\ h \in Messages
      BY <1>1, <2>2, <2>3
    <2> HIDE DEF h
    <2>5. <<h>> \in Seq(Messages) /\ Len(<<h>>) = 1 /\ <<h>>[1] = h
      BY <2>4
    <2>6. one \in Turns /\ one.prompt = <<h>> /\ one.remove = 1 /\ one.summary = FALSE
      BY <1>1, <2>5 DEF Turns
    <2> HIDE DEF one
    <2>7. ToSet(<<h>>) = {h}
      <3>1. ToSet(<<h>>) = {<<h>>[i] : i \in 1 .. 1}
        BY <2>5, ToSetKnown
      <3> QED BY <2>5, <3>1
    <2>8. h \in ToSet(q.items)
      BY <1>1, <2>3, <2>4, ToSetKnown
    <2>9. h \notin ToSet(DropFirst(q.items, 1))
      <3>1. ToSet(DropFirst(q.items, 1)) = {q.items[i] : i \in 1 + 1 .. Len(q.items)}
        <4>1. \A s \in Seq(Messages), n \in Nat :
                 ToSet(DropFirst(s, n)) = {s[i] : i \in n + 1 .. Len(s)}
          BY DroppedSet
        <4> QED BY <1>1, <4>1
      <3>2. \A i \in 1 + 1 .. Len(q.items) : q.items[i] # q.items[1]
        <4>1. DOMAIN q.items = 1 .. Len(q.items)
          BY <1>1
        <4> QED BY <1>1, <2>3, <4>1 DEF IsInjective
      <3> QED BY <2>4, <3>1, <3>2
    <2>10. \A i \in 1 .. 1 : q.items[i] = <<h>>[i]
      BY <2>4, <2>5
    <2> QED BY <2>1, <2>3, <1>1, <2>5, <2>6, <2>7, <2>8, <2>9, <2>10 DEF q
  <1> QED BY <1>3, <1>4, <1>5

LEMMA StartTurnInv ==
  ASSUME Inv, NEW id \in Queues, StartTurn(id)
  PROVE  Inv'
  <1> DEFINE t == Turn(id)
             f == IF queue[id].mode = "collect" THEN Individually(id) ELSE drain[id].force
             new == [pc |-> "run", turn |-> t, force |-> f]
  <1>1. /\ drain[id].pc = "debounce" /\ ~Empty(queue[id]) /\ ~Breaks(id)
        /\ drain' = [drain EXCEPT ![id] = new]
        /\ risky' = (risky \/ (queue[id].mode # "collect" /\ Summarizes(queue[id])))
        /\ UNCHANGED <<config, current, queue, made, arrivals, failures, accepted, answered,
                       told, removed>>
    BY DEF StartTurn
  <1>2. /\ t \in Turns /\ ToSet(t.prompt) \subseteq ToSet(queue[id].items)
        /\ ToSet(t.prompt) \cap ToSet(DropFirst(queue[id].items, t.remove)) = {}
        /\ (queue[id].mode = "collect" \/ ~Summarizes(queue[id])) =>
              /\ t.remove <= Len(queue[id].items) /\ Len(t.prompt) = t.remove
              /\ \A i \in 1 .. t.remove : queue[id].items[i] = t.prompt[i]
              /\ t.summary => t.listed = queue[id].summaryLines
    BY <1>1, TurnKnown
  <1> HIDE DEF t
  <1>3. f \in BOOLEAN
    <2>1. drain[id].force \in BOOLEAN
      BY Types DEF Drain
    <2>2. Individually(id) \in BOOLEAN
      BY <2>1 DEF Individually, hasCrossChannelItems
    <2> QED BY <2>1, <2>2
  <1> HIDE DEF f
  <1>4. new \in Drain /\ new.pc = "run" /\ new.turn = t
    BY <1>2, <1>3 DEF Drain
  <1> HIDE DEF new
  <1>5. /\ drain' \in [Queues -> Drain] /\ drain'[id] = new
        /\ \A k \in Queues : k # id => drain'[k] = drain[k]
    BY <1>1, <1>4, Types, OneChanges
  <1>6. TypeOK'
    <2>1. TypeOK
      BY DEF Inv
    <2>2. risky' \in BOOLEAN
      BY <1>1, <2>1 DEF TypeOK
    <2> QED BY <1>1, <1>5, <2>1, <2>2 DEF TypeOK
  <1>7. QueuesSound'
    <2>1. QueuesSound
      BY DEF Inv
    <2>2. ASSUME current # None, drain'[current].pc = "off"
          PROVE  ~Empty(queue[current])
      <3>1. current # id /\ current \in Queues
        BY <1>4, <1>5, <2>2, Types
      <3> QED BY <1>5, <2>1, <2>2, <3>1 DEF QueuesSound
    <2> QED BY <1>1, <2>1, <2>2 DEF QueuesSound
  <1>8. Unmade'
    <2>1. ASSUME NEW k \in Queues, k > made
          PROVE  drain'[k] = Off /\ queue[k].items = <<>>
      <3>1. drain[k] = Off /\ queue[k].items = <<>>
        BY <2>1 DEF Inv, Unmade
      <3>2. k # id
        BY <1>1, <3>1 DEF Off
      <3> QED BY <1>5, <2>1, <3>1, <3>2
    <2> QED BY <1>1, <2>1 DEF Unmade
  <1>9. Claimed'
    <2>1. ASSUME NEW m \in Messages, NEW c \in Claims(m)'
          PROVE  c \in Claims(m)
      <3>1. /\ c \in Queues \X {1, 2} /\ c[1] \in Queues
            /\ \/ c[2] = 1 /\ (m \in ToSet(queue[c[1]].items) \/ Prompted(c[1], m)')
               \/ c[2] = 2 /\ Prompted(c[1], m)' /\ Behind(c[1], m)'
        BY <1>1, <2>1 DEF Claims
      <3>2. CASE c[1] # id
        <4>1. drain'[c[1]] = drain[c[1]]
          BY <1>5, <3>1, <3>2
        <4>2. /\ Prompted(c[1], m)' <=> Prompted(c[1], m)
              /\ Behind(c[1], m)' <=> Behind(c[1], m)
          BY <1>1, <4>1 DEF Prompted, Running, Behind
        <4> QED BY <3>1, <4>2 DEF Claims
      <3>3. CASE c[1] = id
        <4>1. Prompted(id, m)' => m \in ToSet(t.prompt)
          BY <1>4, <1>5 DEF Prompted
        <4>2. Behind(id, m)' => m \in ToSet(DropFirst(queue[id].items, t.remove))
          BY <1>1, <1>4, <1>5 DEF Behind
        <4>3. ~(Prompted(id, m)' /\ Behind(id, m)')
          BY <1>2, <4>1, <4>2
        <4>4. c[2] = 1 /\ m \in ToSet(queue[c[1]].items)
          BY <1>2, <3>1, <3>3, <4>1, <4>3
        <4> QED BY <3>1, <4>4 DEF Claims
      <3> QED BY <3>2, <3>3
    <2>2. Claimed /\ accepted \in [Messages -> Nat] /\ answered \in [Messages -> Nat]
      BY Types DEF Inv
    <2> QED BY <1>1, <2>1, <2>2, ClaimsKept
  <1>10. Careful'
    <2> SUFFICES ASSUME ~risky'
                 PROVE  Ours' /\ Taken' /\ \A m \in Messages : ~Lost(m)'
      BY DEF Careful
    <2>1. ~risky /\ (queue[id].mode = "collect" \/ ~Summarizes(queue[id]))
      BY <1>1
    <2>2. Ours /\ Taken /\ \A m \in Messages : ~Lost(m)
      BY <2>1 DEF Inv, Careful
    <2>3. Ours'
      <3>1. \A k \in Queues : drain'[k].pc # "off" => drain[k].pc # "off"
        BY <1>1, <1>5
      <3> QED BY <1>1, <2>2, <3>1 DEF Ours
    <2>4. Taken'
      <3>1. ASSUME NEW k \in Queues, Running(k)'
            PROVE  /\ drain'[k].turn.remove <= Len(queue[k].items)
                   /\ Len(drain'[k].turn.prompt) = drain'[k].turn.remove
                   /\ \A i \in 1 .. drain'[k].turn.remove :
                         queue[k].items[i] = drain'[k].turn.prompt[i]
                   /\ drain'[k].turn.summary => drain'[k].turn.listed = queue[k].summaryLines
        <4>1. CASE k = id
          <5>1. drain'[k].turn = t
            BY <1>4, <1>5, <4>1
          <5> QED BY <1>2, <2>1, <4>1, <5>1
        <4>2. CASE k # id
          <5>1. drain'[k] = drain[k] /\ Running(k)
            BY <1>5, <3>1, <4>2 DEF Running
          <5> QED BY <2>2, <5>1 DEF Taken
        <4> QED BY <4>1, <4>2
      <3> QED BY <1>1, <3>1 DEF Taken
    <2>5. ASSUME NEW m \in Messages, Reachable(m)
          PROVE  Reachable(m)'
      <3>1. \A k \in Queues : drain[k].pc # "off" => drain'[k].pc # "off"
        BY <1>4, <1>5
      <3> QED BY <1>1, <2>5, <3>1 DEF Reachable
    <2> QED BY <1>1, <2>2, <2>3, <2>4, <2>5 DEF Lost
  <1> QED BY <1>6, <1>7, <1>8, <1>9, <1>10 DEF Inv

(* A message that was in the prompt gives a claim up for its answer.       *)
LEMMA AnswerClaims ==
  ASSUME Inv, NEW id \in Queues, Running(id), NEW new, queue' = [queue EXCEPT ![id] = new],
         new.items = DropFirst(queue[id].items, drain[id].turn.remove),
         drain'[id].pc # "run", UNCHANGED accepted,
         \A k \in Queues : k # id /\ drain'[k].pc = "run" => drain'[k] = drain[k],
         answered' = [m \in Messages |->
             answered[m] + (IF m \in ToSet(drain[id].turn.prompt) THEN 1 ELSE 0)]
  PROVE  Claimed'
  <1>1. /\ queue'[id] = new /\ \A k \in Queues : k # id => queue'[k] = queue[k]
        /\ queue[id].items \in Seq(Messages) /\ drain[id].turn.remove \in Nat
        /\ accepted \in [Messages -> Nat] /\ answered \in [Messages -> Nat]
    BY Types
  <1>2. ToSet(new.items) \subseteq ToSet(queue[id].items)
    BY <1>1, DropTwice
  <1>3. ASSUME NEW m \in Messages
        PROVE  answered'[m] + Cardinality(Claims(m)') <= accepted[m]
    <2> DEFINE claims == Claims(m)'
               gone == IF Behind(id, m) THEN <<id, 2>> ELSE <<id, 1>>
    <2>1. ASSUME NEW c \in claims
          PROVE  /\ c \in Queues \X {1, 2} /\ c \in Claims(m)
                 /\ c[1] = id => c = <<id, 1>> /\ Behind(id, m)
      <3>1. /\ c \in Queues \X {1, 2} /\ c[1] \in Queues /\ c = <<c[1], c[2]>>
            /\ \/ c[2] = 1 /\ (m \in ToSet(queue'[c[1]].items) \/ Prompted(c[1], m)')
               \/ c[2] = 2 /\ Prompted(c[1], m)' /\ Behind(c[1], m)'
        BY <2>1 DEF Claims
      <3>2. CASE c[1] # id
        <4>1. queue'[c[1]] = queue[c[1]]
          BY <1>1, <3>1, <3>2
        <4>2. Prompted(c[1], m)' =>
                 Prompted(c[1], m) /\ (Behind(c[1], m)' => Behind(c[1], m))
          BY <3>1, <3>2, <4>1 DEF Prompted, Running, Behind
        <4> QED BY <3>1, <3>2, <4>1, <4>2 DEF Claims
      <3>3. CASE c[1] = id
        <4>1. ~Prompted(id, m)'
          BY DEF Prompted, Running
        <4>2. c[2] = 1 /\ m \in ToSet(new.items)
          BY <1>1, <3>1, <3>3, <4>1
        <4>3. Behind(id, m)
          BY <4>2 DEF Behind
        <4> QED BY <1>2, <3>1, <3>3, <4>2, <4>3 DEF Claims
      <3> QED BY <3>2, <3>3
    <2>2. m \in ToSet(drain[id].turn.prompt) => gone \in Claims(m)
      <3>1. ASSUME m \in ToSet(drain[id].turn.prompt)
            PROVE  gone \in Claims(m)
        <4>1. Prompted(id, m)
          BY <3>1 DEF Prompted
        <4>2. <<id, 1>> \in Claims(m)
          BY <4>1 DEF Claims
        <4>3. Behind(id, m) => <<id, 2>> \in Claims(m)
          BY <4>1 DEF Claims
        <4> QED BY <4>2, <4>3
      <3> QED BY <3>1
    <2>3. gone \notin claims
      BY <2>1
    <2>4. claims \subseteq Claims(m)
      BY <2>1
    <2> HIDE DEF claims, gone
    <2>5. IsFiniteSet(Claims(m))
      BY ClaimsFinite
    <2>6. /\ Cardinality(claims) <= Cardinality(Claims(m)) /\ Cardinality(Claims(m)) \in Nat
          /\ IsFiniteSet(claims)
      BY <2>4, <2>5, FewerElements
    <2>7. Cardinality(claims) \in Nat
      BY <2>6, FS_CardinalityType
    <2>8. /\ answered[m] + Cardinality(Claims(m)) <= accepted[m]
          /\ answered[m] \in Nat /\ accepted[m] \in Nat
      BY <1>1 DEF Inv, Claimed
    <2>9. CASE m \in ToSet(drain[id].turn.prompt)
      <3>1. answered'[m] = answered[m] + 1
        BY <2>9
      <3>2. claims \subseteq Claims(m) \ {gone} /\ gone \in Claims(m)
        BY <2>2, <2>3, <2>4, <2>9
      <3>3. Cardinality(claims) + 1 <= Cardinality(Claims(m))
        BY <2>5, <3>2, FewerElements
      <3>4. answered'[m] + Cardinality(claims) <= accepted[m]
        BY <2>6, <2>7, <2>8, <3>1, <3>3
      <3> QED BY <3>4 DEF claims
    <2>10. CASE m \notin ToSet(drain[id].turn.prompt)
      <3>1. answered'[m] = answered[m]
        BY <2>8, <2>10
      <3>2. answered'[m] + Cardinality(claims) <= accepted[m]
        BY <2>6, <2>7, <2>8, <3>1
      <3> QED BY <3>2 DEF claims
    <2> QED BY <2>9, <2>10
  <1> QED BY <1>3 DEF Claimed

LEMMA TurnSucceedsInv ==
  ASSUME Inv, NEW id \in Queues, TurnSucceeds(id)
  PROVE  Inv'
  <1> DEFINE t == drain[id].turn
             q == queue[id]
             new == [q EXCEPT !.items = DropFirst(@, t.remove),
                              !.droppedCount = IF t.summary THEN 0 ELSE @,
                              !.summaryLines = IF t.summary THEN <<>> ELSE @]
  <1>1. /\ drain[id].pc = "run" /\ Loop(id, new)
        /\ answered' = [m \in Messages |-> answered[m] + (IF m \in ToSet(t.prompt) THEN 1 ELSE 0)]
        /\ told' = told \cup ToSet(t.listed)
        /\ queue' = [queue EXCEPT ![id] = new]
        /\ UNCHANGED <<config, made, arrivals, failures, accepted, removed, risky>>
    BY DEF TurnSucceeds
  <1>2. /\ q \in QueueObject /\ q.items \in Seq(Messages) /\ q.summaryLines \in Seq(Messages)
        /\ q.droppedCount \in Nat /\ IsInjective(q.items)
        /\ Len(q.summaryLines) <= q.droppedCount
        /\ t \in Turns /\ t.remove \in Nat /\ t.prompt \in Seq(Messages)
        /\ t.listed \in Seq(Messages)
        /\ accepted \in [Messages -> Nat] /\ answered \in [Messages -> Nat]
    BY Types DEF Turns
  <1>3. /\ DropFirst(q.items, t.remove) \in Seq(Messages)
        /\ ToSet(DropFirst(q.items, t.remove)) = {q.items[i] : i \in t.remove + 1 .. Len(q.items)}
        /\ IsInjective(DropFirst(q.items, t.remove))
    <2>1. q.items \in Seq(Messages) /\ t.remove \in Nat /\ IsInjective(q.items)
      BY <1>2
    <2> HIDE DEF q, t
    <2>2. /\ DropFirst(q.items, t.remove) \in Seq(Messages)
          /\ ToSet(DropFirst(q.items, t.remove)) = {q.items[i] : i \in t.remove + 1 .. Len(q.items)}
          /\ IsInjective(q.items) => IsInjective(DropFirst(q.items, t.remove))
      <3>1. ASSUME NEW s \in Seq(Messages), NEW n \in Nat
            PROVE  /\ DropFirst(s, n) \in Seq(Messages)
                   /\ ToSet(DropFirst(s, n)) = {s[i] : i \in n + 1 .. Len(s)}
                   /\ IsInjective(s) => IsInjective(DropFirst(s, n))
        BY DropFirstKnown
      <3> QED BY <2>1, <3>1
    <2> QED BY <2>1, <2>2
  <1>4. /\ new \in QueueObject /\ new.items = DropFirst(q.items, t.remove)
        /\ new.droppedCount = (IF t.summary THEN 0 ELSE q.droppedCount)
        /\ new.summaryLines = (IF t.summary THEN <<>> ELSE q.summaryLines)
    <2>1. <<>> \in Seq(Messages) /\ 0 \in Nat
      BY EmptySeq
    <2> QED BY <1>2, <1>3, <2>1 DEF QueueObject
  <1> HIDE DEF new
  <1>5. Len(new.summaryLines) <= new.droppedCount
    BY <1>2, <1>4, EmptySeq
  <1>6. answered' \in [Messages -> Nat] /\ \A m \in Messages : answered[m] <= answered'[m]
    BY <1>1, <1>2
  <1>7. told \subseteq told' /\ told' \subseteq Messages /\ failures' \in 0 .. MaxFailures
    <2>1. ToSet(t.listed) \subseteq Messages
      BY <1>2, ToSetKnown
    <2>2. told \subseteq Messages /\ failures \in 0 .. MaxFailures
      BY DEF Inv, TypeOK
    <2> QED BY <1>1, <2>1, <2>2
  <1>8. ASSUME ~risky, NEW m \in ToSet(q.items) \cup ToSet(q.summaryLines)
        PROVE  \/ m \in ToSet(new.items) \cup ToSet(new.summaryLines)
               \/ answered'[m] > 0 \/ m \in told'
    <2>1. Running(id) /\ Taken
      BY <1>1, <1>8 DEF Inv, Careful, Running
    <2>2. /\ t.remove <= Len(q.items) /\ Len(t.prompt) = t.remove
          /\ \A i \in 1 .. t.remove : q.items[i] = t.prompt[i]
          /\ t.summary => t.listed = q.summaryLines
      BY <2>1 DEF Taken
    <2>3. CASE m \in ToSet(q.items)
      <3>1. PICK i \in 1 .. Len(q.items) : m = q.items[i]
        <4>1. q.items \in Seq(Messages)
          BY <1>2
        <4> HIDE DEF q
        <4> QED BY <2>3, <4>1, ToSetKnown
      <3>2. Len(q.items) \in Nat
        BY <1>2, LenProperties
      <3>3. CASE i <= t.remove
        <4>1. i \in 1 .. Len(t.prompt) /\ m = t.prompt[i]
          BY <1>2, <2>2, <3>1, <3>2, <3>3
        <4>2. m \in ToSet(t.prompt)
          BY <1>2, <4>1, ToSetKnown
        <4>3. m \in Messages
          BY <1>2, <4>2, ToSetKnown
        <4>4. answered'[m] = answered[m] + 1 /\ answered[m] \in Nat
          BY <1>1, <1>2, <4>2, <4>3
        <4> QED BY <4>4
      <3>4. CASE ~(i <= t.remove)
        <4>1. i \in t.remove + 1 .. Len(q.items)
          <5>1. t.remove \in Nat
            BY <1>2
          <5> HIDE DEF q, t
          <5> QED BY <3>1, <3>2, <3>4, <5>1
        <4> QED BY <1>3, <1>4, <3>1, <4>1
      <3> QED BY <3>3, <3>4
    <2>4. CASE m \in ToSet(q.summaryLines)
      BY <1>1, <1>4, <2>2, <2>4
    <2> QED BY <2>3, <2>4
  <1>9. DrainsOn(id, new)
    <2>1. drain[id].pc # "off" /\ (Finally(id, new) \/ Loop(id, new))
      BY <1>1
    <2>2. /\ new \in QueueObject /\ IsInjective(new.items)
          /\ Len(new.summaryLines) <= new.droppedCount
          /\ queue' = [queue EXCEPT ![id] = new]
      BY <1>1, <1>3, <1>4, <1>5
    <2>3. UNCHANGED <<config, made, arrivals, accepted, removed, risky>>
      BY <1>1
    <2> QED BY <1>6, <1>7, <1>8, <2>1, <2>2, <2>3 DEF DrainsOn
  <1>10. Claimed'
    <2>1. /\ drain'[id].pc \in {"off", "debounce"}
          /\ \A k \in Queues : k # id =>
                \/ drain'[k] = drain[k]
                \/ k = current /\ drain[k].pc = "off" /\ drain'[k].pc = "debounce"
      BY <1>1, LoopKnown
    <2>2. drain'[id].pc # "run"
      BY <2>1
    <2>3. \A k \in Queues : (k # id /\ drain'[k].pc = "run") => drain'[k] = drain[k]
      BY <2>1
    <2>4. Running(id) /\ UNCHANGED accepted
      BY <1>1 DEF Running
    <2> QED BY <1>1, <1>4, <2>2, <2>3, <2>4, AnswerClaims
  <1> QED BY <1>9, <1>10, DrainsOnInv

-----------------------------------------------------------------------------
(* The specification.                                                      *)

LEMMA InitInv ==
  ASSUME Init
  PROVE  Inv
  <1> DEFINE s == CHOOSE x \in UNION Configs : TRUE
  <1>1. s \in Settings
    <2>1. PICK c \in Configs : c \subseteq Settings /\ c # {}
      BY FollowupAssumption
    <2>2. PICK x \in c : TRUE
      BY <2>1
    <2>3. x \in UNION Configs
      BY <2>2
    <2>4. s \in UNION Configs
      BY <2>3
    <2>5. UNION Configs \subseteq Settings
      BY FollowupAssumption
    <2> QED BY <2>4, <2>5
  <1>2. /\ config \in Configs /\ current = None
        /\ queue = [i \in Queues |-> NewQueue(s)]
        /\ drain = [i \in Queues |-> Off]
        /\ made = 0 /\ arrivals = 0 /\ failures = 0
        /\ accepted = [m \in Messages |-> 0] /\ answered = accepted
        /\ told = {} /\ removed = {} /\ risky = FALSE
    BY DEF Init
  <1> HIDE DEF s
  <1>3. /\ NewQueue(s) \in QueueObject /\ NewQueue(s).items = <<>>
        /\ NewQueue(s).droppedCount = 0 /\ NewQueue(s).summaryLines = <<>>
    BY <1>1, SettingsKnown
  <1>4. Off \in Drain /\ Off.pc = "off"
    BY DrainRecords
  <1>5. /\ queue \in [Queues -> QueueObject] /\ drain \in [Queues -> Drain]
        /\ \A k \in Queues : queue[k] = NewQueue(s) /\ drain[k] = Off
    BY <1>2, <1>3, <1>4
  <1>6. TypeOK
    <2>1. made \in 0 .. MaxQueues /\ arrivals \in 0 .. MaxArrivals /\ failures \in 0 .. MaxFailures
      BY <1>2, FollowupAssumption
    <2>2. accepted \in [Messages -> Nat] /\ answered \in [Messages -> Nat]
      BY <1>2
    <2> QED BY <1>2, <1>5, <2>1, <2>2 DEF TypeOK
  <1>7. QueuesSound
    <2>1. IsInjective(<<>>) /\ Len(<<>>) = 0
      BY EmptySeq DEF IsInjective
    <2> QED BY <1>2, <1>3, <1>5, <2>1 DEF QueuesSound
  <1>8. Unmade
    BY <1>3, <1>5 DEF Unmade
  <1>9. Claimed
    <2>1. ASSUME NEW m \in Messages
          PROVE  answered[m] + Cardinality(Claims(m)) <= accepted[m]
      <3>1. ToSet(<<>>) = {}
        BY DEF ToSet
      <3>2. \A k \in Queues : m \notin ToSet(queue[k].items) /\ ~Prompted(k, m)
        BY <1>3, <1>4, <1>5, <3>1 DEF Prompted, Running
      <3>3. Claims(m) = {}
        BY <3>2 DEF Claims
      <3>4. Cardinality(Claims(m)) = 0
        BY <3>3, FS_EmptySet
      <3> QED BY <1>2, <3>4
    <2> QED BY <2>1 DEF Claimed
  <1>10. Careful
    <2>1. Ours /\ Taken
      BY <1>4, <1>5 DEF Ours, Taken, Running
    <2>2. \A m \in Messages : ~Lost(m)
      BY <1>2 DEF Lost
    <2> QED BY <2>1, <2>2 DEF Careful
  <1> QED BY <1>6, <1>7, <1>8, <1>9, <1>10 DEF Inv

LEMMA StutterInv ==
  ASSUME Inv, UNCHANGED vars
  PROVE  Inv'
  BY DEF Inv, vars, TypeOK, QueuesSound, Unmade, Claimed, Claims, Prompted, Running, Behind,
         Careful, Ours, Taken, Lost, Reachable

LEMMA NextInv ==
  ASSUME Inv, [Next]_vars
  PROVE  Inv'
  <1>1. ASSUME NEW m \in Messages, NEW s \in config, enqueueFollowupRun(m, s)
        PROVE  Inv'
    BY <1>1, EnqueueInv
  <1>2. CASE clearFollowupQueue
    BY <1>2, ClearInv
  <1>3. CASE RunReturns
    BY <1>3, RunReturnsInv
  <1>4. ASSUME NEW id \in Queues, DrainStep(id) \/ TurnFails(id)
        PROVE  Inv'
    <2>1. CASE StartTurn(id)
      BY <2>1, StartTurnInv
    <2>2. CASE StopDrain(id)
      BY <2>2, StopDrainInv
    <2>3. CASE TurnSucceeds(id)
      BY <2>3, TurnSucceedsInv
    <2>4. CASE TurnFails(id)
      BY <2>4, TurnFailsInv
    <2> QED BY <1>4, <2>1, <2>2, <2>3, <2>4 DEF DrainStep
  <1>5. CASE UNCHANGED vars
    BY <1>5, StutterInv
  <1> QED BY <1>1, <1>2, <1>3, <1>4, <1>5 DEF Next

(* Types, the claims on answers, and what is true while nothing risky      *)
(* happened, hold in every state (queue/enqueue.ts, queue/drain.ts).       *)
THEOREM SpecInv == Spec => []Inv
  <1>1. Init => Inv
    BY InitInv
  <1>2. Inv /\ [Next]_vars => Inv'
    BY NextInv
  <1> QED BY <1>1, <1>2, PTL DEF Spec

(* Every message that was accepted is in the queue, in a summary, told,    *)
(* removed or answered, unless a drop met a run, a summary took a turn or  *)
(* a clear met a drain; and no message is answered more often than it was  *)
(* accepted (queue/enqueue.ts, queue/drain.ts, queue-helpers.ts).          *)
THEOREM SpecAccounted == Spec => []Accounted
  <1>1. Inv => Accounted
    <2> SUFFICES ASSUME Inv
                 PROVE  NothingElseLost /\ AnsweredOnce
      BY DEF Inv, Accounted
    <2>1. NothingElseLost
      BY DEF Inv, Careful, NothingElseLost
    <2>2. ASSUME NEW m \in Messages
          PROVE  answered[m] <= accepted[m]
      <3>1. Cardinality(Claims(m)) \in Nat
        BY ClaimsFinite, FS_CardinalityType
      <3>2. answered[m] + Cardinality(Claims(m)) <= accepted[m]
            /\ answered[m] \in Nat /\ accepted[m] \in Nat
        BY Types DEF Inv, Claimed
      <3> QED BY <3>1, <3>2
    <2> QED BY <2>1, <2>2 DEF AnsweredOnce
  <1> QED BY <1>1, SpecInv, PTL
=============================================================================
