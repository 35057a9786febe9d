------------------------- MODULE DerivedViewsProofs -------------------------
(***************************************************************************)
(* Theorems about the two views that are derived from the records and may  *)
(* be lost or left behind: the Redis stream (RedisStream) and the tables   *)
(* of the Store (LedgerIndexes).                                           *)
(*                                                                         *)
(* The stream, for all processes, records, pages and numbers of faults:    *)
(* whatever was lost or damaged, a write leaves the committed records, and *)
(* a consumer is given each of them once.  It rests on what a process      *)
(* knows of the live stream while nobody wrote a key it watches (Watches), *)
(* which starts at the proof of the prefix, and on the order of the        *)
(* events, which no loss disturbs: in an ordered stream a prefix that      *)
(* reads 1 .. n can be followed by later events only (ProvedPrefix).       *)
(*                                                                         *)
(* The tables, for all accounts, members and revisions: whoever writes,    *)
(* refreshes or rebuilds, a reader that does not fall back reads what      *)
(* adding up all the records gives.  A row stands for the prefix up to its *)
(* cursor (RowStands).  A record of anybody leaves the prefix alone, and a *)
(* refresh or a read adds the tail to it, which is the history split in    *)
(* two (FoldSplits).                                                       *)
(***************************************************************************)
EXTENDS RedisStream, LedgerIndexes, SequenceTheorems, WellFoundedInduction, TLAPS

-----------------------------------------------------------------------------
(* RedisStream: numbers, and the events that are relayed.                   *)

\* A set of numbers that is not empty has a least one.
LEMMA LeastNat ==
    ASSUME NEW Bad \in SUBSET Nat, Bad # {}
    PROVE  \E k \in Bad : \A j \in Bad : k <= j
<1>1. PICK k \in Bad : \A j \in Bad : ~ (<<j, k>> \in OpToRel(<, Nat))
  BY NatLessThanWellFounded, WFMin, Zenon
<1>2. ASSUME NEW j \in Bad PROVE k <= j
  <2>1. j \in Nat /\ k \in Nat
    OBVIOUS
  <2>2. j < k => <<j, k>> \in OpToRel(<, Nat)
    BY <2>1 DEF OpToRel
  <2>3. ~ (j < k)
    BY <1>1, <2>2
  <2> QED BY <2>1, <2>3
<1> QED BY <1>2

-----------------------------------------------------------------------------
\* The events of the records after m and up to n.
LEMMA RelayedIs ==
    ASSUME NEW m \in Nat, NEW n \in Nat, m <= n, n <= MaxRevision
    PROVE  /\ Relayed(m, n) \in Seq(Events)
           /\ Len(Relayed(m, n)) = n - m
           /\ \A k \in 1 .. n - m : Relayed(m, n)[k] = [id |-> m + k, intact |-> TRUE]
<1>1. \A k \in 1 .. n - m : [id |-> m + k, intact |-> TRUE] \in Events
  BY StreamAssumption DEF Events, Revisions
<1> QED BY <1>1 DEF Relayed

LEMMA TailOfRelayed ==
    ASSUME NEW m \in Nat, NEW n \in Nat, m <= n, n <= MaxRevision
    PROVE  TailOf(Relayed(m, n)) = IF m = n THEN 0 ELSE n
<1>1. CASE m = n
  <2>1. Relayed(m, n) = <<>>
    BY <1>1, RelayedIs
  <2> QED BY <1>1, <2>1 DEF TailOf
<1>2. CASE m # n
  <2>1. n - m \in 1 .. n - m /\ m + (n - m) = n
    BY <1>2
  <2> DEFINE s == Relayed(m, n)
  <2>2. /\ s \in Seq(Events) /\ Len(s) = n - m
        /\ \A k \in 1 .. n - m : s[k] = [id |-> m + k, intact |-> TRUE]
    BY RelayedIs
  <2> HIDE DEF s
  <2>3. s # <<>> /\ s[Len(s)].id = n
    <3>1. s[n - m] = [id |-> m + (n - m), intact |-> TRUE]
      BY <2>1, <2>2
    <3>2. s[Len(s)].id = n
      BY <2>1, <2>2, <3>1
    <3>3. Len(s) # 0
      BY <2>1, <2>2
    <3> QED BY <2>2, <3>2, <3>3, EmptySeq
  <2>4. TailOf(s) = n
    BY <2>3 DEF TailOf, Last
  <2> QED BY <1>2, <2>4 DEF s
<1> QED BY <1>1, <1>2

\* A page and the next one.
LEMMA RelayedJoins ==
    ASSUME NEW a \in Nat, NEW b \in Nat, NEW c \in Nat, a <= b, b <= c, c <= MaxRevision
    PROVE  Relayed(a, b) \o Relayed(b, c) = Relayed(a, c)
<1>0. b <= MaxRevision /\ a <= c
  BY StreamAssumption
<1> DEFINE s == Relayed(a, b)
           t == Relayed(b, c)
           u == Relayed(a, c)
<1>1. /\ s \in Seq(Events) /\ Len(s) = b - a
      /\ \A k \in 1 .. b - a : s[k] = [id |-> a + k, intact |-> TRUE]
  BY <1>0, RelayedIs
<1>2. /\ t \in Seq(Events) /\ Len(t) = c - b
      /\ \A k \in 1 .. c - b : t[k] = [id |-> b + k, intact |-> TRUE]
  BY RelayedIs
<1>3. /\ u \in Seq(Events) /\ Len(u) = c - a
      /\ \A k \in 1 .. c - a : u[k] = [id |-> a + k, intact |-> TRUE]
  BY <1>0, RelayedIs
<1> HIDE DEF s, t, u
<1>4. /\ s \o t \in Seq(Events) /\ Len(s \o t) = c - a
      /\ \A k \in 1 .. c - a : (s \o t)[k] = IF k <= b - a THEN s[k] ELSE t[k - (b - a)]
  <2>1. /\ s \o t \in Seq(Events) /\ Len(s \o t) = Len(s) + Len(t)
        /\ \A k \in 1 .. Len(s) + Len(t) : (s \o t)[k] =
               IF k <= Len(s) THEN s[k] ELSE t[k - Len(s)]
    BY <1>1, <1>2, ConcatProperties
  <2>2. Len(s) + Len(t) = c - a
    BY <1>1, <1>2
  <2> QED BY <1>1, <2>1, <2>2
<1>5. ASSUME NEW k \in 1 .. c - a PROVE (s \o t)[k] = u[k]
  <2>1. CASE k <= b - a
    <3>1. k \in 1 .. b - a
      BY <2>1
    <3> QED BY <1>1, <1>3, <1>4, <2>1, <3>1
  <2>2. CASE ~(k <= b - a)
    <3>1. k - (b - a) \in 1 .. c - b /\ b + (k - (b - a)) = a + k
      BY <2>2
    <3> QED BY <1>2, <1>3, <1>4, <2>2, <3>1
  <2> QED BY <2>1, <2>2
<1>6. s \o t = u
  BY <1>3, <1>4, <1>5, SeqEqual
<1> QED BY <1>6 DEF s, t, u

\* A page of a suffix.
LEMMA RelayedCut ==
    ASSUME NEW m \in Nat, NEW n \in Nat, m <= n, n <= MaxRevision, NEW k \in Nat, k <= n - m
    PROVE  SubSeq(Relayed(m, n), 1, k) = Relayed(m, m + k)
<1> DEFINE s == Relayed(m, n)
           t == Relayed(m, m + k)
           u == SubSeq(s, 1, k)
<1>0. m + k \in Nat /\ m <= m + k /\ m + k <= n /\ (m + k) - m = k /\ m + k <= MaxRevision
  BY StreamAssumption
<1>1. /\ s \in Seq(Events) /\ Len(s) = n - m
      /\ \A j \in 1 .. n - m : s[j] = [id |-> m + j, intact |-> TRUE]
  BY RelayedIs
<1>2. /\ t \in Seq(Events) /\ Len(t) = (m + k) - m
      /\ \A j \in 1 .. (m + k) - m : t[j] = [id |-> m + j, intact |-> TRUE]
  BY <1>0, RelayedIs
<1> HIDE DEF s, t
<1>3. \A j \in 1 .. k : s[j] \in Events
  BY <1>1
<1>4. /\ u \in Seq(Events)
      /\ Len(u) = IF 1 <= k THEN k - 1 + 1 ELSE 0
      /\ \A j \in 1 .. k - 1 + 1 : u[j] = s[1 + j - 1]
  BY <1>3, SubSeqProperties
<1>5. /\ (IF 1 <= k THEN k - 1 + 1 ELSE 0) = k
      /\ \A j \in 1 .. k : j \in 1 .. k - 1 + 1 /\ 1 + j - 1 = j /\ j \in 1 .. n - m
  OBVIOUS
<1> HIDE DEF u
<1>6. Len(u) = k /\ \A j \in 1 .. k : u[j] = s[j]
  BY <1>4, <1>5
<1>7. \A j \in 1 .. Len(u) : u[j] = t[j]
  BY <1>0, <1>1, <1>2, <1>5, <1>6
<1>8. u = t
  BY <1>0, <1>2, <1>4, <1>6, <1>7, SeqEqual
<1> QED BY <1>8 DEF s, t, u

-----------------------------------------------------------------------------
(* XRANGE.                                                                  *)

\* w is the function that Between defines by recursion.
IsWindow(w, s, m, n) ==
    w = [k \in 0 .. Len(s) |->
            IF k = 0 THEN <<>>
            ELSE IF m < s[k].id /\ s[k].id <= n THEN Append(w[k - 1], s[k])
            ELSE w[k - 1]]

LEMMA BetweenUnfolds ==
    ASSUME NEW s, NEW m, NEW n
    PROVE  Between(s, m, n) = (CHOOSE w : IsWindow(w, s, m, n))[Len(s)]
BY DEF Between, IsWindow

\* By the least index at which they would differ.
LEMMA WindowsAgree ==
    ASSUME NEW s, Len(s) \in Nat, NEW m, NEW n,
           NEW v, IsWindow(v, s, m, n), NEW w, IsWindow(w, s, m, n)
    PROVE  v[Len(s)] = w[Len(s)]
<1> DEFINE Bad == {k \in 0 .. Len(s) : v[k] # w[k]}
<1>1. SUFFICES ASSUME Bad # {} PROVE FALSE
  BY <1>1
<1>2. PICK k \in Bad : \A j \in Bad : k <= j
  <2>1. Bad \in SUBSET Nat
    OBVIOUS
  <2> HIDE DEF Bad
  <2> QED BY <1>1, <2>1, LeastNat
<1>3. \A j \in 0 .. Len(s) :
          /\ v[j] = IF j = 0 THEN <<>>
                    ELSE IF m < s[j].id /\ s[j].id <= n THEN Append(v[j - 1], s[j])
                    ELSE v[j - 1]
          /\ w[j] = IF j = 0 THEN <<>>
                    ELSE IF m < s[j].id /\ s[j].id <= n THEN Append(w[j - 1], s[j])
                    ELSE w[j - 1]
  BY DEF IsWindow
<1>4. k \in 0 .. Len(s) /\ k # 0
  BY <1>3
<1>5. k - 1 \in 0 .. Len(s) /\ ~(k <= k - 1)
  BY <1>4
<1>6. v[k - 1] = w[k - 1]
  BY <1>2, <1>5
<1> QED BY <1>3, <1>4, <1>6

\* The events a + 1 .. b of s are those after revision m and up to revision n.
Encloses(s, m, n, a, b) ==
    /\ a <= b /\ b <= Len(s)
    /\ \A k \in 1 .. a : s[k].id <= m
    /\ \A k \in a + 1 .. b : m < s[k].id /\ s[k].id <= n
    /\ \A k \in b + 1 .. Len(s) : n < s[k].id

LEMMA BetweenIs ==
    ASSUME NEW s \in Seq(Events), NEW m \in Nat, NEW n \in Nat,
           NEW a \in Nat, NEW b \in Nat, Encloses(s, m, n, a, b)
    PROVE  Between(s, m, n) = SubSeq(s, a + 1, b)
<1> USE DEF Encloses
<1> DEFINE len == Len(s)
<1>0. len \in Nat /\ \A k \in 1 .. len : s[k] \in Events /\ s[k].id \in Nat
  <2>1. \A e \in Events : e.id \in Nat
    BY StreamAssumption DEF Events, Revisions
  <2> QED BY <2>1
<1> PICK w : w = [k \in 0 .. len |->
                     IF k <= a THEN <<>>
                     ELSE IF k <= b THEN SubSeq(s, a + 1, k) ELSE SubSeq(s, a + 1, b)]
  OBVIOUS
<1>1. ASSUME NEW k \in 0 .. len
      PROVE  w[k] = IF k = 0 THEN <<>>
                    ELSE IF m < s[k].id /\ s[k].id <= n THEN Append(w[k - 1], s[k])
                    ELSE w[k - 1]
  <2>1. CASE k = 0
    BY <2>1
  <2>2. CASE k \in 1 .. a
    <3>1. ~(m < s[k].id) /\ k - 1 \in 0 .. len /\ k - 1 <= a
      BY <1>0, <2>2
    <3> QED BY <2>2, <3>1
  <2>3. CASE k \in a + 1 .. b
    <3>0. k \in 1 .. len /\ k - 1 \in 0 .. len /\ k # 0 /\ a < k /\ k <= b
      BY <1>0, <2>3
    <3>1. /\ m < s[k].id /\ s[k].id <= n /\ k - 1 \in 0 .. len /\ k # 0
          /\ w[k] = SubSeq(s, a + 1, k)
      <4>1. m < s[k].id /\ s[k].id <= n
        BY <3>0
      <4>2. w[k] = SubSeq(s, a + 1, k)
        BY <3>0
      <4> QED BY <3>0, <4>1, <4>2
    <3>2. SubSeq(s, a + 1, k) = SubSeq(s, a + 1, k - 1) \o <<s[k]>>
      <4>1. a + 1 \in 1 .. Len(s) /\ k \in a + 1 .. Len(s)
        BY <1>0, <2>3
      <4> QED BY <4>1, SubSeqRecursiveSecond
    <3>3. SubSeq(s, a + 1, k - 1) \in Seq(Events)
      <4>1. \A j \in a + 1 .. k - 1 : s[j] \in Events
        BY <1>0, <2>3
      <4> QED BY <2>3, <4>1, SubSeqProperties
    <3>4. w[k - 1] = SubSeq(s, a + 1, k - 1)
      <4>1. CASE k - 1 <= a
        <5>1. k - 1 < a + 1 /\ a + 1 \in Int /\ k - 1 \in Int
          BY <2>3, <4>1
        <5>2. SubSeq(s, a + 1, k - 1) = <<>>
          BY <5>1, SubSeqEmpty
        <5> QED BY <3>1, <4>1, <5>2
      <4>2. CASE ~(k - 1 <= a)
        <5>1. k - 1 <= b
          BY <2>3
        <5> QED BY <3>1, <4>2, <5>1
      <4> QED BY <4>1, <4>2
    <3>5. s[k] \in Events
      BY <1>0, <2>3
    <3>6. w[k] = Append(w[k - 1], s[k])
      BY <3>1, <3>2, <3>3, <3>4, <3>5, AppendIsConcat
    <3> QED BY <3>1, <3>6
  <2>4. CASE k \in b + 1 .. len
    <3>1. ~(s[k].id <= n) /\ k - 1 \in 0 .. len /\ k # 0
      <4>1. k \in 1 .. len /\ n < s[k].id
        BY <1>0, <2>4
      <4> QED BY <1>0, <4>1
    <3>2. w[k] = SubSeq(s, a + 1, b)
      BY <2>4
    <3>3. w[k - 1] = SubSeq(s, a + 1, b)
      <4>1. CASE k - 1 <= a
        <5>1. b = a /\ b < a + 1
          BY <2>4, <4>1
        <5>2. SubSeq(s, a + 1, b) = <<>>
          BY <5>1, SubSeqEmpty
        <5> QED BY <3>1, <4>1, <5>2
      <4>2. CASE ~(k - 1 <= a)
        BY <2>4, <3>1, <4>2
      <4> QED BY <4>1, <4>2
    <3> QED BY <3>1, <3>2, <3>3
  <2>5. k = 0 \/ k \in 1 .. a \/ k \in a + 1 .. b \/ k \in b + 1 .. len
    BY <1>0
  <2> HIDE DEF len
  <2> QED BY <2>1, <2>2, <2>3, <2>4, <2>5
<1>2. w = [k \in 0 .. len |-> w[k]]
  OBVIOUS
<1>3. IsWindow(w, s, m, n)
  BY <1>1, <1>2 DEF IsWindow
<1>4. w[len] = SubSeq(s, a + 1, b)
  <2>1. len \in 0 .. len
    BY <1>0
  <2>2. CASE len <= a
    <3>1. b = a /\ b < a + 1 /\ a + 1 \in Int /\ b \in Int
      BY <1>0, <2>2
    <3>2. SubSeq(s, a + 1, b) = <<>>
      BY <3>1, SubSeqEmpty
    <3> QED BY <2>1, <2>2, <3>2
  <2>3. CASE ~(len <= a)
    <3>1. len <= b => b = len
      BY <1>0
    <3> QED BY <2>1, <2>3, <3>1
  <2> QED BY <2>2, <2>3
<1>5. IsWindow(CHOOSE v : IsWindow(v, s, m, n), s, m, n)
  BY <1>3
<1> QED BY <1>0, <1>3, <1>4, <1>5, BetweenUnfolds, WindowsAgree

-----------------------------------------------------------------------------
\* The events of a stream are in the order of their revisions.
Ordered(s) == \A j, k \in 1 .. Len(s) : j < k => s[j].id < s[k].id

\* What process i does is about records that were committed, and its staged
\* stream is the last pages of it, all of them unless it expired.
Stands(r, i, committed) ==
    /\ r.capture <= committed /\ r.known <= committed
    /\ (r.op = "read" \/ r.nested) => i \in Consumers
    /\ r.op = "read" => r.capture = r.known
    /\ r.at \in {"range", "answer"} => r.op = "read"
    /\ r.at \in {"append", "stage", "swap"} => r.op # "read"
    /\ r.at = "append" => r.fence.watermark <= r.capture
    /\ r.at \notin {"stage", "swap"} => r.staged = <<>> /\ r.pages = 0
    /\ r.pages <= r.capture \/ r.at \notin {"stage", "swap"}
    /\ Len(r.staged) <= r.pages /\ r.staged = Relayed(r.pages - Len(r.staged), r.pages)

\* Until a watched key is written, what was read and proved of the live stream
\* still holds.
Watches(r, live, given) ==
    r.clean =>
        /\ r.at = "prove" => r.fence = [watermark |-> live.watermark, tail |-> TailOf(live.stream)]
        /\ r.at = "append" => live.stream = Relayed(0, r.fence.watermark)
        /\ r.at = "range" => Between(live.stream, 0, r.known) = Relayed(0, r.known)
        /\ r.at = "answer" => /\ Len(given) + Len(r.reply) <= MaxRevision
                              /\ r.reply = Relayed(Len(given), Len(given) + Len(r.reply))

Given(g) == Len(g) <= MaxRevision /\ g = Relayed(0, Len(g))

IInv ==
    /\ revision \in 0 .. MaxRevision
    /\ redis \in [stream : Seq(Events), watermark : 0 .. MaxRevision]
    /\ relay \in [Processes -> Relays]
    /\ got \in [Consumers -> Seq(Events)]
    /\ faults \in 0 .. MaxFaults
    /\ Ordered(redis.stream)
    /\ \A i \in Processes : Stands(relay[i], i, revision)
    /\ \A i \in Processes : Watches(relay[i], redis, got[i])
    /\ \A i \in Consumers : Given(got[i])

\* What process i may come to do while the live stream stays as it is.
Fits(r, i) == r \in Relays /\ Stands(r, i, revision) /\ Watches(r, redis, got[i])

-----------------------------------------------------------------------------
LEMMA NothingRelayed ==
    ASSUME NEW n \in Nat, n <= MaxRevision
    PROVE  Relayed(n, n) = <<>> /\ <<>> \in Seq(Events) /\ Len(<<>>) = 0
<1>1. Relayed(n, n) \in Seq(Events) /\ Len(Relayed(n, n)) = n - n
  BY RelayedIs
<1> QED BY <1>1, EmptySeq

\* A process without a call.
LEMMA IdleFits ==
    ASSUME NEW i, NEW committed \in 0 .. MaxRevision
    PROVE  Idle \in Relays /\ Stands(Idle, i, committed) /\ ~Idle.clean
<1>1. 0 \in Nat /\ 0 <= MaxRevision
  BY StreamAssumption
<1>2. Relayed(0, 0) = <<>> /\ <<>> \in Seq(Events) /\ Len(<<>>) = 0
  BY <1>1, NothingRelayed
<1>3. Idle \in Relays
  BY <1>2, StreamAssumption DEF Idle, Relays, Ops, Steps
<1> QED BY <1>2, <1>3 DEF Idle, Stands

LEMMA ReadAgainFits ==
    ASSUME NEW i \in Consumers, NEW committed \in 0 .. MaxRevision,
           NEW r \in Relays, r.known <= committed
    PROVE  ReadAgain(r) \in Relays /\ Stands(ReadAgain(r), i, committed) /\ ~ReadAgain(r).clean
<1>1. CASE r.reads = Attempts
  BY <1>1, IdleFits DEF ReadAgain
<1>2. CASE r.reads # Attempts
  <2>1. 0 \in Nat /\ 0 <= MaxRevision
    BY StreamAssumption
  <2>2. Relayed(0, 0) = <<>> /\ <<>> \in Seq(Events) /\ Len(<<>>) = 0
    BY <2>1, NothingRelayed
  <2>3. r.known \in 0 .. MaxRevision /\ r.reads + 1 \in 1 .. Attempts
    BY <1>2, StreamAssumption DEF Relays
  <2> DEFINE s == [Idle EXCEPT !.op = "read", !.at = "fence", !.known = r.known,
                               !.capture = r.known, !.reads = r.reads + 1]
  <2>4. Idle \in Relays
    BY IdleFits
  <2>5. s \in Relays
    BY <2>3, <2>4 DEF Relays, Ops, Steps
  <2>6. Stands(s, i, committed) /\ ~s.clean
    <3>1. /\ s.op = "read" /\ s.at = "fence" /\ s.known = r.known /\ s.capture = r.known
          /\ s.staged = <<>> /\ s.pages = 0 /\ ~s.clean
      BY DEF Idle
    <3> HIDE DEF s
    <3> QED BY <2>2, <2>3, <3>1 DEF Stands
  <2> QED BY <1>2, <2>5, <2>6 DEF ReadAgain
<1> QED BY <1>1, <1>2

\* However a call returns.
LEMMA ReturnFits ==
    ASSUME NEW i, NEW committed \in 0 .. MaxRevision, NEW r \in Relays, Stands(r, i, committed),
           NEW s \in {Failed(r), Contended(r), Finished(r)}
    PROVE  s \in Relays /\ Stands(s, i, committed) /\ ~s.clean
<1>1. CASE s = Idle
  BY <1>1, IdleFits
<1>2. CASE r.nested /\ s = ReadAgain(r)
  BY <1>2, ReadAgainFits DEF Stands
<1> QED BY <1>1, <1>2 DEF Failed, Contended, Finished

LEMMA PagesFit ==
    ASSUME NEW r \in Relays, NEW events \in Seq(Events), NEW n \in 0 .. MaxRevision
    PROVE  /\ [r EXCEPT !.staged = events, !.pages = n] \in Relays
           /\ r.staged = events /\ r.pages = n => [r EXCEPT !.staged = events, !.pages = n] = r
BY DEF Relays

\* A capture that is taken again.
LEMMA RefreshedFits ==
    ASSUME NEW i, revision \in 0 .. MaxRevision, NEW r \in Relays, Stands(r, i, revision),
           r.op # "read"
    PROVE  LET s == [Refreshed(r) EXCEPT !.staged = <<>>, !.pages = 0]
           IN  /\ s \in Relays /\ Stands(s, i, revision) /\ (s.at = "fence" \/ ~s.clean)
               /\ r.staged = <<>> /\ r.pages = 0 => Refreshed(r) = s
<1> DEFINE s == [Refreshed(r) EXCEPT !.staged = <<>>, !.pages = 0]
<1>1. 0 \in Nat /\ 0 <= MaxRevision
  BY StreamAssumption
<1>2. Relayed(0, 0) = <<>> /\ <<>> \in Seq(Events) /\ Len(<<>>) = 0
  BY <1>1, NothingRelayed
<1>3. CASE r.tries = Attempts
  <2>1. Refreshed(r) = Contended(r)
    BY <1>3 DEF Refreshed
  <2>2. Contended(r) \in Relays /\ Stands(Contended(r), i, revision) /\ ~Contended(r).clean
    BY ReturnFits
  <2>3. Contended(r).staged = <<>> /\ Contended(r).pages = 0
    BY DEF Contended, ReadAgain, Idle
  <2>4. s = Contended(r)
    BY <2>1, <2>2, <2>3 DEF Relays
  <2> QED BY <2>1, <2>2, <2>4
<1>4. CASE r.tries # Attempts
  <2>1. Refreshed(r) = [r EXCEPT !.at = "fence", !.tries = @ + 1, !.capture = revision]
    BY <1>4 DEF Refreshed
  <2>2. r.tries + 1 \in 1 .. Attempts
    BY <1>4, StreamAssumption DEF Relays
  <2>3. s \in Relays
    <3> DEFINE q == [r EXCEPT !.at = "fence", !.tries = @ + 1, !.capture = revision]
    <3>1. q \in Relays
      BY <2>2 DEF Relays, Steps
    <3>2. [q EXCEPT !.staged = <<>>, !.pages = 0] \in Relays
      <4>1. <<>> \in Seq(Events) /\ 0 \in 0 .. MaxRevision
        BY <1>2, StreamAssumption
      <4> HIDE DEF q
      <4> QED BY <3>1, <4>1, PagesFit
    <3> QED BY <2>1, <3>2
  <2>4. Stands(s, i, revision) /\ s.at = "fence"
    BY <1>2, <2>1 DEF Stands, Relays
  <2>5. r.staged = <<>> /\ r.pages = 0 => Refreshed(r) = s
    <3> DEFINE q == [r EXCEPT !.at = "fence", !.tries = @ + 1, !.capture = revision]
    <3>1. q \in Relays /\ q.staged = r.staged /\ q.pages = r.pages
      BY <2>2 DEF Relays, Steps
    <3>2. <<>> \in Seq(Events) /\ 0 \in 0 .. MaxRevision
      BY <1>2, StreamAssumption
    <3>3. q.staged = <<>> /\ q.pages = 0 => [q EXCEPT !.staged = <<>>, !.pages = 0] = q
      <4> HIDE DEF q
      <4> QED BY <3>1, <3>2, PagesFit
    <3> QED BY <2>1, <3>1, <3>3
  <2> QED BY <2>3, <2>4, <2>5
<1> QED BY <1>3, <1>4

-----------------------------------------------------------------------------
(* Streams in order.                                                        *)

LEMMA EventsAre ==
    ASSUME NEW s \in Seq(Events)
    PROVE  Len(s) \in Nat /\ \A k \in 1 .. Len(s) : s[k] \in Events /\ s[k].id \in 1 .. MaxRevision
<1>1. \A e \in Events : e.id \in 1 .. MaxRevision
  BY DEF Events, Revisions
<1> QED BY <1>1

LEMMA TailTyped ==
    ASSUME NEW s \in Seq(Events)
    PROVE  TailOf(s) \in 0 .. MaxRevision
<1>1. CASE s = <<>>
  BY <1>1, StreamAssumption DEF TailOf
<1>2. CASE s # <<>>
  <2>1. Len(s) \in 1 .. Len(s)
    BY <1>2, EmptySeq, EventsAre
  <2> QED BY <1>2, <2>1, EventsAre, StreamAssumption DEF TailOf, Last
<1> QED BY <1>1, <1>2

\* The events up to n are the first ones.
LEMMA SplitAt ==
    ASSUME NEW s \in Seq(Events), Ordered(s), NEW n \in Nat
    PROVE  \E a \in 0 .. Len(s) : /\ \A k \in 1 .. a : s[k].id <= n
                                 /\ \A k \in a + 1 .. Len(s) : n < s[k].id
<1> DEFINE After == {j \in 0 .. Len(s) : \A k \in j + 1 .. Len(s) : n < s[k].id}
<1>1. Len(s) \in Nat /\ \A k \in 1 .. Len(s) : s[k].id \in Nat
  BY EventsAre, StreamAssumption
<1>2. Len(s) \in After
  BY <1>1
<1>3. PICK a \in After : \A j \in After : a <= j
  <2>1. After \in SUBSET Nat /\ After # {}
    BY <1>1, <1>2
  <2> HIDE DEF After
  <2> QED BY <2>1, LeastNat
<1>4. a \in 0 .. Len(s) /\ \A k \in a + 1 .. Len(s) : n < s[k].id
  OBVIOUS
<1>5. ASSUME NEW k \in 1 .. a PROVE s[k].id <= n
  <2>1. a \in 1 .. Len(s) /\ k \in 1 .. Len(s) /\ s[a].id \in Nat /\ s[k].id \in Nat
    BY <1>1, <1>4
  <2>2. s[a].id <= n
    <3> SUFFICES ASSUME n < s[a].id PROVE FALSE
      BY <2>1
    <3>1. a - 1 \in 0 .. Len(s) /\ ~(a <= a - 1)
      BY <1>1, <2>1
    <3>2. \A j \in (a - 1) + 1 .. Len(s) : n < s[j].id
      <4> TAKE j \in (a - 1) + 1 .. Len(s)
      <4>1. j = a \/ j \in a + 1 .. Len(s)
        BY <1>1, <2>1
      <4> QED BY <1>4, <4>1
    <3>3. a - 1 \in After
      BY <3>1, <3>2
    <3> HIDE DEF After
    <3> QED BY <1>3, <3>1, <3>3
  <2>3. k < a => s[k].id < s[a].id
    BY <2>1 DEF Ordered
  <2> QED BY <2>1, <2>2, <2>3
<1> QED BY <1>4, <1>5

LEMMA BetweenTyped ==
    ASSUME NEW s \in Seq(Events), Ordered(s), NEW m \in Nat, NEW n \in Nat
    PROVE  Between(s, m, n) \in Seq(Events)
<1>1. PICK a \in 0 .. Len(s) : /\ \A k \in 1 .. a : s[k].id <= m
                              /\ \A k \in a + 1 .. Len(s) : m < s[k].id
  BY SplitAt
<1>2. PICK c \in 0 .. Len(s) : /\ \A k \in 1 .. c : s[k].id <= n
                              /\ \A k \in c + 1 .. Len(s) : n < s[k].id
  BY SplitAt
<1>0. Len(s) \in Nat /\ \A k \in 1 .. Len(s) : s[k] \in Events /\ s[k].id \in Nat
  BY EventsAre, StreamAssumption
<1>3. PICK b \in Nat : Encloses(s, m, n, a, b)
  <2>1. CASE a <= c
    <3>1. ASSUME NEW k \in a + 1 .. c PROVE m < s[k].id /\ s[k].id <= n
      <4>1. k \in a + 1 .. Len(s) /\ k \in 1 .. c
        BY <1>0
      <4> QED BY <1>1, <1>2, <4>1
    <3>2. c \in Nat /\ c <= Len(s)
      BY <1>0
    <3>3. Encloses(s, m, n, a, c)
      BY <1>1, <1>2, <2>1, <3>1, <3>2 DEF Encloses
    <3> QED BY <3>2, <3>3
  <2>2. CASE c < a
    <3>1. ASSUME NEW k \in a + 1 .. Len(s) PROVE n < s[k].id
      <4>1. k \in c + 1 .. Len(s)
        BY <1>0, <2>2
      <4> QED BY <1>2, <4>1
    <3>2. a \in Nat /\ a <= Len(s) /\ a <= a /\ a + 1 .. a = {}
      BY <1>0
    <3>3. Encloses(s, m, n, a, a)
      BY <1>1, <3>1, <3>2 DEF Encloses
    <3> QED BY <3>2, <3>3
  <2>3. a <= c \/ c < a
    BY <1>0
  <2> QED BY <2>1, <2>2, <2>3
<1>4. Between(s, m, n) = SubSeq(s, a + 1, b)
  <2>1. a \in Nat /\ b \in Nat
    BY <1>0
  <2> QED BY <1>3, <2>1, BetweenIs
<1>5. \A k \in a + 1 .. b : s[k] \in Events
  <2>1. b <= Len(s)
    BY <1>3 DEF Encloses
  <2> QED BY <1>0, <2>1
<1>6. a + 1 \in Int /\ b \in Int
  BY <1>0
<1> QED BY <1>4, <1>5, <1>6, SubSeqProperties

\* What a process proves of the stream it watches.
LEMMA ProvedPrefix ==
    ASSUME NEW s \in Seq(Events), Ordered(s), NEW n \in Nat, n <= MaxRevision,
           Between(s, 0, n) = Relayed(0, n)
    PROVE  /\ n <= Len(s)
           /\ \A k \in 1 .. n : s[k] = [id |-> k, intact |-> TRUE] /\ s[k].id = k
           /\ \A k \in n + 1 .. Len(s) : n < s[k].id
<1>0. Len(s) \in Nat /\ \A k \in 1 .. Len(s) : s[k] \in Events /\ s[k].id \in Nat /\ 0 < s[k].id
  BY EventsAre, StreamAssumption
<1>1. PICK b \in 0 .. Len(s) : /\ \A k \in 1 .. b : s[k].id <= n
                              /\ \A k \in b + 1 .. Len(s) : n < s[k].id
  BY SplitAt
<1>2. Between(s, 0, n) = SubSeq(s, 1, b)
  <2>1. 0 \in Nat /\ b \in Nat /\ 0 <= b /\ b <= Len(s)
    BY <1>0
  <2>2. \A k \in 1 .. 0 : s[k].id <= 0
    OBVIOUS
  <2>3. \A k \in 0 + 1 .. b : 0 < s[k].id /\ s[k].id <= n
    BY <1>0, <1>1
  <2>4. Encloses(s, 0, n, 0, b)
    BY <1>1, <2>1, <2>2, <2>3 DEF Encloses
  <2>5. Between(s, 0, n) = SubSeq(s, 0 + 1, b)
    BY <2>1, <2>4, BetweenIs
  <2> QED BY <2>5
<1>3. Len(SubSeq(s, 1, b)) = b /\ \A k \in 1 .. b : SubSeq(s, 1, b)[k] = s[k]
  <2>1. \A k \in 1 .. b : s[k] \in Events
    BY <1>0
  <2>2. 1 \in Int /\ b \in Int
    BY <1>0
  <2>3. /\ Len(SubSeq(s, 1, b)) = IF 1 <= b THEN b - 1 + 1 ELSE 0
        /\ \A k \in 1 .. b - 1 + 1 : SubSeq(s, 1, b)[k] = s[1 + k - 1]
    BY <2>1, <2>2, SubSeqProperties
  <2>4. \A k \in 1 .. b : k \in 1 .. b - 1 + 1 /\ 1 + k - 1 = k
    OBVIOUS
  <2>5. (IF 1 <= b THEN b - 1 + 1 ELSE 0) = b
    OBVIOUS
  <2> QED BY <2>3, <2>4, <2>5
<1>4. /\ Len(Relayed(0, n)) = n
      /\ \A k \in 1 .. n : Relayed(0, n)[k] = [id |-> k, intact |-> TRUE]
  <2>1. 0 \in Nat /\ 0 <= n
    OBVIOUS
  <2>2. /\ Len(Relayed(0, n)) = n - 0
        /\ \A k \in 1 .. n - 0 : Relayed(0, n)[k] = [id |-> 0 + k, intact |-> TRUE]
    BY <2>1, RelayedIs
  <2>3. n - 0 = n /\ \A k \in 1 .. n : 0 + k = k
    OBVIOUS
  <2> QED BY <2>2, <2>3
<1>5. b = n
  BY <1>2, <1>3, <1>4
<1>6. \A k \in 1 .. n : s[k] = [id |-> k, intact |-> TRUE]
  BY <1>2, <1>3, <1>4, <1>5
<1>7. ASSUME NEW k \in 1 .. n PROVE s[k].id = k
  <2>1. s[k] = [id |-> k, intact |-> TRUE]
    BY <1>6
  <2> QED BY <2>1
<1> QED BY <1>0, <1>1, <1>5, <1>6, <1>7

\* With the right last event it is all of the stream.
LEMMA ProvedWhole ==
    ASSUME NEW s \in Seq(Events), Ordered(s), NEW n \in Nat, n <= MaxRevision,
           Between(s, 0, n) = Relayed(0, n), TailOf(s) = n
    PROVE  s = Relayed(0, n)
<1>1. /\ n <= Len(s)
      /\ \A k \in 1 .. n : s[k] = [id |-> k, intact |-> TRUE]
      /\ \A k \in n + 1 .. Len(s) : n < s[k].id
  BY ProvedPrefix
<1>2. Len(s) \in Nat /\ \A k \in 1 .. Len(s) : s[k].id \in 1 .. MaxRevision
  BY EventsAre
<1>3. Len(s) = n
  <2> SUFFICES ASSUME n < Len(s) PROVE FALSE
    BY <1>1, <1>2
  <2>1. Len(s) \in n + 1 .. Len(s) /\ Len(s) \in 1 .. Len(s) /\ Len(s) # 0
    BY <1>2
  <2>2. TailOf(s) = s[Len(s)].id
    BY <2>1, EmptySeq DEF TailOf, Last
  <2> QED BY <1>1, <1>2, <2>1, <2>2
<1>4. /\ Relayed(0, n) \in Seq(Events) /\ Len(Relayed(0, n)) = n - 0
      /\ \A k \in 1 .. n - 0 : Relayed(0, n)[k] = [id |-> 0 + k, intact |-> TRUE]
  <2>1. 0 \in Nat /\ 0 <= n
    OBVIOUS
  <2> QED BY <2>1, RelayedIs
<1>5. \A k \in 1 .. n : k \in 1 .. n - 0 /\ 0 + k = k
  OBVIOUS
<1>6. \A k \in 1 .. Len(s) : s[k] = Relayed(0, n)[k]
  BY <1>1, <1>3, <1>4, <1>5
<1>7. Len(s) = Len(Relayed(0, n))
  BY <1>3, <1>4
<1> QED BY <1>4, <1>6, <1>7, SeqEqual

\* The events after the last one that a consumer got.
LEMMA ProvedRange ==
    ASSUME NEW s \in Seq(Events), Ordered(s), NEW n \in Nat, n <= MaxRevision,
           Between(s, 0, n) = Relayed(0, n), NEW m \in Nat
    PROVE  Between(s, m, n) = IF m <= n THEN Relayed(m, n) ELSE <<>>
<1>1. /\ n <= Len(s)
      /\ \A k \in 1 .. n : s[k] = [id |-> k, intact |-> TRUE] /\ s[k].id = k
      /\ \A k \in n + 1 .. Len(s) : n < s[k].id
  BY ProvedPrefix
<1>2. Len(s) \in Nat
  BY EventsAre
<1>3. CASE m <= n
  <2>1. Encloses(s, m, n, m, n)
    <3>1. ASSUME NEW k \in 1 .. m PROVE s[k].id <= m
      <4>1. k \in 1 .. n /\ k <= m
        BY <1>3
      <4> QED BY <1>1, <4>1
    <3>2. ASSUME NEW k \in m + 1 .. n PROVE m < s[k].id /\ s[k].id <= n
      <4>1. k \in 1 .. n /\ m < k /\ k <= n
        OBVIOUS
      <4> QED BY <1>1, <4>1
    <3> QED BY <1>1, <1>3, <3>1, <3>2 DEF Encloses
  <2>2. Between(s, m, n) = SubSeq(s, m + 1, n)
    BY <2>1, BetweenIs
  <2>3. \A k \in m + 1 .. n : s[k] \in Events
    BY <1>1, <1>2
  <2>4. /\ SubSeq(s, m + 1, n) \in Seq(Events)
        /\ Len(SubSeq(s, m + 1, n)) = IF m + 1 <= n THEN n - (m + 1) + 1 ELSE 0
        /\ \A k \in 1 .. n - (m + 1) + 1 : SubSeq(s, m + 1, n)[k] = s[(m + 1) + k - 1]
    BY <2>3, SubSeqProperties
  <2>5. /\ (IF m + 1 <= n THEN n - (m + 1) + 1 ELSE 0) = n - m
        /\ \A k \in 1 .. n - m : k \in 1 .. n - (m + 1) + 1 /\ (m + 1) + k - 1 = m + k
                                 /\ m + k \in 1 .. n
    BY <1>3
  <2>6. /\ Relayed(m, n) \in Seq(Events) /\ Len(Relayed(m, n)) = n - m
        /\ \A k \in 1 .. n - m : Relayed(m, n)[k] = [id |-> m + k, intact |-> TRUE]
    BY <1>3, RelayedIs
  <2> DEFINE u == SubSeq(s, m + 1, n)
  <2>7. u \in Seq(Events) /\ Len(u) = n - m /\ \A k \in 1 .. n - m : u[k] = s[m + k]
    BY <2>4, <2>5
  <2> HIDE DEF u
  <2>8. ASSUME NEW k \in 1 .. Len(u) PROVE u[k] = Relayed(m, n)[k]
    <3>1. k \in 1 .. n - m /\ m + k \in 1 .. n
      BY <2>5, <2>7
    <3>2. u[k] = [id |-> m + k, intact |-> TRUE]
      BY <1>1, <2>7, <3>1
    <3> QED BY <2>6, <3>1, <3>2
  <2>9. u = Relayed(m, n)
    BY <2>6, <2>7, <2>8, SeqEqual
  <2> QED BY <1>3, <2>2, <2>9 DEF u
<1>4. CASE ~(m <= n)
  <2>1. Encloses(s, m, n, n, n)
    <3>1. \A k \in 1 .. n : k <= m
      BY <1>4
    <3>2. n + 1 .. n = {} /\ n <= n
      OBVIOUS
    <3> QED BY <1>1, <3>1, <3>2 DEF Encloses
  <2>2. Between(s, m, n) = SubSeq(s, n + 1, n)
    BY <2>1, BetweenIs
  <2>3. n < n + 1 /\ n + 1 \in Int /\ n \in Int
    OBVIOUS
  <2>4. SubSeq(s, n + 1, n) = <<>>
    BY <2>3, SubSeqEmpty
  <2> QED BY <1>4, <2>2, <2>4
<1> QED BY <1>3, <1>4

LEMMA RelayedOrdered ==
    ASSUME NEW n \in Nat, n <= MaxRevision
    PROVE  Relayed(0, n) \in Seq(Events) /\ Len(Relayed(0, n)) = n /\ Ordered(Relayed(0, n))
<1>1. 0 \in Nat /\ 0 <= n
  OBVIOUS
<1>2. /\ Relayed(0, n) \in Seq(Events) /\ Len(Relayed(0, n)) = n - 0
      /\ \A k \in 1 .. n - 0 : Relayed(0, n)[k] = [id |-> 0 + k, intact |-> TRUE]
  BY <1>1, RelayedIs
<1>3. Len(Relayed(0, n)) = n
  BY <1>2
<1>4. ASSUME NEW k \in 1 .. n PROVE Relayed(0, n)[k].id = k
  <2>1. k \in 1 .. n - 0 /\ 0 + k = k
    OBVIOUS
  <2>2. Relayed(0, n)[k] = [id |-> k, intact |-> TRUE]
    BY <1>2, <2>1
  <2> QED BY <2>2
<1> QED BY <1>2, <1>3, <1>4 DEF Ordered

\* A damaged stream is still in order.
LEMMA CutOrdered ==
    ASSUME NEW s \in Seq(Events), Ordered(s), NEW n \in Nat, n <= Len(s)
    PROVE  SubSeq(s, 1, n) \in Seq(Events) /\ Ordered(SubSeq(s, 1, n))
<1> DEFINE u == SubSeq(s, 1, n)
<1>0. Len(s) \in Nat /\ \A k \in 1 .. Len(s) : s[k] \in Events
  BY EventsAre
<1>1. \A k \in 1 .. n : s[k] \in Events
  BY <1>0
<1>2. /\ u \in Seq(Events)
      /\ Len(u) = IF 1 <= n THEN n - 1 + 1 ELSE 0
      /\ \A k \in 1 .. n - 1 + 1 : u[k] = s[1 + k - 1]
  BY <1>1, SubSeqProperties
<1>3. /\ (IF 1 <= n THEN n - 1 + 1 ELSE 0) = n
      /\ \A k \in 1 .. n : k \in 1 .. n - 1 + 1 /\ 1 + k - 1 = k /\ k \in 1 .. Len(s)
  BY <1>0
<1>4. Len(u) = n /\ \A k \in 1 .. n : u[k] = s[k]
  BY <1>2, <1>3
<1>5. Ordered(u)
  <2> HIDE DEF u
  <2> QED BY <1>3, <1>4 DEF Ordered
<1> QED BY <1>2, <1>5

LEMMA DeletedOrdered ==
    ASSUME NEW s \in Seq(Events), Ordered(s), NEW n \in 1 .. Len(s)
    PROVE  RemoveAt(s, n) \in Seq(Events) /\ Ordered(RemoveAt(s, n))
<1>0. Len(s) \in Nat /\ \A k \in 1 .. Len(s) : s[k] \in Events /\ s[k].id \in Nat
  BY EventsAre, StreamAssumption
<1> DEFINE len == Len(s)
           u == SubSeq(s, 1, n - 1)
           v == SubSeq(s, n + 1, len)
<1>1. u \in Seq(Events) /\ Len(u) = n - 1 /\ \A k \in 1 .. n - 1 : u[k] = s[k]
  <2>1. \A k \in 1 .. n - 1 : s[k] \in Events
    BY <1>0
  <2>2. 1 \in Int /\ n - 1 \in Int
    BY <1>0
  <2>3. /\ u \in Seq(Events)
        /\ Len(u) = IF 1 <= n - 1 THEN (n - 1) - 1 + 1 ELSE 0
        /\ \A k \in 1 .. (n - 1) - 1 + 1 : u[k] = s[1 + k - 1]
    BY <2>1, <2>2, SubSeqProperties
  <2>4. /\ (IF 1 <= n - 1 THEN (n - 1) - 1 + 1 ELSE 0) = n - 1
        /\ \A k \in 1 .. n - 1 : k \in 1 .. (n - 1) - 1 + 1 /\ 1 + k - 1 = k
    BY <1>0
  <2> HIDE DEF u
  <2> QED BY <2>3, <2>4
<1>2. v \in Seq(Events) /\ Len(v) = len - n /\ \A k \in 1 .. len - n : v[k] = s[n + k]
  <2>1. \A k \in n + 1 .. len : s[k] \in Events
    BY <1>0
  <2>2. n + 1 \in Int /\ len \in Int
    BY <1>0
  <2>3. /\ v \in Seq(Events)
        /\ Len(v) = IF n + 1 <= len THEN len - (n + 1) + 1 ELSE 0
        /\ \A k \in 1 .. len - (n + 1) + 1 : v[k] = s[(n + 1) + k - 1]
    BY <2>1, <2>2, SubSeqProperties
  <2>4. /\ (IF n + 1 <= len THEN len - (n + 1) + 1 ELSE 0) = len - n
        /\ \A k \in 1 .. len - n : k \in 1 .. len - (n + 1) + 1 /\ (n + 1) + k - 1 = n + k
    BY <1>0
  <2> HIDE DEF v
  <2> QED BY <2>3, <2>4
<1>3. RemoveAt(s, n) = u \o v
  BY DEF RemoveAt
<1> HIDE DEF u, v
<1>4. /\ u \o v \in Seq(Events)
      /\ Len(u \o v) = Len(u) + Len(v)
      /\ \A k \in 1 .. Len(u) + Len(v) : (u \o v)[k] = IF k <= Len(u) THEN u[k] ELSE v[k - Len(u)]
  BY <1>1, <1>2, ConcatProperties
<1>5. Len(u) + Len(v) = len - 1
  BY <1>0, <1>1, <1>2
<1>6. \A k \in 1 .. len - 1 : (u \o v)[k] = IF k <= n - 1 THEN s[k] ELSE s[k + 1]
  <2> TAKE k \in 1 .. len - 1
  <2>1. CASE k <= n - 1
    <3>1. k \in 1 .. n - 1 /\ k \in 1 .. Len(u) + Len(v) /\ k <= Len(u)
      BY <1>0, <1>1, <1>5, <2>1
    <3>2. (u \o v)[k] = u[k] /\ u[k] = s[k]
      BY <1>1, <1>4, <3>1
    <3> QED BY <2>1, <3>2
  <2>2. CASE ~(k <= n - 1)
    <3>1. k - (n - 1) \in 1 .. len - n /\ n + (k - (n - 1)) = k + 1
      BY <1>0, <2>2
    <3>2. k \in 1 .. Len(u) + Len(v) /\ ~(k <= Len(u)) /\ k - Len(u) = k - (n - 1)
      BY <1>0, <1>1, <1>5, <2>2
    <3>3. (u \o v)[k] = v[k - (n - 1)]
      BY <1>4, <3>2
    <3>4. v[k - (n - 1)] = s[k + 1]
      BY <1>2, <3>1
    <3> QED BY <2>2, <3>3, <3>4
  <2> QED BY <2>1, <2>2
<1>7. Ordered(u \o v)
  <2> SUFFICES ASSUME NEW j \in 1 .. len - 1, NEW k \in 1 .. len - 1, j < k
               PROVE  (u \o v)[j].id < (u \o v)[k].id
    BY <1>4, <1>5 DEF Ordered
  <2> DEFINE p(x) == IF x <= n - 1 THEN x ELSE x + 1
  <2>1. p(j) \in 1 .. len /\ p(k) \in 1 .. len /\ p(j) < p(k)
    BY <1>0
  <2>2. (u \o v)[j] = s[p(j)] /\ (u \o v)[k] = s[p(k)]
    BY <1>6
  <2> HIDE DEF p
  <2> QED BY <2>1, <2>2 DEF Ordered
<1> QED BY <1>3, <1>4, <1>7

LEMMA FalsifiedOrdered ==
    ASSUME NEW s \in Seq(Events), Ordered(s), NEW n \in 1 .. Len(s)
    PROVE  LET u == [s EXCEPT ![n].intact = FALSE] IN u \in Seq(Events) /\ Ordered(u)
<1> DEFINE e == [s[n] EXCEPT !.intact = FALSE]
           u == [s EXCEPT ![n].intact = FALSE]
<1>1. Len(s) \in Nat /\ \A k \in 1 .. Len(s) : s[k] \in Events /\ s[k].id \in Nat
  BY EventsAre, StreamAssumption
<1>2. e \in Events /\ e.id = s[n].id
  BY <1>1 DEF Events
<1>3. u = [s EXCEPT ![n] = e]
  OBVIOUS
<1> HIDE DEF e, u
<1>4. /\ u \in Seq(Events) /\ Len(u) = Len(s)
      /\ \A k \in 1 .. Len(s) : u[k] = IF k = n THEN e ELSE s[k]
  BY <1>2, <1>3, ExceptSeq
<1>5. \A k \in 1 .. Len(s) : u[k].id = s[k].id
  BY <1>2, <1>4
<1>6. Ordered(u)
  BY <1>4, <1>5 DEF Ordered
<1> QED BY <1>4, <1>6 DEF u

-----------------------------------------------------------------------------
(* What a step does to the others.                                          *)

LEMMA UncleanFits ==
    ASSUME NEW r \in Relays, NEW i, NEW committed, Stands(r, i, committed)
    PROVE  LET s == [r EXCEPT !.clean = FALSE]
           IN  s \in Relays /\ Stands(s, i, committed) /\ ~s.clean
BY DEF Relays, Stands

LEMMA EnterKeeps ==
    ASSUME IInv, NEW i \in Processes, NEW r, Fits(r, i), Enter(i, r),
           UNCHANGED <<revision, redis, got>>, faults' \in 0 .. MaxFaults
    PROVE  IInv'
<1>1. relay \in [Processes -> Relays] /\ r \in Relays
  BY DEF IInv, Fits
<1>2. /\ relay' \in [Processes -> Relays]
      /\ \A j \in Processes : relay'[j] = IF j = i THEN r ELSE relay[j]
  BY <1>1 DEF Enter
<1>3. ASSUME NEW j \in Processes
      PROVE  Stands(relay'[j], j, revision) /\ Watches(relay'[j], redis, got[j])
  BY <1>2 DEF IInv, Fits
<1> QED BY <1>2, <1>3 DEF IInv

LEMMA WroteKeeps ==
    ASSUME IInv, NEW i \in Processes, NEW r \in Relays, Stands(r, i, revision), ~r.clean,
           Wrote(i, r), UNCHANGED <<revision, got, faults>>,
           redis' \in [stream : Seq(Events), watermark : 0 .. MaxRevision], Ordered(redis'.stream)
    PROVE  IInv'
<1>1. relay \in [Processes -> Relays]
  BY DEF IInv
<1>2. relay' = [j \in Processes |-> IF j = i THEN r ELSE [relay[j] EXCEPT !.clean = FALSE]]
  BY DEF Wrote
<1>3. ASSUME NEW j \in Processes
      PROVE  relay'[j] \in Relays /\ Stands(relay'[j], j, revision) /\ ~relay'[j].clean
  <2>1. relay[j] \in Relays /\ Stands(relay[j], j, revision)
    BY <1>1 DEF IInv
  <2>2. relay'[j] = IF j = i THEN r ELSE [relay[j] EXCEPT !.clean = FALSE]
    BY <1>2
  <2> QED BY <2>1, <2>2, UncleanFits
<1>4. relay' \in [Processes -> Relays]
  BY <1>2, <1>3
<1> QED BY <1>3, <1>4 DEF IInv, Watches

LEMMA FaultKeeps ==
    ASSUME IInv, Fault,
           redis' \in [stream : Seq(Events), watermark : 0 .. MaxRevision], Ordered(redis'.stream),
           \/ relay' = [j \in Processes |-> Idle]
           \/ relay' = [j \in Processes |-> [relay[j] EXCEPT !.clean = FALSE]]
    PROVE  IInv'
<1>1. relay \in [Processes -> Relays] /\ revision \in 0 .. MaxRevision
  BY DEF IInv
<1>2. ASSUME NEW j \in Processes
      PROVE  relay'[j] \in Relays /\ Stands(relay'[j], j, revision) /\ ~relay'[j].clean
  <2>1. relay[j] \in Relays /\ Stands(relay[j], j, revision)
    BY <1>1 DEF IInv
  <2>2. relay'[j] = Idle \/ relay'[j] = [relay[j] EXCEPT !.clean = FALSE]
    OBVIOUS
  <2>3. CASE relay'[j] = Idle
    BY <1>1, <2>3, IdleFits
  <2>4. CASE relay'[j] = [relay[j] EXCEPT !.clean = FALSE]
    BY <2>1, <2>4, UncleanFits
  <2> QED BY <2>2, <2>3, <2>4
<1>3. relay' \in [Processes -> Relays]
  <2>1. relay' = [j \in Processes |-> relay'[j]]
    OBVIOUS
  <2> QED BY <1>2, <2>1
<1>4. faults' \in 0 .. MaxFaults
  BY StreamAssumption DEF IInv, Fault
<1> QED BY <1>2, <1>3, <1>4 DEF IInv, Fault, Watches

-----------------------------------------------------------------------------
(* The steps of a call.                                                     *)

LEMMA RelayFits ==
    ASSUME IInv, NEW i \in Processes
    PROVE  /\ Fits(relay[i], i) /\ relay[i] \in Relays /\ Stands(relay[i], i, revision)
           /\ revision \in 0 .. MaxRevision
BY DEF IInv, Fits

LEMMA BeginKeeps ==
    ASSUME IInv, NEW i \in Processes, NEW op \in Ops, Begin(i, op)
    PROVE  IInv'
<1>1. revision \in 0 .. MaxRevision /\ 0 \in 0 .. MaxRevision
  BY StreamAssumption DEF IInv
<1> DEFINE r == [Idle EXCEPT !.op = op, !.at = "fence", !.capture = revision,
                             !.known = IF op = "read" THEN revision ELSE 0]
<1>2. Idle \in Relays /\ Stands(Idle, i, revision) /\ ~Idle.clean
  BY <1>1, IdleFits
<1>3. r \in Relays
  BY <1>1, <1>2 DEF Relays, Steps
<1>4. /\ r.op = op /\ r.at = "fence" /\ r.capture = revision /\ ~r.nested /\ ~r.clean
      /\ r.known = IF op = "read" THEN revision ELSE 0
      /\ r.staged = <<>> /\ r.pages = 0
  BY DEF Idle
<1>5. Idle.staged = <<>> /\ Idle.pages = 0
  BY DEF Idle
<1>6. op = "read" => i \in Consumers
  BY DEF Begin
<1>7. Enter(i, r) /\ UNCHANGED <<revision, redis, got, faults>>
  BY DEF Begin
<1> HIDE DEF r
<1>8. Stands(r, i, revision)
  BY <1>1, <1>2, <1>4, <1>5, <1>6 DEF Stands
<1>9. Fits(r, i)
  BY <1>3, <1>4, <1>8 DEF Fits, Watches
<1> QED BY <1>7, <1>9, EnterKeeps DEF IInv

LEMMA FenceKeeps ==
    ASSUME IInv, NEW i \in Processes, Fence(i)
    PROVE  IInv'
<1> DEFINE f == [watermark |-> redis.watermark, tail |-> TailOf(redis.stream)]
           r == [relay[i] EXCEPT !.at = "prove", !.clean = TRUE, !.fence = f,
                                 !.capture = IF relay[i].op = "rebuild" THEN revision ELSE @]
<1>1. /\ relay[i] \in Relays /\ Stands(relay[i], i, revision)
      /\ revision \in 0 .. MaxRevision
  BY RelayFits
<1>2. f \in [watermark : 0 .. MaxRevision, tail : 0 .. MaxRevision]
  BY TailTyped DEF IInv
<1>3. Enter(i, r) /\ relay[i].at = "fence" /\ UNCHANGED <<revision, redis, got, faults>>
  BY DEF Fence
<1> HIDE DEF f
<1>4. r \in Relays
  BY <1>1, <1>2 DEF Relays, Steps
<1>5. Stands(r, i, revision)
  BY <1>1, <1>3 DEF Stands, Relays
<1>6. r.at = "prove" /\ r.fence = f
  BY <1>1 DEF Relays
<1> HIDE DEF r
<1>7. Watches(r, redis, got[i])
  BY <1>6 DEF Watches, f
<1> QED BY <1>3, <1>4, <1>5, <1>7, EnterKeeps DEF IInv, Fits

\* What the proof says of a stream that nobody wrote since the fence.
LEMMA RelationIs ==
    ASSUME IInv, NEW i \in Processes, relay[i].at = "prove",
           NEW relation, relation = Relation(relay[i].capture, relay[i].fence, redis.stream)
    PROVE  /\ relation \in {"inconsistent", "ahead", "lag", "equal"}
           /\ relation = "lag" => relay[i].fence.watermark < relay[i].capture
           /\ relation = "lag" /\ relay[i].clean =>
                  redis.stream = Relayed(0, relay[i].fence.watermark)
           /\ relation \in {"ahead", "equal"} =>
                  Between(redis.stream, 0, relay[i].capture) = Relayed(0, relay[i].capture)
<1> DEFINE c == relay[i].capture
           w == relay[i].fence.watermark
           s == redis.stream
<1>1. c \in 0 .. MaxRevision /\ w \in 0 .. MaxRevision /\ s \in Seq(Events) /\ Ordered(s)
  BY RelayFits DEF Relays, IInv
<1>2. relation \in {"inconsistent", "ahead", "lag", "equal"}
  BY DEF Relation
<1>3. relation = "lag" => w < c /\ w = relay[i].fence.tail /\ Between(s, 0, w) = Relayed(0, w)
  BY DEF Relation
<1>4. relation \in {"ahead", "equal"} => Between(s, 0, c) = Relayed(0, c)
  BY <1>1 DEF Relation
<1>5. ASSUME relation = "lag", relay[i].clean PROVE s = Relayed(0, w)
  <2>1. Watches(relay[i], redis, got[i])
    BY DEF IInv
  <2>2. relay[i].fence = [watermark |-> redis.watermark, tail |-> TailOf(s)]
    BY <1>5, <2>1 DEF Watches
  <2>3. TailOf(s) = w
    BY <1>3, <1>5, <2>2
  <2>4. w \in Nat /\ w <= MaxRevision
    BY <1>1, StreamAssumption
  <2> HIDE DEF s, w
  <2> QED BY <1>1, <1>3, <1>5, <2>3, <2>4, ProvedWhole
<1> QED BY <1>2, <1>3, <1>4, <1>5

LEMMA GoOnKeeps ==
    ASSUME IInv, NEW i \in Processes, relay[i].at = "prove",
           NEW step \in {"append", "stage", "swap", "range"}, GoOn(i, step),
           UNCHANGED <<revision, redis, got, faults>>,
           step = "range" <=> relay[i].op = "read",
           step = "append" => relay[i].fence.watermark <= relay[i].capture,
           step = "append" /\ relay[i].clean => redis.stream = Relayed(0, relay[i].fence.watermark),
           step = "range" => Between(redis.stream, 0, relay[i].capture) = Relayed(0, relay[i].capture)
    PROVE  IInv'
<1> DEFINE r == [relay[i] EXCEPT !.at = step, !.fence = IF step = "append" THEN @ ELSE Idle.fence]
<1>1. /\ relay[i] \in Relays /\ Stands(relay[i], i, revision)
      /\ revision \in 0 .. MaxRevision
  BY RelayFits
<1>2. Idle.fence \in [watermark : 0 .. MaxRevision, tail : 0 .. MaxRevision]
  BY StreamAssumption DEF Idle
<1>3. r \in Relays
  BY <1>1, <1>2 DEF Relays, Steps
<1>4. /\ r.at = step /\ r.op = relay[i].op /\ r.capture = relay[i].capture
      /\ r.known = relay[i].known /\ r.nested = relay[i].nested /\ r.clean = relay[i].clean
      /\ r.staged = relay[i].staged /\ r.pages = relay[i].pages
      /\ step = "append" => r.fence = relay[i].fence
  BY <1>1 DEF Relays
<1>5. Enter(i, r)
  BY DEF GoOn
<1>6. relay[i].pages = 0 /\ relay[i].capture \in 0 .. MaxRevision
  BY <1>1 DEF Stands, Relays
<1> HIDE DEF r
<1>7. Stands(r, i, revision)
  BY <1>1, <1>4, <1>6 DEF Stands
<1>8. Watches(r, redis, got[i])
  BY <1>1, <1>4 DEF Watches, Stands
<1> QED BY <1>3, <1>5, <1>7, <1>8, EnterKeeps DEF IInv, Fits

\* A process that watches nothing has nothing to be wrong about.
LEMMA QuietKeeps ==
    ASSUME IInv, NEW i \in Processes, NEW r \in Relays, Stands(r, i, revision),
           r.at = "fence" \/ ~r.clean, Enter(i, r),
           UNCHANGED <<revision, redis, got>>, faults' \in 0 .. MaxFaults
    PROVE  IInv'
<1>1. Fits(r, i)
  BY DEF Fits, Watches
<1> QED BY <1>1, EnterKeeps

LEMMA ReturnKeeps ==
    ASSUME IInv, NEW i \in Processes,
           NEW r \in {Failed(relay[i]), Contended(relay[i]), Finished(relay[i])}, Enter(i, r),
           UNCHANGED <<revision, redis, got>>, faults' \in 0 .. MaxFaults
    PROVE  IInv'
<1>1. r \in Relays /\ Stands(r, i, revision) /\ ~r.clean
  BY RelayFits, ReturnFits
<1> QED BY <1>1, QuietKeeps

LEMMA RefreshKeeps ==
    ASSUME IInv, NEW i \in Processes, relay[i].op # "read",
           \/ Enter(i, [Refreshed(relay[i]) EXCEPT !.staged = <<>>, !.pages = 0])
           \/ Enter(i, Refreshed(relay[i])) /\ relay[i].at \notin {"stage", "swap"},
           UNCHANGED <<revision, redis, got>>, faults' \in 0 .. MaxFaults
    PROVE  IInv'
<1> DEFINE s == [Refreshed(relay[i]) EXCEPT !.staged = <<>>, !.pages = 0]
<1>1. /\ relay[i] \in Relays /\ Stands(relay[i], i, revision)
      /\ revision \in 0 .. MaxRevision
  BY RelayFits
<1>2. /\ s \in Relays /\ Stands(s, i, revision) /\ (s.at = "fence" \/ ~s.clean)
      /\ relay[i].staged = <<>> /\ relay[i].pages = 0 => Refreshed(relay[i]) = s
  BY <1>1, RefreshedFits
<1>3. relay[i].at \notin {"stage", "swap"} => Refreshed(relay[i]) = s
  BY <1>1, <1>2 DEF Stands
<1>4. Enter(i, s)
  BY <1>3
<1> HIDE DEF s
<1> QED BY <1>2, <1>4, QuietKeeps

LEMMA ProveKeeps ==
    ASSUME IInv, NEW i \in Processes, Prove(i)
    PROVE  IInv'
<1>1. PICK relation : relation = Relation(relay[i].capture, relay[i].fence, redis.stream)
  OBVIOUS
<1>2. /\ relay[i].at = "prove" /\ UNCHANGED <<revision, redis, got, faults>>
      /\ ProveSync(i, relation) \/ ProveRebuild(i, relation) \/ ProveRead(i, relation)
  BY <1>1 DEF Prove
<1>3. /\ relation \in {"inconsistent", "ahead", "lag", "equal"}
      /\ relation = "lag" => relay[i].fence.watermark < relay[i].capture
      /\ relation = "lag" /\ relay[i].clean =>
             redis.stream = Relayed(0, relay[i].fence.watermark)
      /\ relation \in {"ahead", "equal"} =>
             Between(redis.stream, 0, relay[i].capture) = Relayed(0, relay[i].capture)
  BY <1>1, <1>2, RelationIs
<1>4. /\ relay[i] \in Relays /\ Stands(relay[i], i, revision)
      /\ revision \in 0 .. MaxRevision /\ faults' \in 0 .. MaxFaults
      /\ relay[i].fence.watermark \in 0 .. MaxRevision /\ relay[i].capture \in 0 .. MaxRevision
  BY <1>2, RelayFits DEF IInv, Relays
<1>5. CASE ProveSync(i, relation)
  <2>1. CASE relation = "inconsistent"
    BY <1>2, <1>4, <1>5, <2>1, ReturnKeeps DEF ProveSync
  <2>2. CASE relation = "ahead"
    <3>1. Enter(i, Failed(relay[i])) \/ Enter(i, Refreshed(relay[i]))
      BY <1>5, <2>2 DEF ProveSync
    <3>2. relay[i].op # "read"
      BY <1>5 DEF ProveSync
    <3> QED BY <1>2, <1>4, <3>1, <3>2, ReturnKeeps, RefreshKeeps
  <2>3. CASE relation = "equal"
    <3>1. Enter(i, Finished(relay[i])) \/ Enter(i, Refreshed(relay[i]))
      BY <1>5, <2>3 DEF ProveSync
    <3>2. relay[i].op # "read"
      BY <1>5 DEF ProveSync
    <3> QED BY <1>2, <1>4, <3>1, <3>2, ReturnKeeps, RefreshKeeps
  <2>4. CASE relation = "lag"
    <3>1. PICK step \in {"append", "stage"} : GoOn(i, step)
      BY <1>5, <2>4 DEF ProveSync
    <3>2. relay[i].op # "read"
      BY <1>5 DEF ProveSync
    <3>3. relay[i].fence.watermark <= relay[i].capture
      BY <1>3, <1>4, <2>4, StreamAssumption
    <3> QED BY <1>2, <1>3, <2>4, <3>1, <3>2, <3>3, GoOnKeeps
  <2> QED BY <1>3, <2>1, <2>2, <2>3, <2>4
<1>6. CASE ProveRebuild(i, relation)
  <2>1. relay[i].op # "read"
    BY <1>6 DEF ProveRebuild
  <2>2. CASE Enter(i, Failed(relay[i]))
    BY <1>2, <1>4, <2>2, ReturnKeeps
  <2>3. CASE \E step \in {"stage", "swap"} : GoOn(i, step)
    BY <1>2, <2>1, <2>3, GoOnKeeps
  <2> QED BY <1>6, <2>2, <2>3 DEF ProveRebuild
<1>7. CASE ProveRead(i, relation)
  <2>1. relay[i].op = "read"
    BY <1>7 DEF ProveRead
  <2>2. CASE relation = "inconsistent"
    BY <1>2, <1>4, <1>7, <2>2, ReturnKeeps DEF ProveRead
  <2>3. CASE relation \in {"ahead", "equal"}
    <3>1. GoOn(i, "range")
      BY <1>7, <2>3 DEF ProveRead
    <3> QED BY <1>2, <1>3, <2>1, <2>3, <3>1, GoOnKeeps
  <2>4. CASE relation = "lag"
    <3> DEFINE r == relay[i]
               s == [Idle EXCEPT !.op = "sync", !.at = "fence", !.nested = TRUE,
                                 !.known = r.known, !.capture = revision, !.reads = r.reads]
    <3>1. Enter(i, s)
      BY <1>7, <2>4 DEF ProveRead
    <3>2. Idle \in Relays /\ Stands(Idle, i, revision)
      BY <1>4, IdleFits
    <3>3. r.known \in 0 .. MaxRevision /\ r.reads \in 1 .. Attempts
      BY <1>4 DEF Relays
    <3>4. s \in Relays
      BY <1>4, <3>2, <3>3 DEF Relays, Ops, Steps
    <3>5. /\ s.op = "sync" /\ s.at = "fence" /\ s.known = r.known /\ s.capture = revision
          /\ s.staged = Idle.staged /\ s.pages = Idle.pages /\ Idle.at = "idle"
      BY DEF Idle
    <3>6. i \in Consumers /\ r.known <= revision
      BY <1>4, <2>1 DEF Stands
    <3> HIDE DEF s
    <3>7. Stands(s, i, revision)
      BY <1>4, <3>2, <3>5, <3>6 DEF Stands
    <3> QED BY <1>2, <1>4, <3>1, <3>4, <3>5, <3>7, QuietKeeps
  <2> QED BY <1>3, <2>2, <2>3, <2>4
<1> QED BY <1>2, <1>5, <1>6, <1>7

-----------------------------------------------------------------------------
(* The writes.                                                              *)

\* An append to a stream that is whole makes it whole again.
LEMMA XAddIs ==
    ASSUME NEW m \in Nat, NEW n \in Nat, m <= n, n <= MaxRevision
    PROVE  XAdd(Relayed(0, m), Relayed(m, n)) = Relayed(0, n)
<1> DEFINE t == Relayed(m, n)
<1>1. 0 \in Nat /\ 0 <= m /\ m <= MaxRevision /\ MaxRevision \in Nat
  BY StreamAssumption
<1>2. TailOf(Relayed(0, m)) = m
  BY <1>1, TailOfRelayed
<1>3. /\ t \in Seq(Events) /\ Len(t) = n - m
      /\ \A k \in 1 .. n - m : t[k] = [id |-> m + k, intact |-> TRUE]
  BY RelayedIs
<1> HIDE DEF t
<1>4. ASSUME NEW k \in 1 .. n - m PROVE m < t[k].id /\ t[k].id <= MaxRevision
  <2>1. t[k].id = m + k
    BY <1>3
  <2> QED BY <1>1, <2>1
<1>5. n - m \in Nat /\ 0 \in Nat /\ n - m + 1 .. Len(t) = {} /\ 0 + 1 = 1
  BY <1>3
<1>6. Encloses(t, m, MaxRevision, 0, n - m)
  BY <1>3, <1>4, <1>5 DEF Encloses
<1>7. Between(t, m, MaxRevision) = SubSeq(t, 0 + 1, n - m)
  BY <1>1, <1>3, <1>5, <1>6, BetweenIs
<1>8. SubSeq(t, 1, Len(t)) = t
  BY <1>3, SubSeqFull
<1>9. XAdd(Relayed(0, m), t) = Relayed(0, m) \o t
  BY <1>2, <1>3, <1>5, <1>7, <1>8 DEF XAdd
<1> QED BY <1>1, <1>9, RelayedJoins DEF t

\* What a process leaves when it writes the live keys.
WholeUpTo(live, n) == live = [stream |-> Relayed(0, n), watermark |-> n]

LEMMA AppendWrites ==
    ASSUME IInv, NEW i \in Processes, Append1(i), relay[i].clean
    PROVE  WholeUpTo(redis', relay[i].capture) /\ Wrote(i, Finished(relay[i]))
<1> DEFINE r == relay[i]
<1>1. r \in Relays /\ Stands(r, i, revision) /\ Watches(r, redis, got[i]) /\ r.at = "append"
  BY RelayFits DEF Fits, Append1
<1>2. /\ redis' = [stream |-> XAdd(redis.stream, Relayed(r.fence.watermark, r.capture)),
                   watermark |-> r.capture]
      /\ Wrote(i, Finished(r))
  BY DEF Append1, Clean
<1>3. redis.stream = Relayed(0, r.fence.watermark) /\ r.fence.watermark <= r.capture
  BY <1>1 DEF Watches, Stands
<1>4. r.fence.watermark \in 0 .. MaxRevision /\ r.capture \in 0 .. MaxRevision
  BY <1>1 DEF Relays
<1>5. XAdd(Relayed(0, r.fence.watermark), Relayed(r.fence.watermark, r.capture)) = Relayed(0, r.capture)
  BY <1>3, <1>4, XAddIs, StreamAssumption
<1> QED BY <1>2, <1>3, <1>5 DEF WholeUpTo

LEMMA SwapWrites ==
    ASSUME IInv, NEW i \in Processes, Swap(i), relay[i].clean, StageIsWhole(relay[i])
    PROVE  WholeUpTo(redis', relay[i].capture) /\ Wrote(i, Finished(relay[i]))
<1> DEFINE r == relay[i]
<1>1. r \in Relays /\ Stands(r, i, revision) /\ r.at = "swap"
  BY RelayFits DEF Swap
<1>2. redis' = [stream |-> r.staged, watermark |-> r.capture] /\ Wrote(i, Finished(r))
  BY DEF Swap, Clean
<1>3. /\ Len(r.staged) = r.capture /\ Len(r.staged) <= r.pages /\ r.pages <= r.capture
      /\ r.staged = Relayed(r.pages - Len(r.staged), r.pages)
  BY <1>1 DEF Stands, StageIsWhole
<1>4. r.capture \in 0 .. MaxRevision /\ r.pages \in 0 .. MaxRevision
  BY <1>1 DEF Relays
<1>5. r.pages = r.capture /\ r.pages - Len(r.staged) = 0
  BY <1>3, <1>4
<1> QED BY <1>2, <1>3, <1>5 DEF WholeUpTo

LEMMA WriteKeeps ==
    ASSUME IInv, NEW i \in Processes, WholeUpTo(redis', relay[i].capture),
           NEW r \in {Failed(relay[i]), Contended(relay[i]), Finished(relay[i])}, Wrote(i, r),
           UNCHANGED <<revision, got, faults>>
    PROVE  IInv'
<1>1. r \in Relays /\ Stands(r, i, revision) /\ ~r.clean
  BY RelayFits, ReturnFits
<1>2. relay[i].capture \in 0 .. MaxRevision
  BY RelayFits DEF Relays
<1>3. relay[i].capture \in Nat /\ relay[i].capture <= MaxRevision
  BY <1>2, StreamAssumption
<1>4. /\ Relayed(0, relay[i].capture) \in Seq(Events)
      /\ Ordered(Relayed(0, relay[i].capture))
  BY <1>3, RelayedOrdered
<1>5. /\ redis' \in [stream : Seq(Events), watermark : 0 .. MaxRevision]
      /\ Ordered(redis'.stream)
  BY <1>2, <1>4 DEF WholeUpTo
<1> QED BY <1>1, <1>5, WroteKeeps

LEMMA AppendKeeps ==
    ASSUME IInv, NEW i \in Processes, Append1(i)
    PROVE  IInv'
<1>1. faults' \in 0 .. MaxFaults /\ relay[i].at = "append" /\ UNCHANGED <<revision, got, faults>>
  BY DEF IInv, Append1
<1>2. relay[i].op # "read"
  BY <1>1, RelayFits DEF Stands
<1>3. CASE relay[i].clean
  BY <1>1, <1>3, AppendWrites, WriteKeeps
<1>4. CASE ~relay[i].clean
  <2>1. Enter(i, Refreshed(relay[i])) /\ UNCHANGED redis
    BY <1>4 DEF Append1, Clean
  <2> QED BY <1>1, <1>2, <2>1, RefreshKeeps
<1> QED BY <1>3, <1>4

LEMMA StageKeeps ==
    ASSUME IInv, NEW i \in Processes, Stage(i)
    PROVE  IInv'
<1> DEFINE r == relay[i]
           p == r.pages
           c == r.capture
           last == IF p + PageLimit < c THEN p + PageLimit ELSE c
           e == r.staged \o Relayed(p, last)
           s == [r EXCEPT !.staged = @ \o Relayed(p, last), !.pages = last,
                          !.at = IF last = c THEN "swap" ELSE "stage"]
<1>1. r \in Relays /\ Stands(r, i, revision) /\ r.at = "stage" /\ Enter(i, s)
  BY RelayFits DEF Stage
<1>2. /\ p \in 0 .. MaxRevision /\ c \in 0 .. MaxRevision /\ p <= c /\ r.op # "read"
      /\ r.staged \in Seq(Events) /\ Len(r.staged) <= p
      /\ r.staged = Relayed(p - Len(r.staged), p)
  BY <1>1 DEF Stands, Relays
<1>3. last \in 0 .. MaxRevision /\ p <= last /\ last <= c
  BY <1>2, StreamAssumption
<1> HIDE DEF last
<1>4. Len(r.staged) \in Nat
  BY <1>2
<1>5. p - Len(r.staged) \in Nat /\ p - Len(r.staged) <= p
  BY <1>2, <1>4
<1>6. e = Relayed(p - Len(r.staged), last)
  <2> DEFINE a == p - Len(r.staged)
  <2>1. a \in Nat /\ p \in Nat /\ last \in Nat /\ a <= p /\ p <= last /\ last <= MaxRevision
    BY <1>2, <1>3, <1>5, StreamAssumption
  <2>2. r.staged = Relayed(a, p)
    BY <1>2
  <2> HIDE DEF a
  <2>3. Relayed(a, p) \o Relayed(p, last) = Relayed(a, last)
    BY <2>1, RelayedJoins
  <2> QED BY <2>2, <2>3 DEF a
<1>7. e \in Seq(Events) /\ Len(e) = last - (p - Len(r.staged))
  <2> DEFINE a == p - Len(r.staged)
  <2>1. a \in Nat /\ last \in Nat /\ a <= last /\ last <= MaxRevision
    BY <1>2, <1>3, <1>5, StreamAssumption
  <2> HIDE DEF a, e
  <2>2. Relayed(a, last) \in Seq(Events) /\ Len(Relayed(a, last)) = last - a
    BY <2>1, RelayedIs
  <2> QED BY <1>6, <2>2 DEF a
<1>8. last - Len(e) = p - Len(r.staged) /\ Len(e) <= last
  BY <1>2, <1>3, <1>4, <1>5, <1>7
<1>9. /\ s.staged = e /\ s.pages = last /\ s.at \in {"swap", "stage"}
      /\ s.op = r.op /\ s.capture = c /\ s.known = r.known /\ s.nested = r.nested
  BY <1>1 DEF Relays
<1> HIDE DEF e
<1>10. s \in Relays
  BY <1>1, <1>3, <1>7 DEF Relays, Steps, e
<1> HIDE DEF s
<1>11. Stands(s, i, revision)
  BY <1>1, <1>2, <1>3, <1>6, <1>8, <1>9 DEF Stands
<1>12. Watches(s, redis, got[i])
  BY <1>9 DEF Watches
<1>13. UNCHANGED <<revision, redis, got, faults>>
  BY DEF Stage
<1> QED BY <1>1, <1>10, <1>11, <1>12, <1>13, EnterKeeps DEF Fits, IInv

LEMMA SwapKeeps ==
    ASSUME IInv, NEW i \in Processes, Swap(i)
    PROVE  IInv'
<1>1. faults' \in 0 .. MaxFaults /\ relay[i].at = "swap" /\ UNCHANGED <<revision, got, faults>>
  BY DEF IInv, Swap
<1>2. relay[i].op \in {"sync", "rebuild"}
  BY <1>1, RelayFits DEF Stands, Relays, Ops
<1>3. CASE relay[i].clean /\ StageIsWhole(relay[i])
  BY <1>1, <1>3, SwapWrites, WriteKeeps
<1>4. CASE relay[i].clean /\ ~StageIsWhole(relay[i])
  <2>1. Enter(i, Contended(relay[i])) /\ UNCHANGED redis
    BY <1>4 DEF Swap, Clean
  <2> QED BY <1>1, <2>1, ReturnKeeps
<1>5. CASE ~relay[i].clean /\ relay[i].op = "sync"
  <2>1. /\ Enter(i, [Refreshed(relay[i]) EXCEPT !.staged = <<>>, !.pages = 0])
        /\ UNCHANGED redis
    BY <1>5 DEF Swap, Clean
  <2> QED BY <1>1, <1>5, <2>1, RefreshKeeps
<1>6. CASE ~relay[i].clean /\ relay[i].op = "rebuild"
  <2> DEFINE s == [Idle EXCEPT !.op = "rebuild", !.at = "fence", !.tries = relay[i].tries + 1]
  <2>1. UNCHANGED redis /\ Enter(i, IF relay[i].tries = Attempts THEN Failed(relay[i]) ELSE s)
    BY <1>6 DEF Swap, Clean
  <2>2. CASE relay[i].tries = Attempts
    BY <1>1, <2>1, <2>2, ReturnKeeps
  <2>3. CASE relay[i].tries # Attempts
    <3>1. revision \in 0 .. MaxRevision /\ relay[i].tries + 1 \in 1 .. Attempts
      <4>1. revision \in 0 .. MaxRevision /\ relay[i] \in Relays
        BY RelayFits
      <4>2. relay[i].tries \in 1 .. Attempts
        BY <4>1 DEF Relays
      <4>3. Attempts \in Nat
        BY StreamAssumption
      <4> QED BY <2>3, <4>1, <4>2, <4>3
    <3>2. Idle \in Relays /\ Stands(Idle, i, revision)
      BY <3>1, IdleFits
    <3>3. s \in Relays
      BY <3>1, <3>2 DEF Relays, Ops, Steps
    <3>4. /\ s.op = "rebuild" /\ s.at = "fence" /\ s.known = Idle.known
          /\ s.capture = Idle.capture /\ s.staged = Idle.staged /\ s.pages = Idle.pages
          /\ s.nested = FALSE /\ Idle.at = "idle"
      BY DEF Idle
    <3> HIDE DEF s
    <3>5. Stands(s, i, revision)
      BY <3>2, <3>4 DEF Stands
    <3> QED BY <1>1, <2>1, <2>3, <3>3, <3>4, <3>5, QuietKeeps
  <2> QED BY <2>2, <2>3
<1> QED BY <1>2, <1>3, <1>4, <1>5, <1>6 DEF Relays

-----------------------------------------------------------------------------
(* The reads.                                                               *)

\* The last event a consumer got tells how many it got.
LEMMA GivenTail ==
    ASSUME NEW g \in Seq(Events), Given(g)
    PROVE  Len(g) \in Nat /\ Len(g) <= MaxRevision /\ TailOf(g) = Len(g)
<1>1. Len(g) \in Nat /\ Len(g) <= MaxRevision /\ 0 \in Nat /\ 0 <= Len(g) /\ g = Relayed(0, Len(g))
  BY DEF Given
<1>2. TailOf(Relayed(0, Len(g))) = Len(g)
  BY <1>1, TailOfRelayed
<1> QED BY <1>1, <1>2

\* A reply, cut at the page, is the next records.
LEMMA ReplyIs ==
    ASSUME NEW s \in Seq(Events), Ordered(s), NEW n \in Nat, n <= MaxRevision,
           Between(s, 0, n) = Relayed(0, n), NEW g \in Nat, g <= MaxRevision,
           NEW k \in Nat, k <= Len(Between(s, g, n))
    PROVE  LET reply == SubSeq(Between(s, g, n), 1, k)
           IN  Len(reply) = k /\ g + k <= MaxRevision /\ reply = Relayed(g, g + k)
<1>1. CASE g <= n
  <2>1. Between(s, g, n) = Relayed(g, n)
    BY <1>1, ProvedRange
  <2>2. k <= n - g
    BY <1>1, <2>1, RelayedIs
  <2>3. SubSeq(Relayed(g, n), 1, k) = Relayed(g, g + k)
    BY <1>1, <2>2, RelayedCut
  <2>4. g + k \in Nat /\ g <= g + k /\ g + k <= MaxRevision /\ (g + k) - g = k
    BY <2>2, StreamAssumption
  <2>5. Len(Relayed(g, g + k)) = (g + k) - g
    BY <2>4, RelayedIs
  <2> QED BY <2>1, <2>3, <2>4, <2>5
<1>2. CASE ~(g <= n)
  <2>1. Between(s, g, n) = <<>>
    BY <1>2, ProvedRange
  <2>2. k = 0 /\ g + k = g
    BY <2>1
  <2>3. SubSeq(<<>>, 1, 0) = <<>>
    BY SubSeqEmpty
  <2>4. Relayed(g, g) = <<>> /\ Len(<<>>) = 0
    BY NothingRelayed
  <2> QED BY <2>1, <2>2, <2>3, <2>4
<1> QED BY <1>1, <1>2

LEMMA RangeKeeps ==
    ASSUME IInv, NEW i \in Processes, Range1(i)
    PROVE  IInv'
<1> DEFINE r == relay[i]
           live == redis.stream
           new == Between(live, LastGot(i), r.known)
           n == IF Len(new) < PageLimit THEN Len(new) ELSE PageLimit
           reply == SubSeq(new, 1, n)
           s == [r EXCEPT !.at = "answer", !.reply = reply]
<1>1. /\ r \in Relays /\ Stands(r, i, revision) /\ Watches(r, redis, got[i])
      /\ r.at = "range" /\ Enter(i, s) /\ UNCHANGED <<revision, redis, got, faults>>
  BY RelayFits DEF Range1, Bound, Fits
<1>2. i \in Consumers /\ r.known \in 0 .. MaxRevision /\ r.op = "read"
  BY <1>1 DEF Stands, Relays
<1>3. got[i] \in Seq(Events) /\ Given(got[i]) /\ live \in Seq(Events) /\ Ordered(live)
  BY <1>2 DEF IInv
<1>4. /\ Len(got[i]) \in Nat /\ Len(got[i]) <= MaxRevision /\ LastGot(i) = Len(got[i])
      /\ r.known \in Nat /\ r.known <= MaxRevision
  BY <1>2, <1>3, GivenTail, StreamAssumption DEF LastGot
<1>5. new \in Seq(Events)
  BY <1>3, <1>4, BetweenTyped
<1> HIDE DEF new
<1>6. n \in Nat /\ n <= Len(new)
  BY <1>5, StreamAssumption
<1> HIDE DEF n
<1>7. reply \in Seq(Events)
  <2>1. \A k \in 1 .. n : new[k] \in Events
    BY <1>5, <1>6
  <2> QED BY <1>6, <2>1, SubSeqProperties
<1>8. r.clean => /\ Len(reply) = n /\ Len(got[i]) + n <= MaxRevision
                 /\ reply = Relayed(Len(got[i]), Len(got[i]) + n)
  <2> SUFFICES ASSUME r.clean
               PROVE  /\ Len(reply) = n /\ Len(got[i]) + n <= MaxRevision
                      /\ reply = Relayed(Len(got[i]), Len(got[i]) + n)
    OBVIOUS
  <2>1. Between(live, 0, r.known) = Relayed(0, r.known)
    BY <1>1 DEF Watches
  <2>2. new = Between(live, Len(got[i]), r.known)
    BY <1>4 DEF new
  <2> HIDE DEF r, live
  <2> QED BY <1>3, <1>4, <1>6, <2>1, <2>2, ReplyIs
<1> HIDE DEF reply
<1>9. s \in Relays
  BY <1>1, <1>7 DEF Relays, Steps
<1>10. /\ s.at = "answer" /\ s.reply = reply /\ s.op = r.op /\ s.capture = r.capture
       /\ s.known = r.known /\ s.nested = r.nested /\ s.clean = r.clean
       /\ s.staged = r.staged /\ s.pages = r.pages
  BY <1>1 DEF Relays
<1> HIDE DEF s
<1>11. Stands(s, i, revision)
  BY <1>1, <1>2, <1>10 DEF Stands
<1>12. Watches(s, redis, got[i])
  BY <1>8, <1>10 DEF Watches
<1> QED BY <1>1, <1>9, <1>11, <1>12, EnterKeeps DEF Fits, IInv

LEMMA AnswerKeeps ==
    ASSUME IInv, NEW i \in Processes, Answer(i)
    PROVE  IInv'
<1> DEFINE r == relay[i]
<1>1. /\ r \in Relays /\ Stands(r, i, revision) /\ Watches(r, redis, got[i])
      /\ r.at = "answer" /\ UNCHANGED <<revision, redis, faults>> /\ revision \in 0 .. MaxRevision
  BY RelayFits DEF Answer, Fits
<1>2. i \in Consumers /\ r.known <= revision /\ r.reply \in Seq(Events)
  BY <1>1 DEF Stands, Relays
<1>3. CASE ~r.clean
  <2>1. Enter(i, ReadAgain(r)) /\ UNCHANGED got
    BY <1>3 DEF Answer, Clean
  <2>2. ReadAgain(r) \in Relays /\ Stands(ReadAgain(r), i, revision) /\ ~ReadAgain(r).clean
    BY <1>1, <1>2, ReadAgainFits
  <2> QED BY <1>1, <2>1, <2>2, QuietKeeps DEF IInv
<1>4. CASE r.clean
  <2> DEFINE g == Len(got[i])
             k == Len(r.reply)
             e == got[i] \o r.reply
  <2>1. got' = [got EXCEPT ![i] = e] /\ Enter(i, Idle)
    BY <1>4 DEF Answer, Clean
  <2>2. got \in [Consumers -> Seq(Events)] /\ got[i] \in Seq(Events) /\ Given(got[i])
    BY <1>2 DEF IInv
  <2>3. g + k <= MaxRevision /\ r.reply = Relayed(g, g + k)
    BY <1>1, <1>4 DEF Watches
  <2>4. g \in Nat /\ k \in Nat /\ got[i] = Relayed(0, g)
    BY <1>2, <2>2 DEF Given
  <2> HIDE DEF g, k
  <2>5. /\ 0 \in Nat /\ 0 <= g /\ g <= g + k /\ g + k \in Nat /\ 0 <= g + k /\ (g + k) - 0 = g + k
    BY <2>4
  <2>6. e = Relayed(0, g + k)
    <3>1. Relayed(0, g) \o Relayed(g, g + k) = Relayed(0, g + k)
      BY <2>3, <2>4, <2>5, RelayedJoins
    <3> QED BY <2>3, <2>4, <3>1
  <2>7. e \in Seq(Events) /\ Len(e) = g + k
    BY <2>3, <2>5, <2>6, RelayedIs
  <2> HIDE DEF e
  <2>8. Given(e)
    BY <2>3, <2>6, <2>7 DEF Given
  <2>9. got' \in [Consumers -> Seq(Events)] /\ \A j \in Consumers : Given(got'[j])
    BY <1>2, <2>1, <2>2, <2>7, <2>8 DEF IInv
  <2>10. Idle \in Relays /\ Stands(Idle, i, revision) /\ ~Idle.clean
    BY <1>1, IdleFits
  <2>11. relay \in [Processes -> Relays]
    BY DEF IInv
  <2>12. relay' \in [Processes -> Relays]
    BY <2>1, <2>10, <2>11 DEF Enter
  <2>13. ASSUME NEW j \in Processes
         PROVE  Stands(relay'[j], j, revision) /\ Watches(relay'[j], redis, got'[j])
    <3>1. CASE j = i
      BY <2>1, <2>10, <2>11, <3>1 DEF Enter, Watches
    <3>2. CASE j # i
      <4>1. relay'[j] = relay[j]
        BY <2>1, <2>11, <3>2 DEF Enter
      <4>2. Stands(relay[j], j, revision) /\ Watches(relay[j], redis, got[j]) /\ relay[j] \in Relays
        BY <2>11 DEF IInv
      <4>3. relay[j].at = "answer" => j \in Consumers
        BY <4>2 DEF Stands
      <4>4. j \in Consumers => got'[j] = got[j]
        BY <2>1, <2>2, <3>2
      <4> QED BY <4>1, <4>2, <4>3, <4>4 DEF Watches
    <3> QED BY <3>1, <3>2
  <2> QED BY <1>1, <2>9, <2>12, <2>13 DEF IInv
<1> QED BY <1>1, <1>3, <1>4 DEF Relays

-----------------------------------------------------------------------------
(* SQLite commits, Redis and the processes fail.                            *)

LEMMA CommitKeeps ==
    ASSUME IInv, Commit
    PROVE  IInv'
<1>1. revision \in 0 .. MaxRevision /\ revision' \in 0 .. MaxRevision /\ revision <= revision'
  BY StreamAssumption DEF IInv, Commit
<1>2. ASSUME NEW j \in Processes PROVE Stands(relay[j], j, revision')
  <2>1. Stands(relay[j], j, revision) /\ relay[j] \in Relays
    BY RelayFits
  <2>2. relay[j].capture \in 0 .. MaxRevision /\ relay[j].known \in 0 .. MaxRevision
    BY <2>1 DEF Relays
  <2>3. relay[j].capture <= revision /\ relay[j].known <= revision
    BY <2>1 DEF Stands
  <2>4. relay[j].capture <= revision' /\ relay[j].known <= revision'
    BY <1>1, <2>2, <2>3
  <2> QED BY <2>1, <2>4 DEF Stands
<1> QED BY <1>1, <1>2 DEF IInv, Commit

LEMMA DamageKeeps ==
    ASSUME IInv, (\E n \in 0 .. redis.watermark : Len(redis.stream) >= n /\ Restart(n)) \/ Damage
    PROVE  IInv'
<1>0. /\ redis \in [stream : Seq(Events), watermark : 0 .. MaxRevision]
      /\ redis.stream \in Seq(Events) /\ Ordered(redis.stream) /\ redis.watermark \in 0 .. MaxRevision
      /\ 0 \in 0 .. MaxRevision
  BY StreamAssumption DEF IInv
<1>1. ASSUME NEW n \in 0 .. redis.watermark, Len(redis.stream) >= n, Restart(n) PROVE IInv'
  <2>1. n \in Nat /\ n <= Len(redis.stream) /\ n \in 0 .. MaxRevision
    <3>1. Len(redis.stream) \in Nat /\ redis.watermark \in Nat /\ redis.watermark <= MaxRevision
      BY <1>0, EventsAre, StreamAssumption
    <3> QED BY <1>1, <3>1, StreamAssumption
  <2>2. SubSeq(redis.stream, 1, n) \in Seq(Events) /\ Ordered(SubSeq(redis.stream, 1, n))
    BY <1>0, <2>1, CutOrdered
  <2>3. /\ Fault /\ redis' = [stream |-> SubSeq(redis.stream, 1, n), watermark |-> n]
        /\ relay' = [j \in Processes |-> Idle]
    BY <1>1 DEF Restart
  <2> QED BY <2>1, <2>2, <2>3, FaultKeeps
<1>2. CASE Forget
  BY <1>0, <1>2, FaultKeeps DEF Forget
<1>3. ASSUME NEW k \in DOMAIN redis.stream, Delete(k) PROVE IInv'
  <2>1. k \in 1 .. Len(redis.stream)
    BY <1>0
  <2>2. RemoveAt(redis.stream, k) \in Seq(Events) /\ Ordered(RemoveAt(redis.stream, k))
    BY <1>0, <2>1, DeletedOrdered
  <2>3. /\ Fault /\ redis' = [redis EXCEPT !.stream = RemoveAt(@, k)]
        /\ relay' = [i \in Processes |-> [relay[i] EXCEPT !.clean = FALSE]]
    BY <1>3 DEF Delete
  <2> QED BY <1>0, <2>2, <2>3, FaultKeeps
<1>4. ASSUME NEW k \in DOMAIN redis.stream, Falsify(k) PROVE IInv'
  <2> DEFINE u == [redis.stream EXCEPT ![k].intact = FALSE]
  <2>1. k \in 1 .. Len(redis.stream)
    BY <1>0
  <2>2. u \in Seq(Events) /\ Ordered(u)
    BY <1>0, <2>1, FalsifiedOrdered
  <2>3. /\ Fault /\ redis' = [redis EXCEPT !.stream[k].intact = FALSE]
        /\ relay' = [i \in Processes |-> [relay[i] EXCEPT !.clean = FALSE]]
    BY <1>4 DEF Falsify
  <2>4. redis' = [redis EXCEPT !.stream = u]
    BY <2>3
  <2> HIDE DEF u
  <2> QED BY <1>0, <2>2, <2>3, <2>4, FaultKeeps
<1> QED BY <1>1, <1>2, <1>3, <1>4 DEF Damage

LEMMA ProcessFaultKeeps ==
    ASSUME IInv, NEW i \in Processes, Expire(i) \/ Stop(i)
    PROVE  IInv'
<1>1. faults' \in 0 .. MaxFaults /\ UNCHANGED <<revision, redis, got>>
  BY StreamAssumption DEF IInv, Expire, Stop, Fault
<1>2. CASE Expire(i)
  <2> DEFINE r == relay[i]
             s == [r EXCEPT !.staged = <<>>]
  <2>1. r \in Relays /\ Stands(r, i, revision) /\ Watches(r, redis, got[i]) /\ Enter(i, s)
    BY <1>2, RelayFits DEF Expire, Fits
  <2>2. r.pages \in Nat /\ r.pages <= MaxRevision
    BY <2>1, StreamAssumption DEF Relays
  <2>3. Relayed(r.pages, r.pages) = <<>> /\ <<>> \in Seq(Events) /\ Len(<<>>) = 0
    BY <2>2, NothingRelayed
  <2>4. s \in Relays
    BY <2>1, <2>3 DEF Relays
  <2>5. /\ s.staged = <<>> /\ s.at = r.at /\ s.op = r.op /\ s.capture = r.capture
        /\ s.known = r.known /\ s.nested = r.nested /\ s.clean = r.clean /\ s.fence = r.fence
        /\ s.pages = r.pages /\ s.reply = r.reply
    BY <2>1 DEF Relays
  <2> HIDE DEF s
  <2>6. Stands(s, i, revision)
    BY <2>1, <2>2, <2>3, <2>5 DEF Stands
  <2>7. Watches(s, redis, got[i])
    BY <2>1, <2>5 DEF Watches
  <2> QED BY <1>1, <2>1, <2>4, <2>6, <2>7, EnterKeeps DEF Fits
<1>3. CASE Stop(i)
  BY <1>1, <1>3, ReturnKeeps DEF Stop, Failed
<1> QED BY <1>2, <1>3

-----------------------------------------------------------------------------
LEMMA InvInit == Init => IInv
<1> SUFFICES ASSUME Init PROVE IInv
  OBVIOUS
<1>1. 0 \in 0 .. MaxRevision /\ 0 \in 0 .. MaxFaults /\ 0 \in Nat /\ 0 <= MaxRevision
  BY StreamAssumption
<1>2. Relayed(0, 0) = <<>> /\ <<>> \in Seq(Events) /\ Len(<<>>) = 0
  BY <1>1, NothingRelayed
<1>3. Ordered(<<>>) /\ Given(<<>>)
  BY <1>1, <1>2 DEF Ordered, Given
<1>4. \A i \in Processes : Idle \in Relays /\ Stands(Idle, i, 0) /\ ~Idle.clean
  BY <1>1, IdleFits
<1>5. Nothing \in [stream : Seq(Events), watermark : 0 .. MaxRevision] /\ Nothing.stream = <<>>
  BY <1>1, <1>2 DEF Nothing
<1>6. /\ revision = 0 /\ redis = Nothing /\ faults = 0
      /\ relay = [i \in Processes |-> Idle] /\ got = [i \in Consumers |-> <<>>]
  BY DEF Init
<1>7. relay \in [Processes -> Relays] /\ got \in [Consumers -> Seq(Events)]
  BY <1>2, <1>4, <1>6
<1>8. \A i \in Processes : Stands(relay[i], i, revision) /\ Watches(relay[i], redis, got[i])
  BY <1>4, <1>6 DEF Watches
<1> QED BY <1>1, <1>3, <1>5, <1>6, <1>7, <1>8 DEF IInv

LEMMA InvStep == IInv /\ [Next]_vars => IInv'
<1> SUFFICES ASSUME IInv, [Next]_vars PROVE IInv'
  OBVIOUS
<1>1. CASE Commit
  BY <1>1, CommitKeeps
<1>2. ASSUME NEW i \in Processes, Relaying(i) PROVE IInv'
  BY <1>2, FenceKeeps, ProveKeeps, AppendKeeps, StageKeeps, SwapKeeps, RangeKeeps, AnswerKeeps
     DEF Relaying
<1>3. ASSUME NEW i \in Processes, NEW op \in Ops, Begin(i, op) PROVE IInv'
  BY <1>3, BeginKeeps
<1>4. CASE (\E n \in 0 .. redis.watermark : Len(redis.stream) >= n /\ Restart(n)) \/ Damage
  BY <1>4, DamageKeeps
<1>5. ASSUME NEW i \in Processes, Expire(i) \/ Stop(i) PROVE IInv'
  BY <1>5, ProcessFaultKeeps
<1>6. CASE UNCHANGED vars
  BY <1>6 DEF vars, IInv
<1> QED BY <1>1, <1>2, <1>3, <1>4, <1>5, <1>6 DEF Next

\* The stream, the calls and what consumers got are well typed.
THEOREM StreamTypeCorrect == Spec => []TypeOK
<1>1. IInv => TypeOK
  BY DEF IInv, TypeOK
<1> QED BY InvInit, InvStep, <1>1, PTL DEF Spec

\* A consumer is given every record once and in order, whatever happens to the
\* stream while it reads.
THEOREM ReadersAreGivenOnce == Spec => []DeliveredOnce
<1>1. IInv => DeliveredOnce
  BY DEF IInv, Given, DeliveredOnce
<1> QED BY InvInit, InvStep, <1>1, PTL DEF Spec

\* Whoever writes the live stream leaves the committed records up to the
\* watermark in it, and nothing else.
THEOREM WritersLeaveItWhole == Spec => WritesAreWhole
<1> DEFINE Leaves == redis' # redis /\ faults' = faults =>
                         Whole(redis') /\ redis'.watermark <= revision
<1>1. IInv /\ [Next]_vars => [Leaves]_vars
  <2> SUFFICES ASSUME IInv, [Next]_vars, redis' # redis, faults' = faults
               PROVE  Whole(redis') /\ redis'.watermark <= revision
    OBVIOUS
  <2>1. ~Fault
    BY StreamAssumption DEF IInv, Fault
  <2>2. PICK i \in Processes : Append1(i) \/ Swap(i)
    BY <2>1 DEF Next, vars, Commit, Relaying, Begin, Fence, Prove, Stage, Range1, Answer,
                Restart, Damage, Forget, Delete, Falsify, Expire, Stop
  <2>3. WholeUpTo(redis', relay[i].capture)
    <3>1. CASE Append1(i)
      <4>1. relay[i].clean
        BY <3>1 DEF Append1, Clean
      <4> QED BY <3>1, <4>1, AppendWrites
    <3>2. CASE Swap(i)
      <4>1. relay[i].op \in {"sync", "rebuild"} /\ relay[i].clean \in BOOLEAN
        BY <3>2, RelayFits DEF Swap, Stands, Relays, Ops
      <4>2. relay[i].clean /\ StageIsWhole(relay[i])
        BY <3>2, <4>1 DEF Swap, Clean
      <4> QED BY <3>2, <4>2, SwapWrites
    <3> QED BY <2>2, <3>1, <3>2
  <2>4. relay[i].capture <= revision
    BY RelayFits DEF Stands
  <2> QED BY <2>3, <2>4 DEF WholeUpTo, Whole
<1> QED BY InvInit, InvStep, <1>1, PTL DEF Spec, WritesAreWhole

-----------------------------------------------------------------------------
(* LedgerIndexes.                                                           *)

\* The row of a is what the records up to its cursor give.
RowStands(l, row, a) ==
    /\ row.status = "valid" =>
          /\ Foldable(l, a, 0, row.through)
          /\ row.totals = Fold(l, a, 0, row.through)
    /\ row.status = "opaque" => ~Foldable(l, a, 0, row.through)
    /\ row.status = "missing" => row.through = 0
    /\ row.status # "valid" => row.totals = Nowhere

RowsStand == \A a \in Accounts : RowStands(log, checkpoint[a], a)

\* The index is what the heads up to the cursor give; there is none without one.
IndexStands(l) ==
    /\ state.present => /\ index = Relations(l, 0, state.through)
                        /\ state.opaque = Illegible(l, 0, state.through)
    /\ ~state.present => state = MissingState /\ index = {}

TablesStand == LedgerTypeOK /\ RowsStand /\ IndexStands(log)

-----------------------------------------------------------------------------
LEMMA TotalsTyped ==
    ASSUME NEW l, NEW a, NEW m, NEW n
    PROVE  Nowhere \in Totals /\ Fold(l, a, m, n) \in Totals
BY DEF Nowhere, Totals, Fold

\* The history up to n is the history up to m and the tail after it.
LEMMA FoldSplits ==
    ASSUME NEW l \in Seq(Entries), NEW a, NEW m \in Nat, NEW n \in Nat, m <= n, n <= Len(l)
    PROVE  /\ Foldable(l, a, 0, n) <=> (Foldable(l, a, 0, m) /\ Foldable(l, a, m, n))
           /\ Fold(l, a, 0, n) = Plus(Fold(l, a, 0, m), Fold(l, a, m, n))
<1>1. \A r : r \in Related(l, a, 0, n) <=> (r \in Related(l, a, 0, m) \/ r \in Related(l, a, m, n))
    BY DEF Related
<1>2. \A r : ~(r \in Related(l, a, 0, m) /\ r \in Related(l, a, m, n))
    BY DEF Related
<1>3. Foldable(l, a, 0, n) <=> (Foldable(l, a, 0, m) /\ Foldable(l, a, m, n))
    BY <1>1 DEF Foldable
<1>4. Fold(l, a, 0, n) = Plus(Fold(l, a, 0, m), Fold(l, a, m, n))
    BY <1>1, <1>2 DEF Fold, Plus
<1> QED BY <1>3, <1>4

LEMMA FoldNothing ==
    ASSUME NEW l, NEW a, NEW t \in Totals
    PROVE  Foldable(l, a, 0, 0) /\ Fold(l, a, 0, 0) = Nowhere /\ Plus(Nowhere, t) = t
<1>1. Related(l, a, 0, 0) = {}
    BY DEF Related
<1>2. Plus(Nowhere, t) = t
    BY DEF Plus, Nowhere, Totals
<1> QED BY <1>1, <1>2 DEF Foldable, Fold, Nowhere

\* A record more leaves the prefixes before it as they were.
LEMMA EntryKeeps ==
    ASSUME NEW l \in Seq(Entries), NEW e \in Entries, NEW a, NEW n \in Nat, n <= Len(l)
    PROVE  /\ Foldable(Append(l, e), a, 0, n) = Foldable(l, a, 0, n)
           /\ Fold(Append(l, e), a, 0, n) = Fold(l, a, 0, n)
<1>1. /\ Len(Append(l, e)) = Len(l) + 1
      /\ \A r \in 1 .. Len(l) : Append(l, e)[r] = l[r]
      /\ Len(l) \in Nat
    BY AppendProperties
<1>2. Related(Append(l, e), a, 0, n) = Related(l, a, 0, n)
    BY <1>1 DEF Related, Touches
<1>3. \A r \in Related(l, a, 0, n) : Append(l, e)[r] = l[r]
    BY <1>1 DEF Related
<1>4. Foldable(Append(l, e), a, 0, n) = Foldable(l, a, 0, n)
    BY <1>2, <1>3 DEF Foldable
<1> QED BY <1>2, <1>4 DEF Fold

\* A row that stands for a prefix and takes in the tail stands for the whole.
LEMMA TailTakenIn ==
    ASSUME NEW l \in Seq(Entries), NEW a, NEW row \in Rows, row.through <= Len(l),
           RowStands(l, row, a), row.status # "opaque"
    PROVE  /\ Foldable(l, a, row.through, Len(l)) <=> Foldable(l, a, 0, Len(l))
           /\ Plus(row.totals, Fold(l, a, row.through, Len(l))) = Fold(l, a, 0, Len(l))
<1>1. row.through \in Nat /\ row.status \in {"missing", "valid"} /\ Len(l) \in Nat
    BY DEF Rows
<1>2. Foldable(l, a, 0, row.through) /\ row.totals = Fold(l, a, 0, row.through)
    <2>1. CASE row.status = "valid"
        BY <2>1 DEF RowStands
    <2>2. CASE row.status = "missing"
        BY <2>2, FoldNothing, TotalsTyped DEF RowStands
    <2> QED BY <2>1, <2>2, <1>1
<1> QED BY <1>1, <1>2, FoldSplits

LEMMA RefreshStands ==
    ASSUME NEW l \in Seq(Entries), NEW a \in Accounts, checkpoint[a] \in Rows,
           checkpoint[a].through <= Len(l), RowStands(l, checkpoint[a], a)
    PROVE  /\ RefreshedRow(l, a) \in Rows
           /\ RefreshedRow(l, a).through <= Len(l)
           /\ RowStands(l, RefreshedRow(l, a), a)
<1> DEFINE row == checkpoint[a]
           n == Len(l)
<1>1. n \in Nat
    OBVIOUS
<1>2. CASE row.status = "opaque"
    BY <1>2 DEF RefreshedRow
<1>3. CASE row.status # "opaque" /\ ~Foldable(l, a, row.through, n)
  <2>1. RefreshedRow(l, a) = OpaqueRow(n) /\ ~Foldable(l, a, 0, n)
    BY <1>3, TailTakenIn DEF RefreshedRow
  <2> HIDE DEF n
  <2> QED BY <2>1, <1>1, TotalsTyped DEF OpaqueRow, Rows, RowStands, n
<1>4. CASE row.status # "opaque" /\ Foldable(l, a, row.through, n)
  <2>1. RefreshedRow(l, a) = ValidRow(n, Plus(row.totals, Fold(l, a, row.through, n)))
        /\ Foldable(l, a, 0, n)
        /\ Plus(row.totals, Fold(l, a, row.through, n)) = Fold(l, a, 0, n)
    BY <1>4, TailTakenIn DEF RefreshedRow
  <2> QED BY <2>1, <1>1, TotalsTyped DEF ValidRow, Rows, RowStands
<1> QED BY <1>2, <1>3, <1>4

LEMMA RecomputeStands ==
    ASSUME NEW l \in Seq(Entries), NEW a
    PROVE  /\ Recomputed(l, a, Len(l)) \in Rows
           /\ Recomputed(l, a, Len(l)).through <= Len(l)
           /\ RowStands(l, Recomputed(l, a, Len(l)), a)
<1>1. Len(l) \in Nat
    OBVIOUS
<1> QED BY <1>1, TotalsTyped
        DEF Recomputed, MissingRow, ValidRow, OpaqueRow, Rows, RowStands

-----------------------------------------------------------------------------
LEMMA HeadsSplit ==
    ASSUME NEW l \in Seq(Entries), NEW m \in Nat, NEW n \in Nat, m <= n, n <= Len(l)
    PROVE  /\ Relations(l, 0, n) = Relations(l, 0, m) \cup Relations(l, m, n)
           /\ Illegible(l, 0, n) <=> (Illegible(l, 0, m) \/ Illegible(l, m, n))
           /\ Heads(l, 0, n) = Heads(l, 0, m) \cup Heads(l, m, n)
<1>1. Heads(l, 0, n) = Heads(l, 0, m) \cup Heads(l, m, n)
    BY DEF Heads
<1> QED BY <1>1 DEF Relations, Illegible

LEMMA HeadsOfNothing ==
    ASSUME NEW l
    PROVE  Relations(l, 0, 0) = {} /\ ~Illegible(l, 0, 0)
<1>1. Heads(l, 0, 0) = {}
    BY DEF Heads
<1> QED BY <1>1 DEF Relations, Illegible

LEMMA AppendKeepsHeads ==
    ASSUME NEW l \in Seq(Entries), NEW e \in Entries, NEW n \in Nat, n <= Len(l)
    PROVE  /\ Relations(Append(l, e), 0, n) = Relations(l, 0, n)
           /\ Illegible(Append(l, e), 0, n) <=> Illegible(l, 0, n)
<1>1. /\ Len(Append(l, e)) = Len(l) + 1
      /\ \A r \in 1 .. Len(l) : Append(l, e)[r] = l[r]
      /\ Len(l) \in Nat
    BY AppendProperties
<1>2. Heads(Append(l, e), 0, n) = Heads(l, 0, n)
    BY <1>1 DEF Heads
<1>3. \A r \in Heads(l, 0, n) : Append(l, e)[r] = l[r]
    BY <1>1 DEF Heads
<1>4. \A p \in Heads(l, 0, n) \X Members : Append(l, e)[p[1]] = l[p[1]]
    BY <1>3
<1>5. Relations(Append(l, e), 0, n) = Relations(l, 0, n)
    BY <1>2, <1>4 DEF Relations
<1>6. Illegible(Append(l, e), 0, n) <=> Illegible(l, 0, n)
    BY <1>2, <1>3 DEF Illegible
<1> QED BY <1>5, <1>6

LEMMA TablesInit == LedgerInit => TablesStand
BY LedgerAssumption, TotalsTyped
   DEF LedgerInit, TablesStand, LedgerTypeOK, RowsStand, RowStands, IndexStands, MissingRow, MissingState, Rows

\* The state row and the index after a head that is indexed.
LEMMA IndexedPasses ==
    ASSUME NEW l \in Seq(Entries), Indexed(l), state.through \in Nat, state.through <= Len(l),
           IndexStands(l)
    PROVE  /\ index' = Relations(l, 0, Len(l))
           /\ state' = IndexState(Len(l), Illegible(l, 0, Len(l)))
<1>1. Len(l) \in Nat
    OBVIOUS
<1>2. Relations(l, 0, 0) = {} /\ ~Illegible(l, 0, 0)
    BY HeadsOfNothing
<1>3. /\ Relations(l, 0, Len(l)) = Relations(l, 0, state.through)
                                    \cup Relations(l, state.through, Len(l))
      /\ Illegible(l, 0, Len(l)) <=> (Illegible(l, 0, state.through)
                                        \/ Illegible(l, state.through, Len(l)))
    BY <1>1, HeadsSplit
<1>4. CASE state.present
    <2>0. index = Relations(l, 0, state.through) /\ state.opaque = Illegible(l, 0, state.through)
        BY <1>4 DEF IndexStands
    <2>1. (state.opaque \/ Illegible(l, state.through, Len(l))) = Illegible(l, 0, Len(l))
        BY <1>3, <2>0 DEF Illegible
    <2> QED BY <1>3, <1>4, <2>0, <2>1 DEF Indexed
<1>5. CASE ~state.present
    <2>0. state.through = 0 /\ ~state.opaque
        BY <1>5 DEF IndexStands, MissingState
    <2>1. (state.opaque \/ Illegible(l, state.through, Len(l))) = Illegible(l, 0, Len(l))
        BY <2>0 DEF Illegible
    <2> QED BY <1>2, <1>3, <1>5, <2>0, <2>1 DEF Indexed
<1> QED BY <1>4, <1>5

LEMMA RelationsTyped ==
    ASSUME NEW l, NEW n \in Nat
    PROVE  Relations(l, 0, n) \subseteq (1 .. Len(l)) \X Members
BY DEF Relations, Heads

\* A record more, by whoever, leaves the rows and the index of before standing.
LEMMA StandsAfterAppend ==
    ASSUME TablesStand, NEW e \in Entries
    PROVE  /\ Append(log, e) \in Seq(Entries)
           /\ Len(Append(log, e)) = Len(log) + 1
           /\ \A a \in Accounts : RowStands(Append(log, e), checkpoint[a], a)
           /\ IndexStands(Append(log, e))
<1>1. log \in Seq(Entries) /\ Len(log) \in Nat
    BY DEF TablesStand, LedgerTypeOK
<1>2. \A a \in Accounts : RowStands(Append(log, e), checkpoint[a], a)
  <2>1. SUFFICES ASSUME NEW a \in Accounts PROVE RowStands(Append(log, e), checkpoint[a], a)
    OBVIOUS
  <2>2. checkpoint[a].through \in Nat /\ checkpoint[a].through <= Len(log)
    BY DEF TablesStand, LedgerTypeOK, Rows
  <2>3. /\ Foldable(Append(log, e), a, 0, checkpoint[a].through)
              = Foldable(log, a, 0, checkpoint[a].through)
        /\ Fold(Append(log, e), a, 0, checkpoint[a].through)
              = Fold(log, a, 0, checkpoint[a].through)
    BY <1>1, <2>2, EntryKeeps
  <2>4. RowStands(log, checkpoint[a], a)
    BY DEF TablesStand, RowsStand
  <2> QED BY <2>3, <2>4 DEF RowStands
<1>3. IndexStands(Append(log, e))
  <2>1. state.through \in Nat /\ state.through <= Len(log) /\ state.opaque \in BOOLEAN
    BY <1>1 DEF TablesStand, LedgerTypeOK
  <2>2. /\ Relations(Append(log, e), 0, state.through) = Relations(log, 0, state.through)
        /\ Illegible(Append(log, e), 0, state.through) <=> Illegible(log, 0, state.through)
    BY <1>1, <2>1, AppendKeepsHeads
  <2>3. Illegible(Append(log, e), 0, state.through) = Illegible(log, 0, state.through)
    BY <2>2 DEF Illegible
  <2> QED BY <2>2, <2>3 DEF TablesStand, IndexStands
<1> QED BY <1>1, <1>2, <1>3, AppendProperties

LEMMA InsertKeeps ==
    ASSUME TablesStand, NEW e \in Entries, Insert(e)
    PROVE  TablesStand'
<1> DEFINE l == Append(log, e)
<1>1. /\ log' = l /\ l \in Seq(Entries) /\ Len(l) = Len(log) + 1 /\ Len(l) <= MaxRecords
      /\ Len(log) \in Nat
      /\ \A a \in Accounts : RowStands(l, checkpoint[a], a)
      /\ IndexStands(l)
      /\ checkpoint' = [a \in Accounts |->
                           IF Touches(l, Len(l), a) THEN RefreshedRow(l, a) ELSE checkpoint[a]]
    BY StandsAfterAppend, LedgerAssumption DEF Insert, TablesStand, LedgerTypeOK
<1>2. IF e.type = "head" THEN Indexed(l) ELSE UNCHANGED <<index, state>>
    BY DEF Insert
<1>3. /\ checkpoint \in [Accounts -> Rows] /\ \A a \in Accounts : checkpoint[a].through <= Len(log)
      /\ index \subseteq (1 .. Len(log)) \X Members
      /\ state \in [present : BOOLEAN, through : 0 .. Len(log), opaque : BOOLEAN]
    BY DEF TablesStand, LedgerTypeOK
<1> HIDE DEF l
<1>4. \A a \in Accounts :
          checkpoint'[a] \in Rows /\ checkpoint'[a].through <= Len(l)
          /\ RowStands(l, checkpoint'[a], a)
  <2>1. SUFFICES ASSUME NEW a \in Accounts
                 PROVE  checkpoint'[a] \in Rows /\ checkpoint'[a].through <= Len(l)
                        /\ RowStands(l, checkpoint'[a], a)
    OBVIOUS
  <2>2. checkpoint[a] \in Rows /\ checkpoint[a].through <= Len(l)
    BY <1>1, <1>3 DEF Rows
  <2>3. CASE Touches(l, Len(l), a)
    BY <1>1, <2>2, <2>3, RefreshStands
  <2>4. CASE ~Touches(l, Len(l), a)
    BY <1>1, <2>2, <2>4
  <2> QED BY <2>3, <2>4
<1>5. checkpoint' \in [Accounts -> Rows]
    BY <1>1, <1>4
<1>6. CASE e.type = "head"
  <2>1. state.through \in Nat /\ state.through <= Len(l)
    BY <1>1, <1>3
  <2>2. index' = Relations(l, 0, Len(l)) /\ state' = IndexState(Len(l), Illegible(l, 0, Len(l)))
    BY <1>1, <1>2, <1>6, <2>1, IndexedPasses
  <2>3. index' \subseteq (1 .. Len(l)) \X Members
    BY <2>2, <1>1, RelationsTyped
  <2>4. Illegible(l, 0, Len(l)) \in BOOLEAN
    BY DEF Illegible
  <2>5. state' \in [present : BOOLEAN, through : 0 .. Len(l), opaque : BOOLEAN]
    BY <2>2, <2>4, <1>1 DEF IndexState
  <2>6. LedgerTypeOK'
    BY <1>1, <1>4, <1>5, <2>3, <2>5 DEF LedgerTypeOK
  <2>7. IndexStands(log)'
    BY <1>1, <2>2 DEF IndexStands, IndexState
  <2> QED BY <1>1, <1>4, <2>6, <2>7 DEF TablesStand, RowsStand
<1>7. CASE e.type # "head"
  <2>1. index' = index /\ state' = state
    BY <1>2, <1>7
  <2>2. LedgerTypeOK'
    BY <1>1, <1>3, <1>4, <1>5, <2>1 DEF LedgerTypeOK
  <2>3. IndexStands(log)'
    BY <1>1, <2>1 DEF IndexStands
  <2> QED BY <1>1, <1>4, <2>2, <2>3 DEF TablesStand, RowsStand
<1> QED BY <1>6, <1>7

LEMMA InsertOnlyKeeps ==
    ASSUME TablesStand, NEW e \in Entries, InsertOnly(e)
    PROVE  TablesStand'
<1> DEFINE l == Append(log, e)
<1>1. /\ log' = l /\ l \in Seq(Entries) /\ Len(l) = Len(log) + 1 /\ Len(l) <= MaxRecords
      /\ Len(log) \in Nat
      /\ \A a \in Accounts : RowStands(l, checkpoint[a], a)
      /\ IndexStands(l)
      /\ UNCHANGED <<checkpoint, index, state>>
    BY StandsAfterAppend, LedgerAssumption DEF InsertOnly, TablesStand, LedgerTypeOK
<1>2. /\ checkpoint \in [Accounts -> Rows] /\ \A a \in Accounts : checkpoint[a].through <= Len(log)
      /\ index \subseteq (1 .. Len(log)) \X Members
      /\ state \in [present : BOOLEAN, through : 0 .. Len(log), opaque : BOOLEAN]
    BY DEF TablesStand, LedgerTypeOK
<1> HIDE DEF l
<1>3. \A a \in Accounts : checkpoint[a].through <= Len(l)
    BY <1>1, <1>2 DEF Rows
<1>4. LedgerTypeOK'
    BY <1>1, <1>2, <1>3 DEF LedgerTypeOK
<1>5. RowsStand' /\ IndexStands(log)'
    BY <1>1 DEF RowsStand, IndexStands
<1> QED BY <1>4, <1>5 DEF TablesStand

LEMMA RebuildsKeep ==
    ASSUME TablesStand, RebuildCheckpoints \/ RebuildIndex
    PROVE  TablesStand'
<1>1. log \in Seq(Entries) /\ Len(log) \in Nat /\ Len(log) <= MaxRecords /\ log' = log
    BY DEF TablesStand, LedgerTypeOK, RebuildCheckpoints, RebuildIndex
<1>2. CASE RebuildCheckpoints
  <2>1. checkpoint' = [a \in Accounts |-> Recomputed(log, a, Len(log))]
        /\ UNCHANGED <<log, index, state>>
    BY <1>2 DEF RebuildCheckpoints
  <2>2. \A a \in Accounts :
            checkpoint'[a] \in Rows /\ checkpoint'[a].through <= Len(log)
            /\ RowStands(log, checkpoint'[a], a)
    BY <2>1, <1>1, RecomputeStands
  <2>3. checkpoint' \in [Accounts -> Rows]
    BY <2>1, <2>2
  <2>4. LedgerTypeOK'
    BY <2>1, <2>2, <2>3 DEF TablesStand, LedgerTypeOK
  <2>5. RowsStand'
    BY <2>1, <2>2 DEF RowsStand
  <2>6. IndexStands(log)'
    BY <2>1 DEF TablesStand, IndexStands
  <2> QED BY <2>4, <2>5, <2>6 DEF TablesStand
<1>3. CASE RebuildIndex
  <2>1. /\ index' = Relations(log, 0, Len(log))
        /\ state' = IndexState(Len(log), Illegible(log, 0, Len(log)))
        /\ UNCHANGED <<log, checkpoint>>
    BY <1>3 DEF RebuildIndex
  <2>2. index' \subseteq (1 .. Len(log)) \X Members
    BY <2>1, <1>1, RelationsTyped
  <2>3. Illegible(log, 0, Len(log)) \in BOOLEAN
    BY DEF Illegible
  <2>4. state' \in [present : BOOLEAN, through : 0 .. Len(log), opaque : BOOLEAN]
    BY <2>1, <2>3, <1>1 DEF IndexState
  <2>5. LedgerTypeOK'
    BY <2>1, <2>2, <2>4 DEF TablesStand, LedgerTypeOK
  <2>6. RowsStand'
    BY <2>1 DEF TablesStand, RowsStand
  <2>7. IndexStands(log)'
    BY <2>1 DEF IndexStands, IndexState
  <2> QED BY <2>5, <2>6, <2>7 DEF TablesStand
<1> QED BY <1>2, <1>3

LEMMA TablesStep == TablesStand /\ [LedgerNext]_ledgerVars => TablesStand'
<1> SUFFICES ASSUME TablesStand, [LedgerNext]_ledgerVars PROVE TablesStand'
    OBVIOUS
<1>1. CASE UNCHANGED ledgerVars
    BY <1>1 DEF ledgerVars, TablesStand, LedgerTypeOK, RowsStand, IndexStands
<1>2. CASE LedgerNext
    BY <1>2, InsertKeeps, InsertOnlyKeeps, RebuildsKeep DEF LedgerNext
<1> QED BY <1>1, <1>2

-----------------------------------------------------------------------------
\* Both tables are well typed, and no cursor runs ahead of the records.
THEOREM LedgerTypeCorrect == LedgerSpec => []LedgerTypeOK
<1>1. TablesStand => LedgerTypeOK
    BY DEF TablesStand
<1> QED BY TablesInit, TablesStep, <1>1, PTL DEF LedgerSpec

\* What a reader finds of an account follows from the row that stands.
LEMMA ReadsFromRows ==
    ASSUME TablesStand, NEW a \in Accounts
    PROVE  /\ Read(a).status = "valid" => Read(a).totals = Fold(log, a, 0, Len(log))
           /\ Read(a).status = "opaque" => ~Foldable(log, a, 0, Len(log))
<1> DEFINE row == checkpoint[a]
<1>1. log \in Seq(Entries) /\ row \in Rows /\ row.through <= Len(log) /\ RowStands(log, row, a)
      /\ Len(log) \in Nat /\ row.through \in Nat
    BY DEF TablesStand, LedgerTypeOK, RowsStand, Rows
<1>2. CASE row.status = "opaque"
  <2>1. ~Foldable(log, a, 0, row.through)
    BY <1>1, <1>2 DEF RowStands
  <2>2. ~Foldable(log, a, 0, Len(log))
    BY <2>1, <1>1, FoldSplits
  <2> QED BY <2>2, <1>2 DEF Read, Unreadable
<1>3. CASE row.status # "opaque"
  <2>1. /\ Foldable(log, a, row.through, Len(log)) <=> Foldable(log, a, 0, Len(log))
        /\ Plus(row.totals, Fold(log, a, row.through, Len(log))) = Fold(log, a, 0, Len(log))
    BY <1>1, <1>3, TailTakenIn
  <2> QED BY <2>1, <1>3 DEF Read, Unreadable
<1> QED BY <1>2, <1>3

\* The totals a reader accepts are the sum of all the records of the account,
\* each once, in whatever order releases and rebuilds wrote.
THEOREM ReadsExactly == LedgerSpec => []ReadsAreExact
<1>1. TablesStand => ReadsAreExact
    BY ReadsFromRows DEF ReadsAreExact
<1> QED BY TablesInit, TablesStep, <1>1, PTL DEF LedgerSpec

\* A reader that falls back has a record in the history that cannot be added up.
THEOREM FallsBackRightly == LedgerSpec => []FallsBackForAReason
<1>1. TablesStand => FallsBackForAReason
    BY ReadsFromRows DEF FallsBackForAReason
<1> QED BY TablesInit, TablesStep, <1>1, PTL DEF LedgerSpec

\* A complete selection holds every committed head that lists the record.
THEOREM NoHeadOverlooked == LedgerSpec => []FindsEveryHead
<1>1. TablesStand => FindsEveryHead
  <2> SUFFICES ASSUME TablesStand, NEW x \in Members, Find(x).complete
               PROVE  Find(x).heads = {r \in Heads(log, 0, Len(log)) : x \in log[r].members}
    BY DEF FindsEveryHead
  <2> DEFINE m == state.through
             n == Len(log)
  <2>1. log \in Seq(Entries) /\ m \in Nat /\ n \in Nat /\ m <= n
    BY DEF TablesStand, LedgerTypeOK
  <2>2. state.present /\ ~state.opaque /\ ~Illegible(log, m, n)
        /\ Find(x).heads = {r \in 1 .. m : <<r, x>> \in index}
                           \cup {r \in Heads(log, m, n) : x \in log[r].members}
    BY DEF Find
  <2>3. index = Relations(log, 0, m) /\ ~Illegible(log, 0, m)
    BY <2>2 DEF TablesStand, IndexStands
  <2>4. \A r \in 1 .. m : <<r, x>> \in index <=> (r \in Heads(log, 0, m) /\ x \in log[r].members)
    BY <2>3 DEF Relations, Illegible
  <2>5. \A r \in Heads(log, 0, m) : r \in 1 .. m
    BY <2>1 DEF Heads
  <2>6. Heads(log, 0, n) = Heads(log, 0, m) \cup Heads(log, m, n)
    BY <2>1, HeadsSplit
  <2> HIDE DEF m, n
  <2> QED BY <2>2, <2>4, <2>5, <2>6 DEF n, m
<1> QED BY TablesInit, TablesStep, <1>1, PTL DEF LedgerSpec

\* The audits of a Store digest never report what these writers did.
THEOREM AuditsNeverReport == LedgerSpec => []AuditsPass
<1>1. TablesStand => AuditsPass
    BY DEF TablesStand, RowsStand, RowStands, IndexStands, AuditsPass, CheckpointsPass, IndexPasses
<1> QED BY TablesInit, TablesStep, <1>1, PTL DEF LedgerSpec
=============================================================================
