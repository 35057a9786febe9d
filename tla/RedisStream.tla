----------------------------- MODULE RedisStream -----------------------------
(***************************************************************************)
(* The collaboration stream: every process relays the committed records of *)
(* the SQLite store to one Redis Stream, and consumers read it page by     *)
(* page with the last revision they got.                                   *)
(*                                                                         *)
(* A relay captures the records, watches the stream and its metadata,      *)
(* proves that the stream holds a prefix of its capture, and appends the   *)
(* rest in a transaction which Redis refuses when a watched key was        *)
(* written.  A long suffix is written to a staged stream, page by page,    *)
(* that replaces the live one.  SQLite is the authority: Redis may lose    *)
(* everything, its last writes or single keys and events.                  *)
(***************************************************************************)
EXTENDS Naturals, Sequences, SequencesExt

CONSTANTS
    Relayers,      \* processes that relay, and now and then rebuild
    Consumers,     \* processes that read, and relay on the way
    MaxRevision,   \* bound: how many records are committed
    PageLimit,     \* events of one transaction (256 in the code), and of a reply
    Attempts,      \* 3 in the code
    MaxFaults      \* bound: how often Redis loses something or a process stops

ASSUME StreamAssumption ==
    /\ Relayers \cap Consumers = {}
    /\ MaxRevision \in Nat /\ MaxFaults \in Nat
    /\ PageLimit \in Nat \ {0} /\ Attempts \in Nat \ {0}

Processes == Relayers \cup Consumers
Revisions == 1 .. MaxRevision

\* The stream entry of a record is named after its revision; what it says of
\* the record may be damaged.
Events == [id : Revisions, intact : BOOLEAN]
Relayed(m, n) == [k \in 1 .. n - m |-> [id |-> m + k, intact |-> TRUE]]

\* The metadata hash exists when its watermark is not 0.
Nothing == [stream |-> <<>>, watermark |-> 0]

VARIABLES
    revision,   \* the runtime revision of the SQLite store
    redis,      \* the live stream and its metadata
    relay,      \* relay[i]: what process i does with Redis
    got,        \* got[i]: the events the consumer of process i has been given
    faults

vars == <<revision, redis, relay, got, faults>>

Ops == {"sync", "rebuild", "read"}
Steps == {"idle", "fence", "prove", "append", "stage", "swap", "range", "answer"}
Relays ==
    [op : Ops, at : Steps,
     nested : BOOLEAN,                  \* a sync on behalf of a read
     known : 0 .. MaxRevision,          \* the capture of a read
     capture : 0 .. MaxRevision,        \* the records it relays: 1 .. capture
     fence : [watermark : 0 .. MaxRevision, tail : 0 .. MaxRevision],
     clean : BOOLEAN,                   \* no watched key was written
     tries : 1 .. Attempts, reads : 1 .. Attempts,
     staged : Seq(Events), pages : 0 .. MaxRevision,
     reply : Seq(Events)]

Idle == [op |-> "sync", at |-> "idle", nested |-> FALSE, known |-> 0, capture |-> 0,
         fence |-> [watermark |-> 0, tail |-> 0], clean |-> FALSE,
         tries |-> 1, reads |-> 1, staged |-> <<>>, pages |-> 0, reply |-> <<>>]

TypeOK ==
    /\ revision \in 0 .. MaxRevision
    /\ redis.stream \in Seq(Events)
    /\ redis.watermark \in 0 .. MaxRevision
    /\ relay \in [Processes -> Relays]
    /\ got \in [Consumers -> Seq(Events)]
    /\ faults \in 0 .. MaxFaults

Init ==
    /\ revision = 0
    /\ redis = Nothing
    /\ relay = [i \in Processes |-> Idle]
    /\ got = [i \in Consumers |-> <<>>]
    /\ faults = 0

TailOf(s) == IF s = <<>> THEN 0 ELSE Last(s).id

\* XRANGE (m n: the events of s after revision m and up to revision n.
Between(s, m, n) ==
    LET window[k \in 0 .. Len(s)] ==
            IF k = 0 THEN <<>>
            ELSE IF m < s[k].id /\ s[k].id <= n THEN Append(window[k - 1], s[k])
            ELSE window[k - 1]
    IN  window[Len(s)]

LastGot(i) == TailOf(got[i])

-----------------------------------------------------------------------------
(* How a call ends.                                                         *)

\* The capture of a read is kept while it relays; its attempts are its own.
ReadAgain(r) ==
    IF r.reads = Attempts THEN Idle
    ELSE [Idle EXCEPT !.op = "read", !.at = "fence", !.known = r.known,
                      !.capture = r.known, !.reads = r.reads + 1]

Failed(r) == Idle
Contended(r) == IF r.nested THEN ReadAgain(r) ELSE Idle
Finished(r) == IF r.nested THEN ReadAgain(r) ELSE Idle

Enter(i, r) == relay' = [relay EXCEPT ![i] = r]

\* Only an append needs the fence once the prefix is proved.
GoOn(i, step) ==
    Enter(i, [relay[i] EXCEPT !.at = step,
                              !.fence = IF step = "append" THEN @ ELSE Idle.fence])

\* A write to the live keys fails the transactions of all who watch them.
Wrote(i, r) ==
    relay' = [j \in Processes |-> IF j = i THEN r ELSE [relay[j] EXCEPT !.clean = FALSE]]

-----------------------------------------------------------------------------
(* The relay.                                                               *)

Begin(i, op) ==
    /\ relay[i].at = "idle"
    /\ i \in (IF op = "read" THEN Consumers ELSE Relayers)
    /\ Enter(i, [Idle EXCEPT !.op = op, !.at = "fence", !.capture = revision,
                             !.known = IF op = "read" THEN revision ELSE 0])
    /\ UNCHANGED <<revision, redis, got, faults>>

\* WATCH and the read of the fence.  A rebuild opens its source only now.
Fence(i) ==
    /\ relay[i].at = "fence"
    /\ Enter(i, [relay[i] EXCEPT
          !.at = "prove", !.clean = TRUE,
          !.fence = [watermark |-> redis.watermark, tail |-> TailOf(redis.stream)],
          !.capture = IF relay[i].op = "rebuild" THEN revision ELSE @])
    /\ UNCHANGED <<revision, redis, got, faults>>

\* _prove_prefix: the fence, then the events up to what both sides know, which
\* must be those of the capture.
Relation(capture, fence, stream) ==
    LET cap == IF fence.watermark < capture THEN fence.watermark ELSE capture
    IN  IF fence.watermark # fence.tail THEN "inconsistent"
        ELSE IF Between(stream, 0, cap) # Relayed(0, cap) THEN "inconsistent"
        ELSE IF fence.watermark > capture THEN "ahead"
        ELSE IF fence.watermark < capture THEN "lag" ELSE "equal"

\* A capture that fell behind is taken again, if there is something new.
Refreshed(r) ==
    IF r.tries = Attempts THEN Contended(r)
    ELSE [r EXCEPT !.at = "fence", !.tries = @ + 1, !.capture = revision]

ProveSync(i, relation) ==
    LET r == relay[i]
    IN  /\ r.op = "sync"
        /\ CASE relation = "inconsistent" -> Enter(i, Failed(r))
             [] relation = "ahead" ->
                    Enter(i, IF r.tries < Attempts /\ revision = r.capture
                             THEN Failed(r) ELSE Refreshed(r))
             [] relation = "equal" -> Enter(i, IF r.clean THEN Finished(r) ELSE Refreshed(r))
             [] relation = "lag" ->
                    GoOn(i, IF r.capture - r.fence.watermark <= PageLimit
                            THEN "append" ELSE "stage")

\* Only the first attempt of a rebuild may replace what it cannot prove.
ProveRebuild(i, relation) ==
    /\ relay[i].op = "rebuild"
    /\ IF relation \in {"inconsistent", "ahead"} /\ relay[i].tries > 1
       THEN Enter(i, Failed(relay[i]))
       ELSE GoOn(i, IF relay[i].capture = 0 THEN "swap" ELSE "stage")

\* Mutant: a consumer waits for another process to relay.
ProveReadOnly(i, relation) ==
    /\ relay[i].op = "read"
    /\ IF relation \in {"ahead", "equal"} THEN GoOn(i, "range") ELSE Enter(i, Failed(relay[i]))

ProveRead(i, relation) ==
    LET r == relay[i]
    IN  /\ r.op = "read"
        /\ CASE relation = "inconsistent" -> Enter(i, Failed(r))
             [] relation \in {"ahead", "equal"} -> GoOn(i, "range")
             [] relation = "lag" ->
                    Enter(i, [Idle EXCEPT !.op = "sync", !.at = "fence", !.nested = TRUE,
                                          !.known = r.known, !.capture = revision,
                                          !.reads = r.reads])

Prove(i) ==
    LET relation == Relation(relay[i].capture, relay[i].fence, redis.stream)
    IN  /\ relay[i].at = "prove"
        /\ ProveSync(i, relation) \/ ProveRebuild(i, relation) \/ ProveRead(i, relation)
        /\ UNCHANGED <<revision, redis, got, faults>>

\* Mutant: the transaction does not depend on the watched keys.
CleanAlways(i) == TRUE

\* EXEC succeeds when no watched key was written since WATCH.
Clean(i) == relay[i].clean

\* XADD refuses an entry that is not after the last one; the other commands of
\* the transaction take effect all the same.
XAdd(stream, events) == stream \o Between(events, TailOf(stream), MaxRevision)

Append1(i) ==
    LET r == relay[i]
    IN  /\ r.at = "append"
        /\ IF Clean(i)
           THEN /\ redis' = [stream |-> XAdd(redis.stream, Relayed(r.fence.watermark, r.capture)),
                             watermark |-> r.capture]
                /\ Wrote(i, Finished(r))
           ELSE Enter(i, Refreshed(r)) /\ UNCHANGED redis
        /\ UNCHANGED <<revision, got, faults>>

\* One page of the staged stream.  Its time to live starts again.
Stage(i) ==
    LET r == relay[i]
        last == IF r.pages + PageLimit < r.capture THEN r.pages + PageLimit ELSE r.capture
    IN  /\ r.at = "stage"
        /\ Enter(i, [r EXCEPT !.staged = @ \o Relayed(r.pages, last), !.pages = last,
                              !.at = IF last = r.capture THEN "swap" ELSE "stage"])
        /\ UNCHANGED <<revision, redis, got, faults>>

\* _SWAP_STAGED, before its first write.
StageIsWhole(r) == Len(r.staged) = r.capture /\ TailOf(r.staged) = r.capture

Swap(i) ==
    LET r == relay[i]
    IN  /\ r.at = "swap"
        /\ CASE ~Clean(i) /\ r.op = "rebuild" ->
                    /\ Enter(i, IF r.tries = Attempts THEN Failed(r)
                                ELSE [Idle EXCEPT !.op = "rebuild", !.at = "fence",
                                                  !.tries = r.tries + 1])
                    /\ UNCHANGED redis
             [] ~Clean(i) /\ r.op = "sync" ->
                    /\ Enter(i, [Refreshed(r) EXCEPT !.staged = <<>>, !.pages = 0])
                    /\ UNCHANGED redis
             [] Clean(i) /\ ~StageIsWhole(r) -> Enter(i, Contended(r)) /\ UNCHANGED redis
             [] Clean(i) /\ StageIsWhole(r) ->
                    /\ redis' = [stream |-> r.staged, watermark |-> r.capture]
                    /\ Wrote(i, Finished(r))
        /\ UNCHANGED <<revision, got, faults>>

-----------------------------------------------------------------------------
(* The consumer.                                                            *)

\* Mutant: the reply is not cut at the capture that was proved.
Unbounded(i) == MaxRevision

Bound(i) == relay[i].known

\* XRANGE after the last event the consumer got, up to the capture.
Range1(i) ==
    LET new == Between(redis.stream, LastGot(i), Bound(i))
        n == IF Len(new) < PageLimit THEN Len(new) ELSE PageLimit
    IN  /\ relay[i].at = "range"
        /\ Enter(i, [relay[i] EXCEPT !.at = "answer", !.reply = SubSeq(new, 1, n)])
        /\ UNCHANGED <<revision, redis, got, faults>>

Answer(i) ==
    /\ relay[i].at = "answer"
    /\ IF Clean(i)
       THEN got' = [got EXCEPT ![i] = @ \o relay[i].reply] /\ Enter(i, Idle)
       ELSE Enter(i, ReadAgain(relay[i])) /\ UNCHANGED got
    /\ UNCHANGED <<revision, redis, faults>>

-----------------------------------------------------------------------------
(* SQLite commits, Redis and the processes fail.                            *)

Commit ==
    /\ revision < MaxRevision
    /\ revision' = revision + 1
    /\ UNCHANGED <<redis, relay, got, faults>>

Fault == faults < MaxFaults /\ faults' = faults + 1 /\ UNCHANGED <<revision, got>>

\* Redis restarts without its last writes, or without any: every call fails.
Restart(n) ==
    /\ Fault
    /\ redis' = [stream |-> SubSeq(redis.stream, 1, n), watermark |-> n]
    /\ relay' = [i \in Processes |-> Idle]

\* Somebody deletes the metadata, or an event, or changes what it says.
Forget ==
    /\ Fault
    /\ redis' = [redis EXCEPT !.watermark = 0]
    /\ relay' = [i \in Processes |-> [relay[i] EXCEPT !.clean = FALSE]]

Delete(k) ==
    /\ Fault
    /\ redis' = [redis EXCEPT !.stream = RemoveAt(@, k)]
    /\ relay' = [i \in Processes |-> [relay[i] EXCEPT !.clean = FALSE]]

Falsify(k) ==
    /\ Fault
    /\ redis' = [redis EXCEPT !.stream[k].intact = FALSE]
    /\ relay' = [i \in Processes |-> [relay[i] EXCEPT !.clean = FALSE]]

Damage ==
    \/ redis # Nothing /\ Forget
    \/ \E k \in DOMAIN redis.stream : Delete(k) \/ Falsify(k)

\* The staged stream of a slow process expires.
Expire(i) ==
    /\ Fault
    /\ relay[i].staged # <<>>
    /\ Enter(i, [relay[i] EXCEPT !.staged = <<>>])
    /\ UNCHANGED redis

Stop(i) ==
    /\ Fault
    /\ relay[i].at # "idle"
    /\ Enter(i, Idle)
    /\ UNCHANGED redis

Relaying(i) ==
    \/ Fence(i)
    \/ Prove(i)
    \/ Append1(i)
    \/ Stage(i)
    \/ Swap(i)
    \/ Range1(i)
    \/ Answer(i)

Next ==
    \/ Commit
    \/ \E i \in Processes : Relaying(i) \/ \E op \in Ops : Begin(i, op)
    \/ \E n \in 0 .. redis.watermark : Len(redis.stream) >= n /\ Restart(n)
    \/ Damage
    \/ \E i \in Processes : Expire(i) \/ Stop(i)

Spec == Init /\ [][Next]_vars

\* A call returns, and a consumer asks again.
Fairness ==
    \A i \in Processes : WF_vars(Relaying(i)) /\ WF_vars(Begin(i, "read"))
FairSpec == Spec /\ Fairness

-----------------------------------------------------------------------------
(* Properties.                                                              *)

Whole(r) == r.stream = Relayed(0, r.watermark)

\* Whatever relays and rebuilds interleave, and whatever Redis lost before, a
\* process that writes to the live stream leaves exactly the committed records
\* up to the watermark: nothing twice, nothing left out, nothing uncommitted,
\* and a damaged stream is never extended.
WritesAreWhole ==
    [][redis' # redis /\ faults' = faults => Whole(redis') /\ redis'.watermark <= revision]_vars

\* A consumer that asks after the last revision it got is given every record
\* once and in order, whatever happens to the stream while it reads.
DeliveredOnce == \A i \in Consumers : got[i] = Relayed(0, Len(got[i]))

\* While the stream is not damaged and not rebuilt again and again, every
\* committed record reaches a consumer that keeps asking, whether or not anybody
\* else relays, and however often the transactions are refused.
EveryRecordDelivered ==
    <>[](\A i \in Relayers : relay[i].op # "rebuild") =>
        \A i \in Consumers, n \in Revisions :
            revision >= n ~> (LastGot(i) >= n \/ ~Whole(redis))
=============================================================================
