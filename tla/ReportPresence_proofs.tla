------------------------ MODULE ReportPresence_proofs ------------------------
(***************************************************************************)
(* Whatever peers put, delete and announce, however often the page is      *)
(* reloaded or the socket drops, and wherever a request fails: what        *)
(* objstore-presence.js takes for synced is a version the cloud has held,  *)
(* and its automatic writes replace only what the cloud has held.          *)
(***************************************************************************)
EXTENDS ReportPresence, SequenceTheorems, FiniteSetTheorems, TLAPS

Messages == [type : {"put", "deleted", "snapshot", "answer"}, key : Keys]

Phases == {"start", "ask", "served", "attach", "compare", "write", "save", "saved",
           "upload", "put", "stored", "conflict", "remove", "removed", "kept"}

(* What a baseline may be when P are the rows there have been.             *)
TrueBaselines(P) ==
    {b \in Baselines :
        /\ b.synced <=> b.hash # 0
        /\ b.synced => [version |-> b.version, inc |-> b.inc, content |-> b.hash] \in P}

(* A job that compares or writes has fetched a row of P, and one that has  *)
(* stored its bytes knows the row it made.                                 *)
HonestJobs(P) ==
    {j \in Jobs :
        /\ \/ j.phase \in {"attach", "compare", "write", "save", "saved", "stored"}
           \/ j.phase = "start" /\ j.kind \in {"auto", "recheck"}
           => j.got \in P
        /\ j.phase = "served" => j.got \in P \union {NoRow}
        /\ j.phase = "stored" => j.read = j.got.content
        /\ j.phase = "put" \/ j.kind \in {"put", "replacePut"} => j.read # 0
        /\ j.phase = "start" /\ j.kind \notin {"put", "replacePut"} => j.read = 0
        /\ j.kind = "check" => j.phase = "start"}

(* Only the job that holds the report's lock has started.                  *)
Queues(P) == {q \in Seq(HonestJobs(P)) : \A i \in 2..Len(q) : q[i].phase = "start"}

HonestClients(P) ==
    [inventory : Keys, seen : Keys, remote : Keys, named : BOOLEAN,
     baseline : TrueBaselines(P), saved : TrueBaselines(P), localChanged : BOOLEAN,
     checkDue : BOOLEAN,
     discovery : [phase : {"idle", "ask", "served"}, from : Keys, got : P \union {NoRow}],
     queue : Queues(P), deletedDuringRecheck : BOOLEAN]

Rechecks(P) ==
    [phase : {"no", "list", "ask", "served", "queued", "differs"}, got : P \union {NoRow},
     compared : Keys]

(* The relay has held finitely many rows, each of a report.                *)
RealRows(P) == \A r \in P : r \in Rows /\ r.content # 0
PastIsReal == IsFiniteSet(past) /\ RealRows(past)

(* An answer on the wire is that of the delete that holds the lock.        *)
Answers(q) == {i \in 1..Len(q) : q[i].type = "answer"}
Awaits(c) == c.queue # <<>> /\ Head(c.queue).phase \in {"removed", "kept"}

AnswerAwaited ==
    /\ Answers(held) = {}
    /\ Answers(wire) # {} => Awaits(client) /\ \E i \in 1..Len(wire) : Answers(wire) = {i}

PresenceInv ==
    /\ PastIsReal /\ row \in past \union {NoRow} /\ unannounced \subseteq Keys
    /\ subscription \in {"off", "paused", "open"}
    /\ wire \in Seq(Messages) /\ held \in Seq(Messages)
    /\ disk \in Nat /\ claimed \in BOOLEAN /\ made \in Nat
    /\ session \in {"closed", "boot", "open"}
    /\ client \in HonestClients(past)
    /\ hold \in {"no", "saved", "uploading"} /\ deleting \in {"nothing", "file", "membership"}
    /\ recheck \in Rechecks(past)
    /\ AnswerAwaited

(* Until the first snapshot arrives a session only checks its copy.        *)
BootIsQuiet ==
    /\ session = "closed" => subscription = "off" /\ wire = <<>> /\ client.queue = <<>>
    /\ session # "open" =>
           /\ client.discovery = NoFetch /\ recheck = NoRecheck
           /\ \A i \in 1..Len(client.queue) : client.queue[i].kind = "check"
    /\ session = "boot" =>
           IF wire = <<>> THEN subscription = "paused" ELSE Head(wire).type = "snapshot"

(* No job has started.                                                     *)
Waiting(c) == c.queue = <<>> \/ Head(c.queue).phase = "start"

Automatic == {"replace", "auto", "recheck"}

(* An automatic write under way was compared with a copy the cloud has     *)
(* held, unless the copy has never been reconciled.                        *)
Safe(c, P) ==
    c.queue # <<>> /\ Head(c.queue).phase \in {"write", "save"}
    /\ Head(c.queue).kind \in Automatic
        => Head(c.queue).read \in {0} \union {r.content : r \in P} \/ c.baseline = NoBaseline

WriteInv == BootIsQuiet /\ Safe(client, past)

-----------------------------------------------------------------------------
(* The operators on sequences and clients that every step is made of.      *)

LEMMA JobTypes ==
    ASSUME NEW P, P \subseteq Rows, NEW kind \in {"replace", "auto", "check", "put", "replacePut",
           "delete", "recheck", "resolve", "uploadOver"}
    PROVE  /\ Job(kind) \in Jobs /\ Job(kind).phase = "start" /\ Job(kind).kind = kind
           /\ kind \in {"replace", "check", "delete", "resolve", "uploadOver"} =>
                  Job(kind) \in HonestJobs(P)
BY DEF Job, Jobs, HonestJobs, NoRow, Rows

(* What has been reconciled once stays so while rows are added.            *)
LEMMA Monotone ==
    ASSUME NEW P, NEW Q, P \subseteq Q
    PROVE  /\ TrueBaselines(P) \subseteq TrueBaselines(Q) /\ HonestJobs(P) \subseteq HonestJobs(Q)
           /\ Queues(P) \subseteq Queues(Q) /\ HonestClients(P) \subseteq HonestClients(Q)
           /\ Rechecks(P) \subseteq Rechecks(Q)
<1>1. TrueBaselines(P) \subseteq TrueBaselines(Q) /\ HonestJobs(P) \subseteq HonestJobs(Q)
  BY DEF TrueBaselines, HonestJobs
<1>2. Queues(P) \subseteq Queues(Q)  BY <1>1 DEF Queues
<1>3. Rechecks(P) \subseteq Rechecks(Q)  BY DEF Rechecks
<1>4. HonestClients(P) \subseteq HonestClients(Q)  BY <1>1, <1>2 DEF HonestClients
<1> QED BY <1>1, <1>2, <1>3, <1>4

(* A queue of honest jobs stays one when a job is added, advanced or        *)
(* removed.                                                                 *)
LEMMA QueueOps ==
    ASSUME NEW P, NEW q \in Queues(P), NEW j \in HonestJobs(P)
    PROVE  /\ <<>> \in Queues(P)
           /\ j.phase = "start" => Append(q, j) \in Queues(P)
           /\ q # <<>> => /\ Head(q) \in HonestJobs(P) /\ Tail(q) \in Queues(P)
                          /\ <<j>> \o Tail(q) \in Queues(P)
                          /\ Tail(q) # <<>> => Head(Tail(q)).phase = "start"
<1>1. /\ q \in Seq(HonestJobs(P)) /\ Len(q) \in Nat
      /\ \A i \in 2..Len(q) : q[i].phase = "start"
  BY DEF Queues
<1>2. <<>> \in Queues(P)  BY DEF Queues
<1>3. ASSUME j.phase = "start" PROVE Append(q, j) \in Queues(P)
  <2>1. /\ Append(q, j) \in Seq(HonestJobs(P)) /\ Len(Append(q, j)) = Len(q) + 1
        /\ \A i \in 1..Len(q) : Append(q, j)[i] = q[i]
        /\ Append(q, j)[Len(q) + 1] = j
    BY <1>1, AppendProperties
  <2>2. ASSUME NEW i \in 2..Len(Append(q, j)) PROVE Append(q, j)[i].phase = "start"
    <3>1. CASE i \in 2..Len(q)  BY <1>1, <2>1, <3>1
    <3>2. CASE i = Len(q) + 1  BY <1>3, <2>1, <3>2
    <3> QED BY <1>1, <2>1, <3>1, <3>2
  <2> QED BY <2>1, <2>2 DEF Queues
<1>4. ASSUME q # <<>>
      PROVE  /\ Head(q) \in HonestJobs(P) /\ Tail(q) \in Queues(P)
             /\ <<j>> \o Tail(q) \in Queues(P)
             /\ Tail(q) # <<>> => Head(Tail(q)).phase = "start"
  <2>1. /\ Tail(q) \in Seq(HonestJobs(P)) /\ Len(Tail(q)) = Len(q) - 1
        /\ \A i \in 1..Len(Tail(q)) : Tail(q)[i] = q[i + 1]
    BY <1>1, <1>4, HeadTailProperties
  <2>2. \A i \in 1..Len(Tail(q)) : Tail(q)[i].phase = "start"  BY <1>1, <2>1
  <2>3. Tail(q) \in Queues(P) /\ (Tail(q) # <<>> => Head(Tail(q)).phase = "start")
    <3>1. \A i \in 2..Len(Tail(q)) : Tail(q)[i].phase = "start"  BY <1>1, <2>1, <2>2
    <3>2. Tail(q) \in Queues(P)  BY <2>1, <3>1 DEF Queues
    <3>3. ASSUME Tail(q) # <<>> PROVE Head(Tail(q)).phase = "start"
      <4>1. Len(Tail(q)) \in Nat /\ Len(Tail(q)) # 0 /\ Head(Tail(q)) = Tail(q)[1]
        BY <2>1, <3>3, EmptySeq
      <4>2. 1 \in 1..Len(Tail(q))  BY <4>1
      <4> QED BY <2>2, <4>1, <4>2
    <3> QED BY <3>2, <3>3
  <2>4. <<j>> \o Tail(q) \in Queues(P)
    <3>1. <<j>> \in Seq(HonestJobs(P)) /\ Len(<<j>>) = 1  OBVIOUS
    <3>2. /\ <<j>> \o Tail(q) \in Seq(HonestJobs(P))
          /\ Len(<<j>> \o Tail(q)) = 1 + Len(Tail(q))
          /\ \A i \in 2..Len(<<j>> \o Tail(q)) : (<<j>> \o Tail(q))[i] = Tail(q)[i - 1]
      BY <2>1, <3>1, ConcatProperties
    <3>3. ASSUME NEW i \in 2..Len(<<j>> \o Tail(q)) PROVE (<<j>> \o Tail(q))[i].phase = "start"
      BY <1>1, <2>1, <2>2, <3>2
    <3> QED BY <3>2, <3>3 DEF Queues
  <2> QED BY <1>1, <1>4, <2>3, <2>4
<1> QED BY <1>2, <1>3, <1>4

(* What an event does to a client: jobs may be queued, none starts, and    *)
(* as a rule the baseline stays.                                           *)
QueuesBehind(c, d) ==
    IF c.queue = <<>> THEN d.queue = <<>> \/ Head(d.queue).phase = "start"
                      ELSE d.queue # <<>> /\ Head(d.queue) = Head(c.queue)

Extends(c, d) == d.baseline = c.baseline /\ QueuesBehind(c, d)

(* A job that waits behind the lock leaves an honest client honest. *)
LEMMA EnqueueIsHonest ==
    ASSUME NEW P, NEW c \in HonestClients(P), NEW j \in HonestJobs(P), j.phase = "start"
    PROVE  Enqueue(c, j) \in HonestClients(P) /\ Extends(c, Enqueue(c, j))
<1>1. c.queue \in Queues(P) /\ Append(c.queue, j) \in Queues(P)
  BY QueueOps DEF HonestClients
<1>2. Enqueue(c, j) \in HonestClients(P)  BY <1>1 DEF Enqueue, HonestClients
<1>3. c.queue \in Seq(HonestJobs(P))  BY <1>1 DEF Queues
<1>4. IF c.queue = <<>> THEN Head(Append(c.queue, j)) = j
                        ELSE Head(Append(c.queue, j)) = Head(c.queue)
  BY <1>3
<1>5. Append(c.queue, j) # <<>>  BY <1>3
<1>6. Enqueue(c, j).queue = Append(c.queue, j) /\ Enqueue(c, j).baseline = c.baseline
  BY DEF Enqueue, HonestClients
<1> QED BY <1>2, <1>4, <1>5, <1>6 DEF Extends, QueuesBehind

(* Two functions that only add to the queue only add to it together. *)
LEMMA ExtendsTwice ==
    ASSUME NEW c, NEW d, NEW e, QueuesBehind(c, d), QueuesBehind(d, e)
    PROVE  QueuesBehind(c, e) /\ (Extends(c, d) /\ Extends(d, e) => Extends(c, e))
BY DEF Extends, QueuesBehind

-----------------------------------------------------------------------------
(* What the functions that run without an await leave of a client.         *)

LEMMA NotesAreHonest ==
    ASSUME NEW P, NEW c \in HonestClients(P), NEW key \in Keys
    PROVE  /\ noteRemoteMeta(c, key) \in HonestClients(P) /\ Extends(c, noteRemoteMeta(c, key))
           /\ noteVersion(c, key) \in HonestClients(P) /\ Extends(c, noteVersion(c, key))
           /\ noteVersion(c, key).queue = c.queue
BY DEF noteRemoteMeta, noteVersion, HonestClients, Extends, QueuesBehind

(* The decision about an announced version queues an honest job, or         *)
(* nothing.                                                                 *)
LEMMA CatchUpIsHonest ==
    ASSUME NEW P, P \subseteq Rows, NEW c \in HonestClients(P), NEW attempt \in 0..2
    PROVE  /\ maybeApplyRemoteReplace(c, attempt) \in HonestClients(P)
           /\ Extends(c, maybeApplyRemoteReplace(c, attempt))
           /\ CatchUp(c, attempt) \in HonestClients(P) /\ Extends(c, CatchUp(c, attempt))
<1>1. ReplaceJob(attempt) \in HonestJobs(P) /\ ReplaceJob(attempt).phase = "start"
  BY DEF ReplaceJob, Job, Jobs, HonestJobs, NoRow, Rows
<1>2. Enqueue(c, ReplaceJob(attempt)) \in HonestClients(P)
      /\ Extends(c, Enqueue(c, ReplaceJob(attempt)))
  BY <1>1, EnqueueIsHonest
<1>3. Extends(c, c)  BY DEF Extends, QueuesBehind
<1> QED BY <1>2, <1>3 DEF maybeApplyRemoteReplace, CatchUp

(* Fetching the names of unknown versions leaves an honest client honest. *)
LEMMA NamesAreHonest ==
    ASSUME NEW P, NEW c \in HonestClients(P)
    PROVE  ensureRemoteNames(c) \in HonestClients(P) /\ Extends(c, ensureRemoteNames(c))
<1>1. [phase |-> "ask", from |-> c.remote, got |-> NoRow] \in
          [phase : {"idle", "ask", "served"}, from : Keys, got : P \union {NoRow}]
  BY DEF HonestClients
<1> QED BY <1>1 DEF ensureRemoteNames, HonestClients, Extends, QueuesBehind

(* A broadcast put leaves an honest client honest. *)
LEMMA PutIsHonest ==
    ASSUME NEW P, P \subseteq Rows, NEW c \in HonestClients(P), NEW key \in Keys
    PROVE  onPut(c, key) \in HonestClients(P) /\ Extends(c, onPut(c, key))
<1> DEFINE noted == noteRemoteMeta(c, key)
<1>1. noted \in HonestClients(P) /\ Extends(c, noted)  BY NotesAreHonest
<1>2. \A d \in {maybeApplyRemoteReplace(noted, 0), ensureRemoteNames(noted)} :
          d \in HonestClients(P) /\ Extends(noted, d)
  BY <1>1, CatchUpIsHonest, NamesAreHonest
<1>3. \A d : Extends(noted, d) => Extends(c, d)
  BY <1>1, ExtendsTwice DEF Extends
<1>4. onPut(c, key) \in {maybeApplyRemoteReplace(noted, 0), ensureRemoteNames(noted)}
  BY DEF onPut
<1> QED BY <1>2, <1>3, <1>4

(* A client without a baseline, a fetch or a re-check is honest. *)
LEMMA NoneHonest ==
    ASSUME NEW P
    PROVE  NoBaseline \in TrueBaselines(P) /\ NoKey \in Keys
           /\ NoFetch \in [phase : {"idle", "ask", "served"}, from : Keys, got : P \union {NoRow}]
           /\ NoRecheck \in Rechecks(P)
BY DEF NoBaseline, TrueBaselines, Baselines, NoKey, Keys, NoFetch, NoRecheck, Rechecks

(* A broadcast delete, and forgetting a report, leave an honest client      *)
(* honest.                                                                  *)
LEMMA DeletedIsHonest ==
    ASSUME NEW P, NEW c \in HonestClients(P)
    PROVE  /\ onDeleted(c) \in HonestClients(P) /\ Extends(c, onDeleted(c))
           /\ Forget(c) \in HonestClients(P) /\ Forget(c).queue = c.queue
BY NoneHonest DEF onDeleted, Forget, HonestClients, Extends, QueuesBehind

(* The end of the start-up leaves an honest client honest. *)
LEMMA BootIsHonest ==
    ASSUME NEW P, P \subseteq Rows, NEW c \in HonestClients(P)
    PROVE  finishBoot(c) \in HonestClients(P) /\ QueuesBehind(c, finishBoot(c))
<1> DEFINE baseline == IF c.inventory # NoKey \/ claimed THEN c.saved ELSE NoBaseline
           listed == [c EXCEPT !.remote = c.inventory, !.baseline = baseline, !.saved = baseline,
                               !.named = claimed /\ c.inventory # NoKey]
           swept == CatchUp(ensureRemoteNames(listed), 0)
<1>1. listed \in HonestClients(P) /\ listed.queue = c.queue
  <2>1. baseline \in TrueBaselines(P)  BY NoneHonest DEF HonestClients
  <2>2. (claimed /\ c.inventory # NoKey) \in BOOLEAN  OBVIOUS
  <2> HIDE DEF baseline
  <2> QED BY <2>1, <2>2 DEF HonestClients
<1> HIDE DEF listed
<1>2. ensureRemoteNames(listed) \in HonestClients(P)
      /\ QueuesBehind(listed, ensureRemoteNames(listed))
  BY <1>1, NamesAreHonest DEF Extends
<1>3. swept \in HonestClients(P) /\ QueuesBehind(ensureRemoteNames(listed), swept)
  BY <1>2, CatchUpIsHonest DEF Extends
<1>4. QueuesBehind(c, swept)
  <2>1. QueuesBehind(listed, swept)  BY <1>2, <1>3, ExtendsTwice
  <2> QED BY <1>1, <2>1 DEF QueuesBehind
<1>5. Job("check") \in HonestJobs(P) /\ Job("check").phase = "start"  BY JobTypes
<1>6. Enqueue(swept, Job("check")) \in HonestClients(P)
      /\ QueuesBehind(c, Enqueue(swept, Job("check")))
  BY <1>3, <1>4, <1>5, EnqueueIsHonest, ExtendsTwice DEF Extends
<1>7. finishBoot(c) \in {swept, Enqueue(swept, Job("check"))}  BY DEF finishBoot, listed
<1> QED BY <1>3, <1>4, <1>6, <1>7

(* A subscribe's snapshot leaves an honest client honest. *)
LEMMA SnapshotIsHonest ==
    ASSUME NEW P, P \subseteq Rows, NEW c \in HonestClients(P), NEW key \in Keys
    PROVE  /\ seedInventory(c, key) \in HonestClients(P)
           /\ QueuesBehind(c, seedInventory(c, key))
           /\ session # "boot" => Extends(c, seedInventory(c, key))
<1> DEFINE old == c.inventory
           current == IF key.inc # 0 /\ old.inc = key.inc /\ old.version >= key.version
                        THEN old ELSE key
           seeded == [c EXCEPT !.inventory = current]
           noted == IF current = NoKey THEN seeded ELSE noteVersion(seeded, current)
           blank == [noted EXCEPT !.seen = NoKey]
           gone == IF old = NoKey \/ current.inc = old.inc THEN noted
                   ELSE onDeleted(IF current = NoKey THEN blank ELSE noted)
<1>1. current \in Keys  BY DEF HonestClients
<1> HIDE DEF current
<1>2. seeded \in HonestClients(P) /\ Extends(c, seeded)
  BY <1>1 DEF HonestClients, Extends, QueuesBehind
<1> HIDE DEF seeded
<1>3. noted \in HonestClients(P) /\ Extends(c, noted)
  <2>1. /\ noteVersion(seeded, current) \in HonestClients(P)
        /\ Extends(seeded, noteVersion(seeded, current))
    BY <1>1, <1>2, NotesAreHonest
  <2>2. Extends(c, noteVersion(seeded, current))  BY <1>2, <2>1, ExtendsTwice DEF Extends
  <2> QED BY <1>2, <2>1, <2>2
<1> HIDE DEF noted
<1>4. blank \in HonestClients(P) /\ Extends(c, blank)
  BY <1>3, NoneHonest DEF HonestClients, Extends, QueuesBehind
<1> HIDE DEF blank
<1>5. gone \in HonestClients(P) /\ Extends(c, gone)
  BY <1>3, <1>4, DeletedIsHonest, ExtendsTwice DEF Extends
<1> HIDE DEF gone
<1>6. onPut(gone, current) \in HonestClients(P) /\ Extends(c, onPut(gone, current))
  BY <1>1, <1>5, PutIsHonest, ExtendsTwice DEF Extends
<1>7. finishBoot(noted) \in HonestClients(P) /\ QueuesBehind(c, finishBoot(noted))
  BY <1>3, BootIsHonest, ExtendsTwice DEF Extends
<1>8. /\ session = "boot" => seedInventory(c, key) = finishBoot(noted)
      /\ session # "boot" => seedInventory(c, key) \in {gone, onPut(gone, current)}
  BY DEF seedInventory, gone, blank, noted, seeded, current
<1> QED BY <1>5, <1>6, <1>7, <1>8 DEF Extends

(* A put or delete message leaves an honest client honest. *)
LEMMA MessagesAreHonest ==
    ASSUME NEW P, P \subseteq Rows, NEW c \in HonestClients(P), NEW key \in Keys
    PROVE  /\ onPutMessage(c, key) \in HonestClients(P) /\ Extends(c, onPutMessage(c, key))
           /\ onDeletedMessage(c, key) \in HonestClients(P)
           /\ Extends(c, onDeletedMessage(c, key))
<1>0. Extends(c, c)  BY DEF Extends, QueuesBehind
<1>1. onPutMessage(c, key) \in HonestClients(P) /\ Extends(c, onPutMessage(c, key))
  <2> DEFINE noted == [noteVersion(c, key) EXCEPT !.inventory = key]
  <2>1. noted \in HonestClients(P) /\ Extends(c, noted)
    BY NotesAreHonest DEF HonestClients, Extends, QueuesBehind
  <2> HIDE DEF noted
  <2>2. onPut(noted, key) \in HonestClients(P) /\ Extends(c, onPut(noted, key))
    BY <2>1, PutIsHonest, ExtendsTwice DEF Extends
  <2>3. onPutMessage(c, key) \in {c, onPut(noted, key)}  BY DEF onPutMessage, noted
  <2> QED BY <1>0, <2>2, <2>3
<1>2. onDeletedMessage(c, key) \in HonestClients(P) /\ Extends(c, onDeletedMessage(c, key))
  <2> DEFINE blank == [c EXCEPT !.inventory = NoKey, !.seen = NoKey]
  <2>1. blank \in HonestClients(P) /\ Extends(c, blank)
    BY NoneHonest DEF HonestClients, Extends, QueuesBehind
  <2> HIDE DEF blank
  <2>2. onDeleted(blank) \in HonestClients(P) /\ Extends(c, onDeleted(blank))
    BY <2>1, DeletedIsHonest, ExtendsTwice DEF Extends
  <2>3. onDeletedMessage(c, key) \in {c, onDeleted(blank)}  BY DEF onDeletedMessage, blank
  <2> QED BY <1>0, <2>2, <2>3
<1> QED BY <1>1, <1>2

-----------------------------------------------------------------------------
(* What the steps of a job leave of a client.                              *)

LEMMA JobsAdvance ==
    ASSUME NEW P, NEW c \in HonestClients(P), c.queue # <<>>
    PROVE  /\ Head(c.queue) \in HonestJobs(P) /\ Head(c.queue) \in Jobs
           /\ Left(c) \in HonestClients(P) /\ Waiting(Left(c)) /\ Left(c).baseline = c.baseline
           /\ \A j \in HonestJobs(P) :
                 /\ Step(c, j) \in HonestClients(P) /\ Step(c, j).baseline = c.baseline
                 /\ Step(c, j).queue # <<>> /\ Head(Step(c, j).queue) = j
<1>1. c.queue \in Queues(P)  BY DEF HonestClients
<1>2. Head(c.queue) \in HonestJobs(P) /\ Head(c.queue) \in Jobs
  <2>1. c.queue \in Seq(HonestJobs(P))  BY <1>1 DEF Queues
  <2> QED BY <2>1, HeadTailProperties DEF HonestJobs
<1>3. /\ Tail(c.queue) \in Queues(P)
      /\ Tail(c.queue) # <<>> => Head(Tail(c.queue)).phase = "start"
  BY <1>1, <1>2, QueueOps
<1>4. Left(c) \in HonestClients(P) /\ Waiting(Left(c)) /\ Left(c).baseline = c.baseline
  BY <1>3 DEF Left, HonestClients, Waiting
<1>5. ASSUME NEW j \in HonestJobs(P)
      PROVE  /\ Step(c, j) \in HonestClients(P) /\ Step(c, j).baseline = c.baseline
             /\ Step(c, j).queue # <<>> /\ Head(Step(c, j).queue) = j
  <2>1. <<j>> \o Tail(c.queue) \in Queues(P)  BY <1>1, QueueOps
  <2>2. Tail(c.queue) \in Seq(HonestJobs(P))  BY <1>3 DEF Queues
  <2>3. <<j>> \o Tail(c.queue) # <<>> /\ Head(<<j>> \o Tail(c.queue)) = j
    BY <2>2
  <2>4. Step(c, j).queue = <<j>> \o Tail(c.queue)  BY DEF Step, HonestClients
  <2> QED BY <2>1, <2>3, <2>4 DEF Step, HonestClients
<1> QED BY <1>2, <1>4, <1>5

(* A client that waits for the lock still waits after more jobs came. *)
LEMMA StillWaiting == ASSUME NEW c, NEW d, Waiting(c), QueuesBehind(c, d) PROVE Waiting(d)
BY DEF Waiting, QueuesBehind

(* The end of the job that holds the lock leaves an honest client honest. *)
LEMMA EndedIsHonest ==
    ASSUME NEW P, P \subseteq Rows, NEW c \in HonestClients(P), c.queue # <<>>, NEW job \in Jobs
    PROVE  /\ Ended(c, job) \in HonestClients(P) /\ Waiting(Ended(c, job))
           /\ Ended(c, job).baseline = c.baseline
<1>1. Left(c) \in HonestClients(P) /\ Waiting(Left(c)) /\ Left(c).baseline = c.baseline
  BY JobsAdvance
<1> DEFINE Good(d) == d \in HonestClients(P) /\ Waiting(d) /\ d.baseline = c.baseline
<1>2. ASSUME NEW attempt \in 0..2 PROVE Good(CatchUp(Left(c), attempt))
  BY <1>1, CatchUpIsHonest, StillWaiting DEF Extends
<1>3. Good(Enqueue(Left(c), Job("check")))
  <2>1. Job("check") \in HonestJobs(P) /\ Job("check").phase = "start"  BY JobTypes
  <2> QED BY <1>1, <2>1, EnqueueIsHonest, StillWaiting DEF Extends
<1>4. job.attempt \in 0..2  BY DEF Jobs
<1>5. Ended(c, job) \in {CatchUp(Left(c), a) : a \in 0..2}
                         \union {Enqueue(Left(c), Job("check")), Left(c)}
  BY <1>4 DEF Ended
<1> HIDE DEF Good
<1>6. Good(Left(c))  BY <1>1 DEF Good
<1>7. Good(Ended(c, job))  BY <1>2, <1>3, <1>5, <1>6
<1> QED BY <1>7 DEF Good

(* Recording a baseline that the cloud has held leaves an honest client     *)
(* honest.                                                                  *)
LEMMA RecordIsHonest ==
    ASSUME NEW P, NEW c \in HonestClients(P), NEW key \in Rows, NEW synced \in BOOLEAN,
           NEW hash \in Nat,
           synced => hash # 0 /\ [version |-> key.version, inc |-> key.inc, content |-> hash] \in P
    PROVE  /\ setBaseline(c, key, synced, hash) \in HonestClients(P)
           /\ setBaseline(c, key, synced, hash).queue = c.queue
<1> DEFINE b == [version |-> key.version, inc |-> key.inc, synced |-> synced,
                 hash |-> IF synced THEN hash ELSE 0]
<1>1. b \in TrueBaselines(P)  BY DEF TrueBaselines, Baselines, Rows
<1> HIDE DEF b
<1>2. setBaseline(c, key, synced, hash) =
          [c EXCEPT !.baseline = b, !.saved = b, !.localChanged = FALSE]
  BY DEF setBaseline, b
<1> QED BY <1>1, <1>2, ZenonT(40) DEF HonestClients

(* The row a discovery read leaves an honest client honest. *)
LEMMA DiscoveredIsHonest ==
    ASSUME NEW P, RealRows(P), NEW c \in HonestClients(P), NEW r \in P \union {NoRow}
    PROVE  Discovered(c, r) \in HonestClients(P) /\ Extends(c, Discovered(c, r))
<1> DEFINE rest == [c EXCEPT !.discovery = NoFetch]
           noted == noteVersion(rest, KeyOf(r))
           named == [noted EXCEPT !.named = TRUE]
           job == [Job("auto") EXCEPT !.got = r]
<1>1. r \in Rows /\ KeyOf(r) \in Keys  BY DEF RealRows, NoRow, Rows, KeyOf, Keys
<1>2. rest \in HonestClients(P) /\ Extends(c, rest)
  BY NoneHonest DEF HonestClients, Extends, QueuesBehind
<1> HIDE DEF rest
<1>3. noted \in HonestClients(P) /\ Extends(c, noted)
  BY <1>1, <1>2, NotesAreHonest, ExtendsTwice DEF Extends
<1> HIDE DEF noted
<1>4. ensureRemoteNames(rest) \in HonestClients(P) /\ Extends(c, ensureRemoteNames(rest))
  BY <1>2, NamesAreHonest, ExtendsTwice DEF Extends
<1>5. named \in HonestClients(P) /\ Extends(c, named)
  BY <1>3 DEF HonestClients, Extends, QueuesBehind
<1> HIDE DEF named
<1>6. ASSUME r # NoRow PROVE Enqueue(named, job) \in HonestClients(P)
                             /\ Extends(c, Enqueue(named, job))
  <2>1. job \in HonestJobs(P) /\ job.phase = "start"
    BY <1>1, <1>6 DEF Job, Jobs, HonestJobs
  <2> HIDE DEF job
  <2> QED BY <1>5, <2>1, EnqueueIsHonest, ExtendsTwice DEF Extends
<1>7. /\ r = NoRow => Discovered(c, r) \in {rest, ensureRemoteNames(rest)}
      /\ Discovered(c, r) \in {rest, ensureRemoteNames(rest), noted, Enqueue(named, job)}
  BY DEF Discovered, rest, noted, named
<1> QED BY <1>2, <1>3, <1>4, <1>6, <1>7

(* The other local functions leave an honest client honest. *)
LEMMA RestIsHonest ==
    ASSUME NEW P, NEW c \in HonestClients(P), disk \in Nat
    PROVE  /\ CheckLocalCopy(c) \in HonestClients(P)
           /\ CheckLocalCopy(c).queue = c.queue /\ CheckLocalCopy(c).baseline = c.baseline
           /\ \A on \in BOOLEAN : [c EXCEPT !.checkDue = on] \in HonestClients(P)
           /\ \A on \in BOOLEAN : [c EXCEPT !.localChanged = on] \in HonestClients(P)
           /\ [c EXCEPT !.deletedDuringRecheck = FALSE] \in HonestClients(P)
           /\ NewClient(c.saved) \in HonestClients(P) /\ NewClient(c.saved).queue = <<>>
<1>1. /\ \A on \in BOOLEAN : [c EXCEPT !.checkDue = on] \in HonestClients(P)
      /\ \A on \in BOOLEAN : [c EXCEPT !.localChanged = on] \in HonestClients(P)
      /\ [c EXCEPT !.deletedDuringRecheck = FALSE] \in HonestClients(P)
  BY DEF HonestClients
<1>2. (c.baseline.hash # disk) \in BOOLEAN  OBVIOUS
<1>3. /\ CheckLocalCopy(c) \in HonestClients(P)
      /\ CheckLocalCopy(c).queue = c.queue /\ CheckLocalCopy(c).baseline = c.baseline
  BY <1>1, <1>2 DEF CheckLocalCopy, HonestClients
<1>4. c.queue \in Queues(P) /\ <<>> \in Queues(P)
  BY DEF HonestClients, Queues
<1>5. NewClient(c.saved) \in HonestClients(P) /\ NewClient(c.saved).queue = <<>>
  BY <1>4, NoneHonest DEF NewClient, HonestClients
<1> QED BY <1>1, <1>3, <1>5

-----------------------------------------------------------------------------
(* What a step has to leave for the invariants to hold.                    *)

LEMMA SafeStays ==
    ASSUME NEW c, NEW d, NEW P, NEW Q, P \subseteq Q
    PROVE  /\ Waiting(d) => Safe(d, P)
           /\ Safe(c, P) => Safe(c, Q)
           /\ Safe(c, P) /\ Extends(c, d) => Safe(d, P)
BY DEF Waiting, Safe, Extends, QueuesBehind

(* A lock that is held for more than a check is held in an open session.   *)
LEMMA StartedInSession ==
    ASSUME PresenceInv, WriteInv, client.queue # <<>>,
           Head(client.queue).phase # "start" \/ Head(client.queue).kind # "check"
    PROVE  session = "open"
<1>1. Head(client.queue) \in HonestJobs(past)  BY JobsAdvance DEF PresenceInv
<1>2. Head(client.queue).kind # "check"  BY <1>1 DEF HonestJobs
<1>3. client.queue \in Seq(HonestJobs(past))  BY DEF PresenceInv, HonestClients, Queues
<1>4. 1 \in 1..Len(client.queue) /\ Head(client.queue) = client.queue[1]
  BY <1>3
<1> QED BY <1>2, <1>4 DEF WriteInv, BootIsQuiet

OnlyChecks(c) ==
    /\ c.discovery = NoFetch
    /\ \A i \in 1..Len(c.queue) : c.queue[i].kind = "check"
    /\ session = "closed" => c.queue = <<>>

(* A step of the client alone.                                             *)
LEMMA ClientSteps ==
    ASSUME PresenceInv, WriteInv, UNCHANGED <<relayVars, linkVars, session>>,
           disk' \in Nat, claimed' \in BOOLEAN, made' \in Nat,
           client' \in HonestClients(past), Safe(client', past),
           hold' \in {"no", "saved", "uploading"}, deleting' \in {"nothing", "file", "membership"},
           recheck' \in Rechecks(past),
           Awaits(client) => Awaits(client'),
           session # "open" => OnlyChecks(client') /\ recheck' = NoRecheck
    PROVE  PresenceInv' /\ WriteInv'
<1> USE DEF relayVars, linkVars
<1>1. AnswerAwaited'  BY DEF PresenceInv, AnswerAwaited
<1>2. PastIsReal'  BY DEF PresenceInv, PastIsReal
<1>3. PresenceInv'  BY <1>1, <1>2 DEF PresenceInv
<1>4. BootIsQuiet'  BY DEF WriteInv, BootIsQuiet, OnlyChecks
<1> QED BY <1>3, <1>4 DEF WriteInv

(* Telling the user keeps the types of what the user is doing. *)
LEMMA TellTypes ==
    ASSUME PresenceInv, NEW job \in Jobs, NEW differs \in BOOLEAN, Tell(job, differs)
    PROVE  /\ hold' \in {"no", "saved", "uploading"} /\ deleting' \in {"nothing", "file", "membership"}
           /\ recheck' \in Rechecks(past)
<1>1. KeyOf(job.got) \in Keys  BY DEF Jobs, Rows, KeyOf, Keys
<1>2. /\ NoRecheck \in Rechecks(past)
      /\ [NoRecheck EXCEPT !.phase = "differs", !.compared = KeyOf(job.got)] \in Rechecks(past)
  BY <1>1 DEF NoRecheck, Rechecks, NoKey, Keys
<1> QED BY <1>2 DEF Tell, PresenceInv

(* A step of the job that holds the lock, other than a delete's answer.    *)
LEMMA JobSteps ==
    ASSUME PresenceInv, WriteInv, UNCHANGED <<relayVars, linkVars, session>>,
           disk' \in Nat, claimed' \in BOOLEAN, made' \in Nat,
           client.queue # <<>>, session = "open",
           Head(client.queue).phase \notin {"removed", "kept"},
           client' \in HonestClients(past), Waiting(client') \/ Safe(client', past),
           \/ UNCHANGED userVars
           \/ \E job \in Jobs, differs \in BOOLEAN : Tell(job, differs)
    PROVE  PresenceInv' /\ WriteInv'
<1>1. Safe(client', past)  BY SafeStays
<1>2. /\ hold' \in {"no", "saved", "uploading"} /\ deleting' \in {"nothing", "file", "membership"}
      /\ recheck' \in Rechecks(past)
  BY TellTypes DEF PresenceInv, userVars
<1>3. ~Awaits(client)  BY DEF Awaits
<1> QED BY <1>1, <1>2, <1>3, ClientSteps

(* The job that holds the lock goes on, in another phase.                  *)
LEMMA JobGoesOn ==
    ASSUME NEW P, NEW c \in HonestClients(P), c.queue # <<>>, NEW j \in HonestJobs(P),
           j.phase \in {"write", "save"} /\ j.kind \in Automatic
               => j.read \in {0} \union {r.content : r \in P} \/ c.baseline = NoBaseline
    PROVE  Step(c, j) \in HonestClients(P) /\ Safe(Step(c, j), P)
BY JobsAdvance DEF Safe

-----------------------------------------------------------------------------
(* The jobs, step by step.                                                 *)

LEMMA Holder ==
    ASSUME PresenceInv, WriteInv, NEW phase, Holds(phase)
    PROVE  /\ client \in HonestClients(past) /\ client.queue # <<>>
           /\ past \subseteq Rows /\ RealRows(past) /\ row \in past \union {NoRow} /\ row \in Rows
           /\ Current \in HonestJobs(past) /\ Current \in Jobs /\ Current.phase = phase
           /\ disk \in Nat /\ claimed \in BOOLEAN /\ made \in Nat
           /\ phase # "start" \/ Current.kind # "check" => session = "open"
<1>1. client.queue # <<>> /\ Current.phase = phase  BY DEF Holds
<1>2. client \in HonestClients(past) /\ past \subseteq Rows /\ RealRows(past)
      /\ row \in past \union {NoRow} /\ row \in Rows
  BY DEF PresenceInv, PastIsReal, RealRows, NoRow, Rows
<1>3. Current \in HonestJobs(past) /\ Current \in Jobs  BY <1>1, <1>2, JobsAdvance DEF Current
<1>4. phase # "start" \/ Current.kind # "check" => session = "open"
  BY <1>1, StartedInSession DEF Current
<1> QED BY <1>1, <1>2, <1>3, <1>4 DEF PresenceInv

(* Leaving or ending a job leaves an honest client honest. *)
LEMMA Ends ==
    ASSUME NEW P, P \subseteq Rows, NEW c \in HonestClients(P), NEW d \in HonestClients(P),
           c.queue # <<>>, d.queue = c.queue, NEW job \in Jobs
    PROVE  /\ Left(d) \in HonestClients(P) /\ Waiting(Left(d))
           /\ Ended(d, job) \in HonestClients(P) /\ Waiting(Ended(d, job))
BY JobsAdvance, EndedIsHonest

(* A job taking the lock keeps both invariants. *)
LEMMA StartJobStep ==
    ASSUME PresenceInv, WriteInv, StartJob PROVE PresenceInv' /\ WriteInv'
<1> USE DEF StartJob, relayVars, linkVars, localVars
<1>1. CASE Current.kind = "check"
  <2>1. /\ client \in HonestClients(past) /\ client.queue # <<>> /\ Current \in Jobs
        /\ disk \in Nat /\ past \subseteq Rows
    BY Holder
  <2>2. client' = Left(CheckLocalCopy(client)) /\ Tell(Current, FALSE)
    BY <1>1 DEF Stop
  <2>3. CheckLocalCopy(client) \in HonestClients(past)
        /\ CheckLocalCopy(client).queue = client.queue
    BY <2>1, RestIsHonest
  <2>4. client' \in HonestClients(past) /\ Waiting(client')  BY <2>1, <2>2, <2>3, Ends
  <2>5. CASE session = "open"
    BY <2>1, <2>2, <2>4, <2>5, JobSteps DEF Holds, Current, PresenceInv
  <2>6. CASE session # "open"
    <3>1. client'.queue = Tail(client.queue) /\ client'.discovery = client.discovery
      BY <2>2, <2>3 DEF Left, CheckLocalCopy, HonestClients
    <3>2. client.queue \in Seq(HonestJobs(past))
      BY <2>1 DEF HonestClients, Queues
    <3>3. \A i \in 1..Len(Tail(client.queue)) : /\ Tail(client.queue)[i] = client.queue[i + 1]
                                                /\ i + 1 \in 1..Len(client.queue)
      BY <2>1, <3>2, HeadTailProperties
    <3>4. OnlyChecks(client')
      BY <2>1, <2>6, <3>1, <3>3 DEF OnlyChecks, WriteInv, BootIsQuiet
    <3>5. recheck' = NoRecheck
      BY <1>1, <2>2, <2>6 DEF Tell, WriteInv, BootIsQuiet
    <3>6. /\ hold' \in {"no", "saved", "uploading"} /\ deleting' \in {"nothing", "file", "membership"}
          /\ recheck' \in Rechecks(past)
      BY <2>1, <2>2, TellTypes
    <3>7. Safe(client', past)  BY <2>4, SafeStays
    <3>8. ~Awaits(client)  BY DEF Awaits, Holds, Current
    <3> QED BY <2>4, <3>4, <3>5, <3>6, <3>7, <3>8, ClientSteps DEF PresenceInv
  <2> QED BY <2>5, <2>6
<1>2. CASE Current.kind # "check"
  <2>1. /\ client \in HonestClients(past) /\ client.queue # <<>> /\ session = "open"
        /\ Current \in Jobs /\ Current \in HonestJobs(past) /\ Current.phase = "start"
        /\ past \subseteq Rows
    BY <1>2, Holder
  <2>2. PICK phase \in Phases :
          \/ client' = Left(client) /\ Tell(Current, FALSE)
          \/ /\ client' = Step(client, [Current EXCEPT !.phase = phase]) /\ UNCHANGED userVars
             /\ phase \notin {"stored", "save", "served", "saved"}
             /\ phase \in {"compare", "write", "attach"} => Current.kind \in {"auto", "recheck"}
             /\ phase = "put" => Current.kind \in {"put", "replacePut"}
             /\ phase = "write" => Current.kind = "auto"
    BY <1>2 DEF Stop, To, GoOn, Phases
  <2>3. CASE client' = Left(client) /\ Tell(Current, FALSE)
    <3>1. Left(client) \in HonestClients(past) /\ Waiting(Left(client))  BY <2>1, Ends
    <3> QED BY <2>1, <2>3, <3>1, JobSteps DEF PresenceInv, Current
  <2>4. CASE /\ client' = Step(client, [Current EXCEPT !.phase = phase]) /\ UNCHANGED userVars
             /\ phase \notin {"stored", "save", "served", "saved"}
             /\ phase \in {"compare", "write", "attach"} => Current.kind \in {"auto", "recheck"}
             /\ phase = "put" => Current.kind \in {"put", "replacePut"}
             /\ phase = "write" => Current.kind = "auto"
    <3> DEFINE j == [Current EXCEPT !.phase = phase]
    <3>1. j.phase = phase /\ j.kind = Current.kind /\ j.got = Current.got /\ j.read = Current.read
      BY <2>1 DEF Jobs
    <3>2. j \in Jobs  BY <2>1 DEF Jobs, Phases
    <3> HIDE DEF j
    <3>3. j \in HonestJobs(past)
      BY <1>2, <2>1, <2>4, <3>1, <3>2 DEF HonestJobs
    <3>4. phase = "write" => j.read = 0
      BY <2>1, <2>4, <3>1 DEF HonestJobs
    <3>5. client' \in HonestClients(past) /\ Safe(client', past)
      BY <2>1, <2>4, <3>1, <3>3, <3>4, JobGoesOn DEF j
    <3> QED BY <2>1, <2>4, <3>5, JobSteps DEF PresenceInv, Current
  <2> QED BY <2>2, <2>3, <2>4
<1> QED BY <1>1, <1>2

(* The relay serving a job's fetch keeps both invariants. *)
LEMMA JobServedStep ==
    ASSUME PresenceInv, WriteInv, JobServed PROVE PresenceInv' /\ WriteInv'
<1> USE DEF JobServed, relayVars, linkVars, localVars
<1> DEFINE j == [Current EXCEPT !.phase = "served", !.got = row]
<1>1. /\ client \in HonestClients(past) /\ client.queue # <<>> /\ session = "open"
      /\ Current \in HonestJobs(past) /\ Current \in Jobs /\ Current.phase = "ask"
      /\ row \in past \union {NoRow} /\ row \in Rows
  BY Holder
<1>2. j \in HonestJobs(past) /\ j.phase = "served"  BY <1>1 DEF HonestJobs, Jobs
<1> HIDE DEF j
<1>3. client' \in HonestClients(past) /\ Safe(client', past)
  BY <1>1, <1>2, JobGoesOn DEF j
<1> QED BY <1>1, <1>3, JobSteps DEF PresenceInv, Current

(* The answer to a job's fetch keeps both invariants. *)
LEMMA JobAnsweredStep ==
    ASSUME PresenceInv, WriteInv, JobAnswered PROVE PresenceInv' /\ WriteInv'
<1> USE DEF JobAnswered, relayVars, linkVars, localVars
<1> DEFINE noted == noteVersion(client, KeyOf(Current.got))
           named == [noted EXCEPT !.named = @ \/ Current.kind = "replace"]
           j == [Current EXCEPT !.phase = "compare"]
<1>1. /\ client \in HonestClients(past) /\ client.queue # <<>> /\ session = "open"
      /\ Current \in HonestJobs(past) /\ Current \in Jobs /\ Current.phase = "served"
      /\ past \subseteq Rows
  BY Holder
<1>2. KeyOf(Current.got) \in Keys  BY <1>1 DEF Jobs, Rows, KeyOf, Keys
<1>3. noted \in HonestClients(past) /\ noted.queue = client.queue  BY <1>1, <1>2, NotesAreHonest
<1>4. named \in HonestClients(past) /\ named.queue = client.queue
  <2>1. (noted.named \/ Current.kind = "replace") \in BOOLEAN  BY <1>3 DEF HonestClients
  <2> HIDE DEF noted
  <2> QED BY <1>3, <2>1 DEF HonestClients
<1> HIDE DEF noted, named
<1>5. /\ Left(client) \in HonestClients(past) /\ Waiting(Left(client))
      /\ Left(noted) \in HonestClients(past) /\ Waiting(Left(noted))
  BY <1>1, <1>3, Ends
<1>6. ASSUME Current.got # NoRow
      PROVE  Step(named, j) \in HonestClients(past) /\ Safe(Step(named, j), past)
  <2>1. j \in HonestJobs(past) /\ j.phase = "compare"  BY <1>1, <1>6 DEF HonestJobs, Jobs
  <2> HIDE DEF j
  <2> QED BY <1>1, <1>4, <2>1, JobGoesOn
<1>7. \/ client' \in {Left(client), Left(noted)} /\ Tell(Current, FALSE)
      \/ Current.got # NoRow /\ client' = Step(named, j) /\ UNCHANGED userVars
  BY DEF Stop, GoOn, named, noted
<1> HIDE DEF j
<1>8. /\ client' \in HonestClients(past)
      /\ Waiting(client') \/ Safe(client', past)
      /\ UNCHANGED userVars \/ \E job \in Jobs, differs \in BOOLEAN : Tell(job, differs)
  BY <1>1, <1>5, <1>6, <1>7
<1>9. /\ UNCHANGED <<relayVars, linkVars, session>>
      /\ disk' \in Nat /\ claimed' \in BOOLEAN /\ made' \in Nat
  BY DEF PresenceInv
<1> HIDE DEF JobAnswered, relayVars, linkVars, localVars
<1> QED BY <1>1, <1>8, <1>9, JobSteps DEF Current

(* What a synced baseline is recorded from.                                *)
LEMMA RowIsItsParts ==
    ASSUME NEW P, RealRows(P), NEW r \in P
    PROVE  /\ r \in Rows /\ r.content \in Nat /\ r.content # 0 /\ KeyOf(r) \in Keys
           /\ [version |-> r.version, inc |-> r.inc, content |-> r.content] \in P
BY DEF RealRows, Rows, KeyOf, Keys

(* A row the cloud has held may be recorded, as synced when its bytes are   *)
(* the file's.                                                              *)
LEMMA RowIsRecorded ==
    ASSUME NEW P, RealRows(P), NEW c \in HonestClients(P), NEW r \in P, NEW hash \in Nat
    PROVE  /\ setBaseline(c, r, FALSE, hash) \in HonestClients(P)
           /\ setBaseline(c, r, FALSE, hash).queue = c.queue
           /\ hash = r.content => /\ setBaseline(c, r, TRUE, hash) \in HonestClients(P)
                                  /\ setBaseline(c, r, TRUE, hash).queue = c.queue
<1> DEFINE b(synced) == [version |-> r.version, inc |-> r.inc, synced |-> synced,
                         hash |-> IF synced THEN hash ELSE 0]
           set(synced) == [c EXCEPT !.baseline = b(synced), !.saved = b(synced),
                                    !.localChanged = FALSE]
<1>1. /\ r \in Rows /\ r.content # 0
      /\ [version |-> r.version, inc |-> r.inc, content |-> r.content] \in P
  BY RowIsItsParts
<1>2. b(FALSE) \in TrueBaselines(P) /\ (hash = r.content => b(TRUE) \in TrueBaselines(P))
  BY <1>1 DEF TrueBaselines, Baselines, Rows
<1>3. setBaseline(c, r, FALSE, hash) = set(FALSE) /\ setBaseline(c, r, TRUE, hash) = set(TRUE)
  BY DEF setBaseline
<1> HIDE DEF b
<1> QED BY <1>2, <1>3 DEF HonestClients

(* Attaching the fetched copy keeps both invariants. *)
LEMMA AttachStep ==
    ASSUME PresenceInv, WriteInv, Attach PROVE PresenceInv' /\ WriteInv'
<1> DEFINE set == setBaseline(client, Current.got, disk = Current.got.content, disk)
<1>1. /\ client \in HonestClients(past) /\ client.queue # <<>> /\ session = "open"
      /\ Current \in HonestJobs(past) /\ Current \in Jobs /\ Current.phase = "attach"
      /\ past \subseteq Rows /\ RealRows(past) /\ disk \in Nat
  BY Holder DEF Attach
<1>2. Current.got \in past  BY <1>1 DEF HonestJobs
<1>3. set \in HonestClients(past) /\ set.queue = client.queue
  <2>1. CASE disk = Current.got.content
    <3>1. (disk = Current.got.content) = TRUE  BY <2>1
    <3>2. set = setBaseline(client, Current.got, TRUE, disk)  BY ONLY <3>1, Zenon
    <3> HIDE DEF set
    <3> QED BY <1>1, <1>2, <2>1, <3>2, RowIsRecorded, ZenonT(40)
  <2>2. CASE disk # Current.got.content
    <3>1. (disk = Current.got.content) = FALSE  BY <2>2
    <3>2. set = setBaseline(client, Current.got, FALSE, disk)  BY ONLY <3>1, Zenon
    <3> HIDE DEF set
    <3> QED BY <1>1, <1>2, <2>2, <3>2, RowIsRecorded
  <2> QED BY <2>1, <2>2
<1> HIDE DEF set
<1>4. \A d \in {client, set} : Ended(d, Current) \in HonestClients(past)
                               /\ Waiting(Ended(d, Current))
  BY <1>1, <1>3, Ends
<1>5. /\ client' \in {Ended(client, Current), Ended(set, Current)}
      /\ Tell(Current, FALSE)
      /\ UNCHANGED <<relayVars, linkVars, session>>
      /\ disk' \in Nat /\ claimed' \in BOOLEAN /\ made' \in Nat
  BY DEF Attach, Stop, set, PresenceInv
<1> QED BY <1>1, <1>4, <1>5, JobSteps DEF Current

(* A write that is told by a comparison discards nothing of the user's.    *)
LEMMA ComparedIsSafe ==
    ASSUME NEW P, RealRows(P), NEW b \in TrueBaselines(P), NEW read \in Nat,
           ~keepsLocalCopy(b, read)
    PROVE  read \in {0} \union {r.content : r \in P} \/ b = NoBaseline
<1> SUFFICES ASSUME b # NoBaseline, read # 0 PROVE read \in {r.content : r \in P}
  OBVIOUS
<1>1. b.synced /\ b.hash # 0 /\ ~localChangedSince(b, read)
  BY DEF keepsLocalCopy, TrueBaselines, Baselines
<1>2. b.hash = read  BY <1>1 DEF localChangedSince
<1>3. [version |-> b.version, inc |-> b.inc, content |-> b.hash] \in P
  BY <1>1 DEF TrueBaselines
<1> QED BY <1>2, <1>3

(* Comparing the fetched copy with the file keeps both invariants. *)
LEMMA CompareStep ==
    ASSUME PresenceInv, WriteInv, CompareCopies PROVE PresenceInv' /\ WriteInv'
<1> DEFINE job == [Current EXCEPT !.read = disk]
           changed == [client EXCEPT !.localChanged = @ \/ localChangedSince(client.baseline, job.read)]
<1>1. /\ client \in HonestClients(past) /\ client.queue # <<>> /\ session = "open"
      /\ Current \in HonestJobs(past) /\ Current \in Jobs /\ Current.phase = "compare"
      /\ past \subseteq Rows /\ RealRows(past) /\ disk \in Nat
  BY Holder DEF CompareCopies
<1>2. /\ job \in Jobs /\ job.got \in past /\ job.read = disk /\ disk \in Nat
      /\ job.phase = "compare" /\ job.kind # "check"
  BY <1>1 DEF Jobs, HonestJobs
<1> HIDE DEF job
<1>3. client.baseline \in TrueBaselines(past)  BY <1>1 DEF HonestClients
<1>4. Recorded(job, FALSE) \in HonestClients(past) /\ Recorded(job, FALSE).queue = client.queue
  BY <1>1, <1>2, RowIsRecorded, ZenonT(40) DEF Recorded
<1>5. Same(job) => /\ Recorded(job, TRUE) \in HonestClients(past)
                   /\ Recorded(job, TRUE).queue = client.queue
  BY <1>1, <1>2, RowIsRecorded, ZenonT(40) DEF Recorded, Same
<1>6. changed \in HonestClients(past) /\ changed.queue = client.queue
  <2>1. (client.localChanged \/ localChangedSince(client.baseline, job.read)) \in BOOLEAN
    BY <1>1 DEF HonestClients
  <2> HIDE DEF job
  <2> QED BY <1>1, <2>1 DEF HonestClients
<1> HIDE DEF changed
<1> DEFINE GoesOnIn(phase) == client' = Step(client, [job EXCEPT !.phase = phase]) /\ UNCHANGED userVars
           EndsWith(d) == client' = Ended(d, job) /\ Tell(job, FALSE)
<1>7. \/ EndsWith(client) \/ EndsWith(Recorded(job, FALSE)) \/ EndsWith(changed)
      \/ Same(job) /\ EndsWith(Recorded(job, TRUE))
      \/ client' = Left(Recorded(job, FALSE)) /\ Tell(job, TRUE)
      \/ job.kind \in {"replace", "resolve", "auto", "recheck"} /\ GoesOnIn("upload")
      \/ /\ job.kind \in {"replace", "resolve", "auto", "recheck"} /\ GoesOnIn("write")
         /\ job.kind = "resolve" \/ job.read = 0 \/ ~Keeps(job)
  <2>1. CASE ~StillWanted(client, job)  BY <2>1 DEF CompareCopies, End, Stop, job
  <2>2. CASE job.kind \in {"replace", "resolve"} /\ applyRemoteBytes(job)
    BY <2>2 DEF applyRemoteBytes, End, To, Stop, GoOn
  <2>3. CASE job.kind = "auto" /\ reconcileClaimedCopy(job)
    BY <2>3 DEF reconcileClaimedCopy, End, To, Stop, GoOn, changed
  <2>4. CASE job.kind = "recheck" /\ reconcileRecheckedReport(job)
    BY <2>4 DEF reconcileRecheckedReport, End, To, Stop, GoOn
  <2> QED BY <2>1, <2>2, <2>3, <2>4 DEF CompareCopies, job
<1>8. /\ client' \in HonestClients(past)
      /\ Waiting(client') \/ Safe(client', past)
      /\ UNCHANGED userVars \/ \E it \in Jobs, more \in BOOLEAN : Tell(it, more)
  <2>1. ASSUME NEW d \in HonestClients(past), d.queue = client.queue, EndsWith(d)
        PROVE  client' \in HonestClients(past) /\ Waiting(client')
               /\ \E it \in Jobs, more \in BOOLEAN : Tell(it, more)
    BY <1>1, <1>2, <2>1, Ends
  <2>2. CASE client' = Left(Recorded(job, FALSE)) /\ Tell(job, TRUE)
    BY <1>1, <1>2, <1>4, <2>2, Ends
  <2>3. ASSUME NEW phase \in {"upload", "write"}, GoesOnIn(phase),
               job.kind \in {"replace", "resolve", "auto", "recheck"},
               phase = "write" => job.kind = "resolve" \/ job.read = 0 \/ ~Keeps(job)
        PROVE  client' \in HonestClients(past) /\ Safe(client', past) /\ UNCHANGED userVars
    <3> DEFINE j == [job EXCEPT !.phase = phase]
    <3>1. /\ j \in Jobs /\ j.phase = phase /\ j.got = job.got /\ j.kind = job.kind
          /\ j.read = job.read
      BY <1>2, <2>3 DEF Jobs
    <3> HIDE DEF j
    <3>2. j \in HonestJobs(past)  BY <1>2, <2>3, <3>1 DEF HonestJobs
    <3>3. j.phase \in {"write", "save"} /\ j.kind \in Automatic
            => j.read \in {0} \union {r.content : r \in past} \/ client.baseline = NoBaseline
      BY <1>1, <1>2, <1>3, <2>3, <3>1, ComparedIsSafe DEF Keeps, Automatic
    <3>4. Step(client, j) \in HonestClients(past) /\ Safe(Step(client, j), past)
      BY <1>1, <3>2, <3>3, JobGoesOn
    <3> QED BY <2>3, <3>4 DEF j
  <2> HIDE DEF GoesOnIn, EndsWith
  <2> QED BY <1>1, <1>4, <1>5, <1>6, <1>7, <2>1, <2>2, <2>3
<1>9. /\ UNCHANGED <<relayVars, linkVars, session>>
      /\ disk' \in Nat /\ claimed' \in BOOLEAN /\ made' \in Nat
  BY DEF CompareCopies, localVars, PresenceInv
<1> QED BY <1>1, <1>8, <1>9, JobSteps DEF Current

(* The start of writing the file keeps both invariants. *)
LEMMA BeginSaveStep ==
    ASSUME PresenceInv, WriteInv, BeginSave PROVE PresenceInv' /\ WriteInv'
<1> DEFINE j == [Current EXCEPT !.phase = "save"]
<1>1. /\ client \in HonestClients(past) /\ client.queue # <<>> /\ session = "open"
      /\ Current \in HonestJobs(past) /\ Current \in Jobs /\ Current.phase = "write"
      /\ past \subseteq Rows
  BY Holder DEF BeginSave
<1>2. /\ j \in HonestJobs(past) /\ j.phase = "save" /\ j.kind = Current.kind
      /\ j.read = Current.read
  BY <1>1 DEF Jobs, HonestJobs
<1>3. \/ client' = Step(client, j) /\ UNCHANGED userVars
      \/ client' = Ended(client, Current) /\ Tell(Current, FALSE)
  BY DEF BeginSave, To, GoOn, Stop
<1> HIDE DEF j
<1>4. Step(client, j) \in HonestClients(past) /\ Safe(Step(client, j), past)
  BY <1>1, <1>2, JobGoesOn DEF WriteInv, Safe, Current
<1>5. Ended(client, Current) \in HonestClients(past) /\ Waiting(Ended(client, Current))
  BY <1>1, Ends
<1>6. /\ UNCHANGED <<relayVars, linkVars, session>>
      /\ disk' \in Nat /\ claimed' \in BOOLEAN /\ made' \in Nat
  BY DEF BeginSave, localVars, PresenceInv
<1> QED BY <1>1, <1>3, <1>4, <1>5, <1>6, JobSteps DEF Current

(* The write reaching the disk keeps both invariants. *)
LEMMA SaveLandsStep ==
    ASSUME PresenceInv, WriteInv, SaveLands PROVE PresenceInv' /\ WriteInv'
<1> DEFINE j == [Current EXCEPT !.phase = "saved"]
<1>1. /\ client \in HonestClients(past) /\ client.queue # <<>> /\ session = "open"
      /\ Current \in HonestJobs(past) /\ Current \in Jobs /\ Current.phase = "save"
  BY Holder DEF SaveLands
<1>2. j \in HonestJobs(past) /\ j.phase = "saved"  BY <1>1 DEF Jobs, HonestJobs
<1>3. client' = Step(client, j) /\ UNCHANGED userVars  BY DEF SaveLands, To, GoOn
<1> HIDE DEF j
<1>4. Step(client, j) \in HonestClients(past) /\ Safe(Step(client, j), past)
  BY <1>1, <1>2, JobGoesOn
<1>5. /\ UNCHANGED <<relayVars, linkVars, session>>
      /\ disk' \in Nat /\ claimed' \in BOOLEAN /\ made' \in Nat
  BY <1>1 DEF SaveLands, PresenceInv, Jobs, Rows
<1> QED BY <1>1, <1>3, <1>4, <1>5, JobSteps DEF Current

(* Recording what was written keeps both invariants. *)
LEMMA SaveRecordedStep ==
    ASSUME PresenceInv, WriteInv, SaveRecorded PROVE PresenceInv' /\ WriteInv'
<1> DEFINE recorded == setBaseline(client, Current.got, TRUE, Current.got.content)
<1>1. /\ client \in HonestClients(past) /\ client.queue # <<>> /\ session = "open"
      /\ Current \in HonestJobs(past) /\ Current \in Jobs /\ Current.phase = "saved"
      /\ past \subseteq Rows /\ RealRows(past)
  BY Holder DEF SaveRecorded
<1>2. Current.got \in past  BY <1>1 DEF HonestJobs
<1>3. recorded \in HonestClients(past) /\ recorded.queue = client.queue
  <2>1. Current.got.content \in Nat  BY <1>1, <1>2, RowIsItsParts
  <2> QED BY <1>1, <1>2, <2>1, RowIsRecorded
<1>4. /\ client' \in {Ended(client, Current), Ended(recorded, Current)} /\ Tell(Current, FALSE)
      /\ UNCHANGED <<relayVars, linkVars, session>>
      /\ disk' \in Nat /\ claimed' \in BOOLEAN /\ made' \in Nat
  BY DEF SaveRecorded, Stop, PresenceInv
<1> HIDE DEF recorded
<1>5. client' \in HonestClients(past) /\ Waiting(client')
  BY <1>1, <1>3, <1>4, Ends
<1> QED BY <1>1, <1>4, <1>5, JobSteps DEF Current

(* Reading the file to upload it keeps both invariants. *)
LEMMA ReadForUploadStep ==
    ASSUME PresenceInv, WriteInv, ReadForUpload PROVE PresenceInv' /\ WriteInv'
<1> DEFINE j == [Current EXCEPT !.phase = "put", !.read = disk]
<1>1. /\ client \in HonestClients(past) /\ client.queue # <<>> /\ session = "open"
      /\ Current \in HonestJobs(past) /\ Current \in Jobs /\ Current.phase = "upload"
      /\ past \subseteq Rows /\ disk \in Nat
  BY Holder DEF ReadForUpload
<1>2. Left(client) \in HonestClients(past) /\ Waiting(Left(client))  BY <1>1, Ends
<1>3. ASSUME disk # 0
      PROVE  Step(client, j) \in HonestClients(past) /\ Safe(Step(client, j), past)
  <2>1. j \in HonestJobs(past) /\ j.phase = "put"  BY <1>1, <1>3 DEF Jobs, HonestJobs
  <2> HIDE DEF j
  <2> QED BY <1>1, <2>1, JobGoesOn
<1>4. /\ \/ client' = Left(client) /\ Tell(Current, FALSE)
         \/ disk # 0 /\ client' = Step(client, j) /\ UNCHANGED userVars
      /\ UNCHANGED <<relayVars, linkVars, session>>
      /\ disk' \in Nat /\ claimed' \in BOOLEAN /\ made' \in Nat
  BY DEF ReadForUpload, GoOn, Stop, localVars, PresenceInv
<1> HIDE DEF j
<1> QED BY <1>1, <1>2, <1>3, <1>4, JobSteps DEF Current

(* The answer to an upload keeps both invariants. *)
LEMMA PutAnsweredStep ==
    ASSUME PresenceInv, WriteInv, PutAnswered PROVE PresenceInv' /\ WriteInv'
<1> DEFINE key == KeyOf(Current.got)
           fresh == IF key.version = 1 THEN [client EXCEPT !.seen = NoKey] ELSE client
           noted == noteVersion(fresh, key)
           known == [noted EXCEPT !.inventory = key]
           recorded == recordOwnUpload(known, Current)
           caught == CatchUp(recorded, 0)
<1>1. /\ client \in HonestClients(past) /\ client.queue # <<>> /\ session = "open"
      /\ Current \in HonestJobs(past) /\ Current \in Jobs /\ Current.phase = "stored"
      /\ past \subseteq Rows /\ RealRows(past)
  BY Holder DEF PutAnswered
<1>2. Current.got \in past /\ Current.read = Current.got.content /\ Current.read \in Nat
  BY <1>1 DEF HonestJobs, Jobs
<1>3. key \in Keys  BY <1>1, <1>2, RowIsItsParts
<1> HIDE DEF key
<1>4. fresh \in HonestClients(past) /\ fresh.queue = client.queue
  BY <1>1, NoneHonest DEF HonestClients
<1> HIDE DEF fresh
<1>5. noted \in HonestClients(past) /\ noted.queue = client.queue
  BY <1>3, <1>4, NotesAreHonest
<1> HIDE DEF noted
<1>6. known \in HonestClients(past) /\ known.queue = client.queue
  BY <1>3, <1>5 DEF HonestClients
<1> HIDE DEF known
<1>7. recorded \in HonestClients(past) /\ recorded.queue = client.queue
  BY <1>1, <1>2, <1>6, RowIsRecorded DEF recordOwnUpload
<1> HIDE DEF recorded
<1>8. caught \in HonestClients(past) /\ caught.queue # <<>>
  BY <1>1, <1>7, CatchUpIsHonest DEF Extends, QueuesBehind
<1> HIDE DEF caught
<1>9. \A d \in {recorded, caught} :
          Ended(d, Current) \in HonestClients(past) /\ Waiting(Ended(d, Current))
  BY <1>1, <1>7, <1>8, EndedIsHonest
<1>10. /\ client' \in {Ended(recorded, Current), Ended(caught, Current)} /\ Tell(Current, FALSE)
       /\ UNCHANGED <<relayVars, linkVars, session>>
       /\ disk' \in Nat /\ claimed' \in BOOLEAN /\ made' \in Nat
  BY DEF PutAnswered, Stop, localVars, PresenceInv, caught, recorded, known, noted, fresh, key
<1> QED BY <1>1, <1>9, <1>10, JobSteps DEF Current

(* A job that tries again is a job in the earlier phase, with what it read. *)
LEMMA GoesAgain ==
    ASSUME NEW job \in Jobs, NEW phase \in Phases
    PROVE  LET j == [job EXCEPT !.phase = phase, !.attempt = 1] IN
           j \in Jobs /\ j.phase = phase /\ j.kind = job.kind /\ j.read = job.read /\ j.got = job.got
<1> DEFINE p == [job EXCEPT !.phase = phase]
           j == [p EXCEPT !.attempt = 1]
<1>1. /\ p \in Jobs /\ p.phase = phase /\ p.kind = job.kind /\ p.read = job.read
      /\ p.got = job.got
  BY DEF Jobs, Phases
<1>2. [job EXCEPT !.phase = phase, !.attempt = 1] = j  BY DEF Jobs
<1> HIDE DEF p
<1>3. 1 \in 0..2  OBVIOUS
<1>4. /\ j \in Jobs /\ j.phase = p.phase /\ j.kind = p.kind /\ j.read = p.read
      /\ j.got = p.got
  BY <1>1, <1>3 DEF Jobs
<1> QED BY <1>1, <1>2, <1>4

(* An upload refused as stale keeps both invariants. *)
LEMMA PutRefusedStep ==
    ASSUME PresenceInv, WriteInv, PutRefused PROVE PresenceInv' /\ WriteInv'
<1> DEFINE told == IF Current.got = NoRow THEN client ELSE noteVersion(client, KeyOf(Current.got))
           j == [Current EXCEPT !.phase = "put", !.attempt = 1]
<1>1. /\ client \in HonestClients(past) /\ client.queue # <<>> /\ session = "open"
      /\ Current \in HonestJobs(past) /\ Current \in Jobs /\ Current.phase = "conflict"
      /\ past \subseteq Rows
  BY Holder DEF PutRefused
<1>2. KeyOf(Current.got) \in Keys  BY <1>1 DEF Jobs, Rows, KeyOf, Keys
<1>3. told \in HonestClients(past) /\ told.queue = client.queue  BY <1>1, <1>2, NotesAreHonest
<1>4. Ended(told, Current) \in HonestClients(past) /\ Waiting(Ended(told, Current))
  BY <1>1, <1>3, Ends
<1>5. ASSUME Current.kind \in {"put", "replacePut"}
      PROVE  Step(told, j) \in HonestClients(past) /\ Safe(Step(told, j), past)
  <2>1. /\ j \in Jobs /\ j.phase = "put" /\ j.kind = Current.kind /\ j.read = Current.read
    BY <1>1, GoesAgain DEF Phases
  <2> HIDE DEF j, told
  <2>2. j \in HonestJobs(past)  BY <1>1, <1>5, <2>1 DEF HonestJobs
  <2> QED BY <1>1, <1>3, <2>1, <2>2, JobGoesOn
<1>6. /\ \/ Current.kind \in {"put", "replacePut"} /\ client' = Step(told, j) /\ UNCHANGED userVars
         \/ client' = Ended(told, Current) /\ Tell(Current, FALSE)
      /\ UNCHANGED <<relayVars, linkVars, session>>
      /\ disk' \in Nat /\ claimed' \in BOOLEAN /\ made' \in Nat
  BY DEF PutRefused, GoOn, Stop, localVars, PresenceInv
<1> HIDE DEF j, told
<1> QED BY <1>1, <1>4, <1>5, <1>6, JobSteps DEF Current

-----------------------------------------------------------------------------
(* The relay, and what it tells the client.                                *)

LEMMA AnswersOfBoth ==
    ASSUME NEW q \in Seq(Messages), NEW r \in Seq(Messages)
    PROVE  /\ q \o r \in Seq(Messages)
           /\ Answers(q \o r) = Answers(q) \union {Len(q) + i : i \in Answers(r)}
           /\ q = <<>> => q \o r = r
           /\ r = <<>> => q \o r = q
           /\ q # <<>> => q \o r # <<>> /\ Head(q \o r) = Head(q)
<1>1. /\ q \o r \in Seq(Messages) /\ Len(q \o r) = Len(q) + Len(r)
      /\ Len(q) \in Nat /\ Len(r) \in Nat
      /\ \A i \in 1..Len(q) : (q \o r)[i] = q[i]
      /\ \A i \in 1..Len(r) : (q \o r)[Len(q) + i] = r[i]
  <2>1. \A i \in 1..Len(q) + Len(r) : (q \o r)[i] = IF i <= Len(q) THEN q[i] ELSE r[i - Len(q)]
    BY ConcatProperties
  <2>2. ASSUME NEW i \in 1..Len(r) PROVE (q \o r)[Len(q) + i] = r[i]
    <3>1. Len(q) \in Nat /\ Len(r) \in Nat /\ Len(q) + i \in 1..Len(q) + Len(r)
          /\ ~(Len(q) + i <= Len(q)) /\ Len(q) + i - Len(q) = i
      OBVIOUS
    <3> QED BY <2>1, <3>1
  <2> QED BY <2>1, <2>2, ConcatProperties
<1>2. ASSUME NEW n \in Nat
      PROVE  n \in Answers(q \o r) <=> n \in Answers(q) \/ \E i \in Answers(r) : n = Len(q) + i
  <2>1. CASE n \in 1..Len(q)  BY <1>1, <2>1 DEF Answers
  <2>2. CASE n > Len(q)
    <3>1. n - Len(q) \in Nat /\ n = Len(q) + (n - Len(q))  BY <1>1, <2>2
    <3>2. n \in 1..Len(q \o r) <=> n - Len(q) \in 1..Len(r)  BY <1>1, <2>2
    <3>3. n \in Answers(q \o r) <=> n - Len(q) \in Answers(r)
      BY <1>1, <3>1, <3>2 DEF Answers
    <3>4. \A i \in Answers(r) : n = Len(q) + i => i = n - Len(q)  BY <1>1 DEF Answers
    <3>5. n \notin Answers(q)  BY <1>1, <2>2 DEF Answers
    <3> QED BY <3>1, <3>3, <3>4, <3>5
  <2>3. CASE n = 0  BY <1>1, <2>3 DEF Answers
  <2> QED BY <1>1, <2>1, <2>2, <2>3
<1>3. /\ Answers(q \o r) \subseteq Nat /\ Answers(q) \subseteq Nat
      /\ \A i \in Answers(r) : Len(q) + i \in Nat
  BY <1>1 DEF Answers
<1>4. Answers(q \o r) = Answers(q) \union {Len(q) + i : i \in Answers(r)}  BY <1>2, <1>3
<1>5. q = <<>> => q \o r = r  OBVIOUS
<1>6. r = <<>> => q \o r = q  OBVIOUS
<1>7. q # <<>> => q \o r # <<>> /\ Head(q \o r) = Head(q)  BY <1>1
<1> QED BY <1>1, <1>4, <1>5, <1>6, <1>7

(* Receiving a message moves the answers behind it one place up. *)
LEMMA AnswersOfTail ==
    ASSUME NEW q \in Seq(Messages), q # <<>>
    PROVE  /\ Head(q) \in Messages /\ Tail(q) \in Seq(Messages)
           /\ \A i \in Answers(Tail(q)) : i + 1 \in Answers(q) /\ i + 1 # 1
           /\ Head(q).type = "answer" <=> 1 \in Answers(q)
           /\ Head(q).type # "answer" =>
                  \A i \in Nat : Answers(q) = {i} => Answers(Tail(q)) = {i - 1}
<1>1. /\ Head(q) \in Messages /\ Head(q) = q[1] /\ Tail(q) \in Seq(Messages)
      /\ Len(Tail(q)) = Len(q) - 1 /\ Len(q) \in Nat /\ Len(q) # 0
      /\ \A i \in 1..Len(Tail(q)) : Tail(q)[i] = q[i + 1]
  BY HeadTailProperties, EmptySeq
<1>2. \A i \in 1..Len(Tail(q)) : i + 1 \in 1..Len(q) /\ i + 1 # 1  BY <1>1
<1>3. \A i \in Answers(Tail(q)) : i + 1 \in Answers(q) /\ i + 1 # 1  BY <1>1, <1>2 DEF Answers
<1>4. Head(q).type = "answer" <=> 1 \in Answers(q)  BY <1>1 DEF Answers
<1>5. ASSUME Head(q).type # "answer", NEW i \in Nat, Answers(q) = {i}
      PROVE  Answers(Tail(q)) = {i - 1}
  <2>1. i \in 1..Len(q) /\ q[i].type = "answer" /\ i # 1  BY <1>4, <1>5 DEF Answers
  <2>2. i - 1 \in 1..Len(Tail(q)) /\ i - 1 + 1 = i  BY <1>1, <2>1
  <2>3. i - 1 \in Answers(Tail(q))  BY <1>1, <2>1, <2>2 DEF Answers
  <2>4. ASSUME NEW n \in Answers(Tail(q)) PROVE n = i - 1
    <3>1. n \in Nat /\ n + 1 = i  BY <1>1, <1>3, <1>5 DEF Answers
    <3> QED BY <3>1
  <2> QED BY <2>3, <2>4
<1> QED BY <1>1, <1>3, <1>4, <1>5

(* The messages that a step of the relay leaves, other than an answer.     *)
LinkStays ==
    /\ wire' \in Seq(Messages) /\ held' \in Seq(Messages)
    /\ Answers(wire') = Answers(wire) /\ Answers(held') = {}
    /\ subscription' = subscription
    /\ session = "closed" => wire' = <<>>
    /\ session = "boot" =>
           IF wire' = <<>> THEN subscription = "paused" ELSE Head(wire').type = "snapshot"

(* A step that leaves the link leaves what is awaited on it. *)
LEMMA LinkUnchanged ==
    ASSUME PresenceInv, WriteInv, UNCHANGED linkVars PROVE LinkStays
BY DEF PresenceInv, WriteInv, AnswerAwaited, BootIsQuiet, LinkStays, linkVars

(* A broadcast leaves what is awaited on the link. *)
LEMMA BroadcastLeaves ==
    ASSUME PresenceInv, WriteInv, NEW b \in Seq(Messages), Answers(b) = {}, Deliver(<<>>, b)
    PROVE  LinkStays
<1>1. wire \in Seq(Messages) /\ held \in Seq(Messages) /\ Answers(held) = {}
  BY DEF PresenceInv, AnswerAwaited
<1>2. <<>> \in Seq(Messages) /\ Answers(<<>>) = {} /\ wire \o <<>> = wire
  BY <1>1 DEF Answers
<1>3. subscription' = subscription /\ wire' \in {wire, wire \o b} /\ held' \in {held, held \o b}
      /\ (subscription # "open" => wire' = wire)
  BY <1>2 DEF Deliver
<1>4. Answers(wire \o b) = Answers(wire) /\ Answers(held \o b) = Answers(held)
      /\ wire \o b \in Seq(Messages) /\ held \o b \in Seq(Messages)
      /\ (wire # <<>> => wire \o b # <<>> /\ Head(wire \o b) = Head(wire))
  BY <1>1, AnswersOfBoth
<1>5. /\ session = "closed" => subscription = "off" /\ wire = <<>>
      /\ session = "boot" =>
             IF wire = <<>> THEN subscription = "paused" ELSE Head(wire).type = "snapshot"
  BY DEF WriteInv, BootIsQuiet
<1> QED BY <1>1, <1>3, <1>4, <1>5 DEF LinkStays

(* Broadcasts are messages and no answers; the answer to a delete is one. *)
LEMMA Broadcasts ==
    ASSUME NEW key \in Keys
    PROVE  /\ Put(key) \in Seq(Messages) /\ Answers(Put(key)) = {}
           /\ Deleted(key) \in Seq(Messages) /\ Answers(Deleted(key)) = {}
           /\ <<>> \in Seq(Messages) /\ Answers(<<>>) = {}
           /\ Answer \in Seq(Messages) /\ Answers(Answer) = {1} /\ Len(Answer) = 1
BY NoneHonest DEF Put, Deleted, Answer, Messages, Answers

(* A commit adds its row to what the cloud has held and broadcasts it. *)
LEMMA CommitLeaves ==
    ASSUME PresenceInv, WriteInv, NEW content \in Nat, content # 0, Commit(content)
    PROVE  /\ past \subseteq past' /\ PastIsReal' /\ row' \in past' /\ row' = Stored(content)
           /\ row'.content = content /\ unannounced' \subseteq Keys /\ LinkStays
<1>1. IsFiniteSet(past) /\ RealRows(past) /\ row \in Rows
  BY DEF PresenceInv, PastIsReal, RealRows, NoRow, Rows
<1>2. Cardinality(Incarnations) \in Nat
  <2> DEFINE f == [r \in past |-> r.inc]
  <2>1. f \in Surjection(past, Incarnations)  BY DEF Surjection, Incarnations
  <2>2. IsFiniteSet(Incarnations)  BY <1>1, <2>1, FS_Surjection
  <2> QED BY <2>2, FS_CardinalityType
<1>3. Stored(content) \in Rows /\ Stored(content).content = content
  BY <1>1, <1>2 DEF Stored, Rows
<1>4. KeyOf(Stored(content)) \in Keys  BY <1>3 DEF Rows, KeyOf, Keys
<1>5. past' = past \union {Stored(content)} /\ row' = Stored(content)  BY DEF Commit
<1>6. PastIsReal'
  <2>1. IsFiniteSet(past')  BY <1>1, <1>5, FS_AddElement
  <2> QED BY <1>1, <1>3, <1>5, <2>1 DEF PastIsReal, RealRows
<1>7. unannounced' \subseteq Keys  BY <1>4 DEF Commit, PresenceInv
<1>8. LinkStays
  <2>1. CASE UNCHANGED linkVars  BY <2>1, LinkUnchanged
  <2>2. CASE Deliver(<<>>, Put(KeyOf(Stored(content))))
    BY <1>4, <2>2, Broadcasts, BroadcastLeaves
  <2> QED BY <2>1, <2>2 DEF Commit
<1> QED BY <1>3, <1>5, <1>6, <1>7, <1>8

(* A step of the relay, and of the job whose request it carries out.       *)
LEMMA RelaySteps ==
    ASSUME PresenceInv, WriteInv, past \subseteq past', PastIsReal', row' \in past' \union {NoRow},
           unannounced' \subseteq Keys, LinkStays, session' = session,
           disk' \in Nat, claimed' \in BOOLEAN, made' \in Nat, UNCHANGED userVars,
           client' \in HonestClients(past'), Safe(client', past'),
           session # "open" => client' = client, Awaits(client) => Awaits(client')
    PROVE  PresenceInv' /\ WriteInv'
<1> USE DEF userVars
<1>1. AnswerAwaited'  BY DEF PresenceInv, AnswerAwaited, LinkStays, Answers
<1>2. recheck' \in Rechecks(past')
  <2>1. \A P, Q : P \subseteq Q => Rechecks(P) \subseteq Rechecks(Q)  BY Monotone
  <2> QED BY <2>1 DEF PresenceInv
<1>3. PresenceInv'  BY <1>1, <1>2 DEF PresenceInv, LinkStays
<1>4. BootIsQuiet'  BY DEF WriteInv, BootIsQuiet, LinkStays
<1> QED BY <1>3, <1>4 DEF WriteInv

(* A client that is honest stays so when the cloud has held more. *)
LEMMA ClientGrows ==
    ASSUME PresenceInv, WriteInv, past \subseteq past', UNCHANGED client
    PROVE  client' \in HonestClients(past') /\ Safe(client', past')
<1>1. \A P, Q : P \subseteq Q => HonestClients(P) \subseteq HonestClients(Q)  BY Monotone
<1>2. client \in HonestClients(past')  BY <1>1 DEF PresenceInv
<1>3. \A c, P, Q : P \subseteq Q /\ Safe(c, P) => Safe(c, Q)  BY SafeStays
<1>4. Safe(client, past')  BY <1>3 DEF WriteInv
<1> QED BY <1>2, <1>4

(* A late broadcast keeps both invariants. *)
LEMMA AnnounceStep ==
    ASSUME PresenceInv, WriteInv, NEW key \in unannounced, Announce(key)
    PROVE  PresenceInv' /\ WriteInv'
<1>1. key \in Keys  BY DEF PresenceInv
<1>2. LinkStays  BY <1>1, Broadcasts, BroadcastLeaves DEF Announce
<1>3. /\ UNCHANGED <<row, past, localVars, session, client, userVars>>
      /\ unannounced' \subseteq Keys
  BY DEF Announce, PresenceInv
<1>4. PastIsReal' /\ row' \in past' \union {NoRow} /\ past \subseteq past'
  BY <1>3 DEF PresenceInv, PastIsReal
<1>5. client' \in HonestClients(past') /\ Safe(client', past')  BY <1>3, <1>4, ClientGrows
<1> QED BY <1>2, <1>3, <1>4, <1>5, RelaySteps DEF localVars, PresenceInv

(* A peer's upload keeps both invariants. *)
LEMMA PeerPutStep ==
    ASSUME PresenceInv, WriteInv, PeerPut PROVE PresenceInv' /\ WriteInv'
<1>1. PICK content \in {made + 1} \union {r.content : r \in past} :
          Commit(content) /\ made' = IF content > made THEN content ELSE made
  BY DEF PeerPut
<1>2. content \in Nat /\ content # 0 /\ made' \in Nat
  BY <1>1 DEF PresenceInv, PastIsReal, RealRows, Rows
<1>3. /\ past \subseteq past' /\ PastIsReal' /\ row' \in past'
      /\ unannounced' \subseteq Keys /\ LinkStays
  BY <1>1, <1>2, CommitLeaves
<1>4. UNCHANGED <<disk, claimed, session, client, userVars>>  BY DEF PeerPut
<1>5. client' \in HonestClients(past') /\ Safe(client', past')  BY <1>3, <1>4, ClientGrows
<1> QED BY <1>2, <1>3, <1>4, <1>5, RelaySteps DEF PresenceInv

(* A peer's delete keeps both invariants. *)
LEMMA PeerDeleteStep ==
    ASSUME PresenceInv, WriteInv, PeerDelete PROVE PresenceInv' /\ WriteInv'
<1>1. KeyOf(row) \in Keys
  BY DEF PresenceInv, PastIsReal, RealRows, NoRow, Rows, KeyOf, Keys
<1>2. LinkStays  BY <1>1, Broadcasts, BroadcastLeaves DEF PeerDelete
<1>3. UNCHANGED <<past, unannounced, localVars, session, client, userVars>> /\ row' = NoRow
  BY DEF PeerDelete
<1>4. PastIsReal' /\ row' \in past' \union {NoRow} /\ past \subseteq past'
  BY <1>3 DEF PresenceInv, PastIsReal
<1>5. client' \in HonestClients(past') /\ Safe(client', past')  BY <1>3, <1>4, ClientGrows
<1> QED BY <1>2, <1>3, <1>4, <1>5, RelaySteps DEF localVars, PresenceInv

(* An upload reaching the relay keeps both invariants. *)
LEMMA PutArrivesStep ==
    ASSUME PresenceInv, WriteInv, PutArrives PROVE PresenceInv' /\ WriteInv'
<1> DEFINE met == Precondition(Current) = KeyOf(row)
           kept == [Current EXCEPT !.phase = "stored", !.got = Stored(Current.read)]
           refused == [Current EXCEPT !.phase = "conflict", !.got = row]
<1>1. /\ client \in HonestClients(past) /\ client.queue # <<>> /\ session = "open"
      /\ Current \in HonestJobs(past) /\ Current \in Jobs /\ Current.phase = "put"
      /\ past \subseteq Rows /\ row \in past \union {NoRow} /\ row \in Rows
  BY Holder DEF PutArrives
<1>2. Current.read \in Nat /\ Current.read # 0  BY <1>1 DEF Jobs, HonestJobs
<1>3. /\ UNCHANGED <<localVars, session, userVars>> /\ ~Awaits(client)
  BY <1>1 DEF PutArrives, GoOn, Awaits, Current
<1>4. ASSUME met PROVE PresenceInv' /\ WriteInv'
  <2>1. Commit(Current.read) /\ client' = Step(client, kept)
    BY <1>4 DEF PutArrives, GoOn
  <2>2. /\ past \subseteq past' /\ PastIsReal' /\ row' \in past' /\ row' = Stored(Current.read)
        /\ row'.content = Current.read /\ unannounced' \subseteq Keys /\ LinkStays
    BY <1>2, <2>1, CommitLeaves
  <2>3. Stored(Current.read) \in past' /\ Stored(Current.read).content = Current.read
        /\ past' \subseteq Rows
    BY <2>2 DEF PastIsReal, RealRows
  <2>4. /\ kept \in Jobs /\ kept.phase = "stored" /\ kept.got = Stored(Current.read)
        /\ kept.read = Current.read /\ kept.kind = Current.kind
    BY <1>1, <2>3 DEF Jobs
  <2> HIDE DEF kept, met
  <2>5. kept \in HonestJobs(past')  BY <1>1, <1>2, <2>3, <2>4 DEF HonestJobs
  <2>6. client \in HonestClients(past')
    <3>1. \A P, Q : P \subseteq Q => HonestClients(P) \subseteq HonestClients(Q)  BY Monotone
    <3> QED BY <1>1, <2>2, <3>1
  <2>7. Step(client, kept) \in HonestClients(past') /\ Safe(Step(client, kept), past')
    BY <1>1, <2>4, <2>5, <2>6, JobGoesOn
  <2> QED BY <1>1, <1>3, <2>1, <2>2, <2>7, RelaySteps DEF localVars, PresenceInv
<1>5. ASSUME ~met PROVE PresenceInv' /\ WriteInv'
  <2>1. UNCHANGED <<relayVars, linkVars>> /\ client' = Step(client, refused)
    BY <1>5 DEF PutArrives, GoOn
  <2>2. /\ refused \in Jobs /\ refused.phase = "conflict" /\ refused.read = Current.read
        /\ refused.kind = Current.kind
    BY <1>1 DEF Jobs
  <2> HIDE DEF refused, met
  <2>3. refused \in HonestJobs(past)  BY <1>1, <1>2, <2>2 DEF HonestJobs
  <2>4. Step(client, refused) \in HonestClients(past) /\ Safe(Step(client, refused), past)
    BY <1>1, <2>2, <2>3, JobGoesOn
  <2> QED BY <1>1, <1>3, <2>1, <2>4, JobSteps DEF localVars, PresenceInv, Current
<1> QED BY <1>4, <1>5

(* A step after which the session is open.                                 *)
LEMMA OpenSteps ==
    ASSUME PresenceInv, WriteInv, session' = "open", UNCHANGED past, row' \in past \union {NoRow},
           unannounced' \subseteq Keys, subscription' \in {"off", "paused", "open"},
           wire' \in Seq(Messages), held' \in Seq(Messages), Answers(held') = {},
           Answers(wire') # {} => Awaits(client') /\ \E i \in Nat : Answers(wire') = {i},
           UNCHANGED localVars, client' \in HonestClients(past), Safe(client', past),
           hold' \in {"no", "saved", "uploading"}, deleting' \in {"nothing", "file", "membership"},
           recheck' \in Rechecks(past)
    PROVE  PresenceInv' /\ WriteInv'
<1>1. AnswerAwaited'  BY DEF AnswerAwaited, Answers
<1>2. PresenceInv'  BY <1>1 DEF PresenceInv, PastIsReal, localVars
<1>3. BootIsQuiet'  BY DEF BootIsQuiet
<1> QED BY <1>2, <1>3 DEF WriteInv

(* A delete reaching the relay keeps both invariants. *)
LEMMA DeleteArrivesStep ==
    ASSUME PresenceInv, WriteInv, DeleteArrives PROVE PresenceInv' /\ WriteInv'
<1> DEFINE met == KeyOf(Current.got) = KeyOf(row)
           phase == IF met THEN "removed" ELSE "kept"
           j == [Current EXCEPT !.phase = phase, !.got = row]
           told == IF met /\ row # NoRow THEN Deleted(KeyOf(row)) ELSE <<>>
           heard == IF subscription = "open" THEN told ELSE <<>>
<1>1. /\ client \in HonestClients(past) /\ client.queue # <<>> /\ session = "open"
      /\ Current \in HonestJobs(past) /\ Current \in Jobs /\ Current.phase = "remove"
      /\ row \in past \union {NoRow} /\ row \in Rows
  BY Holder DEF DeleteArrives
<1>2. /\ client' = Step(client, j) /\ UNCHANGED userVars /\ row' \in {row, NoRow}
      /\ UNCHANGED <<past, unannounced, localVars, session, subscription>>
      /\ wire' = wire \o Answer \o heard /\ held' \in {held, held \o told}
  BY DEF DeleteArrives, GoOn, Deliver
<1>3. phase \in {"removed", "kept"}  OBVIOUS
<1> HIDE DEF phase
<1>4. /\ j \in Jobs /\ j.phase = phase /\ j.kind = Current.kind /\ j.read = Current.read
      /\ j.got \in past \union {NoRow}
  BY <1>1, <1>3 DEF Jobs
<1> HIDE DEF j
<1>5. j \in HonestJobs(past)  BY <1>1, <1>3, <1>4 DEF HonestJobs
<1>6. Step(client, j) \in HonestClients(past) /\ Safe(Step(client, j), past)
  BY <1>1, <1>3, <1>4, <1>5, JobGoesOn
<1>7. Awaits(client')
  <2>1. Step(client, j).queue # <<>> /\ Head(Step(client, j).queue) = j
    BY <1>1, <1>5, JobsAdvance
  <2> QED BY <1>2, <1>3, <1>4, <2>1 DEF Awaits
<1>8. /\ told \in Seq(Messages) /\ Answers(told) = {}
      /\ heard \in Seq(Messages) /\ Answers(heard) = {}
  <2>1. KeyOf(row) \in Keys  BY <1>1 DEF Rows, KeyOf, Keys
  <2> QED BY <2>1, Broadcasts
<1> HIDE DEF told, heard
<1>9. wire \in Seq(Messages) /\ held \in Seq(Messages) /\ Answers(wire) = {} /\ Answers(held) = {}
  BY <1>1 DEF PresenceInv, AnswerAwaited, Awaits, Current
<1>10. /\ wire \o Answer \in Seq(Messages) /\ Len(wire) + 1 \in Nat
       /\ Answers(wire \o Answer) = {Len(wire) + 1}
  <2>1. Answer \in Seq(Messages) /\ Answers(Answer) = {1}  BY NoneHonest, Broadcasts
  <2>2. /\ wire \o Answer \in Seq(Messages)
        /\ Answers(wire \o Answer) = Answers(wire) \union {Len(wire) + i : i \in Answers(Answer)}
    BY <1>9, <2>1, AnswersOfBoth
  <2>3. Len(wire) + 1 \in Nat  BY <1>9
  <2> QED BY <1>9, <2>1, <2>2, <2>3
<1>11. wire' \in Seq(Messages) /\ Answers(wire') = {Len(wire) + 1}
  BY <1>2, <1>8, <1>10, AnswersOfBoth
<1>12. held' \in Seq(Messages) /\ Answers(held') = {}
  <2>1. /\ held \o told \in Seq(Messages)
        /\ Answers(held \o told) = Answers(held) \union {Len(held) + i : i \in Answers(told)}
    BY <1>8, <1>9, AnswersOfBoth
  <2> QED BY <1>2, <1>8, <1>9, <2>1
<1>13. /\ subscription' \in {"off", "paused", "open"} /\ unannounced' \subseteq Keys
       /\ hold' \in {"no", "saved", "uploading"} /\ deleting' \in {"nothing", "file", "membership"}
       /\ recheck' \in Rechecks(past) /\ row' \in past \union {NoRow}
  BY <1>1, <1>2 DEF PresenceInv, userVars
<1> QED BY <1>1, <1>2, <1>6, <1>7, <1>10, <1>11, <1>12, <1>13, OpenSteps

(* The answer to a delete keeps both invariants. *)
LEMMA DeleteAnsweredStep ==
    ASSUME PresenceInv, WriteInv, DeleteAnswered PROVE PresenceInv' /\ WriteInv'
<1> DEFINE told == IF Current.got = NoRow THEN client ELSE noteVersion(client, KeyOf(Current.got))
           j == [Current EXCEPT !.phase = "remove", !.attempt = 1]
<1>1. wire \in Seq(Messages) /\ wire # <<>> /\ 1 \in Answers(wire)
      /\ Tail(wire) \in Seq(Messages)
      /\ \A i \in Answers(Tail(wire)) : i + 1 \in Answers(wire) /\ i + 1 # 1
  BY AnswersOfTail DEF DeleteAnswered, PresenceInv
<1>2. Awaits(client) /\ Answers(Tail(wire)) = {}
  BY <1>1 DEF PresenceInv, AnswerAwaited
<1>3. Holds(Current.phase) /\ Current.phase \in {"removed", "kept"}
  BY <1>2 DEF Awaits, Holds, Current
<1>4. /\ client \in HonestClients(past) /\ client.queue # <<>> /\ session = "open"
      /\ Current \in HonestJobs(past) /\ Current \in Jobs /\ past \subseteq Rows
      /\ row \in past \union {NoRow}
  BY <1>3, Holder
<1>5. KeyOf(Current.got) \in Keys  BY <1>4 DEF Jobs, Rows, KeyOf, Keys
<1>6. told \in HonestClients(past) /\ told.queue = client.queue  BY <1>4, <1>5, NotesAreHonest
<1>7. Forget(client) \in HonestClients(past) /\ Forget(client).queue = client.queue
  BY <1>4, DeletedIsHonest
<1>8. /\ Left(told) \in HonestClients(past) /\ Waiting(Left(told))
      /\ Left(Forget(client)) \in HonestClients(past) /\ Waiting(Left(Forget(client)))
  BY <1>4, <1>6, <1>7, Ends
<1>9. Step(told, j) \in HonestClients(past) /\ Safe(Step(told, j), past)
  <2>1. /\ j \in Jobs /\ j.phase = "remove" /\ j.kind = Current.kind /\ j.read = Current.read
    BY <1>4, GoesAgain DEF Phases
  <2> HIDE DEF j, told
  <2>2. j \in HonestJobs(past)  BY <1>3, <1>4, <2>1 DEF HonestJobs
  <2> QED BY <1>4, <1>6, <2>1, <2>2, JobGoesOn
<1>10. /\ \/ client' \in {Left(told), Left(Forget(client))} /\ Tell(Current, FALSE)
          \/ client' = Step(told, j) /\ UNCHANGED userVars
       /\ UNCHANGED <<row, past, unannounced, subscription, held, localVars, session>>
       /\ wire' = Tail(wire)
  BY DEF DeleteAnswered, GoOn, Stop, relayVars
<1> HIDE DEF j, told
<1>11. client' \in HonestClients(past) /\ Safe(client', past)
  BY <1>8, <1>9, <1>10, SafeStays
<1>12. /\ hold' \in {"no", "saved", "uploading"} /\ deleting' \in {"nothing", "file", "membership"}
       /\ recheck' \in Rechecks(past)
  BY <1>4, <1>10, TellTypes DEF PresenceInv, userVars
<1>13. /\ subscription' \in {"off", "paused", "open"} /\ unannounced' \subseteq Keys
       /\ held' \in Seq(Messages) /\ Answers(held') = {} /\ row' \in past \union {NoRow}
  BY <1>4, <1>10 DEF PresenceInv, AnswerAwaited
<1> QED BY <1>1, <1>2, <1>4, <1>10, <1>11, <1>12, <1>13, OpenSteps

(* A message received keeps both invariants. *)
LEMMA ReceiveStep ==
    ASSUME PresenceInv, WriteInv, ReceiveMessage PROVE PresenceInv' /\ WriteInv'
<1> DEFINE m == Head(wire)
<1>1. /\ wire \in Seq(Messages) /\ wire # <<>> /\ m \in Messages /\ m.type # "answer"
      /\ Tail(wire) \in Seq(Messages)
      /\ \A i \in Answers(Tail(wire)) : i + 1 \in Answers(wire) /\ i + 1 # 1
      /\ \A i \in Nat : Answers(wire) = {i} => Answers(Tail(wire)) = {i - 1}
  BY AnswersOfTail DEF ReceiveMessage, PresenceInv
<1>2. m.key \in Keys /\ m.type \in {"put", "deleted", "snapshot"}  BY <1>1 DEF Messages
<1>3. /\ client \in HonestClients(past) /\ past \subseteq Rows /\ row \in past \union {NoRow}
      /\ Safe(client, past)
  BY DEF PresenceInv, WriteInv, PastIsReal, RealRows
<1>4. session = "boot" => m.type = "snapshot"
  BY <1>1 DEF WriteInv, BootIsQuiet
<1>5. session' = "open"
  BY <1>4 DEF ReceiveMessage, PresenceInv
<1> HIDE DEF m
<1>6. client' \in {onPutMessage(client, m.key), onDeletedMessage(client, m.key),
                   seedInventory(client, m.key)}
      /\ (session = "boot" => client' = seedInventory(client, m.key))
  BY <1>2, <1>4 DEF ReceiveMessage, m
<1>7. /\ client' \in HonestClients(past) /\ QueuesBehind(client, client')
      /\ session # "boot" => Extends(client, client')
  BY <1>2, <1>3, <1>6, MessagesAreHonest, SnapshotIsHonest DEF Extends
<1>8. Safe(client', past)
  <2>1. CASE session # "boot"  BY <1>3, <1>7, <2>1, SafeStays
  <2>2. CASE session = "boot" /\ client.queue = <<>>
    BY <1>7, <2>2, SafeStays DEF QueuesBehind, Waiting
  <2>3. CASE session = "boot" /\ client.queue # <<>>
    <3>1. Head(client.queue).kind = "check"
      BY <2>3, StartedInSession
    <3> QED BY <1>7, <2>3, <3>1 DEF QueuesBehind, Safe, Automatic
  <2> QED BY <2>1, <2>2, <2>3
<1>9. Answers(wire') # {} => Awaits(client') /\ \E i \in Nat : Answers(wire') = {i}
  <2> SUFFICES ASSUME Answers(Tail(wire)) # {}
               PROVE  Awaits(client') /\ \E i \in Nat : Answers(Tail(wire)) = {i}
    BY DEF ReceiveMessage
  <2>1. Answers(wire) # {}  BY <1>1
  <2>2. Awaits(client)  BY <2>1 DEF PresenceInv, AnswerAwaited
  <2>3. PICK i \in Nat : Answers(wire) = {i}  BY <2>1 DEF PresenceInv, AnswerAwaited
  <2>4. Answers(Tail(wire)) = {i - 1}  BY <1>1, <2>3
  <2>5. i - 1 \in Nat  BY <2>4 DEF Answers
  <2>6. Awaits(client')  BY <1>7, <2>2 DEF Awaits, QueuesBehind
  <2> QED BY <2>4, <2>5, <2>6
<1>10. /\ UNCHANGED <<row, past, unannounced, subscription, held, localVars, hold, deleting>>
       /\ wire' = Tail(wire)
       /\ recheck' \in {recheck, NoRecheck, [recheck EXCEPT !.phase = "ask"]}
  BY DEF ReceiveMessage, relayVars
<1>11. /\ recheck' \in Rechecks(past) /\ hold' \in {"no", "saved", "uploading"}
       /\ deleting' \in {"nothing", "file", "membership"} /\ row' \in past \union {NoRow} /\ unannounced' \subseteq Keys
       /\ subscription' \in {"off", "paused", "open"}
       /\ held' \in Seq(Messages) /\ Answers(held') = {}
  <2>1. [recheck EXCEPT !.phase = "ask"] \in Rechecks(past)  BY DEF PresenceInv, Rechecks
  <2> QED BY <1>10, <2>1, NoneHonest DEF PresenceInv, AnswerAwaited
<1> QED BY <1>1, <1>5, <1>7, <1>8, <1>9, <1>10, <1>11, OpenSteps

-----------------------------------------------------------------------------
(* The subscription, the user and the failures.                            *)

LEMMA SendSnapshotStep ==
    ASSUME PresenceInv, WriteInv, SendSnapshot PROVE PresenceInv' /\ WriteInv'
<1> DEFINE m == [type |-> "snapshot", key |-> KeyOf(row)]
           sent == wire \o <<m>>
<1>1. /\ wire \in Seq(Messages) /\ held \in Seq(Messages) /\ Answers(held) = {}
      /\ row \in past \union {NoRow} /\ row \in Rows /\ session # "closed"
  BY DEF PresenceInv, PastIsReal, RealRows, NoRow, Rows, AnswerAwaited, WriteInv, BootIsQuiet,
         SendSnapshot
<1>2. m \in Messages /\ m.type = "snapshot"  BY <1>1 DEF Messages, Rows, KeyOf, Keys
<1> HIDE DEF m
<1>3. <<m>> \in Seq(Messages) /\ Answers(<<m>>) = {} /\ Head(<<m>>) = m /\ <<m>> # <<>>
  BY <1>2 DEF Answers
<1>4. /\ sent \in Seq(Messages) /\ Answers(sent) = Answers(wire) /\ sent # <<>>
      /\ Head(sent) = IF wire = <<>> THEN m ELSE Head(wire)
  <2>1. Answers(sent) = Answers(wire) \union {Len(wire) + i : i \in Answers(<<m>>)}
    BY <1>1, <1>3, AnswersOfBoth
  <2>2. Answers(sent) = Answers(wire)  BY <1>3, <2>1
  <2> QED BY <1>1, <1>3, <2>2, AnswersOfBoth
<1>5. wire' = sent \o held /\ held' = <<>> /\ subscription' = "open"
  BY <1>1 DEF SendSnapshot, m
<1> HIDE DEF sent
<1>6. /\ wire' \in Seq(Messages) /\ Answers(wire') = Answers(wire) /\ wire' # <<>>
      /\ Head(wire') = Head(sent)
  <2>1. Answers(sent \o held) = Answers(sent) \union {Len(sent) + i : i \in Answers(held)}
    BY <1>1, <1>4, AnswersOfBoth
  <2>2. Answers(sent \o held) = Answers(wire)  BY <1>1, <1>4, <2>1
  <2> QED BY <1>1, <1>4, <1>5, <2>2, AnswersOfBoth
<1>7. UNCHANGED <<row, past, unannounced, disk, claimed, made, session, client, hold, deleting, recheck>>
  BY DEF SendSnapshot, relayVars, localVars, userVars
<1>8. AnswerAwaited'
  <2>1. held' = <<>> /\ Answers(<<>>) = {}  BY <1>5 DEF Answers
  <2> QED BY <1>6, <1>7, <2>1 DEF PresenceInv, AnswerAwaited, Answers
<1>9. held' \in Seq(Messages)  BY <1>5
<1>10. PresenceInv'  BY <1>5, <1>6, <1>7, <1>8, <1>9 DEF PresenceInv, PastIsReal
<1>11. BootIsQuiet'
  BY <1>1, <1>2, <1>4, <1>6, <1>7 DEF WriteInv, BootIsQuiet
<1> QED BY <1>7, <1>10, <1>11 DEF WriteInv

(* A step that queues jobs or notes something, and tells the user nothing. *)
LEMMA QueuingSteps ==
    ASSUME PresenceInv, WriteInv, UNCHANGED <<relayVars, linkVars, session>>,
           disk' \in Nat, claimed' \in BOOLEAN, made' \in Nat,
           client' \in HonestClients(past), Extends(client, client'),
           hold' \in {"no", "saved", "uploading"}, deleting' \in {"nothing", "file", "membership"},
           recheck' \in Rechecks(past),
           session # "open" => OnlyChecks(client') /\ recheck' = NoRecheck
    PROVE  PresenceInv' /\ WriteInv'
<1>1. Safe(client', past)  BY SafeStays DEF WriteInv
<1>2. Awaits(client) => Awaits(client')  BY DEF Extends, QueuesBehind, Awaits
<1> QED BY <1>1, <1>2, ClientSteps

(* What a changed file sets off leaves an honest client honest. *)
LEMMA NoticedIsHonest ==
    ASSUME PresenceInv, WriteInv, NEW announced \in BOOLEAN
    PROVE  /\ Noticed(announced) \in HonestClients(past) /\ Extends(client, Noticed(announced))
           /\ session # "open" => OnlyChecks(Noticed(announced)) /\ recheck = NoRecheck
<1>1. client \in HonestClients(past) /\ disk \in Nat  BY DEF PresenceInv
<1>2. /\ Noticed(announced) \in HonestClients(past)
      /\ Noticed(announced).queue = client.queue
      /\ Noticed(announced).baseline = client.baseline
      /\ Noticed(announced).discovery = client.discovery
  BY <1>1 DEF Noticed, HonestClients
<1> QED BY <1>2 DEF Extends, QueuesBehind, OnlyChecks, WriteInv, BootIsQuiet

(* The user's saves keep both invariants. *)
LEMMA SavingSteps ==
    ASSUME PresenceInv, WriteInv, SaveLocally \/ ReplaceSaves PROVE PresenceInv' /\ WriteInv'
<1>1. PICK announced \in BOOLEAN : client' = Noticed(announced)
  BY DEF SaveLocally, ReplaceSaves, Save
<1>2. made + 1 \in Nat /\ made \in Nat  BY DEF PresenceInv
<1>3. /\ UNCHANGED <<relayVars, linkVars, session, deleting, recheck>>
      /\ hold' \in {hold, "saved"} /\ disk' = made + 1 /\ made' = made + 1
      /\ claimed' \in BOOLEAN
  BY DEF SaveLocally, ReplaceSaves, Save, userVars, PresenceInv
<1>4. /\ hold' \in {"no", "saved", "uploading"} /\ deleting' \in {"nothing", "file", "membership"}
      /\ recheck' \in Rechecks(past)
  BY <1>3 DEF PresenceInv
<1> QED BY <1>1, <1>2, <1>3, <1>4, NoticedIsHonest, QueuingSteps

(* What the user asks for queues on the lock of an open session.           *)
LEMMA AskingSteps ==
    ASSUME PresenceInv, WriteInv, session = "open",
           UNCHANGED <<relayVars, linkVars, localVars, session>>,
           NEW job \in HonestJobs(past), job.phase = "start", client' = Enqueue(client, job),
           hold' \in {"no", "saved", "uploading"}, deleting' \in {"nothing", "file", "membership"},
           recheck' \in Rechecks(past)
    PROVE  PresenceInv' /\ WriteInv'
<1>1. client' \in HonestClients(past) /\ Extends(client, client')
  BY EnqueueIsHonest DEF PresenceInv
<1>2. disk' \in Nat /\ claimed' \in BOOLEAN /\ made' \in Nat  BY DEF PresenceInv, localVars
<1> QED BY <1>1, <1>2, QueuingSteps

(* The user's uploads and deletes keep both invariants. *)
LEMMA UserSteps ==
    ASSUME PresenceInv, WriteInv, ReplaceUploads \/ Upload \/ Delete
    PROVE  PresenceInv' /\ WriteInv'
<1>1. past \subseteq Rows /\ disk \in Nat  BY DEF PresenceInv, PastIsReal, RealRows
<1>2. /\ session = "open" /\ UNCHANGED <<relayVars, linkVars, localVars, session>>
      /\ hold' \in {"no", "saved", "uploading"} /\ deleting' \in {"nothing", "file", "membership"}
      /\ recheck' \in Rechecks(past)
  BY DEF ReplaceUploads, Upload, Delete, userVars, PresenceInv
<1>3. CASE ReplaceUploads \/ Upload
  <2>1. PICK kind \in {"put", "replacePut"} : client' = Enqueue(client, PutJob(disk, kind))
    BY <1>3 DEF ReplaceUploads, Upload
  <2>2. disk # 0  BY <1>3 DEF ReplaceUploads, Upload
  <2>3. PutJob(disk, kind) \in HonestJobs(past) /\ PutJob(disk, kind).phase = "start"
    BY <1>1, <2>2 DEF PutJob, Job, Jobs, HonestJobs, NoRow, Rows
  <2> QED BY <1>2, <2>1, <2>3, AskingSteps
<1>4. CASE Delete
  <2>1. client' = Enqueue(client, Job("delete"))  BY <1>4 DEF Delete
  <2>2. Job("delete") \in HonestJobs(past) /\ Job("delete").phase = "start"
    BY <1>1, JobTypes
  <2> QED BY <1>2, <2>1, <2>2, AskingSteps
<1> QED BY <1>3, <1>4

(* The user's choice between two copies keeps both invariants. *)
LEMMA ResolveStep ==
    ASSUME PresenceInv, WriteInv, Resolve PROVE PresenceInv' /\ WriteInv'
<1> DEFINE job(kind) == [Job(kind) EXCEPT !.got = [version |-> recheck.compared.version,
                                                   inc |-> recheck.compared.inc, content |-> 0]]
<1>1. PICK kind \in {"resolve", "uploadOver"} : client' = Enqueue(client, job(kind))
  BY DEF Resolve
<1>2. job(kind) \in HonestJobs(past) /\ job(kind).phase = "start"
  <2>1. recheck.compared \in Keys  BY DEF PresenceInv, Rechecks
  <2>2. [version |-> recheck.compared.version, inc |-> recheck.compared.inc, content |-> 0] \in Rows
    BY <2>1 DEF Keys, Rows
  <2> QED BY <2>2 DEF Job, Jobs, HonestJobs
<1> HIDE DEF job
<1>3. /\ session = "open" /\ UNCHANGED <<relayVars, linkVars, localVars, session>>
      /\ hold' \in {"no", "saved", "uploading"} /\ deleting' \in {"nothing", "file", "membership"}
      /\ recheck' \in Rechecks(past)
  BY NoneHonest DEF Resolve, PresenceInv
<1> QED BY <1>1, <1>2, <1>3, AskingSteps

(* Deleting the local copy keeps both invariants. *)
LEMMA DeleteLocallyStep ==
    ASSUME PresenceInv, WriteInv, DeleteLocally PROVE PresenceInv' /\ WriteInv'
<1>1. client \in HonestClients(past) /\ disk \in Nat  BY DEF PresenceInv
<1>2. /\ client' \in HonestClients(past) /\ client'.queue = client.queue
      /\ client'.baseline = client.baseline /\ client'.discovery = client.discovery
  BY <1>1 DEF DeleteLocally, HonestClients
<1>3. /\ UNCHANGED <<relayVars, linkVars, session, hold, recheck>>
      /\ disk' \in Nat /\ claimed' \in BOOLEAN /\ made' \in Nat /\ deleting' \in {"nothing", "file", "membership"}
  BY DEF DeleteLocally, PresenceInv
<1>4. session # "open" => OnlyChecks(client') /\ recheck' = NoRecheck
  BY <1>2, <1>3 DEF WriteInv, BootIsQuiet, OnlyChecks
<1>5. Extends(client, client')  BY <1>2 DEF Extends, QueuesBehind
<1> QED BY <1>2, <1>3, <1>4, <1>5, QueuingSteps DEF PresenceInv

(* Leaving the workspace, or the delete, keeps both invariants. *)
LEMMA DeleteEndsStep ==
    ASSUME PresenceInv, WriteInv, LeaveWorkspace \/ Navigate PROVE PresenceInv' /\ WriteInv'
<1>1. /\ UNCHANGED <<relayVars, linkVars, session, client, hold, recheck>>
      /\ disk' \in Nat /\ claimed' \in BOOLEAN /\ made' \in Nat
      /\ deleting' \in {"nothing", "file", "membership"}
  BY DEF LeaveWorkspace, Navigate, localVars, PresenceInv
<1>2. session # "open" => OnlyChecks(client') /\ recheck' = NoRecheck
  BY <1>1 DEF WriteInv, BootIsQuiet, OnlyChecks
<1>3. Extends(client, client')  BY <1>1 DEF Extends, QueuesBehind
<1> QED BY <1>1, <1>2, <1>3, QueuingSteps DEF PresenceInv

(* A due check of the local copy keeps both invariants. *)
LEMMA CheckComesDueStep ==
    ASSUME PresenceInv, WriteInv, CheckComesDue PROVE PresenceInv' /\ WriteInv'
<1> DEFINE c == [client EXCEPT !.checkDue = FALSE]
<1>1. client \in HonestClients(past) /\ disk \in Nat /\ past \subseteq Rows
  BY DEF PresenceInv, PastIsReal, RealRows
<1>2. /\ c \in HonestClients(past) /\ c.queue = client.queue
      /\ c.baseline = client.baseline /\ c.discovery = client.discovery
  BY <1>1 DEF HonestClients
<1>3. client' = Enqueue(c, Job("check"))  BY DEF CheckComesDue
<1> HIDE DEF c
<1>4. /\ Job("check") \in HonestJobs(past) /\ Job("check").phase = "start"
      /\ Job("check").kind = "check"
  BY <1>1, JobTypes
<1>5. client' \in HonestClients(past) /\ Extends(client, client')
  BY <1>2, <1>3, <1>4, EnqueueIsHonest DEF Extends, QueuesBehind
<1>6. ASSUME session # "open" PROVE OnlyChecks(client') /\ recheck = NoRecheck
  <2>1. client'.queue = Append(client.queue, Job("check"))
        /\ client'.discovery = client.discovery
    BY <1>2, <1>3 DEF Enqueue, HonestClients
  <2>2. client.queue \in Seq(HonestJobs(past))  BY <1>1 DEF HonestClients, Queues
  <2>3. \A i \in 1..Len(client'.queue) : client'.queue[i].kind = "check"
    BY <1>4, <1>6, <2>1, <2>2, AppendProperties DEF WriteInv, BootIsQuiet
  <2> QED BY <1>6, <2>1, <2>3 DEF OnlyChecks, WriteInv, BootIsQuiet, CheckComesDue
<1>7. /\ UNCHANGED <<relayVars, linkVars, session, hold, deleting, recheck>>
      /\ disk' \in Nat /\ claimed' \in BOOLEAN /\ made' \in Nat
  BY DEF CheckComesDue, localVars, userVars, PresenceInv
<1> QED BY <1>5, <1>6, <1>7, QueuingSteps DEF PresenceInv

(* Both steps of a discovery keep both invariants. *)
LEMMA DiscoverySteps ==
    ASSUME PresenceInv, WriteInv, DiscoveryServed \/ DiscoveryAnswered
    PROVE  PresenceInv' /\ WriteInv'
<1>1. client \in HonestClients(past) /\ RealRows(past) /\ row \in past \union {NoRow}
  BY DEF PresenceInv, PastIsReal
<1>2. session = "open"
  BY DEF WriteInv, BootIsQuiet, NoFetch, DiscoveryServed, DiscoveryAnswered
<1>3. client' \in HonestClients(past) /\ Extends(client, client')
  <2>1. CASE DiscoveryServed
    <3>1. [client.discovery EXCEPT !.phase = "served", !.got = row] \in
              [phase : {"idle", "ask", "served"}, from : Keys, got : past \union {NoRow}]
      BY <1>1 DEF HonestClients
    <3> QED BY <1>1, <2>1, <3>1 DEF DiscoveryServed, HonestClients, Extends, QueuesBehind
  <2>2. CASE DiscoveryAnswered
    <3>1. client.discovery.got \in past \union {NoRow}  BY <1>1 DEF HonestClients
    <3> QED BY <1>1, <2>2, <3>1, DiscoveredIsHonest DEF DiscoveryAnswered
  <2> QED BY <2>1, <2>2
<1>4. /\ UNCHANGED <<relayVars, linkVars, session, hold, deleting, recheck>>
      /\ disk' \in Nat /\ claimed' \in BOOLEAN /\ made' \in Nat
  BY DEF DiscoveryServed, DiscoveryAnswered, localVars, userVars, PresenceInv
<1> QED BY <1>2, <1>3, <1>4, QueuingSteps DEF PresenceInv

(* The steps of a re-check's fetch keep both invariants. *)
LEMMA RecheckSteps ==
    ASSUME PresenceInv, WriteInv, RecheckServed \/ RecheckAnswered
    PROVE  PresenceInv' /\ WriteInv'
<1>1. /\ client \in HonestClients(past) /\ past \subseteq Rows /\ row \in past \union {NoRow}
      /\ recheck \in Rechecks(past)
  BY DEF PresenceInv, PastIsReal, RealRows
<1>2. session = "open"
  BY DEF WriteInv, BootIsQuiet, NoRecheck, RecheckServed, RecheckAnswered
<1>3. client' \in HonestClients(past) /\ Extends(client, client') /\ recheck' \in Rechecks(past)
  <2>1. CASE RecheckServed
    <3>1. recheck' \in Rechecks(past)  BY <1>1, <2>1 DEF RecheckServed, Rechecks
    <3> QED BY <1>1, <2>1, <3>1 DEF RecheckServed, Extends, QueuesBehind
  <2>2. CASE RecheckAnswered /\ UNCHANGED client /\ recheck' = NoRecheck
    BY <1>1, <2>2, NoneHonest DEF Extends, QueuesBehind
  <2>3. CASE recheck' = NoRecheck /\ RecoverReport
    <3>1. PutJob(disk, "put") \in HonestJobs(past) /\ PutJob(disk, "put").phase = "start"
      BY <1>1, <2>3 DEF RecoverReport, PresenceInv, PutJob, Job, Jobs, HonestJobs, NoRow, Rows
    <3> QED BY <1>1, <2>3, <3>1, NoneHonest, EnqueueIsHonest DEF RecoverReport
  <2>4. CASE /\ recheck.got # NoRow /\ recheck' = NoRecheck
             /\ client' = noteVersion(client, KeyOf(recheck.got))
    <3>1. recheck.got \in past /\ recheck.got \in Rows  BY <1>1, <2>4 DEF Rechecks
    <3>2. KeyOf(recheck.got) \in Keys  BY <3>1 DEF Rows, KeyOf, Keys
    <3> QED BY <1>1, <2>4, <3>2, NotesAreHonest, NoneHonest
  <2>5. CASE RecheckAnswered /\ recheck.got # NoRow /\ recheck' = [recheck EXCEPT !.phase = "queued"]
             /\ client' = Enqueue(noteVersion(client, KeyOf(recheck.got)),
                                  [Job("recheck") EXCEPT !.got = recheck.got])
    <3>1. recheck' \in Rechecks(past)  BY <1>1, <2>5 DEF Rechecks
    <3>2. recheck.got \in past /\ recheck.got \in Rows  BY <1>1, <2>5 DEF Rechecks
    <3>3. KeyOf(recheck.got) \in Keys  BY <3>2 DEF Rows, KeyOf, Keys
    <3>4. /\ noteVersion(client, KeyOf(recheck.got)) \in HonestClients(past)
          /\ Extends(client, noteVersion(client, KeyOf(recheck.got)))
      BY <1>1, <3>3, NotesAreHonest
    <3> DEFINE job == [Job("recheck") EXCEPT !.got = recheck.got]
    <3>5. job \in HonestJobs(past) /\ job.phase = "start"
      BY <3>2 DEF Job, Jobs, HonestJobs
    <3> HIDE DEF job
    <3>6. /\ Enqueue(noteVersion(client, KeyOf(recheck.got)), job) \in HonestClients(past)
          /\ Extends(client, Enqueue(noteVersion(client, KeyOf(recheck.got)), job))
      BY <3>4, <3>5, EnqueueIsHonest, ExtendsTwice DEF Extends
    <3> QED BY <2>5, <3>1, <3>6 DEF job
  <2> QED BY <2>1, <2>2, <2>3, <2>4, <2>5 DEF RecheckAnswered
<1>4. /\ UNCHANGED <<relayVars, linkVars, session, hold, deleting>>
      /\ disk' \in Nat /\ claimed' \in BOOLEAN /\ made' \in Nat
  BY DEF RecheckServed, RecheckAnswered, localVars, PresenceInv
<1> QED BY <1>2, <1>3, <1>4, QueuingSteps DEF PresenceInv

(* A re-check that falls back on the cached listing keeps both invariants. *)
LEMMA ListCachedStep ==
    ASSUME PresenceInv, WriteInv, ListCached PROVE PresenceInv' /\ WriteInv'
<1>1. recheck' \in Rechecks(past)
  BY NoneHonest DEF ListCached, PresenceInv, Rechecks
<1>2. session = "open"
  BY DEF WriteInv, BootIsQuiet, NoRecheck, ListCached
<1>3. /\ UNCHANGED <<relayVars, linkVars, session, client, hold, deleting>>
      /\ disk' \in Nat /\ claimed' \in BOOLEAN /\ made' \in Nat
  BY DEF ListCached, localVars, PresenceInv
<1>4. Extends(client, client')  BY <1>3 DEF Extends, QueuesBehind
<1> QED BY <1>1, <1>2, <1>3, <1>4, QueuingSteps DEF PresenceInv

(* The start of a re-check keeps both invariants. *)
LEMMA RecheckBeginsStep ==
    ASSUME PresenceInv, WriteInv, RecheckBegins PROVE PresenceInv' /\ WriteInv'
<1>1. client \in HonestClients(past)  BY DEF PresenceInv
<1>2. client' \in HonestClients(past) /\ client'.queue = client.queue /\ client'.baseline = client.baseline
  BY <1>1 DEF RecheckBegins, HonestClients
<1>3. Safe(client', past)  BY <1>2 DEF Safe, WriteInv
<1>4. recheck' \in Rechecks(past)
  BY DEF RecheckBegins, Rechecks, NoRecheck, NoKey, Keys
<1>5. Answers(wire) # {} => Awaits(client') /\ \E i \in Nat : Answers(wire) = {i}
  <2>1. Awaits(client) => Awaits(client')  BY <1>2 DEF Awaits
  <2> QED BY <2>1 DEF PresenceInv, AnswerAwaited
<1>6. /\ session' = "open" /\ UNCHANGED <<row, past, unannounced, wire, held, localVars, hold, deleting>>
      /\ subscription' = "paused"
  BY DEF RecheckBegins, relayVars
<1> QED BY <1>2, <1>3, <1>4, <1>5, <1>6, OpenSteps DEF PresenceInv, AnswerAwaited

(* Opening the workspace keeps both invariants. *)
LEMMA OpenWorkspaceStep ==
    ASSUME PresenceInv, WriteInv, openWorkspace PROVE PresenceInv' /\ WriteInv'
<1>1. /\ UNCHANGED <<row, past, unannounced, wire, held, localVars, client, hold, deleting, recheck>>
      /\ session = "closed" /\ session' = "boot" /\ subscription' = "paused"
  BY DEF openWorkspace, relayVars, userVars
<1>2. AnswerAwaited'  BY <1>1 DEF PresenceInv, AnswerAwaited
<1>3. PresenceInv'  BY <1>1, <1>2 DEF PresenceInv, PastIsReal, localVars
<1>4. BootIsQuiet'  BY <1>1 DEF WriteInv, BootIsQuiet
<1> QED BY <1>1, <1>3, <1>4 DEF WriteInv

(* A reload keeps both invariants. *)
LEMMA ReloadStep ==
    ASSUME PresenceInv, WriteInv, Reload PROVE PresenceInv' /\ WriteInv'
<1>1. /\ client \in HonestClients(past) /\ disk \in Nat /\ past \subseteq Rows
  BY DEF PresenceInv, PastIsReal, RealRows
<1>2. client' \in HonestClients(past) /\ client'.queue = <<>> /\ client'.discovery = NoFetch
  <2>1. NewClient(client.saved) \in HonestClients(past) /\ NewClient(client.saved).queue = <<>>
    BY <1>1, RestIsHonest
  <2> QED BY <2>1 DEF Reload, NewClient
<1>3. disk' \in Nat
  <2>1. CASE disk' = disk  BY <1>1, <2>1
  <2>2. CASE Holds("save") /\ disk' = Current.got.content
    <3>1. Current \in Jobs  BY <2>2, Holder
    <3> QED BY <2>2, <3>1 DEF Jobs, Rows
  <2> QED BY <2>1, <2>2 DEF Reload
<1>4. /\ UNCHANGED <<row, past, unannounced, claimed, made>>
      /\ session' = "closed" /\ subscription' = "off" /\ wire' = <<>> /\ held' = <<>>
      /\ hold' = "no" /\ deleting' = "nothing" /\ recheck' = NoRecheck
  BY DEF Reload, relayVars
<1>5. AnswerAwaited'  BY <1>4 DEF AnswerAwaited, Answers
<1>6. recheck' \in Rechecks(past)  BY <1>4, NoneHonest
<1>7. wire' \in Seq(Messages) /\ held' \in Seq(Messages)  BY <1>4
<1>8. PresenceInv'  BY <1>2, <1>3, <1>4, <1>5, <1>6, <1>7 DEF PresenceInv, PastIsReal
<1>9. BootIsQuiet'  BY <1>2, <1>4 DEF BootIsQuiet
<1>10. Safe(client, past)'  BY <1>2 DEF Safe
<1> QED BY <1>8, <1>9, <1>10 DEF WriteInv

(* A dropped connection keeps both invariants. *)
LEMMA DropStep ==
    ASSUME PresenceInv, WriteInv, Drop PROVE PresenceInv' /\ WriteInv'
<1>1. /\ session' = "open" /\ UNCHANGED <<row, past, unannounced, localVars>>
      /\ subscription' = "paused" /\ wire' = <<>> /\ held' = <<>>
  BY DEF Drop, relayVars
<1>2. /\ client' \in HonestClients(past) /\ Safe(client', past)
      /\ hold' \in {"no", "saved", "uploading"} /\ deleting' \in {"nothing", "file", "membership"}
      /\ recheck' \in Rechecks(past)
  <2>1. CASE Holds("removed") \/ Holds("kept")
    <3>1. Holds(Current.phase)  BY <2>1 DEF Holds
    <3>2. client \in HonestClients(past) /\ client.queue # <<>> /\ Current \in Jobs /\ past \subseteq Rows
      BY <3>1, Holder
    <3>3. client' = Left(client) /\ Tell(Current, FALSE)  BY <2>1 DEF Drop, Stop
    <3>4. client' \in HonestClients(past) /\ Waiting(client')  BY <3>2, <3>3, Ends
    <3> QED BY <3>2, <3>3, <3>4, SafeStays, TellTypes
  <2>2. CASE ~(Holds("removed") \/ Holds("kept"))
    BY <2>2 DEF Drop, PresenceInv, WriteInv, userVars
  <2> QED BY <2>1, <2>2
<1>3. wire' \in Seq(Messages) /\ held' \in Seq(Messages)
      /\ Answers(wire') = {} /\ Answers(held') = {}
  BY <1>1 DEF Answers
<1> QED BY <1>1, <1>2, <1>3, OpenSteps DEF PresenceInv

(* A failed fetch or change keeps both invariants. *)
LEMMA FailingSteps ==
    ASSUME PresenceInv, WriteInv, FetchFails \/ ChangeFails PROVE PresenceInv' /\ WriteInv'
<1>1. /\ client \in HonestClients(past) /\ RealRows(past) /\ past \subseteq Rows
  BY DEF PresenceInv, PastIsReal, RealRows
<1>2. /\ UNCHANGED <<relayVars, linkVars, session>>
      /\ disk' \in Nat /\ claimed' \in BOOLEAN /\ made' \in Nat
  BY DEF FetchFails, ChangeFails, localVars, PresenceInv
<1>3. CASE client.discovery.phase = "ask" /\ client' = Discovered(client, NoRow) /\ UNCHANGED userVars
  <2>1. session = "open"  BY <1>3 DEF WriteInv, BootIsQuiet, NoFetch
  <2>2. client' \in HonestClients(past) /\ Extends(client, client')
    BY <1>1, <1>3, DiscoveredIsHonest
  <2> QED BY <1>2, <1>3, <2>1, <2>2, QueuingSteps DEF PresenceInv, userVars
<1>4. CASE recheck.phase = "ask" /\ recheck' = NoRecheck /\ UNCHANGED <<client, hold, deleting>>
  <2>1. session = "open"  BY <1>4 DEF WriteInv, BootIsQuiet, NoRecheck
  <2>2. Extends(client, client')  BY <1>4 DEF Extends, QueuesBehind
  <2> QED BY <1>1, <1>2, <1>4, <2>1, <2>2, NoneHonest, QueuingSteps DEF PresenceInv
<1>5. ASSUME NEW phase \in {"ask", "put", "stored", "remove"}, Holds(phase),
             client' \in {Left(client), Ended(client, Current)}, Tell(Current, FALSE)
      PROVE  PresenceInv' /\ WriteInv'
  <2>1. client.queue # <<>> /\ Current \in Jobs /\ Current.phase = phase /\ session = "open"
    BY <1>5, Holder
  <2>2. client' \in HonestClients(past) /\ Waiting(client')  BY <1>1, <1>5, <2>1, Ends
  <2> QED BY <1>2, <1>5, <2>1, <2>2, JobSteps DEF Current
<1> QED BY <1>3, <1>4, <1>5 DEF FetchFails, ChangeFails, Stop

-----------------------------------------------------------------------------
(* The invariants.                                                         *)

LEMMA InitHonest == Init => PresenceInv /\ WriteInv
<1> SUFFICES ASSUME Init PROVE PresenceInv /\ WriteInv
  OBVIOUS
<1>1. past \subseteq Rows /\ PastIsReal /\ row \in past \union {NoRow}
  <2>1. past = {row} \ {NoRow} /\ row \in {NoRow, [version |-> 1, inc |-> 1, content |-> 1]}
    BY DEF Init
  <2>2. past \subseteq {row} /\ row \in past \union {NoRow}  BY <2>1
  <2>3. IsFiniteSet(past)  BY <2>2, FS_Singleton, FS_Subset
  <2>4. RealRows(past)  BY <2>1 DEF RealRows, Rows, NoRow
  <2> QED BY <2>2, <2>3, <2>4 DEF PastIsReal, RealRows
<1>2. client \in HonestClients(past) /\ client.queue = <<>> /\ client.discovery = NoFetch
  <2>1. <<>> \in Queues(past)  BY DEF Queues
  <2>2. client = NewClient(NoBaseline)  BY DEF Init
  <2> QED BY <2>1, <2>2, NoneHonest DEF NewClient, HonestClients
<1>3. recheck \in Rechecks(past)  BY NoneHonest DEF Init
<1>4. wire = <<>> /\ held = <<>> /\ AnswerAwaited /\ wire \in Seq(Messages) /\ held \in Seq(Messages)
  BY DEF Init, AnswerAwaited, Answers
<1>5. /\ unannounced \subseteq Keys /\ subscription \in {"off", "paused", "open"}
      /\ disk \in Nat /\ made \in Nat /\ session \in {"closed", "boot", "open"}
      /\ hold \in {"no", "saved", "uploading"}
  BY DEF Init
<1>6. claimed \in BOOLEAN /\ deleting \in {"nothing", "file", "membership"}  BY DEF Init
<1>7. PresenceInv  BY <1>1, <1>2, <1>3, <1>4, <1>5, <1>6 DEF PresenceInv
<1>8. BootIsQuiet  BY <1>2 DEF Init, BootIsQuiet
<1>9. Safe(client, past)  BY <1>2 DEF Safe
<1> QED BY <1>7, <1>8, <1>9 DEF WriteInv

(* Every step keeps both invariants. *)
LEMMA NextHonest == PresenceInv /\ WriteInv /\ [Next]_vars => PresenceInv' /\ WriteInv'
<1> SUFFICES ASSUME PresenceInv, WriteInv, [Next]_vars PROVE PresenceInv' /\ WriteInv'
  OBVIOUS
<1>1. CASE \E key \in unannounced : Announce(key)  BY <1>1, AnnounceStep
<1>2. CASE SendSnapshot \/ ReceiveMessage  BY <1>2, SendSnapshotStep, ReceiveStep
<1>3. CASE DiscoveryServed \/ DiscoveryAnswered  BY <1>3, DiscoverySteps
<1>4. CASE StartJob \/ JobServed \/ JobAnswered
  BY <1>4, StartJobStep, JobServedStep, JobAnsweredStep
<1>5. CASE Attach \/ CompareCopies \/ BeginSave \/ SaveLands \/ SaveRecorded
  BY <1>5, AttachStep, CompareStep, BeginSaveStep, SaveLandsStep, SaveRecordedStep
<1>6. CASE ReadForUpload \/ PutArrives \/ PutAnswered \/ PutRefused
  BY <1>6, ReadForUploadStep, PutArrivesStep, PutAnsweredStep, PutRefusedStep
<1>7. CASE DeleteArrives \/ DeleteAnswered \/ DeleteLocally \/ LeaveWorkspace \/ Navigate
  BY <1>7, DeleteArrivesStep, DeleteAnsweredStep, DeleteLocallyStep, DeleteEndsStep
<1>8. CASE ReplaceUploads \/ Upload \/ Delete  BY <1>8, UserSteps
<1>9. CASE SaveLocally \/ ReplaceSaves  BY <1>9, SavingSteps
<1>10. CASE CheckComesDue \/ Resolve  BY <1>10, CheckComesDueStep, ResolveStep
<1>11. CASE RecheckBegins \/ ListCached \/ RecheckServed \/ RecheckAnswered
  BY <1>11, RecheckBeginsStep, ListCachedStep, RecheckSteps
<1>12. CASE openWorkspace \/ Reload \/ Drop  BY <1>12, OpenWorkspaceStep, ReloadStep, DropStep
<1>13. CASE FetchFails \/ ChangeFails  BY <1>13, FailingSteps
<1>14. CASE PeerPut \/ PeerDelete  BY <1>14, PeerPutStep, PeerDeleteStep
<1>15. CASE UNCHANGED vars
  <2>1. UNCHANGED <<row, past, unannounced, subscription, wire, held, disk, claimed, made, session,
                    client, hold, deleting, recheck>>
    BY <1>15 DEF vars, relayVars, linkVars, localVars, userVars
  <2>2. AnswerAwaited' /\ PastIsReal'  BY <2>1 DEF PresenceInv, AnswerAwaited, PastIsReal
  <2>3. PresenceInv'  BY <2>1, <2>2 DEF PresenceInv
  <2>4. BootIsQuiet' /\ Safe(client, past)'  BY <2>1 DEF WriteInv, BootIsQuiet
  <2> QED BY <2>3, <2>4 DEF WriteInv
<1> QED BY <1>1, <1>2, <1>3, <1>4, <1>5, <1>6, <1>7, <1>8, <1>9, <1>10, <1>11, <1>12, <1>13,
           <1>14, <1>15 DEF Next, Progress

(* Both invariants hold in every state: the strengthening the theorems      *)
(* below follow from.                                                       *)
THEOREM PresenceHolds == Spec => [](PresenceInv /\ WriteInv)
<1>1. Init => PresenceInv /\ WriteInv  BY InitHonest
<1>2. PresenceInv /\ WriteInv /\ [Next]_vars => (PresenceInv /\ WriteInv)'  BY NextHonest
<1> QED BY <1>1, <1>2, PTL DEF Spec

(* Types hold in every reachable state, and a baseline carries a hash      *)
(* exactly if it is synced (setBaseline, savePresenceCache and its         *)
(* loading, onDeleted, deleteFromRemote's drop of the tag).                *)
THEOREM TypeCorrect == Spec => []TypeOK
<1>1. PresenceInv => TypeOK
  <2> SUFFICES ASSUME PresenceInv PROVE TypeOK
    OBVIOUS
  <2>1. row \in Rows /\ past \subseteq Rows
    BY DEF PresenceInv, PastIsReal, RealRows, NoRow, Rows
  <2>2. \A q \in {wire, held} : \A i \in 1..Len(q) : q[i].key \in Keys
    <3>1. wire \in Seq(Messages) /\ held \in Seq(Messages)  BY DEF PresenceInv
    <3>2. \A m \in Messages : m.key \in Keys  BY DEF Messages
    <3> QED BY <3>1, <3>2
  <2>3. /\ client.inventory \in Keys /\ client.seen \in Keys /\ client.remote \in Keys
        /\ client.baseline \in TrueBaselines(past) /\ client.saved \in TrueBaselines(past)
        /\ client.queue \in Seq(HonestJobs(past))
    BY DEF PresenceInv, HonestClients, Queues
  <2>4. \A b \in {client.baseline, client.saved} : b \in Baselines /\ (b.synced <=> b.hash # 0)
    BY <2>3 DEF TrueBaselines
  <2>5. \A i \in 1..Len(client.queue) : client.queue[i] \in Jobs
    BY <2>3 DEF HonestJobs
  <2> QED BY <2>1, <2>2, <2>3, <2>4, <2>5 DEF PresenceInv, TypeOK
<1> QED BY <1>1, PresenceHolds, PTL

(* A synced baseline, in memory or cached, names bytes the cloud held at   *)
(* that very version, whatever was put, deleted, lost or refused while     *)
(* they were fetched, compared, saved or uploaded (setBaseline's callers). *)
THEOREM BaselinesAreTrue == Spec => []BaselineIsTrue
<1>1. PresenceInv => BaselineIsTrue
  BY DEF PresenceInv, HonestClients, TrueBaselines, BaselineIsTrue
<1> QED BY <1>1, PresenceHolds, PTL

(* An automatic write over a copy that was reconciled once, and that has   *)
(* not changed since it was compared, replaces only bytes the cloud has    *)
(* held (applyRemoteBytes, reconcileClaimedCopy,                           *)
(* reconcileRecheckedReport).                                              *)
THEOREM EditsAreKept == Spec => KeepsEdits
<1> DEFINE Replaces == Holds("save") /\ Current.kind \in {"replace", "auto", "recheck"} /\ disk' # disk
                     /\ Current.read = disk /\ client.baseline # NoBaseline
                     => disk \in {0} \union Reached
<1>1. WriteInv => Replaces
  BY DEF WriteInv, Safe, Holds, Current, Automatic, Reached
<1>2. WriteInv /\ [Next]_vars => [Replaces]_vars  BY <1>1
<1>3. Spec => []WriteInv  BY PresenceHolds, PTL
<1> QED BY <1>2, <1>3, PTL DEF Spec, KeepsEdits

=============================================================================
