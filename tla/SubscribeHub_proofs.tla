------------------------- MODULE SubscribeHub_proofs -------------------------
(***************************************************************************)
(* However many lookups replace one another on however many workspaces, a  *)
(* socket's pause is held exactly as long as one of them is reading, and   *)
(* no revision falls between a catch-up and the broadcasts behind it.      *)
(***************************************************************************)
EXTENDS SubscribeHub, FiniteSetTheorems, SequenceTheorems, WellFoundedInduction, TLAPS

(* The workspaces a lookup is reading.                                     *)
Reading == {t \in Tags : current[t] # None}

(* A lookup is current from its registration until it ends or is replaced, *)
(* and holds its share of the pause exactly as long.                       *)
CurrentHolds ==
    /\ \A l \in Lookups :
          /\ pc[l] # "idle" => ask[l].tag \in Tags
          /\ pc[l] \in {"idle", "verify"} => l \notin released
          /\ pc[l] \in {"rows", "reply"} => first[l] >= 1
          /\ pc[l] \in Underway /\ l \notin released => current[ask[l].tag] = l
    /\ \A t \in Reading :
          pc[current[t]] \in Underway /\ ask[current[t]].tag = t /\ current[t] \notin released
    /\ \A l \in answered : pc[l] = "done"

(* A workspace being read on an open socket has been subscribed to.        *)
ReadersListen == socket = "open" => Reading \subseteq subscribed

(* The hub's books on the socket.                                          *)
Books ==
    /\ IsFiniteSet(Reading)
    /\ PauseMatchesLookups
    /\ NoDeadSubscriber
    /\ ReadersListen

HubInv == TypeOK /\ CurrentHolds /\ Books

(* Revision r of t has reached the client, or is on its way, or was lost   *)
(* with a NOTIFY.                                                          *)
Joined(t, r) ==
    \/ Covered(t, r)
    \/ \E m \in unsent : m.tag = t /\ m.rev = r
    \/ r \in RevisionsIn(paused.payloads, t)
    \/ [tag |-> t, rev |-> r] \in lost

(* A catch-up that reads up to n begins where it may: behind the revision  *)
(* the client resumes from, or at a keyframe, or at the first revision.    *)
EntryOf(l, n) ==
    \/ first[l] = ask[l].from + 1
    \/ first[l] = 1
    \/ first[l] \in Keyframes /\ first[l] <= n

EntrySound ==
    \A l \in Lookups : /\ pc[l] = "rows" => EntryOf(l, head[ask[l].tag])
                       /\ pc[l] = "reply" => EntryOf(l, upto[l])

(* What was committed after a current lookup read its rows is on its way.  *)
TailPending ==
    \A t \in Reading : socket = "open" /\ pc[current[t]] = "reply" =>
        \A r \in 1 .. head[t] : r > upto[current[t]] => Joined(t, r)

SeamInv == EntrySound /\ TailPending /\ NoMissedRevision

-----------------------------------------------------------------------------
(* The last keyframe of a chain of n revisions is one of them.             *)
LEMMA LastKeyframeIsOne ==
    ASSUME NEW n \in Nat
    PROVE  LastKeyframe(n) = 1 \/ LastKeyframe(n) \in Keyframes \intersect 1 .. n
<1> DEFINE ks == Keyframes \intersect 1 .. n
           R == OpToRel(<, Nat)
           T == {m \in Nat : \E k \in ks : m = n - k}
<1>1. CASE ks = {}  BY <1>1 DEF LastKeyframe
<1>2. CASE ks # {}
  <2>1. IsWellFoundedOn(R, Nat)  BY NatLessThanWellFounded, Zenon
  <2>2. T \subseteq Nat /\ T # {}
    <3>1. PICK k \in ks : TRUE  BY <1>2
    <3>2. n - k \in Nat  BY <3>1
    <3> QED BY <3>1, <3>2
  <2>3. \A x, y \in Nat : x < y => <<x, y>> \in R  BY DEF OpToRel
  <2> HIDE DEF R, T
  <2>4. PICK x \in T : \A y \in T : ~(<<y, x>> \in R)  BY <2>1, <2>2, WFMin
  <2>5. PICK k \in ks : x = n - k  BY <2>4 DEF T
  <2>6. \A j \in ks : j <= k
    <3> TAKE j \in ks
    <3>1. n - j \in T  BY DEF T
    <3>2. ~(n - j < n - k)  BY <2>2, <2>3, <2>4, <2>5, <3>1
    <3> QED BY <3>2
  <2>7. (CHOOSE k2 \in ks : \A j \in ks : j <= k2) \in ks  BY <2>5, <2>6
  <2> QED BY <1>2, <2>7 DEF LastKeyframe
<1> QED BY <1>1, <1>2

(* A lookup is current exactly while it is under way and not released.     *)
LEMMA CurrentIsUnreleased ==
    ASSUME HubInv, NEW l \in Lookups
    PROVE  /\ IsCurrent(l) <=> pc[l] \in Underway /\ l \notin released
           /\ IsCurrent(l) => \A t \in Tags : current[t] = l <=> t = ask[l].tag
BY HubAssumption DEF HubInv, CurrentHolds, Reading, IsCurrent, TypeOK, Underway

(* How the workspaces being read change.                                   *)
LEMMA ReadingGrows ==
    ASSUME HubInv, NEW t \in Tags, NEW l \in Lookups, current' = [current EXCEPT ![t] = l]
    PROVE  /\ Reading' = Reading \union {t}
           /\ IsFiniteSet(Reading')
           /\ Cardinality(Reading') =
                  IF current[t] = None THEN Cardinality(Reading) + 1 ELSE Cardinality(Reading)
<1>1. Reading' = Reading \union {t}  BY HubAssumption DEF HubInv, TypeOK, Reading
<1>2. t \in Reading <=> current[t] # None  BY DEF Reading
<1>3. IsFiniteSet(Reading)  BY DEF HubInv, Books
<1> HIDE DEF Reading
<1> QED BY <1>1, <1>2, <1>3, FS_AddElement

(* When the newest lookup of a workspace ends, one workspace less is        *)
(* reading.                                                                 *)
LEMMA ReadingShrinks ==
    ASSUME HubInv, NEW t \in Tags, current' = [current EXCEPT ![t] = None]
    PROVE  /\ Reading' = Reading \ {t}
           /\ IsFiniteSet(Reading')
           /\ Cardinality(Reading) \in Nat
           /\ Cardinality(Reading') =
                  IF current[t] # None THEN Cardinality(Reading) - 1 ELSE Cardinality(Reading)
           /\ current[t] # None => Cardinality(Reading) > 0
<1>1. Reading' = Reading \ {t}  BY HubAssumption DEF HubInv, TypeOK, Reading
<1>2. t \in Reading <=> current[t] # None  BY DEF Reading
<1>3. IsFiniteSet(Reading)  BY DEF HubInv, Books
<1> HIDE DEF Reading
<1>4. Cardinality(Reading) \in Nat /\ (Cardinality(Reading) = 0 <=> Reading = {})
  BY <1>3, FS_CardinalityType, FS_EmptySet
<1> QED BY <1>1, <1>2, <1>3, <1>4, FS_RemoveElement

(* An open socket with a lookup reading is paused; otherwise it is not.    *)
LEMMA PausedWhileReading ==
    ASSUME HubInv, socket = "open"
    PROVE  /\ paused.depth = Cardinality(Reading)
           /\ paused.depth = 0 <=> Reading = {}
<1>1. IsFiniteSet(Reading) /\ paused.depth = Cardinality(Reading)
  BY DEF HubInv, Books, PauseMatchesLookups, Reading
<1> HIDE DEF Reading
<1> QED BY <1>1, FS_EmptySet

-----------------------------------------------------------------------------
(* Types.                                                                  *)
Pauses == [depth : Nat, payloads : Seq(Payload), bytes : 0 .. MaxBuffered]
Holdings == [Tags -> SUBSET (1 .. MaxRev)]

(* A socket that is not paused has a pause state of the type. *)
LEMMA NoPauseIsOne == NoPause \in Pauses
BY EmptySeq, HubAssumption DEF NoPause, Pauses

(* The revisions of a workspace among some payloads are revisions. *)
LEMMA RevisionsInType ==
    ASSUME NEW payloads \in Seq(Payload), NEW t \in Tags
    PROVE  RevisionsIn(payloads, t) \subseteq 1 .. MaxRev
<1>1. \A n \in DOMAIN payloads : payloads[n] \in Payload  BY LenProperties, ElementOfSeq
<1> QED BY <1>1 DEF RevisionsIn, Payload

(* What a release flushes to the socket are revisions of its workspaces. *)
LEMMA FlushedType ==
    ASSUME paused \in Pauses, NEW g \in Holdings
    PROVE  Flushed(g) \in Holdings
BY RevisionsInType DEF Flushed, Pauses, Holdings

(* A release keeps the types of the pause and of the socket. *)
LEMMA ReleaseType ==
    ASSUME TypeOK, NEW l \in Lookups, NEW g \in Holdings, Release(l, g)
    PROVE  paused' \in Pauses /\ got' \in Holdings /\ released' \subseteq Lookups
<1>1. paused \in Pauses /\ released \subseteq Lookups  BY DEF TypeOK, Pauses
<1>2. Flushed(g) \in Holdings  BY <1>1, FlushedType
<1>3. paused.depth > 1 => [paused EXCEPT !.depth = @ - 1] \in Pauses
  BY <1>1 DEF Pauses
<1> QED BY <1>1, <1>2, <1>3, NoPauseIsOne DEF Release

(* A broadcast keeps the types of the pause and of the socket. *)
LEMMA FanOutType ==
    ASSUME TypeOK, NEW p \in Payload, FanOut(p)
    PROVE  paused' \in Pauses /\ got' \in Holdings /\ socket' \in {"open", "closing", "closed"}
<1>1. paused \in Pauses /\ got \in Holdings /\ socket \in {"open", "closing", "closed"}
  BY DEF TypeOK, Pauses, Holdings
<1>2. Append(paused.payloads, p) \in Seq(Payload)  BY <1>1, AppendProperties DEF Pauses
<1>3. paused.bytes + 1 <= MaxBuffered =>
          [paused EXCEPT !.bytes = @ + 1, !.payloads = Append(@, p)] \in Pauses
  <2> SUFFICES ASSUME paused.bytes + 1 <= MaxBuffered
               PROVE  [paused EXCEPT !.bytes = @ + 1, !.payloads = Append(@, p)] \in Pauses
    OBVIOUS
  <2>1. paused.bytes + 1 \in 0 .. MaxBuffered  BY <1>1, HubAssumption DEF Pauses
  <2> QED BY <1>1, <1>2, <2>1 DEF Pauses
<1>4. Received(got, p.tag, {p.rev}) \in Holdings
  BY <1>1 DEF Received, Holdings, Payload
<1>5. paused.bytes \in Int /\ MaxBuffered \in Nat  BY <1>1, HubAssumption DEF Pauses
<1>6. CASE p.tag \notin subscribed  BY <1>1, <1>6 DEF FanOut
<1>7. CASE p.tag \in subscribed /\ paused.depth = 0  BY <1>1, <1>4, <1>7 DEF FanOut
<1>8. CASE p.tag \in subscribed /\ paused.depth # 0 /\ paused.bytes + 1 > MaxBuffered
  BY <1>1, <1>8, NoPauseIsOne DEF FanOut
<1>9. CASE p.tag \in subscribed /\ paused.depth # 0 /\ ~(paused.bytes + 1 > MaxBuffered)
  BY <1>1, <1>3, <1>5, <1>9 DEF FanOut
<1> QED BY <1>6, <1>7, <1>8, <1>9

(* A catch-up starts at a revision that can exist.                         *)
LEMMA RepliesInRange ==
    ASSUME HubInv, NEW l \in Lookups, pc[l] = "reply"
    PROVE  first[l] .. upto[l] \subseteq 1 .. MaxRev
<1>1. first[l] \in Nat /\ first[l] >= 1 /\ upto[l] \in 0 .. MaxRev
  BY HubAssumption DEF HubInv, TypeOK, CurrentHolds
<1> QED BY <1>1, HubAssumption

(* Every step keeps every variable in its type. *)
LEMMA TypeStep == HubInv /\ [Next]_vars => TypeOK'
<1> SUFFICES ASSUME HubInv, [Next]_vars PROVE TypeOK'  OBVIOUS
<1>0. TypeOK /\ CurrentHolds  BY DEF HubInv
<1> USE DEF Goto, chain, conn, read, client, Underway
<1>1. ASSUME NEW l \in Lookups, NEW t \in Tags, NEW n \in 0 .. MaxRev, Receive(l, t, n)
      PROVE  TypeOK'
  BY <1>0, <1>1 DEF TypeOK, Receive
<1>2. ASSUME NEW l \in Lookups, RejectClosed(l) \/ ResourcesRead(l) PROVE TypeOK'
  BY <1>0, <1>2 DEF TypeOK, RejectClosed, ResourcesRead
<1>3. ASSUME NEW l \in Lookups, Register(l) PROVE TypeOK'
  <2>1. ask[l].tag \in Tags  BY <1>0, <1>3 DEF CurrentHolds, Register
  <2>2. [paused EXCEPT !.depth = @ + 1] \in Pauses
    <3>1. paused \in Pauses /\ paused.depth + 1 \in Nat  BY <1>0 DEF TypeOK, Pauses
    <3> QED BY <3>1 DEF Pauses
  <2>3. paused' \in Pauses
    <3>1. paused \in Pauses  BY <1>0 DEF TypeOK, Pauses
    <3>2. [paused EXCEPT !.depth = @] = paused  BY <3>1 DEF Pauses
    <3> QED BY <1>3, <2>2, <3>1, <3>2 DEF Register
  <2>4. pc' \in [Lookups -> {"idle", "verify", "done"} \union Underway]
    BY <1>0, <1>3 DEF TypeOK, Register
  <2>5. /\ current' \in [Tags -> Lookups \union {None}] /\ subscribed' \subseteq Tags
        /\ released' \subseteq Lookups
    BY <1>0, <1>3, <2>1 DEF TypeOK, Register
  <2> QED BY <1>0, <1>3, <2>3, <2>4, <2>5 DEF TypeOK, Register, Pauses
<1>4. ASSUME NEW l \in Lookups, AnchorAtFrom(l) PROVE TypeOK'
  <2>1. ask[l].from + 1 \in 0 .. MaxRev + 1  BY <1>0, HubAssumption DEF TypeOK
  <2> QED BY <1>0, <1>4, <2>1 DEF TypeOK, AnchorAtFrom
<1>5. ASSUME NEW l \in Lookups, AnchorAtKeyframe(l) PROVE TypeOK'
  <2>1. ask[l].tag \in Tags  BY <1>0, <1>5 DEF CurrentHolds, AnchorAtKeyframe
  <2>2. head[ask[l].tag] \in 0 .. MaxRev  BY <1>0, <2>1 DEF TypeOK
  <2>3. LastKeyframe(head[ask[l].tag]) \in 0 .. MaxRev + 1
    BY <2>2, LastKeyframeIsOne, HubAssumption
  <2> QED BY <1>0, <1>5, <2>3 DEF TypeOK, AnchorAtKeyframe
<1>6. ASSUME NEW l \in Lookups, ReadRows(l) PROVE TypeOK'
  <2>1. ask[l].tag \in Tags  BY <1>0, <1>6 DEF CurrentHolds, ReadRows
  <2>2. head[ask[l].tag] \in 0 .. MaxRev  BY <1>0, <2>1 DEF TypeOK
  <2> QED BY <1>0, <1>6, <2>2 DEF TypeOK, ReadRows
<1>7. ASSUME NEW l \in Lookups, Reply(l) PROVE TypeOK'
  <2>1. ask[l].tag \in Tags  BY <1>0, <1>7 DEF CurrentHolds, Reply
  <2> DEFINE g == Received(got, ask[l].tag, first[l] .. upto[l])
  <2>2. first[l] .. upto[l] \subseteq 1 .. MaxRev  BY <1>7, RepliesInRange DEF Reply
  <2>3. g \in Holdings  BY <1>0, <2>1, <2>2 DEF TypeOK, Received, Holdings
  <2>4. paused' \in Pauses /\ got' \in Holdings /\ released' \subseteq Lookups
    BY <1>0, <1>7, <2>3, ReleaseType DEF Reply
  <2>5. current' \in [Tags -> Lookups \union {None}] /\ answered' \subseteq Lookups
        /\ pc' \in [Lookups -> {"idle", "verify", "done"} \union Underway]
    BY <1>0, <1>7 DEF TypeOK, Reply
  <2> QED BY <1>0, <1>7, <2>4, <2>5 DEF TypeOK, Reply, Pauses, Holdings
<1>8. ASSUME NEW l \in Lookups, GiveUp(l) \/ ReadFails(l) PROVE TypeOK'
  <2>1. got \in Holdings /\ paused \in Pauses  BY <1>0 DEF TypeOK, Holdings, Pauses
  <2>2. paused' \in Pauses /\ got' \in Holdings /\ released' \subseteq Lookups
    <3>1. CASE Release(l, got)  BY <1>0, <2>1, <3>1, ReleaseType
    <3>2. CASE ReadFails(l) /\ Live(l)
      <4>1. paused.depth > 1 => [paused EXCEPT !.depth = @ - 1] \in Pauses
        BY <2>1 DEF Pauses
      <4> QED BY <1>0, <2>1, <3>2, <4>1, NoPauseIsOne DEF TypeOK, ReadFails
    <3> QED BY <1>8, <3>1, <3>2 DEF GiveUp, Finish, ReadFails
  <2>3. /\ current' \in [Tags -> Lookups \union {None}]
        /\ pc' \in [Lookups -> {"idle", "verify", "done"} \union Underway]
        /\ socket' \in {"open", "closing", "closed"}
    BY <1>0, <1>8 DEF TypeOK, GiveUp, Finish, ReadFails
  <2> QED BY <1>0, <1>8, <2>2, <2>3 DEF TypeOK, GiveUp, Finish, ReadFails, Pauses, Holdings
<1>9. ASSUME NEW t \in Tags, NEW o \in {"self", "other"}, Commit(t, o) PROVE TypeOK'
  <2>1. size.revs \in 0 .. MaxRev  BY <1>0, HubAssumption DEF TypeOK
  <2>2. head[t] + 1 \in 1 .. MaxRev
    BY <1>0, <1>9, <2>1, HubAssumption DEF TypeOK, Commit
  <2>3. [tag |-> t, rev |-> head[t] + 1, from |-> o] \in Message  BY <2>2 DEF Message
  <2> QED BY <1>0, <1>9, <2>2, <2>3 DEF TypeOK, Commit
<1>10. ASSUME NEW m \in unsent, Announce(m) PROVE TypeOK'
  <2>1. m \in Message /\ got \in Holdings  BY <1>0 DEF TypeOK, Holdings
  <2>2. [tag |-> m.tag, rev |-> m.rev] \in Payload  BY <2>1 DEF Message, Payload
  <2>3. Received(got, m.tag, {m.rev}) \in Holdings
    BY <2>1 DEF Received, Holdings, Message
  <2>4. paused' \in Pauses /\ got' \in Holdings /\ socket' \in {"open", "closing", "closed"}
    <3>1. CASE m.from = "self"
      BY <1>0, <1>10, <2>1, <2>3, <3>1 DEF Announce, TypeOK, Pauses
    <3>2. CASE m.from # "self"
      BY <1>0, <1>10, <2>2, <3>2, FanOutType DEF Announce
    <3> QED BY <3>1, <3>2
  <2> QED BY <1>0, <1>10, <2>4 DEF TypeOK, Announce, Pauses, Holdings
<1>11. ASSUME NEW m \in unsent, NotifyLost(m) PROVE TypeOK'
  <2>1. [tag |-> m.tag, rev |-> m.rev] \in Payload  BY <1>0 DEF TypeOK, Message, Payload
  <2> QED BY <1>0, <1>11, <2>1 DEF TypeOK, NotifyLost
<1>12. CASE SocketCloses  BY <1>0, <1>12 DEF TypeOK, SocketCloses
<1>13. CASE CloseEvent
  BY <1>0, <1>13, NoPauseIsOne DEF TypeOK, CloseEvent, Pauses
<1>14. CASE UNCHANGED vars  BY <1>0, <1>14 DEF TypeOK, vars
<1> QED BY <1>1, <1>2, <1>3, <1>4, <1>5, <1>6, <1>7, <1>8, <1>9, <1>10, <1>11, <1>12,
           <1>13, <1>14
        DEF Next, Progress

-----------------------------------------------------------------------------
(* Who is current, who holds the pause.                                    *)

(* A lookup that ends gives up its place and its share of the pause.       *)
LEMMA EndingKeeps ==
    ASSUME HubInv, NEW l \in Lookups, pc[l] \in Underway,
           pc' = [pc EXCEPT ![l] = "done"],
           current' = [current EXCEPT ![ask[l].tag] = IF IsCurrent(l) THEN None ELSE @],
           released' = released \union {l}, UNCHANGED <<ask, first>>,
           answered' \subseteq answered \union {l}
    PROVE  CurrentHolds'
<1>1. TypeOK /\ CurrentHolds  BY DEF HubInv
<1>2. ask[l].tag \in Tags  BY <1>1 DEF CurrentHolds, Underway
<1>3. IsCurrent(l) <=> current[ask[l].tag] = l  BY <1>2, CurrentIsUnreleased DEF IsCurrent
<1>4. \A t \in Tags : current'[t] = IF current[t] = l THEN None ELSE current[t]
  <2>1. \A t \in Tags : current[t] = l => t = ask[l].tag /\ IsCurrent(l)
    BY <1>1, HubAssumption DEF CurrentHolds, Reading, IsCurrent
  <2> QED BY <1>1, <1>2, <1>3, <2>1 DEF TypeOK
<1>5. \A t \in Tags : current'[t] # l  BY <1>4, HubAssumption
<1>6. \A k \in Lookups : k # l => pc'[k] = pc[k]  BY <1>1 DEF TypeOK
<1>7. pc'[l] = "done"  BY <1>1 DEF TypeOK
<1>8. \A k \in Lookups :
          /\ pc'[k] # "idle" => ask'[k].tag \in Tags
          /\ pc'[k] \in {"idle", "verify"} => k \notin released'
          /\ pc'[k] \in {"rows", "reply"} => first'[k] >= 1
          /\ pc'[k] \in Underway /\ k \notin released' => current'[ask'[k].tag] = k
  BY <1>1, <1>2, <1>4, <1>6, <1>7, HubAssumption DEF CurrentHolds, Underway
<1>9. \A t \in Reading' : /\ pc'[current'[t]] \in Underway
                          /\ ask'[current'[t]].tag = t /\ current'[t] \notin released'
  BY <1>1, <1>4, <1>5, <1>6 DEF CurrentHolds, Reading, TypeOK
<1>10. \A k \in answered' : pc'[k] = "done"
  BY <1>1, <1>6, <1>7 DEF CurrentHolds, TypeOK
<1> QED BY <1>8, <1>9, <1>10 DEF CurrentHolds

(* A lookup that goes on without registering or ending.                    *)
LEMMA AdvancingKeeps ==
    ASSUME HubInv, NEW l \in Lookups, UNCHANGED <<released, current, answered>>,
           \A k \in Lookups \ {l} : pc'[k] = pc[k] /\ ask'[k] = ask[k] /\ first'[k] = first[k],
           pc[l] # "done", pc'[l] # "idle", ask'[l].tag \in Tags,
           pc'[l] = "verify" => pc[l] = "idle",
           pc'[l] \in {"rows", "reply"} => first'[l] >= 1,
           pc'[l] \in Underway <=> pc[l] \in Underway,
           pc[l] \in Underway => ask'[l] = ask[l]
    PROVE  CurrentHolds'
<1>1. TypeOK /\ CurrentHolds  BY DEF HubInv
<1>2. \A k \in Lookups :
          /\ pc'[k] # "idle" => ask'[k].tag \in Tags
          /\ pc'[k] \in {"idle", "verify"} => k \notin released'
          /\ pc'[k] \in {"rows", "reply"} => first'[k] >= 1
          /\ pc'[k] \in Underway /\ k \notin released' => current'[ask'[k].tag] = k
  <2> TAKE k \in Lookups
  <2>1. CASE k = l  BY <1>1, <2>1 DEF CurrentHolds
  <2>2. CASE k # l  BY <1>1, <2>2 DEF CurrentHolds
  <2> QED BY <2>1, <2>2
<1>3. \A t \in Reading' : /\ pc'[current'[t]] \in Underway
                          /\ ask'[current'[t]].tag = t /\ current'[t] \notin released'
  <2> TAKE t \in Reading'
  <2>1. t \in Reading /\ current'[t] = current[t] /\ current[t] \in Lookups
    BY <1>1 DEF Reading, TypeOK
  <2>2. CASE current[t] = l  BY <1>1, <2>1, <2>2 DEF CurrentHolds
  <2>3. CASE current[t] # l  BY <1>1, <2>1, <2>3 DEF CurrentHolds
  <2> QED BY <2>2, <2>3
<1>4. \A k \in answered' : pc'[k] = "done"
  BY <1>1 DEF CurrentHolds, TypeOK
<1> QED BY <1>2, <1>3, <1>4 DEF CurrentHolds

(* Every step leaves the newest lookup of a workspace holding its pause. *)
LEMMA CurrentStep == HubInv /\ [Next]_vars => CurrentHolds'
<1> SUFFICES ASSUME HubInv, [Next]_vars PROVE CurrentHolds'  OBVIOUS
<1>0. TypeOK /\ CurrentHolds  BY DEF HubInv
<1> USE DEF Goto, chain, conn, read, client
<1>1. ASSUME NEW l \in Lookups, NEW t \in Tags, NEW n \in 0 .. MaxRev, Receive(l, t, n)
      PROVE  CurrentHolds'
  <2>1. /\ pc[l] = "idle" /\ pc'[l] = "verify" /\ ask'[l].tag = t
        /\ \A k \in Lookups \ {l} : pc'[k] = pc[k] /\ ask'[k] = ask[k]
        /\ UNCHANGED <<first, released, current, answered>>
    BY <1>0, <1>1 DEF TypeOK, Receive
  <2> QED BY <2>1, AdvancingKeeps DEF Underway
<1>2. ASSUME NEW l \in Lookups, RejectClosed(l) \/ ResourcesRead(l) PROVE CurrentHolds'
  <2>1. /\ \/ pc[l] = "verify" /\ pc'[l] = "done"
           \/ pc[l] = "resources" /\ pc'[l] = "anchor"
        /\ \A k \in Lookups \ {l} : pc'[k] = pc[k]
        /\ UNCHANGED <<ask, first, released, current, answered>>
    BY <1>0, <1>2 DEF TypeOK, RejectClosed, ResourcesRead
  <2> QED BY <1>0, <2>1, AdvancingKeeps DEF CurrentHolds, Underway
<1>3. ASSUME NEW l \in Lookups, Register(l) PROVE CurrentHolds'
  <2> DEFINE t == ask[l].tag
  <2>1. t \in Tags /\ pc[l] = "verify"  BY <1>0, <1>3 DEF CurrentHolds, Register
  <2>2. \A s \in Tags : s # t => current'[s] = current[s]
    BY <1>0, <1>3 DEF TypeOK, Register
  <2>3. current'[t] = l /\ l # None /\ l \notin released
    BY <1>0, <1>3, <2>1, HubAssumption DEF TypeOK, Register, CurrentHolds
  <2>4. /\ pc'[l] = "resources" /\ ask' = ask /\ first' = first
        /\ \A k \in Lookups : k # l => pc'[k] = pc[k]
    BY <1>0, <1>3 DEF TypeOK, Register
  <2>5. released' = released \union ({current[t]} \ {None})  BY <1>3 DEF Register
  <2>6. current[t] # l
    BY <1>0, <2>1, <2>3 DEF CurrentHolds, Reading, Underway
  <2>7. \A k \in Lookups :
            /\ pc'[k] # "idle" => ask'[k].tag \in Tags
            /\ pc'[k] \in {"idle", "verify"} => k \notin released'
            /\ pc'[k] \in {"rows", "reply"} => first'[k] >= 1
    <3>1. pc'[l] = "resources" /\ ask'[l].tag \in Tags /\ l \notin released'
      BY <2>1, <2>3, <2>4, <2>5, <2>6
    <3>2. ASSUME NEW k \in Lookups, k # l
          PROVE  /\ pc'[k] # "idle" => ask'[k].tag \in Tags
                 /\ pc'[k] \in {"rows", "reply"} => first'[k] >= 1
      BY <1>0, <2>4, <3>2 DEF CurrentHolds
    <3>3. ASSUME NEW k \in Lookups, k # l, pc[k] \in {"idle", "verify"} PROVE k \notin released'
      <4>1. k \notin released  BY <1>0, <3>3 DEF CurrentHolds
      <4>2. current[t] # None => pc[current[t]] \in Underway
        BY <1>0, <2>1 DEF CurrentHolds, Reading
      <4>3. k # current[t] \/ current[t] = None  BY <3>3, <4>2 DEF Underway
      <4> QED BY <2>5, <4>1, <4>3
    <3> QED BY <2>4, <3>1, <3>2, <3>3
  <2>8. \A k \in Lookups : pc'[k] \in Underway /\ k \notin released' => current'[ask'[k].tag] = k
    <3> SUFFICES ASSUME NEW k \in Lookups, pc'[k] \in Underway, k \notin released', k # l
                 PROVE  current'[ask'[k].tag] = k
      BY <2>3, <2>4
    <3>1. current[ask[k].tag] = k /\ ask[k].tag \in Tags /\ k # None
      BY <1>0, <2>4, <2>5, HubAssumption DEF CurrentHolds, Underway
    <3>2. ask[k].tag # t  BY <2>5, <3>1
    <3> QED BY <2>2, <2>4, <3>1, <3>2
  <2>9. \A s \in Reading' : /\ pc'[current'[s]] \in Underway
                            /\ ask'[current'[s]].tag = s /\ current'[s] \notin released'
    <3> SUFFICES ASSUME NEW s \in Tags, current'[s] # None
                 PROVE  /\ pc'[current'[s]] \in Underway
                        /\ ask'[current'[s]].tag = s /\ current'[s] \notin released'
      BY DEF Reading
    <3>1. CASE s = t  BY <2>3, <2>4, <2>5, <2>6, <3>1 DEF Underway
    <3>2. CASE s # t
      <4>1. current[s] # None /\ current'[s] = current[s] /\ current[s] \in Lookups
        BY <1>0, <2>2, <3>2 DEF TypeOK
      <4>2. pc[current[s]] \in Underway /\ ask[current[s]].tag = s /\ current[s] \notin released
        BY <1>0, <4>1 DEF CurrentHolds, Reading
      <4>3. current[s] # l  BY <2>1, <4>2 DEF Underway
      <4>4. current[t] # None => ask[current[t]].tag = t
        BY <1>0, <2>1 DEF CurrentHolds, Reading
      <4> QED BY <2>4, <2>5, <3>2, <4>1, <4>2, <4>3, <4>4
    <3> QED BY <3>1, <3>2
  <2>10. \A k \in answered' : pc'[k] = "done"
    BY <1>0, <1>3, <2>1, <2>4 DEF CurrentHolds, Register, TypeOK
  <2> QED BY <2>7, <2>8, <2>9, <2>10 DEF CurrentHolds
<1>4. ASSUME NEW l \in Lookups, AnchorAtFrom(l) \/ AnchorAtKeyframe(l) PROVE CurrentHolds'
  <2>1. ask[l].tag \in Tags /\ pc[l] = "anchor"
    BY <1>0, <1>4 DEF CurrentHolds, AnchorAtFrom, AnchorAtKeyframe
  <2>2. head[ask[l].tag] \in Nat /\ ask[l].from \in Nat
    BY <1>0, <2>1, HubAssumption DEF TypeOK
  <2>3. LastKeyframe(head[ask[l].tag]) >= 1  BY <2>2, LastKeyframeIsOne
  <2>4. ask[l].from # 0 => ask[l].from + 1 >= 1  BY <2>2
  <2>5. first'[l] >= 1
    BY <1>0, <1>4, <2>3, <2>4 DEF TypeOK, AnchorAtFrom, AnchorAtKeyframe
  <2>6. /\ pc' = [pc EXCEPT ![l] = "rows"]
        /\ \A k \in Lookups : k # l => first'[k] = first[k]
        /\ UNCHANGED <<ask, released, current, answered>>
    BY <1>0, <1>4 DEF TypeOK, AnchorAtFrom, AnchorAtKeyframe
  <2>7. pc'[l] = "rows" /\ \A k \in Lookups \ {l} : pc'[k] = pc[k]
    BY <1>0, <2>6 DEF TypeOK
  <2> QED BY <1>0, <2>1, <2>5, <2>6, <2>7, AdvancingKeeps DEF Underway
<1>5. ASSUME NEW l \in Lookups, ReadRows(l) PROVE CurrentHolds'
  <2>1. /\ pc[l] = "rows" /\ pc'[l] = "reply"
        /\ \A k \in Lookups \ {l} : pc'[k] = pc[k]
        /\ UNCHANGED <<ask, first, released, current, answered>>
    BY <1>0, <1>5 DEF TypeOK, ReadRows
  <2> QED BY <1>0, <2>1, AdvancingKeeps DEF CurrentHolds, Underway
<1>6. ASSUME NEW l \in Lookups, Reply(l) PROVE CurrentHolds'
  <2>1. pc[l] \in Underway /\ IsCurrent(l)  BY <1>6 DEF Reply, Live, Underway
  <2>2. current' = [current EXCEPT ![ask[l].tag] = IF IsCurrent(l) THEN None ELSE @]
    BY <1>6, <2>1 DEF Reply
  <2>3. released' = released \union {l}  BY <1>6 DEF Reply, Release
  <2> QED BY <1>6, <2>1, <2>2, <2>3, EndingKeeps DEF Reply
<1>7. ASSUME NEW l \in Lookups, GiveUp(l) \/ ReadFails(l) PROVE CurrentHolds'
  <2>1. pc[l] \in Underway  BY <1>7 DEF GiveUp, ReadFails, Underway
  <2>2. released' = released \union {l}  BY <1>7 DEF GiveUp, Finish, ReadFails, Release
  <2> QED BY <1>7, <2>1, <2>2, EndingKeeps DEF GiveUp, Finish, ReadFails
<1>8. ASSUME UNCHANGED <<pc, ask, first, released, current, answered>> PROVE CurrentHolds'
  BY <1>0, <1>8 DEF CurrentHolds, Reading
<1>9. ASSUME NEW t \in Tags, NEW o \in {"self", "other"}, Commit(t, o) PROVE CurrentHolds'
  BY <1>8, <1>9 DEF Commit
<1>10. ASSUME NEW m \in unsent, Announce(m) \/ NotifyLost(m) PROVE CurrentHolds'
  BY <1>8, <1>10 DEF Announce, NotifyLost
<1>11. CASE SocketCloses \/ CloseEvent \/ UNCHANGED vars
  BY <1>8, <1>11 DEF SocketCloses, CloseEvent, vars
<1> QED BY <1>1, <1>2, <1>3, <1>4, <1>5, <1>6, <1>7, <1>9, <1>10, <1>11 DEF Next, Progress

-----------------------------------------------------------------------------
(* The books on the socket.                                                *)

(* Nobody becomes or ceases to be current.                                 *)
LEMMA SameReadersKeepBooks ==
    ASSUME HubInv, UNCHANGED current,
           socket' = "open" => /\ socket = "open" /\ paused'.depth = paused.depth
                               /\ subscribed' = subscribed,
           socket' = "closed" => subscribed' = {} /\ paused' = NoPause
    PROVE  Books'
BY DEF HubInv, Books, PauseMatchesLookups, NoDeadSubscriber, ReadersListen, Reading

(* A lookup ends and lets its pause go.                                    *)
LEMMA ReleasingKeepsBooks ==
    ASSUME HubInv, NEW l \in Lookups, pc[l] \in Underway, NEW g, Release(l, g),
           current' = [current EXCEPT ![ask[l].tag] = IF IsCurrent(l) THEN None ELSE @],
           UNCHANGED <<socket, subscribed>>
    PROVE  Books'
<1>1. TypeOK /\ CurrentHolds /\ Books  BY DEF HubInv
<1>2. ask[l].tag \in Tags  BY <1>1 DEF CurrentHolds, Underway
<1>3. IsCurrent(l) <=> l \notin released  BY CurrentIsUnreleased
<1>4. CASE ~IsCurrent(l)
  <2>1. current' = current  BY <1>1, <1>2, <1>4 DEF TypeOK
  <2>2. paused' = paused  BY <1>3, <1>4 DEF Release
  <2> QED BY <1>1, <2>1, <2>2, SameReadersKeepBooks DEF Books, NoDeadSubscriber
<1>5. CASE IsCurrent(l)
  <2>1. current' = [current EXCEPT ![ask[l].tag] = None] /\ current[ask[l].tag] # None
    BY <1>2, <1>5, CurrentIsUnreleased, HubAssumption
  <2>2. /\ IsFiniteSet(Reading') /\ Cardinality(Reading) > 0 /\ Cardinality(Reading) \in Nat
        /\ Cardinality(Reading') = Cardinality(Reading) - 1 /\ Reading' = Reading \ {ask[l].tag}
    BY <1>2, <2>1, ReadingShrinks
  <2>3. socket = "open" => paused'.depth = Cardinality(Reading')
    <3> SUFFICES ASSUME socket = "open" PROVE paused'.depth = Cardinality(Reading')
      OBVIOUS
    <3>1. paused.depth = Cardinality(Reading)  BY PausedWhileReading
    <3>2. paused.depth > 1 => [paused EXCEPT !.depth = @ - 1].depth = paused.depth - 1
      BY <1>1 DEF TypeOK
    <3>3. NoPause.depth = 0  BY DEF NoPause
    <3>4. paused.depth \in Nat /\ paused.depth # 0  BY <2>2, <3>1
    <3>5. paused.depth > 1 => paused'.depth = paused.depth - 1
      BY <1>3, <1>5, <3>2, <3>4 DEF Release
    <3>6. ~(paused.depth > 1) => paused'.depth = 0
      BY <1>3, <1>5, <3>3, <3>4 DEF Release
    <3> QED BY <2>2, <3>1, <3>5, <3>6
  <2>4. socket = "closed" => subscribed' = {} /\ paused' = NoPause
    BY <1>1 DEF Books, NoDeadSubscriber, Release, NoPause
  <2>5. socket = "open" => Reading' \subseteq subscribed
    BY <1>1, <2>2 DEF Books, ReadersListen
  <2> QED BY <2>2, <2>3, <2>4, <2>5
          DEF Books, PauseMatchesLookups, NoDeadSubscriber, ReadersListen, Reading
<1> QED BY <1>4, <1>5

(* What a broadcast does to the pause of a socket that stays as it is.     *)
LEMMA FanOutKeepsDepth ==
    ASSUME HubInv, NEW p, FanOut(p)
    PROVE  /\ socket' = "open" => socket = "open" /\ paused'.depth = paused.depth
           /\ socket' = "closed" => socket = "closed" /\ paused' = paused
           /\ p.tag \in subscribed => socket # "closed"
<1>1. TypeOK /\ NoDeadSubscriber  BY DEF HubInv, Books
<1>2. [paused EXCEPT !.bytes = @ + 1, !.payloads = Append(@, p)].depth = paused.depth
  BY <1>1 DEF TypeOK
<1> QED BY <1>1, <1>2 DEF FanOut, NoDeadSubscriber, TypeOK

(* Every step keeps the hub's books those of the socket. *)
LEMMA BooksStep == HubInv /\ [Next]_vars => Books'
<1> SUFFICES ASSUME HubInv, [Next]_vars PROVE Books'  OBVIOUS
<1>0. TypeOK /\ CurrentHolds /\ Books  BY DEF HubInv
<1> USE DEF Goto, chain, conn, read, client
<1>1. ASSUME UNCHANGED <<current, paused, subscribed>>, socket' \in {socket, "closing"}
      PROVE  Books'
  BY <1>0, <1>1, SameReadersKeepBooks DEF Books, NoDeadSubscriber
<1>2. ASSUME NEW l \in Lookups, NEW t \in Tags, NEW n \in 0 .. MaxRev, Receive(l, t, n)
      PROVE  Books'
  BY <1>1, <1>2 DEF Receive
<1>3. ASSUME NEW l \in Lookups,
             \/ RejectClosed(l) \/ ResourcesRead(l)
             \/ AnchorAtFrom(l) \/ AnchorAtKeyframe(l) \/ ReadRows(l)
      PROVE  Books'
  BY <1>1, <1>3 DEF RejectClosed, ResourcesRead, AnchorAtFrom, AnchorAtKeyframe, ReadRows
<1>4. ASSUME NEW l \in Lookups, Register(l) PROVE Books'
  <2> DEFINE t == ask[l].tag
  <2>1. t \in Tags  BY <1>0, <1>4 DEF CurrentHolds, Register
  <2>2. socket = "open" /\ socket' = "open"  BY <1>4 DEF Register
  <2>3. /\ IsFiniteSet(Reading') /\ Reading' = Reading \union {t}
        /\ Cardinality(Reading') =
               IF current[t] = None THEN Cardinality(Reading) + 1 ELSE Cardinality(Reading)
    BY <1>4, <2>1, ReadingGrows DEF Register
  <2>4. paused.depth = Cardinality(Reading)  BY <2>2, PausedWhileReading
  <2>5. current[t] # None => current[t] \notin released
    BY <1>0, <2>1 DEF CurrentHolds, Reading
  <2>6. paused' = [paused EXCEPT !.depth = IF current[t] # None THEN @ ELSE @ + 1]
    BY <1>4, <2>5 DEF Register
  <2>7. paused'.depth = IF current[t] # None THEN paused.depth ELSE paused.depth + 1
    BY <1>0, <2>6 DEF TypeOK
  <2>9. paused'.depth = Cardinality(Reading')  BY <2>3, <2>4, <2>7
  <2>8. Reading' \subseteq subscribed'
    BY <1>0, <1>4, <2>2, <2>3 DEF Books, ReadersListen, Register
  <2> QED BY <2>2, <2>3, <2>8, <2>9
          DEF Books, PauseMatchesLookups, NoDeadSubscriber, ReadersListen, Reading
<1>5. ASSUME NEW l \in Lookups, Reply(l) PROVE Books'
  <2>1. pc[l] \in Underway /\ IsCurrent(l)  BY <1>5 DEF Reply, Live, Underway
  <2> QED BY <1>5, <2>1, ReleasingKeepsBooks DEF Reply
<1>6. ASSUME NEW l \in Lookups, GiveUp(l) PROVE Books'
  <2>1. pc[l] \in Underway  BY <1>6 DEF GiveUp, Underway
  <2> QED BY <1>6, <2>1, ReleasingKeepsBooks DEF GiveUp, Finish
<1>7. ASSUME NEW l \in Lookups, ReadFails(l) PROVE Books'
  <2>1. pc[l] \in Underway  BY <1>7 DEF ReadFails, Underway
  <2>2. CASE ~Live(l)  BY <1>7, <2>1, <2>2, ReleasingKeepsBooks DEF ReadFails
  <2>3. CASE Live(l)
    <3>1. ask[l].tag \in Tags  BY <1>0, <2>1 DEF CurrentHolds, Underway
    <3>2. current' = [current EXCEPT ![ask[l].tag] = None] /\ socket' = "closing"
      BY <1>7, <2>3 DEF ReadFails, Live
    <3>3. IsFiniteSet(Reading')  BY <3>1, <3>2, ReadingShrinks
    <3> QED BY <3>2, <3>3 DEF Books, PauseMatchesLookups, NoDeadSubscriber, ReadersListen
  <2> QED BY <2>2, <2>3
<1>8. ASSUME NEW t \in Tags, NEW o \in {"self", "other"}, Commit(t, o) PROVE Books'
  BY <1>1, <1>8 DEF Commit
<1>9. ASSUME NEW m \in unsent, Announce(m) PROVE Books'
  <2>1. CASE m.from = "self"  BY <1>1, <1>9, <2>1 DEF Announce
  <2>2. CASE m.from # "self"
    <3> DEFINE p == [tag |-> m.tag, rev |-> m.rev]
    <3>1. FanOut(p) /\ UNCHANGED <<current, subscribed>>  BY <1>9, <2>2 DEF Announce
    <3> HIDE DEF p
    <3>2. /\ socket' = "open" => socket = "open" /\ paused'.depth = paused.depth
          /\ socket' = "closed" => socket = "closed" /\ paused' = paused
      BY <3>1, FanOutKeepsDepth
    <3> QED BY <1>0, <3>1, <3>2, SameReadersKeepBooks DEF Books, NoDeadSubscriber
  <2> QED BY <2>1, <2>2
<1>10. ASSUME NEW m \in unsent, NotifyLost(m) PROVE Books'
  BY <1>1, <1>10 DEF NotifyLost
<1>11. CASE SocketCloses \/ UNCHANGED vars  BY <1>1, <1>11 DEF SocketCloses, vars
<1>12. CASE CloseEvent  BY <1>12, SameReadersKeepBooks DEF CloseEvent
<1> QED BY <1>2, <1>3, <1>4, <1>5, <1>6, <1>7, <1>8, <1>9, <1>10, <1>11, <1>12
        DEF Next, Progress

(* A fresh connection satisfies the hub's invariant. *)
LEMMA HubInit == Init => HubInv
<1> SUFFICES ASSUME Init PROVE HubInv  OBVIOUS
<1> USE HubAssumption DEF Init
<1>1. TypeOK
  <2>1. paused \in Pauses  BY NoPauseIsOne
  <2> QED BY <2>1 DEF TypeOK, Pauses
<1>2. Reading = {}  BY DEF Reading
<1>3. CurrentHolds  BY <1>2 DEF CurrentHolds, Underway
<1>4. Books
  <2>1. IsFiniteSet({}) /\ Cardinality({}) = 0  BY FS_EmptySet
  <2> QED BY <1>2, <2>1 DEF Books, PauseMatchesLookups, NoDeadSubscriber, ReadersListen, Reading, NoPause
<1> QED BY <1>1, <1>3, <1>4 DEF HubInv

(* Every step keeps the hub's invariant. *)
LEMMA HubStep == HubInv /\ [Next]_vars => HubInv'
BY TypeStep, CurrentStep, BooksStep DEF HubInv

(* The hub's invariant holds in every state. *)
LEMMA HubInvHolds == Spec => []HubInv
BY HubInit, HubStep, PTL DEF Spec

(* Every variable of the hub keeps the shape the code gives it; the pause  *)
(* depth never goes below zero and the buffer never exceeds its limit.     *)
THEOREM TypeCorrect == Spec => []TypeOK
<1>1. HubInv => TypeOK  BY DEF HubInv
<1> QED BY <1>1, HubInvHolds, PTL

(* For every number of workspaces and of lookups that replace one another, *)
(* fail, hang or outlive the socket: pauseBroadcasts and its releases keep *)
(* the depth of an open socket at the number of workspaces being read, and *)
(* unsubscribeAll leaves nothing of a closed one behind.                   *)
THEOREM HubMatchesItsSocket == Spec => []HubMatchesSocket
<1>1. HubInv => HubMatchesSocket  BY DEF HubInv, Books, HubMatchesSocket
<1> QED BY <1>1, HubInvHolds, PTL

-----------------------------------------------------------------------------
(* The seam between a catch-up and the broadcasts.                         *)

LEMMA AppendedRevisions ==
    ASSUME NEW payloads \in Seq(Payload), NEW p \in Payload, NEW t
    PROVE  /\ RevisionsIn(payloads, t) \subseteq RevisionsIn(Append(payloads, p), t)
           /\ p.tag = t => p.rev \in RevisionsIn(Append(payloads, p), t)
<1>1. /\ Append(payloads, p) \in Seq(Payload) /\ Len(payloads) \in Nat
      /\ Len(Append(payloads, p)) = Len(payloads) + 1
      /\ \A n \in 1 .. Len(payloads) : Append(payloads, p)[n] = payloads[n]
      /\ Append(payloads, p)[Len(payloads) + 1] = p
  BY AppendProperties, LenProperties
<1>2. /\ DOMAIN payloads = 1 .. Len(payloads)
      /\ DOMAIN Append(payloads, p) = 1 .. Len(payloads) + 1
  BY <1>1, LenProperties
<1>3. ASSUME NEW r \in RevisionsIn(payloads, t)
      PROVE  r \in RevisionsIn(Append(payloads, p), t)
  <2>1. PICK n \in 1 .. Len(payloads) : payloads[n].tag = t /\ payloads[n].rev = r
    BY <1>2, <1>3 DEF RevisionsIn
  <2>2. n \in DOMAIN Append(payloads, p)  BY <1>1, <1>2, <2>1
  <2> QED BY <1>1, <2>1, <2>2 DEF RevisionsIn
<1>4. ASSUME p.tag = t PROVE p.rev \in RevisionsIn(Append(payloads, p), t)
  <2>1. Len(payloads) + 1 \in DOMAIN Append(payloads, p)  BY <1>1, <1>2
  <2> QED BY <1>1, <1>4, <2>1 DEF RevisionsIn
<1> QED BY <1>3, <1>4

(* What a Release lets through: everything buffered, or nothing.           *)
LEMMA ReleaseLosesNothing ==
    ASSUME HubInv, NEW l \in Lookups, NEW g \in Holdings, Release(l, g), socket = "open",
           NEW t \in Tags
    PROVE  /\ g[t] \subseteq got'[t]
           /\ RevisionsIn(paused.payloads, t) \subseteq got'[t] \union RevisionsIn(paused'.payloads, t)
<1>1. paused \in Pauses  BY DEF HubInv, TypeOK, Pauses
<1>2. [paused EXCEPT !.depth = @ - 1].payloads = paused.payloads  BY <1>1 DEF Pauses
<1>3. Flushed(g)[t] = g[t] \union RevisionsIn(paused.payloads, t)  BY DEF Flushed
<1> QED BY <1>2, <1>3 DEF Release

(* A step that takes nothing from the client and drops nothing on its way. *)
LEMMA JoinedGrows ==
    ASSUME NEW t \in Tags, NEW r, Joined(t, r),
           got[t] \subseteq got'[t], answered \subseteq answered',
           \A l \in answered : ask'[l] = ask[l],
           \A m \in unsent \ unsent' : m.tag = t =>
               \/ m.rev \in got'[t] \union RevisionsIn(paused'.payloads, t)
               \/ [tag |-> t, rev |-> m.rev] \in lost',
           RevisionsIn(paused.payloads, t) \subseteq got'[t] \union RevisionsIn(paused'.payloads, t),
           lost \subseteq lost'
    PROVE  Joined(t, r)'
<1>1. CASE Covered(t, r)  BY <1>1 DEF Joined, Covered
<1>2. CASE \E m \in unsent : m.tag = t /\ m.rev = r
  <2>1. PICK m \in unsent : m.tag = t /\ m.rev = r  BY <1>2
  <2>2. CASE m \in unsent'  BY <2>1, <2>2 DEF Joined
  <2>3. CASE m \notin unsent'  BY <2>1, <2>3 DEF Joined, Covered
  <2> QED BY <2>2, <2>3
<1>3. CASE r \in RevisionsIn(paused.payloads, t)  BY <1>3 DEF Joined, Covered
<1>4. CASE [tag |-> t, rev |-> r] \in lost  BY <1>4 DEF Joined
<1> QED BY <1>1, <1>2, <1>3, <1>4 DEF Joined

(* A socket never opens again.                                             *)
LEMMA OpenWasOpen == [Next]_vars /\ socket' = "open" => socket = "open"
<1> SUFFICES ASSUME [Next]_vars, socket' = "open" PROVE socket = "open"  OBVIOUS
<1> USE DEF conn
<1>1. ASSUME NEW l \in Lookups, NEW t \in Tags, NEW n \in 0 .. MaxRev, Receive(l, t, n)
      PROVE  socket = "open"
  BY <1>1 DEF Receive
<1>2. ASSUME NEW l \in Lookups, Progress(l) PROVE socket = "open"
  BY <1>2 DEF Progress, RejectClosed, Register, ResourcesRead, AnchorAtFrom, AnchorAtKeyframe,
              ReadRows, Reply, Live, GiveUp
<1>3. ASSUME NEW l \in Lookups, ReadFails(l) PROVE socket = "open"
  BY <1>3 DEF ReadFails, Live
<1>4. ASSUME NEW t \in Tags, NEW o \in {"self", "other"}, Commit(t, o) PROVE socket = "open"
  BY <1>4 DEF Commit
<1>5. ASSUME NEW m \in unsent, Announce(m) \/ NotifyLost(m) PROVE socket = "open"
  BY <1>5 DEF Announce, FanOut, NotifyLost
<1>6. CASE SocketCloses \/ CloseEvent \/ UNCHANGED vars
  BY <1>6 DEF SocketCloses, CloseEvent, vars
<1> QED BY <1>1, <1>2, <1>3, <1>4, <1>5, <1>6 DEF Next

(* On a socket that stays open, what has joined stays joined: a broadcast  *)
(* reaches the client or the buffer, a buffer is emptied to the client.    *)
LEMMA JoinedStays ==
    ASSUME HubInv, [Next]_vars, socket' = "open", NEW t \in Tags, t \in subscribed, NEW r,
           Joined(t, r)
    PROVE  Joined(t, r)'
<1>0. TypeOK /\ CurrentHolds /\ socket = "open"  BY OpenWasOpen DEF HubInv
<1> USE DEF Goto, chain, conn, read, client
<1>1. got \in Holdings /\ paused \in Pauses  BY <1>0 DEF TypeOK, Holdings, Pauses
<1>2. ASSUME UNCHANGED <<lost, ask, paused, client>>, unsent \subseteq unsent'
      PROVE  Joined(t, r)'
  BY <1>2, JoinedGrows
<1>3. ASSUME NEW l \in Lookups, NEW s \in Tags, NEW n \in 0 .. MaxRev, Receive(l, s, n)
      PROVE  Joined(t, r)'
  <2>1. l \notin answered  BY <1>0, <1>3 DEF CurrentHolds, Receive
  <2>2. \A k \in answered : ask'[k] = ask[k]  BY <1>0, <1>3, <2>1 DEF TypeOK, Receive
  <2>3. UNCHANGED <<lost, unsent, paused, got, answered>>  BY <1>3 DEF Receive
  <2> QED BY <2>2, <2>3, JoinedGrows
<1>4. ASSUME NEW l \in Lookups,
             \/ RejectClosed(l) \/ ResourcesRead(l)
             \/ AnchorAtFrom(l) \/ AnchorAtKeyframe(l) \/ ReadRows(l)
      PROVE  Joined(t, r)'
  BY <1>2, <1>4 DEF RejectClosed, ResourcesRead, AnchorAtFrom, AnchorAtKeyframe, ReadRows
<1>5. ASSUME NEW l \in Lookups, Register(l) PROVE Joined(t, r)'
  <2>1. paused'.payloads = paused.payloads  BY <1>1, <1>5 DEF Register, Pauses
  <2> QED BY <1>5, <2>1, JoinedGrows DEF Register
<1>6. ASSUME NEW l \in Lookups, NEW g \in Holdings, Release(l, g), got[t] \subseteq g[t],
             UNCHANGED <<lost, unsent, ask>>, answered \subseteq answered'
      PROVE  Joined(t, r)'
  <2>1. /\ got[t] \subseteq got'[t]
        /\ RevisionsIn(paused.payloads, t)
               \subseteq got'[t] \union RevisionsIn(paused'.payloads, t)
    BY <1>0, <1>6, ReleaseLosesNothing
  <2> QED BY <1>6, <2>1, JoinedGrows
<1>7. ASSUME NEW l \in Lookups, Reply(l) PROVE Joined(t, r)'
  <2> DEFINE g == Received(got, ask[l].tag, first[l] .. upto[l])
  <2>1. first[l] .. upto[l] \subseteq 1 .. MaxRev  BY <1>7, RepliesInRange DEF Reply
  <2>2. g \in Holdings /\ got[t] \subseteq g[t]
    BY <1>1, <2>1 DEF Received, Holdings
  <2> HIDE DEF g
  <2>3. Release(l, g)  BY <1>7 DEF Reply, g
  <2> QED BY <1>6, <1>7, <2>2, <2>3 DEF Reply
<1>8. ASSUME NEW l \in Lookups, GiveUp(l) \/ ReadFails(l) PROVE Joined(t, r)'
  <2>1. Release(l, got)  BY <1>8 DEF GiveUp, Finish, ReadFails
  <2> QED BY <1>1, <1>6, <1>8, <2>1 DEF GiveUp, Finish, ReadFails
<1>9. ASSUME NEW s \in Tags, NEW o \in {"self", "other"}, Commit(s, o) PROVE Joined(t, r)'
  BY <1>2, <1>9 DEF Commit
<1>10. ASSUME NEW m \in unsent, Announce(m) PROVE Joined(t, r)'
  <2> DEFINE p == [tag |-> m.tag, rev |-> m.rev]
  <2>1. m \in Message /\ p \in Payload  BY <1>0 DEF TypeOK, Message, Payload
  <2>2. UNCHANGED <<lost, ask, answered>> /\ unsent' = unsent \ {m}  BY <1>10 DEF Announce
  <2>3. /\ got[t] \subseteq got'[t]
        /\ RevisionsIn(paused.payloads, t)
               \subseteq got'[t] \union RevisionsIn(paused'.payloads, t)
        /\ m.tag = t => m.rev \in got'[t] \union RevisionsIn(paused'.payloads, t)
    <3>1. /\ got[t] \subseteq Received(got, m.tag, {m.rev})[t]
          /\ m.tag = t => m.rev \in Received(got, m.tag, {m.rev})[t]
      BY <1>1, <2>1 DEF Received, Holdings, Message
    <3>2. CASE m.from = "self"
      BY <1>0, <1>10, <3>1, <3>2 DEF Announce
    <3>3. CASE m.from # "self"
      <4>1. FanOut(p)  BY <1>10, <3>3 DEF Announce
      <4>2. p.tag = m.tag /\ p.rev = m.rev  OBVIOUS
      <4> HIDE DEF p
      <4>3. CASE p.tag \notin subscribed  BY <4>1, <4>2, <4>3 DEF FanOut
      <4>4. CASE p.tag \in subscribed /\ paused.depth = 0
        BY <1>0, <3>1, <4>1, <4>2, <4>4 DEF FanOut
      <4>5. CASE p.tag \in subscribed /\ paused.depth # 0
        <5>1. paused' = [paused EXCEPT !.bytes = @ + 1, !.payloads = Append(@, p)] /\ got' = got
          BY <1>0, <4>1, <4>5 DEF FanOut
        <5>2. paused'.payloads = Append(paused.payloads, p)  BY <1>1, <5>1 DEF Pauses
        <5>3. paused.payloads \in Seq(Payload)  BY <1>1 DEF Pauses
        <5>4. /\ RevisionsIn(paused.payloads, t) \subseteq RevisionsIn(paused'.payloads, t)
              /\ p.tag = t => p.rev \in RevisionsIn(paused'.payloads, t)
          BY <2>1, <5>2, <5>3, AppendedRevisions
        <5> QED BY <4>2, <5>1, <5>4
      <4> QED BY <4>3, <4>4, <4>5
    <3> QED BY <3>2, <3>3
  <2> QED BY <2>2, <2>3, JoinedGrows
<1>11. ASSUME NEW m \in unsent, NotifyLost(m) PROVE Joined(t, r)'
  BY <1>11, JoinedGrows DEF NotifyLost
<1>12. CASE SocketCloses \/ CloseEvent  BY <1>12 DEF SocketCloses, CloseEvent
<1>13. CASE UNCHANGED vars  BY <1>2, <1>13 DEF vars
<1> QED BY <1>3, <1>4, <1>5, <1>7, <1>8, <1>9, <1>10, <1>11, <1>12, <1>13 DEF Next, Progress

(* A chain only grows, by revisions whose broadcast is still to come.      *)
LEMMA ChainGrows ==
    ASSUME TypeOK, [Next]_vars, NEW t \in Tags
    PROVE  /\ head[t] \in Nat /\ head'[t] \in Nat /\ head[t] <= head'[t]
           /\ \A r \in 1 .. head'[t] : r \in 1 .. head[t] \/ Joined(t, r)'
<1> USE DEF chain, conn
<1>0. head[t] \in Nat  BY HubAssumption DEF TypeOK
<1>1. ASSUME NEW s \in Tags, NEW o \in {"self", "other"}, Commit(s, o)
      PROVE  /\ head'[t] \in Nat /\ head[t] <= head'[t]
             /\ \A r \in 1 .. head'[t] : r \in 1 .. head[t] \/ Joined(t, r)'
  <2>1. head'[t] = IF s = t THEN head[t] + 1 ELSE head[t]  BY <1>1 DEF Commit, TypeOK
  <2>2. [tag |-> s, rev |-> head[s] + 1, from |-> o] \in unsent'  BY <1>1 DEF Commit
  <2>3. ASSUME NEW r, r = head[t] + 1, s = t PROVE Joined(t, r)'  BY <2>2, <2>3 DEF Joined
  <2>4. \A r \in 1 .. head'[t] : r \in 1 .. head[t] \/ (s = t /\ r = head[t] + 1)
    BY <1>0, <2>1
  <2> QED BY <1>0, <2>1, <2>3, <2>4
<1>2. CASE UNCHANGED head  BY <1>0, <1>2
<1>3. ASSUME NEW l \in Lookups, NEW s \in Tags, NEW n \in 0 .. MaxRev, Receive(l, s, n)
      PROVE  UNCHANGED head
  BY <1>3 DEF Receive
<1>4. ASSUME NEW l \in Lookups, Progress(l) \/ ReadFails(l) PROVE UNCHANGED head
  BY <1>4 DEF Progress, RejectClosed, Register, ResourcesRead, AnchorAtFrom, AnchorAtKeyframe,
              ReadRows, Reply, GiveUp, Finish, ReadFails
<1>5. ASSUME NEW m \in unsent, Announce(m) \/ NotifyLost(m) PROVE UNCHANGED head
  BY <1>5 DEF Announce, NotifyLost
<1>6. CASE SocketCloses \/ CloseEvent \/ UNCHANGED vars
  BY <1>2, <1>6 DEF SocketCloses, CloseEvent, vars
<1> QED BY <1>0, <1>1, <1>2, <1>3, <1>4, <1>5, <1>6 DEF Next

(* Every catch-up begins where it may.                                     *)
LEMMA EntryStep == HubInv /\ EntrySound /\ [Next]_vars => EntrySound'
<1> SUFFICES ASSUME HubInv, EntrySound, [Next]_vars PROVE EntrySound'  OBVIOUS
<1> USE DEF Goto, chain, conn, read, client
<1>0. TypeOK /\ CurrentHolds  BY DEF HubInv
<1>1. ASSUME NEW k \in Lookups, pc'[k] \in {"rows", "reply"}, pc'[k] = pc[k], ask'[k] = ask[k],
             first'[k] = first[k], upto'[k] = upto[k]
      PROVE  /\ pc'[k] = "rows" => EntryOf(k, head[ask[k].tag])'
             /\ pc'[k] = "reply" => EntryOf(k, upto[k])'
  <2>1. ask[k].tag \in Tags  BY <1>0, <1>1 DEF CurrentHolds
  <2>2. /\ head[ask[k].tag] \in Nat /\ head'[ask[k].tag] \in Nat
        /\ head[ask[k].tag] <= head'[ask[k].tag]
    BY <1>0, <2>1, ChainGrows
  <2>3. first[k] \in Nat  BY <1>0, HubAssumption DEF TypeOK
  <2>4. first[k] <= head[ask[k].tag] => first[k] <= head'[ask[k].tag]  BY <2>2, <2>3
  <2> QED BY <1>1, <2>4 DEF EntrySound, EntryOf
<1>2. ASSUME NEW l \in Lookups,
             \A k \in Lookups \ {l} : /\ pc'[k] = pc[k] /\ ask'[k] = ask[k]
                                      /\ first'[k] = first[k] /\ upto'[k] = upto[k],
             pc'[l] = "rows" => EntryOf(l, head[ask[l].tag])',
             pc'[l] = "reply" => EntryOf(l, upto[l])'
      PROVE  EntrySound'
  BY <1>1, <1>2 DEF EntrySound
<1>3. ASSUME NEW l \in Lookups, NEW t \in Tags, NEW n \in 0 .. MaxRev, Receive(l, t, n)
      PROVE  EntrySound'
  <2>1. /\ pc'[l] = "verify" /\ UNCHANGED <<first, upto>>
        /\ \A k \in Lookups \ {l} : pc'[k] = pc[k] /\ ask'[k] = ask[k]
    BY <1>0, <1>3 DEF TypeOK, Receive
  <2> QED BY <1>2, <2>1
<1>4. ASSUME NEW l \in Lookups,
             \/ RejectClosed(l) \/ Register(l) \/ ResourcesRead(l)
             \/ Reply(l) \/ GiveUp(l) \/ ReadFails(l)
      PROVE  EntrySound'
  <2>1. /\ pc'[l] \in {"done", "resources", "anchor"} /\ UNCHANGED <<ask, first, upto>>
        /\ \A k \in Lookups \ {l} : pc'[k] = pc[k]
    BY <1>0, <1>4
    DEF TypeOK, RejectClosed, Register, ResourcesRead, Reply, GiveUp, Finish, ReadFails
  <2> QED BY <1>2, <2>1
<1>5. ASSUME NEW l \in Lookups, AnchorAtFrom(l) PROVE EntrySound'
  <2>1. /\ pc'[l] = "rows" /\ UNCHANGED <<ask, upto>> /\ first'[l] = ask[l].from + 1
        /\ \A k \in Lookups \ {l} : pc'[k] = pc[k] /\ first'[k] = first[k]
    BY <1>0, <1>5 DEF TypeOK, AnchorAtFrom
  <2> QED BY <1>2, <2>1 DEF EntryOf
<1>6. ASSUME NEW l \in Lookups, AnchorAtKeyframe(l) PROVE EntrySound'
  <2>1. /\ pc'[l] = "rows" /\ UNCHANGED <<ask, upto, head>>
        /\ first'[l] = LastKeyframe(head[ask[l].tag])
        /\ \A k \in Lookups \ {l} : pc'[k] = pc[k] /\ first'[k] = first[k]
    BY <1>0, <1>6 DEF TypeOK, AnchorAtKeyframe
  <2>2. ask[l].tag \in Tags  BY <1>0, <1>6 DEF CurrentHolds, AnchorAtKeyframe
  <2>3. head[ask[l].tag] \in Nat  BY <1>0, <2>2, ChainGrows
  <2>4. first'[l] = 1 \/ (first'[l] \in Keyframes /\ first'[l] <= head[ask[l].tag])
    BY <2>1, <2>3, LastKeyframeIsOne
  <2> QED BY <1>2, <2>1, <2>4 DEF EntryOf
<1>7. ASSUME NEW l \in Lookups, ReadRows(l) PROVE EntrySound'
  <2>1. /\ pc[l] = "rows" /\ pc'[l] = "reply" /\ UNCHANGED <<ask, first>>
        /\ upto'[l] = head[ask[l].tag]
        /\ \A k \in Lookups \ {l} : pc'[k] = pc[k] /\ upto'[k] = upto[k]
    BY <1>0, <1>7 DEF TypeOK, ReadRows
  <2>2. EntryOf(l, upto[l])'  BY <2>1 DEF EntrySound, EntryOf
  <2> QED BY <1>2, <2>1, <2>2
<1>8. ASSUME UNCHANGED <<pc, ask, first, upto>> PROVE EntrySound'
  BY <1>1, <1>8 DEF EntrySound
<1>9. ASSUME NEW t \in Tags, NEW o \in {"self", "other"}, Commit(t, o) PROVE EntrySound'
  BY <1>8, <1>9 DEF Commit
<1>10. ASSUME NEW m \in unsent, Announce(m) \/ NotifyLost(m) PROVE EntrySound'
  BY <1>8, <1>10 DEF Announce, NotifyLost
<1>11. CASE SocketCloses \/ CloseEvent \/ UNCHANGED vars
  BY <1>8, <1>11 DEF SocketCloses, CloseEvent, vars
<1> QED BY <1>3, <1>4, <1>5, <1>6, <1>7, <1>9, <1>10, <1>11 DEF Next, Progress

(* A lookup that is current after a step was current before it, or has     *)
(* just registered.                                                        *)
LEMMA WhoIsCurrent ==
    ASSUME HubInv, [Next]_vars, NEW t \in Tags
    PROVE  \/ current'[t] = current[t] /\ (t \in subscribed' => t \in subscribed)
           \/ \E l \in Lookups : Register(l) /\ ask[l].tag = t /\ current'[t] = l
           \/ \E l \in Lookups : /\ Reply(l) \/ GiveUp(l) \/ ReadFails(l)
                                 /\ current[t] = l /\ ask[l].tag = t /\ current'[t] = None
                                 /\ UNCHANGED subscribed
<1> DEFINE Same == current'[t] = current[t] /\ (t \in subscribed' => t \in subscribed)
           Joins == \E l \in Lookups : Register(l) /\ ask[l].tag = t /\ current'[t] = l
           Leaves == \E l \in Lookups : /\ Reply(l) \/ GiveUp(l) \/ ReadFails(l)
                                       /\ current[t] = l /\ ask[l].tag = t /\ current'[t] = None
                                       /\ UNCHANGED subscribed
<1> SUFFICES Same \/ Joins \/ Leaves  OBVIOUS
<1> USE DEF Goto, chain, conn, read, client
<1>0. TypeOK /\ CurrentHolds  BY DEF HubInv
<1>1. ASSUME NEW l \in Lookups, Register(l) PROVE Same \/ Joins
  <2>1. ask[l].tag \in Tags  BY <1>0, <1>1 DEF CurrentHolds, Register
  <2>2. CASE ask[l].tag = t  BY <1>0, <1>1, <2>2 DEF Register, TypeOK
  <2>3. CASE ask[l].tag # t  BY <1>0, <1>1, <2>1, <2>3 DEF Register, TypeOK
  <2> QED BY <2>2, <2>3
<1>2. ASSUME NEW l \in Lookups, Reply(l) \/ GiveUp(l) \/ ReadFails(l) PROVE Same \/ Leaves
  <2>1. pc[l] \in Underway /\ UNCHANGED subscribed
    BY <1>2 DEF Reply, GiveUp, Finish, ReadFails, Underway
  <2>2. ask[l].tag \in Tags  BY <1>0, <2>1 DEF CurrentHolds, Underway
  <2>3. current' = [current EXCEPT ![ask[l].tag] = IF IsCurrent(l) THEN None ELSE @]
    BY <1>2 DEF Reply, GiveUp, Finish, ReadFails, Live
  <2>4. IsCurrent(l) => current[ask[l].tag] = l  BY <2>2, CurrentIsUnreleased
  <2>5. CASE ask[l].tag = t /\ IsCurrent(l)  BY <1>0, <1>2, <2>1, <2>3, <2>4, <2>5 DEF TypeOK
  <2>6. CASE ~(ask[l].tag = t /\ IsCurrent(l))  BY <1>0, <2>1, <2>3, <2>6 DEF TypeOK
  <2> QED BY <2>5, <2>6
<1>3. ASSUME NEW l \in Lookups, NEW s \in Tags, NEW n \in 0 .. MaxRev, Receive(l, s, n)
      PROVE  Same
  BY <1>3 DEF Receive
<1>4. ASSUME NEW l \in Lookups,
             \/ RejectClosed(l) \/ ResourcesRead(l)
             \/ AnchorAtFrom(l) \/ AnchorAtKeyframe(l) \/ ReadRows(l)
      PROVE  Same
  BY <1>4 DEF RejectClosed, ResourcesRead, AnchorAtFrom, AnchorAtKeyframe, ReadRows
<1>5. ASSUME NEW s \in Tags, NEW o \in {"self", "other"}, Commit(s, o) PROVE Same
  BY <1>5 DEF Commit
<1>6. ASSUME NEW m \in unsent, Announce(m) \/ NotifyLost(m) PROVE Same
  BY <1>6 DEF Announce, NotifyLost
<1>7. CASE SocketCloses \/ CloseEvent \/ UNCHANGED vars
  BY <1>7 DEF SocketCloses, CloseEvent, vars
<1> QED BY <1>1, <1>2, <1>3, <1>4, <1>5, <1>6, <1>7 DEF Next, Progress

(* A lookup about to reply was so before, or has just read the rows.       *)
LEMMA WhoIsToReply ==
    ASSUME HubInv, [Next]_vars, NEW l \in Lookups, pc'[l] = "reply"
    PROVE  \/ pc[l] = "reply" /\ upto'[l] = upto[l]
           \/ /\ ReadRows(l) /\ ask[l].tag \in Tags
              /\ upto'[l] = head[ask[l].tag] /\ UNCHANGED <<head, current>>
<1> DEFINE Same == pc[l] = "reply" /\ upto'[l] = upto[l]
<1> USE DEF Goto, chain, conn, read, client
<1>0. TypeOK /\ CurrentHolds  BY DEF HubInv
<1>1. ASSUME NEW k \in Lookups, NEW s \in Tags, NEW n \in 0 .. MaxRev, Receive(k, s, n)
      PROVE  Same
  BY <1>0, <1>1 DEF Receive, TypeOK
<1>2. ASSUME NEW k \in Lookups,
             \/ RejectClosed(k) \/ Register(k) \/ ResourcesRead(k)
             \/ AnchorAtFrom(k) \/ AnchorAtKeyframe(k)
             \/ Reply(k) \/ GiveUp(k) \/ ReadFails(k)
      PROVE  Same
  <2>1. /\ pc'[k] # "reply" /\ UNCHANGED upto
        /\ \A i \in Lookups \ {k} : pc'[i] = pc[i]
    BY <1>0, <1>2
    DEF TypeOK, RejectClosed, Register, ResourcesRead, AnchorAtFrom, AnchorAtKeyframe,
        Reply, GiveUp, Finish, ReadFails
  <2> QED BY <2>1
<1>3. ASSUME NEW k \in Lookups, ReadRows(k)
      PROVE  \/ Same
             \/ /\ ReadRows(l) /\ ask[l].tag \in Tags
                /\ upto'[l] = head[ask[l].tag] /\ UNCHANGED <<head, current>>
  <2>1. CASE k = l  BY <1>0, <1>3, <2>1 DEF ReadRows, TypeOK, CurrentHolds
  <2>2. CASE k # l  BY <1>0, <1>3, <2>2 DEF ReadRows, TypeOK
  <2> QED BY <2>1, <2>2
<1>4. ASSUME NEW s \in Tags, NEW o \in {"self", "other"}, Commit(s, o) PROVE Same
  BY <1>4 DEF Commit
<1>5. ASSUME NEW m \in unsent, Announce(m) \/ NotifyLost(m) PROVE Same
  BY <1>5 DEF Announce, NotifyLost
<1>6. CASE SocketCloses \/ CloseEvent \/ UNCHANGED vars
  BY <1>6 DEF SocketCloses, CloseEvent, vars
<1> QED BY <1>1, <1>2, <1>3, <1>4, <1>5, <1>6 DEF Next, Progress

(* Every step leaves what was committed behind a lookup's rows on its way. *)
LEMMA TailStep == HubInv /\ SeamInv /\ [Next]_vars => TailPending'
<1> SUFFICES ASSUME HubInv, SeamInv, [Next]_vars,
                    NEW t \in Reading', socket' = "open", pc'[current'[t]] = "reply",
                    NEW r \in 1 .. head'[t], r > upto'[current'[t]]
             PROVE  Joined(t, r)'
  BY DEF TailPending
<1> DEFINE l == current'[t]
<1>0. /\ TypeOK /\ CurrentHolds /\ t \in Tags /\ l # None /\ socket = "open"
      /\ ReadersListen
  BY OpenWasOpen DEF HubInv, Books, Reading
<1>1. l \in Lookups  BY <1>0, TypeStep DEF TypeOK
<1>2. current[t] = l
  <2>1. ASSUME NEW k \in Lookups, Register(k), current'[t] = k PROVE FALSE
    BY <1>0, <1>1, <2>1 DEF Register, Goto, TypeOK
  <2> QED BY <1>0, <2>1, WhoIsCurrent
<1>3. t \in Reading /\ t \in subscribed /\ ask[l].tag = t
  BY <1>0, <1>2 DEF Reading, ReadersListen, CurrentHolds
<1>4. CASE pc[l] = "reply" /\ upto'[l] = upto[l]
  <2>1. CASE r \in 1 .. head[t]
    <3>1. Joined(t, r)  BY <1>0, <1>2, <1>3, <1>4, <2>1 DEF SeamInv, TailPending
    <3> QED BY <1>0, <1>3, <3>1, JoinedStays
  <2> QED BY <1>0, <2>1, ChainGrows
<1>5. CASE upto'[l] = head[ask[l].tag] /\ UNCHANGED head
  BY <1>0, <1>3, <1>5, ChainGrows
<1> QED BY <1>1, <1>4, <1>5, WhoIsToReply

(* The catch-up of a current lookup, and what it leaves to the broadcasts, *)
(* make up the whole chain.                                                *)
LEMMA ReplyLeavesNoGap ==
    ASSUME HubInv, SeamInv, [Next]_vars, NEW l \in Lookups, Reply(l), socket' = "open",
           NEW t \in Tags, ask[l].tag = t
    PROVE  \A r \in 1 .. head'[t] : Joined(t, r)'
<1> DEFINE g == Received(got, t, first[l] .. upto[l])
<1>0. TypeOK /\ CurrentHolds  BY DEF HubInv
<1>1. /\ pc[l] = "reply" /\ socket = "open" /\ IsCurrent(l) /\ Release(l, g)
      /\ answered' = answered \union {l} /\ UNCHANGED <<head, ask>>
  BY DEF Reply, Live, Goto, chain, read
<1>2. t \in Reading /\ current[t] = l /\ t \in subscribed
  <2>1. current[t] = l  BY <1>1, CurrentIsUnreleased
  <2> QED BY <1>1, <2>1, HubAssumption DEF HubInv, Books, ReadersListen, Reading
<1>3. /\ first[l] \in Nat /\ first[l] >= 1 /\ upto[l] \in Nat /\ ask[l].from \in Nat
      /\ head[t] \in Nat
  BY <1>0, <1>1, <1>2, ChainGrows, HubAssumption DEF TypeOK, CurrentHolds
<1>4. \A k \in first[l] .. upto[l] : k \in got'[t]
  <2>1. first[l] .. upto[l] \subseteq 1 .. MaxRev  BY <1>1, RepliesInRange
  <2>2. g \in Holdings /\ first[l] .. upto[l] \subseteq g[t]
    BY <1>0, <1>2, <2>1 DEF Received, Holdings, TypeOK
  <2> HIDE DEF g
  <2>3. g[t] \subseteq got'[t]  BY <1>1, <1>2, <2>2, ReleaseLosesNothing
  <2> QED BY <2>2, <2>3
<1>5. EntryOf(l, upto[l])  BY <1>1 DEF SeamInv, EntrySound
<1>6. ASSUME NEW r \in 1 .. head[t] PROVE Joined(t, r)'
  <2>1. CASE r > upto[l]
    <3>1. Joined(t, r)  BY <1>1, <1>2, <2>1 DEF SeamInv, TailPending
    <3> QED BY <1>2, <3>1, JoinedStays
  <2>2. CASE r \in first[l] .. upto[l]
    <3>1. r \in got'[t]  BY <1>4, <2>2
    <3> QED BY <1>1, <3>1 DEF Joined, Covered
  <2>3. CASE r < first[l] /\ r <= upto[l]
    <3>1. CASE first[l] = ask[l].from + 1
      <4>1. r <= ask[l].from  BY <1>3, <2>3, <3>1
      <4>2. l \in answered' /\ ask'[l].tag = t /\ r <= ask'[l].from  BY <1>1, <4>1
      <4> QED BY <4>2 DEF Joined, Covered
    <3>2. CASE first[l] = 1  BY <1>3, <2>3, <3>2
    <3>3. CASE first[l] \in Keyframes /\ first[l] <= upto[l]
      <4>1. first[l] \in got'[t] /\ first[l] >= r  BY <1>3, <1>4, <2>3, <3>3
      <4> QED BY <1>1, <3>3, <4>1 DEF Joined, Covered
    <3> QED BY <1>5, <3>1, <3>2, <3>3 DEF EntryOf
  <2> QED BY <1>3, <2>1, <2>2, <2>3
<1> QED BY <1>1, <1>6

(* Every step leaves no revision between the snapshot and the broadcasts. *)
LEMMA NothingMissedStep == HubInv /\ SeamInv /\ [Next]_vars => NoMissedRevision'
<1> SUFFICES ASSUME HubInv, SeamInv, [Next]_vars, NEW t \in subscribed', socket' = "open",
                    current'[t] = None, NEW r \in 1 .. head'[t]
             PROVE  Joined(t, r)'
  BY DEF NoMissedRevision, Joined
<1>0. TypeOK /\ TypeOK'  BY TypeStep DEF HubInv
<1>1. t \in Tags /\ socket = "open"  BY <1>0, OpenWasOpen DEF TypeOK
<1>2. CASE current[t] = None /\ t \in subscribed
  <2>1. CASE r \in 1 .. head[t]
    <3>1. Joined(t, r)  BY <1>1, <1>2, <2>1 DEF SeamInv, NoMissedRevision, Joined
    <3> QED BY <1>1, <1>2, <3>1, JoinedStays
  <2> QED BY <1>0, <1>1, <2>1, ChainGrows
<1>3. CASE \E l \in Lookups : Register(l) /\ ask[l].tag = t /\ current'[t] = l
  BY <1>3, HubAssumption
<1>4. ASSUME NEW l \in Lookups, Reply(l) \/ GiveUp(l) \/ ReadFails(l), current[t] = l,
             ask[l].tag = t
      PROVE  Joined(t, r)'
  <2>1. Live(l)  BY <1>1, <1>4 DEF Live, IsCurrent
  <2>2. Reply(l)  BY <1>4, <2>1 DEF GiveUp, ReadFails
  <2> QED BY <1>1, <1>4, <2>2, ReplyLeavesNoGap
<1> QED BY <1>1, <1>2, <1>3, <1>4, WhoIsCurrent

(* Nothing is subscribed at first, so nothing is missed. *)
LEMMA SeamInit == Init => SeamInv
<1> SUFFICES ASSUME Init PROVE SeamInv  OBVIOUS
<1> QED BY DEF Init, SeamInv, EntrySound, TailPending, Reading, NoMissedRevision

(* Both invariants hold in every state. *)
LEMMA SeamHolds == Spec => [](HubInv /\ SeamInv)
<1>1. Init => HubInv /\ SeamInv  BY HubInit, SeamInit
<1>2. HubInv /\ SeamInv /\ [Next]_vars => (HubInv /\ SeamInv)'
  BY HubStep, EntryStep, TailStep, NothingMissedStep DEF SeamInv
<1> QED BY <1>1, <1>2, PTL DEF Spec

-----------------------------------------------------------------------------
(* What comes out of the pause, and when.                                  *)

(* A lookup that is not live lets nothing through.                         *)
LEMMA DeadReleasesLetNothingOut ==
    ASSUME HubInv, NEW l \in Lookups, pc[l] \in Underway, ~Live(l), Release(l, got)
    PROVE  /\ got' = got
           /\ l \in released => paused' = paused
<1>1. got \in Holdings  BY DEF HubInv, TypeOK, Holdings
<1>2. CASE socket = "open"
  <2>1. l \in released  BY <1>2, CurrentIsUnreleased DEF Live
  <2> QED BY <2>1 DEF Release
<1>3. CASE socket # "open"
  <2>1. Flushed(got) = got  BY <1>3 DEF Flushed
  <2> QED BY <2>1 DEF Release
<1> QED BY <1>2, <1>3

(* Two workspaces that are being read hold the pause twice.                *)
LEMMA TwoReadersPauseTwice ==
    ASSUME HubInv, socket = "open", NEW s \in Reading, NEW t \in Reading, s # t
    PROVE  paused.depth > 1
<1>1. IsFiniteSet(Reading) /\ paused.depth = Cardinality(Reading)
  BY PausedWhileReading DEF HubInv, Books
<1> HIDE DEF Reading
<1>2. IsFiniteSet({s, t}) /\ Cardinality({s, t}) = 2
  <2>1. IsFiniteSet({s}) /\ Cardinality({s}) = 1  BY FS_Singleton
  <2>2. {s, t} = {s} \union {t} /\ t \notin {s}  OBVIOUS
  <2> QED BY <2>1, <2>2, FS_AddElement
<1>3. Cardinality({s, t}) <= Cardinality(Reading)
  <2>1. {s, t} \subseteq Reading  OBVIOUS
  <2> QED BY <1>1, <2>1, FS_Subset
<1>4. Cardinality(Reading) \in Nat  BY <1>1, FS_CardinalityType
<1> QED BY <1>1, <1>2, <1>3, <1>4

(* While a workspace's lookup reads, only the ack of the socket's own save  *)
(* reaches it.                                                              *)
LEMMA NothingOvertakes ==
    ASSUME HubInv, [Next]_vars, NEW t \in Tags, current[t] # None, current'[t] # None,
           NEW r \in got'[t] \ got[t]
    PROVE  [tag |-> t, rev |-> r, from |-> "self"] \in unsent
<1> USE DEF Goto, chain, conn, read, client
<1>0. TypeOK /\ CurrentHolds /\ t \in Reading  BY DEF HubInv, Reading
<1>1. ASSUME NEW l \in Lookups, NEW s \in Tags, NEW n \in 0 .. MaxRev, Receive(l, s, n)
      PROVE  FALSE
  BY <1>1 DEF Receive
<1>2. ASSUME NEW l \in Lookups,
             \/ RejectClosed(l) \/ Register(l) \/ ResourcesRead(l)
             \/ AnchorAtFrom(l) \/ AnchorAtKeyframe(l) \/ ReadRows(l)
      PROVE  FALSE
  BY <1>2 DEF RejectClosed, Register, ResourcesRead, AnchorAtFrom, AnchorAtKeyframe, ReadRows
<1>3. ASSUME NEW l \in Lookups, Reply(l) PROVE FALSE
  <2> DEFINE s == ask[l].tag
             g == Received(got, s, first[l] .. upto[l])
  <2>1. pc[l] = "reply" /\ socket = "open" /\ IsCurrent(l) /\ Release(l, g)
    BY <1>3 DEF Reply, Live
  <2>2. s \in Tags /\ current[s] = l /\ s \in Reading /\ l # None
    <3>1. s \in Tags  BY <1>0, <2>1 DEF CurrentHolds
    <3>2. current[s] = l  BY <2>1, <3>1, CurrentIsUnreleased
    <3> QED BY <3>1, <3>2, HubAssumption DEF Reading
  <2>3. s # t  BY <1>0, <1>3, <2>2 DEF Reply, TypeOK
  <2>4. g[t] = got[t]  BY <1>0, <2>3 DEF Received, TypeOK
  <2>5. paused.depth > 1 /\ paused.depth # 0
    <3>1. paused.depth > 1  BY <1>0, <2>1, <2>2, <2>3, TwoReadersPauseTwice
    <3> QED BY <1>0, <3>1 DEF TypeOK
  <2> HIDE DEF g, s
  <2>6. got' = g  BY <2>1, <2>5 DEF Release
  <2> QED BY <2>4, <2>6
<1>4. ASSUME NEW l \in Lookups, GiveUp(l) PROVE FALSE
  <2>1. pc[l] \in Underway /\ ~Live(l) /\ Release(l, got)
    BY <1>4 DEF GiveUp, Finish, Underway
  <2> QED BY <2>1, DeadReleasesLetNothingOut
<1>5. ASSUME NEW l \in Lookups, ReadFails(l) PROVE FALSE
  <2>1. pc[l] \in Underway  BY <1>5 DEF ReadFails, Underway
  <2> QED BY <1>5, <2>1, DeadReleasesLetNothingOut DEF ReadFails
<1>6. ASSUME NEW s \in Tags, NEW o \in {"self", "other"}, Commit(s, o) PROVE FALSE
  BY <1>6 DEF Commit
<1>7. ASSUME NEW m \in unsent, Announce(m)
      PROVE  [tag |-> t, rev |-> r, from |-> "self"] \in unsent
  <2>1. m = [tag |-> m.tag, rev |-> m.rev, from |-> m.from] /\ m.tag \in Tags
    BY <1>0 DEF TypeOK, Message
  <2>2. CASE m.from = "self"
    <3>1. got' = Received(got, m.tag, {m.rev})  BY <1>7, <2>2 DEF Announce
    <3>2. m.tag = t /\ m.rev = r  BY <1>0, <2>1, <3>1 DEF Received, TypeOK
    <3> QED BY <2>1, <2>2, <3>2
  <2>3. CASE m.from # "self"
    <3>1. socket = "open" /\ paused.depth = 0  BY <1>7, <2>3 DEF Announce, FanOut
    <3> QED BY <1>0, <3>1, PausedWhileReading
  <2> QED BY <2>2, <2>3
<1>8. ASSUME NEW m \in unsent, NotifyLost(m) PROVE FALSE
  BY <1>8 DEF NotifyLost
<1>9. CASE SocketCloses \/ CloseEvent \/ UNCHANGED vars
  BY <1>9 DEF SocketCloses, CloseEvent, vars
<1> QED BY <1>1, <1>2, <1>3, <1>4, <1>5, <1>6, <1>7, <1>8, <1>9 DEF Next, Progress

(* A lookup that was replaced ends without a word to the socket. *)
LEMMA ObsoleteIsSilent ==
    ASSUME HubInv, [Next]_vars, NEW l \in Lookups, pc[l] \in Underway, l \in released,
           pc'[l] # pc[l]
    PROVE  UNCHANGED <<got, answered, paused>>
<1> USE DEF Goto, chain, conn, read, client
<1>0. TypeOK /\ ~Live(l)  BY CurrentIsUnreleased DEF HubInv, Live
<1>1. ASSUME NEW k \in Lookups, NEW s \in Tags, NEW n \in 0 .. MaxRev, Receive(k, s, n)
      PROVE  FALSE
  BY <1>0, <1>1 DEF Receive, TypeOK, Underway
<1>2. ASSUME NEW k \in Lookups, RejectClosed(k) \/ Register(k) PROVE FALSE
  BY <1>0, <1>2 DEF RejectClosed, Register, TypeOK, Underway
<1>3. ASSUME NEW k \in Lookups,
             \/ ResourcesRead(k) \/ AnchorAtFrom(k) \/ AnchorAtKeyframe(k) \/ ReadRows(k)
      PROVE  UNCHANGED <<got, answered, paused>>
  BY <1>3 DEF ResourcesRead, AnchorAtFrom, AnchorAtKeyframe, ReadRows
<1>4. ASSUME NEW k \in Lookups, Reply(k) \/ GiveUp(k) \/ ReadFails(k) PROVE k = l
  BY <1>0, <1>4 DEF Reply, GiveUp, Finish, ReadFails, TypeOK
<1>5. ASSUME Reply(l) \/ GiveUp(l) \/ ReadFails(l) PROVE UNCHANGED <<got, answered, paused>>
  <2>1. Release(l, got) /\ UNCHANGED answered
    BY <1>0, <1>5 DEF Reply, GiveUp, Finish, ReadFails
  <2> QED BY <1>0, <2>1, DeadReleasesLetNothingOut
<1>6. ASSUME NEW s \in Tags, NEW o \in {"self", "other"}, Commit(s, o) PROVE FALSE
  BY <1>6 DEF Commit
<1>7. ASSUME NEW m \in unsent, Announce(m) \/ NotifyLost(m) PROVE FALSE
  BY <1>7 DEF Announce, NotifyLost
<1>8. CASE SocketCloses \/ CloseEvent \/ UNCHANGED vars
  BY <1>8 DEF SocketCloses, CloseEvent, vars
<1> QED BY <1>1, <1>2, <1>3, <1>4, <1>5, <1>6, <1>7, <1>8 DEF Next, Progress

(* However lookups of one workspace replace one another and lookups of     *)
(* several share a pause: no committed revision falls between a catch-up   *)
(* and the broadcasts behind it, no broadcast overtakes the snapshot it    *)
(* builds on, and a replaced read neither answers nor opens the pause.     *)
THEOREM JoinsAreSeamless == Spec => JoinIsSeamless
<1>1. SeamInv => NoMissedRevision  BY DEF SeamInv
<1>2. HubInv /\ [Next]_vars =>
          [\A t \in Tags : current[t] # None /\ current'[t] # None =>
               \A r \in got'[t] \ got[t] : [tag |-> t, rev |-> r, from |-> "self"] \in unsent]_vars
  BY NothingOvertakes
<1>3. HubInv /\ [Next]_vars =>
          [\A l \in Lookups : pc[l] \in Underway /\ l \in released /\ pc'[l] # pc[l] =>
               UNCHANGED <<got, answered, paused>>]_vars
  BY ObsoleteIsSilent
<1> QED BY <1>1, <1>2, <1>3, SeamHolds, PTL
        DEF Spec, JoinIsSeamless, SnapshotComesFirst, NothingOvertakesSnapshot,
            ObsoleteLookupsAreSilent

=============================================================================
