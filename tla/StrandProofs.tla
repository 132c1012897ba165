---------------------------- MODULE StrandProofs ----------------------------
(***************************************************************************)
(* What waits on the API strand is undisturbed, for any number of          *)
(* connections, threads, keys and faults.  StrandHoldsTheQueued is         *)
(* inductive once the types of the connections are known; the two lemmas   *)
(* on sequences say what joining the strand and leaving it do.             *)
(***************************************************************************)
EXTENDS Steering, SequenceTheorems, TLAPS

Waits == {"closed", "reading", "queued", "writing"}

\* The inductive invariant.
HttpInv ==
  /\ conn \in [Connections -> Waits]
  /\ strand \in Seq(Connections)
  /\ DOMAIN carried \subseteq Connections
  /\ StrandHoldsTheQueued

-----------------------------------------------------------------------------
\* A connection that is not on the strand may be appended to it.
LEMMA Appending ==
  ASSUME NEW S, NEW s \in Seq(S), NEW e \in S, IsInjective(s), e \notin Range(s)
  PROVE  /\ Append(s, e) \in Seq(S)
         /\ IsInjective(Append(s, e))
         /\ Range(Append(s, e)) = Range(s) \cup {e}
<1> DEFINE t == Append(s, e)
<1>1. /\ t \in Seq(S) /\ Len(s) \in Nat /\ Len(t) = Len(s) + 1
      /\ DOMAIN s = 1..Len(s) /\ DOMAIN t = 1..Len(s) + 1
      /\ \A i \in 1..Len(s) : t[i] = s[i]
      /\ t[Len(s) + 1] = e
  OBVIOUS
<1> HIDE DEF t
<1>2. \A i \in DOMAIN s : s[i] # e
  BY DEF Range
<1>3. IsInjective(t)
  <2> SUFFICES ASSUME NEW a \in DOMAIN t, NEW b \in DOMAIN t, t[a] = t[b]
               PROVE  a = b
    BY DEF IsInjective
  <2>1. CASE a \in 1..Len(s) /\ b \in 1..Len(s)
    BY <1>1, <2>1 DEF IsInjective
  <2>2. CASE a = Len(s) + 1 \/ b = Len(s) + 1
    BY <1>1, <1>2, <2>2
  <2> QED
    BY <1>1, <2>1, <2>2
<1>4. Range(t) = Range(s) \cup {e}
  <2>1. Range(t) \subseteq Range(s) \cup {e}
    BY <1>1 DEF Range
  <2>2. Range(s) \subseteq Range(t)
    <3> SUFFICES ASSUME NEW i \in DOMAIN s PROVE s[i] \in Range(t)
      BY DEF Range
    <3> QED
      BY <1>1 DEF Range
  <2>3. e \in Range(t)
    <3>1. Len(s) + 1 \in DOMAIN t
      BY <1>1
    <3> QED
      BY <1>1, <3>1 DEF Range
  <2> QED
    BY <2>1, <2>2, <2>3
<1> QED
  BY <1>1, <1>3, <1>4 DEF t

\* The first of the strand leaves it, and only that one.
LEMMA Leaving ==
  ASSUME NEW S, NEW s \in Seq(S), s # << >>, IsInjective(s)
  PROVE  /\ Head(s) \in Range(s) /\ Head(s) \in S
         /\ Tail(s) \in Seq(S)
         /\ IsInjective(Tail(s))
         /\ Range(Tail(s)) = Range(s) \ {Head(s)}
<1> DEFINE t == Tail(s)
<1>1. /\ t \in Seq(S) /\ Len(s) \in Nat /\ Len(s) > 0 /\ Len(t) = Len(s) - 1
      /\ DOMAIN s = 1..Len(s) /\ DOMAIN t = 1..Len(s) - 1
      /\ \A i \in 1..Len(s) - 1 : t[i] = s[i + 1]
      /\ Head(s) = s[1] /\ s[1] \in S
  OBVIOUS
<1> HIDE DEF t
<1>2. Head(s) \in Range(s)
  BY <1>1 DEF Range
<1>3. IsInjective(t)
  <2> SUFFICES ASSUME NEW a \in DOMAIN t, NEW b \in DOMAIN t, t[a] = t[b]
               PROVE  a = b
    BY DEF IsInjective
  <2>1. a + 1 \in DOMAIN s /\ b + 1 \in DOMAIN s /\ s[a + 1] = s[b + 1]
    BY <1>1
  <2> QED
    BY <1>1, <2>1 DEF IsInjective
<1>4. Range(t) = Range(s) \ {Head(s)}
  <2>1. ASSUME NEW i \in DOMAIN t
        PROVE  t[i] \in Range(s) \ {Head(s)}
    <3>1. i + 1 \in DOMAIN s /\ i + 1 # 1 /\ 1 \in DOMAIN s /\ t[i] = s[i + 1]
      BY <1>1
    <3> QED
      BY <1>1, <3>1 DEF IsInjective, Range
  <2>2. ASSUME NEW i \in DOMAIN s, s[i] # Head(s)
        PROVE  s[i] \in Range(t)
    <3>1. i - 1 \in DOMAIN t /\ t[i - 1] = s[i]
      BY <1>1, <2>2
    <3> QED
      BY <3>1 DEF Range
  <2> QED
    BY <2>1, <2>2 DEF Range
<1> QED
  BY <1>1, <1>2, <1>3, <1>4 DEF t

-----------------------------------------------------------------------------
(* The steps of a connection.                                              *)

\* A session that does not wait on the strand may end.
LEMMA EndsKeeps ==
  ASSUME HttpInv, NEW c \in Connections, conn[c] # "queued", Ends(c), strand' = strand
  PROVE  HttpInv'
<1>1. /\ conn' = [conn EXCEPT ![c] = "closed"]
      /\ DOMAIN carried' = DOMAIN carried \ {c}
      /\ late' = late \ {c}
  BY DEF Ends, Restrict
<1>2. conn' \in [Connections -> Waits] /\ conn'[c] = "closed"
      /\ \A d \in Connections \ {c} : conn'[d] = conn[d]
  BY <1>1 DEF HttpInv, Waits
<1> QED
  BY <1>1, <1>2, Zenon DEF HttpInv, StrandHoldsTheQueued

LEMMA OnAcceptKeeps ==
  ASSUME HttpInv, NEW c \in Connections, OnAccept(c)
  PROVE  HttpInv'
<1>1. conn' \in [Connections -> Waits] /\ conn'[c] = "reading" /\ conn[c] = "closed"
      /\ \A d \in Connections \ {c} : conn'[d] = conn[d]
  BY DEF HttpInv, Waits, OnAccept
<1>2. UNCHANGED <<carried, strand, late>>
  BY DEF OnAccept
<1> QED
  BY <1>1, <1>2 DEF HttpInv, StrandHoldsTheQueued

LEMMA SendKeeps ==
  ASSUME HttpInv, NEW c \in Connections, NEW r, Send(c, r)
  PROVE  HttpInv'
<1>1. DOMAIN carried' = DOMAIN carried \cup {c}
  BY DEF Send
<1>2. UNCHANGED <<conn, strand, late>>
  BY DEF Send
<1> QED
  BY <1>1, <1>2 DEF HttpInv, StrandHoldsTheQueued

LEMMA OnReadKeeps ==
  ASSUME HttpInv, NEW c \in Connections, OnRead(c)
  PROVE  HttpInv'
<1>1. conn' \in [Connections -> Waits] /\ conn'[c] = "queued" /\ conn[c] = "reading"
      /\ \A d \in Connections \ {c} : conn'[d] = conn[d]
  BY DEF HttpInv, Waits, OnRead
<1>2. UNCHANGED <<carried, late>> /\ c \in DOMAIN carried /\ strand' = Append(strand, c)
  BY DEF OnRead
<1>3. c \notin Range(strand)
  BY <1>1 DEF HttpInv, StrandHoldsTheQueued
<1>4. /\ strand' \in Seq(Connections)
      /\ IsInjective(strand')
      /\ Range(strand') = Range(strand) \cup {c}
  BY <1>2, <1>3, Appending DEF HttpInv, StrandHoldsTheQueued
<1> QED
  BY <1>1, <1>2, <1>4 DEF HttpInv, StrandHoldsTheQueued

LEMMA HandleKeeps ==
  ASSUME HttpInv, Handle
  PROVE  HttpInv'
<1> DEFINE c == Head(strand)
<1>1. /\ c \in Range(strand) /\ c \in Connections
      /\ strand' \in Seq(Connections)
      /\ IsInjective(strand')
      /\ Range(strand') = Range(strand) \ {c}
  BY Leaving DEF HttpInv, StrandHoldsTheQueued, Handle
<1>2. conn[c] = "queued"
  BY <1>1 DEF HttpInv, StrandHoldsTheQueued
<1>3. conn' \in [Connections -> Waits] /\ conn'[c] = "writing"
      /\ \A d \in Connections \ {c} : conn'[d] = conn[d]
  BY <1>1 DEF HttpInv, Waits, Handle
<1>4. UNCHANGED <<carried, late>>
  BY DEF Handle
<1> HIDE DEF c
<1> QED
  BY <1>1, <1>2, <1>3, <1>4 DEF HttpInv, StrandHoldsTheQueued

LEMMA OnWriteKeeps ==
  ASSUME HttpInv, NEW c \in Connections, OnWrite(c)
  PROVE  HttpInv'
<1>1. CASE c \in gone
  <2>1. conn[c] # "queued" /\ Ends(c) /\ strand' = strand
    BY <1>1 DEF OnWrite
  <2> QED
    BY <2>1, EndsKeeps
<1>2. CASE c \notin gone
  <2>1. conn' \in [Connections -> Waits] /\ conn'[c] = "reading" /\ conn[c] = "writing"
        /\ \A d \in Connections \ {c} : conn'[d] = conn[d]
    BY <1>2 DEF HttpInv, Waits, OnWrite, Rearmed
  <2>2. /\ DOMAIN carried' = DOMAIN carried \ {c}
        /\ late' = late \ {c} /\ strand' = strand
    BY <1>2 DEF OnWrite, Restrict
  <2> QED
    BY <2>1, <2>2, Zenon DEF HttpInv, StrandHoldsTheQueued
<1> QED
  BY <1>1, <1>2

LEMMA ThrowsKeeps ==
  ASSUME HttpInv, NEW c \in Connections, Throws(c)
  PROVE  HttpInv'
<1>1. conn[c] # "queued" /\ Ends(c) /\ strand' = strand
  BY DEF Throws
<1> QED
  BY <1>1, EndsKeeps

LEMMA ReadFailsKeeps ==
  ASSUME HttpInv, NEW c \in Connections, ReadFails(c)
  PROVE  HttpInv'
<1>1. conn[c] # "queued" /\ Ends(c) /\ strand' = strand
  BY DEF ReadFails
<1> QED
  BY <1>1, EndsKeeps

\* The timer ends a session that reads, and only remembers one that waits.
LEMMA TimesOutKeeps ==
  ASSUME HttpInv, NEW c \in Connections, TimesOut(c)
  PROVE  HttpInv'
<1>1. CASE conn[c] = "reading" /\ Ends(c)
  BY <1>1, EndsKeeps DEF TimesOut
<1>2. CASE conn[c] \in {"queued", "writing"} /\ late' = late \cup {c} /\ UNCHANGED <<conn, carried>>
  BY <1>2 DEF TimesOut, HttpInv, StrandHoldsTheQueued
<1> QED
  BY <1>1, <1>2 DEF TimesOut

LEMMA PeerLeavesKeeps ==
  ASSUME HttpInv, NEW c \in Connections, PeerLeaves(c)
  PROVE  HttpInv'
<1>1. CASE c \in DOMAIN carried
  BY <1>1 DEF PeerLeaves, HttpInv, StrandHoldsTheQueued
<1>2. CASE c \notin DOMAIN carried
  <2>1. conn[c] # "queued" /\ Ends(c) /\ strand' = strand
    BY <1>2 DEF PeerLeaves, HttpInv, StrandHoldsTheQueued
  <2> QED
    BY <2>1, EndsKeeps
<1> QED
  BY <1>1, <1>2

LEMMA HttpUnchanged ==
  ASSUME HttpInv, UNCHANGED <<conn, carried, strand, late>>
  PROVE  HttpInv'
BY DEF HttpInv, StrandHoldsTheQueued

-----------------------------------------------------------------------------
LEMMA HttpInvInit == Init => HttpInv
<1> SUFFICES ASSUME Init PROVE HttpInv
  OBVIOUS
<1>1. conn = [c \in Connections |-> "closed"] /\ carried = << >> /\ strand = << >> /\ late = {}
  BY DEF Init, HttpInit
<1>2. DOMAIN << >> = {} /\ << >> \in Seq(Connections)
  OBVIOUS
<1>3. IsInjective(strand) /\ Range(strand) = {}
  BY <1>1, <1>2 DEF IsInjective, Range
<1> QED
  BY <1>1, <1>2, <1>3 DEF HttpInv, Waits, StrandHoldsTheQueued

LEMMA HttpInvStep == HttpInv /\ [Next]_vars => HttpInv'
<1> SUFFICES ASSUME HttpInv, [Next]_vars PROVE HttpInv'
  OBVIOUS
<1>1. ASSUME NEW k \in Keys, KeyDown(k) \/ KeyUp(k) PROVE HttpInv'
  BY <1>1, HttpUnchanged DEF KeyDown, KeyUp, http
<1>2. CASE LoseFocus \/ DeadEnd
  BY <1>2, HttpUnchanged DEF LoseFocus, DeadEnd, http
<1>3. CASE Accepted
  BY <1>3, OnAcceptKeeps DEF Accepted
<1>4. CASE AcceptFails
  BY <1>4, HttpUnchanged DEF AcceptFails
<1>5. CASE HandlePost
  BY <1>5, HandleKeeps DEF HandlePost
<1>6. ASSUME NEW c \in Connections, SendPost(c) PROVE HttpInv'
  BY <1>6, SendKeeps DEF SendPost
<1>7. ASSUME NEW c \in Connections, OnRead(c) PROVE HttpInv'
  BY <1>7, OnReadKeeps
<1>8. ASSUME NEW c \in Connections, Answered(c) PROVE HttpInv'
  BY <1>8, OnWriteKeeps DEF Answered
<1>9. ASSUME NEW c \in Connections, Fails(c, Throws(c)) PROVE HttpInv'
  BY <1>9, ThrowsKeeps DEF Fails
<1>10. ASSUME NEW c \in Connections, Fails(c, TimesOut(c)) PROVE HttpInv'
  BY <1>10, TimesOutKeeps DEF Fails
<1>11. ASSUME NEW c \in Connections, Fails(c, PeerLeaves(c)) PROVE HttpInv'
  BY <1>11, PeerLeavesKeeps DEF Fails
<1>12. ASSUME NEW c \in Connections, Fails(c, ReadFails(c)) PROVE HttpInv'
  BY <1>12, ReadFailsKeeps DEF Fails
<1>13. CASE UNCHANGED vars
  BY <1>13, HttpUnchanged DEF vars, http
<1> QED
  BY <1>1, <1>2, <1>3, <1>4, <1>5, <1>6, <1>7, <1>8, <1>9, <1>10, <1>11, <1>12, <1>13 DEF Next

\* Whatever the timers, the peers, the exceptions and the keys do: each request
\* that was read waits on the strand once or is being answered, and its session
\* goes on until it has been.
THEOREM StrandIsUndisturbed == Spec => []StrandHoldsTheQueued
<1>1. HttpInv => StrandHoldsTheQueued
  BY DEF HttpInv
<1> QED
  BY <1>1, HttpInvInit, HttpInvStep, PTL DEF Spec

-----------------------------------------------------------------------------
(* The keys.  Two inductive invariants: KeysInv is about the page alone    *)
(* and says which keys its list holds; SteeringInv follows the POSTs.      *)
(* When the last one was sent while no other was under way, it is the only *)
(* one carried, and whatever became of those before it, the dog obeys it   *)
(* from its handling on.                                                   *)

\* The POSTs that have been given a connection.
Sent == Len(posts) - Len(waiting)

\* The dog's speed after the n-th POST, if they were handled in order.
MovesAfter(n) == n > 0 /\ MovingAfter(posts[n])

\* The last POST tells the last key of the list.
PostsFollowKeys ==
  /\ pressedKeys \in Seq(Keys)
  /\ posts \in Seq(Keys \cup {None})
  /\ posts = << >> => pressedKeys = << >>
  /\ posts # << >> => posts[Len(posts)] = LastKey(pressedKeys)

\* They get their connections in order.
SentInOrder ==
  /\ waiting \in Seq(Nat)
  /\ Len(waiting) <= Len(posts)
  /\ \A i \in 1..Len(waiting) : waiting[i] = Sent + i

\* If the last POST was sent alone, it is what is carried.
OneAtATime ==
  ~raced => \A c \in DOMAIN carried :
              DOMAIN carried = {c} /\ carried[c] = Sent /\ Sent > 0

\* Unless it is lost, the dog obeys it as soon as it has been handled.
ObeysTheLast ==
  ~raced /\ ~lost /\ (\A c \in DOMAIN carried : conn[c] = "writing") =>
    (moving \/ stopped <=> MovesAfter(Sent))

SteeringInv ==
  /\ HttpInv
  /\ PostsFollowKeys
  /\ SentInOrder
  /\ OneAtATime
  /\ ObeysTheLast

\* The list holds, once each, the keys that are down and those that came up
\* unseen.
KeysInv ==
  /\ pressedKeys \in Seq(Keys)
  /\ IsInjective(pressedKeys)
  /\ Range(pressedKeys) = held \cup unseen
  /\ held \cap unseen = {}

\* splice of one key leaves the others.
LEMMA Splicing ==
  ASSUME NEW S, NEW s \in Seq(S), NEW i \in DOMAIN s
  PROVE  RemoveAt(s, i) \in Seq(S)
<1>1. i \in 1..Len(s) /\ Len(s) \in Nat
  OBVIOUS
<1>2. SubSeq(s, 1, i - 1) \in Seq(S) /\ SubSeq(s, i + 1, Len(s)) \in Seq(S)
  <2>1. \A j \in 1..(i - 1) : j \in 1..Len(s)
    BY <1>1
  <2>2. \A j \in (i + 1)..Len(s) : j \in 1..Len(s)
    BY <1>1
  <2> QED
    BY <1>1, <2>1, <2>2, SubSeqProperties
<1> QED
  BY <1>2, ConcatProperties DEF RemoveAt

\* What neither sends a POST nor handles one, takes no unhandled POST off its
\* connection unless it is lost, and touches no key.
LEMMA ConnectionsKeep ==
  ASSUME SteeringInv, HttpInv',
         UNCHANGED <<pressedKeys, posts, waiting, raced>>, lost => lost',
         moving' \/ stopped' <=> moving \/ stopped,
         DOMAIN carried' \subseteq DOMAIN carried,
         \A d \in DOMAIN carried' : carried'[d] = carried[d],
         ~lost' => /\ \A d \in DOMAIN carried \ DOMAIN carried' : conn[d] = "writing"
                   /\ \A d \in DOMAIN carried' :
                        conn'[d] = "writing" <=> conn[d] = "writing"
  PROVE  SteeringInv'
<1>1. PostsFollowKeys' /\ SentInOrder' /\ Sent' = Sent
  BY DEF SteeringInv, PostsFollowKeys, SentInOrder, Sent, LastKey
<1>2. OneAtATime'
  BY <1>1 DEF SteeringInv, OneAtATime
<1>3. ObeysTheLast'
  <2> SUFFICES ASSUME ~raced, ~lost', \A d \in DOMAIN carried' : conn'[d] = "writing"
               PROVE  moving' \/ stopped' <=> MovesAfter(Sent)'
    BY DEF ObeysTheLast
  <2>1. \A d \in DOMAIN carried : conn[d] = "writing"
    OBVIOUS
  <2>2. moving \/ stopped <=> MovesAfter(Sent)
    BY <2>1 DEF SteeringInv, ObeysTheLast
  <2>3. MovesAfter(Sent)' <=> MovesAfter(Sent)
    BY <1>1 DEF MovesAfter
  <2> QED
    BY <2>2, <2>3
<1> QED
  BY <1>1, <1>2, <1>3 DEF SteeringInv

LEMMA SteeringUnchanged ==
  ASSUME SteeringInv,
         UNCHANGED <<http, pressedKeys, posts, waiting, dog, raced, lost>>
  PROVE  SteeringInv'
<1>1. UNCHANGED <<conn, carried, strand, late>>
  BY DEF http
<1>2. HttpInv'
  BY <1>1, HttpUnchanged DEF SteeringInv
<1> QED
  BY <1>1, <1>2, ConnectionsKeep DEF dog

\* A new POST is behind all others, and no other is touched.
LEMMA PressKeyKeeps ==
  ASSUME SteeringInv, pressedKeys' \in Seq(Keys), PressKey(pressedKeys'),
         UNCHANGED <<http, dog, raced, lost>>
  PROVE  SteeringInv'
<1> DEFINE key == LastKey(pressedKeys')
<1>1. key \in Keys \cup {None}
  BY DEF LastKey, Last
<1>2. /\ posts' = Append(posts, key) /\ waiting' = Append(waiting, Len(posts) + 1)
      /\ UNCHANGED <<conn, carried, strand, late, moving, stopped, raced, lost>>
  BY DEF PressKey, http, dog
<1> HIDE DEF key
<1>3. /\ posts \in Seq(Keys \cup {None}) /\ waiting \in Seq(Nat)
      /\ Len(posts) \in Nat /\ Len(waiting) \in Nat /\ Len(waiting) <= Len(posts)
      /\ \A i \in 1..Len(waiting) : waiting[i] = Sent + i
  BY DEF SteeringInv, PostsFollowKeys, SentInOrder
<1>4. /\ posts' \in Seq(Keys \cup {None}) /\ Len(posts') = Len(posts) + 1
      /\ posts'[Len(posts')] = key
      /\ \A n \in 1..Len(posts) : posts'[n] = posts[n]
  BY <1>1, <1>2, <1>3
<1>5. /\ waiting' \in Seq(Nat) /\ Len(waiting') = Len(waiting) + 1
      /\ waiting'[Len(waiting) + 1] = Len(posts) + 1
      /\ \A i \in 1..Len(waiting) : waiting'[i] = waiting[i]
  BY <1>2, <1>3
<1>6. Sent' = Sent /\ Sent \in 0..Len(posts)
  BY <1>3, <1>4, <1>5 DEF Sent
<1>7. HttpInv'
  BY <1>2, HttpUnchanged DEF SteeringInv
<1>8. PostsFollowKeys'
  BY <1>3, <1>4 DEF PostsFollowKeys, key
<1>9. SentInOrder'
  <2>1. Len(posts) + 1 = Sent + (Len(waiting) + 1)
    BY <1>3 DEF Sent
  <2>2. ASSUME NEW i \in 1..Len(waiting')
        PROVE  waiting'[i] = Sent' + i
    <3>1. i \in 1..Len(waiting) \/ i = Len(waiting) + 1
      BY <1>3, <1>5
    <3> QED
      BY <1>3, <1>5, <1>6, <2>1, <3>1
  <2> QED
    BY <1>3, <1>4, <1>5, <2>2 DEF SentInOrder
<1>10. OneAtATime'
  BY <1>2, <1>6 DEF SteeringInv, OneAtATime
<1>11. ObeysTheLast'
  <2>1. \A n \in 1..Sent : posts'[n] = posts[n]
    BY <1>3, <1>4, <1>6
  <2>2. MovesAfter(Sent)' <=> MovesAfter(Sent)
    BY <2>1, <1>6 DEF MovesAfter
  <2> QED
    BY <2>2, <1>2 DEF SteeringInv, ObeysTheLast
<1> QED
  BY <1>7, <1>8, <1>9, <1>10, <1>11 DEF SteeringInv

LEMMA KeyDownKeeps ==
  ASSUME SteeringInv, NEW k \in Keys, KeyDown(k)
  PROVE  SteeringInv'
<1>1. CASE UNCHANGED <<pressedKeys, posts, waiting>>
  BY <1>1, SteeringUnchanged DEF KeyDown
<1>2. CASE pressedKeys' = Append(pressedKeys, k) /\ PressKey(pressedKeys')
  BY <1>2, PressKeyKeeps DEF KeyDown, SteeringInv, PostsFollowKeys
<1> QED
  BY <1>1, <1>2 DEF KeyDown

LEMMA KeyUpKeeps ==
  ASSUME SteeringInv, NEW k \in Keys, KeyUp(k)
  PROVE  SteeringInv'
<1>1. CASE UNCHANGED <<pressedKeys, posts, waiting>>
  BY <1>1, SteeringUnchanged DEF KeyUp
<1>2. ASSUME NEW i \in IndexOf(k),
             pressedKeys' = RemoveAt(pressedKeys, i) /\ PressKey(pressedKeys')
      PROVE  SteeringInv'
  <2>1. pressedKeys' \in Seq(Keys)
    BY <1>2, Splicing DEF SteeringInv, PostsFollowKeys, IndexOf
  <2> QED
    BY <1>2, <2>1, PressKeyKeeps DEF KeyUp
<1> QED
  BY <1>1, <1>2 DEF KeyUp

\* The POST that is sent is the next one; if none was under way it is then the
\* only one carried, and waits to be handled.
LEMMA SendPostKeeps ==
  ASSUME SteeringInv, NEW c \in Connections, SendPost(c)
  PROVE  SteeringInv'
<1>1. /\ waiting # << >> /\ Send(c, Head(waiting)) /\ waiting' = Tail(waiting)
      /\ raced' = (DOMAIN carried # {})
      /\ UNCHANGED <<pressedKeys, posts>>
  BY DEF SendPost
<1>2. /\ conn[c] = "reading" /\ UNCHANGED conn
      /\ carried' = [d \in DOMAIN carried \cup {c} |->
                       IF d = c THEN Head(waiting) ELSE carried[d]]
  BY <1>1 DEF Send
<1>3. /\ posts \in Seq(Keys \cup {None}) /\ waiting \in Seq(Nat)
      /\ Len(posts) \in Nat /\ Len(waiting) \in Nat /\ Len(waiting) <= Len(posts)
      /\ \A i \in 1..Len(waiting) : waiting[i] = Sent + i
  BY DEF SteeringInv, PostsFollowKeys, SentInOrder
<1>4. /\ waiting' \in Seq(Nat) /\ Len(waiting') = Len(waiting) - 1 /\ Len(waiting) > 0
      /\ \A i \in 1..Len(waiting) - 1 : waiting'[i] = waiting[i + 1]
      /\ Head(waiting) = waiting[1]
  BY <1>1, <1>3
<1>5. Sent' = Sent + 1 /\ Sent \in Nat
  BY <1>1, <1>3, <1>4 DEF Sent
<1>6. HttpInv'
  BY <1>1, SendKeeps DEF SteeringInv
<1>7. PostsFollowKeys'
  BY <1>1 DEF SteeringInv, PostsFollowKeys, LastKey
<1>8. SentInOrder'
  <2>1. \A i \in 1..Len(waiting') : waiting'[i] = Sent' + i
    BY <1>3, <1>4, <1>5
  <2> QED
    BY <1>1, <1>3, <1>4, <2>1 DEF SentInOrder
<1>9. ASSUME ~raced'
      PROVE  DOMAIN carried' = {c} /\ carried'[c] = Sent' /\ Sent' > 0
  <2>1. DOMAIN carried = {}
    BY <1>1, <1>9
  <2>2. DOMAIN carried' = {c} /\ carried'[c] = Head(waiting)
    BY <1>2, <2>1
  <2>3. Head(waiting) = Sent + 1
    BY <1>3, <1>4
  <2> QED
    BY <1>5, <2>1, <2>2, <2>3
<1>10. OneAtATime'
  BY <1>9 DEF OneAtATime
<1>11. ObeysTheLast'
  <2>1. c \in DOMAIN carried' /\ conn'[c] # "writing"
    BY <1>2
  <2> QED
    BY <2>1 DEF ObeysTheLast
<1> QED
  BY <1>6, <1>7, <1>8, <1>10, <1>11 DEF SteeringInv

\* The handler's turn: what heads the strand is the last POST sent.
LEMMA HandlePostKeeps ==
  ASSUME SteeringInv, HandlePost
  PROVE  SteeringInv'
<1> DEFINE c == Head(strand)
<1>1. /\ Handle /\ moving' = MovingAfter(posts[carried[c]])
      /\ stopped' = FALSE
      /\ UNCHANGED <<pressedKeys, posts, waiting, raced, lost>>
  BY DEF HandlePost, page
<1>2. /\ conn' = [conn EXCEPT ![c] = "writing"] /\ UNCHANGED carried
      /\ strand # << >>
  BY <1>1 DEF Handle
<1>3. c \in Range(strand) /\ c \in Connections
  BY <1>2, Leaving DEF SteeringInv, HttpInv, StrandHoldsTheQueued
<1>4. c \in DOMAIN carried /\ conn \in [Connections -> Waits]
  BY <1>3 DEF SteeringInv, HttpInv, StrandHoldsTheQueued
<1> HIDE DEF c
<1>5. HttpInv'
  BY <1>1, HandleKeeps DEF SteeringInv
<1>6. PostsFollowKeys' /\ SentInOrder' /\ OneAtATime'
  BY <1>1, <1>2 DEF SteeringInv, PostsFollowKeys, SentInOrder, OneAtATime, Sent, LastKey
<1>7. ObeysTheLast'
  <2> SUFFICES ASSUME ~raced
               PROVE  moving' \/ stopped' <=> MovesAfter(Sent)'
    BY <1>1 DEF ObeysTheLast
  <2>1. carried[c] = Sent /\ Sent > 0
    BY <1>4 DEF SteeringInv, OneAtATime
  <2>2. Sent' = Sent
    BY <1>1 DEF Sent
  <2>3. MovesAfter(Sent)' <=> MovingAfter(posts[carried[c]])
    BY <1>1, <2>1, <2>2 DEF MovesAfter
  <2> QED
    BY <1>1, <2>3
<1> QED
  BY <1>5, <1>6, <1>7 DEF SteeringInv

\* A session that ends takes its POST with it: one that was not handled is lost.
LEMMA FailsKeeps ==
  ASSUME SteeringInv, HttpInv', NEW c \in Connections,
         lost' = (lost \/ (conn[c] = "reading" /\ c \in DOMAIN carried \ DOMAIN carried')),
         UNCHANGED <<page, dog, raced>>,
         \/ Ends(c) /\ (c \in DOMAIN carried => conn[c] \in {"reading", "writing"})
         \/ UNCHANGED <<conn, carried>>
  PROVE  SteeringInv'
<1>1. CASE UNCHANGED <<conn, carried>>
  BY <1>1, ConnectionsKeep DEF page, dog
<1>2. CASE Ends(c) /\ (c \in DOMAIN carried => conn[c] \in {"reading", "writing"})
  <2>1. /\ conn' = [conn EXCEPT ![c] = "closed"]
        /\ DOMAIN carried' = DOMAIN carried \ {c}
        /\ \A d \in DOMAIN carried' : carried'[d] = carried[d]
    BY <1>2 DEF Ends, Restrict
  <2>2. c \in DOMAIN carried /\ ~lost' => conn[c] = "writing"
    BY <1>2, <2>1
  <2>3. \A d \in DOMAIN carried' : conn'[d] = conn[d]
    BY <2>1 DEF SteeringInv, HttpInv
  <2> QED
    BY <2>1, <2>2, <2>3, ConnectionsKeep DEF page, dog
<1> QED
  BY <1>1, <1>2

LEMMA SteeringInvInit == Init => SteeringInv
<1> SUFFICES ASSUME Init PROVE SteeringInv
  OBVIOUS
<1>1. /\ carried = << >> /\ pressedKeys = << >> /\ posts = << >> /\ waiting = << >>
      /\ moving = FALSE /\ stopped = FALSE
  BY DEF Init, HttpInit
<1>2. HttpInv
  BY HttpInvInit
<1>3. PostsFollowKeys /\ SentInOrder /\ Sent = 0
  BY <1>1 DEF PostsFollowKeys, SentInOrder, Sent
<1>4. OneAtATime /\ ObeysTheLast
  BY <1>1, <1>3 DEF OneAtATime, ObeysTheLast, MovesAfter
<1> QED
  BY <1>2, <1>3, <1>4 DEF SteeringInv

LEMMA SteeringInvStep == SteeringInv /\ [Next]_vars => SteeringInv'
<1> SUFFICES ASSUME SteeringInv, [Next]_vars PROVE SteeringInv'
  OBVIOUS
<1>0. HttpInv'
  BY HttpInvStep DEF SteeringInv
<1>1. ASSUME NEW k \in Keys, KeyDown(k) PROVE SteeringInv'
  BY <1>1, KeyDownKeeps
<1>2. ASSUME NEW k \in Keys, KeyUp(k) PROVE SteeringInv'
  BY <1>2, KeyUpKeeps
<1>3. CASE LoseFocus
  BY <1>3, SteeringUnchanged DEF LoseFocus
<1>4. CASE Accepted /\ UNCHANGED <<page, dog, ended, raced, lost>>
  <2>1. PICK c \in Connections : OnAccept(c)
    BY <1>4 DEF Accepted
  <2>2. /\ carried' = carried /\ conn[c] = "closed"
        /\ conn' = [conn EXCEPT ![c] = "reading"]
    BY <2>1 DEF OnAccept
  <2>3. \A d \in DOMAIN carried : conn'[d] = "writing" <=> conn[d] = "writing"
    BY <2>2 DEF SteeringInv, HttpInv
  <2> QED
    BY <1>0, <1>4, <2>2, <2>3, ConnectionsKeep DEF page, dog
<1>5. CASE AcceptFails /\ UNCHANGED <<page, dog, ended, raced, lost>>
  BY <1>0, <1>5, ConnectionsKeep DEF AcceptFails, page, dog
<1>6. CASE HandlePost
  BY <1>6, HandlePostKeeps
<1>7. ASSUME NEW c \in Connections, SendPost(c) PROVE SteeringInv'
  BY <1>7, SendPostKeeps
<1>8. ASSUME NEW c \in Connections, OnRead(c),
             UNCHANGED <<page, dog, ended, raced, lost>>
      PROVE  SteeringInv'
  <2>1. /\ carried' = carried /\ conn[c] = "reading"
        /\ conn' = [conn EXCEPT ![c] = "queued"]
    BY <1>8 DEF OnRead
  <2>2. \A d \in DOMAIN carried : conn'[d] = "writing" <=> conn[d] = "writing"
    BY <2>1 DEF SteeringInv, HttpInv
  <2> QED
    BY <1>0, <1>8, <2>1, <2>2, ConnectionsKeep DEF page, dog
<1>9. ASSUME NEW c \in Connections, Answered(c) PROVE SteeringInv'
  <2>1. /\ conn[c] = "writing" /\ DOMAIN carried' = DOMAIN carried \ {c}
        /\ \A d \in DOMAIN carried' : carried'[d] = carried[d]
        /\ \A d \in DOMAIN carried' : conn'[d] = conn[d]
    BY <1>9 DEF Answered, OnWrite, Ends, Restrict, SteeringInv, HttpInv
  <2>2. UNCHANGED <<pressedKeys, posts, waiting, dog, raced, lost>>
    BY <1>9 DEF Answered, page
  <2> QED
    BY <1>0, <2>1, <2>2, ConnectionsKeep DEF dog
<1>10. ASSUME NEW c \in Connections, Fails(c, Throws(c)) PROVE SteeringInv'
  BY <1>0, <1>10, FailsKeeps DEF Fails, Throws
<1>11. ASSUME NEW c \in Connections, Fails(c, TimesOut(c)) PROVE SteeringInv'
  BY <1>0, <1>11, FailsKeeps DEF Fails, TimesOut
<1>12. ASSUME NEW c \in Connections, Fails(c, PeerLeaves(c)) PROVE SteeringInv'
  BY <1>0, <1>12, FailsKeeps DEF Fails, PeerLeaves
<1>13. ASSUME NEW c \in Connections, Fails(c, ReadFails(c)) PROVE SteeringInv'
  BY <1>0, <1>13, FailsKeeps DEF Fails, ReadFails
<1>14. CASE DeadEnd
  <2>1. /\ UNCHANGED <<conn, carried, pressedKeys, posts, waiting, raced, lost>>
        /\ moving /\ moving' = FALSE /\ stopped' = TRUE
    BY <1>14 DEF DeadEnd, http, page
  <2> QED
    BY <1>0, <2>1, ConnectionsKeep
<1>15. CASE UNCHANGED vars
  BY <1>15, SteeringUnchanged DEF vars, page
<1> QED
  BY <1>1, <1>2, <1>3, <1>4, <1>5, <1>6, <1>7, <1>8, <1>9, <1>10, <1>11, <1>12, <1>13,
     <1>14, <1>15 DEF Next

-----------------------------------------------------------------------------
\* splice takes the one key out of the list, and no other.
LEMMA Removing ==
  ASSUME NEW s \in Seq(Keys), IsInjective(s), NEW i \in DOMAIN s
  PROVE  /\ IsInjective(RemoveAt(s, i))
         /\ Range(RemoveAt(s, i)) = Range(s) \ {s[i]}
<1> DEFINE t == RemoveAt(s, i)
           from(j) == IF j < i THEN j ELSE j + 1
<1>1. /\ Len(s) \in Nat /\ i \in 1..Len(s) /\ DOMAIN s = 1..Len(s)
      /\ DOMAIN t = 1..Len(s) - 1
      /\ \A j \in 1..Len(s) - 1 : t[j] = s[from(j)]
  <2>1. /\ Len(s) \in Nat /\ i \in 1..Len(s) /\ DOMAIN s = 1..Len(s)
        /\ \A j \in 1..Len(s) : s[j] \in Keys
    OBVIOUS
  <2> DEFINE u == SubSeq(s, 1, i - 1)
             v == SubSeq(s, i + 1, Len(s))
  <2>2. /\ u \in Seq(Keys) /\ Len(u) = i - 1
        /\ \A j \in 1..i - 1 : u[j] = s[j]
    <3>1. \A j \in 1..i - 1 : j \in 1..Len(s)
      BY <2>1
    <3> QED
      BY <2>1, <3>1, SubSeqProperties
  <2>3. /\ v \in Seq(Keys) /\ Len(v) = Len(s) - i
        /\ \A j \in 1..Len(s) - i : v[j] = s[i + j]
    <3>1. \A j \in i + 1..Len(s) : j \in 1..Len(s)
      BY <2>1
    <3> QED
      BY <2>1, <3>1, SubSeqProperties
  <2>4. t = u \o v
    BY DEF RemoveAt
  <2> HIDE DEF t, u, v
  <2>5. /\ DOMAIN t = 1..Len(s) - 1
        /\ \A j \in 1..i - 1 : t[j] = u[j]
        /\ \A j \in i..Len(s) - 1 : t[j] = v[j - (i - 1)]
    <3>1. Len(u) + Len(v) = Len(s) - 1
      BY <2>1, <2>2, <2>3
    <3>2. /\ DOMAIN (u \o v) = 1..Len(u) + Len(v)
          /\ \A j \in 1..Len(u) + Len(v) :
               (u \o v)[j] = IF j <= Len(u) THEN u[j] ELSE v[j - Len(u)]
      BY <2>2, <2>3
    <3>3. /\ \A j \in 1..i - 1 : j \in 1..Len(s) - 1 /\ j <= i - 1
          /\ \A j \in i..Len(s) - 1 : j \in 1..Len(s) - 1 /\ ~(j <= i - 1)
      BY <2>1
    <3> QED
      BY <2>2, <2>4, <3>1, <3>2, <3>3
  <2>6. \A j \in i..Len(s) - 1 : t[j] = s[j + 1]
    <3> TAKE j \in i..Len(s) - 1
    <3>1. j - (i - 1) \in 1..Len(s) - i /\ i + (j - (i - 1)) = j + 1
      BY <2>1
    <3> QED
      BY <2>3, <2>5, <3>1
  <2> QED
    BY <2>1, <2>2, <2>5, <2>6
<1> HIDE DEF t
<1>2. IsInjective(t)
  <2> SUFFICES ASSUME NEW a \in DOMAIN t, NEW b \in DOMAIN t, t[a] = t[b]
               PROVE  a = b
    BY DEF IsInjective
  <2>1. from(a) \in DOMAIN s /\ from(b) \in DOMAIN s /\ s[from(a)] = s[from(b)]
    BY <1>1
  <2>2. from(a) = from(b)
    BY <2>1 DEF IsInjective
  <2> QED
    BY <1>1, <2>2
<1>3. Range(t) = Range(s) \ {s[i]}
  <2>1. ASSUME NEW j \in DOMAIN t
        PROVE  t[j] \in Range(s) \ {s[i]}
    <3>1. from(j) \in DOMAIN s /\ from(j) # i /\ t[j] = s[from(j)]
      BY <1>1
    <3> QED
      BY <3>1 DEF IsInjective, Range
  <2>2. ASSUME NEW j \in DOMAIN s, s[j] # s[i]
        PROVE  s[j] \in Range(t)
    <3>1. CASE j < i
      <4>1. j \in DOMAIN t /\ t[j] = s[j]
        BY <1>1, <3>1
      <4> QED
        BY <4>1 DEF Range
    <3>2. CASE j > i
      <4>1. j - 1 \in DOMAIN t /\ t[j - 1] = s[j]
        BY <1>1, <3>2
      <4> QED
        BY <4>1 DEF Range
    <3> QED
      BY <1>1, <2>2, <3>1, <3>2
  <2> QED
    BY <2>1, <2>2 DEF Range
<1> QED
  BY <1>2, <1>3 DEF t

LEMMA KeysInvInit == Init => KeysInv
BY DEF Init, KeysInv, IsInjective, Range

LEMMA KeysInvStep == KeysInv /\ [Next]_vars => KeysInv'
<1> SUFFICES ASSUME KeysInv, [Next]_vars PROVE KeysInv'
  OBVIOUS
<1>1. ASSUME NEW k \in Keys, KeyDown(k) PROVE KeysInv'
  <2>1. k \notin held /\ held' = held \cup {k} /\ unseen' = unseen \ {k}
    BY <1>1 DEF KeyDown
  <2>2. CASE IndexOf(k) # {}
    <3>1. k \in Range(pressedKeys) /\ pressedKeys' = pressedKeys
      BY <1>1, <2>2 DEF KeyDown, IndexOf, Range
    <3> QED
      BY <2>1, <3>1 DEF KeysInv
  <2>3. CASE IndexOf(k) = {}
    <3>1. \A i \in DOMAIN pressedKeys : pressedKeys[i] = k => i \in IndexOf(k)
      BY DEF KeysInv, IsInjective, IndexOf
    <3>2. k \notin Range(pressedKeys) /\ pressedKeys' = Append(pressedKeys, k)
      BY <1>1, <2>3, <3>1 DEF KeyDown, Range
    <3>3. /\ pressedKeys' \in Seq(Keys) /\ IsInjective(pressedKeys')
          /\ Range(pressedKeys') = Range(pressedKeys) \cup {k}
      BY <3>2, Appending DEF KeysInv
    <3> QED
      BY <2>1, <3>2, <3>3 DEF KeysInv
  <2> QED
    BY <2>2, <2>3
<1>2. ASSUME NEW k \in Keys, KeyUp(k) PROVE KeysInv'
  <2>1. k \in held /\ held' = held \ {k} /\ unseen' = unseen
    BY <1>2 DEF KeyUp
  <2>2. PICK i \in DOMAIN pressedKeys : pressedKeys[i] = k
    BY <2>1 DEF KeysInv, Range
  <2>3. IndexOf(k) = {i}
    BY <2>2 DEF KeysInv, IsInjective, IndexOf
  <2>4. pressedKeys' = RemoveAt(pressedKeys, i)
    BY <1>2, <2>3 DEF KeyUp
  <2>5. /\ pressedKeys' \in Seq(Keys) /\ IsInjective(pressedKeys')
        /\ Range(pressedKeys') = Range(pressedKeys) \ {k}
    BY <2>2, <2>4, Splicing, Removing DEF KeysInv
  <2> QED
    BY <2>1, <2>5 DEF KeysInv
<1>3. CASE LoseFocus
  BY <1>3 DEF LoseFocus, KeysInv
<1>4. CASE UNCHANGED <<pressedKeys, held, unseen>>
  BY <1>4 DEF KeysInv
<1> QED
  BY <1>1, <1>2, <1>3, <1>4
     DEF Next, vars, page, HandlePost, DeadEnd, SendPost, Answered, Fails

\* The list of keys is empty exactly if its last key is none of them.
LEMMA LastKeyTells ==
  ASSUME PostsFollowKeys
  PROVE  LastKey(pressedKeys) # None <=> Range(pressedKeys) # {}
<1>1. CASE pressedKeys = << >>
  BY <1>1 DEF LastKey, Range
<1>2. CASE pressedKeys # << >>
  <2>1. Len(pressedKeys) \in DOMAIN pressedKeys /\ pressedKeys[Len(pressedKeys)] \in Keys
    BY <1>2 DEF PostsFollowKeys
  <2> QED
    BY <1>2, <2>1, SteeringAssumptions DEF LastKey, Last, Range, None
<1> QED
  BY <1>1, <1>2

\* For any number of keys, connections and threads, and whatever became of the
\* POSTs before: a dog whose last POST was handled, and sent while no other was
\* under way, runs or has come to a dead end if and only if a key is down or came
\* up unseen.
THEOREM DogsObeyTheirKeys == Spec => []SettledDogObeys
<1>1. SteeringInv /\ KeysInv => SettledDogObeys
  <2> SUFFICES ASSUME SteeringInv, KeysInv, ~raced, ~lost,
                      waiting = << >>, DOMAIN carried = {}
               PROVE  moving \/ stopped <=> held \cup unseen # {}
    BY DEF SettledDogObeys
  <2>1. Sent = Len(posts) /\ Len(posts) \in Nat
    BY DEF Sent, SteeringInv, PostsFollowKeys
  <2>2. moving \/ stopped <=> MovesAfter(Len(posts))
    BY <2>1 DEF SteeringInv, ObeysTheLast
  <2>3. LastKey(pressedKeys) # None <=> held \cup unseen # {}
    BY LastKeyTells DEF SteeringInv, KeysInv
  <2>4. CASE posts = << >>
    BY <2>2, <2>3, <2>4 DEF MovesAfter, SteeringInv, PostsFollowKeys, LastKey
  <2>5. CASE posts # << >>
    <3>1. Len(posts) > 0 /\ posts[Len(posts)] = LastKey(pressedKeys)
      BY <2>5 DEF SteeringInv, PostsFollowKeys
    <3> QED
      BY <2>2, <2>3, <3>1 DEF MovesAfter, MovingAfter
  <2> QED
    BY <2>4, <2>5
<1> QED
  BY <1>1, SteeringInvInit, SteeringInvStep, KeysInvInit, KeysInvStep, PTL DEF Spec
=============================================================================
