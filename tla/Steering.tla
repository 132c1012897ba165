------------------------------ MODULE Steering ------------------------------
(***************************************************************************)
(* The keys of a player (class KeyState and _pressKey of static/js/game.js) *)
(* on their way to the dog (MovePlayerUseCase), through HttpServer.        *)
(*                                                                         *)
(* Every change of the keys becomes a POST of its own.  Nothing waits for  *)
(* the answer of the one before, nothing is sent again, and the browser    *)
(* uses any connection it has: two POSTs may be handled in either order.   *)
(* Of the dog only "its speed is not zero" is kept, which a tick ends at a *)
(* dead end (RoadMovement has the rest); it stays in the game.             *)
(***************************************************************************)
EXTENDS HttpServer, SequencesExt

CONSTANTS
  Keys,      \* the arrow keys in use
  MaxPosts   \* bound: POSTs

ASSUME SteeringAssumptions == "" \notin Keys /\ MaxPosts \in Nat

VARIABLES
  held,         \* the keys that are down
  pressedKeys,  \* KeyState::pressedKeys
  posts,        \* the POSTs so far: the "move" of each
  waiting,      \* the numbers of POSTs that have no connection yet
  ended,        \* the numbers of those whose answer or failure has come
  moving,       \* the dog's speed is not zero
  stopped,      \* history: a dead end has stopped the dog since its last POST
  unseen,       \* history: keys that came up while the page had no focus
  raced,        \* history: the last POST was sent while another was under way
  lost          \* history: that POST has never been handled

page == <<held, pressedKeys, posts, waiting, unseen>>
dog == <<moving, stopped>>
vars == <<http, page, dog, ended, raced, lost>>

None == ""

-----------------------------------------------------------------------------
(* The page.                                                               *)

\* pressedKeys.indexOf: where a key is first in the list.
IndexOf(k) ==
  {i \in DOMAIN pressedKeys :
     pressedKeys[i] = k /\ \A j \in DOMAIN pressedKeys : j < i => pressedKeys[j] # k}

\* getLastKey
LastKey(keys) == IF keys = << >> THEN None ELSE Last(keys)

\* Mutant: no POST when no key is left.
PressKeyIfAny(keys) ==
  IF keys = << >> THEN UNCHANGED <<posts, waiting>>
  ELSE /\ posts' = Append(posts, LastKey(keys))
       /\ waiting' = Append(waiting, Len(posts) + 1)

\* _pressKey(getLastKey())
PressKey(keys) ==
  /\ posts' = Append(posts, LastKey(keys))
  /\ waiting' = Append(waiting, Len(posts) + 1)

\* keyDown: a key that is in the list already, repeated or stuck, is ignored.
KeyDown(k) ==
  /\ k \notin held /\ Len(posts) < MaxPosts
  /\ held' = held \cup {k} /\ unseen' = unseen \ {k}
  /\ IF IndexOf(k) # {}
     THEN UNCHANGED <<pressedKeys, posts, waiting>>
     ELSE pressedKeys' = Append(pressedKeys, k) /\ PressKey(pressedKeys')
  /\ UNCHANGED <<http, dog, ended, raced, lost>>

KeyUp(k) ==
  /\ k \in held /\ Len(posts) < MaxPosts
  /\ held' = held \ {k}
  /\ \/ \E i \in IndexOf(k) :
          pressedKeys' = RemoveAt(pressedKeys, i) /\ PressKey(pressedKeys')
     \/ IndexOf(k) = {} /\ UNCHANGED <<pressedKeys, posts, waiting>>
  /\ UNCHANGED <<unseen, http, dog, ended, raced, lost>>

\* The window loses the focus, and the keys come up unseen.
LoseFocus ==
  /\ held # {} /\ Len(posts) < MaxPosts
  /\ held' = {} /\ unseen' = unseen \cup held
  /\ UNCHANGED <<pressedKeys, posts, waiting, http, dog, ended, raced, lost>>

\* The browser sends the oldest POST that has no connection.
SendPost(c) ==
  /\ waiting # << >>
  /\ Send(c, Head(waiting))
  /\ waiting' = Tail(waiting)
  /\ raced' = (DOMAIN carried # {}) /\ lost' = FALSE
  /\ UNCHANGED <<held, pressedKeys, posts, unseen, dog, ended>>

-----------------------------------------------------------------------------
(* The server.                                                             *)

\* SetDogDirection: the speed is set by every direction, and refused afterwards.
MovingAfter(key) == key # None

HandlePost ==
  /\ Handle
  /\ moving' = MovingAfter(posts[carried[Head(strand)]])
  /\ stopped' = FALSE
  /\ UNCHANGED <<page, ended, raced, lost>>

\* A tick, on the same strand, in which MoveDog finds no road to go on.
DeadEnd ==
  /\ Serving /\ moving
  /\ moving' = FALSE /\ stopped' = TRUE
  /\ UNCHANGED <<http, page, ended, raced, lost>>

\* What the browser learns: the answer of a connection it has not given up.
Answered(c) ==
  /\ OnWrite(c)
  /\ ended' = ended \cup {carried[c]}
  /\ UNCHANGED <<page, dog, raced, lost>>

\* Something happens to a connection; if it is lost to the browser its POST
\* fails, which _pressKey does not notice.  Handled it may be all the same.
Fails(c, how) ==
  /\ how
  /\ ended' = ended \cup {carried[d] : d \in {e \in {c} \cap DOMAIN carried :
                                               e \notin DOMAIN carried' \/ e \in gone'}}
  /\ lost' = (lost \/ (conn[c] = "reading" /\ c \in DOMAIN carried \ DOMAIN carried'))
  /\ UNCHANGED <<page, dog, raced>>

Accepted == (\E c \in Connections : OnAccept(c)) /\ waiting # << >>

-----------------------------------------------------------------------------
Init ==
  /\ HttpInit
  /\ held = {} /\ pressedKeys = << >> /\ posts = << >> /\ waiting = << >>
  /\ ended = {} /\ moving = FALSE /\ stopped = FALSE
  /\ unseen = {} /\ raced = FALSE /\ lost = FALSE

Next ==
  \/ \E k \in Keys : KeyDown(k) \/ KeyUp(k)
  \/ LoseFocus
  \/ (Accepted \/ AcceptFails) /\ UNCHANGED <<page, dog, ended, raced, lost>>
  \/ HandlePost
  \/ DeadEnd
  \/ \E c \in Connections :
       \/ SendPost(c)
       \/ OnRead(c) /\ UNCHANGED <<page, dog, ended, raced, lost>>
       \/ Answered(c)
       \/ Fails(c, Throws(c))
       \/ Fails(c, ReadFails(c))
       \/ Fails(c, TimesOut(c))
       \/ Fails(c, PeerLeaves(c))

Spec == Init /\ [][Next]_vars

\* The threads go on while there are any, the kernel completes connections and
\* the browser uses them.
FairSpec ==
  /\ Spec
  /\ WF_vars(Accepted /\ UNCHANGED <<page, dog, ended, raced, lost>>)
  /\ WF_vars(HandlePost)
  /\ WF_vars(\E c \in Connections : SendPost(c))
  /\ \A c \in Connections :
       /\ WF_vars(OnRead(c) /\ UNCHANGED <<page, dog, ended, raced, lost>>)
       /\ WF_vars(Answered(c))

-----------------------------------------------------------------------------
(* Properties.                                                             *)

\* Once every POST has been handled, the dog runs if and only if a key is down,
\* with any number of keys in any order of their presses and releases, but for
\* two things: it stands at a dead end until the next POST, and it goes on
\* running for a key whose release the page has not seen.  The last POST tells
\* what the ones before it told: whatever had become of them, it is enough that
\* the last one was handled and that no other was under way when it was sent.
SettledDogObeys ==
  /\ ~raced /\ ~lost
  /\ waiting = << >> /\ DOMAIN carried = {}
  => (moving \/ stopped <=> held \cup unseen # {})

\* A POST is answered or fails, however many threads an exception has ended,
\* unless the process is terminated or the last connection is gone after a failed
\* accept, for then the Listener never calls async_accept again; as long as one
\* is left, the POSTs take turns on it.
PostsEnd ==
  \A n \in 1..MaxPosts :
    (n \in DOMAIN posts) ~>
      \/ n \in ended \/ process = "terminated"
      \/ ~accepting /\ \A c \in Connections : conn[c] = "closed"
=============================================================================
