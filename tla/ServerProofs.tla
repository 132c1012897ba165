---------------------------- MODULE ServerProofs ----------------------------
(***************************************************************************)
(* Proofs about Server, for every config, inherited state file, period and *)
(* number of crashes and stops.                                            *)
(***************************************************************************)
EXTENDS Server, AppProofs, FiniteSetTheorems, WellFoundedInduction

-----------------------------------------------------------------------------
(* Going through a finite set of numbers in their order.                   *)

\* A finite set of numbers that is not empty has a largest.
LEMMA MaxIsLargest ==
  ASSUME NEW S \in SUBSET Nat, IsFiniteSet(S), S # {}
  PROVE  Max(S) \in S /\ \A i \in S : i <= Max(S)
<1> DEFINE HasMax(X) == \E m \in X : \A i \in X : m >= i
           R   == StrictSubsetOrdering(S)
           Bad == {X \in SUBSET S : X # {} /\ ~HasMax(X)}
<1>1. S \notin Bad
  <2> SUFFICES ASSUME S \in Bad PROVE FALSE
    OBVIOUS
  <2>1. IsWellFoundedOn(R, FiniteSubsetsOf(S)) /\ Bad \subseteq FiniteSubsetsOf(S)
    BY FS_StrictSubsetOrderingWellFounded, FS_FiniteSubsetsOfFinite
  <2> HIDE DEF R
  <2>2. PICK X \in Bad : \A Y \in Bad : <<Y, X>> \notin R
    BY <2>1, WFMin
  <2>3. PICK x \in X : TRUE
    OBVIOUS
  <2>4. X \ {x} \in SUBSET S /\ X \ {x} # X /\ X \in SUBSET S
    BY <2>3
  <2>5. X \ {x} \notin Bad
    BY <2>2, <2>4 DEF R, StrictSubsetOrdering
  <2>6. CASE X = {x}
    BY <2>3, <2>4, <2>6
  <2>7. CASE HasMax(X \ {x})
    <3>1. PICK m \in X \ {x} : \A i \in X \ {x} : m >= i
      BY <2>7
    <3>2. x \in Nat /\ m \in Nat /\ \A i \in X : i \in Nat
      BY <2>3, <2>4
    <3>3. HasMax(X)
      BY <2>3, <3>1, <3>2
    <3> QED
      BY <3>3
  <2> QED
    BY <2>4, <2>5, <2>6, <2>7
<1>2. \E m \in S : \A i \in S : m >= i
  BY <1>1
<1>3. Max(S) \in S /\ \A i \in S : Max(S) >= i
  BY <1>2 DEF Max
<1> QED
  BY <1>3

\* Induction along that order, for the sets in Good.
LEMMA UpToTheLast ==
  ASSUME NEW S \in SUBSET Nat, IsFiniteSet(S), NEW Good, {} \in Good,
         \A T \in SUBSET S : T # {} /\ T \ {Max(T)} \in Good => T \in Good
  PROVE  S \in Good
<1> DEFINE R   == StrictSubsetOrdering(S)
           Bad == {T \in SUBSET S : T \notin Good}
<1> SUFFICES ASSUME S \in Bad PROVE FALSE
  OBVIOUS
<1>1. IsWellFoundedOn(R, FiniteSubsetsOf(S)) /\ Bad \subseteq FiniteSubsetsOf(S)
  BY FS_StrictSubsetOrderingWellFounded, FS_FiniteSubsetsOfFinite
<1>2. PICK T \in Bad : \A Y \in Bad : <<Y, T>> \notin R
  <2> HIDE DEF R, Bad
  <2> QED
    BY <1>1, WFMin
<1>3. T \in SUBSET S /\ IsFiniteSet(T) /\ T # {}
  BY FS_Subset
<1>4. Max(T) \in T
  BY <1>3, MaxIsLargest
<1>5. T \ {Max(T)} \notin Bad
  <2>1. \A x \in T : T \ {x} \in SUBSET S /\ T \ {x} # T
    BY <1>3
  <2>2. <<T \ {Max(T)}, T>> \in R
    BY <1>3, <1>4, <2>1 DEF StrictSubsetOrdering
  <2> HIDE DEF R, Bad
  <2> QED
    BY <1>2, <2>2
<1> QED
  BY <1>3, <1>5

\* The dogs are removed one after the other.
LEMMA RemovedInOrder ==
  ASSUME NEW S \in SUBSET Nat, IsFiniteSet(S), NEW base
  PROVE  \E it :
           /\ it[{}] = base
           /\ \A T \in SUBSET S : T # {} =>
                it[T] = RemoveRetired(Max(T), it[T \ {Max(T)}])
           /\ MapThenFoldSet(RemoveRetired, base, LAMBDA b : b, Max, S) = it[S]
<1> DEFINE Passes(it, T) ==
             it = [s \in SUBSET T |->
                     IF s = {} THEN base ELSE RemoveRetired(Max(s), it[s \ {Max(s)}])]
           Good == {T \in SUBSET S : \E it : Passes(it, T)}
<1>1. {} \in Good
  <2> DEFINE it == [s \in SUBSET {} |-> base]
  <2>1. Passes(it, {})
    OBVIOUS
  <2> QED
    BY <2>1
<1>2. ASSUME NEW T \in SUBSET S, T # {}, T \ {Max(T)} \in Good
      PROVE  T \in Good
  <2> DEFINE x == Max(T)
  <2>1. PICK old : Passes(old, T \ {x})
    BY <1>2
  <2>2. x \in T /\ \A i \in T : i <= x
    BY <1>2, FS_Subset, MaxIsLargest
  <2>3. \A s \in SUBSET T : x \in s => Max(s) = x
    <3> SUFFICES ASSUME NEW s \in SUBSET T, x \in s PROVE Max(s) = x
      OBVIOUS
    <3>1. s \in SUBSET Nat /\ IsFiniteSet(s) /\ s # {}
      BY FS_Subset
    <3>2. Max(s) \in s /\ x <= Max(s)
      BY <3>1, MaxIsLargest
    <3>3. Max(s) <= x /\ Max(s) \in Nat /\ x \in Nat
      BY <2>2, <3>1, <3>2
    <3> QED
      BY <3>2, <3>3
  <2>4. \A s \in SUBSET T : s # {} /\ x \notin s => Max(s) \in s
    BY FS_Subset, MaxIsLargest
  <2> HIDE DEF x
  <2> DEFINE new == [s \in SUBSET T |->
                       IF x \in s THEN RemoveRetired(x, old[s \ {x}]) ELSE old[s]]
  <2>5. ASSUME NEW s \in SUBSET T
        PROVE  new[s] = IF s = {} THEN base
                        ELSE RemoveRetired(Max(s), new[s \ {Max(s)}])
    <3>1. CASE x \in s
      <4>1. new[s] = RemoveRetired(x, old[s \ {x}])
        BY <3>1
      <4>2. new[s \ {x}] = old[s \ {x}]
        OBVIOUS
      <4> HIDE DEF new
      <4> QED
        BY <2>3, <3>1, <4>1, <4>2
    <3>2. CASE x \notin s
      <4>1. new[s] = old[s] /\ \A y : new[s \ {y}] = old[s \ {y}]
        BY <3>2
      <4>2. s \in SUBSET (T \ {x})
        BY <3>2
      <4>3. old[s] = IF s = {} THEN base ELSE RemoveRetired(Max(s), old[s \ {Max(s)}])
        BY <2>1, <4>2
      <4> HIDE DEF new
      <4> QED
        BY <4>1, <4>3
    <3> QED
      BY <3>1, <3>2
  <2>6. Passes(new, T)
    <3>1. new = [s \in SUBSET T |-> new[s]]
      OBVIOUS
    <3> HIDE DEF new
    <3> QED
      BY <2>5, <3>1
  <2> QED
    BY <2>6
<1>3. S \in Good
  <2> HIDE DEF Good
  <2> QED
    BY <1>1, <1>2, UpToTheLast
<1> DEFINE chosen == CHOOSE it : Passes(it, S)
<1>4. MapThenFoldSet(RemoveRetired, base, LAMBDA b : b, Max, S) = chosen[S]
  BY DEF MapThenFoldSet
<1>5. Passes(chosen, S)
  BY <1>3
<1> HIDE DEF chosen
<1>6. /\ chosen[{}] = base
      /\ \A T \in SUBSET S : T # {} =>
           chosen[T] = RemoveRetired(Max(T), chosen[T \ {Max(T)}])
  BY <1>5
<1> QED
  BY <1>4, <1>6

\* The same for the sessions.
LEMMA RetiredInOrder ==
  ASSUME DOMAIN sessions \subseteq Nat, IsFiniteSet(DOMAIN sessions), NEW ds, NEW F
  PROVE  \E it :
           /\ it[{}] = [was |-> ds, dogs |-> ds, players |-> players, tokens |-> tokens,
                        rows |-> rows, thrown |-> FALSE, failed |-> saveFailed]
           /\ \A T \in SUBSET DOMAIN sessions : T # {} =>
                it[T] = RetireSession(it[T \ {Max(T)}], Max(T), F)
           /\ Retired(ds, F) = it[DOMAIN sessions]
<1> DEFINE base == [was |-> ds, dogs |-> ds, players |-> players, tokens |-> tokens,
                    rows |-> rows, thrown |-> FALSE, failed |-> saveFailed]
           S == DOMAIN sessions
<1>0. S \in SUBSET Nat /\ IsFiniteSet(S)
  OBVIOUS
<1>7. Retired(ds, F) = MapThenFoldSet(LAMBDA sid, g : RetireSession(g, sid, F), base,
                                      LAMBDA sid : sid, Max, S)
  BY Zenon DEF Retired
<1> HIDE DEF base, S
<1> DEFINE Passes(it, T) ==
             it = [s \in SUBSET T |->
                     IF s = {} THEN base ELSE RetireSession(it[s \ {Max(s)}], Max(s), F)]
           Good == {T \in SUBSET S : \E it : Passes(it, T)}
<1>1. {} \in Good
  <2> DEFINE it == [s \in SUBSET {} |-> base]
  <2>1. Passes(it, {})
    OBVIOUS
  <2> QED
    BY <2>1
<1>2. ASSUME NEW T \in SUBSET S, T # {}, T \ {Max(T)} \in Good
      PROVE  T \in Good
  <2> DEFINE x == Max(T)
  <2>1. PICK old : Passes(old, T \ {x})
    BY <1>2
  <2>2. x \in T /\ \A i \in T : i <= x
    BY <1>0, <1>2, FS_Subset, MaxIsLargest
  <2>3. \A s \in SUBSET T : x \in s => Max(s) = x
    <3> SUFFICES ASSUME NEW s \in SUBSET T, x \in s PROVE Max(s) = x
      OBVIOUS
    <3>1. s \in SUBSET Nat /\ IsFiniteSet(s) /\ s # {}
      BY <1>0, FS_Subset
    <3>2. Max(s) \in s /\ x <= Max(s)
      BY <3>1, MaxIsLargest
    <3>3. Max(s) <= x /\ Max(s) \in Nat /\ x \in Nat
      BY <2>2, <3>1, <3>2
    <3> QED
      BY <3>2, <3>3
  <2>4. \A s \in SUBSET T : s # {} /\ x \notin s => Max(s) \in s
    BY <1>0, FS_Subset, MaxIsLargest
  <2> HIDE DEF x
  <2> DEFINE new == [s \in SUBSET T |->
                       IF x \in s THEN RetireSession(old[s \ {x}], x, F) ELSE old[s]]
  <2>5. ASSUME NEW s \in SUBSET T
        PROVE  new[s] = IF s = {} THEN base
                        ELSE RetireSession(new[s \ {Max(s)}], Max(s), F)
    <3>1. CASE x \in s
      <4>1. new[s] = RetireSession(old[s \ {x}], x, F)
        BY <3>1
      <4>2. new[s \ {x}] = old[s \ {x}]
        OBVIOUS
      <4> HIDE DEF new
      <4> QED
        BY <2>3, <3>1, <4>1, <4>2
    <3>2. CASE x \notin s
      <4>1. new[s] = old[s] /\ \A y : new[s \ {y}] = old[s \ {y}]
        BY <3>2
      <4>2. s \in SUBSET (T \ {x})
        BY <3>2
      <4>3. old[s] = IF s = {} THEN base ELSE RetireSession(old[s \ {Max(s)}], Max(s), F)
        BY <2>1, <4>2
      <4> HIDE DEF new
      <4> QED
        BY <4>1, <4>3
    <3> QED
      BY <3>1, <3>2
  <2>6. Passes(new, T)
    <3>1. new = [s \in SUBSET T |-> new[s]]
      OBVIOUS
    <3> HIDE DEF new
    <3> QED
      BY <2>5, <3>1
  <2> QED
    BY <2>6
<1>3. S \in Good
  <2> HIDE DEF Good
  <2> QED
    BY <1>0, <1>1, <1>2, UpToTheLast
<1> DEFINE chosen == CHOOSE it : Passes(it, S)
<1>4. MapThenFoldSet(LAMBDA sid, g : RetireSession(g, sid, F), base,
                           LAMBDA sid : sid, Max, S) = chosen[S]
  BY Zenon DEF MapThenFoldSet
<1>5. Passes(chosen, S)
  BY <1>3
<1> HIDE DEF chosen
<1>6. /\ chosen[{}] = base
      /\ \A T \in SUBSET S : T # {} =>
           chosen[T] = RetireSession(chosen[T \ {Max(T)}], Max(T), F)
  BY <1>5
<1> QED
  BY <1>4, <1>6, <1>7 DEF base, S

-----------------------------------------------------------------------------
(* Retirement without orphans is that of App.                              *)

\* What is in memory are finitely many sessions, dogs and players.
Memory ==
  /\ sessions = [s \in DOMAIN sessions |-> sessions[s]]
  /\ dogs = [b \in DOMAIN dogs |-> dogs[b]]
  /\ players = [i \in DOMAIN players |-> players[i]]
  /\ tokens = [t \in DOMAIN tokens |-> tokens[t]]
  /\ IsFiniteSet(DOMAIN sessions)

\* What a tick makes of the dogs: the same ones, with other clocks and speeds.
SameDogs(ds) ==
  /\ ds = [b \in DOMAIN dogs |-> ds[b]]
  /\ \A b \in DOMAIN dogs : /\ ds[b] \in Dog
                            /\ ds[b].id = dogs[b].id
                            /\ ds[b].sess = dogs[b].sess

\* The game when the dogs in S have got their rows and those in R are gone, and
\* the INSERTs of those in E have failed.
After(ds, R, S, E) ==
  [was |-> ds,
   dogs |-> Restrict(ds, DOMAIN ds \ R),
   players |-> Restrict(players, DOMAIN players \ {ds[b].id : b \in R}),
   tokens |-> Restrict(tokens, DOMAIN tokens \ R),
   rows |-> [b \in Births |-> IF b \in S THEN Capped(rows[b] + 1, 2) ELSE rows[b]],
   thrown |-> E # {}, failed |-> saveFailed \/ E # {}]

\* Every dog has a player of its own.
LEMMA PlayersOfDogs ==
  ASSUME Core, NoOrphans, NEW ds, SameDogs(ds)
  PROVE  /\ DOMAIN ds = DOMAIN dogs
         /\ \A b \in DOMAIN ds : /\ b \in DOMAIN tokens /\ b \in Nat
                                 /\ ds[b].id \in DOMAIN players
                                 /\ players[ds[b].id].token = b
         /\ \A b, c \in DOMAIN ds : ds[b].id = ds[c].id => b = c
<1>1. DOMAIN ds = DOMAIN dogs
  BY DEF SameDogs
<1>2. ASSUME NEW b \in DOMAIN ds
      PROVE  /\ b \in DOMAIN tokens /\ b \in Nat
             /\ ds[b].id \in DOMAIN players
             /\ players[ds[b].id].token = b
  <2>1. b \in DOMAIN tokens /\ ds[b].id = tokens[b].id
    BY <1>1 DEF SameDogs, Core, NoOrphans, DogsMatchPlayers
  <2> QED
    BY <1>1, <2>1 DEF Core, RegistryMirrored, TypeOK
<1> QED
  BY <1>1, <1>2

\* RemoveDog and DeletePlayer of a dog that is there: it goes with its player.
LEMMA OneRemoved ==
  ASSUME Core, NoOrphans, NEW ds, SameDogs(ds), NEW R \in SUBSET DOMAIN ds,
         NEW b \in DOMAIN ds \ R, NEW S
  PROVE  RemoveRetired(b, After(ds, R, S, {}))
           = After(ds, R \cup {b}, S, {})
<1> DEFINE g == After(ds, R, S, {})
<1>1. /\ g.was = ds /\ g.dogs = Restrict(ds, DOMAIN ds \ R)
      /\ g.players = Restrict(players, DOMAIN players \ {ds[c].id : c \in R})
      /\ g.tokens = Restrict(tokens, DOMAIN tokens \ R)
      /\ g.rows = [c \in Births |-> IF c \in S THEN Capped(rows[c] + 1, 2) ELSE rows[c]]
      /\ g.thrown = FALSE /\ g.failed = saveFailed
      /\ g = [was |-> g.was, dogs |-> g.dogs, players |-> g.players, tokens |-> g.tokens,
              rows |-> g.rows, thrown |-> g.thrown, failed |-> g.failed]
  BY DEF After, Core, TypeOK
<1> HIDE DEF g
<1>2. /\ ds[b].id \in DOMAIN g.players /\ g.players[ds[b].id].token = b
      /\ ds[b].id \notin {ds[c].id : c \in R}
  BY <1>1, PlayersOfDogs DEF Restrict
<1>3. FirstWithId(g.dogs, ds[b].sess, ds[b].id) = {b}
  <2>1. {c \in DOMAIN g.dogs : g.dogs[c].sess = ds[b].sess /\ g.dogs[c].id = ds[b].id} = {b}
    BY <1>1, PlayersOfDogs DEF Restrict
  <2>2. b <= b
    BY PlayersOfDogs
  <2> QED
    BY <2>1, <2>2 DEF FirstWithId
<1>4. Restrict(g.dogs, DOMAIN g.dogs \ {b}) = Restrict(ds, DOMAIN ds \ (R \cup {b}))
  BY <1>1 DEF Restrict
<1>5. Restrict(g.tokens, DOMAIN g.tokens \ {b}) = Restrict(tokens, DOMAIN tokens \ (R \cup {b}))
  BY <1>1 DEF Restrict
<1>6. Restrict(g.players, DOMAIN g.players \ {ds[b].id})
        = Restrict(players, DOMAIN players \ {ds[c].id : c \in R \cup {b}})
  BY <1>1 DEF Restrict
<1>7. RemoveRetired(b, g)
        = [g EXCEPT !.dogs = Restrict(g.dogs, DOMAIN g.dogs \ {b}),
                    !.thrown = FALSE,
                    !.tokens = Restrict(g.tokens, DOMAIN g.tokens \ {b}),
                    !.players = Restrict(g.players, DOMAIN g.players \ {ds[b].id})]
  BY <1>1, <1>2, <1>3 DEF RemoveRetired
<1> QED
  BY <1>1, <1>4, <1>5, <1>6, <1>7 DEF After, g, Core, TypeOK

\* The removals of one session, all of them.
LEMMA AllRemoved ==
  ASSUME Core, NoOrphans, NEW ds, SameDogs(ds), NEW R \in SUBSET DOMAIN ds,
         NEW B \in SUBSET (DOMAIN ds \ R), IsFiniteSet(B), NEW S
  PROVE  MapThenFoldSet(RemoveRetired, After(ds, R, S, {}), LAMBDA b : b, Max, B)
           = After(ds, R \cup B, S, {})
<1> DEFINE base == After(ds, R, S, {})
<1>1. B \in SUBSET Nat
  BY PlayersOfDogs
<1>2. PICK it : /\ it[{}] = base
                /\ \A T \in SUBSET B : T # {} =>
                     it[T] = RemoveRetired(Max(T), it[T \ {Max(T)}])
                /\ MapThenFoldSet(RemoveRetired, base, LAMBDA b : b, Max, B) = it[B]
  BY <1>1, RemovedInOrder
<1> HIDE DEF base
<1> DEFINE Good == {T \in SUBSET B : it[T] = After(ds, R \cup T, S, {})}
<1>3. {} \in Good
  <2>1. R \cup {} = R
    OBVIOUS
  <2> QED
    BY <1>2, <2>1 DEF base
<1>4. ASSUME NEW T \in SUBSET B, T # {}, T \ {Max(T)} \in Good
      PROVE  T \in Good
  <2> DEFINE x == Max(T)
             Q == R \cup (T \ {x})
  <2>1. x \in T
    BY <1>1, <1>4, FS_Subset, MaxIsLargest
  <2>2. it[T] = RemoveRetired(x, it[T \ {x}]) /\ it[T \ {x}] = After(ds, Q, S, {})
    BY <1>2, <1>4
  <2> HIDE DEF x
  <2>3. Q \in SUBSET DOMAIN ds /\ x \in DOMAIN ds \ Q /\ Q \cup {x} = R \cup T
    BY <2>1
  <2> HIDE DEF Q
  <2>4. RemoveRetired(x, After(ds, Q, S, {}))
          = After(ds, Q \cup {x}, S, {})
    BY <2>3, OneRemoved
  <2> QED
    BY <2>2, <2>3, <2>4
<1>5. B \in Good
  <2> HIDE DEF Good
  <2> QED
    BY <1>1, <1>3, <1>4, UpToTheLast
<1> QED
  BY <1>2, <1>5 DEF base

\* What RetireDogs does in the sessions of T: the rows it writes and the dogs
\* it removes.
DueIn(ds, T) == {b \in Overdue(ds) : ds[b].sess \in T}
SavedIn(ds, F, T) ==
  {b \in DueIn(ds, T) :
     \A c \in F \cap DueIn(ds, T) : \/ ds[b].sess < ds[c].sess
                                    \/ ds[b].sess = ds[c].sess /\ b < c}
RemovedIn(ds, F, T) ==
  {b \in DueIn(ds, T) : \A c \in F \cap DueIn(ds, T) : ds[b].sess < ds[c].sess}
AfterSessions(ds, F, T) ==
  After(ds, RemovedIn(ds, F, T), SavedIn(ds, F, T), F \cap DueIn(ds, T))

\* One session more, the last of them.
LEMMA SessionRetired ==
  ASSUME Core, NoOrphans, NEW ds, SameDogs(ds), NEW F \in SUBSET Overdue(ds),
         NEW T \in SUBSET DOMAIN sessions, NEW s \in T, \A t \in T : t <= s
  PROVE  RetireSession(AfterSessions(ds, F, T \ {s}), s, F) = AfterSessions(ds, F, T)
<1> DEFINE g   == AfterSessions(ds, F, T \ {s})
           due == DueIn(ds, {s})
           R   == RemovedIn(ds, F, T \ {s})
           S   == SavedIn(ds, F, T \ {s})
           E   == F \cap DueIn(ds, T \ {s})
           new == {b \in due : \A c \in F \cap due : b < c}
<1>1. /\ s \in Nat /\ \A b \in DOMAIN ds : b \in Nat /\ ds[b].sess \in Nat
      /\ DOMAIN ds = DOMAIN dogs /\ DOMAIN dogs \subseteq Births
      /\ Overdue(ds) \subseteq DOMAIN ds /\ IsFiniteSet(Overdue(ds))
  <2>1. DOMAIN dogs \subseteq Births /\ DOMAIN sessions \subseteq Nat
        /\ \A b \in DOMAIN dogs : b \in Nat /\ dogs[b].sess \in DOMAIN sessions
    BY Assumptions DEF Core, TypeOK, Births
  <2>2. IsFiniteSet(Births)
    BY FS_Interval, Assumptions DEF Births
  <2>3. DOMAIN ds = DOMAIN dogs /\ \A b \in DOMAIN dogs : ds[b].sess = dogs[b].sess
    BY DEF SameDogs
  <2>4. Overdue(ds) \subseteq DOMAIN ds
    BY DEF Overdue
  <2>5. IsFiniteSet(Overdue(ds))
    BY <2>1, <2>2, <2>3, <2>4, FS_Subset
  <2> QED
    BY <2>1, <2>3, <2>4, <2>5
<1>2. /\ g.was = ds /\ g.dogs = Restrict(ds, DOMAIN ds \ R)
      /\ g.players = Restrict(players, DOMAIN players \ {ds[c].id : c \in R})
      /\ g.tokens = Restrict(tokens, DOMAIN tokens \ R)
      /\ g.rows = [c \in Births |-> IF c \in S THEN Capped(rows[c] + 1, 2) ELSE rows[c]]
      /\ g.thrown = (E # {}) /\ g.failed = (saveFailed \/ E # {})
      /\ g = [was |-> g.was, dogs |-> g.dogs, players |-> g.players, tokens |-> g.tokens,
              rows |-> g.rows, thrown |-> g.thrown, failed |-> g.failed]
  BY DEF After, AfterSessions
<1> HIDE DEF g
<1>3. DueIn(ds, T) = DueIn(ds, T \ {s}) \cup due /\ DueIn(ds, T \ {s}) \cap due = {}
  BY DEF DueIn
<1>4. \A b \in DueIn(ds, T \ {s}), c \in due : ds[b].sess < ds[c].sess
  BY <1>1 DEF DueIn
<1>5. CASE E # {}
  <2>1. RetireSession(g, s, F) = g
    BY <1>2, <1>5 DEF RetireSession
  <2>2. PICK c \in F \cap DueIn(ds, T \ {s}) : TRUE
    BY <1>5
  <2>3. RemovedIn(ds, F, T) = RemovedIn(ds, F, T \ {s})
    BY <1>1, <1>3, <1>4, <2>2 DEF RemovedIn, DueIn
  <2>4. SavedIn(ds, F, T) = SavedIn(ds, F, T \ {s})
    BY <1>1, <1>3, <1>4, <2>2 DEF SavedIn, DueIn
  <2>5. F \cap DueIn(ds, T) # {} /\ E # {}
    BY <1>3, <1>5
  <2>6. AfterSessions(ds, F, T) = AfterSessions(ds, F, T \ {s})
    BY <2>3, <2>4, <2>5 DEF AfterSessions, After
  <2> QED
    BY <2>1, <2>6 DEF g
<1>6. CASE E = {}
  <2>1. /\ R = DueIn(ds, T \ {s}) /\ S = DueIn(ds, T \ {s})
        /\ F \cap DueIn(ds, T) = F \cap due
    BY <1>3, <1>6 DEF RemovedIn, SavedIn
  <2>2. {b \in Overdue(g.dogs) : g.dogs[b].sess = s} = due
    <3>1. \A b \in Overdue(ds) : ds[b].sess = s => b \notin R
      BY <2>1 DEF DueIn
    <3>2. Overdue(g.dogs) = Overdue(ds) \ R
      BY <1>2 DEF Overdue, Restrict
    <3>3. \A b \in Overdue(ds) \ R : g.dogs[b] = ds[b]
      BY <1>2 DEF Overdue, Restrict
    <3> QED
      BY <3>1, <3>2, <3>3 DEF DueIn
  <2>3. SavedIn(ds, F, T) = S \cup new
    BY <1>1, <1>3, <1>4, <2>1 DEF SavedIn, DueIn
  <2> DEFINE stored == [g EXCEPT !.rows = [b \in Births |-> IF b \in new
                                             THEN Capped(g.rows[b] + 1, 2) ELSE g.rows[b]]]
  <2>4. stored = After(ds, R, S \cup new, {})
    <3>1. S \cap new = {}
      BY <1>3, <2>1
    <3> DEFINE more == [b \in Births |-> IF b \in new THEN Capped(g.rows[b] + 1, 2)
                                                       ELSE g.rows[b]]
    <3>2. more = [b \in Births |-> IF b \in S \cup new THEN Capped(rows[b] + 1, 2)
                                                        ELSE rows[b]]
      BY <1>2, <3>1
    <3>3. g.thrown = FALSE /\ g.failed = (saveFailed \/ {} # {})
      BY <1>2, <1>6
    <3>4. stored = [g EXCEPT !.rows = more]
      OBVIOUS
    <3> HIDE DEF stored, more, new, R, S
    <3>5. stored = [was |-> g.was, dogs |-> g.dogs, players |-> g.players,
                    tokens |-> g.tokens, rows |-> more,
                    thrown |-> g.thrown, failed |-> g.failed]
      BY <1>2, <3>4
    <3> QED
      BY <1>2, <3>2, <3>3, <3>5 DEF After
  <2> HIDE DEF stored, new, due, R, S, E
  <2>5. ASSUME F \cap due # {} PROVE RetireSession(g, s, F) = AfterSessions(ds, F, T)
    <3>1. RetireSession(g, s, F) = [stored EXCEPT !.thrown = TRUE, !.failed = TRUE]
      BY <1>2, <1>6, <2>2, <2>5 DEF RetireSession, stored, new
    <3>2. RemovedIn(ds, F, T) = R
      BY <1>1, <1>3, <1>4, <2>1, <2>5 DEF RemovedIn, due, DueIn
    <3>3. [stored EXCEPT !.thrown = TRUE, !.failed = TRUE]
            = After(ds, R, S \cup new, F \cap due)
      <4>1. (F \cap due # {}) = TRUE /\ (saveFailed \/ F \cap due # {}) = TRUE
        BY <2>5
      <4>2. After(ds, R, S \cup new, F \cap due)
              = [was |-> stored.was, dogs |-> stored.dogs, players |-> stored.players,
                 tokens |-> stored.tokens, rows |-> stored.rows,
                 thrown |-> TRUE, failed |-> TRUE]
        BY <2>4, <4>1 DEF After
      <4>3. stored = [was |-> stored.was, dogs |-> stored.dogs, players |-> stored.players,
                      tokens |-> stored.tokens, rows |-> stored.rows,
                      thrown |-> stored.thrown, failed |-> stored.failed]
        BY <2>4 DEF After
      <4> DEFINE Fields == {"was", "dogs", "players", "tokens", "rows", "thrown", "failed"}
                 h == [stored EXCEPT !.thrown = TRUE, !.failed = TRUE]
                 k == After(ds, R, S \cup new, F \cap due)
      <4>4. /\ h = [f \in Fields |-> h[f]]
            /\ h.was = stored.was /\ h.dogs = stored.dogs /\ h.players = stored.players
            /\ h.tokens = stored.tokens /\ h.rows = stored.rows
            /\ h.thrown = TRUE /\ h.failed = TRUE
        BY <4>3
      <4>5. /\ k = [f \in Fields |-> k[f]]
            /\ k.was = stored.was /\ k.dogs = stored.dogs /\ k.players = stored.players
            /\ k.tokens = stored.tokens /\ k.rows = stored.rows
            /\ k.thrown = TRUE /\ k.failed = TRUE
        <5>1. k = [was |-> stored.was, dogs |-> stored.dogs, players |-> stored.players,
                   tokens |-> stored.tokens, rows |-> stored.rows,
                   thrown |-> TRUE, failed |-> TRUE]
          BY <4>2
        <5> HIDE DEF k
        <5> QED
          BY <5>1
      <4> HIDE DEF h, k
      <4>6. \A f \in Fields : h[f] = k[f]
        BY <4>4, <4>5
      <4> HIDE DEF Fields
      <4>7. h = k
        BY <4>4, <4>5, <4>6
      <4> QED
        BY <4>7 DEF h, k
    <3>4. AfterSessions(ds, F, T) = After(ds, R, S \cup new, F \cap due)
      BY <2>1, <2>3, <3>2 DEF AfterSessions
    <3> QED
      BY <3>1, <3>3, <3>4
  <2>6. ASSUME F \cap due = {} PROVE RetireSession(g, s, F) = AfterSessions(ds, F, T)
    <3>1. RetireSession(g, s, F)
            = MapThenFoldSet(RemoveRetired, stored, LAMBDA b : b, Max, due)
      BY <1>2, <1>6, <2>2, <2>6 DEF RetireSession, stored, new
    <3>2. R \in SUBSET DOMAIN ds /\ due \in SUBSET (DOMAIN ds \ R) /\ IsFiniteSet(due)
      BY <1>1, <1>3, <2>1, FS_Subset DEF due, DueIn
    <3>3. MapThenFoldSet(RemoveRetired, After(ds, R, S \cup new, {}), LAMBDA b : b, Max, due)
            = After(ds, R \cup due, S \cup new, {})
      BY <3>2, AllRemoved
    <3>4. RemovedIn(ds, F, T) = R \cup due
      BY <1>3, <2>1, <2>6 DEF RemovedIn, due
    <3>5. AfterSessions(ds, F, T) = After(ds, R \cup due, S \cup new, {})
      BY <2>1, <2>3, <2>6, <3>4 DEF AfterSessions
    <3> QED
      BY <2>4, <3>1, <3>3, <3>5
  <2>7. RetireSession(g, s, F) = AfterSessions(ds, F, T)
    BY <2>5, <2>6
  <2> QED
    BY <2>7 DEF g
<1> QED
  BY <1>5, <1>6

\* All sessions: what App says of the retirement at once.
LEMMA RetiredAsApp ==
  ASSUME Core, NoOrphans, Memory, NEW ds, SameDogs(ds), NEW F \in SUBSET Overdue(ds),
         RetireOneByOne(ds, F)
  PROVE  RetireDogs(ds, F)
<1> DEFINE base == [was |-> ds, dogs |-> ds, players |-> players, tokens |-> tokens,
                    rows |-> rows, thrown |-> FALSE, failed |-> saveFailed]
           S == DOMAIN sessions
<1>1. S \in SUBSET Nat /\ IsFiniteSet(S)
  BY DEF Core, TypeOK, Memory
<1>2. PICK it : /\ it[{}] = base
                /\ \A T \in SUBSET S : T # {} =>
                     it[T] = RetireSession(it[T \ {Max(T)}], Max(T), F)
                /\ Retired(ds, F) = it[S]
  BY <1>1, RetiredInOrder
<1> DEFINE Good == {T \in SUBSET S : it[T] = AfterSessions(ds, F, T)}
<1>3. {} \in Good
  <2>1. DueIn(ds, {}) = {} /\ RemovedIn(ds, F, {}) = {} /\ SavedIn(ds, F, {}) = {}
        /\ F \cap DueIn(ds, {}) = {}
    BY DEF DueIn, RemovedIn, SavedIn
  <2>2. /\ Restrict(ds, DOMAIN ds \ {}) = ds
        /\ Restrict(players, DOMAIN players \ {ds[b].id : b \in {}}) = players
        /\ Restrict(tokens, DOMAIN tokens \ {}) = tokens
    BY DEF Restrict, SameDogs, Memory
  <2>3. [b \in Births |-> IF b \in {} THEN Capped(rows[b] + 1, 2) ELSE rows[b]] = rows
    BY DEF Core, TypeOK
  <2>4. ({} # {}) = FALSE /\ (saveFailed \/ {} # {}) = saveFailed
    BY DEF Core, TypeOK
  <2>5. After(ds, {}, {}, {}) = base
    BY <2>2, <2>3, <2>4 DEF After
  <2> QED
    BY <1>2, <2>1, <2>5 DEF AfterSessions
<1>4. ASSUME NEW T \in SUBSET S, T # {}, T \ {Max(T)} \in Good
      PROVE  T \in Good
  <2> DEFINE s == Max(T)
  <2>1. s \in T /\ \A t \in T : t <= s
    BY <1>1, <1>4, FS_Subset, MaxIsLargest
  <2>2. it[T] = RetireSession(AfterSessions(ds, F, T \ {s}), s, F)
    BY <1>2, <1>4
  <2> HIDE DEF s
  <2>3. RetireSession(AfterSessions(ds, F, T \ {s}), s, F) = AfterSessions(ds, F, T)
    BY <2>1, SessionRetired
  <2> QED
    BY <2>2, <2>3
<1>5. S \in Good
  <2> HIDE DEF Good, S
  <2> QED
    BY <1>1, <1>3, <1>4, UpToTheLast
<1>6. Retired(ds, F) = AfterSessions(ds, F, S)
  BY <1>2, <1>5
<1>7. DueIn(ds, S) = Overdue(ds)
  <2>1. \A b \in Overdue(ds) : b \in DOMAIN dogs /\ ds[b].sess = dogs[b].sess
    BY DEF Overdue, SameDogs
  <2> QED
    BY <2>1 DEF DueIn, Core, TypeOK
<1>8. /\ F \cap Overdue(ds) = F
      /\ SavedIn(ds, F, S) = SavedDogs(ds, F)
      /\ RemovedIn(ds, F, S) = RemovedDogs(ds, F)
  BY <1>7 DEF SavedIn, SavedDogs, RemovedIn, RemovedDogs
<1>9. Retired(ds, F) = After(ds, RemovedDogs(ds, F), SavedDogs(ds, F), F)
  BY <1>6, <1>7, <1>8 DEF AfterSessions
<1>10. RemovedDogs(ds, F) = {players[id].token : id \in {ds[b].id : b \in RemovedDogs(ds, F)}}
  <2>1. \A b \in RemovedDogs(ds, F) : players[ds[b].id].token = b
    BY PlayersOfDogs DEF RemovedDogs, Overdue
  <2> QED
    BY <2>1
<1>11. /\ dogs' = Restrict(ds, DOMAIN ds \ RemovedDogs(ds, F))
       /\ players' = Restrict(players, DOMAIN players \ {ds[b].id : b \in RemovedDogs(ds, F)})
       /\ tokens' = Restrict(tokens, DOMAIN tokens \ RemovedDogs(ds, F))
       /\ rows' = [b \in Births |-> IF b \in SavedDogs(ds, F)
                                     THEN Capped(rows[b] + 1, 2) ELSE rows[b]]
       /\ saveFailed' = (saveFailed \/ F # {})
  BY <1>9 DEF RetireOneByOne, After
<1> QED
  BY <1>10, <1>11 DEF RetireDogs, DeletePlayers

-----------------------------------------------------------------------------
(* Retirement whatever orphans there are.                                  *)

\* What is left of a game at any point of a retirement: some of the dogs and
\* of the players, these with their tokens; only dogs got rows.
Left(ds, g) ==
  /\ g = [was |-> g.was, dogs |-> g.dogs, players |-> g.players, tokens |-> g.tokens,
          rows |-> g.rows, thrown |-> g.thrown, failed |-> g.failed]
  /\ g.was = ds
  /\ DOMAIN g.dogs \subseteq DOMAIN ds
  /\ g.dogs = [b \in DOMAIN g.dogs |-> ds[b]]
  /\ DOMAIN g.players \subseteq DOMAIN players
  /\ g.players = [i \in DOMAIN g.players |-> players[i]]
  /\ DOMAIN g.tokens \subseteq DOMAIN tokens
  /\ g.tokens = [t \in DOMAIN g.tokens |-> tokens[t]]
  /\ \A t \in DOMAIN tokens : t \in DOMAIN g.tokens <=> tokens[t].id \in DOMAIN g.players
  /\ g.rows \in [Births -> 0..2]
  /\ \A b \in Births : g.rows[b] > 0 => rows[b] > 0 \/ b \in DOMAIN ds
  /\ g.thrown \in BOOLEAN /\ g.failed \in BOOLEAN

\* One RemoveDog and DeletePlayer.
LEMMA OneLeft ==
  ASSUME Core, NEW ds, NEW b \in DOMAIN ds, NEW g, Left(ds, g)
  PROVE  Left(ds, RemoveRetired(b, g))
<1> DEFINE id  == g.was[b].id
           h   == RemoveRetired(b, g)
           ts  == IF id \in DOMAIN g.players
                  THEN Restrict(g.tokens, DOMAIN g.tokens \ {g.players[id].token})
                  ELSE g.tokens
           gone == FirstWithId(g.dogs, g.was[b].sess, id)
           orphan == id \notin DOMAIN g.players
<1>1. CASE g.thrown
  <2>1. h = g
    BY <1>1 DEF RemoveRetired
  <2> HIDE DEF h
  <2> QED
    BY <2>1 DEF h
<1>2. CASE ~g.thrown
  <2>1. h = [g EXCEPT !.dogs = Restrict(g.dogs, DOMAIN g.dogs \ gone),
                      !.thrown = orphan,
                      !.tokens = ts,
                      !.players = Restrict(g.players, DOMAIN g.players \ {id})]
    BY <1>2 DEF RemoveRetired
  <2>2. orphan \in BOOLEAN
    OBVIOUS
  <2>3. /\ DOMAIN ts \subseteq DOMAIN tokens
        /\ ts = [t \in DOMAIN ts |-> tokens[t]]
        /\ \A t \in DOMAIN tokens :
             t \in DOMAIN ts <=> tokens[t].id \in DOMAIN g.players \ {id}
    <3>1. CASE orphan
      BY <3>1 DEF Left
    <3>2. CASE ~orphan
      <4> DEFINE token == g.players[id].token
      <4>1. id \in DOMAIN players /\ g.players[id] = players[id]
        BY <3>2 DEF Left
      <4>2. ts = [t \in DOMAIN g.tokens \ {token} |-> g.tokens[t]]
        BY <3>2 DEF Restrict
      <4>3. \A t \in DOMAIN tokens : t = token <=> tokens[t].id = id
        BY <4>1 DEF Core, RegistryMirrored
      <4> HIDE DEF token, ts, id
      <4> QED
        BY <4>2, <4>3 DEF Left
    <3> QED
      BY <3>1, <3>2
  <2> HIDE DEF h, ts, gone, orphan
  <2>4. h = [was |-> g.was, dogs |-> Restrict(g.dogs, DOMAIN g.dogs \ gone),
             players |-> Restrict(g.players, DOMAIN g.players \ {id}), tokens |-> ts,
             rows |-> g.rows, thrown |-> orphan, failed |-> g.failed]
    BY <2>1 DEF Left
  <2> HIDE DEF id
  <2>5. /\ h.was = g.was /\ h.dogs = Restrict(g.dogs, DOMAIN g.dogs \ gone)
        /\ h.players = Restrict(g.players, DOMAIN g.players \ {id}) /\ h.tokens = ts
        /\ h.rows = g.rows /\ h.thrown = orphan /\ h.failed = g.failed
        /\ h = [was |-> h.was, dogs |-> h.dogs, players |-> h.players, tokens |-> h.tokens,
                rows |-> h.rows, thrown |-> h.thrown, failed |-> h.failed]
    BY <2>4
  <2>6. /\ DOMAIN h.dogs \subseteq DOMAIN ds
        /\ h.dogs = [c \in DOMAIN h.dogs |-> ds[c]]
    BY <2>5 DEF Left, Restrict
  <2>7. /\ DOMAIN h.players = DOMAIN g.players \ {id}
        /\ DOMAIN h.players \subseteq DOMAIN players
        /\ h.players = [i \in DOMAIN h.players |-> players[i]]
    BY <2>5 DEF Left, Restrict
  <2> QED
    BY <2>2, <2>3, <2>5, <2>6, <2>7 DEF Left, h
<1> QED
  BY <1>1, <1>2 DEF Left

\* All of one session.
LEMMA AllLeft ==
  ASSUME Core, NEW ds, NEW B \in SUBSET DOMAIN ds, B \subseteq Nat, IsFiniteSet(B),
         NEW g, Left(ds, g)
  PROVE  Left(ds, MapThenFoldSet(RemoveRetired, g, LAMBDA b : b, Max, B))
<1>1. PICK it : /\ it[{}] = g
                /\ \A T \in SUBSET B : T # {} =>
                     it[T] = RemoveRetired(Max(T), it[T \ {Max(T)}])
                /\ MapThenFoldSet(RemoveRetired, g, LAMBDA b : b, Max, B) = it[B]
  BY RemovedInOrder
<1> DEFINE Good == {T \in SUBSET B : Left(ds, it[T])}
<1>2. {} \in Good
  BY <1>1
<1>3. ASSUME NEW T \in SUBSET B, T # {}, T \ {Max(T)} \in Good
      PROVE  T \in Good
  <2> DEFINE x == Max(T)
             h == it[T \ {x}]
  <2>1. x \in DOMAIN ds
    BY <1>3, FS_Subset, MaxIsLargest
  <2>2. it[T] = RemoveRetired(x, h) /\ Left(ds, h)
    BY <1>1, <1>3
  <2> HIDE DEF x, h
  <2>3. Left(ds, RemoveRetired(x, h))
    BY <2>1, <2>2, OneLeft
  <2> QED
    BY <2>2, <2>3
<1>4. B \in Good
  <2> HIDE DEF Good
  <2> QED
    BY <1>2, <1>3, UpToTheLast
<1> QED
  BY <1>1, <1>4

\* RetireDogs in one session.
LEMMA SessionLeft ==
  ASSUME Core, NEW ds, DOMAIN ds \subseteq Births, NEW F, NEW s, NEW g, Left(ds, g)
  PROVE  Left(ds, RetireSession(g, s, F))
<1> DEFINE overdue == {b \in Overdue(g.dogs) : g.dogs[b].sess = s}
           saved   == {b \in overdue : \A c \in F \cap overdue : b < c}
           more    == [b \in Births |-> IF b \in saved THEN Capped(g.rows[b] + 1, 2)
                                                       ELSE g.rows[b]]
           stored  == [g EXCEPT !.rows = more]
<1>1. /\ overdue \subseteq DOMAIN ds /\ overdue \subseteq Nat /\ IsFiniteSet(overdue)
      /\ saved \subseteq DOMAIN ds
  <2>1. overdue \subseteq DOMAIN ds
    BY DEF Left, Overdue
  <2>2. IsFiniteSet(Births) /\ Births \subseteq Nat
    BY FS_Interval, Assumptions DEF Births
  <2>3. overdue \subseteq Births
    BY <2>1
  <2>4. IsFiniteSet(overdue)
    BY <2>2, <2>3, FS_Subset
  <2> QED
    BY <2>1, <2>2, <2>3, <2>4
<1> HIDE DEF saved, overdue
<1>2. /\ more \in [Births -> 0..2]
      /\ \A b \in Births : more[b] > 0 => rows[b] > 0 \/ b \in DOMAIN ds
  <2>1. \A b \in Births : g.rows[b] \in 0..2 /\ Capped(g.rows[b] + 1, 2) \in 0..2
    BY DEF Left, Capped
  <2> QED
    BY <1>1, <2>1 DEF Left
<1> HIDE DEF more
<1>3. stored = [was |-> g.was, dogs |-> g.dogs, players |-> g.players, tokens |-> g.tokens,
                rows |-> more, thrown |-> g.thrown, failed |-> g.failed]
  BY DEF Left
<1> HIDE DEF stored
<1>4. Left(ds, stored)
  BY <1>2, <1>3 DEF Left
<1>5. CASE g.thrown
  <2>1. RetireSession(g, s, F) = g
    BY <1>5 DEF RetireSession
  <2> QED
    BY <2>1
<1>6. CASE ~g.thrown /\ F \cap overdue # {}
  <2>1. RetireSession(g, s, F) = [stored EXCEPT !.thrown = TRUE, !.failed = TRUE]
    BY <1>6 DEF RetireSession, stored, more, saved, overdue
  <2> DEFINE h == [stored EXCEPT !.thrown = TRUE, !.failed = TRUE]
  <2>2. /\ h.was = stored.was /\ h.dogs = stored.dogs /\ h.players = stored.players
        /\ h.tokens = stored.tokens /\ h.rows = stored.rows
        /\ h.thrown = TRUE /\ h.failed = TRUE
        /\ h = [was |-> h.was, dogs |-> h.dogs, players |-> h.players, tokens |-> h.tokens,
                rows |-> h.rows, thrown |-> h.thrown, failed |-> h.failed]
    <3> DEFINE Fields == {"was", "dogs", "players", "tokens", "rows", "thrown", "failed"}
               k == [was |-> h.was, dogs |-> h.dogs, players |-> h.players,
                     tokens |-> h.tokens, rows |-> h.rows, thrown |-> h.thrown,
                     failed |-> h.failed]
    <3>1. stored = [was |-> stored.was, dogs |-> stored.dogs, players |-> stored.players,
                    tokens |-> stored.tokens, rows |-> stored.rows,
                    thrown |-> stored.thrown, failed |-> stored.failed]
      BY <1>3
    <3>2. /\ h.was = stored.was /\ h.dogs = stored.dogs /\ h.players = stored.players
          /\ h.tokens = stored.tokens /\ h.rows = stored.rows
          /\ h.thrown = TRUE /\ h.failed = TRUE
          /\ h = [f \in Fields |-> h[f]]
      BY <3>1
    <3> HIDE DEF h
    <3>3. /\ k = [f \in Fields |-> k[f]]
          /\ \A f \in Fields : k[f] = h[f]
      OBVIOUS
    <3> HIDE DEF k, Fields
    <3>4. h = k
      BY <3>2, <3>3
    <3> QED
      BY <3>2, <3>4 DEF k
  <2> HIDE DEF h
  <2>3. Left(ds, h)
    BY <1>4, <2>2 DEF Left
  <2> QED
    BY <2>1, <2>3 DEF h
<1>7. CASE ~g.thrown /\ F \cap overdue = {}
  <2>1. RetireSession(g, s, F)
          = MapThenFoldSet(RemoveRetired, stored, LAMBDA b : b, Max, overdue)
    BY <1>7 DEF RetireSession, stored, more, saved, overdue
  <2>2. Left(ds, MapThenFoldSet(RemoveRetired, stored, LAMBDA b : b, Max, overdue))
    BY <1>1, <1>4, AllLeft
  <2> QED
    BY <2>1, <2>2
<1> QED
  BY <1>5, <1>6, <1>7

\* All sessions.
LEMMA RetiredLeft ==
  ASSUME Core, Memory, NEW ds, SameDogs(ds), NEW F
  PROVE  Left(ds, Retired(ds, F))
<1>1. DOMAIN sessions \subseteq Nat /\ IsFiniteSet(DOMAIN sessions)
  BY DEF Core, TypeOK, Memory
<1>2. PICK it : /\ it[{}] = [was |-> ds, dogs |-> ds, players |-> players, tokens |-> tokens,
                             rows |-> rows, thrown |-> FALSE, failed |-> saveFailed]
                /\ \A T \in SUBSET DOMAIN sessions : T # {} =>
                     it[T] = RetireSession(it[T \ {Max(T)}], Max(T), F)
                /\ Retired(ds, F) = it[DOMAIN sessions]
  BY <1>1, RetiredInOrder
<1> DEFINE Good == {T \in SUBSET DOMAIN sessions : Left(ds, it[T])}
<1>3. {} \in Good
  <2>1. /\ it[{}].was = ds /\ it[{}].dogs = ds /\ it[{}].players = players
        /\ it[{}].tokens = tokens /\ it[{}].rows = rows /\ it[{}].thrown = FALSE
        /\ it[{}].failed = saveFailed
        /\ it[{}] = [was |-> it[{}].was, dogs |-> it[{}].dogs, players |-> it[{}].players,
                     tokens |-> it[{}].tokens, rows |-> it[{}].rows,
                     thrown |-> it[{}].thrown, failed |-> it[{}].failed]
    BY <1>2
  <2>2. ds = [b \in DOMAIN ds |-> ds[b]]
    BY DEF SameDogs
  <2>3. \A t \in DOMAIN tokens : tokens[t].id \in DOMAIN players
    BY DEF Core, RegistryMirrored
  <2>4. rows \in [Births -> 0..2] /\ saveFailed \in BOOLEAN
    BY DEF Core, TypeOK
  <2>5. /\ players = [i \in DOMAIN players |-> players[i]]
        /\ tokens = [t \in DOMAIN tokens |-> tokens[t]]
    BY DEF Memory
  <2>6. Left(ds, it[{}])
    BY <2>1, <2>2, <2>3, <2>4, <2>5 DEF Left
  <2> QED
    BY <2>6
<1>4. ASSUME NEW T \in SUBSET DOMAIN sessions, T # {}, T \ {Max(T)} \in Good
      PROVE  T \in Good
  <2> DEFINE x == Max(T)
             h == it[T \ {x}]
  <2>1. it[T] = RetireSession(h, x, F) /\ Left(ds, h)
    BY <1>2, <1>4
  <2>2. DOMAIN ds \subseteq Births
    BY Assumptions DEF SameDogs, Core, TypeOK, Births
  <2> HIDE DEF x, h
  <2>3. Left(ds, RetireSession(h, x, F))
    BY <2>1, <2>2, SessionLeft
  <2> QED
    BY <2>1, <2>3
<1>5. DOMAIN sessions \in Good
  <2> HIDE DEF Good
  <2> QED
    BY <1>1, <1>3, <1>4, UpToTheLast
<1> QED
  BY <1>2, <1>5

-----------------------------------------------------------------------------
(* The inductive invariant.                                                *)

\* A state file from which Core can be restored.
Restores(f) ==
  /\ f.state \in {"missing", "broken", "saved"}
  /\ f.sessions = [s \in DOMAIN f.sessions |-> f.sessions[s]]
  /\ f.dogs = [b \in DOMAIN f.dogs |-> f.dogs[b]]
  /\ f.players = [i \in DOMAIN f.players |-> f.players[i]]
  /\ DOMAIN f.sessions \subseteq Nat /\ IsFiniteSet(DOMAIN f.sessions)
  /\ \A s \in DOMAIN f.sessions : f.sessions[s] \in Maps
  /\ IsInjective(f.sessions)
  /\ DOMAIN f.dogs \subseteq born
  /\ \A b \in DOMAIN f.dogs : /\ f.dogs[b] \in Dog /\ f.dogs[b].idle = 0
                              /\ f.dogs[b].sess \in DOMAIN f.sessions
  /\ DOMAIN f.players \subseteq Nat
  /\ \A i \in DOMAIN f.players :
       /\ f.players[i] \in Player /\ f.players[i].id = i
       /\ f.players[i].sess \in DOMAIN f.sessions
       /\ f.players[i].token \in 1..joins
       /\ \A j \in DOMAIN f.players : f.players[i].token = f.players[j].token => i = j
       /\ f.players[i].token \in DOMAIN f.dogs =>
            /\ f.dogs[f.players[i].token].id = i
            /\ f.dogs[f.players[i].token].sess = f.players[i].sess

\* The tokens of a state file.
TokensIn(f) == {f.players[i].token : i \in DOMAIN f.players}

\* Every dog has a player, in memory and in the file.
NobodyOrphaned ==
  ~halfRestored => NoOrphans /\ DOMAIN file.dogs \subseteq TokensIn(file)

\* The variables of the server, and the age of who is not born.
ServerRanges ==
  /\ process \in {"running", "stopped", "down"} /\ config \in Configs
  /\ elapsed \in 0..Period
  /\ Period > 0 /\ ~diskFailed => elapsed < Period
  /\ crashes \in 0..MaxCrashes /\ stops \in 0..MaxStops
  /\ diskFailed \in BOOLEAN /\ cutShort \in BOOLEAN
  /\ halfRestored \in BOOLEAN
  /\ age \in [Births -> 0..Period]
  /\ \A b \in Births \ born : age[b] = 0

\* A dog older than the time since the last Save is in the file, with its
\* player.
OnFile ==
  process = "running" /\ Period > 0 /\ ~cutShort =>
    /\ elapsed < Period
    /\ \A b \in DOMAIN dogs : age[b] > elapsed =>
         /\ b \in DOMAIN file.dogs
         /\ b \in DOMAIN tokens => b \in TokensIn(file)

\* The file of a stopped game is that game, and one that is never saved has
\* no dogs.
FileOfTheStopped ==
  /\ process = "stopped" => file = AppRepr(dogs) /\ Period > 0
  /\ Period = 0 => DOMAIN file.dogs = {}

\* Until something has failed, App's careers go on over stops and starts.
Clean == crashes = 0 /\ ~diskFailed /\ ~halfRestored

CareersGoOn ==
  Clean =>
    /\ SavedOnceAndGone
    /\ Period > 0 => NoDogVanishes
    /\ process = "down" => DOMAIN file.dogs = {} /\ (Period > 0 => born = {})

ServerInv ==
  /\ Core
  /\ Memory
  /\ Restores(file)
  /\ NobodyOrphaned
  /\ ServerRanges
  /\ OnFile
  /\ FileOfTheStopped
  /\ CareersGoOn

-----------------------------------------------------------------------------
(* What Save, Restore and a retirement make of it.                         *)

\* The dogs of a tick are those that were there.
LEMMA MovedAreTheSame ==
  ASSUME Core, NEW d \in Deltas, NEW ds \in Moved(d)
  PROVE  SameDogs(ds)
<1>1. PICK stopped \in SUBSET Running : ds = MoveAllDogs(d, DOMAIN sessions, stopped)
  BY DEF Moved
<1>2. ds = [b \in DOMAIN dogs |-> ds[b]]
  BY <1>1 DEF MoveAllDogs
<1>3. \A b \in DOMAIN dogs : /\ ds[b] \in Dog
                             /\ ds[b].id = dogs[b].id
                             /\ ds[b].sess = dogs[b].sess
  BY <1>1, MovingKeepsDogs DEF Core
<1> QED
  BY <1>2, <1>3 DEF SameDogs

\* The dogs themselves.
LEMMA DogsAreTheSame ==
  ASSUME Core, Memory
  PROVE  SameDogs(dogs)
BY DEF Core, TypeOK, Memory, SameDogs

\* What is saved can be restored.
LEMMA SavedRestores ==
  ASSUME Core, Memory, NEW ds, SameDogs(ds)
  PROVE  /\ Restores(AppRepr(ds))
         /\ DOMAIN AppRepr(ds).dogs = DOMAIN dogs
         /\ TokensIn(AppRepr(ds)) = DOMAIN tokens
<1> DEFINE f == AppRepr(ds)
<1>1. /\ f.state = "saved" /\ f.sessions = sessions /\ f.players = players
      /\ f.dogs = [b \in DOMAIN dogs |-> DogRepr(ds[b])]
  BY DEF AppRepr, SameDogs
<1> HIDE DEF f
<1>2. \A b \in DOMAIN dogs : /\ f.dogs[b] \in Dog /\ f.dogs[b].idle = 0
                             /\ f.dogs[b].id = dogs[b].id /\ f.dogs[b].sess = dogs[b].sess
  BY <1>1, Assumptions DEF SameDogs, DogRepr, Dog
<1>3. /\ DOMAIN f.dogs = DOMAIN dogs /\ f.dogs = [b \in DOMAIN f.dogs |-> f.dogs[b]]
      /\ f.sessions = [s \in DOMAIN f.sessions |-> f.sessions[s]]
      /\ f.players = [i \in DOMAIN f.players |-> f.players[i]]
  BY <1>1 DEF Memory
<1>4. /\ DOMAIN f.sessions \subseteq Nat /\ IsFiniteSet(DOMAIN f.sessions)
      /\ \A s \in DOMAIN f.sessions : f.sessions[s] \in Maps
      /\ IsInjective(f.sessions)
  BY <1>1 DEF Core, TypeOK, Memory, OneSessionPerMap
<1>5. DOMAIN f.dogs \subseteq born
  BY <1>3 DEF Core, CareersBegun
<1>6. \A b \in DOMAIN f.dogs : f.dogs[b].sess \in DOMAIN f.sessions
  BY <1>1, <1>2, <1>3 DEF Core, TypeOK
<1>7. \A i \in DOMAIN players :
        /\ players[i] \in Player /\ players[i].id = i
        /\ players[i].sess \in DOMAIN sessions
        /\ players[i].token \in 1..joins
        /\ players[i].token \in DOMAIN tokens
        /\ tokens[players[i].token] = players[i]
  BY DEF Core, TypeOK, RegistryMirrored
<1>8. \A i, j \in DOMAIN players : players[i].token = players[j].token => i = j
  BY <1>7
<1>9. \A i \in DOMAIN players : players[i].token \in DOMAIN dogs =>
        /\ f.dogs[players[i].token].id = i
        /\ f.dogs[players[i].token].sess = players[i].sess
  BY <1>2, <1>7 DEF Core, DogsMatchPlayers
<1>10. DOMAIN players \subseteq Nat
  BY DEF Core, TypeOK
<1>11. Restores(f)
  <2>1. f.state \in {"missing", "broken", "saved"}
    BY <1>1
  <2>2. \A b \in DOMAIN f.dogs : /\ f.dogs[b] \in Dog /\ f.dogs[b].idle = 0
                                /\ f.dogs[b].sess \in DOMAIN f.sessions
    BY <1>2, <1>3, <1>6
  <2>3. \A i \in DOMAIN f.players :
         /\ f.players[i] \in Player /\ f.players[i].id = i
         /\ f.players[i].sess \in DOMAIN f.sessions
         /\ f.players[i].token \in 1..joins
         /\ \A j \in DOMAIN f.players : f.players[i].token = f.players[j].token => i = j
         /\ f.players[i].token \in DOMAIN f.dogs =>
              /\ f.dogs[f.players[i].token].id = i
              /\ f.dogs[f.players[i].token].sess = f.players[i].sess
    BY <1>1, <1>3, <1>7, <1>8, <1>9
  <2>4. DOMAIN f.players \subseteq Nat
    BY <1>1, <1>10
  <2> QED
    BY <1>3, <1>4, <1>5, <2>1, <2>2, <2>3, <2>4 DEF Restores
<1>12. TokensIn(f) = DOMAIN tokens
  <2>1. \A t \in DOMAIN tokens : tokens[t].id \in DOMAIN players
                               /\ players[tokens[t].id].token = t
    BY DEF Core, RegistryMirrored
  <2>2. TokensIn(f) = {players[i].token : i \in DOMAIN players}
    BY <1>1 DEF TokensIn
  <2>3. {players[i].token : i \in DOMAIN players} \subseteq DOMAIN tokens
    BY <1>7
  <2>4. DOMAIN tokens \subseteq {players[i].token : i \in DOMAIN players}
    BY <2>1
  <2> QED
    BY <2>2, <2>3, <2>4
<1> QED
  BY <1>3, <1>11, <1>12 DEF f

\* Nor does an emptied file keep the server from starting.
LEMMA EmptyRestores ==
  /\ Restores(Missing) /\ DOMAIN Missing.dogs = {}
  /\ Restores(Broken) /\ DOMAIN Broken.dogs = {}
<1>1. ASSUME NEW f, f \in {Missing, Broken}
      PROVE  /\ f.state \in {"missing", "broken", "saved"}
             /\ f.sessions = << >> /\ f.dogs = << >> /\ f.players = << >>
  BY <1>1 DEF Missing, Broken
<1>2. DOMAIN << >> = {} /\ << >> = [x \in DOMAIN << >> |-> << >>[x]]
  OBVIOUS
<1>3. IsFiniteSet({})
  BY FS_EmptySet
<1>4. ASSUME NEW f, f \in {Missing, Broken}
      PROVE  Restores(f) /\ DOMAIN f.dogs = {}
  <2>1. /\ DOMAIN f.sessions = {} /\ DOMAIN f.dogs = {} /\ DOMAIN f.players = {}
    BY <1>1, <1>2, <1>4
  <2>2. /\ f.sessions = [s \in DOMAIN f.sessions |-> f.sessions[s]]
        /\ f.dogs = [b \in DOMAIN f.dogs |-> f.dogs[b]]
        /\ f.players = [i \in DOMAIN f.players |-> f.players[i]]
    BY <1>1, <1>2, <1>4
  <2> QED
    BY <1>1, <1>3, <1>4, <2>1, <2>2 DEF Restores, IsInjective
<1> QED
  BY <1>4

\* A retirement, whatever of it fails.
LEMMA RetirementKeeps ==
  ASSUME Core, Memory, NEW ds, SameDogs(ds), NEW F, RetireOneByOne(ds, F),
         UNCHANGED <<sessions, joins, born>>
  PROVE  /\ Core' /\ Memory'
         /\ DOMAIN dogs' \subseteq DOMAIN dogs /\ DOMAIN tokens' \subseteq DOMAIN tokens
<1> DEFINE g == Retired(ds, F)
<1>1. Left(ds, g)
  BY RetiredLeft
<1>2. dogs' = g.dogs /\ players' = g.players /\ tokens' = g.tokens
      /\ rows' = g.rows /\ saveFailed' = g.failed
  BY DEF RetireOneByOne
<1> HIDE DEF g
<1>3. /\ DOMAIN dogs' \subseteq DOMAIN dogs
      /\ \A b \in DOMAIN dogs' : /\ dogs'[b] \in Dog /\ dogs'[b].id = dogs[b].id
                                 /\ dogs'[b].sess = dogs[b].sess
  <2>1. /\ DOMAIN dogs' \subseteq DOMAIN ds
        /\ \A b \in DOMAIN dogs' : dogs'[b] = ds[b]
    BY <1>1, <1>2 DEF Left
  <2>2. DOMAIN ds = DOMAIN dogs
    BY DEF SameDogs
  <2> QED
    BY <2>1, <2>2 DEF SameDogs
<1>4. /\ DOMAIN players' \subseteq DOMAIN players
      /\ \A i \in DOMAIN players' : players'[i] = players[i]
      /\ DOMAIN tokens' \subseteq DOMAIN tokens
      /\ \A t \in DOMAIN tokens' : tokens'[t] = tokens[t]
      /\ \A t \in DOMAIN tokens : t \in DOMAIN tokens' <=> tokens[t].id \in DOMAIN players'
  BY <1>1, <1>2 DEF Left
<1>5. /\ rows' \in [Births -> 0..2] /\ saveFailed' \in BOOLEAN
      /\ \A b \in Births : rows'[b] > 0 => rows[b] > 0 \/ b \in DOMAIN dogs
  BY <1>1, <1>2 DEF Left, SameDogs
<1>6. Memory'
  BY <1>1, <1>2 DEF Memory, Left
<1>7. TypeOK'
  BY <1>3, <1>4, <1>5 DEF Core, TypeOK
<1>8. RegistryMirrored'
  BY <1>4 DEF Core, RegistryMirrored
<1>9. DogsMatchPlayers'
  BY <1>3, <1>4 DEF Core, DogsMatchPlayers
<1>10. CareersBegun'
  BY <1>3, <1>5 DEF Core, CareersBegun
<1>11. OneSessionPerMap'
  BY DEF Core, OneSessionPerMap
<1> QED
  BY <1>3, <1>4, <1>6, <1>7, <1>8, <1>9, <1>10, <1>11 DEF Core

\* The registry of a state file is mirrored again.
LEMMA TokensRestored ==
  ASSUME NEW f, Restores(f)
  PROVE  LET ts == TokensOf(f.players)
         IN  /\ DOMAIN ts = TokensIn(f) /\ ts = [t \in DOMAIN ts |-> ts[t]]
             /\ \A i \in DOMAIN f.players : ts[f.players[i].token] = f.players[i]
<1> DEFINE ps == f.players
           ts == TokensOf(ps)
<1>1. /\ DOMAIN ts = TokensIn(f) /\ ts = [t \in DOMAIN ts |-> ts[t]]
      /\ \A t \in DOMAIN ts :
           ts[t] = CHOOSE p \in {ps[i] : i \in DOMAIN ps} : p.token = t
  BY DEF TokensOf, TokensIn
<1> HIDE DEF ts
<1>2. ASSUME NEW i \in DOMAIN ps
      PROVE  ts[ps[i].token] = ps[i]
  <2> DEFINE named(p) == p \in {ps[j] : j \in DOMAIN ps} /\ p.token = ps[i].token
  <2>1. ts[ps[i].token] = CHOOSE p \in {ps[j] : j \in DOMAIN ps} : p.token = ps[i].token
    BY <1>1 DEF TokensIn
  <2>2. \E p \in {ps[j] : j \in DOMAIN ps} : p.token = ps[i].token
    OBVIOUS
  <2>3. \A p \in {ps[j] : j \in DOMAIN ps} : p.token = ps[i].token => p = ps[i]
    BY DEF Restores
  <2> HIDE DEF ps
  <2> QED
    BY <2>1, <2>2, <2>3
<1> QED
  BY <1>1, <1>2 DEF ts

\* Restore, whole or by half.
LEMMA RestoreKeeps ==
  ASSUME Core, NEW f, Restores(f), halfRestored \in BOOLEAN, NEW maps, Restore(f, maps),
         UNCHANGED <<rows, joins, born, saveFailed>>
  PROVE  /\ Core' /\ Memory'
         /\ DOMAIN dogs' \subseteq DOMAIN f.dogs /\ DOMAIN tokens' \subseteq TokensIn(f)
         /\ \/ halfRestored'
            \/ /\ sessions' = f.sessions /\ dogs' = f.dogs
               /\ players' = f.players /\ tokens' = TokensOf(f.players)
               /\ halfRestored' = halfRestored
<1> DEFINE Sound == Restorable(f, maps)
           whole == Sound = DOMAIN f.sessions
           ts    == TokensOf(f.players)
<1>1. /\ sessions' = Restrict(f.sessions, Sound)
      /\ dogs' = Restrict(f.dogs, {b \in DOMAIN f.dogs : f.dogs[b].sess \in Sound})
      /\ players' = IF whole THEN f.players ELSE << >>
      /\ tokens' = IF whole THEN ts ELSE << >>
      /\ halfRestored' = (halfRestored \/ ~whole)
  BY DEF Restore, RestoreSessions
<1>2. Sound \subseteq DOMAIN f.sessions
  BY DEF Restorable
<1>3. /\ DOMAIN ts = TokensIn(f) /\ ts = [t \in DOMAIN ts |-> ts[t]]
      /\ \A i \in DOMAIN f.players : ts[f.players[i].token] = f.players[i]
  BY TokensRestored
<1> HIDE DEF Sound, ts
<1>4. /\ DOMAIN sessions' = Sound
      /\ \A s \in Sound : sessions'[s] = f.sessions[s]
      /\ sessions' = [s \in DOMAIN sessions' |-> sessions'[s]]
      /\ DOMAIN dogs' = {b \in DOMAIN f.dogs : f.dogs[b].sess \in Sound}
      /\ \A b \in DOMAIN dogs' : dogs'[b] = f.dogs[b]
      /\ dogs' = [b \in DOMAIN dogs' |-> dogs'[b]]
  BY <1>1 DEF Restrict
<1>5. /\ DOMAIN players' \subseteq DOMAIN f.players
      /\ \A i \in DOMAIN players' : players'[i] = f.players[i]
      /\ players' = [i \in DOMAIN players' |-> players'[i]]
      /\ DOMAIN players' # {} => whole
      /\ tokens' = [t \in DOMAIN tokens' |-> tokens'[t]]
      /\ DOMAIN tokens' = {f.players[i].token : i \in DOMAIN players'}
      /\ \A i \in DOMAIN players' : tokens'[f.players[i].token] = f.players[i]
  <2>1. CASE whole
    <3>1. players' = f.players /\ tokens' = ts
      BY <1>1, <2>1
    <3> QED
      BY <1>3, <2>1, <3>1 DEF Restores, TokensIn
  <2>2. CASE ~whole
    <3>1. players' = << >> /\ tokens' = << >>
      BY <1>1, <2>2
    <3>2. DOMAIN players' = {} /\ DOMAIN tokens' = {}
      BY <3>1
    <3>3. /\ players' = [i \in DOMAIN players' |-> players'[i]]
          /\ tokens' = [t \in DOMAIN tokens' |-> tokens'[t]]
      BY <3>1
    <3> HIDE DEF whole
    <3> QED
      BY <3>2, <3>3
  <2> QED
    BY <2>1, <2>2
<1>6. Memory'
  <2>1. IsFiniteSet(Sound)
    BY <1>2, FS_Subset DEF Restores
  <2> QED
    BY <1>4, <1>5, <2>1 DEF Memory
<1>7. /\ \A i \in DOMAIN players' :
           /\ i \in Nat /\ players'[i] \in Player /\ players'[i].id = i
           /\ players'[i].token \in 1..joins
           /\ players'[i].sess \in DOMAIN sessions'
           /\ players'[i].token \in DOMAIN tokens'
           /\ tokens'[players'[i].token] = players'[i]
      /\ \A t \in DOMAIN tokens' :
           \E i \in DOMAIN players' : t = players'[i].token /\ tokens'[t] = players'[i]
  <2>1. \A i \in DOMAIN players' : players'[i].sess \in DOMAIN sessions'
    BY <1>4, <1>5 DEF Restores
  <2>2. \A i \in DOMAIN players' :
           /\ i \in Nat /\ players'[i] \in Player /\ players'[i].id = i
           /\ players'[i].token \in 1..joins
           /\ players'[i].token \in DOMAIN tokens'
           /\ tokens'[players'[i].token] = players'[i]
    BY <1>5 DEF Restores
  <2>3. \A t \in DOMAIN tokens' :
           \E i \in DOMAIN players' : t = players'[i].token /\ tokens'[t] = players'[i]
    BY <1>5
  <2> QED
    BY <2>1, <2>2, <2>3
<1>8. \A b \in DOMAIN dogs' : /\ b \in born /\ dogs'[b] \in Dog
                              /\ dogs'[b].sess \in DOMAIN sessions'
  BY <1>4 DEF Restores
<1>9. TypeOK'
  <2>1. DOMAIN sessions' \subseteq Nat /\ \A s \in DOMAIN sessions' : sessions'[s] \in Maps
    BY <1>2, <1>4 DEF Restores
  <2>2. DOMAIN dogs' \subseteq 1..joins'
    BY <1>8 DEF Core, TypeOK
  <2>3. DOMAIN tokens' \subseteq 1..joins' /\ \A t \in DOMAIN tokens' : tokens'[t] \in Player
    BY <1>7
  <2>4. DOMAIN players' \subseteq Nat
    BY <1>7
  <2> QED
    BY <1>7, <1>8, <2>1, <2>2, <2>3, <2>4 DEF Core, TypeOK
<1>10. RegistryMirrored'
  BY <1>7 DEF RegistryMirrored
<1>11. DogsMatchPlayers'
  <2> SUFFICES ASSUME NEW b \in DOMAIN dogs' \cap DOMAIN tokens'
               PROVE  dogs'[b].id = tokens'[b].id /\ dogs'[b].sess = tokens'[b].sess
    BY DEF DogsMatchPlayers
  <2>1. PICK i \in DOMAIN players' : b = players'[i].token /\ tokens'[b] = players'[i]
    BY <1>7
  <2>2. /\ i \in DOMAIN f.players /\ players'[i] = f.players[i]
        /\ b \in DOMAIN f.dogs /\ dogs'[b] = f.dogs[b]
    BY <1>4, <1>5
  <2> QED
    BY <2>1, <2>2, <1>7 DEF Restores
<1>12. CareersBegun'
  BY <1>8 DEF Core, CareersBegun
<1>13. OneSessionPerMap'
  BY <1>2, <1>4 DEF OneSessionPerMap, IsInjective, Restores
<1>14. DOMAIN dogs' \subseteq DOMAIN f.dogs /\ DOMAIN tokens' \subseteq TokensIn(f)
  BY <1>4, <1>5 DEF TokensIn
<1>15. whole => /\ sessions' = f.sessions /\ dogs' = f.dogs
                /\ players' = f.players /\ tokens' = ts
                /\ halfRestored' = halfRestored
  <2> SUFFICES ASSUME whole
               PROVE  /\ sessions' = f.sessions /\ dogs' = f.dogs
                      /\ players' = f.players /\ tokens' = ts
                      /\ halfRestored' = halfRestored
    OBVIOUS
  <2>1. {b \in DOMAIN f.dogs : f.dogs[b].sess \in Sound} = DOMAIN f.dogs
    BY DEF Restores
  <2>2. sessions' = f.sessions /\ dogs' = f.dogs
    BY <1>1, <2>1 DEF Restrict, Restores
  <2>3. halfRestored' = halfRestored
    BY <1>1
  <2> QED
    BY <1>1, <2>2, <2>3
<1>16. ~whole => halfRestored'
  BY <1>1
<1> QED
  BY <1>6, <1>9, <1>10, <1>11, <1>12, <1>13, <1>14, <1>15, <1>16 DEF Core, ts

\* A file that is not touched stays sound while births are added.
LEMMA FileKept ==
  ASSUME Restores(file), file' = file, joins \in Nat, joins' \in Nat, joins <= joins',
         born \subseteq born'
  PROVE  Restores(file)' /\ TokensIn(file)' = TokensIn(file)
<1>1. 1..joins \subseteq 1..joins'
  OBVIOUS
<1>2. TokensIn(file)' = TokensIn(file)
  BY DEF TokensIn
<1> QED
  BY <1>1, <1>2 DEF Restores

\* A new file is as sound as what is written to it.
LEMMA FileWritten ==
  ASSUME NEW f, Restores(f), file' = f, UNCHANGED <<joins, born>>
  PROVE  Restores(file)' /\ TokensIn(file)' = TokensIn(f)
<1>1. TokensIn(file)' = TokensIn(f)
  BY DEF TokensIn
<1> QED
  BY <1>1 DEF Restores

-----------------------------------------------------------------------------
(* One lemma per action: it keeps ServerInv.                               *)

\* The initial state satisfies the inductive invariant.
LEMMA InitServerInv ==
  ASSUME ServerInit
  PROVE  ServerInv
<1>1. Core /\ SavedOnceAndGone /\ NoDogVanishes
  BY InitIInv DEF ServerInit, IInv
<1>2. /\ sessions = << >> /\ dogs = << >> /\ players = << >> /\ tokens = << >>
      /\ born = {} /\ joins = 0
  BY DEF ServerInit, Init
<1>3. Memory /\ NoOrphans
  BY <1>2, FS_EmptySet DEF Memory, NoOrphans
<1>4. Restores(file) /\ DOMAIN file.dogs = {}
  <2>1. PICK ss \in Inherited :
          file = IF ss = << >> THEN Missing
                 ELSE [Missing EXCEPT !.state = "saved", !.sessions = ss]
    BY DEF ServerInit
  <2>2. CASE ss = << >>
    BY <2>1, <2>2, EmptyRestores
  <2>3. CASE ss # << >>
    <3>1. /\ file.state = "saved" /\ file.sessions = ss
          /\ file.dogs = Missing.dogs /\ file.players = Missing.players
      BY <2>1, <2>3 DEF Missing
    <3>2. /\ DOMAIN ss \subseteq Nat /\ IsFiniteSet(DOMAIN ss)
          /\ ss = [s \in DOMAIN ss |-> ss[s]] /\ IsInjective(ss)
          /\ \A s \in DOMAIN ss : ss[s] \in Maps
      BY ServerAssumptions
    <3>3. DOMAIN Missing.dogs = {} /\ DOMAIN Missing.players = {}
      BY DEF Missing
    <3>4. /\ file.dogs = [b \in DOMAIN file.dogs |-> file.dogs[b]]
          /\ file.players = [i \in DOMAIN file.players |-> file.players[i]]
      BY <3>1, EmptyRestores DEF Restores
    <3> QED
      BY <3>1, <3>2, <3>3, <3>4 DEF Restores
  <2> QED
    BY <2>2, <2>3
<1>5. ServerRanges
  <2>1. 0 \in 0..Period /\ 0 \in 0..MaxCrashes /\ 0 \in 0..MaxStops /\ Maps \in Configs
    BY ServerAssumptions
  <2>2. age = [b \in Births |-> 0]
    BY DEF ServerInit
  <2>3. age \in [Births -> 0..Period] /\ \A b \in Births \ born : age[b] = 0
    BY <2>1, <2>2
  <2> QED
    BY <2>1, <2>3 DEF ServerInit, ServerRanges
<1>6. NobodyOrphaned /\ OnFile /\ FileOfTheStopped
  BY <1>3, <1>4 DEF ServerInit, NobodyOrphaned, OnFile, FileOfTheStopped
<1>7. CareersGoOn
  BY <1>1, <1>2, <1>4 DEF CareersGoOn
<1> QED
  BY <1>1, <1>3, <1>4, <1>5, <1>6, <1>7 DEF ServerInv

\* A join: the new dog has not aged yet.
LEMMA JoinKeepsServerInv ==
  ASSUME ServerInv, NEW m \in Maps, NEW fits \in NameFits, Join(m, fits)
  PROVE  ServerInv'
<1>1. /\ JoinGame(m, fits) /\ UNCHANGED server /\ Core /\ process = "running"
      /\ joins \in Nat /\ joins' = joins + 1 /\ joins' \in Births /\ joins' \notin 1..joins
  BY Assumptions DEF Join, ServerInv, Core, TypeOK, JoinGame, Births
<1>2. Core' /\ Careers
  BY <1>1, JoinGameKeeps
<1>3. PICK sid \in SessionFor(m), id \in NewPlayerIds :
        /\ sessions' = Emplace(sessions, sid, m)
        /\ AddPlayer([id |-> id, sess |-> sid, token |-> joins'])
        /\ IF m \in RoadlessMaps
           THEN UNCHANGED <<dogs, born>>
           ELSE /\ dogs' = Emplace(dogs, joins', NewDog(id, sid, fits))
                /\ born' = born \cup {joins'}
  BY <1>1 DEF JoinGame
<1>4. /\ DOMAIN sessions' = DOMAIN sessions \cup {sid}
      /\ sessions' = [s \in DOMAIN sessions' |-> sessions'[s]]
      /\ players' = [i \in DOMAIN players' |-> players'[i]]
      /\ tokens' = [t \in DOMAIN tokens' |-> tokens'[t]]
      /\ DOMAIN tokens' = DOMAIN tokens \cup {joins'}
  BY <1>3 DEF AddPlayer, Emplace
<1>5. /\ dogs' = [b \in DOMAIN dogs' |-> dogs'[b]]
      /\ DOMAIN dogs' \subseteq DOMAIN dogs \cup {joins'}
      /\ born \subseteq born' /\ born' \subseteq born \cup {joins'}
  <2>1. CASE m \in RoadlessMaps
    BY <1>3, <2>1 DEF ServerInv, Memory
  <2>2. CASE m \notin RoadlessMaps
    BY <1>3, <2>2 DEF Emplace
  <2> QED
    BY <2>1, <2>2
<1>6. Memory'
  <2>1. IsFiniteSet(DOMAIN sessions')
    BY <1>4, FS_AddElement DEF ServerInv, Memory
  <2> QED
    BY <1>4, <1>5, <2>1 DEF Memory
<1>7. Restores(file)' /\ TokensIn(file)' = TokensIn(file)
  <2>1. file' = file /\ joins' \in Nat /\ joins <= joins'
    BY <1>1 DEF server
  <2> QED
    BY <1>1, <1>5, <2>1, FileKept DEF ServerInv
<1>8. NobodyOrphaned'
  BY <1>1, <1>2, <1>7 DEF ServerInv, NobodyOrphaned, Careers, server
<1>9. ServerRanges'
  BY <1>1, <1>5 DEF ServerInv, ServerRanges, server
<1>10. OnFile'
  <2> SUFFICES ASSUME Period > 0, ~cutShort
               PROVE  /\ elapsed < Period
                      /\ \A b \in DOMAIN dogs' : age[b] > elapsed =>
                           /\ b \in DOMAIN file.dogs
                           /\ b \in DOMAIN tokens' => b \in TokensIn(file)
    BY <1>1, <1>7 DEF OnFile, server
  <2>1. age[joins'] = 0 /\ elapsed \in Nat
    BY <1>1, ServerAssumptions DEF ServerInv, ServerRanges, Core, TypeOK
  <2>2. \A b \in DOMAIN dogs' : age[b] > elapsed => b \in DOMAIN dogs /\ b # joins'
    BY <1>5, <2>1
  <2> QED
    BY <1>1, <1>4, <2>2 DEF ServerInv, OnFile
<1>11. FileOfTheStopped'
  BY <1>1 DEF ServerInv, FileOfTheStopped, server
<1>12. CareersGoOn'
  BY <1>1, <1>2 DEF ServerInv, CareersGoOn, Careers, Clean, server
<1> QED
  BY <1>2, <1>6, <1>7, <1>8, <1>9, <1>10, <1>11, <1>12 DEF ServerInv

\* A request to move: the same dogs, the same file.
LEMMA ActionKeepsServerInv ==
  ASSUME ServerInv, NEW t \in DOMAIN tokens, NEW go \in BOOLEAN, Action(t, go)
  PROVE  ServerInv'
<1>1. /\ MovePlayer(t, go) /\ UNCHANGED server /\ Core /\ process = "running"
      /\ UNCHANGED <<sessions, players, tokens, joins, born>> /\ joins \in Nat
  <2>1. MovePlayer(t, go) /\ UNCHANGED server /\ process = "running"
    BY DEF Action
  <2>2. Core /\ joins \in Nat
    BY DEF ServerInv, Core, TypeOK
  <2> QED
    BY <2>1, <2>2 DEF MovePlayer
<1>2. Core' /\ Careers
  BY <1>1, MovePlayerKeeps
<1>3. /\ dogs' = [b \in DOMAIN dogs' |-> dogs'[b]]
      /\ DOMAIN dogs' = DOMAIN dogs
  <2>1. PICK b \in SteeredBy(t) : dogs' = [dogs EXCEPT ![b].moving = go]
    BY <1>1 DEF MovePlayer
  <2> QED
    BY <2>1
<1>4. Memory'
  BY <1>1, <1>3 DEF ServerInv, Memory
<1>5. Restores(file)' /\ TokensIn(file)' = TokensIn(file)
  <2>1. file' = file /\ joins' \in Nat /\ joins <= joins'
    BY <1>1 DEF server
  <2> QED
    BY <1>1, <2>1, FileKept DEF ServerInv
<1>6. NobodyOrphaned'
  BY <1>1, <1>2, <1>5 DEF ServerInv, NobodyOrphaned, Careers, server
<1>7. ServerRanges'
  BY <1>1 DEF ServerInv, ServerRanges, server
<1>8. OnFile'
  BY <1>1, <1>3, <1>5 DEF ServerInv, OnFile, server
<1>9. FileOfTheStopped'
  BY <1>1 DEF ServerInv, FileOfTheStopped, server
<1>10. CareersGoOn'
  BY <1>1, <1>2 DEF ServerInv, CareersGoOn, Careers, Clean, server
<1> QED
  BY <1>2, <1>4, <1>5, <1>6, <1>7, <1>8, <1>9, <1>10 DEF ServerInv

\* The dogs age by the tick, and nobody else.
LEMMA DogsAge ==
  ASSUME Core, ServerRanges, NEW d \in Deltas, Aged(d), born' = born
  PROVE  /\ age' \in [Births -> 0..Period] /\ \A b \in Births \ born' : age'[b] = 0
         /\ \A b \in DOMAIN dogs : b \in Births /\ age'[b] = Capped(age[b] + d, Period)
         /\ d \in Nat /\ Period \in Nat
<1>1. d \in Nat /\ Period \in Nat /\ DOMAIN dogs \subseteq Births /\ DOMAIN dogs \subseteq born
  BY Assumptions, ServerAssumptions DEF Core, TypeOK, Births, CareersBegun
<1>2. \A b \in Births : age[b] \in 0..Period /\ Capped(age[b] + d, Period) \in 0..Period
  BY <1>1 DEF ServerRanges, Capped
<1>3. age' = [b \in Births |-> IF b \in DOMAIN dogs THEN Capped(age[b] + d, Period) ELSE age[b]]
  BY DEF Aged
<1> QED
  BY <1>1, <1>2, <1>3 DEF ServerRanges

\* The clock of the Autosaver, when the tick saves and when it does not.
LEMMA ElapsedStays ==
  ASSUME ServerRanges, NEW d \in Nat
  PROVE  /\ Capped(elapsed + d, Period) \in 0..Period
         /\ ~SaveDue(d) /\ Period > 0 => Capped(elapsed + d, Period) = elapsed + d
         /\ ~SaveDue(d) /\ Period > 0 => elapsed + d < Period
BY ServerAssumptions DEF ServerRanges, SaveDue, Capped

\* A tick of the server is one of App when no dog is an orphan.
LEMMA ServerTickIsTick ==
  ASSUME Core, NoOrphans, Memory, NEW d \in Deltas, ServerTick(d)
  PROVE  Tick(d)
<1>1. PICK ds \in Moved(d) : \E F \in Failures(ds) : RetireOneByOne(ds, F)
  BY DEF ServerTick
<1>2. PICK F \in Failures(ds) : RetireOneByOne(ds, F)
  BY <1>1
<1>3. SameDogs(ds)
  BY MovedAreTheSame
<1>4. F \in SUBSET Overdue(ds)
  BY DEF Failures
<1>5. RetireDogs(ds, F)
  BY <1>2, <1>3, <1>4, RetiredAsApp
<1>6. PICK stopped \in SUBSET Running : ds = MoveAllDogs(d, DOMAIN sessions, stopped)
  BY DEF Moved
<1>7. UNCHANGED <<sessions, joins, born>>
  BY DEF ServerTick
<1> QED
  BY <1>5, <1>6, <1>7 DEF Tick

\* A tick: what it saved is more than what it left.
LEMMA ServerTickKeepsServerInv ==
  ASSUME ServerInv, NEW d \in Deltas, ServerTick(d)
  PROVE  ServerInv'
<1>1. PICK ds \in Moved(d) :
        /\ IF SaveDue(d)
           THEN Save(ds)
           ELSE /\ elapsed' = Capped(elapsed + d, Period)
                /\ UNCHANGED <<file, diskFailed, cutShort>>
        /\ \E F \in Failures(ds) : RetireOneByOne(ds, F)
  BY DEF ServerTick
<1>2. /\ process = "running" /\ Aged(d)
      /\ UNCHANGED <<sessions, joins, born, process, config, crashes, stops, halfRestored>>
      /\ Core /\ Memory /\ Restores(file) /\ ServerRanges /\ joins \in Nat
  BY DEF ServerTick, ServerInv, Core, TypeOK
<1>3. SameDogs(ds)
  BY <1>2, MovedAreTheSame
<1>4. /\ Core' /\ Memory'
      /\ DOMAIN dogs' \subseteq DOMAIN dogs /\ DOMAIN tokens' \subseteq DOMAIN tokens
  BY <1>1, <1>2, <1>3, RetirementKeeps
<1>5. NoOrphans => Careers
  BY <1>2, ServerTickIsTick, TickKeeps
<1>6. \/ SaveDue(d) /\ Period > 0 /\ file' = AppRepr(ds) /\ elapsed' = 0
         /\ cutShort' = FALSE
         /\ diskFailed' = diskFailed
      \/ ~SaveDue(d) /\ elapsed' = Capped(elapsed + d, Period)
         /\ UNCHANGED <<file, diskFailed, cutShort>>
  BY <1>1 DEF Save, SaveDue
<1>7. /\ Restores(AppRepr(ds)) /\ DOMAIN AppRepr(ds).dogs = DOMAIN dogs
      /\ TokensIn(AppRepr(ds)) = DOMAIN tokens
  BY <1>2, <1>3, SavedRestores
<1>8. /\ Restores(file)'
      /\ file' = AppRepr(ds) => TokensIn(file)' = DOMAIN tokens
      /\ file' = file => TokensIn(file)' = TokensIn(file)
  <2>1. CASE file' = AppRepr(ds)
    <3>1. Restores(file)' /\ TokensIn(file)' = DOMAIN tokens
      BY <1>2, <1>7, <2>1, FileWritten
    <3>2. file' = file => TokensIn(file)' = TokensIn(file)
      BY DEF TokensIn
    <3> QED
      BY <3>1, <3>2
  <2>2. CASE file' = file /\ file' # AppRepr(ds)
    <3>1. joins' \in Nat /\ joins <= joins' /\ born \subseteq born'
      BY <1>2
    <3>2. Restores(file)' /\ TokensIn(file)' = TokensIn(file)
      BY <1>2, <2>2, <3>1, FileKept
    <3> QED
      BY <2>2, <3>2
  <2> QED
    BY <1>6, <2>1, <2>2
<1>9. NobodyOrphaned'
  <2> SUFFICES ASSUME ~halfRestored PROVE NoOrphans' /\ DOMAIN file'.dogs \subseteq TokensIn(file)'
    BY <1>2 DEF NobodyOrphaned
  <2>1. NoOrphans /\ DOMAIN file.dogs \subseteq TokensIn(file)
    BY DEF ServerInv, NobodyOrphaned
  <2>2. NoOrphans'
    BY <1>5, <2>1 DEF Careers
  <2>3. DOMAIN file'.dogs \subseteq TokensIn(file)'
    BY <1>6, <1>7, <1>8, <2>1 DEF NoOrphans
  <2> QED
    BY <2>2, <2>3
<1>10. /\ age' \in [Births -> 0..Period] /\ \A b \in Births \ born' : age'[b] = 0
       /\ \A b \in DOMAIN dogs : b \in Births /\ age'[b] = Capped(age[b] + d, Period)
       /\ d \in Nat /\ Period \in Nat
  BY <1>2, DogsAge
<1>11. /\ Capped(elapsed + d, Period) \in 0..Period
       /\ ~SaveDue(d) /\ Period > 0 => Capped(elapsed + d, Period) = elapsed + d
       /\ ~SaveDue(d) /\ Period > 0 => elapsed + d < Period
  BY <1>2, <1>10, ElapsedStays
<1>12. ServerRanges'
  <2>1. elapsed' \in 0..Period /\ (Period > 0 => elapsed' < Period)
    BY <1>6, <1>10, <1>11
  <2>2. diskFailed' \in BOOLEAN /\ cutShort' \in BOOLEAN
    BY <1>2, <1>6 DEF ServerRanges
  <2> QED
    BY <1>2, <1>10, <2>1, <2>2 DEF ServerRanges
<1>13. OnFile'
  <2> SUFFICES ASSUME Period > 0, ~cutShort'
               PROVE  /\ elapsed' < Period
                      /\ \A b \in DOMAIN dogs' : age'[b] > elapsed' =>
                           /\ b \in DOMAIN file'.dogs
                           /\ b \in DOMAIN tokens' => b \in TokensIn(file)'
    BY DEF OnFile
  <2>1. CASE SaveDue(d)
    BY <1>4, <1>6, <1>7, <1>8, <2>1
  <2>2. CASE ~SaveDue(d)
    <3>1. /\ ~cutShort /\ file' = file /\ elapsed' = elapsed + d /\ elapsed + d < Period
          /\ TokensIn(file)' = TokensIn(file) /\ elapsed \in Nat
      BY <1>2, <1>6, <1>8, <1>11, <2>2, ServerAssumptions DEF ServerRanges
    <3>2. \A b \in DOMAIN dogs : age'[b] > elapsed' => age[b] > elapsed
      <4>1. \A b \in DOMAIN dogs : age[b] \in Nat
        BY <1>2, <1>10 DEF ServerRanges
      <4> QED
        BY <1>10, <3>1, <4>1 DEF Capped
    <3>3. \A b \in DOMAIN dogs : age[b] > elapsed =>
             /\ b \in DOMAIN file.dogs
             /\ b \in DOMAIN tokens => b \in TokensIn(file)
      BY <1>2, <3>1 DEF ServerInv, OnFile
    <3> QED
      BY <1>4, <3>1, <3>2, <3>3
  <2> QED
    BY <2>1, <2>2
<1>14. FileOfTheStopped'
  <2>1. Period = 0 => file' = file
    BY <1>6
  <2> QED
    BY <1>2, <2>1 DEF ServerInv, FileOfTheStopped
<1>15. CareersGoOn'
  <2> SUFFICES ASSUME Clean'
               PROVE  /\ SavedOnceAndGone'
                      /\ Period > 0 => NoDogVanishes'
    BY <1>2 DEF CareersGoOn
  <2>1. Clean
    BY <1>2, <1>6 DEF Clean
  <2>2. Careers
    BY <1>5, <2>1 DEF ServerInv, NobodyOrphaned, Clean
  <2> QED
    BY <2>1, <2>2 DEF ServerInv, CareersGoOn, Careers
<1> QED
  BY <1>4, <1>8, <1>9, <1>12, <1>13, <1>14, <1>15 DEF ServerInv

\* A Save that throws: the file is what it was, or empty.
LEMMA FailedSaveRestores ==
  ASSUME Restores(file), SaveThrows, UNCHANGED <<joins, born>>, joins \in Nat
  PROVE  /\ Restores(file)'
         /\ (file' = file /\ TokensIn(file)' = TokensIn(file)) \/ DOMAIN file'.dogs = {}
         /\ DOMAIN file.dogs = {} => DOMAIN file'.dogs = {}
<1>1. CASE file' = file
  <2>1. Restores(file)' /\ TokensIn(file)' = TokensIn(file)
    BY <1>1, FileKept
  <2> QED
    BY <1>1, <2>1
<1>2. CASE file' = Broken
  <2>1. Restores(Broken) /\ DOMAIN Broken.dogs = {}
    BY EmptyRestores
  <2>2. Restores(file)'
    BY <1>2, <2>1, FileWritten
  <2> QED
    BY <1>2, <2>1, <2>2
<1> QED
  BY <1>1, <1>2 DEF SaveThrows

\* A tick whose Save throws.
LEMMA TickWithoutSaveKeepsServerInv ==
  ASSUME ServerInv, NEW d \in Deltas, TickWithoutSave(d)
  PROVE  ServerInv'
<1>1. /\ process = "running" /\ Aged(d) /\ dogs' \in Moved(d) /\ SaveThrows
      /\ elapsed' = Capped(elapsed + d, Period) /\ cutShort' = TRUE /\ diskFailed' = TRUE
      /\ Period > 0
      /\ UNCHANGED <<sessions, players, tokens, rows, joins, born, saveFailed,
                     process, config, crashes, stops, halfRestored>>
  BY DEF TickWithoutSave, SaveThrows, SaveDue
<1>2. Core /\ Memory /\ Restores(file) /\ ServerRanges /\ joins \in Nat
  BY DEF ServerInv, Core, TypeOK
<1>3. SameDogs(dogs')
  BY <1>1, <1>2, MovedAreTheSame
<1>4. /\ dogs' = [b \in DOMAIN dogs |-> dogs'[b]] /\ DOMAIN dogs' = DOMAIN dogs
      /\ \A b \in DOMAIN dogs : /\ dogs'[b] \in Dog
                                /\ dogs'[b].id = dogs[b].id
                                /\ dogs'[b].sess = dogs[b].sess
  BY <1>3 DEF SameDogs
<1>5. Core' /\ Careers
  BY <1>1, <1>2, <1>4, SameDogsKeep
<1>6. Memory'
  BY <1>1, <1>2, <1>4 DEF Memory
<1>7. /\ Restores(file)'
      /\ (file' = file /\ TokensIn(file)' = TokensIn(file)) \/ DOMAIN file'.dogs = {}
      /\ DOMAIN file.dogs = {} => DOMAIN file'.dogs = {}
  BY <1>1, <1>2, FailedSaveRestores
<1>8. NobodyOrphaned'
  BY <1>1, <1>5, <1>7 DEF ServerInv, NobodyOrphaned, Careers
<1>9. ServerRanges'
  <2>1. /\ age' \in [Births -> 0..Period] /\ \A b \in Births \ born' : age'[b] = 0
        /\ d \in Nat
    BY <1>1, <1>2, DogsAge
  <2>2. elapsed' \in 0..Period
    BY <1>1, <1>2, <2>1, ElapsedStays
  <2> QED
    BY <1>1, <1>2, <2>1, <2>2 DEF ServerRanges
<1>10. OnFile' /\ FileOfTheStopped' /\ CareersGoOn'
  BY <1>1 DEF OnFile, FileOfTheStopped, CareersGoOn, Clean
<1> QED
  BY <1>5, <1>6, <1>7, <1>8, <1>9, <1>10 DEF ServerInv

\* A tick that a session cuts short.
LEMMA SessionThrowsKeepsServerInv ==
  ASSUME ServerInv, NEW d \in Deltas, TickOfSessionThrows(d)
  PROVE  ServerInv'
<1>1. /\ process = "running" /\ Aged(d) /\ TickThrows(d) /\ cutShort' = TRUE
      /\ UNCHANGED <<process, config, file, elapsed, crashes, stops, diskFailed, halfRestored>>
      /\ UNCHANGED <<sessions, players, tokens, rows, joins, born, saveFailed>>
  BY DEF TickOfSessionThrows, TickThrows
<1>2. Core /\ Memory /\ Restores(file) /\ ServerRanges /\ joins \in Nat
  BY DEF ServerInv, Core, TypeOK
<1>3. Core' /\ Careers
  BY <1>1, <1>2, TickThrowsKeeps
<1>4. dogs' = [b \in DOMAIN dogs' |-> dogs'[b]]
  BY <1>1 DEF TickThrows, MoveAllDogs
<1>5. Memory'
  BY <1>1, <1>2, <1>4 DEF Memory
<1>6. Restores(file)' /\ TokensIn(file)' = TokensIn(file)
  <2>1. joins' \in Nat /\ joins <= joins' /\ born \subseteq born' /\ file' = file
    BY <1>1, <1>2
  <2> QED
    BY <1>2, <2>1, FileKept
<1>7. NobodyOrphaned'
  BY <1>1, <1>3, <1>6 DEF ServerInv, NobodyOrphaned, Careers
<1>8. ServerRanges'
  <2>1. age' \in [Births -> 0..Period] /\ \A b \in Births \ born' : age'[b] = 0
    BY <1>1, <1>2, DogsAge
  <2> QED
    BY <1>1, <1>2, <2>1 DEF ServerRanges
<1>9. OnFile' /\ FileOfTheStopped'
  BY <1>1 DEF ServerInv, OnFile, FileOfTheStopped
<1>10. CareersGoOn'
  BY <1>1, <1>3 DEF ServerInv, CareersGoOn, Careers, Clean
<1> QED
  BY <1>3, <1>5, <1>6, <1>7, <1>8, <1>9, <1>10 DEF ServerInv

\* What holds of a process that has died: its memory is not read any more.
LEMMA DeathKeepsServerInv ==
  ASSUME ServerInv, Dies, UNCHANGED <<sessions, dogs, players, tokens, joins, born, saveFailed>>,
         UNCHANGED <<elapsed, stops, diskFailed, cutShort, age>>,
         rows' \in [Births -> 0..2], \A b \in Births : rows'[b] > 0 => b \in born,
         Restores(file)', Period = 0 => DOMAIN file'.dogs = {},
         ~halfRestored => DOMAIN file'.dogs \subseteq TokensIn(file)'
  PROVE  ServerInv'
<1>1. /\ process' = "down" /\ crashes' = crashes + 1 /\ crashes < MaxCrashes
      /\ UNCHANGED <<config, halfRestored>>
  BY DEF Dies
<1>2. Core'
  BY DEF ServerInv, Core, TypeOK, RegistryMirrored, DogsMatchPlayers, CareersBegun,
         OneSessionPerMap
<1>3. Memory'
  BY DEF ServerInv, Memory
<1>4. NobodyOrphaned'
  BY <1>1 DEF ServerInv, NobodyOrphaned, NoOrphans
<1>5. crashes \in Nat /\ crashes' \in 0..MaxCrashes /\ crashes' # 0
  BY <1>1, ServerAssumptions DEF ServerInv, ServerRanges
<1>6. ServerRanges'
  BY <1>1, <1>5 DEF ServerInv, ServerRanges
<1>7. OnFile' /\ FileOfTheStopped' /\ CareersGoOn'
  BY <1>1, <1>5 DEF OnFile, FileOfTheStopped, CareersGoOn, Clean
<1> QED
  BY <1>2, <1>3, <1>4, <1>6, <1>7 DEF ServerInv

\* A crash between two steps, or in the middle of a Save.
LEMMA CrashKeepsServerInv ==
  ASSUME ServerInv, Crash \/ CrashInSave
  PROVE  ServerInv'
<1>1. /\ Dies /\ UNCHANGED vars /\ UNCHANGED <<elapsed, stops, diskFailed, cutShort, age>>
      /\ file' = file \/ file' = Broken
      /\ Period = 0 => file' = file
  BY DEF Crash, CrashInSave
<1>2. Core /\ Restores(file) /\ joins \in Nat
  BY DEF ServerInv, Core, TypeOK
<1>3. UNCHANGED <<sessions, dogs, players, tokens, rows, joins, born, saveFailed>>
  BY <1>1 DEF vars
<1>4. /\ rows' \in [Births -> 0..2] /\ \A b \in Births : rows'[b] > 0 => b \in born
  BY <1>2, <1>3 DEF Core, TypeOK, CareersBegun
<1>5. /\ Restores(file)'
      /\ (file' = file /\ TokensIn(file)' = TokensIn(file)) \/ DOMAIN file'.dogs = {}
  <2>1. CASE file' = file
    <3>1. joins' \in Nat /\ joins <= joins' /\ born \subseteq born'
      BY <1>2, <1>3
    <3> QED
      BY <1>2, <2>1, <3>1, FileKept
  <2>2. CASE file' = Broken
    <3>1. Restores(Broken) /\ DOMAIN Broken.dogs = {}
      BY EmptyRestores
    <3>2. Restores(file)'
      BY <1>3, <2>2, <3>1, FileWritten
    <3> QED
      BY <2>2, <3>1, <3>2
  <2> QED
    BY <1>1, <2>1, <2>2
<1>6. Period = 0 => DOMAIN file'.dogs = {}
  BY <1>1 DEF ServerInv, FileOfTheStopped
<1>7. ~halfRestored => DOMAIN file'.dogs \subseteq TokensIn(file)'
  BY <1>5 DEF ServerInv, NobodyOrphaned
<1> QED
  BY <1>1, <1>3, <1>4, <1>5, <1>6, <1>7, DeathKeepsServerInv

\* A crash in the middle of a retirement: some rows, no less dogs.
LEMMA CrashInRetireDogsKeepsServerInv ==
  ASSUME ServerInv, NEW d \in Deltas, CrashInRetireDogs(d)
  PROVE  ServerInv'
<1>1. PICK ds \in Moved(d), F \in SUBSET Births :
        /\ file' = IF SaveDue(d) THEN AppRepr(ds) ELSE file
        /\ rows' = Retired(ds, F).rows
  BY DEF CrashInRetireDogs
<1>2. /\ Dies /\ UNCHANGED <<sessions, dogs, players, tokens, joins, born, saveFailed>>
      /\ UNCHANGED <<elapsed, stops, diskFailed, cutShort, age>>
  BY DEF CrashInRetireDogs
<1>3. Core /\ Memory /\ Restores(file) /\ joins \in Nat
  BY DEF ServerInv, Core, TypeOK
<1>4. SameDogs(ds)
  BY <1>3, MovedAreTheSame
<1>5. Left(ds, Retired(ds, F))
  BY <1>3, <1>4, RetiredLeft
<1>6. rows' \in [Births -> 0..2] /\ \A b \in Births : rows'[b] > 0 => b \in born
  <2>1. DOMAIN ds = DOMAIN dogs
    BY <1>4 DEF SameDogs
  <2>2. /\ rows' \in [Births -> 0..2]
        /\ \A b \in Births : rows'[b] > 0 => rows[b] > 0 \/ b \in DOMAIN dogs
    BY <1>1, <1>5, <2>1 DEF Left
  <2> QED
    BY <1>3, <2>2 DEF Core, CareersBegun
<1>7. /\ Restores(file)' /\ (Period = 0 => DOMAIN file'.dogs = {})
      /\ ~halfRestored => DOMAIN file'.dogs \subseteq TokensIn(file)'
  <2>1. CASE SaveDue(d)
    <3>1. /\ Restores(AppRepr(ds)) /\ DOMAIN AppRepr(ds).dogs = DOMAIN dogs
          /\ TokensIn(AppRepr(ds)) = DOMAIN tokens
      BY <1>3, <1>4, SavedRestores
    <3>2. Restores(file)' /\ TokensIn(file)' = DOMAIN tokens
      BY <1>1, <1>2, <2>1, <3>1, FileWritten
    <3>3. Period # 0
      BY <2>1 DEF SaveDue
    <3> QED
      BY <1>1, <2>1, <3>1, <3>2, <3>3 DEF ServerInv, NobodyOrphaned, NoOrphans
  <2>2. CASE ~SaveDue(d)
    <3>1. file' = file /\ joins' \in Nat /\ joins <= joins' /\ born \subseteq born'
      BY <1>1, <1>2, <1>3, <2>2
    <3>2. Restores(file)' /\ TokensIn(file)' = TokensIn(file)
      BY <1>3, <3>1, FileKept
    <3> QED
      BY <3>1, <3>2 DEF ServerInv, NobodyOrphaned, FileOfTheStopped
  <2> QED
    BY <2>1, <2>2
<1> QED
  BY <1>2, <1>6, <1>7, DeathKeepsServerInv

\* An orderly stop, saved, saved in vain, or with saving turned off.
LEMMA StopKeepsServerInv ==
  ASSUME ServerInv, Stop
  PROVE  ServerInv'
<1>1. /\ process = "running" /\ stops < MaxStops /\ stops' = stops + 1
      /\ UNCHANGED <<config, crashes, halfRestored, age>>
      /\ UNCHANGED <<sessions, dogs, players, tokens, rows, joins, born, saveFailed>>
  BY DEF Stop, vars
<1>2. \/ Period > 0 /\ file' = AppRepr(dogs) /\ elapsed' = 0 /\ cutShort' = FALSE
         /\ diskFailed' = diskFailed /\ process' = "stopped"
      \/ Period > 0 /\ SaveThrows /\ diskFailed' = TRUE /\ process' = "down"
         /\ UNCHANGED <<elapsed, cutShort>>
      \/ Period = 0 /\ process' = "down" /\ UNCHANGED <<file, elapsed, diskFailed, cutShort>>
  BY DEF Stop, Save, SaveThrows
<1>3. Core /\ Memory /\ Restores(file) /\ ServerRanges /\ joins \in Nat
  BY DEF ServerInv, Core, TypeOK
<1>4. Core' /\ Memory' /\ (NoOrphans => NoOrphans')
      /\ (SavedOnceAndGone => SavedOnceAndGone') /\ (NoDogVanishes => NoDogVanishes')
  <2>1. Core'
    BY <1>1, <1>3 DEF Core, TypeOK, RegistryMirrored, DogsMatchPlayers, CareersBegun,
           OneSessionPerMap
  <2>2. Memory'
    BY <1>1, <1>3 DEF Memory
  <2> QED
    BY <1>1, <2>1, <2>2 DEF NoOrphans, SavedOnceAndGone, NoDogVanishes
<1>5. ServerRanges'
  <2>1. stops' \in 0..MaxStops
    BY <1>1, <1>3, ServerAssumptions DEF ServerRanges
  <2>2. elapsed' \in 0..Period /\ (Period > 0 /\ ~diskFailed' => elapsed' < Period)
        /\ diskFailed' \in BOOLEAN /\ cutShort' \in BOOLEAN
        /\ process' \in {"running", "stopped", "down"}
    <3>1. /\ Period \in Nat /\ elapsed \in 0..Period /\ diskFailed \in BOOLEAN
          /\ cutShort \in BOOLEAN /\ (Period > 0 /\ ~diskFailed => elapsed < Period)
      BY <1>3, ServerAssumptions DEF ServerRanges
    <3>2. process' \in {"running", "stopped", "down"}
      BY <1>2
    <3>3. elapsed' = 0 \/ elapsed' = elapsed
      BY <1>2
    <3>4. cutShort' = FALSE \/ cutShort' = cutShort
      BY <1>2
    <3>5. diskFailed' = TRUE \/ diskFailed' = diskFailed
      BY <1>2
    <3>6. elapsed' \in 0..Period
      BY <3>1, <3>3
    <3>7. Period > 0 /\ ~diskFailed' => elapsed' < Period
      BY <3>1, <3>3, <3>5
    <3>8. diskFailed' \in BOOLEAN
      BY <3>1, <3>5
    <3>9. cutShort' \in BOOLEAN
      BY <3>1, <3>4
    <3> QED
      BY <3>2, <3>6, <3>7, <3>8, <3>9
  <2> QED
    BY <1>1, <1>3, <2>1, <2>2 DEF ServerRanges
<1>6. OnFile'
  BY <1>2 DEF OnFile
<1>7. CASE file' = AppRepr(dogs) /\ process' = "stopped" /\ Period > 0
           /\ diskFailed' = diskFailed
  <2>1. SameDogs(dogs)
    BY <1>3, DogsAreTheSame
  <2>2. /\ Restores(AppRepr(dogs)) /\ DOMAIN AppRepr(dogs).dogs = DOMAIN dogs
        /\ TokensIn(AppRepr(dogs)) = DOMAIN tokens
    BY <1>3, <2>1, SavedRestores
  <2>3. Restores(file)' /\ TokensIn(file)' = DOMAIN tokens
    BY <1>1, <1>7, <2>2, FileWritten
  <2>4. NobodyOrphaned'
    BY <1>1, <1>4, <1>7, <2>2, <2>3 DEF ServerInv, NobodyOrphaned, NoOrphans
  <2>5. FileOfTheStopped'
    <3>1. AppRepr(dogs)' = AppRepr(dogs)
      BY <1>1 DEF AppRepr
    <3> QED
      BY <1>7, <3>1 DEF FileOfTheStopped
  <2>6. CareersGoOn'
    BY <1>1, <1>4, <1>7 DEF ServerInv, CareersGoOn, Clean
  <2> QED
    BY <1>4, <1>5, <1>6, <2>3, <2>4, <2>5, <2>6 DEF ServerInv
<1>8. CASE SaveThrows /\ diskFailed' = TRUE /\ process' = "down" /\ Period > 0
  <2>1. /\ Restores(file)'
        /\ (file' = file /\ TokensIn(file)' = TokensIn(file)) \/ DOMAIN file'.dogs = {}
    BY <1>1, <1>3, <1>8, FailedSaveRestores
  <2>2. NobodyOrphaned'
    BY <1>1, <1>4, <2>1 DEF ServerInv, NobodyOrphaned
  <2>3. FileOfTheStopped' /\ CareersGoOn'
    BY <1>8 DEF FileOfTheStopped, CareersGoOn, Clean
  <2> QED
    BY <1>4, <1>5, <1>6, <2>1, <2>2, <2>3 DEF ServerInv
<1>9. CASE Period = 0 /\ process' = "down" /\ UNCHANGED <<file, diskFailed>>
  <2>1. Restores(file)' /\ TokensIn(file)' = TokensIn(file)
    <3>1. file' = file /\ joins' \in Nat /\ joins <= joins' /\ born \subseteq born'
      BY <1>1, <1>3, <1>9
    <3> QED
      BY <1>3, <3>1, FileKept
  <2>2. NobodyOrphaned'
    BY <1>1, <1>4, <1>9, <2>1 DEF ServerInv, NobodyOrphaned
  <2>3. FileOfTheStopped' /\ CareersGoOn'
    BY <1>1, <1>4, <1>9 DEF ServerInv, FileOfTheStopped, CareersGoOn, Clean
  <2> QED
    BY <1>4, <1>5, <1>6, <2>1, <2>2, <2>3 DEF ServerInv
<1> QED
  BY <1>2, <1>7, <1>8, <1>9

\* A start.
LEMMA StartKeepsServerInv ==
  ASSUME ServerInv, Start
  PROVE  ServerInv'
<1>1. /\ process # "running" /\ process' = "running" /\ config' \in Configs
      /\ Restore(FileToRestore, config') /\ elapsed' = 0 /\ cutShort' = FALSE
      /\ UNCHANGED <<rows, joins, born, saveFailed, file, crashes, stops, diskFailed, age>>
  BY DEF Start
<1>2. Core /\ Restores(file) /\ ServerRanges /\ joins \in Nat /\ halfRestored \in BOOLEAN
  BY DEF ServerInv, Core, TypeOK, ServerRanges
<1>3. PICK f : f = FileToRestore
  OBVIOUS
<1>3a. /\ Restores(f) /\ DOMAIN f.dogs \subseteq DOMAIN file.dogs
       /\ DOMAIN f.dogs # {} \/ Period > 0 => f = file
  <2>1. CASE Period > 0
    BY <1>2, <1>3, <2>1 DEF FileToRestore
  <2>2. CASE ~(Period > 0)
    <3>1. f = Missing
      BY <1>3, <2>2 DEF FileToRestore
    <3> QED
      BY <2>2, <3>1, EmptyRestores
  <2> QED
    BY <2>1, <2>2
<1>3b. /\ Core' /\ Memory'
       /\ DOMAIN dogs' \subseteq DOMAIN f.dogs
       /\ \/ halfRestored'
          \/ /\ dogs' = f.dogs /\ tokens' = TokensOf(f.players)
             /\ halfRestored' = halfRestored
       /\ DOMAIN tokens' \subseteq TokensIn(f)
  <2>1. Restore(f, config')
    BY <1>1, <1>3
  <2>2. PICK maps : maps = config'
    OBVIOUS
  <2>3. Restore(f, maps)
    BY <2>1, <2>2
  <2> QED
    BY <1>1, <1>2, <1>3a, <2>3, RestoreKeeps
<1>4. Restores(file)' /\ TokensIn(file)' = TokensIn(file)
  <2>1. file' = file /\ joins' \in Nat /\ joins <= joins' /\ born \subseteq born'
    BY <1>1, <1>2
  <2> QED
    BY <1>2, <2>1, FileKept
<1>5. NobodyOrphaned'
  <2> SUFFICES ASSUME ~halfRestored'
               PROVE  NoOrphans' /\ DOMAIN file'.dogs \subseteq TokensIn(file)'
    BY DEF NobodyOrphaned
  <2>1. dogs' = f.dogs /\ tokens' = TokensOf(f.players) /\ ~halfRestored
    BY <1>3b
  <2>2. DOMAIN TokensOf(f.players) = TokensIn(f)
    BY <1>3a, TokensRestored
  <2>3. DOMAIN file.dogs \subseteq TokensIn(file) /\ DOMAIN f.dogs \subseteq TokensIn(f)
    BY <1>3a, <2>1 DEF ServerInv, NobodyOrphaned
  <2> QED
    BY <1>1, <1>4, <2>1, <2>2, <2>3 DEF NoOrphans
<1>6. ServerRanges'
  <2>1. 0 \in 0..Period /\ (Period > 0 => 0 < Period)
    BY ServerAssumptions
  <2>2. halfRestored' \in BOOLEAN
    BY <1>1 DEF Restore
  <2> QED
    BY <1>1, <1>2, <2>1, <2>2 DEF ServerRanges
<1>7. OnFile'
  <2>1. Period > 0 => DOMAIN dogs' \subseteq DOMAIN file.dogs /\ DOMAIN tokens' \subseteq TokensIn(file)
    BY <1>3a, <1>3b
  <2> QED
    BY <1>1, <1>4, <2>1 DEF OnFile
<1>8. FileOfTheStopped'
  BY <1>1 DEF ServerInv, FileOfTheStopped
<1>9. CareersGoOn'
  <2> SUFFICES ASSUME Clean'
               PROVE  SavedOnceAndGone' /\ (Period > 0 => NoDogVanishes')
    BY <1>1 DEF CareersGoOn
  <2>1. Clean /\ dogs' = f.dogs
    BY <1>1, <1>3b DEF Clean
  <2>2. SavedOnceAndGone /\ (Period > 0 => NoDogVanishes)
    BY <2>1 DEF ServerInv, CareersGoOn
  <2>3. CASE process = "stopped"
    <3>1. DOMAIN dogs' = DOMAIN dogs
      BY <1>3a, <2>1, <2>3 DEF ServerInv, FileOfTheStopped, AppRepr
    <3> QED
      BY <1>1, <2>2, <3>1 DEF SavedOnceAndGone, NoDogVanishes
  <2>4. CASE process = "down"
    <3>1. DOMAIN dogs' = {} /\ (Period > 0 => born = {})
      BY <1>3a, <2>1, <2>4 DEF ServerInv, CareersGoOn
    <3> QED
      BY <1>1, <2>2, <3>1 DEF SavedOnceAndGone, NoDogVanishes
  <2> QED
    BY <1>1, <1>2, <2>3, <2>4 DEF ServerRanges
<1> QED
  BY <1>3b, <1>4, <1>5, <1>6, <1>7, <1>8, <1>9 DEF ServerInv

-----------------------------------------------------------------------------
(* The theorems.                                                           *)

\* ServerInv holds of every step.
LEMMA ServerStep ==
  ASSUME ServerInv, [ServerNext]_allVars
  PROVE  ServerInv'
<1>1. CASE UNCHANGED allVars
  <2>1. /\ UNCHANGED <<sessions, dogs, players, tokens, rows, joins, born, saveFailed>>
        /\ UNCHANGED <<process, config, file, elapsed, crashes, stops, diskFailed, cutShort,
                       halfRestored, age>>
    BY <1>1 DEF allVars, vars, server
  <2>2. Core' /\ Memory'
    BY <2>1 DEF ServerInv, Core, TypeOK, RegistryMirrored, DogsMatchPlayers, CareersBegun,
           OneSessionPerMap, Memory
  <2>3. Restores(file)' /\ NobodyOrphaned'
    BY <2>1 DEF ServerInv, Restores, NobodyOrphaned, NoOrphans, TokensIn
  <2>4. ServerRanges' /\ OnFile'
    BY <2>1 DEF ServerInv, ServerRanges, OnFile, TokensIn
  <2>5. FileOfTheStopped'
    BY <2>1 DEF ServerInv, FileOfTheStopped, AppRepr
  <2>6. CareersGoOn'
    BY <2>1 DEF ServerInv, CareersGoOn, Clean, SavedOnceAndGone, NoDogVanishes
  <2> QED
    BY <2>2, <2>3, <2>4, <2>5, <2>6 DEF ServerInv
<1>2. ASSUME NEW m \in Maps, NEW fits \in NameFits, Join(m, fits)
      PROVE  ServerInv'
  BY <1>2, JoinKeepsServerInv
<1>3. ASSUME NEW t \in DOMAIN tokens, NEW go \in BOOLEAN, Action(t, go)
      PROVE  ServerInv'
  BY <1>3, ActionKeepsServerInv
<1>4. ASSUME NEW d \in Deltas, ServerTick(d)
      PROVE  ServerInv'
  BY <1>4, ServerTickKeepsServerInv
<1>5. ASSUME NEW d \in Deltas, TickWithoutSave(d)
      PROVE  ServerInv'
  BY <1>5, TickWithoutSaveKeepsServerInv
<1>6. ASSUME NEW d \in Deltas, TickOfSessionThrows(d)
      PROVE  ServerInv'
  BY <1>6, SessionThrowsKeepsServerInv
<1>7. CASE Crash \/ CrashInSave
  BY <1>7, CrashKeepsServerInv
<1>8. ASSUME NEW d \in Deltas, CrashInRetireDogs(d)
      PROVE  ServerInv'
  BY <1>8, CrashInRetireDogsKeepsServerInv
<1>9. CASE Stop
  BY <1>9, StopKeepsServerInv
<1>10. CASE Start
  BY <1>10, StartKeepsServerInv
<1> QED
  BY <1>1, <1>2, <1>3, <1>4, <1>5, <1>6, <1>7, <1>8, <1>9, <1>10 DEF ServerNext

\* The inductive invariant: what is in memory is the sound core of App's, what is
\* on file can be made into it again, and as long as nothing has failed the
\* two together hold every career once.
THEOREM ServerInvariance == ServerSpec => []ServerInv
<1>1. ServerInit => ServerInv
  BY InitServerInv
<1>2. ServerInv /\ [ServerNext]_allVars => ServerInv'
  BY ServerStep
<1> QED
  BY <1>1, <1>2, PTL DEF ServerSpec

\* The types of App and of the Autosaver, and that between ticks elapsed_ has not
\* reached the period unless a Save has thrown (Autosaver::OnTick).
THEOREM ServerTypes == ServerSpec => []ServerTypeOK
<1>1. ServerInv => ServerTypeOK
  <2> SUFFICES ASSUME ServerInv PROVE ServerTypeOK
    OBVIOUS
  <2>1. file \in Archives
    BY DEF ServerInv, Restores, Archives
  <2> QED
    BY <2>1 DEF ServerInv, Core, ServerRanges, ServerTypeOK
<1> QED
  BY <1>1, ServerInvariance, PTL

\* Whatever crashes and restarts there were, the registry is mirrored; a game
\* that was never half restored has no orphans; and without orphans a token
\* steers its dog, and no other, for any value read through end() by Players::Add.
THEOREM PlayersKeepTheirDogs == ServerSpec => []PlayersStayInControl
<1>1. ServerInv => PlayersStayInControl
  <2> SUFFICES ASSUME ServerInv PROVE PlayersStayInControl
    OBVIOUS
  <2>1. RegistryMirrored
    BY DEF ServerInv, Core
  <2>2. ~halfRestored => Orphaned = {}
    BY DEF ServerInv, NobodyOrphaned, NoOrphans, Orphaned
  <2>3. Orphaned = {} => TokenSteersOnlyItsDog /\ EveryDogIsSteerable
    <3>1. Orphaned = {} => NoOrphans
      BY DEF NoOrphans, Orphaned
    <3>2. Core
      BY DEF ServerInv
    <3> QED
      BY <3>1, <3>2, TokensFindTheirDogs
  <2> QED
    BY <2>1, <2>2, <2>3 DEF PlayersStayInControl
<1> QED
  BY <1>1, ServerInvariance, PTL

\* What a crash can cost is bounded by the save period: a dog that has played for
\* a whole period is in the state file, with its player (Autosaver::OnTick,
\* which saves before it retires).
THEOREM CrashesCostAPeriod == ServerSpec => []EstablishedDogsAreOnFile
<1>1. ServerInv => EstablishedDogsAreOnFile
  <2> SUFFICES ASSUME ServerInv, process = "running", Period > 0, ~cutShort,
                      NEW b \in DOMAIN dogs, age[b] >= Period
               PROVE  /\ b \in DOMAIN file.dogs
                      /\ b \in DOMAIN tokens =>
                           \E i \in DOMAIN file.players : file.players[i].token = b
    BY DEF EstablishedDogsAreOnFile
  <2>1. elapsed < Period /\ elapsed \in Nat /\ Period \in Nat
    BY ServerAssumptions DEF ServerInv, OnFile, ServerRanges
  <2>2. age[b] \in Nat
    BY DogsAreTheSame, Assumptions DEF ServerInv, Core, TypeOK, ServerRanges, Births
  <2>3. age[b] > elapsed
    BY <2>1, <2>2
  <2>4. b \in DOMAIN file.dogs /\ (b \in DOMAIN tokens => b \in TokensIn(file))
    BY <2>3 DEF ServerInv, OnFile
  <2> QED
    BY <2>4 DEF TokensIn
<1> QED
  BY <1>1, ServerInvariance, PTL

\* A stop and a start never bring back a retired dog: only a failure can write a
\* career into retired_players twice.
THEOREM StopsRepeatNoRow == ServerSpec => []OrderlyStopsRepeatNoRow
<1>1. ServerInv => OrderlyStopsRepeatNoRow
  BY DEF ServerInv, CareersGoOn, Clean, SavedOnceAndGone, OrderlyStopsRepeatNoRow
<1> QED
  BY <1>1, ServerInvariance, PTL

\* Nor does any number of stops and starts lose a dog that has no row.
THEOREM StopsLoseNobody == ServerSpec => []OrderlyStopsLoseNobody
<1>1. ServerInv => OrderlyStopsLoseNobody
  BY DEF ServerInv, CareersGoOn, Clean, OrderlyStopsLoseNobody
<1> QED
  BY <1>1, ServerInvariance, PTL

\* Going through RetireDogs dog by dog comes to what App says of it at once: while
\* the process runs and nobody is an orphan, the server takes App's steps.
THEOREM ServerRunsApp == ServerSpec => RunsAsApp
<1> DEFINE A == process = "running" /\ process' = "running" /\ Orphaned = {} =>
                  Next \/ (diskFailed' /\ cutShort')
<1>1. ServerInv /\ [ServerNext]_allVars => [A]_vars
  <2> SUFFICES ASSUME ServerInv, [ServerNext]_allVars, vars' # vars, process = "running",
                      process' = "running", Orphaned = {}
               PROVE  Next \/ (diskFailed' /\ cutShort')
    OBVIOUS
  <2>1. Core /\ Memory /\ NoOrphans
    BY DEF ServerInv, NoOrphans, Orphaned
  <2>2. ~UNCHANGED allVars
    BY DEF allVars
  <2>3. ASSUME NEW m \in Maps, NEW fits \in NameFits, Join(m, fits)
        PROVE  Next
    BY <2>3 DEF Join, Next
  <2>4. ASSUME NEW t \in DOMAIN tokens, NEW go \in BOOLEAN, Action(t, go)
        PROVE  Next
    BY <2>4 DEF Action, Next
  <2>5. ASSUME NEW d \in Deltas, ServerTick(d)
        PROVE  Next
    BY <2>1, <2>5, ServerTickIsTick DEF Next
  <2>6. ASSUME NEW d \in Deltas, TickWithoutSave(d)
        PROVE  diskFailed' /\ cutShort'
    BY <2>6 DEF TickWithoutSave, SaveThrows
  <2>7. ASSUME NEW d \in Deltas, TickOfSessionThrows(d)
        PROVE  Next
    BY <2>7 DEF TickOfSessionThrows, Next
  <2>8. ~(Crash \/ CrashInSave \/ Stop \/ Start)
    BY DEF Crash, CrashInSave, Dies, Stop, Start
  <2>9. \A d \in Deltas : ~CrashInRetireDogs(d)
    BY DEF CrashInRetireDogs, Dies
  <2> QED
    BY <2>2, <2>3, <2>4, <2>5, <2>6, <2>7, <2>8, <2>9 DEF ServerNext
<1>2. ServerSpec => [][A]_vars
  BY <1>1, ServerInvariance, PTL DEF ServerSpec
<1> QED
  BY <1>2 DEF RunsAsApp

\* The game that is started after an orderly stop is the one that was stopped,
\* if its maps are still there (Autosaver::Restore, AppRepr).
THEOREM StopAndStartIsTheSameGame == ServerSpec => StopAndStartKeepTheGame
<1> DEFINE A == process = "stopped" /\ Range(sessions) \subseteq config' =>
                  /\ UNCHANGED <<sessions, players, tokens>>
                  /\ dogs' = [b \in DOMAIN dogs |-> DogRepr(dogs[b])]
<1>1. ServerInv /\ [ServerNext]_allVars => [A]_allVars
  <2> SUFFICES ASSUME ServerInv, ServerNext, process = "stopped",
                      Range(sessions) \subseteq config'
               PROVE  /\ UNCHANGED <<sessions, players, tokens>>
                      /\ dogs' = [b \in DOMAIN dogs |-> DogRepr(dogs[b])]
    OBVIOUS
  <2>1. Start
    BY DEF ServerNext, Join, Action, ServerTick, TickWithoutSave, TickOfSessionThrows,
           Crash, CrashInSave, CrashInRetireDogs, Dies, Stop
  <2>2. file = AppRepr(dogs) /\ Period > 0 /\ Memory /\ Core /\ Restores(file)
    BY DEF ServerInv, FileOfTheStopped
  <2>3. /\ file.sessions = sessions /\ file.players = players
        /\ file.dogs = [b \in DOMAIN dogs |-> DogRepr(dogs[b])]
    BY <2>2 DEF AppRepr
  <2>4. Restorable(file, config') = DOMAIN file.sessions
    BY <2>3 DEF Restorable, Range
  <2>5. /\ sessions' = Restrict(file.sessions, DOMAIN file.sessions)
        /\ dogs' = Restrict(file.dogs, {b \in DOMAIN file.dogs :
                                         file.dogs[b].sess \in DOMAIN file.sessions})
        /\ players' = file.players /\ tokens' = TokensOf(file.players)
    BY <2>1, <2>2, <2>4 DEF Start, FileToRestore, Restore, RestoreSessions
  <2>6. {b \in DOMAIN file.dogs : file.dogs[b].sess \in DOMAIN file.sessions}
          = DOMAIN file.dogs
    BY <2>2 DEF Restores
  <2>7. sessions' = sessions /\ dogs' = file.dogs
    BY <2>2, <2>3, <2>5, <2>6 DEF Restrict, Restores
  <2>8. tokens' = tokens
    <3>1. /\ DOMAIN tokens' = TokensIn(file) /\ tokens' = [t \in DOMAIN tokens' |-> tokens'[t]]
          /\ \A i \in DOMAIN players : tokens'[players[i].token] = players[i]
      BY <2>2, <2>3, <2>5, TokensRestored
    <3>2. TokensIn(file) = DOMAIN tokens
      BY <2>2, DogsAreTheSame, SavedRestores
    <3>3. \A t \in DOMAIN tokens : /\ tokens[t].id \in DOMAIN players
                                  /\ players[tokens[t].id] = tokens[t] /\ tokens[t].token = t
      BY <2>2 DEF Core, RegistryMirrored
    <3>4. \A t \in DOMAIN tokens : tokens'[t] = tokens[t]
      BY <3>1, <3>3
    <3> QED
      BY <2>2, <3>1, <3>2, <3>4 DEF Memory
  <2> QED
    BY <2>3, <2>5, <2>7, <2>8
<1>2. ServerSpec => [][A]_allVars
  BY <1>1, ServerInvariance, PTL DEF ServerSpec
<1> QED
  BY <1>2, PTL DEF StopAndStartKeepTheGame
=============================================================================
